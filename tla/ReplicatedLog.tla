--------------------------- MODULE ReplicatedLog ---------------------------
(***************************************************************************)
(* What a network of nodes promises, whatever it does to keep the promise: *)
(* one log of blocks that is only ever appended to, by its writers, and of *)
(* which every replica holds the beginning.  Nothing a replica holds is    *)
(* ever taken back, no writer is left behind by more than the last block,  *)
(* and a wallet's transactions enter the log in the order of their nonces. *)
(***************************************************************************)
EXTENDS Integers, Sequences

CONSTANTS
  Replica,  \* who holds a copy
  Writer,   \* the replicas that append
  Entry     \* the blocks, each a sequence of transactions

VARIABLES
  log,   \* the log
  copy   \* copy[r]: what replica r holds of it

logVars == <<log, copy>>

\* No transaction comes before one of its sender with a lower nonce.
Ordered(l) ==
  \A h, k \in DOMAIN l : \A i \in DOMAIN l[h], j \in DOMAIN l[k] :
    (l[h][i].from = l[k][j].from /\ (h < k \/ (h = k /\ i < j)))
      => l[h][i].nonce < l[k][j].nonce

LogInit ==
  /\ log = <<>>
  /\ copy = [r \in Replica |-> <<>>]

\* A writer appends a block, when every writer holds the whole log.
Extend(w) ==
  /\ \A v \in Writer : copy[v] = log
  /\ \E e \in Entry : log' = Append(log, e)
  /\ Ordered(log')
  /\ copy' = [copy EXCEPT ![w] = log']

\* A replica takes the next block of the log.
Follow(r) ==
  /\ Len(copy[r]) < Len(log)
  /\ copy' = [copy EXCEPT ![r] = SubSeq(log, 1, Len(@) + 1)]
  /\ UNCHANGED log

LogNext ==
  \/ \E w \in Writer : Extend(w)
  \/ \E r \in Replica : Follow(r)

LogSpec == LogInit /\ [][LogNext]_logVars
=============================================================================
