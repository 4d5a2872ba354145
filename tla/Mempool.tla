------------------------------ MODULE Mempool ------------------------------
(***************************************************************************)
(* mempool.Mempool of every node, over the ledger it reads LastNonce from. *)
(* Mempool.mu and Chain.mu are independent: Add reads a watermark that a   *)
(* CommitBlock under way may have moved already.                           *)
(*                                                                         *)
(* The clock is only in two places: a signed transaction ages past         *)
(* MaxClockSkew, and a sender's token bucket refills.                      *)
(***************************************************************************)
EXTENDS Ledger, FiniteSets

CONSTANTS
  MaxPoolSize,  \* mempool.MaxPoolSize
  Burst         \* rateBucketBurst

ASSUME MempoolAssumption ==
  /\ MaxPoolSize \in Nat
  /\ Burst \in Nat

VARIABLES
  pool,     \* pool[n]: Mempool.byHash, a transaction known by its sender and nonce
  pending,  \* pending[n][s]: Mempool.pending, the highest nonce n has admitted
  tokens,   \* tokens[n][s]: what is left in the rate limiter of s
  aged      \* the transactions whose timestamp is out of the freshness window

poolVars == <<pool, pending, tokens, aged>>
mempoolVars == <<ledgerVars, poolVars>>

PoolInit ==
  /\ pool = [n \in Node |-> {}]
  /\ pending = [n \in Node |-> [s \in Sender |-> 0]]
  /\ tokens = [n \in Node |-> [s \in Sender |-> Burst]]
  /\ aged = {}

-----------------------------------------------------------------------------
(* Add.                                                                    *)

\* Mutant: only pending transactions count.
FloorPending(n, s) == pending[n][s]

\* The floor: every nonce up to it is replayed or stale.
Floor(n, s) == IF pending[n][s] > nonces[n][s] THEN pending[n][s]
                                               ELSE nonces[n][s]

\* Refused before the rate limiter is asked.
RefusedEarly(n, tx) == tx \in aged \/ Cardinality(pool[n]) >= MaxPoolSize

\* A refusal by the limiter or before it leaves the mempool as it was; after
\* it, even a refused transaction has cost its sender a token.
Add(n, tx) ==
  \/ /\ RefusedEarly(n, tx) \/ tokens[n][tx.from] = 0
     /\ UNCHANGED <<pool, pending, tokens, aged>>
  \/ /\ ~ RefusedEarly(n, tx) /\ tokens[n][tx.from] > 0
     /\ tokens' = [tokens EXCEPT ![n][tx.from] = @ - 1]
     /\ IF tx.nonce <= Floor(n, tx.from)
        THEN UNCHANGED <<pool, pending>>
        ELSE /\ pool' = [pool EXCEPT ![n] = @ \cup {tx}]
             /\ pending' = [pending EXCEPT ![n][tx.from] = tx.nonce]
     /\ UNCHANGED aged

-----------------------------------------------------------------------------
(* Propose and Remove, and what the commit of a block does to the pool.    *)

\* b is what Propose returns: the first transactions of the pool in its order,
\* as many as fit into a block.
Propose(n, b) ==
  LET taken == {b[i] : i \in DOMAIN b}
  IN /\ taken \subseteq pool[n]
     /\ Len(b) = IF Cardinality(pool[n]) < BlockMaxTxs
                 THEN Cardinality(pool[n]) ELSE BlockMaxTxs
     /\ \A tx \in pool[n] \ taken, t \in taken : TxBefore(t, tx)

\* Mutant: the senders of a removed block start again from zero.
RemoveAndForget(n, b) ==
  /\ pool' = [pool EXCEPT ![n] = @ \ {b[i] : i \in DOMAIN b}]
  /\ pending' = [pending EXCEPT ![n] =
       [s \in Sender |-> IF \E i \in DOMAIN b : b[i].from = s THEN 0 ELSE @[s]]]
  /\ UNCHANGED <<tokens, aged>>

\* The transactions of a committed block leave the pool; the floors stay.
Remove(n, b) ==
  /\ pool' = [pool EXCEPT ![n] = @ \ {b[i] : i \in DOMAIN b}]
  /\ UNCHANGED <<pending, tokens, aged>>

\* CommitBlock succeeds and the caller removes the block's transactions.
PoolPutBlock(n) == PutBlock(n) /\ Remove(n, call[n].block)

\* The pool, the floors and the limiters are in memory.
PoolCrash(n) ==
  /\ Crash(n)
  /\ pool' = [pool EXCEPT ![n] = {}]
  /\ pending' = [pending EXCEPT ![n] = [s \in Sender |-> 0]]
  /\ tokens' = [tokens EXCEPT ![n] = [s \in Sender |-> Burst]]
  /\ UNCHANGED aged

-----------------------------------------------------------------------------
(* The clock.                                                              *)

Refill(n, s) ==
  /\ tokens[n][s] < Burst
  /\ tokens' = [tokens EXCEPT ![n][s] = @ + 1]
  /\ UNCHANGED <<ledgerVars, pool, pending, aged>>

Age(tx) ==
  /\ tx \notin aged
  /\ aged' = aged \cup {tx}
  /\ UNCHANGED <<ledgerVars, pool, pending, tokens>>

MempoolInit == LedgerInit /\ PoolInit

\* The mempool in the hands of anybody: any transaction may be added, and any
\* certified block committed, at any time.
MempoolNext ==
  \/ \E n \in Node :
       \/ \E tx \in Tx : Add(n, tx) /\ UNCHANGED ledgerVars
       \/ \E b \in Block : BeginCommit(n, b) /\ UNCHANGED poolVars
       \/ (ApplyTx(n) \/ RejectTx(n)) /\ UNCHANGED poolVars
       \/ PoolPutBlock(n)
       \/ PoolCrash(n)
       \/ \E s \in Sender : Refill(n, s)
  \/ \E tx \in Tx : Age(tx)

MempoolSpec == MempoolInit /\ [][MempoolNext]_mempoolVars
-----------------------------------------------------------------------------
(* Properties.                                                             *)

\* Every variable has its type; a bucket never runs below zero.
PoolTypeOK ==
  /\ pool \in [Node -> SUBSET Tx]
  /\ pending \in [Node -> [Sender -> 0 .. MaxNonce]]
  /\ tokens \in [Node -> [Sender -> 0 .. Burst]]
  /\ aged \in SUBSET Tx

\* A transaction that is committed is not in the pool, and does not come back
\* however often it is gossiped again, also after a restart has emptied the
\* pool and the floors (mempool.go:94-105, pbft.go:215).
CommittedLeavesPool ==
  \A n \in Node : pool[n] \cap CommittedTxs(n) = {}

\* While a node lives it never takes back a refusal for a nonce: not when the
\* transactions that raised the floor are committed and removed, and not when
\* a commit fails half way (mempool.go:98-105).
FloorNeverFalls ==
  [][\A n \in Node : crashes'[n] = crashes[n] =>
       \A s \in Sender : Floor(n, s)' >= Floor(n, s)]_mempoolVars
=============================================================================
