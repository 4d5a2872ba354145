------------------------------- MODULE Ledger -------------------------------
(***************************************************************************)
(* blockchain.Chain over storage.Store: how a certified block becomes      *)
(* durable.  CommitBlock holds Chain.mu, but writes the store several      *)
(* times: the nonce of each transaction is a Badger transaction of its own *)
(* (SetLastNonce), and the block with the head another (PutBlock).  A node *)
(* may die between any two of them, and a transaction of the block may     *)
(* turn out stale after those before it were written.                      *)
(*                                                                         *)
(* A sender is its rank among the hex addresses, which Mempool.Propose     *)
(* sorts by.  A block is its transactions; the checks of chain.go:110-122  *)
(* on its height, its PrevHash and its signatures are module Voting's      *)
(* subject, and the blocks offered here have passed them.                  *)
(***************************************************************************)
EXTENDS Integers, Sequences

CONSTANTS
  Node,         \* the nodes, validators and relays alike
  Senders,      \* number of wallets that send
  MaxNonce,     \* bound: how many transactions a wallet signs
  BlockMaxTxs,  \* Config.BlockMaxTxs
  MaxHeight,    \* bound: blocks committed by one node
  MaxCrashes    \* bound: crashes of one node

ASSUME LedgerAssumption ==
  /\ Senders \in Nat
  /\ MaxNonce \in Nat
  /\ BlockMaxTxs \in Nat
  /\ MaxHeight \in Nat
  /\ MaxCrashes \in Nat

VARIABLES
  blocks,   \* blocks[n]: the blocks above genesis in n's store; the last is
            \* the head, and the tip whenever Chain.mu is free
  nonces,   \* nonces[n][s]: LastNonce(s) in n's store
  call,     \* call[n]: the CommitBlock that holds n's Chain.mu
  crashes   \* crashes[n]: how often n has died

ledgerVars == <<blocks, nonces, call, crashes>>

Sender == 1 .. Senders
Nonce  == 1 .. MaxNonce
Tx     == [from : Sender, nonce : Nonce]

\* The order of Mempool.Propose.
TxBefore(a, b) == a.from < b.from \/ (a.from = b.from /\ a.nonce < b.nonce)

\* What a proposer puts in a block.
Block == {b \in UNION {[1 .. k -> Tx] : k \in 0 .. BlockMaxTxs} :
            \A i, j \in DOMAIN b : i < j => TxBefore(b[i], b[j])}

\* next is the transaction CommitBlock is about to look at.
Call == [block : Block, next : 1 .. BlockMaxTxs + 1]

NoCall == [block |-> <<>>, next |-> 0]

Height(n) == Len(blocks[n])

LedgerInit ==
  /\ blocks = [n \in Node |-> <<>>]
  /\ nonces = [n \in Node |-> [s \in Sender |-> 0]]
  /\ call = [n \in Node |-> NoCall]
  /\ crashes = [n \in Node |-> 0]

-----------------------------------------------------------------------------
(* CommitBlock, store write by store write.                                *)

Committing(n) == call[n] # NoCall

NextTx(n) == call[n].block[call[n].next]

TxsLeft(n) == Committing(n) /\ call[n].next <= Len(call[n].block)

\* The checks on height, PrevHash and quorum have passed.
BeginCommit(n, b) ==
  /\ ~ Committing(n)
  /\ Height(n) < MaxHeight
  /\ call' = [call EXCEPT ![n] = [block |-> b, next |-> 1]]
  /\ UNCHANGED <<blocks, nonces, crashes>>

\* Mutant: a transaction with the nonce of the last one is let through.
ApplyTxAgain(n) ==
  /\ TxsLeft(n)
  /\ NextTx(n).nonce >= nonces[n][NextTx(n).from]
  /\ nonces' = [nonces EXCEPT ![n][NextTx(n).from] = NextTx(n).nonce]
  /\ call' = [call EXCEPT ![n].next = @ + 1]
  /\ UNCHANGED <<blocks, crashes>>

\* Mutant: the watermark is left for the end of CommitBlock.
ApplyTxLate(n) ==
  /\ TxsLeft(n)
  /\ NextTx(n).nonce > nonces[n][NextTx(n).from]
  /\ call' = [call EXCEPT ![n].next = @ + 1]
  /\ UNCHANGED <<blocks, nonces, crashes>>

\* A transaction above its sender's watermark moves it, for good.
ApplyTx(n) ==
  /\ TxsLeft(n)
  /\ NextTx(n).nonce > nonces[n][NextTx(n).from]
  /\ nonces' = [nonces EXCEPT ![n][NextTx(n).from] = NextTx(n).nonce]
  /\ call' = [call EXCEPT ![n].next = @ + 1]
  /\ UNCHANGED <<blocks, crashes>>

\* Mutant: a stale transaction is passed over, and the block committed.
SkipTx(n) ==
  /\ TxsLeft(n)
  /\ NextTx(n).nonce <= nonces[n][NextTx(n).from]
  /\ call' = [call EXCEPT ![n].next = @ + 1]
  /\ UNCHANGED <<blocks, nonces, crashes>>

\* A stale transaction fails the whole block; what was written stays.
RejectTx(n) ==
  /\ TxsLeft(n)
  /\ NextTx(n).nonce <= nonces[n][NextTx(n).from]
  /\ call' = [call EXCEPT ![n] = NoCall]
  /\ UNCHANGED <<blocks, nonces, crashes>>

\* PutBlock, and with it the end of CommitBlock.
PutBlock(n) ==
  /\ Committing(n) /\ ~ TxsLeft(n)
  /\ blocks' = [blocks EXCEPT ![n] = Append(@, call[n].block)]
  /\ call' = [call EXCEPT ![n] = NoCall]
  /\ UNCHANGED <<nonces, crashes>>

\* The process dies, and NewChain reads the head of the store again.
Crash(n) ==
  /\ crashes[n] < MaxCrashes
  /\ crashes' = [crashes EXCEPT ![n] = @ + 1]
  /\ call' = [call EXCEPT ![n] = NoCall]
  /\ UNCHANGED <<blocks, nonces>>

LedgerNext ==
  \E n \in Node :
    \/ \E b \in Block : BeginCommit(n, b)
    \/ ApplyTx(n) \/ RejectTx(n) \/ PutBlock(n)
    \/ Crash(n)

LedgerSpec == LedgerInit /\ [][LedgerNext]_ledgerVars
-----------------------------------------------------------------------------
(* Properties.                                                             *)

\* The transactions n has committed.
CommittedTxs(n) ==
  UNION {{blocks[n][h][i] : i \in DOMAIN blocks[n][h]} : h \in DOMAIN blocks[n]}

\* Every variable has its type.
LedgerTypeOK ==
  /\ blocks \in [Node -> Seq(Block)]
  /\ nonces \in [Node -> [Sender -> 0 .. MaxNonce]]
  /\ call \in [Node -> Call \cup {NoCall}]
  /\ crashes \in [Node -> 0 .. MaxCrashes]

\* On every node each wallet's transactions are committed in the order of
\* their nonces and none twice, in one block or in several, although failed
\* and interrupted commits leave watermarks behind (chain.go:124-143).
NoReplay ==
  \A n \in Node : \A h, k \in DOMAIN blocks[n] :
    \A i \in DOMAIN blocks[n][h], j \in DOMAIN blocks[n][k] :
      LET a == blocks[n][h][i]
          b == blocks[n][k][j]
      IN (a.from = b.from /\ (h < k \/ (h = k /\ i < j))) => a.nonce < b.nonce

\* A node's store never forgets a nonce it has committed, whenever the
\* process dies (SetLastNonce before PutBlock, chain.go:135-140).
WatermarkCovers ==
  \A n \in Node : \A tx \in CommittedTxs(n) : tx.nonce <= nonces[n][tx.from]
=============================================================================
