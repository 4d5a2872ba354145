--------------------------- MODULE MempoolProofs ---------------------------
(***************************************************************************)
(* Theorems about Ledger, a node's store that is safe against replay       *)
(* whatever blocks it is given and wherever its commits are cut short, and *)
(* about Mempool, the pool over it, for any number of senders, nonces,     *)
(* heights and crashes.                                                    *)
(***************************************************************************)
EXTENDS Mempool, TLAPS

-----------------------------------------------------------------------------
(* Types.                                                                  *)

LEMMA BlockType ==
  ASSUME NEW b \in Block
  PROVE  /\ b \in Seq(Tx)
         /\ Len(b) \in 0 .. BlockMaxTxs
         /\ DOMAIN b = 1 .. Len(b)
         /\ \A i \in DOMAIN b : b[i] \in Tx /\ b[i].from \in Sender /\ b[i].nonce \in Nat
<1>1. PICK k \in 0 .. BlockMaxTxs : b \in [1 .. k -> Tx]
  BY DEF Block
<1>2. k \in Nat
  BY LedgerAssumption
<1>3. b \in Seq(Tx) /\ Len(b) = k
  BY <1>1, <1>2
<1> QED BY <1>1, <1>2, <1>3 DEF Tx, Nonce

\* A commit under way looks at one of its transactions, or has seen them all.
LEMMA CallType ==
  ASSUME LedgerTypeOK, NEW n \in Node, Committing(n)
  PROVE  /\ call[n] \in Call
         /\ call[n].block \in Block
         /\ call[n].next \in 1 .. BlockMaxTxs + 1
         /\ TxsLeft(n) => /\ call[n].next \in DOMAIN call[n].block
                          /\ NextTx(n) \in Tx
<1>1. call[n] \in Call
  BY DEF LedgerTypeOK, Committing
<1>2. call[n].block \in Block /\ call[n].next \in 1 .. BlockMaxTxs + 1
  BY <1>1 DEF Call
<1> QED BY <1>1, <1>2, BlockType, LedgerAssumption DEF TxsLeft, NextTx

LEMMA LedgerTypeStep == LedgerTypeOK /\ [LedgerNext]_ledgerVars => LedgerTypeOK'
<1> SUFFICES ASSUME LedgerTypeOK, [LedgerNext]_ledgerVars PROVE LedgerTypeOK'
  OBVIOUS
<1>1. ASSUME NEW n \in Node, NEW b \in Block, BeginCommit(n, b)
      PROVE  LedgerTypeOK'
  <2>1. [block |-> b, next |-> 1] \in Call
    BY LedgerAssumption DEF Call
  <2> QED BY <1>1, <2>1 DEF LedgerTypeOK, BeginCommit
<1>2. ASSUME NEW n \in Node, ApplyTx(n) PROVE LedgerTypeOK'
  <2>1. Committing(n) /\ TxsLeft(n)
    BY <1>2 DEF ApplyTx, TxsLeft
  <2>2. NextTx(n) \in Tx /\ call[n] \in Call
    BY <2>1, CallType
  <2>3. [call[n] EXCEPT !.next = @ + 1] \in Call
    BY <2>1, CallType, BlockType, LedgerAssumption DEF TxsLeft, Call
  <2>4. call' = [call EXCEPT ![n] = [call[n] EXCEPT !.next = @ + 1]]
    BY <1>2 DEF ApplyTx
  <2>5. nonces' \in [Node -> [Sender -> 0 .. MaxNonce]]
    BY <1>2, <2>2 DEF ApplyTx, Tx, Nonce, LedgerTypeOK
  <2> QED BY <1>2, <2>3, <2>4, <2>5 DEF LedgerTypeOK, ApplyTx
<1>3. ASSUME NEW n \in Node, RejectTx(n) PROVE LedgerTypeOK'
  BY <1>3 DEF LedgerTypeOK, RejectTx
<1>4. ASSUME NEW n \in Node, PutBlock(n) PROVE LedgerTypeOK'
  <2>1. call[n].block \in Block
    BY <1>4, CallType DEF PutBlock
  <2>2. Append(blocks[n], call[n].block) \in Seq(Block)
    BY <2>1 DEF LedgerTypeOK
  <2> QED BY <1>4, <2>2 DEF LedgerTypeOK, PutBlock
<1>5. ASSUME NEW n \in Node, Crash(n) PROVE LedgerTypeOK'
  BY <1>5, LedgerAssumption DEF LedgerTypeOK, Crash
<1>6. CASE UNCHANGED ledgerVars
  BY <1>6 DEF LedgerTypeOK, ledgerVars
<1> QED BY <1>1, <1>2, <1>3, <1>4, <1>5, <1>6 DEF LedgerNext

\* In every behaviour the store and the commit under way have their types.
THEOREM LedgerTypeCorrect == LedgerSpec => []LedgerTypeOK
<1>1. LedgerInit => LedgerTypeOK
  BY LedgerAssumption DEF LedgerInit, LedgerTypeOK
<1> QED BY <1>1, LedgerTypeStep, PTL DEF LedgerSpec

-----------------------------------------------------------------------------
(* The inductive invariant.  NoReplay speaks of committed blocks only; it  *)
(* is kept because a transaction that CommitBlock has let through is above *)
(* everything its sender has committed, and stays so until the block is    *)
(* put: Chain.mu lets no other block in between.                           *)

\* The transactions of its block that n's CommitBlock has let through.
LetThrough(n) ==
  {call[n].block[j] : j \in {i \in DOMAIN call[n].block : i < call[n].next}}

InFlight ==
  \A n \in Node : Committing(n) =>
    \A t \in LetThrough(n) :
      /\ t.nonce <= nonces[n][t.from]
      /\ \A c \in CommittedTxs(n) : c.from = t.from => c.nonce < t.nonce

LedgerInv == LedgerTypeOK /\ NoReplay /\ WatermarkCovers /\ InFlight

LEMMA CommittedType ==
  ASSUME LedgerTypeOK, NEW n \in Node
  PROVE  /\ blocks[n] \in Seq(Block)
         /\ DOMAIN blocks[n] = 1 .. Height(n) /\ Height(n) \in Nat
         /\ \A h \in DOMAIN blocks[n] : blocks[n][h] \in Block
         /\ CommittedTxs(n) \subseteq Tx
<1>1. blocks[n] \in Seq(Block) /\ Height(n) \in Nat
  BY DEF LedgerTypeOK, Height
<1>2. DOMAIN blocks[n] = 1 .. Height(n)
  BY <1>1 DEF Height
<1>3. \A h \in DOMAIN blocks[n] : blocks[n][h] \in Block
  BY <1>1, <1>2 DEF Height
<1> QED BY <1>1, <1>2, <1>3, BlockType DEF CommittedTxs

LEMMA LetThroughType ==
  ASSUME LedgerTypeOK, NEW n \in Node, Committing(n)
  PROVE  LetThrough(n) \subseteq Tx
BY CallType, BlockType DEF LetThrough

\* What PutBlock does to a node's chain.
LEMMA PutBlockEffect ==
  ASSUME LedgerTypeOK, NEW n \in Node, PutBlock(n)
  PROVE  /\ \A m \in Node : m # n => blocks'[m] = blocks[m]
         /\ DOMAIN blocks'[n] = 1 .. Height(n) + 1
         /\ \A h \in 1 .. Height(n) : blocks'[n][h] = blocks[n][h]
         /\ blocks'[n][Height(n) + 1] = call[n].block
         /\ {call[n].block[i] : i \in DOMAIN call[n].block} = LetThrough(n)
         /\ CommittedTxs(n)' = CommittedTxs(n) \cup LetThrough(n)
<1>1. blocks[n] \in Seq(Block) /\ Height(n) \in Nat /\ Height(n) = Len(blocks[n])
  BY CommittedType DEF Height
<1>2. Committing(n) /\ call[n].block \in Block
  BY CallType DEF PutBlock
<1>3. blocks' = [blocks EXCEPT ![n] = Append(blocks[n], call[n].block)]
  BY DEF PutBlock
<1>4. blocks'[n] = Append(blocks[n], call[n].block)
  BY <1>3 DEF LedgerTypeOK
<1>5. /\ DOMAIN blocks'[n] = 1 .. Height(n) + 1
      /\ \A h \in 1 .. Height(n) : blocks'[n][h] = blocks[n][h]
      /\ blocks'[n][Height(n) + 1] = call[n].block
  BY <1>1, <1>2, <1>4
<1>6. {call[n].block[i] : i \in DOMAIN call[n].block} = LetThrough(n)
  <2>1. \A i \in DOMAIN call[n].block : i < call[n].next
    BY <1>2, CallType, BlockType, LedgerAssumption DEF PutBlock, TxsLeft
  <2> QED BY <2>1 DEF LetThrough
<1>7. CommittedTxs(n)' = CommittedTxs(n) \cup LetThrough(n)
  <2>1. DOMAIN blocks[n] = 1 .. Height(n)
    BY <1>1
  <2>2. DOMAIN blocks'[n] = DOMAIN blocks[n] \cup {Height(n) + 1}
    BY <1>1, <1>5, <2>1
  <2>3. CommittedTxs(n)' = UNION {{blocks'[n][h][i] : i \in DOMAIN blocks'[n][h]} :
                                    h \in DOMAIN blocks'[n]}
    BY DEF CommittedTxs
  <2>4. ASSUME NEW t
        PROVE  t \in CommittedTxs(n)' <=>
                 \/ \E h \in DOMAIN blocks[n] : t \in {blocks[n][h][i] : i \in DOMAIN blocks[n][h]}
                 \/ t \in {call[n].block[i] : i \in DOMAIN call[n].block}
    BY <1>5, <2>1, <2>2, <2>3
  <2> QED BY <1>6, <2>4 DEF CommittedTxs
<1>8. \A m \in Node : m # n => blocks'[m] = blocks[m]
  BY <1>3 DEF LedgerTypeOK
<1> QED BY <1>5, <1>6, <1>7, <1>8

\* Only PutBlock changes what is committed.
LEMMA BlocksStay ==
  ASSUME [LedgerNext]_ledgerVars
  PROVE  UNCHANGED blocks \/ \E n \in Node : PutBlock(n)
BY DEF LedgerNext, ledgerVars, BeginCommit, ApplyTx, RejectTx, Crash

\* Watermarks only rise.
LEMMA NoncesRise ==
  ASSUME LedgerTypeOK, [LedgerNext]_ledgerVars, NEW n \in Node, NEW s \in Sender
  PROVE  nonces[n][s] <= nonces'[n][s]
<1>0. nonces[n][s] \in Nat
  BY LedgerAssumption DEF LedgerTypeOK
<1>1. ASSUME NEW m \in Node, ApplyTx(m) PROVE nonces[n][s] <= nonces'[n][s]
  <2>1. NextTx(m) \in Tx
    BY <1>1, CallType DEF ApplyTx, TxsLeft
  <2> QED BY <1>0, <1>1, <2>1 DEF ApplyTx, Tx, Nonce, LedgerTypeOK
<1>2. CASE UNCHANGED nonces
  BY <1>0, <1>2
<1> QED
  BY <1>1, <1>2 DEF LedgerNext, ledgerVars, BeginCommit, RejectTx, PutBlock, Crash

LEMMA WatermarkStep ==
  LedgerInv /\ [LedgerNext]_ledgerVars => WatermarkCovers'
<1> SUFFICES ASSUME LedgerInv, [LedgerNext]_ledgerVars,
                    NEW n \in Node, NEW tx \in CommittedTxs(n)'
             PROVE  tx.nonce <= nonces'[n][tx.from]
  BY DEF WatermarkCovers
<1> USE DEF LedgerInv
<1>1. CASE tx \in CommittedTxs(n)
  <2>1. tx \in Tx /\ tx.from \in Sender /\ tx.nonce \in Nat
    BY <1>1, CommittedType DEF Tx, Nonce
  <2>2. tx.nonce <= nonces[n][tx.from]
    BY <1>1 DEF WatermarkCovers
  <2>3. nonces[n][tx.from] \in Nat /\ nonces'[n][tx.from] \in Nat
    BY <2>1, LedgerTypeStep, LedgerAssumption DEF LedgerTypeOK
  <2> QED BY <2>1, <2>2, <2>3, NoncesRise
<1>2. CASE tx \notin CommittedTxs(n)
  <2>1. PICK m \in Node : PutBlock(m)
    BY <1>2, BlocksStay DEF CommittedTxs
  <2>2. m = n
    BY <1>2, <2>1, PutBlockEffect DEF CommittedTxs
  <2>3. tx \in LetThrough(n) /\ Committing(n)
    BY <1>2, <2>1, <2>2, PutBlockEffect DEF PutBlock
  <2> QED BY <2>1, <2>3 DEF InFlight, PutBlock
<1> QED BY <1>1, <1>2

LEMMA InFlightStep ==
  LedgerInv /\ [LedgerNext]_ledgerVars => InFlight'
<1> SUFFICES ASSUME LedgerInv, [LedgerNext]_ledgerVars PROVE InFlight'
  OBVIOUS
<1> USE DEF LedgerInv
\* A node whose own commit does not move keeps what it had.
<1>1. ASSUME NEW n \in Node, UNCHANGED <<call[n], nonces[n], blocks[n]>>,
             Committing(n)', NEW t \in LetThrough(n)'
      PROVE  /\ t.nonce <= nonces'[n][t.from]
             /\ \A c \in CommittedTxs(n)' : c.from = t.from => c.nonce < t.nonce
  BY <1>1 DEF InFlight, Committing, LetThrough, CommittedTxs
<1>2. ASSUME NEW n \in Node, ~ Committing(n)' \/ LetThrough(n)' = {},
             \A m \in Node : m # n => UNCHANGED <<call[m], nonces[m], blocks[m]>>
      PROVE  InFlight'
  BY <1>1, <1>2 DEF InFlight
<1>3. ASSUME NEW n \in Node, NEW b \in Block, BeginCommit(n, b) PROVE InFlight'
  <2>1. call'[n] = [block |-> b, next |-> 1] /\ DOMAIN b = 1 .. Len(b)
    BY <1>3, BlockType DEF BeginCommit, LedgerTypeOK
  <2>2. LetThrough(n)' = {}
    BY <2>1, BlockType DEF LetThrough
  <2> QED BY <1>2, <1>3, <2>2 DEF BeginCommit, LedgerTypeOK
<1>4. ASSUME NEW n \in Node, ApplyTx(n) PROVE InFlight'
  <2> DEFINE x == NextTx(n)
  <2>1. /\ Committing(n) /\ x \in Tx /\ call[n] \in Call
        /\ call[n].next \in DOMAIN call[n].block
        /\ x.nonce > nonces[n][x.from] /\ UNCHANGED blocks
    BY <1>4, CallType DEF ApplyTx, TxsLeft
  <2>2. /\ call'[n].block = call[n].block
        /\ call'[n].next = call[n].next + 1
        /\ nonces'[n] = [nonces[n] EXCEPT ![x.from] = x.nonce]
        /\ \A m \in Node : m # n => UNCHANGED <<call[m], nonces[m], blocks[m]>>
    BY <1>4, <2>1 DEF ApplyTx, LedgerTypeOK, Call
  <2>3. \A t \in LetThrough(n)' : t \in LetThrough(n) \/ t = x
    BY <2>1, <2>2, CallType, BlockType DEF LetThrough, NextTx
  <2>4. CommittedTxs(n)' = CommittedTxs(n)
    BY <2>1 DEF CommittedTxs
  <2>5. ASSUME NEW s \in Sender
        PROVE  /\ nonces[n][s] \in Nat /\ nonces'[n][s] \in Nat
               /\ nonces[n][s] <= nonces'[n][s]
    BY NoncesRise, LedgerTypeStep, LedgerAssumption DEF LedgerTypeOK
  <2>6. ASSUME NEW t \in LetThrough(n)
        PROVE  /\ t.nonce <= nonces'[n][t.from]
               /\ \A c \in CommittedTxs(n) : c.from = t.from => c.nonce < t.nonce
    <3>1. t.from \in Sender /\ t.nonce \in Nat
      BY <2>1, LetThroughType DEF Tx, Nonce
    <3> QED BY <2>1, <2>5, <3>1 DEF InFlight
  <2>7. /\ x.nonce <= nonces'[n][x.from]
        /\ \A c \in CommittedTxs(n) : c.from = x.from => c.nonce < x.nonce
    <3>1. x.from \in Sender /\ x.nonce \in Nat /\ nonces'[n][x.from] = x.nonce
      BY <2>1, <2>2 DEF Tx, Nonce, LedgerTypeOK
    <3>2. ASSUME NEW c \in CommittedTxs(n), c.from = x.from PROVE c.nonce < x.nonce
      <4>1. c.nonce \in Nat /\ c.nonce <= nonces[n][x.from]
        BY <3>2, CommittedType DEF WatermarkCovers, Tx, Nonce
      <4> QED BY <2>1, <2>5, <3>1, <4>1
    <3> QED BY <3>1, <3>2
  <2>8. ASSUME NEW t \in LetThrough(n)'
        PROVE  /\ t.nonce <= nonces'[n][t.from]
               /\ \A c \in CommittedTxs(n)' : c.from = t.from => c.nonce < t.nonce
    <3> HIDE DEF x
    <3> QED BY <2>3, <2>4, <2>6, <2>7
  <2> QED BY <1>1, <2>2, <2>8 DEF InFlight
<1>5. ASSUME NEW n \in Node, RejectTx(n) \/ PutBlock(n) \/ Crash(n) PROVE InFlight'
  <2>1. ~ Committing(n)'
    BY <1>5 DEF RejectTx, PutBlock, Crash, Committing, LedgerTypeOK
  <2>2. \A m \in Node : m # n => UNCHANGED <<call[m], nonces[m], blocks[m]>>
    BY <1>5 DEF RejectTx, PutBlock, Crash, LedgerTypeOK
  <2> QED BY <1>2, <2>1, <2>2
<1>6. CASE UNCHANGED ledgerVars
  BY <1>1, <1>6 DEF InFlight, ledgerVars
<1> QED BY <1>3, <1>4, <1>5, <1>6 DEF LedgerNext

LEMMA NoReplayStep ==
  LedgerInv /\ [LedgerNext]_ledgerVars => NoReplay'
<1> SUFFICES ASSUME LedgerInv, [LedgerNext]_ledgerVars PROVE NoReplay'
  OBVIOUS
<1> USE DEF LedgerInv
<1>1. CASE UNCHANGED blocks
  BY <1>1 DEF NoReplay
<1>2. ASSUME NEW n \in Node, PutBlock(n) PROVE NoReplay'
  <2> DEFINE new == call[n].block
             top == Height(n) + 1
  <2>1. new \in Block /\ Committing(n)
    BY <1>2, CallType DEF PutBlock
  <2>2. /\ \A m \in Node : m # n => blocks'[m] = blocks[m]
        /\ DOMAIN blocks'[n] = 1 .. top
        /\ DOMAIN blocks[n] = 1 .. Height(n) /\ Height(n) \in Nat
        /\ \A h \in 1 .. Height(n) : blocks'[n][h] = blocks[n][h]
        /\ blocks'[n][top] = new
    BY <1>2, PutBlockEffect, CommittedType
  \* Two places in the old part of n's chain, or in another chain.
  <2>3. ASSUME NEW m \in Node, NEW h \in DOMAIN blocks[m], NEW k \in DOMAIN blocks[m],
               NEW i \in DOMAIN blocks[m][h], NEW j \in DOMAIN blocks[m][k],
               blocks[m][h][i].from = blocks[m][k][j].from,
               h < k \/ (h = k /\ i < j)
        PROVE  blocks[m][h][i].nonce < blocks[m][k][j].nonce
    BY <2>3 DEF NoReplay
  \* One in the old part, the other in the new block.
  <2>4. ASSUME NEW h \in DOMAIN blocks[n], NEW i \in DOMAIN blocks[n][h],
               NEW j \in DOMAIN new, blocks[n][h][i].from = new[j].from
        PROVE  blocks[n][h][i].nonce < new[j].nonce
    <3>1. blocks[n][h][i] \in CommittedTxs(n)
      BY DEF CommittedTxs
    <3>2. new[j] \in LetThrough(n)
      BY <1>2, PutBlockEffect
    <3> QED BY <2>1, <2>4, <3>1, <3>2 DEF InFlight
  \* Both in the new block, which is sorted.
  <2>5. ASSUME NEW i \in DOMAIN new, NEW j \in DOMAIN new,
               new[i].from = new[j].from, i < j
        PROVE  new[i].nonce < new[j].nonce
    <3>1. TxBefore(new[i], new[j])
      BY <2>1, <2>5 DEF Block
    <3>2. new[i].from \in Nat
      BY <2>1, BlockType, LedgerAssumption DEF Sender
    <3> QED BY <2>5, <3>1, <3>2 DEF TxBefore
  <2>6. ASSUME NEW h \in 1 .. top, NEW k \in 1 .. top,
               NEW i \in DOMAIN blocks'[n][h], NEW j \in DOMAIN blocks'[n][k],
               blocks'[n][h][i].from = blocks'[n][k][j].from,
               h < k \/ (h = k /\ i < j)
        PROVE  blocks'[n][h][i].nonce < blocks'[n][k][j].nonce
    <3> HIDE DEF new
    <3>1. CASE k # top
      <4>1. h \in DOMAIN blocks[n] /\ k \in DOMAIN blocks[n]
        BY <2>2, <2>6, <3>1
      <4>2. blocks'[n][h] = blocks[n][h] /\ blocks'[n][k] = blocks[n][k]
        BY <2>2, <4>1
      <4>3. i \in DOMAIN blocks[n][h] /\ j \in DOMAIN blocks[n][k]
        BY <4>2
      <4> QED BY <2>3, <2>6, <4>1, <4>2, <4>3
    <3>2. CASE k = top /\ h # top
      <4>1. h \in DOMAIN blocks[n] /\ blocks'[n][h] = blocks[n][h]
        BY <2>2, <2>6, <3>2
      <4>2. blocks'[n][k] = new
        BY <2>2, <3>2
      <4>3. i \in DOMAIN blocks[n][h] /\ j \in DOMAIN new
        BY <4>1, <4>2
      <4> QED BY <2>4, <2>6, <4>1, <4>2, <4>3
    <3>3. CASE k = top /\ h = top
      BY <2>2, <2>5, <2>6, <3>3
    <3> QED BY <3>1, <3>2, <3>3
  <2>7. ASSUME NEW m \in Node, NEW h \in DOMAIN blocks'[m], NEW k \in DOMAIN blocks'[m],
               NEW i \in DOMAIN blocks'[m][h], NEW j \in DOMAIN blocks'[m][k],
               blocks'[m][h][i].from = blocks'[m][k][j].from,
               h < k \/ (h = k /\ i < j)
        PROVE  blocks'[m][h][i].nonce < blocks'[m][k][j].nonce
    <3> HIDE DEF new, top
    <3>1. CASE m = n
      BY <2>2, <2>6, <2>7, <3>1
    <3>2. CASE m # n
      <4>1. blocks'[m] = blocks[m]
        BY <2>2, <3>2
      <4> QED BY <2>3, <2>7, <4>1
    <3> QED BY <3>1, <3>2
  <2> QED BY <2>7 DEF NoReplay
<1> QED BY <1>1, <1>2, BlocksStay

LEMMA LedgerInvHolds == LedgerSpec => []LedgerInv
<1>1. LedgerInit => LedgerInv
  <2> SUFFICES ASSUME LedgerInit PROVE LedgerInv
    OBVIOUS
  <2>1. LedgerTypeOK
    BY LedgerAssumption DEF LedgerInit, LedgerTypeOK
  <2>2. ASSUME NEW n \in Node PROVE DOMAIN blocks[n] = {} /\ ~ Committing(n)
    <3>1. blocks[n] = <<>> /\ call[n] = NoCall
      BY DEF LedgerInit
    <3> QED BY <3>1 DEF Committing
  <2>3. NoReplay /\ WatermarkCovers /\ InFlight
    BY <2>2 DEF NoReplay, WatermarkCovers, InFlight, CommittedTxs
  <2> QED BY <2>1, <2>3 DEF LedgerInv
<1>2. LedgerInv /\ [LedgerNext]_ledgerVars => LedgerInv'
  BY LedgerTypeStep, WatermarkStep, InFlightStep, NoReplayStep DEF LedgerInv
<1> QED BY <1>1, <1>2, PTL DEF LedgerSpec

\* No node ever commits two transactions of a wallet out of the order of their
\* nonces or one of them twice, whatever blocks are certified and wherever
\* commits fail or are interrupted (CommitBlock, chain.go:124-143).
THEOREM NoReplayHolds == LedgerSpec => []NoReplay
<1>1. LedgerInv => NoReplay
  BY DEF LedgerInv
<1> QED BY <1>1, LedgerInvHolds, PTL

\* A node's watermark for a wallet is never below a nonce it has committed
\* (SetLastNonce before PutBlock, chain.go:135-140).
THEOREM WatermarkCoversHolds == LedgerSpec => []WatermarkCovers
<1>1. LedgerInv => WatermarkCovers
  BY DEF LedgerInv
<1> QED BY <1>1, LedgerInvHolds, PTL

-----------------------------------------------------------------------------
(* The ledger under the pool.                                              *)

\* What the mempool does never touches the ledger but through it.
LEMMA MempoolStepIsLedgerStep ==
  [MempoolNext]_mempoolVars => [LedgerNext]_ledgerVars
BY DEF MempoolNext, mempoolVars, ledgerVars, LedgerNext, PoolPutBlock,
       PoolCrash, Refill, Age

\* A node with a mempool is a ledger, so all that is shown of ledgers holds.
THEOREM MempoolKeepsLedger == MempoolSpec => LedgerSpec
<1>1. MempoolInit => LedgerInit
  BY DEF MempoolInit
<1> QED BY <1>1, MempoolStepIsLedgerStep, PTL DEF MempoolSpec, LedgerSpec

LEMMA PoolTypeStep ==
  ASSUME LedgerTypeOK, PoolTypeOK, [MempoolNext]_mempoolVars
  PROVE  PoolTypeOK'
<1>1. ASSUME NEW n \in Node, NEW tx \in Tx, Add(n, tx) PROVE PoolTypeOK'
  <2>1. tx.from \in Sender /\ tx.nonce \in 0 .. MaxNonce
    BY LedgerAssumption DEF Tx, Nonce
  <2>2. CASE UNCHANGED <<pool, pending, tokens, aged>>
    BY <2>2 DEF PoolTypeOK
  <2>3. CASE ~ UNCHANGED <<pool, pending, tokens, aged>>
    <3>1. /\ tokens[n][tx.from] > 0
          /\ tokens' = [tokens EXCEPT ![n][tx.from] = @ - 1]
          /\ \/ UNCHANGED <<pool, pending>>
             \/ /\ pool' = [pool EXCEPT ![n] = @ \cup {tx}]
                /\ pending' = [pending EXCEPT ![n][tx.from] = tx.nonce]
          /\ UNCHANGED aged
      BY <1>1, <2>3 DEF Add
    <3>2. tokens' \in [Node -> [Sender -> 0 .. Burst]]
      BY <2>1, <3>1, MempoolAssumption DEF PoolTypeOK
    <3>3. pool' \in [Node -> SUBSET Tx]
      BY <3>1 DEF PoolTypeOK
    <3>4. pending' \in [Node -> [Sender -> 0 .. MaxNonce]]
      <4>1. CASE UNCHANGED pending
        BY <4>1 DEF PoolTypeOK
      <4>2. CASE pending' = [pending EXCEPT ![n][tx.from] = tx.nonce]
        BY <2>1, <4>2 DEF PoolTypeOK
      <4> QED BY <3>1, <4>1, <4>2
    <3> QED BY <3>1, <3>2, <3>3, <3>4 DEF PoolTypeOK
  <2> QED BY <2>2, <2>3
<1>2. ASSUME NEW n \in Node, PoolPutBlock(n) PROVE PoolTypeOK'
  BY <1>2 DEF PoolPutBlock, Remove, PoolTypeOK
<1>3. ASSUME NEW n \in Node, PoolCrash(n) PROVE PoolTypeOK'
  BY <1>3, LedgerAssumption, MempoolAssumption DEF PoolCrash, PoolTypeOK
<1>4. ASSUME NEW n \in Node, NEW s \in Sender, Refill(n, s) PROVE PoolTypeOK'
  BY <1>4, MempoolAssumption DEF Refill, PoolTypeOK
<1>5. ASSUME NEW tx \in Tx, Age(tx) PROVE PoolTypeOK'
  BY <1>5 DEF Age, PoolTypeOK
<1>6. CASE UNCHANGED poolVars
  BY <1>6 DEF poolVars, PoolTypeOK
<1> QED BY <1>1, <1>2, <1>3, <1>4, <1>5, <1>6 DEF MempoolNext, mempoolVars

\* In every behaviour pools, floors and limiters have their types.
THEOREM PoolTypeCorrect == MempoolSpec => []PoolTypeOK
<1>1. MempoolInit => PoolTypeOK
  BY LedgerAssumption, MempoolAssumption DEF MempoolInit, PoolInit, PoolTypeOK
<1>2. LedgerTypeOK /\ PoolTypeOK /\ [MempoolNext]_mempoolVars => PoolTypeOK'
  BY PoolTypeStep
<1> QED
  BY <1>1, <1>2, MempoolKeepsLedger, LedgerTypeCorrect, PTL DEF MempoolSpec

-----------------------------------------------------------------------------
(* The floor.                                                              *)

LEMMA FloorStep ==
  ASSUME LedgerTypeOK, PoolTypeOK, [MempoolNext]_mempoolVars,
         NEW n \in Node, crashes'[n] = crashes[n], NEW s \in Sender
  PROVE  Floor(n, s)' >= Floor(n, s)
<1>1. /\ nonces[n][s] \in Nat /\ pending[n][s] \in Nat
      /\ nonces'[n][s] \in Nat /\ pending'[n][s] \in Nat
  <2>1. LedgerTypeOK' /\ PoolTypeOK'
    BY MempoolStepIsLedgerStep, LedgerTypeStep, PoolTypeStep
  <2> QED BY <2>1, LedgerAssumption DEF LedgerTypeOK, PoolTypeOK
<1>2. nonces'[n][s] >= nonces[n][s]
  BY <1>1, MempoolStepIsLedgerStep, NoncesRise
<1>3. pending'[n][s] >= pending[n][s]
  <2>1. ASSUME NEW m \in Node, NEW tx \in Tx, Add(m, tx)
        PROVE  pending'[n][s] >= pending[n][s]
    <3>1. CASE UNCHANGED pending
      BY <1>1, <3>1
    <3>2. CASE ~ UNCHANGED pending
      <4>1. /\ ~ tx.nonce <= Floor(m, tx.from)
            /\ pending' = [pending EXCEPT ![m][tx.from] = tx.nonce]
        BY <2>1, <3>2 DEF Add
      <4>2. tx.nonce \in Nat /\ tx.from \in Sender
        BY DEF Tx, Nonce
      <4> QED BY <1>1, <4>1, <4>2 DEF Floor, PoolTypeOK
    <3> QED BY <3>1, <3>2
  <2>2. ASSUME NEW m \in Node, PoolCrash(m)
        PROVE  pending'[n][s] >= pending[n][s]
    <3>1. m # n
      <4>1. crashes[n] \in Nat
        BY LedgerAssumption DEF LedgerTypeOK
      <4> QED BY <2>2, <4>1 DEF PoolCrash, Crash, LedgerTypeOK
    <3> QED BY <1>1, <2>2, <3>1 DEF PoolCrash, PoolTypeOK
  <2>3. CASE UNCHANGED pending
    BY <1>1, <2>3
  <2> QED BY <2>1, <2>2, <2>3
          DEF MempoolNext, mempoolVars, poolVars, PoolPutBlock, Remove, Refill, Age
<1> QED BY <1>1, <1>2, <1>3 DEF Floor

\* A node that lives never takes back the refusal of a nonce
\* (mempool.go:98-105).
THEOREM FloorNeverFallsHolds == MempoolSpec => FloorNeverFalls
<1>1. LedgerTypeOK /\ PoolTypeOK /\ [MempoolNext]_mempoolVars
        => [\A n \in Node : crashes'[n] = crashes[n] =>
              \A s \in Sender : Floor(n, s)' >= Floor(n, s)]_mempoolVars
  BY FloorStep
<1> QED
  BY <1>1, MempoolKeepsLedger, LedgerTypeCorrect, PoolTypeCorrect, PTL
  DEF MempoolSpec, FloorNeverFalls

-----------------------------------------------------------------------------
(* What is committed leaves the pool for good.  The invariant is           *)
(* CommittedLeavesPool itself, relative to WatermarkCovers: what Add lets  *)
(* in is above the watermark, and so above all that is committed.          *)

LEMMA CommittedLeavesStep ==
  ASSUME LedgerInv, PoolTypeOK, CommittedLeavesPool, [MempoolNext]_mempoolVars
  PROVE  CommittedLeavesPool'
<1> USE DEF LedgerInv
<1>1. ASSUME NEW n \in Node, NEW tx \in Tx, Add(n, tx), UNCHANGED ledgerVars
      PROVE  CommittedLeavesPool'
  <2>1. \A m \in Node : CommittedTxs(m)' = CommittedTxs(m)
    BY <1>1 DEF ledgerVars, CommittedTxs
  <2>2. CASE UNCHANGED pool
    BY <2>1, <2>2 DEF CommittedLeavesPool
  <2>3. CASE ~ UNCHANGED pool
    <3>1. /\ ~ tx.nonce <= Floor(n, tx.from)
          /\ pool' = [pool EXCEPT ![n] = @ \cup {tx}]
      BY <1>1, <2>3 DEF Add
    <3>2. tx.nonce > nonces[n][tx.from]
      <4>1. /\ tx.nonce \in Nat /\ tx.from \in Sender
            /\ nonces[n][tx.from] \in Nat /\ pending[n][tx.from] \in Nat
        BY LedgerAssumption DEF Tx, Nonce, LedgerTypeOK, PoolTypeOK
      <4> QED BY <3>1, <4>1 DEF Floor
    <3>3. tx \notin CommittedTxs(n)
      <4>1. tx.nonce \in Nat /\ nonces[n][tx.from] \in Nat
        BY LedgerAssumption DEF Tx, Nonce, LedgerTypeOK
      <4> QED BY <3>2, <4>1 DEF WatermarkCovers
    <3> QED BY <2>1, <3>1, <3>3 DEF CommittedLeavesPool, PoolTypeOK
  <2> QED BY <2>2, <2>3
<1>2. ASSUME NEW n \in Node, PoolPutBlock(n) PROVE CommittedLeavesPool'
  <2>1. PutBlock(n) /\ pool' = [pool EXCEPT ![n] = @ \ LetThrough(n)]
    BY <1>2, PutBlockEffect DEF PoolPutBlock, Remove
  <2>2. CommittedTxs(n)' = CommittedTxs(n) \cup LetThrough(n)
    BY <2>1, PutBlockEffect
  <2>3. ASSUME NEW m \in Node, m # n PROVE CommittedTxs(m)' = CommittedTxs(m)
    <3>1. blocks'[m] = blocks[m]
      BY <2>1, <2>3, PutBlockEffect
    <3> QED BY <3>1 DEF CommittedTxs
  <2> QED BY <2>1, <2>2, <2>3 DEF CommittedLeavesPool, PoolTypeOK
<1>3. ASSUME NEW n \in Node, PoolCrash(n) PROVE CommittedLeavesPool'
  BY <1>3 DEF PoolCrash, Crash, CommittedLeavesPool, CommittedTxs, PoolTypeOK
<1>4. CASE UNCHANGED <<pool, blocks>>
  BY <1>4 DEF CommittedLeavesPool, CommittedTxs
<1> QED
  BY <1>1, <1>2, <1>3, <1>4
     DEF MempoolNext, mempoolVars, poolVars, ledgerVars, BeginCommit, ApplyTx,
         RejectTx, Refill, Age

\* No pool ever holds a transaction its node has committed, so none is proposed
\* again however often it is gossiped (mempool.go:94-105, pbft.go:215).
THEOREM CommittedLeavesPoolHolds == MempoolSpec => []CommittedLeavesPool
<1>1. MempoolInit => CommittedLeavesPool
  BY DEF MempoolInit, PoolInit, CommittedLeavesPool
<1>2. /\ LedgerInv /\ PoolTypeOK /\ CommittedLeavesPool
      /\ [MempoolNext]_mempoolVars
      => CommittedLeavesPool'
  BY CommittedLeavesStep
<1> QED
  BY <1>1, <1>2, MempoolKeepsLedger, LedgerInvHolds, PoolTypeCorrect, PTL
  DEF MempoolSpec
=============================================================================
