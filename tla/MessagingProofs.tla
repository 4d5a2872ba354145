-------------------------- MODULE MessagingProofs --------------------------
(***************************************************************************)
(* A network of nodes implements Mempool at each of them, and so keeps     *)
(* what MempoolProofs shows.                                               *)
(***************************************************************************)
EXTENDS Messaging, MempoolProofs

-----------------------------------------------------------------------------
(* Types.  A wallet signs only transactions of the model, and what is      *)
(* committed anywhere is a block.                                          *)

LEMMA SignedType ==
  ASSUME NetTypeOK, NEW s \in Sender, sent[s] < MaxNonce
  PROVE  [from |-> s, nonce |-> sent[s] + 1] \in Tx
BY LedgerAssumption DEF NetTypeOK, Tx, Nonce

LEMMA StepIsMempoolStep ==
  ASSUME MessagingTypeOK, [MessagingNext]_messagingVars
  PROVE  [MempoolNext]_mempoolVars
<1> USE DEF MessagingTypeOK
<1>1. ASSUME NEW n \in Node, NEW s \in Sender, SendSMS(s, n) PROVE MempoolNext
  <2>1. [from |-> s, nonce |-> sent[s] + 1] \in Tx
    BY <1>1, SignedType DEF SendSMS
  <2> QED BY <1>1, <2>1 DEF SendSMS, MempoolNext
<1>2. ASSUME NEW n \in Node, NEW tx \in Tx, Receive(n, tx) PROVE MempoolNext
  BY <1>2 DEF Receive, MempoolNext
<1>3. ASSUME NEW n \in Node, StartCommit(n) PROVE MempoolNext
  BY <1>3 DEF StartCommit, MempoolNext, NetTypeOK
<1>4. ASSUME NEW n \in Node, NEW v \in Validators, SyncBlock(n, v) PROVE MempoolNext
  <2>1. v \in Node
    BY MessagingAssumption
  <2>2. blocks[v][Height(n) + 1] \in Block
    BY <1>4, <2>1, CommittedType DEF SyncBlock
  <2> QED BY <1>4, <2>2 DEF SyncBlock, MempoolNext
<1>5. ASSUME NEW n \in Node, CommitStep(n) PROVE MempoolNext
  BY <1>5 DEF CommitStep, MempoolNext
<1>6. ASSUME NEW n \in Node, Die(n) PROVE MempoolNext
  BY <1>6 DEF Die, MempoolNext
<1>7. CASE Clock
  BY <1>7 DEF Clock, MempoolNext
<1>8. CASE UNCHANGED mempoolVars
  BY <1>8
<1> QED
  BY <1>1, <1>2, <1>3, <1>4, <1>5, <1>6, <1>7, <1>8
     DEF MessagingNext, messagingVars, Lose, Regossip, Decide

LEMMA NetTypeStep ==
  ASSUME MessagingTypeOK, [MessagingNext]_messagingVars
  PROVE  NetTypeOK'
<1> USE DEF MessagingTypeOK
<1>1. ASSUME NEW n \in Node, NEW s \in Sender, SendSMS(s, n) PROVE NetTypeOK'
  <2> DEFINE tx == [from |-> s, nonce |-> sent[s] + 1]
  <2>1. tx \in Tx
    BY <1>1, SignedType DEF SendSMS
  <2>2. /\ sent[s] < MaxNonce
        /\ sent' = [sent EXCEPT ![s] = @ + 1]
        /\ \/ Gossip({tx}) /\ accepted' = accepted \cup {tx}
           \/ UNCHANGED <<txInbox, accepted>>
        /\ UNCHANGED <<decided, todo>>
    BY <1>1 DEF SendSMS
  <2> HIDE DEF tx
  <2>3. sent' \in [Sender -> 0 .. MaxNonce]
    BY <2>2, LedgerAssumption DEF NetTypeOK
  <2>4. accepted' \in SUBSET Tx /\ txInbox' \in [Node -> SUBSET Tx]
    BY <2>1, <2>2 DEF NetTypeOK, Gossip
  <2> QED BY <2>2, <2>3, <2>4 DEF NetTypeOK
<1>2. ASSUME NEW n \in Node, NEW tx \in Tx, Receive(n, tx) \/ Lose(n, tx)
      PROVE  NetTypeOK'
  BY <1>2 DEF Receive, Lose, NetTypeOK
<1>3. ASSUME NEW n \in Node, Regossip(n) PROVE NetTypeOK'
  BY <1>3 DEF Regossip, Gossip, NetTypeOK, PoolTypeOK
<1>4. ASSUME NEW n \in Node, Decide(n) PROVE NetTypeOK'
  BY <1>4 DEF Decide, NetTypeOK
<1>5. ASSUME NEW n \in Node, StartCommit(n) PROVE NetTypeOK'
  BY <1>5 DEF StartCommit, NetTypeOK
<1>6. ASSUME NEW n \in Node, Die(n) PROVE NetTypeOK'
  BY <1>6 DEF Die, NetTypeOK
<1>7. CASE UNCHANGED netVars
  BY <1>7 DEF netVars, NetTypeOK
<1> QED
  BY <1>1, <1>2, <1>3, <1>4, <1>5, <1>6, <1>7
     DEF MessagingNext, messagingVars, SyncBlock, CommitStep, Clock

\* The state of every network has its type.
THEOREM NetTypeCorrect == MessagingSpec => []MessagingTypeOK
<1>1. MessagingInit => MessagingTypeOK
  <2> SUFFICES ASSUME MessagingInit PROVE MessagingTypeOK
    OBVIOUS
  <2>1. LedgerTypeOK
    BY LedgerAssumption DEF MessagingInit, MempoolInit, LedgerInit, LedgerTypeOK
  <2>2. PoolTypeOK
    BY LedgerAssumption, MempoolAssumption
       DEF MessagingInit, MempoolInit, PoolInit, PoolTypeOK
  <2>3. <<>> \in Block
    BY LedgerAssumption DEF Block
  <2>4. NetTypeOK
    BY <2>3, LedgerAssumption DEF MessagingInit, NetTypeOK
  <2> QED BY <2>1, <2>2, <2>4 DEF MessagingTypeOK
<1>2. MessagingTypeOK /\ [MessagingNext]_messagingVars => MessagingTypeOK'
  BY StepIsMempoolStep, MempoolStepIsLedgerStep, LedgerTypeStep, PoolTypeStep,
     NetTypeStep DEF MessagingTypeOK
<1> QED BY <1>1, <1>2, PTL DEF MessagingSpec

\* In a network of any size, with any validators and relays, every node's pool
\* and ledger take steps of Mempool.
THEOREM MessagingImplementsMempool == MessagingSpec => ImplementsMempool
<1>1. MessagingInit => MempoolInit
  BY DEF MessagingInit
<1>2. MessagingTypeOK /\ [MessagingNext]_messagingVars => [MempoolNext]_mempoolVars
  BY StepIsMempoolStep
<1> QED
  BY <1>1, <1>2, NetTypeCorrect, PTL
  DEF MessagingSpec, ImplementsMempool, MempoolSpec

\* No message is ever committed twice by a node of the network, or behind a
\* later one of its wallet, and none comes back into a pool once committed,
\* in spite of retries, re-gossip, crashes and half-done commits.
THEOREM NetworkKeepsLedgersSafe ==
  MessagingSpec => [](NoReplay /\ WatermarkCovers /\ CommittedLeavesPool)
BY MessagingImplementsMempool, MempoolKeepsLedger, NoReplayHolds,
   WatermarkCoversHolds, CommittedLeavesPoolHolds, PTL DEF ImplementsMempool
-----------------------------------------------------------------------------
(* One ledger.  Agreement rests on three facts: a validator that still has *)
(* to put the decided block is at the height it was decided for, no two    *)
(* validators are more than one block apart, and a relay commits only what *)
(* some validator already has.                                             *)

\* v has not yet put the decided block.
Due(v) == v \in todo \/ Committing(v)

RoundInv ==
  /\ \A v \in Validators :
       /\ v \in todo => ~ Committing(v)
       /\ Committing(v) => call[v].block = decided
  /\ \A v, w \in Validators :
       /\ Height(w) <= Height(v) + 1
       /\ Due(v) => Height(v) <= Height(w)
       /\ Due(v) /\ Height(v) < Height(w) => blocks[w][Height(v) + 1] = decided

RelayInv ==
  \A r \in Relays :
    /\ \E v \in Validators : Height(r) <= Height(v)
    /\ Committing(r) => \E v \in Validators :
         Height(r) < Height(v) /\ blocks[v][Height(r) + 1] = call[r].block

OneLedgerInv == MessagingTypeOK /\ RoundInv /\ RelayInv /\ OneLedger

LEMMA HeightType ==
  ASSUME LedgerTypeOK, NEW n \in Node
  PROVE  Height(n) \in Nat /\ DOMAIN blocks[n] = 1 .. Height(n)
BY CommittedType

\* Whoever is ahead of a node that is committing has that block already.
LEMMA NextIsAgreed ==
  ASSUME OneLedgerInv, NEW n \in Node, Committing(n), NEW m \in Node,
         Height(n) < Height(m)
  PROVE  blocks[m][Height(n) + 1] = call[n].block
<1> USE DEF OneLedgerInv, MessagingTypeOK
<1>1. Height(n) \in Nat /\ Height(m) \in Nat /\ Validators \subseteq Node
  BY HeightType, MessagingAssumption
<1>2. \A v \in Validators : Height(v) \in Nat
  BY <1>1, HeightType
<1>3. PICK v \in Validators : /\ Height(n) < Height(v)
                              /\ blocks[v][Height(n) + 1] = call[n].block
  <2>1. CASE n \in Relays
    BY <2>1 DEF RelayInv
  <2>2. CASE n \in Validators
    <3>1. PICK v \in Validators : Height(m) <= Height(v)
      <4>1. CASE m \in Validators
        BY <4>1, <1>1
      <4>2. CASE m \in Relays
        BY <4>2 DEF RelayInv
      <4> QED BY <4>1, <4>2 DEF Relays
    <3>2. Height(n) < Height(v)
      BY <3>1, <1>1, <1>2
    <3> QED BY <2>2, <3>2 DEF RoundInv, Due
  <2> QED BY <2>1, <2>2 DEF Relays
<1>4. Height(n) + 1 \in (1 .. Height(v)) \cap (1 .. Height(m))
  BY <1>1, <1>2, <1>3
<1> QED BY <1>1, <1>3, <1>4 DEF OneLedger

\* What every step but the put of a block leaves alone.
LEMMA ChainsStay ==
  ASSUME UNCHANGED blocks
  PROVE  /\ \A n \in Node : Height(n)' = Height(n)
         /\ OneLedger => OneLedger'
BY DEF Height, OneLedger

LEMMA OneLedgerPut ==
  ASSUME OneLedgerInv, NEW n \in Node, CommitStep(n), PutBlock(n)
  PROVE  RoundInv' /\ RelayInv' /\ OneLedger'
<1> USE DEF OneLedgerInv, MessagingTypeOK
<1>1. Validators \subseteq Node /\ Relays \subseteq Node
  BY MessagingAssumption DEF Relays
<1>2. /\ \A m \in Node : m # n => blocks'[m] = blocks[m] /\ Height(m)' = Height(m)
      /\ Height(n)' = Height(n) + 1
      /\ \A h \in 1 .. Height(n) : blocks'[n][h] = blocks[n][h]
      /\ blocks'[n][Height(n) + 1] = call[n].block
  <2>1. blocks'[n] = Append(blocks[n], call[n].block) /\ blocks[n] \in Seq(Block)
    BY CommittedType DEF PutBlock, LedgerTypeOK
  <2> QED BY <2>1, PutBlockEffect DEF Height
<1>3. /\ Committing(n) /\ ~ Committing(n)'
      /\ \A m \in Node : m # n => call'[m] = call[m] /\ (Committing(m)' <=> Committing(m))
      /\ UNCHANGED <<todo, decided>>
  BY DEF PutBlock, CommitStep, netVars, LedgerTypeOK, Committing
<1>4. \A m \in Node : Height(m) \in Nat
  BY HeightType
<1>5. \A m \in Node : \A h \in 1 .. Height(m) : blocks'[m][h] = blocks[m][h]
  BY <1>2
<1>6. OneLedger'
  <2> SUFFICES ASSUME NEW m \in Node, NEW k \in Node,
                      NEW h \in (1 .. Height(m)') \cap (1 .. Height(k)')
               PROVE  blocks'[m][h] = blocks'[k][h]
    BY DEF OneLedger
  <2>1. ASSUME NEW o \in Node, h \in 1 .. Height(o)
        PROVE  blocks'[o][h] = blocks'[n][h] \/ h \notin 1 .. Height(n) + 1
    <3>1. CASE h \in 1 .. Height(n)
      BY <2>1, <3>1, <1>5 DEF OneLedger
    <3>2. CASE h = Height(n) + 1
      <4>1. blocks[o][h] = call[n].block
        BY <2>1, <3>2, <1>3, <1>4, NextIsAgreed
      <4> QED BY <4>1, <3>2, <2>1, <1>2, <1>5
    <3> QED BY <3>1, <3>2, <1>4
  <2>2. CASE h \in 1 .. Height(m) /\ h \in 1 .. Height(k)
    BY <2>2, <1>5 DEF OneLedger
  <2>3. CASE h \notin 1 .. Height(m)
    <3>1. m = n
      BY <2>3, <1>2
    <3>2. CASE k = n
      BY <3>1, <3>2
    <3>3. CASE k # n
      BY <3>1, <3>3, <2>1, <1>2
    <3> QED BY <3>2, <3>3
  <2>4. CASE h \notin 1 .. Height(k)
    <3>1. k = n
      BY <2>4, <1>2
    <3>2. CASE m = n
      BY <3>1, <3>2
    <3>3. CASE m # n
      BY <3>1, <3>3, <2>1, <1>2
    <3> QED BY <3>2, <3>3
  <2> QED BY <2>2, <2>3, <2>4
<1>7. RoundInv'
  <2>1. ASSUME NEW v \in Validators
        PROVE  /\ (v \in todo => ~ Committing(v))'
               /\ (Committing(v) => call[v].block = decided)'
    BY <2>1, <1>1, <1>3 DEF RoundInv
  <2>2. ASSUME NEW v \in Validators, NEW w \in Validators
        PROVE  /\ Height(w)' <= Height(v)' + 1
               /\ Due(v)' => Height(v)' <= Height(w)'
               /\ Due(v)' /\ Height(v)' < Height(w)'
                    => blocks'[w][Height(v)' + 1] = decided'
    <3>1. /\ v \in Node /\ w \in Node
          /\ Height(v) \in Nat /\ Height(w) \in Nat
          /\ Height(w) <= Height(v) + 1
          /\ Due(v) => Height(v) <= Height(w)
          /\ Due(v) /\ Height(v) < Height(w) => blocks[w][Height(v) + 1] = decided
          /\ Due(w) => Height(w) <= Height(v)
      BY <1>1, <1>4 DEF RoundInv
    <3>2. Due(v)' => Due(v) /\ v # n
      BY <3>1, <1>3 DEF Due, RoundInv
    <3>3. CASE n = w
      <4>1. Due(w) /\ call[n].block = decided
        BY <3>3, <1>3 DEF Due, RoundInv
      <4>2. CASE v = n
        BY <4>2, <3>3, <3>1, <3>2, <1>2
      <4>3. CASE v # n
        <5>1. Height(w)' = Height(w) + 1 /\ Height(v)' = Height(v)
          BY <3>1, <3>3, <4>3, <1>2
        <5>2. Due(v)' => Height(v) = Height(w)
          BY <3>1, <3>2, <4>1
        <5>3. blocks'[w][Height(w) + 1] = decided'
          BY <3>3, <4>1, <1>2, <1>3
        <5> QED BY <5>1, <5>2, <5>3, <4>1, <3>1
      <4> QED BY <4>2, <4>3
    <3>4. CASE n # w
      <4>1. blocks'[w] = blocks[w] /\ Height(w)' = Height(w)
        BY <3>1, <3>4, <1>2
      <4>2. Height(v)' = Height(v) \/ (v = n /\ Height(v)' = Height(v) + 1)
        BY <3>1, <1>2
      <4>3. Due(v)' => Height(v)' = Height(v)
        BY <3>1, <3>2, <1>2
      <4>4. Height(w)' <= Height(v)' + 1
        BY <4>1, <4>2, <3>1
      <4>5. ASSUME Due(v)'
            PROVE  /\ Height(v)' <= Height(w)'
                   /\ Height(v)' < Height(w)' => blocks'[w][Height(v)' + 1] = decided'
        BY <4>1, <4>3, <4>5, <3>1, <3>2, <1>3
      <4> QED BY <4>4, <4>5
    <3> QED BY <3>3, <3>4
  <2> QED BY <2>1, <2>2 DEF RoundInv, Due
<1>8. RelayInv'
  <2> SUFFICES ASSUME NEW r \in Relays
               PROVE  /\ \E v \in Validators : Height(r)' <= Height(v)'
                      /\ Committing(r)' => \E v \in Validators :
                           /\ Height(r)' < Height(v)'
                           /\ blocks'[v][Height(r)' + 1] = call'[r].block
    BY DEF RelayInv
  <2>1. CASE r = n
    <3>1. PICK v \in Validators : Height(r) < Height(v)
      BY <2>1, <1>3 DEF RelayInv
    <3>2. v # n /\ v \in Node /\ r \in Node
      BY <3>1, <2>1, <1>1, <1>4
    <3> QED BY <3>1, <3>2, <2>1, <1>2, <1>3, <1>4
  <2>2. CASE r # n
    <3>1. r \in Node /\ Height(r)' = Height(r) /\ call'[r] = call[r]
      BY <2>2, <1>1, <1>2, <1>3
    <3>2. \A v \in Validators : Height(v) <= Height(v)' /\ Height(v)' \in Nat
      BY <1>1, <1>2, <1>4
    <3>3. \E v \in Validators : Height(r)' <= Height(v)'
      <4>1. PICK v \in Validators : Height(r) <= Height(v)
        BY DEF RelayInv
      <4> QED BY <4>1, <3>1, <3>2, <1>1, <1>4
    <3>4. ASSUME Committing(r)'
          PROVE  \E v \in Validators : /\ Height(r)' < Height(v)'
                                       /\ blocks'[v][Height(r)' + 1] = call'[r].block
      <4>1. PICK v \in Validators : /\ Height(r) < Height(v)
                                    /\ blocks[v][Height(r) + 1] = call[r].block
        BY <3>4, <3>1, <2>2, <1>3 DEF RelayInv
      <4>2. Height(r) + 1 \in 1 .. Height(v) /\ v \in Node
        BY <4>1, <3>1, <1>1, <1>4
      <4> QED BY <4>1, <4>2, <3>1, <3>2, <1>4, <1>5
    <3> QED BY <3>3, <3>4
  <2> QED BY <2>1, <2>2
<1> QED BY <1>6, <1>7, <1>8

LEMMA OneLedgerStep ==
  ASSUME OneLedgerInv, [MessagingNext]_messagingVars
  PROVE  RoundInv' /\ RelayInv' /\ OneLedger'
<1> USE DEF OneLedgerInv, MessagingTypeOK
<1>0. /\ Validators \subseteq Node /\ Relays \subseteq Node
      /\ \A n \in Node : Height(n) \in Nat
  BY MessagingAssumption, HeightType DEF Relays
\* Nobody's commit begins and nothing is decided.
<1>1. ASSUME UNCHANGED <<blocks, decided>>, todo' \subseteq todo,
             \A n \in Node : Committing(n)' => Committing(n) /\ call'[n].block = call[n].block
      PROVE  RoundInv' /\ RelayInv' /\ OneLedger'
  <2>1. OneLedger' /\ \A n \in Node : Height(n)' = Height(n)
    BY <1>1, ChainsStay
  <2>2. \A v \in Validators : Due(v)' => Due(v)
    BY <1>0, <1>1 DEF Due
  <2>3. RoundInv'
    BY <1>0, <1>1, <2>1, <2>2 DEF RoundInv
  <2>4. RelayInv'
    BY <1>0, <1>1, <2>1 DEF RelayInv
  <2> QED BY <2>1, <2>3, <2>4
<1>2. CASE UNCHANGED <<blocks, call, decided, todo>>
  <2>1. \A n \in Node : Committing(n)' <=> Committing(n)
    BY <1>2 DEF Committing
  <2> QED BY <1>1, <1>2, <2>1
<1>3. ASSUME NEW p \in Node, Decide(p) PROVE RoundInv' /\ RelayInv' /\ OneLedger'
  <2>1. /\ UNCHANGED <<blocks, call>>
        /\ todo = {} /\ \A v \in Validators : ~ Committing(v)
        /\ \A v, w \in Validators : Height(v) = Height(w)
    BY <1>3 DEF Decide, mempoolVars, ledgerVars, SameHeight
  <2>2. OneLedger' /\ \A n \in Node : Height(n)' = Height(n)
    BY <2>1, ChainsStay
  <2>3. \A n \in Node : Committing(n)' <=> Committing(n)
    BY <2>1 DEF Committing
  <2>4. RoundInv'
    BY <1>0, <2>1, <2>2, <2>3 DEF RoundInv
  <2>5. RelayInv'
    BY <1>0, <2>1, <2>2, <2>3 DEF RelayInv
  <2> QED BY <2>2, <2>4, <2>5
<1>4. ASSUME NEW v \in Node, StartCommit(v) PROVE RoundInv' /\ RelayInv' /\ OneLedger'
  <2>1. /\ UNCHANGED <<blocks, decided>>
        /\ v \in todo /\ v \in Validators /\ todo' = todo \ {v}
        /\ \A n \in Node : n # v => call'[n] = call[n]
        /\ call'[v].block = decided
    BY <1>4 DEF StartCommit, BeginCommit, LedgerTypeOK, NetTypeOK
  <2>2. OneLedger' /\ \A n \in Node : Height(n)' = Height(n)
    BY <2>1, ChainsStay
  <2>3. \A n \in Node : n # v => (Committing(n)' <=> Committing(n))
    BY <2>1 DEF Committing
  <2>4. \A w \in Validators : Due(w)' => Due(w)
    BY <1>0, <2>1, <2>3 DEF Due
  <2>5. RoundInv'
    BY <1>0, <2>1, <2>2, <2>3, <2>4 DEF RoundInv
  <2>6. v \notin Relays
    BY <2>1 DEF Relays
  <2>7. RelayInv'
    BY <1>0, <2>1, <2>2, <2>3, <2>6 DEF RelayInv
  <2> QED BY <2>2, <2>5, <2>7
<1>5. ASSUME NEW r \in Node, NEW v \in Validators, SyncBlock(r, v)
      PROVE  RoundInv' /\ RelayInv' /\ OneLedger'
  <2>1. /\ UNCHANGED <<blocks, decided, todo>>
        /\ r \in Relays /\ r \notin Validators /\ Height(r) < Height(v)
        /\ \A n \in Node : n # r => call'[n] = call[n]
        /\ call'[r].block = blocks[v][Height(r) + 1]
    BY <1>0, <1>5 DEF SyncBlock, BeginCommit, LedgerTypeOK, netVars, Relays
  <2>2. OneLedger' /\ \A n \in Node : Height(n)' = Height(n)
    BY <2>1, ChainsStay
  <2>3. \A n \in Node : n # r => (Committing(n)' <=> Committing(n))
    BY <2>1 DEF Committing
  <2>4. RoundInv'
    BY <1>0, <2>1, <2>2, <2>3 DEF RoundInv, Due
  <2>5. RelayInv'
    BY <1>0, <2>1, <2>2, <2>3 DEF RelayInv
  <2> QED BY <2>2, <2>4, <2>5
<1>6. ASSUME NEW n \in Node, CommitStep(n) PROVE RoundInv' /\ RelayInv' /\ OneLedger'
  <2>1. CASE PutBlock(n)
    BY <1>6, <2>1, OneLedgerPut
  <2>2. CASE ApplyTx(n) \/ RejectTx(n)
    <3>1. /\ UNCHANGED blocks
          /\ Committing(n)
          /\ call' = [call EXCEPT ![n].next = @ + 1] \/ call' = [call EXCEPT ![n] = NoCall]
      BY <2>2 DEF ApplyTx, RejectTx, TxsLeft
    <3>2. \A m \in Node : Committing(m)' =>
            Committing(m) /\ call'[m].block = call[m].block
      <4>1. call \in [Node -> Call \cup {NoCall}] /\ call[n] \in Call
        BY <3>1, CallType DEF LedgerTypeOK
      <4>2. \A m \in Node : m # n => call'[m] = call[m]
        BY <3>1, <4>1
      <4>3. call'[n] = NoCall \/ call'[n] = [call[n] EXCEPT !.next = @ + 1]
        BY <3>1, <4>1
      <4>4. call'[n] = NoCall \/ call'[n].block = call[n].block
        BY <4>1, <4>3 DEF Call
      <4> QED BY <3>1, <4>2, <4>4 DEF Committing
    <3>3. UNCHANGED <<decided, todo>>
      BY <1>6 DEF CommitStep, netVars
    <3> QED BY <3>1, <3>2, <3>3, <1>1
  <2> QED BY <1>6, <2>1, <2>2 DEF CommitStep, PoolPutBlock
<1>7. ASSUME NEW n \in Node, Die(n) PROVE RoundInv' /\ RelayInv' /\ OneLedger'
  <2>1. /\ UNCHANGED <<blocks, decided>> /\ todo' \subseteq todo
        /\ call' = [call EXCEPT ![n] = NoCall]
    BY <1>7 DEF Die, PoolCrash, Crash
  <2>2. \A m \in Node : Committing(m)' => Committing(m) /\ call'[m].block = call[m].block
    BY <2>1 DEF Committing, LedgerTypeOK
  <2> QED BY <2>1, <2>2, <1>1
<1>8. ASSUME NEW n \in Node, NEW s \in Sender, SendSMS(s, n)
      PROVE  UNCHANGED <<blocks, call, decided, todo>>
  BY <1>8 DEF SendSMS, ledgerVars
<1>9. ASSUME NEW n \in Node, NEW tx \in Tx, Receive(n, tx) \/ Lose(n, tx)
      PROVE  UNCHANGED <<blocks, call, decided, todo>>
  BY <1>9 DEF Receive, Lose, mempoolVars, ledgerVars
<1>10. ASSUME NEW n \in Node, Regossip(n)
       PROVE  UNCHANGED <<blocks, call, decided, todo>>
  BY <1>10 DEF Regossip, mempoolVars, ledgerVars
<1>11. CASE Clock
  BY <1>2, <1>11 DEF Clock, Refill, Age, netVars, ledgerVars
<1>12. CASE UNCHANGED messagingVars
  BY <1>2, <1>12 DEF messagingVars, mempoolVars, ledgerVars, netVars
<1> QED
  BY <1>2, <1>3, <1>4, <1>5, <1>6, <1>7, <1>8, <1>9, <1>10, <1>11, <1>12
     DEF MessagingNext

LEMMA OneLedgerInvHolds == MessagingSpec => []OneLedgerInv
<1>1. MessagingInit => RoundInv /\ RelayInv /\ OneLedger
  <2> SUFFICES ASSUME MessagingInit PROVE RoundInv /\ RelayInv /\ OneLedger
    OBVIOUS
  <2>1. /\ Validators \subseteq Node /\ Relays \subseteq Node /\ Validators # {}
        /\ todo = {}
        /\ \A n \in Node : Height(n) = 0 /\ ~ Committing(n)
    BY MessagingAssumption
       DEF MessagingInit, MempoolInit, LedgerInit, Relays, Height, Committing
  <2> QED BY <2>1 DEF RoundInv, RelayInv, OneLedger, Due
<1>2. /\ MessagingTypeOK /\ RoundInv /\ RelayInv /\ OneLedger
      /\ [MessagingNext]_messagingVars
      => (RoundInv /\ RelayInv /\ OneLedger)'
  BY OneLedgerStep DEF OneLedgerInv
<1> QED BY <1>1, <1>2, NetTypeCorrect, PTL DEF MessagingSpec, OneLedgerInv

\* In a network of any size whose quorum is every validator, all nodes hold
\* the same block at every height they have reached, whatever fails half way.
THEOREM OneLedgerHolds == MessagingSpec => []OneLedger
<1>1. OneLedgerInv => OneLedger
  BY DEF OneLedgerInv
<1> QED BY <1>1, OneLedgerInvHolds, PTL

-----------------------------------------------------------------------------
(* The refinement.  The log is the chain of a validator that has most.     *)

MostIsLongest ==
  \A v \in Validators :
    (\A w \in Validators : Height(w) <= Height(v)) => Longest = blocks[v]

LEMMA LongestIs == MessagingTypeOK /\ OneLedger => MostIsLongest
<1> SUFFICES ASSUME MessagingTypeOK, OneLedger, NEW v \in Validators,
                    \A w \in Validators : Height(w) <= Height(v)
             PROVE  Longest = blocks[v]
  BY DEF MostIsLongest
<1> USE DEF MessagingTypeOK
<1> DEFINE Max(l) == /\ l \in {blocks[w] : w \in Validators}
                     /\ \A w \in Validators : Len(blocks[w]) <= Len(l)
<1>1. Max(blocks[v])
  BY DEF Height
<1>2. Max(Longest)
  <2> HIDE DEF Max
  <2>1. Longest = CHOOSE l : Max(l)
    BY DEF Longest, Max
  <2> QED BY <1>1, <2>1
<1>3. PICK w \in Validators : Longest = blocks[w]
  BY <1>2
<1>4. v \in Node /\ w \in Node /\ Height(v) \in Nat /\ Height(w) \in Nat
  BY HeightType, MessagingAssumption
<1>5. Height(w) = Height(v)
  BY <1>2, <1>3, <1>4 DEF Height
<1>6. \A h \in 1 .. Height(v) : blocks[w][h] = blocks[v][h]
  BY <1>4, <1>5 DEF OneLedger
<1>7. blocks[w] \in Seq(Block) /\ blocks[v] \in Seq(Block)
  BY <1>4, CommittedType
<1> QED BY <1>3, <1>4, <1>5, <1>6, <1>7 DEF Height

\* There is such a validator, since no two are more than a block apart.
LEMMA SomeoneHasMost ==
  ASSUME OneLedgerInv
  PROVE  \E v \in Validators :
           (\A w \in Validators : Height(w) <= Height(v)) /\ Longest = blocks[v]
<1> USE DEF OneLedgerInv, MessagingTypeOK
<1>1. \A v \in Validators : v \in Node /\ Height(v) \in Nat
  BY HeightType, MessagingAssumption
<1>2. PICK u \in Validators : TRUE
  BY MessagingAssumption
<1>3. \E v \in Validators : \A w \in Validators : Height(w) <= Height(v)
  <2>1. CASE \E v \in Validators : Height(u) < Height(v)
    <3>1. PICK v \in Validators : Height(u) < Height(v)
      BY <2>1
    <3>2. \A w \in Validators : Height(w) <= Height(v)
      BY <1>1, <3>1 DEF RoundInv
    <3> QED BY <3>2
  <2>2. CASE \A v \in Validators : Height(v) <= Height(u)
    BY <2>2
  <2> QED BY <2>1, <2>2, <1>1
<1> QED BY <1>3, LongestIs DEF MostIsLongest

\* Every node has a beginning of the log.
LEMMA BeginningOfLog ==
  ASSUME OneLedgerInv, NEW n \in Node
  PROVE  /\ Longest \in Seq(Block) /\ Height(n) <= Len(Longest)
         /\ \A h \in 1 .. Height(n) : blocks[n][h] = Longest[h]
<1> USE DEF OneLedgerInv, MessagingTypeOK
<1>1. PICK v \in Validators : /\ \A w \in Validators : Height(w) <= Height(v)
                              /\ Longest = blocks[v]
  BY SomeoneHasMost
<1>2. v \in Node /\ Height(v) \in Nat /\ blocks[v] \in Seq(Block) /\ Height(n) \in Nat
  BY HeightType, CommittedType, MessagingAssumption
<1>3. Height(n) <= Height(v)
  <2>1. CASE n \in Validators
    BY <1>1, <2>1
  <2>2. CASE n \in Relays
    <3>1. PICK w \in Validators : Height(n) <= Height(w)
      BY <2>2 DEF RelayInv
    <3>2. Height(w) \in Nat /\ Height(w) <= Height(v)
      BY <1>1, HeightType, MessagingAssumption
    <3> QED BY <1>2, <3>1, <3>2
  <2> QED BY <2>1, <2>2 DEF Relays
<1> QED BY <1>1, <1>2, <1>3 DEF Height, OneLedger

\* A put by a node that is behind the log takes the next block of it; by any
\* other it appends, and then every validator has what was there before.
LEMMA PutIsLogStep ==
  ASSUME OneLedgerInv, OneLedgerInv', NoReplay', NEW n \in Node, PutBlock(n)
  PROVE  Log!LogNext
<1> USE DEF OneLedgerInv, MessagingTypeOK
<1>1. /\ blocks' = [blocks EXCEPT ![n] = Append(blocks[n], call[n].block)]
      /\ blocks \in [Node -> Seq(Block)] /\ Committing(n)
      /\ call[n].block \in Block
      /\ Height(n) \in Nat
      /\ Validators \subseteq Node
  BY HeightType, CallType, MessagingAssumption DEF PutBlock, LedgerTypeOK
<1>2. /\ blocks'[n] = Append(blocks[n], call[n].block)
      /\ Height(n)' = Height(n) + 1
      /\ \A m \in Node : m # n => blocks'[m] = blocks[m] /\ Height(m)' = Height(m)
  BY <1>1 DEF Height
<1>3. PICK v \in Validators : /\ \A w \in Validators : Height(w) <= Height(v)
                              /\ Longest = blocks[v]
  BY SomeoneHasMost
<1>4. /\ v \in Node /\ Height(v) \in Nat
      /\ \A w \in Validators : w \in Node /\ Height(w) \in Nat
  BY <1>1, HeightType
<1>5. MostIsLongest'
  <2>1. (MessagingTypeOK /\ OneLedger => MostIsLongest)'
    BY LongestIs, PTL
  <2> QED BY <2>1
<1>6. CASE Height(n) < Height(v)
  <2>1. /\ v # n /\ blocks'[v] = blocks[v] /\ Height(v)' = Height(v)
        /\ \A w \in Validators : Height(w)' <= Height(v)'
    <3>1. v # n /\ blocks'[v] = blocks[v] /\ Height(v)' = Height(v)
      BY <1>1, <1>2, <1>4, <1>6
    <3>2. \A w \in Validators : w = n => Height(w)' <= Height(v)
      BY <1>1, <1>2, <1>4, <1>6
    <3>3. \A w \in Validators : w # n => Height(w)' <= Height(v)
      BY <1>2, <1>3, <1>4
    <3> QED BY <3>1, <3>2, <3>3
  <2>2. Longest' = Longest
    <3>1. Longest' = blocks'[v]
      BY <1>5, <2>1 DEF MostIsLongest
    <3> QED BY <3>1, <2>1, <1>3
  <2>3. Append(blocks[n], call[n].block) = SubSeq(Longest, 1, Len(blocks[n]) + 1)
    <3>1. call[n].block = Longest[Height(n) + 1]
      BY <1>1, <1>3, <1>4, <1>6, NextIsAgreed
    <3>2. /\ Longest \in Seq(Block) /\ Height(n) + 1 \in 1 .. Len(Longest)
          /\ \A h \in 1 .. Height(n) : blocks[n][h] = Longest[h]
      BY <1>1, <1>3, <1>4, <1>6, BeginningOfLog DEF Height
    <3>3. blocks[n] \in Seq(Block) /\ Len(blocks[n]) = Height(n)
      BY <1>1 DEF Height
    <3> QED BY <1>1, <3>1, <3>2, <3>3
  <2>4. Log!Follow(n)
    BY <1>1, <1>3, <1>6, <2>2, <2>3 DEF Log!Follow, Height
  <2> QED BY <2>4 DEF Log!LogNext
<1>7. CASE ~ (Height(n) < Height(v))
  <2>1. n \in Validators
    BY <1>1, <1>3, <1>4, <1>7 DEF RelayInv, Relays
  <2>2. \A w \in Validators : Height(w) = Height(n)
    BY <1>1, <1>3, <1>4, <1>7, <2>1 DEF RoundInv, Due
  <2>3. \A w \in Validators : Longest = blocks[w]
    BY <2>2, <1>4, LongestIs DEF MostIsLongest
  <2>4. Longest' = blocks'[n]
    <3>1. \A w \in Validators : Height(w)' <= Height(n)'
      BY <1>1, <1>2, <1>4, <2>2
    <3> QED BY <1>5, <2>1, <3>1 DEF MostIsLongest
  <2>5. Longest' = Append(Longest, call[n].block)
    BY <1>2, <2>1, <2>3, <2>4
  <2>6. Log!Ordered(Longest')
    BY <2>4 DEF NoReplay, Log!Ordered
  <2>7. Log!Extend(n)
    BY <1>1, <1>2, <2>3, <2>4, <2>5, <2>6 DEF Log!Extend
  <2> QED BY <2>1, <2>7 DEF Log!LogNext
<1> QED BY <1>6, <1>7

\* A network of any size, with any validators and relays, crashing at any
\* moment, is one log that is only appended to.
THEOREM MessagingImplementsLog == MessagingSpec => ImplementsLog
<1>1. MessagingInit => Log!LogInit
  <2> SUFFICES ASSUME MessagingInit PROVE Log!LogInit
    OBVIOUS
  <2>1. \A n \in Node : blocks[n] = <<>>
    BY DEF MessagingInit, MempoolInit, LedgerInit
  <2>2. {blocks[v] : v \in Validators} = {<<>>}
    BY <2>1, MessagingAssumption
  <2>3. Longest \in {<<>>}
    BY <2>1, <2>2 DEF Longest
  <2> QED BY <2>3 DEF MessagingInit, MempoolInit, LedgerInit, Log!LogInit
<1>2. /\ OneLedgerInv /\ OneLedgerInv' /\ NoReplay'
      /\ [MessagingNext]_messagingVars
      => [Log!LogNext]_(Log!logVars)
  <2> SUFFICES ASSUME OneLedgerInv, OneLedgerInv', NoReplay',
                      [MessagingNext]_messagingVars
               PROVE  [Log!LogNext]_(Log!logVars)
    OBVIOUS
  <2>1. [LedgerNext]_ledgerVars
    BY StepIsMempoolStep, MempoolStepIsLedgerStep DEF OneLedgerInv
  <2>2. CASE UNCHANGED blocks
    BY <2>2 DEF Longest, Log!logVars
  <2>3. CASE \E n \in Node : PutBlock(n)
    BY <2>3, PutIsLogStep
  <2> QED BY <2>1, <2>2, <2>3, BlocksStay
<1> QED
  BY <1>1, <1>2, OneLedgerInvHolds, NetworkKeepsLedgersSafe, PTL
  DEF MessagingSpec, ImplementsLog, Log!LogSpec

-----------------------------------------------------------------------------
(* Relays that get stuck.  A relay's watermarks come from the log: from     *)
(* what it has put, or from the block it is committing, or was committing   *)
(* when it died.                                                            *)

\* Where the watermark of wallet s on relay r comes from.
FromLog(r, s) ==
  \/ nonces[r][s] = 0
  \/ \E h \in 1 .. Height(r) : \E i \in DOMAIN Longest[h] :
       Longest[h][i] = [from |-> s, nonce |-> nonces[r][s]]
  \/ /\ Height(r) < Len(Longest)
     /\ \E i \in DOMAIN Longest[Height(r) + 1] :
          /\ Longest[Height(r) + 1][i] = [from |-> s, nonce |-> nonces[r][s]]
          /\ crashes[r] > 0 \/ (Committing(r) /\ i < call[r].next)

WatermarksFromLog == \A r \in Relays : \A s \in Sender : FromLog(r, s)

\* A transaction of the log that a later one of its wallet does not exceed comes
\* before it.
LEMMA LogIsOrdered ==
  ASSUME OneLedgerInv, NoReplay,
         NEW h \in 1 .. Len(Longest), NEW i \in DOMAIN Longest[h],
         NEW k \in 1 .. Len(Longest), NEW j \in DOMAIN Longest[k],
         Longest[h][i].from = Longest[k][j].from,
         Longest[k][j].nonce <= Longest[h][i].nonce
  PROVE  k < h \/ (k = h /\ j <= i)
<1>1. PICK v \in Validators : Longest = blocks[v]
  BY SomeoneHasMost
<1>2. v \in Node /\ blocks[v] \in Seq(Block)
  BY CommittedType, MessagingAssumption DEF OneLedgerInv, MessagingTypeOK
<1>3. Longest[h] \in Block /\ Longest[k] \in Block
  BY <1>1, <1>2
<1>4. /\ i \in Int /\ j \in Int
      /\ Longest[h][i] \in Tx /\ Longest[k][j] \in Tx
  BY <1>3, BlockType
<1>5. Longest[h][i].nonce \in Int /\ Longest[k][j].nonce \in Int
  BY <1>4 DEF Tx, Nonce
<1>6. (h < k \/ (h = k /\ i < j)) => Longest[h][i].nonce < Longest[k][j].nonce
  BY <1>1, <1>2 DEF NoReplay
<1> QED BY <1>4, <1>5, <1>6

\* What a relay commits is the next block of the log.
LEMMA RelayCopiesLog ==
  ASSUME OneLedgerInv, NEW r \in Relays, Committing(r)
  PROVE  Height(r) < Len(Longest) /\ call[r].block = Longest[Height(r) + 1]
<1> USE DEF OneLedgerInv, MessagingTypeOK
<1>1. PICK v \in Validators : /\ \A w \in Validators : Height(w) <= Height(v)
                              /\ Longest = blocks[v]
  BY SomeoneHasMost
<1>2. PICK w \in Validators : Height(r) < Height(w)
  BY DEF RelayInv
<1>3. v \in Node /\ w \in Node /\ r \in Node
  BY MessagingAssumption DEF Relays
<1>4. Height(r) \in Nat /\ Height(v) \in Nat /\ Height(w) \in Nat
  BY <1>3, HeightType
<1>5. Height(r) < Height(v)
  BY <1>1, <1>2, <1>4
<1> QED BY <1>1, <1>3, <1>5, NextIsAgreed DEF Height

\* The log only grows.
LEMMA LogGrows ==
  ASSUME OneLedgerInv, OneLedgerInv', NoReplay', [MessagingNext]_messagingVars
  PROVE  /\ Len(Longest) \in Nat
         /\ \A h \in 1 .. Len(Longest) : h \in 1 .. Len(Longest') /\ Longest'[h] = Longest[h]
<1>1. Longest \in Seq(Block)
  <2>1. PICK v \in Validators : Longest = blocks[v]
    BY SomeoneHasMost
  <2> QED
    BY <2>1, CommittedType, MessagingAssumption DEF OneLedgerInv, MessagingTypeOK
<1>2. [LedgerNext]_ledgerVars
  BY StepIsMempoolStep, MempoolStepIsLedgerStep DEF OneLedgerInv
<1>3. CASE UNCHANGED blocks
  BY <1>1, <1>3 DEF Longest
<1>4. CASE \E n \in Node : PutBlock(n)
  <2>1. Log!LogNext
    BY <1>4, PutIsLogStep
  <2>2. Longest' = Longest \/ \E e \in Block : Longest' = Append(Longest, e)
    BY <2>1 DEF Log!LogNext, Log!Extend, Log!Follow
  <2> QED BY <1>1, <2>2
<1> QED BY <1>2, <1>3, <1>4, BlocksStay

\* A relay that has not died refuses no block of the log.
LEMMA FreshRelayAccepts ==
  ASSUME OneLedgerInv, NoReplay, NEW r \in Relays, crashes[r] = 0,
         Height(r) < Len(Longest), NEW j \in DOMAIN Longest[Height(r) + 1],
         NEW s \in Sender, FromLog(r, s),
         Longest[Height(r) + 1][j].from = s,
         Longest[Height(r) + 1][j].nonce <= nonces[r][s]
  PROVE  Committing(r) /\ j < call[r].next
<1> DEFINE k == Height(r) + 1
<1>1. r \in Node /\ Height(r) \in Nat
  BY HeightType DEF Relays, OneLedgerInv, MessagingTypeOK
<1>2. Longest \in Seq(Block) /\ k \in 1 .. Len(Longest)
  BY <1>1, BeginningOfLog
<1>3. Longest[k] \in Block /\ Longest[k][j] \in Tx /\ j \in Int
  BY <1>2, BlockType
<1>4. nonces[r][s] # 0
  BY <1>3 DEF Tx, Nonce
<1>5. ~ \E h \in 1 .. Height(r) : \E i \in DOMAIN Longest[h] :
          Longest[h][i] = [from |-> s, nonce |-> nonces[r][s]]
  <2> SUFFICES ASSUME NEW h \in 1 .. Height(r), NEW i \in DOMAIN Longest[h],
                      Longest[h][i] = [from |-> s, nonce |-> nonces[r][s]]
               PROVE  FALSE
    OBVIOUS
  <2>1. h \in 1 .. Len(Longest) /\ h < k
    BY <1>1, <1>2
  <2>2. Longest[h][i].from = s /\ Longest[h][i].nonce = nonces[r][s]
    OBVIOUS
  <2>3. k < h \/ (k = h /\ j <= i)
    BY <1>2, <2>1, <2>2, LogIsOrdered
  <2> QED BY <1>1, <2>1, <2>3
<1>6. PICK i \in DOMAIN Longest[k] :
        /\ Longest[k][i] = [from |-> s, nonce |-> nonces[r][s]]
        /\ Committing(r) /\ i < call[r].next
  BY <1>4, <1>5 DEF FromLog
<1>7. j <= i
  BY <1>2, <1>6, LogIsOrdered
<1>8. i \in Int /\ call[r].next \in Int
  BY <1>1, <1>2, <1>6, BlockType, CallType DEF OneLedgerInv, MessagingTypeOK
<1> QED BY <1>3, <1>6, <1>7, <1>8

LEMMA WatermarksStep ==
  ASSUME OneLedgerInv, OneLedgerInv', NoReplay, NoReplay', WatermarksFromLog,
         [MessagingNext]_messagingVars
  PROVE  WatermarksFromLog'
<1> SUFFICES ASSUME NEW r \in Relays, NEW s \in Sender
             PROVE  FromLog(r, s)'
  BY DEF WatermarksFromLog
<1> USE DEF OneLedgerInv, MessagingTypeOK
<1>1. /\ r \in Node /\ Height(r) \in Nat /\ Height(r)' \in Nat
      /\ FromLog(r, s) /\ crashes[r] \in Nat
  <2>1. r \in Node
    BY DEF Relays
  <2>2. Height(r) \in Nat
    BY <2>1, HeightType
  <2>3. Height(r)' \in Nat
    BY <2>1 DEF Height, LedgerTypeOK
  <2> QED BY <2>1, <2>2, <2>3, LedgerAssumption DEF WatermarksFromLog, LedgerTypeOK
<1>2. /\ Len(Longest) \in Nat
      /\ \A h \in 1 .. Len(Longest) : h \in 1 .. Len(Longest') /\ Longest'[h] = Longest[h]
  BY LogGrows
<1>3. \A h \in 1 .. Height(r) : h \in 1 .. Len(Longest)
  BY <1>1, <1>2, BeginningOfLog
<1>4. [LedgerNext]_ledgerVars
  BY StepIsMempoolStep, MempoolStepIsLedgerStep
\* Nothing happens to the watermark, nor to what it comes from.
<1>5. ASSUME nonces'[r][s] = nonces[r][s], Height(r)' = Height(r),
             crashes'[r] >= crashes[r],
             \/ crashes'[r] > 0 \/ ~ Committing(r)
             \/ Committing(r)' /\ call'[r].next >= call[r].next
      PROVE  FromLog(r, s)'
  <2>1. CASE nonces[r][s] = 0
    BY <1>5, <2>1 DEF FromLog
  <2>2. CASE \E h \in 1 .. Height(r) : \E i \in DOMAIN Longest[h] :
               Longest[h][i] = [from |-> s, nonce |-> nonces[r][s]]
    BY <1>2, <1>3, <1>5, <2>2 DEF FromLog
  <2>3. ASSUME Height(r) < Len(Longest), NEW i \in DOMAIN Longest[Height(r) + 1],
               Longest[Height(r) + 1][i] = [from |-> s, nonce |-> nonces[r][s]],
               crashes[r] > 0 \/ (Committing(r) /\ i < call[r].next)
        PROVE  FromLog(r, s)'
    <3>1. Height(r) + 1 \in 1 .. Len(Longest)
      BY <1>1, <1>2, <2>3
    <3>2. /\ Height(r)' + 1 \in 1 .. Len(Longest')
          /\ Longest'[Height(r)' + 1] = Longest[Height(r) + 1]
      BY <1>2, <1>5, <3>1
    <3>3. Height(r)' < Len(Longest')
      BY <1>1, <3>2
    <3>4. i \in Int
      <4>1. Longest[Height(r) + 1] \in Block
        BY <3>1, <1>1, BeginningOfLog
      <4> QED BY <4>1, BlockType
    <3>5. crashes'[r] > 0 \/ (Committing(r)' /\ i < call'[r].next)
      <4>1. CASE crashes[r] > 0
        <5>1. crashes'[r] \in Nat
          BY <1>1, LedgerAssumption DEF LedgerTypeOK
        <5> QED BY <1>1, <1>5, <4>1, <5>1
      <4>2. CASE Committing(r) /\ i < call[r].next
        <5>1. call[r].next \in Int
          BY <1>1, <4>2, CallType
        <5>2. Committing(r)' => call'[r].next \in Int
          BY <1>1 DEF LedgerTypeOK, Call, Committing
        <5> QED BY <1>5, <3>4, <4>2, <5>1, <5>2
      <4> QED BY <2>3, <4>1, <4>2
    <3> QED BY <1>5, <2>3, <3>2, <3>3, <3>5 DEF FromLog
  <2> QED BY <1>1, <2>1, <2>2, <2>3 DEF FromLog
<1>6. ASSUME NEW n \in Node, n # r,
             \/ \E b \in Block : BeginCommit(n, b)
             \/ ApplyTx(n) \/ RejectTx(n) \/ PutBlock(n) \/ Crash(n)
      PROVE  FromLog(r, s)'
  <2>1. /\ blocks'[r] = blocks[r] /\ nonces'[r] = nonces[r]
        /\ call'[r] = call[r] /\ crashes'[r] = crashes[r]
    BY <1>1, <1>6
    DEF BeginCommit, ApplyTx, RejectTx, PutBlock, Crash, LedgerTypeOK
  <2>2. Committing(r) => call[r].next \in Int
    BY <1>1, CallType
  <2> QED BY <1>1, <1>5, <2>1, <2>2 DEF Height, Committing
<1>7. ASSUME NEW b \in Block, BeginCommit(r, b) PROVE FromLog(r, s)'
  BY <1>1, <1>5, <1>7 DEF BeginCommit, Height
<1>8. CASE ApplyTx(r)
  <2>1. /\ Committing(r) /\ call[r].next \in DOMAIN call[r].block /\ NextTx(r) \in Tx
        /\ call[r].next \in Nat \ {0}
    BY <1>1, <1>8, CallType, LedgerAssumption DEF ApplyTx, TxsLeft
  <2>2. /\ Height(r)' = Height(r) /\ crashes' = crashes
        /\ call'[r].next = call[r].next + 1
    <3>1. call[r] \in Call
      BY <1>1, <2>1, CallType
    <3>2. call'[r] = [call[r] EXCEPT !.next = call[r].next + 1]
      BY <1>1, <1>8 DEF ApplyTx, LedgerTypeOK
    <3> QED BY <1>8, <3>1, <3>2 DEF ApplyTx, Height, Call
  <2>3. Committing(r)'
    BY <2>1, <2>2 DEF Committing, NoCall
  <2>4. CASE NextTx(r).from # s
    <3>1. nonces'[r][s] = nonces[r][s]
      BY <1>1, <1>8, <2>4 DEF ApplyTx, LedgerTypeOK
    <3> QED BY <1>1, <1>5, <2>1, <2>2, <2>3, <3>1
  <2>5. CASE NextTx(r).from = s
    <3>1. nonces'[r][s] = NextTx(r).nonce
      BY <1>1, <1>8, <2>5 DEF ApplyTx, LedgerTypeOK
    <3>2. NextTx(r) = [from |-> s, nonce |-> nonces'[r][s]]
      BY <2>1, <2>5, <3>1 DEF Tx
    <3>3. Height(r) < Len(Longest) /\ call[r].block = Longest[Height(r) + 1]
      BY <2>1, RelayCopiesLog
    <3>4. Height(r) + 1 \in 1 .. Len(Longest)
      BY <1>1, <1>2, <3>3
    <3>5. /\ Longest'[Height(r)' + 1] = call[r].block
          /\ Height(r)' < Len(Longest')
      BY <1>1, <1>2, <2>2, <3>3, <3>4
    <3> QED BY <2>1, <2>2, <2>3, <3>2, <3>5 DEF FromLog, NextTx
  <2> QED BY <2>4, <2>5
<1>9. CASE RejectTx(r)
  <2>1. /\ Committing(r) /\ call[r].next \in DOMAIN call[r].block /\ NextTx(r) \in Tx
        /\ call[r].next \in Int
    BY <1>1, <1>9, CallType DEF RejectTx, TxsLeft
  <2>2. Height(r) < Len(Longest) /\ call[r].block = Longest[Height(r) + 1]
    BY <2>1, RelayCopiesLog
  <2>3. crashes[r] # 0
    <3> SUFFICES ASSUME crashes[r] = 0 PROVE FALSE
      OBVIOUS
    <3>1. NextTx(r).from \in Sender /\ FromLog(r, NextTx(r).from)
      BY <2>1 DEF Tx, WatermarksFromLog
    <3>2. NextTx(r).nonce <= nonces[r][NextTx(r).from]
      BY <1>9 DEF RejectTx
    <3>3. call[r].next < call[r].next
      BY <2>1, <2>2, <3>1, <3>2, FreshRelayAccepts DEF NextTx
    <3> QED BY <2>1, <3>3
  <2> QED BY <1>1, <1>5, <1>9, <2>3 DEF RejectTx, Height
<1>10. CASE PutBlock(r)
  <2>1. Height(r)' = Height(r) + 1 /\ nonces' = nonces /\ Committing(r)
    BY <1>1, <1>10 DEF PutBlock, Height, LedgerTypeOK
  <2>2. \A h \in 1 .. Height(r) : h \in 1 .. Height(r)'
    BY <1>1, <2>1
  <2>3. /\ Height(r) + 1 \in 1 .. Height(r)'
        /\ Height(r) < Len(Longest) => Height(r) + 1 \in 1 .. Len(Longest)
    BY <1>1, <1>2, <2>1
  <2> QED BY <1>1, <1>2, <1>3, <2>1, <2>2, <2>3 DEF FromLog
<1>11. CASE Crash(r)
  <2>1. crashes'[r] = crashes[r] + 1 /\ UNCHANGED <<blocks, nonces>>
    BY <1>1, <1>11 DEF Crash, LedgerTypeOK
  <2> QED BY <1>1, <1>5, <2>1 DEF Height
<1>12. CASE UNCHANGED ledgerVars
  <2>1. Committing(r) => call[r].next \in Int
    BY <1>1, CallType
  <2> QED BY <1>1, <1>5, <1>12, <2>1 DEF ledgerVars, Height, Committing
<1> QED
  BY <1>1, <1>4, <1>6, <1>7, <1>8, <1>9, <1>10, <1>11, <1>12 DEF LedgerNext

\* A relay of any network refuses the next block for good only if it has died,
\* and its watermarks then come from that block or from those it has.
THEOREM OnlyDeathStrandsRelaysHolds == MessagingSpec => []OnlyDeathStrandsRelays
<1>1. MessagingInit => WatermarksFromLog
  BY DEF MessagingInit, MempoolInit, LedgerInit, WatermarksFromLog, FromLog, Relays
<1>2. /\ OneLedgerInv /\ OneLedgerInv' /\ NoReplay /\ NoReplay' /\ WatermarksFromLog
      /\ [MessagingNext]_messagingVars
      => WatermarksFromLog'
  BY WatermarksStep
<1>3. OneLedgerInv /\ NoReplay /\ WatermarksFromLog => OnlyDeathStrandsRelays
  <2> SUFFICES ASSUME OneLedgerInv, NoReplay, WatermarksFromLog,
                      NEW r \in Relays, Stuck(r)
               PROVE  /\ crashes[r] > 0
                      /\ \A s \in Sender : nonces[r][s] > 0 =>
                           \E h \in 1 .. Height(r) + 1 : \E i \in DOMAIN Longest[h] :
                             Longest[h][i] = [from |-> s, nonce |-> nonces[r][s]]
    BY DEF OnlyDeathStrandsRelays
  <2> USE DEF OneLedgerInv, MessagingTypeOK
  <2>1. r \in Node /\ Height(r) \in Nat /\ crashes[r] \in Nat
    BY HeightType, LedgerAssumption DEF Relays, LedgerTypeOK
  <2>2. crashes[r] # 0
    <3>1. /\ ~ Committing(r) /\ Height(r) < Len(Longest)
          /\ Longest \in Seq(Block)
      BY <2>1, BeginningOfLog DEF Stuck
    <3>2. PICK j \in DOMAIN Longest[Height(r) + 1] :
            Longest[Height(r) + 1][j].nonce
              <= nonces[r][Longest[Height(r) + 1][j].from]
      BY DEF Stuck
    <3>3. Longest[Height(r) + 1][j].from \in Sender
      <4>1. Longest[Height(r) + 1] \in Block
        BY <2>1, <3>1
      <4> QED BY <4>1, <3>2, BlockType DEF Tx
    <3> QED BY <3>1, <3>2, <3>3, FreshRelayAccepts DEF WatermarksFromLog
  <2>3. ASSUME NEW s \in Sender, nonces[r][s] > 0
        PROVE  \E h \in 1 .. Height(r) + 1 : \E i \in DOMAIN Longest[h] :
                 Longest[h][i] = [from |-> s, nonce |-> nonces[r][s]]
    <3>1. FromLog(r, s) /\ nonces[r][s] # 0
      BY <2>3 DEF WatermarksFromLog
    <3>2. /\ Height(r) + 1 \in 1 .. Height(r) + 1
          /\ \A h \in 1 .. Height(r) : h \in 1 .. Height(r) + 1
      BY <2>1
    <3> QED BY <3>1, <3>2 DEF FromLog
  <2> QED BY <2>1, <2>2, <2>3
<1> QED
  BY <1>1, <1>2, <1>3, OneLedgerInvHolds, NetworkKeepsLedgersSafe, PTL
  DEF MessagingSpec
=============================================================================
