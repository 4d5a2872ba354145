----------------------------- MODULE Messaging -----------------------------
(***************************************************************************)
(* A whole network: wallets send through any node's gateway, transactions  *)
(* travel by gossip and by the periodic re-gossip of cmd/node/durability.go*)
(* validators decide blocks of what their pools hold, every node commits   *)
(* them, and relays follow through cmd/node/relay.go's chain sync.         *)
(*                                                                         *)
(* Consensus is here what Voting shows it to be where a quorum is every    *)
(* validator (one to three of them, StableAgreement): one block per        *)
(* height, decided only while all are at the same height.  Its rounds are  *)
(* timely: a validator that does not crash sees the quorum it contributes  *)
(* to, and votes from before a crash arrive too late to count.  Empty      *)
(* blocks, which validators decide all the time, change only the height    *)
(* and are left out.                                                       *)
(***************************************************************************)
EXTENDS Mempool

CONSTANTS
  Validators,  \* the validators; the other nodes are relays
  Lossy,       \* whether gossip drops messages
  Slow         \* whether a transaction may wait longer than MaxClockSkew

ASSUME MessagingAssumption ==
  /\ Validators \subseteq Node
  /\ Validators # {}
  /\ Lossy \in BOOLEAN
  /\ Slow \in BOOLEAN

VARIABLES
  sent,      \* sent[s]: the nonce of the last transaction s has signed
  accepted,  \* the transactions SendSMS has answered Accepted for
  txInbox,   \* txInbox[n]: TopicTxGossip messages n has not handled
  decided,   \* the block of the present round with a precommit quorum
  todo       \* the validators that have yet to call CommitBlock with it

netVars == <<sent, accepted, txInbox, decided, todo>>
messagingVars == <<mempoolVars, netVars>>

Relays == Node \ Validators

MessagingInit ==
  /\ MempoolInit
  /\ sent = [s \in Sender |-> 0]
  /\ accepted = {}
  /\ txInbox = [n \in Node |-> {}]
  /\ decided = <<>>
  /\ todo = {}

-----------------------------------------------------------------------------
(* Transactions on their way into the pools.                               *)

\* Gossip reaches every node, the publisher included, if it is not lost.
Gossip(txs) == txInbox' = [n \in Node |-> txInbox[n] \cup txs]

\* Wallet s signs its next transaction and sends it to node n, which admits
\* it and gossips it, or answers with an error.
SendSMS(s, n) ==
  LET tx == [from |-> s, nonce |-> sent[s] + 1]
  IN /\ sent[s] < MaxNonce
     /\ sent' = [sent EXCEPT ![s] = @ + 1]
     /\ Add(n, tx)
     /\ IF pool' # pool
        THEN Gossip({tx}) /\ accepted' = accepted \cup {tx}
        ELSE UNCHANGED <<txInbox, accepted>>
     /\ UNCHANGED <<ledgerVars, decided, todo>>

\* Mutant: what comes from a peer goes straight into the pool.
ReceiveUnchecked(n, tx) ==
  /\ tx \in txInbox[n]
  /\ txInbox' = [txInbox EXCEPT ![n] = @ \ {tx}]
  /\ pool' = [pool EXCEPT ![n] = @ \cup {tx}]
  /\ UNCHANGED <<ledgerVars, pending, tokens, aged, sent, accepted, decided, todo>>

\* relayIncomingTxGossip hands one message to Add, whatever comes of it.
Receive(n, tx) ==
  /\ tx \in txInbox[n]
  /\ txInbox' = [txInbox EXCEPT ![n] = @ \ {tx}]
  /\ Add(n, tx)
  /\ UNCHANGED <<ledgerVars, sent, accepted, decided, todo>>

Lose(n, tx) ==
  /\ Lossy
  /\ tx \in txInbox[n]
  /\ txInbox' = [txInbox EXCEPT ![n] = @ \ {tx}]
  /\ UNCHANGED <<mempoolVars, sent, accepted, decided, todo>>


\* One pass of runMempoolRegossip.
Regossip(n) ==
  /\ pool[n] # {}
  /\ Gossip(pool[n])
  /\ UNCHANGED <<mempoolVars, sent, accepted, decided, todo>>

-----------------------------------------------------------------------------
(* Blocks.                                                                 *)

SameHeight == \A v, w \in Validators : Height(v) = Height(w)

\* Mutant: a validator that lags behind is not needed for a quorum.
DecideWithoutLaggards(p) ==
  /\ p \in Validators
  /\ todo = {} /\ \A v \in Validators : ~ Committing(v)
  /\ pool[p] # {}
  /\ \E b \in Block : Propose(p, b) /\ decided' = b
  /\ todo' = Validators
  /\ UNCHANGED <<mempoolVars, sent, accepted, txInbox>>

\* Mutant: a relay runs the engine too.
DecideWithRelays(p) ==
  /\ todo = {} /\ \A v \in Node : ~ Committing(v)
  /\ \A v, w \in Node : Height(v) = Height(w)
  /\ pool[p] # {}
  /\ \E b \in Block : Propose(p, b) /\ decided' = b
  /\ todo' = Node
  /\ UNCHANGED <<mempoolVars, sent, accepted, txInbox>>

\* It is p's turn to propose, and every validator prevotes and precommits.
Decide(p) ==
  /\ p \in Validators
  /\ todo = {} /\ \A v \in Validators : ~ Committing(v)
  /\ SameHeight
  /\ pool[p] # {}
  /\ \E b \in Block : Propose(p, b) /\ decided' = b
  /\ todo' = Validators
  /\ UNCHANGED <<mempoolVars, sent, accepted, txInbox>>

\* A validator that has seen the quorum calls CommitBlock.
StartCommit(v) ==
  /\ v \in todo
  /\ BeginCommit(v, decided)
  /\ todo' = todo \ {v}
  /\ UNCHANGED <<poolVars, sent, accepted, txInbox, decided>>

\* Mutant: a relay takes a block that is not next after its tip.
SyncBlockAhead(r, v) ==
  /\ r \in Relays /\ v \in Validators
  /\ Height(v) > Height(r)
  /\ BeginCommit(r, blocks[v][Height(v)])
  /\ UNCHANGED <<poolVars, netVars>>

\* A relay gets its next block from a validator, by gossip or by backfill.
\* Blocks of another height fail CommitBlock and change nothing.
SyncBlock(r, v) ==
  /\ r \in Relays /\ v \in Validators
  /\ Height(v) > Height(r)
  /\ BeginCommit(r, blocks[v][Height(r) + 1])
  /\ UNCHANGED <<poolVars, netVars>>

\* CommitBlock goes on, on any node.
CommitStep(n) ==
  /\ \/ (ApplyTx(n) \/ RejectTx(n)) /\ UNCHANGED poolVars
     \/ PoolPutBlock(n)
  /\ UNCHANGED netVars

\* A node that dies forgets the round it was in.
Die(n) ==
  /\ PoolCrash(n)
  /\ todo' = todo \ {n}
  /\ UNCHANGED <<sent, accepted, txInbox, decided>>

\* A bucket refills, or a transaction that was sent leaves the window.
Clock ==
  /\ \/ \E n \in Node, s \in Sender : Refill(n, s)
     \/ Slow /\ \E tx \in Tx : tx.nonce <= sent[tx.from] /\ Age(tx)
  /\ UNCHANGED netVars

MessagingNext ==
  \/ \E n \in Node :
       \/ \E s \in Sender : SendSMS(s, n)
       \/ \E tx \in Tx : Receive(n, tx) \/ Lose(n, tx)
       \/ Regossip(n) \/ Decide(n) \/ StartCommit(n)
       \/ \E v \in Validators : SyncBlock(n, v)
       \/ CommitStep(n) \/ Die(n)
  \/ Clock

MessagingSpec == MessagingInit /\ [][MessagingNext]_messagingVars

\* Every goroutine of every node keeps running, every validator gets its turn
\* to propose (proposerFor rotates with every height and round), and what is
\* gossiped again and again arrives in the end.
MessagingFairness ==
  \A n \in Node :
    /\ WF_messagingVars(Regossip(n))
    /\ SF_messagingVars(Decide(n))
    /\ WF_messagingVars(StartCommit(n))
    /\ WF_messagingVars(CommitStep(n))
    /\ \A v \in Validators : WF_messagingVars(SyncBlock(n, v))
    /\ \A tx \in Tx : SF_messagingVars(Receive(n, tx))

FairMessagingSpec == MessagingSpec /\ MessagingFairness
-----------------------------------------------------------------------------
(* Properties.                                                             *)

\* The network's variables have their types; only validators commit a block
\* that was just decided.
NetTypeOK ==
  /\ sent \in [Sender -> 0 .. MaxNonce]
  /\ accepted \in SUBSET Tx
  /\ txInbox \in [Node -> SUBSET Tx]
  /\ decided \in Block
  /\ todo \in SUBSET Validators

\* The same of everything in the network, ledgers and pools included.
MessagingTypeOK == LedgerTypeOK /\ PoolTypeOK /\ NetTypeOK

\* Whatever the network does with transactions and blocks, each node's pool
\* and ledger go through the steps of Mempool, so that what is shown of one
\* node alone holds of every node of a network.
ImplementsMempool == MempoolSpec

\* The longest chain of a validator.
Longest ==
  CHOOSE l \in {blocks[v] : v \in Validators} :
    \A v \in Validators : Len(blocks[v]) <= Len(l)

Log == INSTANCE ReplicatedLog
         WITH Replica <- Node, Writer <- Validators, Entry <- Block,
              log <- Longest, copy <- blocks

\* All the nodes together are one log: through half-done commits, deaths and
\* relays that copy from whoever answers, a block is appended only when every
\* validator has all before it, and no node ever has anything but a beginning
\* of the log or loses some of it (chain.go:99-147, relay.go:274-354).
ImplementsLog == Log!LogSpec



\* Relay r refuses the block it needs next, now and for ever: a watermark of its
\* own has passed a transaction of it.
Stuck(r) ==
  /\ ~ Committing(r) /\ Height(r) < Len(Longest)
  /\ \E i \in DOMAIN Longest[Height(r) + 1] :
       LET tx == Longest[Height(r) + 1][i] IN tx.nonce <= nonces[r][tx.from]

\* Whatever a relay is sent, by gossip and by backfill, it never gets stuck
\* unless it has died; and even if it has, only where a commit of that very
\* block was under way (chain.go:124-140, relay.go:263-354).
OnlyDeathStrandsRelays ==
  \A r \in Relays :
    Stuck(r) => /\ crashes[r] > 0
                /\ \A s \in Sender : nonces[r][s] > 0 =>
                     \E h \in 1 .. Height(r) + 1 : \E i \in DOMAIN Longest[h] :
                       Longest[h][i] = [from |-> s, nonce |-> nonces[r][s]]

\* All nodes have the same block at every height they have both reached,
\* although commits fail half way, nodes die in the middle of one, and relays
\* copy from whichever validator answers (chain.go:99-147, relay.go:274-354).
OneLedger ==
  \A n, m \in Node : \A h \in (1 .. Height(n)) \cap (1 .. Height(m)) :
    blocks[n][h] = blocks[m][h]
=============================================================================
