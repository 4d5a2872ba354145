------------------------------- MODULE Voting -------------------------------
(***************************************************************************)
(* The PREVOTE/PRECOMMIT engine of internal/consensus/pbft.go with the     *)
(* gossip network taken away: every validator runs runHeight / runRound,   *)
(* what it publishes is in `proposed` and `signed` for good, and what it   *)
(* has received by the time it looks is any part of that.  This is what    *)
(* the engine promises whatever the network delays or loses; module Engine *)
(* adds the mailboxes, the vote maps and gc, and implements this module.   *)
(*                                                                         *)
(* A validator is its index in the sorted cfg.Validators (pbft.go:66-67).  *)
(* The hash of a block is its header without PrevHash: a proposer never    *)
(* reuses a Timestamp at one height, and (epoch, round) stands for it.     *)
(***************************************************************************)
EXTENDS Integers, FiniteSets, Sequences

CONSTANTS
  N,            \* number of validators
  Unstable,     \* the validators that may crash and restart
  MaxHeight,    \* bound: no block is proposed above this height
  MaxRound,     \* bound: no validator leaves this round of a height by itself
  MaxRestarts   \* bound: restarts of one validator

ASSUME VotingAssumption ==
  /\ N \in Nat \ {0}
  /\ Unstable \subseteq 0 .. N - 1
  /\ MaxHeight \in Nat
  /\ MaxRound \in Nat
  /\ MaxRestarts \in Nat

VARIABLES
  chain,     \* chain[v]: the blocks above genesis v has committed (durable)
  epoch,     \* epoch[v]: how often v has restarted
  round,     \* round[v]: the round runHeight is in
  step,      \* step[v]: where runRound stands
  prop,      \* prop[v]: runRound's prop, GenesisBlock while it has none
  proposed,  \* every block ever published on TopicPropose
  signed     \* every vote ever published on TopicPrevote and TopicPrecommit

vars == <<chain, epoch, round, step, prop, proposed, signed>>

Validator == 0 .. N - 1

Faults(n) == (n - 1) \div 3

\* Mutant: the formula util.go:20-32 warns against.
quorum2f1(n) == 2 * Faults(n) + 1
\* Mutant: one vote short of 2f+1.
quorumShort(n) == 2 * Faults(n)

quorum(n) == n - Faults(n)
quorumSize == quorum(N)

proposerFor(h, r) == (h + r) % N

-----------------------------------------------------------------------------
(* Blocks, votes and what a validator has committed.                       *)

Hash  == [height : Nat, round : Nat, epoch : Nat]
Block == [height : Nat, round : Nat, epoch : Nat, prev : Hash]
Vote  == [kind : {"prevote", "precommit"}, height : Nat, round : Nat,
          hash : Hash, voter : Validator]
Committed == [block : Block, sigs : SUBSET Validator]

HashOf(b) == [height |-> b.height, round |-> b.round, epoch |-> b.epoch]

GenesisHash  == [height |-> 0, round |-> 0, epoch |-> 0]
GenesisBlock == [height |-> 0, round |-> 0, epoch |-> 0, prev |-> GenesisHash]

Height(v) == Len(chain[v])
TipHash(v) == IF Height(v) = 0 THEN GenesisHash
                               ELSE HashOf(chain[v][Height(v)].block)

\* The block propose() builds on the proposer's own head.
NewBlock(v) == [height |-> Height(v) + 1, round |-> round[v],
                epoch |-> epoch[v], prev |-> TipHash(v)]

\* Mutant: validators are numbered from 1.
BallotOffByOne(v, kind, b) == [kind |-> kind, height |-> Height(v) + 1,
                               round |-> round[v], hash |-> HashOf(b),
                               voter |-> v + 1]

\* The vote v signs for its current proposal.
Ballot(v, kind, b) == [kind |-> kind, height |-> Height(v) + 1,
                       round |-> round[v], hash |-> HashOf(b), voter |-> v]

Signers(kind, h, r, hash) ==
  {v \in Validator : [kind |-> kind, height |-> h, round |-> r,
                      hash |-> hash, voter |-> v] \in signed}

\* Those who have signed a vote of this kind for v's current proposal.
Backers(v, kind) == Signers(kind, Height(v) + 1, round[v], HashOf(prop[v]))

-----------------------------------------------------------------------------
(* Entering a round: the proposer proposes first, the others wait.         *)

FirstStep(v, h, r) == IF proposerFor(h, r) = v THEN "propose" ELSE "proposal"

Init ==
  /\ chain = [v \in Validator |-> <<>>]
  /\ epoch = [v \in Validator |-> 0]
  /\ round = [v \in Validator |-> 0]
  /\ step  = [v \in Validator |-> FirstStep(v, 1, 0)]
  /\ prop  = [v \in Validator |-> GenesisBlock]
  /\ proposed = {}
  /\ signed = {}

EnterRound(v, h, r) ==
  /\ round' = [round EXCEPT ![v] = r]
  /\ step'  = [step EXCEPT ![v] = FirstStep(v, h, r)]
  /\ prop'  = [prop EXCEPT ![v] = GenesisBlock]

\* runRound returns without a commit: runHeight goes on to the next round.
NextRound(v) ==
  /\ round[v] < MaxRound
  /\ EnterRound(v, Height(v) + 1, round[v] + 1)
  /\ UNCHANGED <<chain, epoch, proposed, signed>>

(* What the steps of runRound do, apart from the condition each waits for. *)

Propose(v) ==
  /\ step[v] = "propose"
  /\ Height(v) < MaxHeight
  /\ proposed' = proposed \cup {NewBlock(v)}
  /\ step' = [step EXCEPT ![v] = "proposal"]
  /\ UNCHANGED <<chain, epoch, round, prop, signed>>

CastPrevote(v, b) ==
  /\ step[v] = "proposal"
  /\ prop' = [prop EXCEPT ![v] = b]
  /\ signed' = signed \cup {Ballot(v, "prevote", b)}
  /\ step' = [step EXCEPT ![v] = "prevotes"]
  /\ UNCHANGED <<chain, epoch, round, proposed>>

CastPrecommit(v) ==
  /\ step[v] = "prevotes"
  /\ signed' = signed \cup {Ballot(v, "precommit", prop[v])}
  /\ step' = [step EXCEPT ![v] = "precommits"]
  /\ UNCHANGED <<chain, epoch, round, prop, proposed>>

\* Mutant: the check of PrevHash (chain.go:113-115) is missing.
CommitAnyBlock(v, sigs) ==
  /\ step[v] = "precommits"
  /\ chain' = [chain EXCEPT ![v] =
                 Append(@, [block |-> prop[v], sigs |-> sigs])]
  /\ EnterRound(v, Height(v) + 2, 0)
  /\ UNCHANGED <<epoch, proposed, signed>>

\* CommitBlock takes a block that extends the tip with a quorum of
\* signatures, and fails the round for any other.
CommitBlock(v, sigs) ==
  /\ step[v] = "precommits"
  /\ prop[v].prev = TipHash(v)
  /\ chain' = [chain EXCEPT ![v] =
                 Append(@, [block |-> prop[v], sigs |-> sigs])]
  /\ EnterRound(v, Height(v) + 2, 0)
  /\ UNCHANGED <<epoch, proposed, signed>>

RejectBlock(v) ==
  /\ step[v] = "precommits"
  /\ prop[v].prev # TipHash(v)
  /\ NextRound(v)

-----------------------------------------------------------------------------
(* The actions: each waits until enough of what was published has arrived. *)

Prevote(v) ==
  \E b \in proposed :
    /\ b.height = Height(v) + 1
    /\ b.round = round[v]
    /\ CastPrevote(v, b)

\* Mutant: a validator precommits as soon as it has prevoted.
PrecommitAtOnce(v) == CastPrecommit(v)

Precommit(v) ==
  /\ Cardinality(Backers(v, "prevote")) >= quorumSize
  /\ CastPrecommit(v)

Commit(v) ==
  \E sigs \in SUBSET Backers(v, "precommit") :
    /\ Cardinality(sigs) >= quorumSize
    /\ CommitBlock(v, sigs)

CommitFails(v) ==
  /\ Cardinality(Backers(v, "precommit")) >= quorumSize
  /\ RejectBlock(v)

\* RoundTimeout expires in a wait, publishing fails, or CommitBlock fails over
\* a transaction or in the store (module Ledger).
Timeout(v) == NextRound(v)

\* The process dies and comes back: only the chain survives.
Restart(v) ==
  /\ v \in Unstable
  /\ epoch[v] < MaxRestarts
  /\ epoch' = [epoch EXCEPT ![v] = @ + 1]
  /\ EnterRound(v, Height(v) + 1, 0)
  /\ UNCHANGED <<chain, proposed, signed>>

\* Every validator has reached a bound of the model.
AtBounds ==
  /\ \A v \in Validator : round[v] = MaxRound \/ Height(v) = MaxHeight
  /\ UNCHANGED vars

Next ==
  \/ \E v \in Validator :
       \/ Propose(v) \/ Prevote(v) \/ Precommit(v)
       \/ Commit(v) \/ CommitFails(v) \/ Timeout(v)
       \/ Restart(v)
  \/ AtBounds

Spec == Init /\ [][Next]_vars
-----------------------------------------------------------------------------
(* Properties.                                                             *)

\* Every variable has its type, and no bound of the model is exceeded.
TypeOK ==
  /\ chain \in [Validator -> Seq(Committed)]
  /\ epoch \in [Validator -> 0 .. MaxRestarts]
  /\ round \in [Validator -> 0 .. MaxRound]
  /\ step \in [Validator -> {"propose", "proposal", "prevotes", "precommits"}]
  /\ prop \in [Validator -> Block]
  /\ proposed \in SUBSET Block
  /\ signed \in SUBSET Vote

\* Two validators that commit a block of the same round at the same height
\* commit the same block, even if the proposer or a voter restarts and signs
\* something else for that round (pbft.go:3-6, for at most f such validators).
RoundAgreement ==
  \A v, w \in Validator : \A h \in (1 .. Height(v)) \cap (1 .. Height(w)) :
    chain[v][h].block.round = chain[w][h].block.round
      => HashOf(chain[v][h].block) = HashOf(chain[w][h].block)

\* Two validators commit the same block at the same height, whatever the
\* round.  pbft.go:3-6 claims it for every n.
Agreement ==
  \A v, w \in Validator : \A h \in (1 .. Height(v)) \cap (1 .. Height(w)) :
    HashOf(chain[v][h].block) = HashOf(chain[w][h].block)

\* With up to three validators a quorum is all of them (util.go:33-43), and
\* until one restarts no two commit different blocks at one height, although
\* rounds time out on some and not on others (pbft.go:135-151).
StableAgreement ==
  (N <= 3 /\ \A v \in Validator : epoch[v] = 0) => Agreement

\* Every committed block stands on the block below it and carries the
\* precommits of a quorum, each of them really signed for that block in that
\* round (chain.go:110-122), although no vote was ever asked about PrevHash.
CertifiedChain ==
  \A v \in Validator : \A h \in 1 .. Height(v) :
    LET b == chain[v][h].block
        sigs == chain[v][h].sigs
    IN /\ b.height = h
       /\ b.prev = IF h = 1 THEN GenesisHash ELSE HashOf(chain[v][h - 1].block)
       /\ sigs \subseteq Signers("precommit", h, b.round, HashOf(b))
       /\ Cardinality(sigs) >= quorumSize

\* Nobody precommits a block for which a quorum has not prevoted in the same
\* round, restarts and late votes notwithstanding (pbft.go:184-192).
PrecommitBacked ==
  \A vote \in signed :
    vote.kind = "precommit" =>
      Cardinality(Signers("prevote", vote.height, vote.round, vote.hash))
        >= quorumSize
=============================================================================
