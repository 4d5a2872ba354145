------------------------------- MODULE Engine -------------------------------
(***************************************************************************)
(* consensus.Engine with its mailboxes: the three subscriptions, the maps  *)
(* proposals, prevotes and precommits that handleProposal and handleVote   *)
(* fill and gc prunes, and runRound reading only those maps.  The round    *)
(* logic is that of module Voting; here each wait looks at what this       *)
(* validator has handled, where Voting looks at all that was published.    *)
(*                                                                         *)
(* The gossip network delivers a published message to every validator, the *)
(* publisher included (p2p/pubsub.go:45-50), at any later time, in any     *)
(* order, or never.                                                        *)
(***************************************************************************)
EXTENDS Voting

VARIABLES
  propInbox,   \* propInbox[v]: blocks published and not yet handled by v
  voteInbox,   \* voteInbox[v]: votes published and not yet handled by v
  proposals,   \* proposals[v]: Engine.proposals, at most one block per key
  prevotes,    \* prevotes[v]: Engine.prevotes, one vote per key and voter
  precommits   \* precommits[v]: Engine.precommits

mailVars == <<propInbox, voteInbox, proposals, prevotes, precommits>>
engineVars == <<vars, mailVars>>

EngineInit ==
  /\ Init
  /\ propInbox  = [v \in Validator |-> {}]
  /\ voteInbox  = [v \in Validator |-> {}]
  /\ proposals  = [v \in Validator |-> {}]
  /\ prevotes   = [v \in Validator |-> {}]
  /\ precommits = [v \in Validator |-> {}]

-----------------------------------------------------------------------------
(* The network and the two handlers.                                       *)

\* Mutant: a publisher does not get its own vote back (util.go:25-27).
PublishVoteToOthers(vote) ==
  voteInbox' = [v \in Validator |-> IF v = vote.voter THEN voteInbox[v]
                                    ELSE voteInbox[v] \cup {vote}]

PublishVote(vote) == voteInbox' = [v \in Validator |-> voteInbox[v] \cup {vote}]

PublishBlock(b) == propInbox' = [v \in Validator |-> propInbox[v] \cup {b}]

roundKey(m) == <<m.height, m.round>>

\* The first proposal of a key is kept, unread and unvalidated.
handleProposal(v) ==
  \E b \in propInbox[v] :
    /\ propInbox' = [propInbox EXCEPT ![v] = @ \ {b}]
    /\ proposals' = [proposals EXCEPT ![v] =
         IF \E p \in @ : roundKey(p) = roundKey(b) THEN @ ELSE @ \cup {b}]
    /\ UNCHANGED <<vars, voteInbox, prevotes, precommits>>

\* Mutant: a re-vote is kept beside the vote it follows.
RecordEvery(bucket, vote) == bucket \cup {vote}

\* A bucket with a vote added, unless its voter already has one for the key.
Record(bucket, vote) ==
  IF \E w \in bucket : roundKey(w) = roundKey(vote) /\ w.voter = vote.voter
  THEN bucket
  ELSE bucket \cup {vote}

\* Mutant: the type of a vote is not compared with the topic's.
handleVoteUntyped(v) ==
  \E vote \in voteInbox[v] :
    /\ voteInbox' = [voteInbox EXCEPT ![v] = @ \ {vote}]
    /\ prevotes' = [prevotes EXCEPT ![v] = Record(@, vote)]
    /\ precommits' = [precommits EXCEPT ![v] = Record(@, vote)]
    /\ UNCHANGED <<vars, propInbox, proposals>>

\* A vote is kept in the map of its kind.
handleVote(v) ==
  \E vote \in voteInbox[v] :
    /\ voteInbox' = [voteInbox EXCEPT ![v] = @ \ {vote}]
    /\ \/ /\ vote.kind = "prevote"
          /\ prevotes' = [prevotes EXCEPT ![v] = Record(@, vote)]
          /\ UNCHANGED precommits
       \/ /\ vote.kind = "precommit"
          /\ precommits' = [precommits EXCEPT ![v] = Record(@, vote)]
          /\ UNCHANGED prevotes
    /\ UNCHANGED <<vars, propInbox, proposals>>

\* Mutant: votes for another block of the round are counted too.
CountedAny(v, bucket) ==
  {m.voter : m \in {x \in bucket : roundKey(x) = <<Height(v) + 1, round[v]>>}}

\* The voters countVotes counts for v's current proposal.
Counted(v, bucket) ==
  {m.voter : m \in {x \in bucket : /\ roundKey(x) = <<Height(v) + 1, round[v]>>
                                   /\ x.hash = HashOf(prop[v])}}

\* Mutant: the keys of every height match the prefix.
gcAll(bucket, h) == {}

\* What gc keeps of a map once a height is committed.
gc(bucket, h) == {m \in bucket : m.height # h}

-----------------------------------------------------------------------------
(* runRound.                                                               *)

EnginePropose(v) ==
  /\ Propose(v)
  /\ PublishBlock(NewBlock(v))
  /\ UNCHANGED <<voteInbox, proposals, prevotes, precommits>>

EnginePrevote(v) ==
  \E b \in proposals[v] :
    /\ roundKey(b) = <<Height(v) + 1, round[v]>>
    /\ CastPrevote(v, b)
    /\ PublishVote(Ballot(v, "prevote", b))
    /\ UNCHANGED <<propInbox, proposals, prevotes, precommits>>

EnginePrecommit(v) ==
  /\ Cardinality(Counted(v, prevotes[v])) >= quorumSize
  /\ CastPrecommit(v)
  /\ PublishVote(Ballot(v, "precommit", prop[v]))
  /\ UNCHANGED <<propInbox, proposals, prevotes, precommits>>

\* runRound's call of CommitBlock, followed by gc when it succeeds.
EngineCommit(v) ==
  LET sigs == Counted(v, precommits[v])
      h == Height(v) + 1
  IN /\ Cardinality(sigs) >= quorumSize
     /\ \/ /\ CommitBlock(v, sigs)
           /\ proposals'  = [proposals  EXCEPT ![v] = gc(@, h)]
           /\ prevotes'   = [prevotes   EXCEPT ![v] = gc(@, h)]
           /\ precommits' = [precommits EXCEPT ![v] = gc(@, h)]
        \/ /\ RejectBlock(v)
           /\ UNCHANGED <<proposals, prevotes, precommits>>
     /\ UNCHANGED <<propInbox, voteInbox>>

EngineTimeout(v) == Timeout(v) /\ UNCHANGED mailVars

\* The maps are in memory and go with the process.
EngineRestart(v) ==
  /\ Restart(v)
  /\ proposals'  = [proposals  EXCEPT ![v] = {}]
  /\ prevotes'   = [prevotes   EXCEPT ![v] = {}]
  /\ precommits' = [precommits EXCEPT ![v] = {}]
  /\ UNCHANGED <<propInbox, voteInbox>>

EngineAtBounds == AtBounds /\ UNCHANGED mailVars

EngineNext ==
  \/ \E v \in Validator :
       \/ EnginePropose(v) \/ EnginePrevote(v) \/ EnginePrecommit(v)
       \/ EngineCommit(v) \/ EngineTimeout(v)
       \/ handleProposal(v) \/ handleVote(v)
       \/ EngineRestart(v)
  \/ EngineAtBounds

EngineSpec == EngineInit /\ [][EngineNext]_engineVars
-----------------------------------------------------------------------------
(* Properties.                                                             *)

\* Mailboxes and maps hold only what was published.
MailOK ==
  /\ propInbox \in [Validator -> SUBSET proposed]
  /\ voteInbox \in [Validator -> SUBSET signed]
  /\ proposals \in [Validator -> SUBSET proposed]
  /\ prevotes \in [Validator -> SUBSET {m \in signed : m.kind = "prevote"}]
  /\ precommits \in [Validator -> SUBSET {m \in signed : m.kind = "precommit"}]

\* Every behaviour of the engine over its mailboxes is one of Voting: mail
\* that is late, reordered or lost, maps that are pruned while votes arrive,
\* and a restart that empties them never let a validator do more than the
\* votes really published allow.
ImplementsVoting == Spec

\* A validator that signed twice for one round, after a restart, has one
\* vote in every map: the first to arrive (pbft.go:338).
FirstVoteCounts ==
  \A v \in Validator : \A a, b \in prevotes[v] \cup precommits[v] :
    (a.voter = b.voter /\ a.kind = b.kind /\ roundKey(a) = roundKey(b)) => a = b

\* Mail for a height that v has yet to reach is on its way or in its maps,
\* unless v has restarted since: what arrives early from a validator that is
\* ahead survives the gc of the heights below (pbft.go:361-380).
EarlyMailIsKept ==
  \A v \in Validator : epoch[v] = 0 =>
    /\ \A b \in proposed : b.height > Height(v) =>
         \E p \in propInbox[v] \cup proposals[v] : roundKey(p) = roundKey(b)
    /\ \A m \in signed : m.height > Height(v) =>
         \E w \in voteInbox[v] \cup prevotes[v] \cup precommits[v] :
           roundKey(w) = roundKey(m) /\ w.kind = m.kind /\ w.voter = m.voter
=============================================================================
