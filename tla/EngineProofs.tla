---------------------------- MODULE EngineProofs ----------------------------
(***************************************************************************)
(* The engine with its mailboxes implements Voting, and so keeps what      *)
(* VotingProofs shows of it.                                               *)
(***************************************************************************)
EXTENDS Engine, VotingProofs

-----------------------------------------------------------------------------
(* The inductive invariant: what a validator has received was published.   *)
(* It is all the refinement needs: a count over a map of received votes is *)
(* then never more than a count over the votes really signed.              *)

EngineInv == TypeOK /\ MailOK

\* What a validator counts for its proposal has been signed for it.
LEMMA CountedAreBackers ==
  ASSUME TypeOK, NEW v \in Validator, NEW kind, NEW bucket,
         bucket \subseteq {m \in signed : m.kind = kind}
  PROVE  Counted(v, bucket) \subseteq Backers(v, kind)
<1> SUFFICES ASSUME NEW m \in bucket, roundKey(m) = <<Height(v) + 1, round[v]>>,
                    m.hash = HashOf(prop[v])
             PROVE  m.voter \in Backers(v, kind)
  BY DEF Counted
<1>1. m \in signed /\ m \in Vote /\ m.kind = kind
  BY DEF TypeOK
<1>2. m.height = Height(v) + 1 /\ m.round = round[v]
  BY DEF roundKey
<1>3. m = [kind |-> kind, height |-> Height(v) + 1, round |-> round[v],
           hash |-> HashOf(prop[v]), voter |-> m.voter]
  BY <1>1, <1>2 DEF Vote
<1>4. m.voter \in Validator
  BY <1>1 DEF Vote
<1> QED BY <1>1, <1>3, <1>4 DEF Backers, Signers

LEMMA BackersCount ==
  ASSUME NEW v, NEW kind, NEW P \in SUBSET Backers(v, kind),
         Cardinality(P) >= quorumSize
  PROVE  Cardinality(Backers(v, kind)) >= quorumSize
<1>1. Backers(v, kind) \subseteq Validator
  BY DEF Backers, Signers
<1>2. IsFiniteSet(Backers(v, kind)) /\ Cardinality(Backers(v, kind)) \in Nat
  BY <1>1, ValidatorsFinite, FS_Subset, FS_CardinalityType
<1>3. Cardinality(P) \in Nat /\ Cardinality(P) <= Cardinality(Backers(v, kind))
  BY <1>2, FS_Subset, FS_CardinalityType
<1>4. quorumSize \in Int
  BY FaultsBound, VotingAssumption DEF quorumSize, quorum
<1> QED BY <1>2, <1>3, <1>4

-----------------------------------------------------------------------------
(* Every step of the engine is a step of Voting, or leaves it alone.       *)

LEMMA StepRefines ==
  ASSUME EngineInv, [EngineNext]_engineVars
  PROVE  [Next]_vars
<1> USE DEF EngineInv
<1>1. ASSUME NEW v \in Validator, EnginePropose(v) PROVE Next
  BY <1>1 DEF EnginePropose, Next
<1>2. ASSUME NEW v \in Validator, EnginePrevote(v) PROVE Next
  <2>1. PICK b \in proposals[v] : /\ roundKey(b) = <<Height(v) + 1, round[v]>>
                                  /\ CastPrevote(v, b)
    BY <1>2 DEF EnginePrevote
  <2>2. b \in proposed /\ b.height = Height(v) + 1 /\ b.round = round[v]
    BY <2>1 DEF MailOK, roundKey
  <2> QED BY <2>1, <2>2 DEF Prevote, Next
<1>3. ASSUME NEW v \in Validator, EnginePrecommit(v) PROVE Next
  <2>1. Counted(v, prevotes[v]) \in SUBSET Backers(v, "prevote")
    BY CountedAreBackers DEF MailOK
  <2>2. Cardinality(Backers(v, "prevote")) >= quorumSize
    BY <1>3, <2>1, BackersCount DEF EnginePrecommit
  <2> QED BY <1>3, <2>2 DEF EnginePrecommit, Precommit, Next
<1>4. ASSUME NEW v \in Validator, EngineCommit(v) PROVE Next
  <2>1. Counted(v, precommits[v]) \in SUBSET Backers(v, "precommit")
    BY CountedAreBackers DEF MailOK
  <2>2. Cardinality(Counted(v, precommits[v])) >= quorumSize
    BY <1>4 DEF EngineCommit
  <2>3. CASE CommitBlock(v, Counted(v, precommits[v]))
    BY <2>1, <2>2, <2>3 DEF Commit, Next
  <2>4. CASE RejectBlock(v)
    BY <2>1, <2>2, <2>4, BackersCount DEF CommitFails, Next
  <2> QED BY <1>4, <2>3, <2>4 DEF EngineCommit
<1>5. ASSUME NEW v \in Validator, EngineTimeout(v) PROVE Next
  BY <1>5 DEF EngineTimeout, Next
<1>6. ASSUME NEW v \in Validator, handleProposal(v) \/ handleVote(v)
      PROVE  UNCHANGED vars
  BY <1>6 DEF handleProposal, handleVote
<1>7. ASSUME NEW v \in Validator, EngineRestart(v) PROVE Next
  BY <1>7 DEF EngineRestart, Next
<1>8. CASE EngineAtBounds
  BY <1>8 DEF EngineAtBounds, Next
<1>9. CASE UNCHANGED engineVars
  BY <1>9 DEF engineVars
<1> QED
  BY <1>1, <1>2, <1>3, <1>4, <1>5, <1>6, <1>7, <1>8, <1>9 DEF EngineNext

\* Nothing reaches a mailbox or a map that was not published.
LEMMA MailStep ==
  ASSUME EngineInv, [EngineNext]_engineVars
  PROVE  MailOK'
<1> USE DEF EngineInv
<1>1. ASSUME NEW v \in Validator, EnginePropose(v) PROVE MailOK'
  BY <1>1 DEF EnginePropose, Propose, PublishBlock, MailOK
<1>2. ASSUME NEW v \in Validator, EnginePrevote(v) PROVE MailOK'
  BY <1>2 DEF EnginePrevote, CastPrevote, PublishVote, MailOK
<1>3. ASSUME NEW v \in Validator, EnginePrecommit(v) PROVE MailOK'
  BY <1>3 DEF EnginePrecommit, CastPrecommit, PublishVote, MailOK
<1>4. ASSUME NEW v \in Validator, EngineCommit(v) PROVE MailOK'
  BY <1>4 DEF EngineCommit, CommitBlock, RejectBlock, NextRound, gc, MailOK
<1>5. ASSUME NEW v \in Validator, EngineTimeout(v) PROVE MailOK'
  BY <1>5 DEF EngineTimeout, Timeout, NextRound, mailVars, MailOK
<1>6. ASSUME NEW v \in Validator, handleProposal(v) PROVE MailOK'
  BY <1>6 DEF handleProposal, vars, MailOK
<1>7. ASSUME NEW v \in Validator, handleVote(v) PROVE MailOK'
  BY <1>7 DEF handleVote, Record, vars, MailOK
<1>8. ASSUME NEW v \in Validator, EngineRestart(v) PROVE MailOK'
  BY <1>8 DEF EngineRestart, Restart, MailOK
<1>9. CASE EngineAtBounds \/ UNCHANGED engineVars
  BY <1>9 DEF EngineAtBounds, AtBounds, engineVars, mailVars, vars, MailOK
<1> QED
  BY <1>1, <1>2, <1>3, <1>4, <1>5, <1>6, <1>7, <1>8, <1>9 DEF EngineNext

LEMMA EngineInvHolds == EngineSpec => []EngineInv
<1>1. EngineInit => EngineInv
  <2>1. Init => TypeOK
    BY VotingInvInit DEF VotingInv
  <2> QED BY <2>1 DEF EngineInit, EngineInv, MailOK
<1>2. EngineInv /\ [EngineNext]_engineVars => EngineInv'
  BY StepRefines, MailStep, TypeStep DEF EngineInv
<1> QED BY <1>1, <1>2, PTL DEF EngineSpec

\* In every behaviour the mailboxes and the vote maps hold only what somebody
\* published (handleProposal and handleVote, pbft.go:298-343).
THEOREM MailIsGenuine == EngineSpec => []MailOK
<1>1. EngineInv => MailOK
  BY DEF EngineInv
<1> QED BY <1>1, EngineInvHolds, PTL

\* The engine, with its handlers, first-vote-wins maps and gc, over a network
\* that delays, reorders and loses, implements Voting, for every number of
\* validators.
THEOREM EngineImplementsVoting == EngineSpec => ImplementsVoting
<1>1. EngineInit => Init
  BY DEF EngineInit
<1>2. EngineInv /\ [EngineNext]_engineVars => [Next]_vars
  BY StepRefines
<1> QED BY <1>1, <1>2, EngineInvHolds, PTL DEF EngineSpec, ImplementsVoting, Spec

-----------------------------------------------------------------------------
(* One vote of each kind from everybody in every round.                    *)

\* No two votes of one voter for one round.
OneEach(bucket) ==
  \A a, b \in bucket : (a.voter = b.voter /\ roundKey(a) = roundKey(b)) => a = b

VotesOnce == \A v \in Validator : OneEach(prevotes[v]) /\ OneEach(precommits[v])

\* What Record makes of a bucket.
LEMMA RecordEffect ==
  ASSUME NEW bucket, NEW vote
  PROVE  /\ bucket \subseteq Record(bucket, vote)
         /\ Record(bucket, vote) \subseteq bucket \cup {vote}
         /\ \E w \in Record(bucket, vote) :
              roundKey(w) = roundKey(vote) /\ w.voter = vote.voter
         /\ OneEach(bucket) => OneEach(Record(bucket, vote))
<1>1. CASE \E w \in bucket : roundKey(w) = roundKey(vote) /\ w.voter = vote.voter
  BY <1>1 DEF Record
<1>2. CASE ~ \E w \in bucket : roundKey(w) = roundKey(vote) /\ w.voter = vote.voter
  <2>1. Record(bucket, vote) = bucket \cup {vote}
    BY <1>2 DEF Record
  <2> QED BY <1>2, <2>1 DEF OneEach
<1> QED BY <1>1, <1>2

LEMMA VotesOnceStep ==
  ASSUME EngineInv, VotesOnce, [EngineNext]_engineVars
  PROVE  VotesOnce'
<1> USE DEF EngineInv, VotesOnce
<1>1. ASSUME NEW v \in Validator, handleVote(v) PROVE VotesOnce'
  <2>1. PICK vote \in voteInbox[v] :
          \/ /\ prevotes' = [prevotes EXCEPT ![v] = Record(@, vote)]
             /\ UNCHANGED precommits
          \/ /\ precommits' = [precommits EXCEPT ![v] = Record(@, vote)]
             /\ UNCHANGED prevotes
    BY <1>1 DEF handleVote
  <2>2. /\ OneEach(Record(prevotes[v], vote))
        /\ OneEach(Record(precommits[v], vote))
    BY RecordEffect
  <2> QED BY <2>1, <2>2 DEF MailOK
<1>2. ASSUME NEW v \in Validator, EngineCommit(v) PROVE VotesOnce'
  <2>1. \A h : OneEach(gc(prevotes[v], h)) /\ OneEach(gc(precommits[v], h))
    BY DEF gc, OneEach
  <2> QED BY <1>2, <2>1 DEF EngineCommit, MailOK
<1>3. ASSUME NEW v \in Validator, EngineRestart(v) PROVE VotesOnce'
  BY <1>3 DEF EngineRestart, OneEach, MailOK
<1>4. CASE UNCHANGED <<prevotes, precommits>>
  BY <1>4
<1> QED
  BY <1>1, <1>2, <1>3, <1>4 DEF EngineNext, engineVars, mailVars, EnginePropose,
     EnginePrevote, EnginePrecommit, EngineTimeout, handleProposal, EngineAtBounds

\* Of two votes that one validator has signed for one round, every map holds
\* one, and no gc, restart or order of arrival brings in the other beside it
\* (pbft.go:338), for any number of validators.
THEOREM FirstVoteCountsHolds == EngineSpec => []FirstVoteCounts
<1>1. EngineInit => VotesOnce
  BY DEF EngineInit, VotesOnce, OneEach
<1>2. EngineInv /\ VotesOnce /\ [EngineNext]_engineVars => VotesOnce'
  BY VotesOnceStep
<1>3. EngineInv /\ VotesOnce => FirstVoteCounts
  <2> SUFFICES ASSUME EngineInv, VotesOnce, NEW v \in Validator,
                      NEW a \in prevotes[v] \cup precommits[v],
                      NEW b \in prevotes[v] \cup precommits[v],
                      a.voter = b.voter, a.kind = b.kind, roundKey(a) = roundKey(b)
               PROVE  a = b
    BY DEF FirstVoteCounts
  <2>1. /\ \A m \in prevotes[v] : m.kind = "prevote"
        /\ \A m \in precommits[v] : m.kind = "precommit"
    BY DEF EngineInv, MailOK
  <2>2. \/ a \in prevotes[v] /\ b \in prevotes[v]
        \/ a \in precommits[v] /\ b \in precommits[v]
    BY <2>1
  <2> QED BY <2>2 DEF VotesOnce, OneEach
<1> QED BY <1>1, <1>2, <1>3, EngineInvHolds, PTL DEF EngineSpec

-----------------------------------------------------------------------------
(* Mail that is early.                                                     *)

\* v has b, or another proposal of its round, in its inbox or its map.
HasProposal(v, b) ==
  \E p \in propInbox[v] \cup proposals[v] : roundKey(p) = roundKey(b)

\* v has m, or another vote of its kind, voter and round.
HasVote(v, m) ==
  \E w \in voteInbox[v] \cup prevotes[v] \cup precommits[v] :
    roundKey(w) = roundKey(m) /\ w.kind = m.kind /\ w.voter = m.voter

\* A handler takes a message from the inbox and has one of its key in the map.
LEMMA HandlersKeep ==
  ASSUME EngineInv, NEW u \in Validator, handleProposal(u) \/ handleVote(u),
         NEW v \in Validator
  PROVE  /\ \A b : HasProposal(v, b) => HasProposal(v, b)'
         /\ \A m : HasVote(v, m) => HasVote(v, m)'
<1> USE DEF EngineInv
<1>1. CASE handleProposal(u)
  <2>1. PICK b \in propInbox[u] :
          /\ propInbox' = [propInbox EXCEPT ![u] = @ \ {b}]
          /\ proposals' = [proposals EXCEPT ![u] =
               IF \E p \in @ : roundKey(p) = roundKey(b) THEN @ ELSE @ \cup {b}]
    BY <1>1 DEF handleProposal
  <2>2. /\ propInbox[v] \ {b} \subseteq propInbox'[v]
        /\ proposals[v] \subseteq proposals'[v]
        /\ v = u => \E p \in proposals'[v] : roundKey(p) = roundKey(b)
        /\ v # u => propInbox'[v] = propInbox[v]
    BY <2>1 DEF MailOK
  <2>3. \A c : HasProposal(v, c) => HasProposal(v, c)'
    BY <2>2 DEF HasProposal, roundKey
  <2> QED BY <1>1, <2>3 DEF handleProposal, HasVote, roundKey
<1>2. CASE handleVote(u)
  <2>1. PICK vote \in voteInbox[u] :
          /\ voteInbox' = [voteInbox EXCEPT ![u] = @ \ {vote}]
          /\ \/ /\ vote.kind = "prevote"
                /\ prevotes' = [prevotes EXCEPT ![u] = Record(@, vote)]
                /\ UNCHANGED precommits
             \/ /\ vote.kind = "precommit"
                /\ precommits' = [precommits EXCEPT ![u] = Record(@, vote)]
                /\ UNCHANGED prevotes
          /\ UNCHANGED <<propInbox, proposals>>
    BY <1>2 DEF handleVote
  <2>2. /\ \A w \in Record(prevotes[u], vote) :
             vote.kind = "prevote" => w.kind = "prevote"
        /\ \A w \in Record(precommits[u], vote) :
             vote.kind = "precommit" => w.kind = "precommit"
    BY RecordEffect DEF MailOK
  <2>3. /\ voteInbox[v] \ {vote} \subseteq voteInbox'[v]
        /\ prevotes[v] \subseteq prevotes'[v]
        /\ precommits[v] \subseteq precommits'[v]
        /\ v # u => voteInbox'[v] = voteInbox[v]
    BY <2>1, RecordEffect DEF MailOK
  <2>4. v = u => \E w \in prevotes'[v] \cup precommits'[v] :
                   roundKey(w) = roundKey(vote) /\ w.kind = vote.kind
                   /\ w.voter = vote.voter
    <3>1. CASE vote.kind = "prevote"
      BY <2>1, <2>2, <3>1, RecordEffect DEF MailOK
    <3>2. CASE vote.kind = "precommit"
      BY <2>1, <2>2, <3>2, RecordEffect DEF MailOK
    <3> QED BY <2>1, <3>1, <3>2
  <2>5. \A m : HasVote(v, m) => HasVote(v, m)'
    BY <2>3, <2>4 DEF HasVote, roundKey
  <2> QED BY <2>1, <2>5 DEF HasProposal, roundKey
<1> QED BY <1>1, <1>2

\* The commit of a height drops the mail of that height and no other.
LEMMA CommitKeeps ==
  ASSUME EngineInv, NEW u \in Validator, EngineCommit(u), NEW v \in Validator
  PROVE  /\ Height(v)' >= Height(v)
         /\ \A b : b.height > Height(v)' /\ HasProposal(v, b) => HasProposal(v, b)'
         /\ \A m : m.height > Height(v)' /\ HasVote(v, m) => HasVote(v, m)'
<1> USE DEF EngineInv
<1>1. CASE chain' = chain /\ UNCHANGED mailVars
  BY <1>1 DEF mailVars, HasProposal, HasVote, Height, TypeOK, roundKey
<1>2. CASE /\ CommitBlock(u, Counted(u, precommits[u]))
           /\ proposals'  = [proposals  EXCEPT ![u] = gc(@, Height(u) + 1)]
           /\ prevotes'   = [prevotes   EXCEPT ![u] = gc(@, Height(u) + 1)]
           /\ precommits' = [precommits EXCEPT ![u] = gc(@, Height(u) + 1)]
           /\ UNCHANGED <<propInbox, voteInbox>>
  <2>1. \A w \in Validator : /\ chain[w] \in Seq(Committed)
                             /\ Height(w) \in Nat
    BY DEF TypeOK, Height
  <2>2. Height(v)' = IF v = u THEN Height(v) + 1 ELSE Height(v)
    BY <1>2, <2>1 DEF CommitBlock, Height, TypeOK
  <2>3. \A x : x.height > Height(v)' =>
          /\ x \in proposals[v] => x \in proposals'[v]
          /\ x \in prevotes[v] => x \in prevotes'[v]
          /\ x \in precommits[v] => x \in precommits'[v]
    BY <1>2, <2>1, <2>2 DEF gc, MailOK
  <2>4. \A x, y : roundKey(x) = roundKey(y) => x.height = y.height
    BY DEF roundKey
  <2>5. \A b : b.height > Height(v)' /\ HasProposal(v, b) => HasProposal(v, b)'
    BY <1>2, <2>3, <2>4 DEF HasProposal, roundKey
  <2>6. \A m : m.height > Height(v)' /\ HasVote(v, m) => HasVote(v, m)'
    BY <1>2, <2>3, <2>4 DEF HasVote, roundKey
  <2> QED BY <2>1, <2>2, <2>5, <2>6
<1> QED
  BY <1>1, <1>2 DEF EngineCommit, RejectBlock, NextRound, mailVars

LEMMA EarlyMailStep ==
  ASSUME EngineInv, EarlyMailIsKept, [EngineNext]_engineVars
  PROVE  EarlyMailIsKept'
<1> SUFFICES ASSUME NEW v \in Validator, (epoch[v] = 0)'
             PROVE  /\ \A b \in proposed' : b.height > Height(v)' => HasProposal(v, b)'
                    /\ \A m \in signed' : m.height > Height(v)' => HasVote(v, m)'
  BY DEF EarlyMailIsKept, HasProposal, HasVote, roundKey
<1> USE DEF EngineInv
<1>1. epoch[v] = 0 =>
        /\ \A b \in proposed : b.height > Height(v) => HasProposal(v, b)
        /\ \A m \in signed : m.height > Height(v) => HasVote(v, m)
  BY DEF EarlyMailIsKept, HasProposal, HasVote
<1>2. ASSUME NEW u \in Validator, EnginePropose(u)
      PROVE  /\ \A b \in proposed' : b.height > Height(v)' => HasProposal(v, b)'
             /\ \A m \in signed' : m.height > Height(v)' => HasVote(v, m)'
  <2>1. /\ proposed' = proposed \cup {NewBlock(u)}
        /\ propInbox'[v] = propInbox[v] \cup {NewBlock(u)}
        /\ UNCHANGED <<chain, epoch, signed, voteInbox, proposals, prevotes, precommits>>
    BY <1>2 DEF EnginePropose, Propose, PublishBlock
  <2> QED BY <1>1, <2>1 DEF HasProposal, HasVote, Height, roundKey
<1>3. ASSUME NEW u \in Validator, EnginePrevote(u) \/ EnginePrecommit(u)
      PROVE  /\ \A b \in proposed' : b.height > Height(v)' => HasProposal(v, b)'
             /\ \A m \in signed' : m.height > Height(v)' => HasVote(v, m)'
  <2>1. PICK vote : /\ signed' = signed \cup {vote}
                    /\ voteInbox'[v] = voteInbox[v] \cup {vote}
                    /\ UNCHANGED <<chain, epoch, proposed, propInbox, proposals,
                                   prevotes, precommits>>
    BY <1>3 DEF EnginePrevote, EnginePrecommit, CastPrevote, CastPrecommit, PublishVote
  <2> QED BY <1>1, <2>1 DEF HasProposal, HasVote, Height, roundKey
<1>4. ASSUME NEW u \in Validator, EngineCommit(u)
      PROVE  /\ \A b \in proposed' : b.height > Height(v)' => HasProposal(v, b)'
             /\ \A m \in signed' : m.height > Height(v)' => HasVote(v, m)'
  <2>1. UNCHANGED <<epoch, proposed, signed>>
    BY <1>4 DEF EngineCommit, CommitBlock, RejectBlock, NextRound
  <2>2. /\ \A b \in proposed : b.height \in Nat
        /\ \A m \in signed : m.height \in Nat
        /\ Height(v) \in Nat /\ Height(v)' \in Nat
    <3>1. TypeOK'
      BY StepRefines, TypeStep
    <3>2. chain[v] \in Seq(Committed) /\ chain'[v] \in Seq(Committed)
      BY <3>1 DEF TypeOK
    <3>3. Height(v) \in Nat /\ Height(v)' \in Nat
      BY <3>2 DEF Height
    <3>4. /\ \A b \in proposed : b \in Block
          /\ \A m \in signed : m \in Vote
      BY DEF TypeOK
    <3>5. /\ \A b \in Block : b.height \in Nat
          /\ \A m \in Vote : m.height \in Nat
      BY DEF Block, Vote
    <3> QED BY <3>3, <3>4, <3>5
  <2>3. /\ Height(v)' >= Height(v)
        /\ \A b : b.height > Height(v)' /\ HasProposal(v, b) => HasProposal(v, b)'
        /\ \A m : m.height > Height(v)' /\ HasVote(v, m) => HasVote(v, m)'
    BY <1>4, CommitKeeps
  <2> QED BY <1>1, <2>1, <2>2, <2>3
<1>5. ASSUME NEW u \in Validator, handleProposal(u) \/ handleVote(u)
      PROVE  /\ \A b \in proposed' : b.height > Height(v)' => HasProposal(v, b)'
             /\ \A m \in signed' : m.height > Height(v)' => HasVote(v, m)'
  <2>1. UNCHANGED vars
    BY <1>5 DEF handleProposal, handleVote
  <2> QED BY <1>1, <1>5, <2>1, HandlersKeep DEF vars, Height
<1>6. ASSUME NEW u \in Validator, EngineRestart(u)
      PROVE  /\ \A b \in proposed' : b.height > Height(v)' => HasProposal(v, b)'
             /\ \A m \in signed' : m.height > Height(v)' => HasVote(v, m)'
  <2>1. u # v /\ epoch[v] = 0
    BY <1>6, VotingAssumption DEF EngineRestart, Restart, TypeOK
  <2>2. /\ UNCHANGED <<chain, proposed, signed, propInbox, voteInbox>>
        /\ proposals'[v] = proposals[v] /\ prevotes'[v] = prevotes[v]
        /\ precommits'[v] = precommits[v]
    BY <1>6, <2>1 DEF EngineRestart, Restart, MailOK
  <2> QED BY <1>1, <2>1, <2>2 DEF HasProposal, HasVote, Height, roundKey
<1>7. CASE UNCHANGED <<chain, epoch, proposed, signed, mailVars>>
  BY <1>1, <1>7 DEF HasProposal, HasVote, Height, mailVars, roundKey
<1> QED
  BY <1>2, <1>3, <1>4, <1>5, <1>6, <1>7 DEF EngineNext, engineVars, EngineTimeout,
     Timeout, NextRound, EngineAtBounds, AtBounds, vars

\* Whatever is published for heights that a validator has yet to reach is on its
\* way to it or in its maps, as long as it does not restart: gc never takes it,
\* whatever the order in which heights are reached and mail arrives
\* (pbft.go:361-380).
THEOREM EarlyMailIsKeptHolds == EngineSpec => []EarlyMailIsKept
<1>1. EngineInit => EarlyMailIsKept
  BY DEF EngineInit, Init, EarlyMailIsKept
<1>2. EngineInv /\ EarlyMailIsKept /\ [EngineNext]_engineVars => EarlyMailIsKept'
  BY EarlyMailStep
<1> QED BY <1>1, <1>2, EngineInvHolds, PTL DEF EngineSpec

-----------------------------------------------------------------------------
(* What the engine inherits.                                               *)

\* Agreement, the certificates and the first phase hold of the engine as it
\* runs over gossip, whatever is delayed, dropped with a restart or cleared.
THEOREM EngineIsSafe ==
  EngineSpec => [](/\ FewRestarted => RoundAgreement
                   /\ StableAgreement
                   /\ CertifiedChain
                   /\ PrecommitBacked
                   /\ NobodyRunsAhead)
BY EngineImplementsVoting, RoundAgreementUntil, StableAgreementHolds,
   CertifiedChainHolds, PrecommitBackedHolds, NobodyRunsAheadHolds, PTL
   DEF ImplementsVoting

\* And up to three validators write one log over gossip, until one restarts: a
\* commit appends to it when everybody has all of it, and takes its next block
\* otherwise.
THEOREM EngineWritesOneLog ==
  EngineSpec => [][SmallAndUp' => Shared!LogNext \/ UNCHANGED Shared!logVars]_vars
BY EngineImplementsVoting, StepsOfOneLog, PTL DEF ImplementsVoting

\* With none restarting the engine implements the replicated log outright.
THEOREM EngineImplementsLog ==
  ASSUME N <= 3, Unstable = {}
  PROVE  EngineSpec => Shared!LogSpec
BY EngineImplementsVoting, VotingImplementsLog, PTL DEF ImplementsVoting
=============================================================================
