---------------------------- MODULE VotingProofs ----------------------------
(***************************************************************************)
(* Theorems about Voting, for every number of validators and every value   *)
(* of the bounds.                                                          *)
(***************************************************************************)
EXTENDS Voting, TLAPS, FiniteSetTheorems

-----------------------------------------------------------------------------
(* Type correctness.                                                       *)

LEMMA HashTypes ==
  /\ GenesisHash \in Hash
  /\ GenesisBlock \in Block
  /\ \A b \in Block : HashOf(b) \in Hash
BY DEF GenesisHash, GenesisBlock, Hash, Block, HashOf

LEMMA TipHashType ==
  ASSUME TypeOK, NEW v \in Validator
  PROVE  Height(v) \in Nat /\ TipHash(v) \in Hash
<1>1. chain[v] \in Seq(Committed) /\ Height(v) \in Nat
  BY DEF TypeOK, Height
<1>2. CASE Height(v) = 0
  BY <1>1, <1>2, HashTypes DEF TipHash
<1>3. CASE Height(v) # 0
  <2>1. chain[v][Height(v)] \in Committed
    BY <1>1, <1>3 DEF Height
  <2> QED BY <1>1, <1>3, <2>1, HashTypes DEF TipHash, Committed
<1> QED BY <1>2, <1>3, <1>1

LEMMA StepType ==
  ASSUME NEW v, NEW h, NEW r
  PROVE  FirstStep(v, h, r) \in {"propose", "proposal"}
BY DEF FirstStep

LEMMA NextRoundType ==
  ASSUME TypeOK, NEW v \in Validator, NextRound(v)
  PROVE  TypeOK'
BY VotingAssumption, HashTypes, StepType
   DEF TypeOK, NextRound, EnterRound

LEMMA TypeStep == TypeOK /\ [Next]_vars => TypeOK'
<1> SUFFICES ASSUME TypeOK, [Next]_vars PROVE TypeOK'
  OBVIOUS
<1>1. ASSUME NEW v \in Validator, Propose(v) PROVE TypeOK'
  <2>1. NewBlock(v) \in Block
    BY TipHashType DEF NewBlock, Block, TypeOK
  <2> QED BY <1>1, <2>1 DEF TypeOK, Propose
<1>2. ASSUME NEW v \in Validator, Prevote(v) PROVE TypeOK'
  <2>1. PICK b \in proposed : CastPrevote(v, b)
    BY <1>2 DEF Prevote
  <2>2. b \in Block
    BY DEF TypeOK
  <2>3. Ballot(v, "prevote", b) \in Vote
    BY <2>2, TipHashType, HashTypes DEF Ballot, Vote, TypeOK
  <2> QED BY <2>1, <2>2, <2>3 DEF TypeOK, CastPrevote
<1>3. ASSUME NEW v \in Validator, Precommit(v) PROVE TypeOK'
  <2>1. Ballot(v, "precommit", prop[v]) \in Vote
    BY TipHashType, HashTypes DEF Ballot, Vote, TypeOK
  <2> QED BY <1>3, <2>1 DEF TypeOK, Precommit, CastPrecommit
<1>4. ASSUME NEW v \in Validator, Commit(v) PROVE TypeOK'
  <2>1. PICK sigs \in SUBSET Backers(v, "precommit") : CommitBlock(v, sigs)
    BY <1>4 DEF Commit
  <2>2. sigs \in SUBSET Validator
    BY DEF Backers, Signers
  <2>3. [block |-> prop[v], sigs |-> sigs] \in Committed
    BY <2>2 DEF Committed, TypeOK
  <2>4. Append(chain[v], [block |-> prop[v], sigs |-> sigs]) \in Seq(Committed)
    BY <2>3 DEF TypeOK
  <2>5. chain' \in [Validator -> Seq(Committed)]
    BY <2>1, <2>4 DEF CommitBlock, TypeOK
  <2> QED BY <2>1, <2>5, HashTypes, StepType, VotingAssumption
          DEF TypeOK, CommitBlock, EnterRound
<1>5. ASSUME NEW v \in Validator, CommitFails(v) PROVE TypeOK'
  BY <1>5, NextRoundType DEF CommitFails, RejectBlock
<1>6. ASSUME NEW v \in Validator, Timeout(v) PROVE TypeOK'
  BY <1>6, NextRoundType DEF Timeout
<1>7. ASSUME NEW v \in Validator, Restart(v) PROVE TypeOK'
  BY <1>7, HashTypes, StepType, VotingAssumption
     DEF TypeOK, Restart, EnterRound
<1>8. CASE UNCHANGED vars
  BY <1>8 DEF TypeOK, vars
<1> QED
  BY <1>1, <1>2, <1>3, <1>4, <1>5, <1>6, <1>7, <1>8 DEF Next, AtBounds

\* In every behaviour every variable has its type and respects the bounds.
THEOREM TypeCorrect == Spec => []TypeOK
<1>1. Init => TypeOK
  BY HashTypes, StepType, VotingAssumption DEF Init, TypeOK
<1> QED BY <1>1, TypeStep, PTL DEF Spec
-----------------------------------------------------------------------------
(* Quorums.                                                                *)

\* Those who have forgotten what they signed.
Restarted == {v \in Validator : epoch[v] # 0}

\* At most f validators have restarted so far, as pbft.go:3-6 assumes.
FewRestarted == Cardinality(Restarted) <= Faults(N)

\* At most f validators ever restart.
FewUnstable == Cardinality(Unstable) <= Faults(N)

LEMMA ValidatorsFinite ==
  /\ IsFiniteSet(Validator)
  /\ Cardinality(Validator) = N
BY VotingAssumption, FS_Interval DEF Validator

LEMMA FaultsBound == Faults(N) \in Nat /\ 3 * Faults(N) + 1 <= N
BY VotingAssumption DEF Faults

\* Two quorums have a validator in common outside any f of them.
LEMMA QuorumsMeet ==
  ASSUME NEW F \in SUBSET Validator, Cardinality(F) <= Faults(N),
         NEW P \in SUBSET Validator, NEW Q \in SUBSET Validator,
         Cardinality(P) >= quorumSize, Cardinality(Q) >= quorumSize
  PROVE  \E v \in P \cap Q : v \notin F
<1>1. /\ IsFiniteSet(P) /\ Cardinality(P) \in Nat
      /\ IsFiniteSet(Q) /\ Cardinality(Q) \in Nat
  BY ValidatorsFinite, FS_Subset, FS_CardinalityType
<1>2. /\ P \cup Q \in SUBSET Validator
      /\ IsFiniteSet(P \cup Q) /\ Cardinality(P \cup Q) <= N
      /\ Cardinality(P \cup Q) \in Nat
  BY ValidatorsFinite, FS_Subset, FS_CardinalityType, P \cup Q \in SUBSET Validator
<1>3. IsFiniteSet(P \cap Q) /\ Cardinality(P \cap Q) \in Nat
  BY <1>1, FS_Subset, FS_CardinalityType, P \cap Q \in SUBSET P
<1>4. Cardinality(P \cup Q)
        = Cardinality(P) + Cardinality(Q) - Cardinality(P \cap Q)
  BY <1>1, FS_Union
<1>5. Cardinality(P \cap Q) > Faults(N)
  BY <1>1, <1>2, <1>3, <1>4, FaultsBound, VotingAssumption
     DEF quorumSize, quorum
<1>6. SUFFICES ASSUME P \cap Q \subseteq F PROVE FALSE
  OBVIOUS
<1>7. IsFiniteSet(F) /\ Cardinality(F) \in Nat
  BY ValidatorsFinite, FS_Subset, FS_CardinalityType
<1>8. Cardinality(P \cap Q) <= Cardinality(F)
  BY <1>6, <1>7, FS_Subset
<1> QED BY <1>3, <1>5, <1>7, <1>8, FaultsBound

-----------------------------------------------------------------------------
(* The inductive invariant.  RoundAgreement does not say why two quorums   *)
(* of one round cannot back two blocks; it is because a validator that     *)
(* has not restarted signs once per round, and that is so because all that *)
(* it has signed lies behind the point runRound has reached.               *)

\* While it waits for votes, a validator's prop is of its own round.
PropMatches ==
  \A v \in Validator : step[v] \in {"prevotes", "precommits"} =>
    prop[v].height = Height(v) + 1 /\ prop[v].round = round[v]

\* What a validator that has not restarted has signed is of a round it has
\* left, or is what its present step stands for.
VotesBehind ==
  \A vote \in signed : epoch[vote.voter] = 0 =>
    \/ vote.height < Height(vote.voter) + 1
    \/ /\ vote.height = Height(vote.voter) + 1
       /\ vote.round < round[vote.voter]
    \/ /\ vote.height = Height(vote.voter) + 1
       /\ vote.round = round[vote.voter]
       /\ vote.hash = HashOf(prop[vote.voter])
       /\ \/ step[vote.voter] = "precommits"
          \/ step[vote.voter] = "prevotes" /\ vote.kind = "prevote"

\* A validator that has not restarted signs one vote of a kind per round.
OneVotePerRound ==
  \A a, b \in signed :
    /\ a.voter = b.voter /\ epoch[a.voter] = 0
    /\ a.kind = b.kind /\ a.height = b.height /\ a.round = b.round
    => a.hash = b.hash

\* Having committed a block, it never votes in a later round of that height.
VotesEnd ==
  \A vote \in signed :
    epoch[vote.voter] = 0 /\ vote.height <= Height(vote.voter)
      => vote.round <= chain[vote.voter][vote.height].block.round

\* Nobody votes for more than the next block, restarts or not.
VotesNext == \A vote \in signed : vote.height \in 1 .. Height(vote.voter) + 1

\* Only those who may restart do.
OnlyUnstableRestart == Restarted \subseteq Unstable

VotingInv ==
  /\ TypeOK /\ PropMatches
  /\ VotesBehind /\ OneVotePerRound /\ VotesEnd /\ VotesNext
  /\ OnlyUnstableRestart
  /\ CertifiedChain

\* Votes are only ever added.
LEMMA VotesGrow == [Next]_vars => signed \subseteq signed'
BY DEF Next, vars, Propose, Prevote, CastPrevote, Precommit, CastPrecommit,
       Commit, CommitBlock, CommitFails, RejectBlock, Timeout, NextRound,
       Restart, EnterRound, AtBounds

\* A restart is not undone.
LEMMA RestartsStay ==
  TypeOK /\ [Next]_vars => \A v \in Validator : epoch'[v] = 0 => epoch[v] = 0
<1> SUFFICES ASSUME TypeOK, [Next]_vars
             PROVE  \A v \in Validator : epoch'[v] = 0 => epoch[v] = 0
  OBVIOUS
<1>1. ASSUME NEW v \in Validator, Restart(v)
      PROVE  \A w \in Validator : epoch'[w] = 0 => epoch[w] = 0
  BY <1>1 DEF Restart, TypeOK
<1>2. CASE epoch' = epoch
  BY <1>2
<1> QED
  BY <1>1, <1>2
     DEF Next, vars, Propose, Prevote, CastPrevote, Precommit, CastPrecommit,
         Commit, CommitBlock, CommitFails, RejectBlock, Timeout, NextRound, AtBounds

\* A round ends in one of three ways; what they have in common is that
\* nobody signs and the validator comes out waiting for a proposal.
LEMMA PropMatchesStep ==
  TypeOK /\ TypeOK' /\ PropMatches /\ [Next]_vars => PropMatches'
<1> SUFFICES ASSUME TypeOK, TypeOK', PropMatches, [Next]_vars PROVE PropMatches'
  OBVIOUS
<1> USE DEF Height
<1>1. ASSUME NEW v \in Validator, Propose(v) PROVE PropMatches'
  BY <1>1 DEF PropMatches, Propose, TypeOK
<1>2. ASSUME NEW v \in Validator, Prevote(v) PROVE PropMatches'
  BY <1>2 DEF PropMatches, Prevote, CastPrevote, TypeOK
<1>3. ASSUME NEW v \in Validator, Precommit(v) PROVE PropMatches'
  BY <1>3 DEF PropMatches, Precommit, CastPrecommit, TypeOK
<1>4. ASSUME NEW v \in Validator, Commit(v) PROVE PropMatches'
  <2>1. PICK sigs \in SUBSET Backers(v, "precommit") : CommitBlock(v, sigs)
    BY <1>4 DEF Commit
  <2>2. \A w \in Validator : w # v =>
          /\ chain'[w] = chain[w] /\ round'[w] = round[w]
          /\ step'[w] = step[w] /\ prop'[w] = prop[w]
    BY <2>1 DEF CommitBlock, EnterRound, TypeOK
  <2>3. step'[v] \in {"propose", "proposal"}
    BY <2>1, StepType DEF CommitBlock, EnterRound, TypeOK
  <2> QED BY <2>2, <2>3 DEF PropMatches
<1>5. ASSUME NEW v \in Validator, NextRound(v) PROVE PropMatches'
  BY <1>5, StepType DEF PropMatches, NextRound, EnterRound, TypeOK
<1>6. ASSUME NEW v \in Validator, Restart(v) PROVE PropMatches'
  BY <1>6, StepType DEF PropMatches, Restart, EnterRound, TypeOK
<1>7. CASE UNCHANGED vars
  BY <1>7 DEF PropMatches, vars
<1> QED
  BY <1>1, <1>2, <1>3, <1>4, <1>5, <1>6, <1>7
     DEF Next, AtBounds, CommitFails, RejectBlock, Timeout

LEMMA VotesBehindStep ==
  TypeOK /\ TypeOK' /\ PropMatches /\ VotesBehind /\ [Next]_vars => VotesBehind'
<1> SUFFICES ASSUME TypeOK, TypeOK', PropMatches, VotesBehind, [Next]_vars
             PROVE VotesBehind'
  OBVIOUS
<1>0. \A v \in Validator : Height(v) \in Nat
  BY TipHashType
<1>h. \A v \in Validator : chain'[v] = chain[v] => Height(v)' = Height(v)
  BY DEF Height
<1>s. \A vote \in signed : /\ vote.voter \in Validator
                           /\ vote.height \in Nat /\ vote.round \in Nat
  BY DEF TypeOK, Vote
<1>1. ASSUME NEW v \in Validator, Propose(v) PROVE VotesBehind'
  <2>1. UNCHANGED <<chain, epoch, round, prop, signed>>
    BY <1>1 DEF Propose
  <2>2. \A w \in Validator : step[w] \in {"prevotes", "precommits"} => step'[w] = step[w]
    BY <1>1 DEF Propose, TypeOK
  <2> QED BY <2>1, <2>2, <1>s, <1>h DEF VotesBehind
<1>2. ASSUME NEW v \in Validator, Prevote(v) PROVE VotesBehind'
  <2>1. PICK b \in proposed : CastPrevote(v, b)
    BY <1>2 DEF Prevote
  <2>2. UNCHANGED <<chain, epoch, round>> /\ step[v] = "proposal"
    BY <2>1 DEF CastPrevote
  <2>3. \A w \in Validator : Height(w)' = Height(w)
    BY <2>2, <1>h
  <2>4. \A w \in Validator : w # v => step'[w] = step[w] /\ prop'[w] = prop[w]
    BY <2>1 DEF CastPrevote, TypeOK
  <2>5. step'[v] = "prevotes" /\ prop'[v] = b
    BY <2>1 DEF CastPrevote, TypeOK
  <2>6. signed' = signed \cup {Ballot(v, "prevote", b)}
    BY <2>1 DEF CastPrevote
  <2>7. ASSUME NEW vote \in signed',
               vote = Ballot(v, "prevote", b)
        PROVE  VotesBehind!(vote)'
    BY <2>2, <2>3, <2>5, <2>7 DEF Ballot
  <2>8. ASSUME NEW vote \in signed
        PROVE  VotesBehind!(vote)'
    BY <2>2, <2>3, <2>4, <1>s DEF VotesBehind
  <2> QED BY <2>6, <2>7, <2>8 DEF VotesBehind
<1>3. ASSUME NEW v \in Validator, Precommit(v) PROVE VotesBehind'
  <2>1. CastPrecommit(v)
    BY <1>3 DEF Precommit
  <2>2. UNCHANGED <<chain, epoch, round, prop>> /\ step[v] = "prevotes"
    BY <2>1 DEF CastPrecommit
  <2>3. \A w \in Validator : Height(w)' = Height(w)
    BY <2>2, <1>h
  <2>4. \A w \in Validator : w # v => step'[w] = step[w]
    BY <2>1 DEF CastPrecommit, TypeOK
  <2>5. step'[v] = "precommits"
    BY <2>1 DEF CastPrecommit, TypeOK
  <2>6. signed' = signed \cup {Ballot(v, "precommit", prop[v])}
    BY <2>1 DEF CastPrecommit
  <2>7. ASSUME NEW vote \in signed',
               vote = Ballot(v, "precommit", prop[v])
        PROVE  VotesBehind!(vote)'
    BY <2>2, <2>3, <2>5, <2>7 DEF Ballot
  <2>8. ASSUME NEW vote \in signed
        PROVE  VotesBehind!(vote)'
    BY <2>2, <2>3, <2>4, <2>5, <1>s DEF VotesBehind
  <2> QED BY <2>6, <2>7, <2>8 DEF VotesBehind
<1>4. ASSUME NEW v \in Validator, Commit(v) PROVE VotesBehind'
  <2>1. PICK sigs \in SUBSET Backers(v, "precommit") : CommitBlock(v, sigs)
    BY <1>4 DEF Commit
  <2>2. UNCHANGED <<epoch, signed>>
    BY <2>1 DEF CommitBlock
  <2>3. \A w \in Validator : w # v =>
          /\ chain'[w] = chain[w] /\ round'[w] = round[w]
          /\ step'[w] = step[w] /\ prop'[w] = prop[w]
    BY <2>1 DEF CommitBlock, EnterRound, TypeOK
  <2>4. Height(v)' = Height(v) + 1
    BY <2>1 DEF CommitBlock, TypeOK, Height
  <2> QED BY <2>2, <2>3, <2>4, <1>0, <1>h, <1>s DEF VotesBehind
<1>5. ASSUME NEW v \in Validator, NextRound(v) PROVE VotesBehind'
  <2>1. UNCHANGED <<chain, epoch, signed>>
    BY <1>5 DEF NextRound
  <2>2. \A w \in Validator : w # v =>
          round'[w] = round[w] /\ step'[w] = step[w] /\ prop'[w] = prop[w]
    BY <1>5 DEF NextRound, EnterRound, TypeOK
  <2>3. round'[v] = round[v] + 1 /\ round[v] \in Nat
    BY <1>5 DEF NextRound, EnterRound, TypeOK
  <2> QED BY <2>1, <2>2, <2>3, <1>h, <1>s DEF VotesBehind
<1>6. ASSUME NEW v \in Validator, Restart(v) PROVE VotesBehind'
  <2>1. epoch'[v] # 0 /\ UNCHANGED <<chain, signed>>
    BY <1>6 DEF Restart, TypeOK
  <2>2. \A w \in Validator : w # v =>
          /\ epoch'[w] = epoch[w]
          /\ round'[w] = round[w] /\ step'[w] = step[w] /\ prop'[w] = prop[w]
    BY <1>6 DEF Restart, EnterRound, TypeOK
  <2> QED BY <2>1, <2>2, <1>h, <1>s DEF VotesBehind
<1>7. CASE UNCHANGED vars
  BY <1>7 DEF VotesBehind, vars, Height
<1> QED
  BY <1>1, <1>2, <1>3, <1>4, <1>5, <1>6, <1>7
     DEF Next, AtBounds, CommitFails, RejectBlock, Timeout

LEMMA OneVoteStep ==
  /\ TypeOK /\ PropMatches /\ VotesBehind /\ OneVotePerRound
  /\ [Next]_vars
  => OneVotePerRound'
<1> SUFFICES ASSUME TypeOK, PropMatches, VotesBehind, OneVotePerRound, [Next]_vars
             PROVE OneVotePerRound'
  OBVIOUS
<1>0. \A v \in Validator : Height(v) \in Nat /\ round[v] \in Nat
  BY TipHashType DEF TypeOK
<1>v. \A vote \in signed : vote.voter \in Validator
  BY DEF TypeOK, Vote
<1>1. ASSUME NEW v \in Validator, NEW kind \in {"prevote", "precommit"},
             NEW b, signed' = signed \cup {Ballot(v, kind, b)},
             step[v] = IF kind = "prevote" THEN "proposal" ELSE "prevotes"
      PROVE  OneVotePerRound'
  <2>1. ASSUME NEW x \in signed, x.voter = v, epoch[v] = 0, x.kind = kind,
               x.height = Height(v) + 1, x.round = round[v]
        PROVE  FALSE
    BY <1>0, <1>1, <2>1 DEF VotesBehind
  <2>2. Ballot(v, kind, b).voter = v /\ Ballot(v, kind, b).kind = kind
        /\ Ballot(v, kind, b).height = Height(v) + 1
        /\ Ballot(v, kind, b).round = round[v]
    BY DEF Ballot
  <2> HIDE DEF Ballot
  <2> QED BY <1>1, <1>v, <2>1, <2>2, RestartsStay DEF OneVotePerRound
<1>2. CASE signed' = signed
  BY <1>2, <1>v, RestartsStay DEF OneVotePerRound
<1>3. ASSUME NEW v \in Validator, Prevote(v) PROVE OneVotePerRound'
  <2>1. PICK b \in proposed : CastPrevote(v, b)
    BY <1>3 DEF Prevote
  <2> QED BY <1>1, <2>1 DEF CastPrevote
<1>4. ASSUME NEW v \in Validator, Precommit(v) PROVE OneVotePerRound'
  BY <1>1, <1>4 DEF Precommit, CastPrecommit
<1> QED
  BY <1>2, <1>3, <1>4
     DEF Next, vars, AtBounds, Propose, Commit, CommitBlock, CommitFails,
         RejectBlock, Timeout, NextRound, Restart

\* A commit is of the round the validator is in, and it comes to no other of
\* that height.
LEMMA VotesEndStep ==
  /\ TypeOK /\ PropMatches /\ VotesBehind /\ VotesEnd /\ VotesNext
  /\ [Next]_vars
  => VotesEnd'
<1> SUFFICES ASSUME TypeOK, PropMatches, VotesBehind, VotesEnd, VotesNext,
                    [Next]_vars
             PROVE VotesEnd'
  OBVIOUS
<1>0. \A v \in Validator : /\ Height(v) \in Nat /\ Height(v) = Len(chain[v])
                           /\ round[v] \in Nat /\ chain[v] \in Seq(Committed)
  BY TipHashType DEF TypeOK, Height
<1>v. \A vote \in signed : vote.voter \in Validator /\ vote.height \in Nat /\ vote.round \in Nat
  BY DEF TypeOK, Vote
<1>1. ASSUME NEW v \in Validator, NEW kind, NEW b,
             signed' = signed \cup {Ballot(v, kind, b)}, UNCHANGED chain
      PROVE  VotesEnd'
  <2>1. \A w \in Validator : Height(w)' = Height(w)
    BY <1>1 DEF Height
  <2>2. Ballot(v, kind, b).voter = v /\ Ballot(v, kind, b).height = Height(v) + 1
    BY DEF Ballot
  <2> HIDE DEF Ballot
  <2> QED BY <1>0, <1>1, <1>v, <2>1, <2>2, RestartsStay DEF VotesEnd
<1>2. CASE UNCHANGED <<chain, signed>>
  <2>1. \A w \in Validator : Height(w)' = Height(w)
    BY <1>2 DEF Height
  <2> QED BY <1>2, <1>v, <2>1, RestartsStay DEF VotesEnd
<1>3. ASSUME NEW v \in Validator, Commit(v) PROVE VotesEnd'
  <2>1. PICK sigs \in SUBSET Backers(v, "precommit") : CommitBlock(v, sigs)
    BY <1>3 DEF Commit
  <2> DEFINE new == [block |-> prop[v], sigs |-> sigs]
             n == Height(v)
  <2>2. /\ signed' = signed /\ epoch' = epoch
        /\ chain' = [chain EXCEPT ![v] = Append(chain[v], new)]
        /\ prop[v].round = round[v]
    BY <2>1 DEF CommitBlock, PropMatches
  <2>3. /\ \A w \in Validator : w # v => chain'[w] = chain[w] /\ Height(w)' = Height(w)
        /\ chain'[v] = Append(chain[v], new)
    BY <2>2 DEF TypeOK, Height
  <2>4. /\ Height(v)' = n + 1 /\ chain'[v][n + 1] = new
        /\ \A h \in 1 .. n : chain'[v][h] = chain[v][h]
    BY <1>0, <2>3 DEF Height
  <2>5. new.block = prop[v]
    OBVIOUS
  <2>6. ASSUME NEW vote \in signed, epoch[vote.voter] = 0, vote.height <= Height(vote.voter)'
        PROVE  vote.round <= chain'[vote.voter][vote.height].block.round
    <3> HIDE DEF new
    <3>0. vote.height # 0
      BY <1>0, <1>v DEF VotesNext
    <3>1. CASE vote.voter # v
      BY <1>v, <2>3, <2>6, <3>1 DEF VotesEnd
    <3>2. CASE vote.voter = v /\ vote.height <= n
      <4>1. vote.height \in 1 .. n
        BY <1>0, <1>v, <2>6, <3>0, <3>2
      <4> QED BY <1>v, <2>4, <2>6, <3>2, <4>1 DEF VotesEnd
    <3>3. CASE vote.voter = v /\ vote.height = n + 1
      BY <1>0, <1>v, <2>2, <2>4, <2>5, <2>6, <3>3 DEF VotesBehind
    <3> QED BY <1>0, <1>v, <2>4, <2>6, <3>1, <3>2, <3>3
  <2> QED BY <2>2, <2>6, <1>v DEF VotesEnd
<1> QED
  BY <1>1, <1>2, <1>3
     DEF Next, vars, AtBounds, Propose, Prevote, CastPrevote, Precommit, CastPrecommit,
         CommitFails, RejectBlock, Timeout, NextRound, Restart

\* A vote is for the block on top of the voter's chain, which only grows.
LEMMA VotesNextStep ==
  TypeOK /\ VotesNext /\ [Next]_vars => VotesNext'
<1> SUFFICES ASSUME TypeOK, VotesNext, [Next]_vars PROVE VotesNext'
  OBVIOUS
<1>0. \A v \in Validator : Height(v) \in Nat
  BY TipHashType
<1>v. \A vote \in signed : vote.voter \in Validator /\ vote.height \in Nat
  BY DEF TypeOK, Vote
<1>1. ASSUME NEW v \in Validator, NEW kind, NEW b,
             signed' = signed \cup {Ballot(v, kind, b)}, UNCHANGED chain
      PROVE  VotesNext'
  <2>1. \A w \in Validator : Height(w)' = Height(w)
    BY <1>1 DEF Height
  <2>2. Ballot(v, kind, b).voter = v /\ Ballot(v, kind, b).height = Height(v) + 1
    BY DEF Ballot
  <2> HIDE DEF Ballot
  <2> QED BY <1>0, <1>1, <1>v, <2>1, <2>2 DEF VotesNext
<1>2. CASE UNCHANGED <<chain, signed>>
  BY <1>2 DEF VotesNext, Height
<1>3. ASSUME NEW v \in Validator, Commit(v) PROVE VotesNext'
  <2>1. PICK sigs \in SUBSET Backers(v, "precommit") : CommitBlock(v, sigs)
    BY <1>3 DEF Commit
  <2>2. signed' = signed /\ \A w \in Validator : Height(w)' \in {Height(w), Height(w) + 1}
    BY <2>1 DEF CommitBlock, TypeOK, Height
  <2> QED BY <1>0, <1>v, <2>2 DEF VotesNext
<1> QED
  BY <1>1, <1>2, <1>3
     DEF Next, vars, AtBounds, Propose, Prevote, CastPrevote, Precommit, CastPrecommit,
         CommitFails, RejectBlock, Timeout, NextRound, Restart

LEMMA OnlyUnstableStep ==
  TypeOK /\ OnlyUnstableRestart /\ [Next]_vars => OnlyUnstableRestart'
<1> SUFFICES ASSUME TypeOK, OnlyUnstableRestart, [Next]_vars PROVE OnlyUnstableRestart'
  OBVIOUS
<1>1. ASSUME NEW v \in Validator, Restart(v) PROVE OnlyUnstableRestart'
  BY <1>1 DEF Restart, TypeOK, OnlyUnstableRestart, Restarted
<1>2. CASE epoch' = epoch
  BY <1>2 DEF OnlyUnstableRestart, Restarted
<1> QED
  BY <1>1, <1>2
     DEF Next, vars, Propose, Prevote, CastPrevote, Precommit, CastPrecommit,
         Commit, CommitBlock, CommitFails, RejectBlock, Timeout, NextRound, AtBounds

\* A committed block keeps its certificate: the votes in it stay signed, and a
\* new block is put on top of those below.
LEMMA CertifiedStep ==
  /\ TypeOK /\ PropMatches /\ CertifiedChain
  /\ [Next]_vars
  => CertifiedChain'
<1> SUFFICES ASSUME TypeOK, PropMatches, CertifiedChain, [Next]_vars
             PROVE CertifiedChain'
  OBVIOUS
<1>0. \A k, h, r, x : Signers(k, h, r, x) \subseteq Signers(k, h, r, x)'
  BY VotesGrow DEF Signers
<1>1. CASE UNCHANGED chain
  BY <1>0, <1>1 DEF CertifiedChain, Height
<1>2. ASSUME NEW v \in Validator, Commit(v) PROVE CertifiedChain'
  <2>1. PICK sigs \in SUBSET Backers(v, "precommit") :
          Cardinality(sigs) >= quorumSize /\ CommitBlock(v, sigs)
    BY <1>2 DEF Commit
  <2> DEFINE new == [block |-> prop[v], sigs |-> sigs]
             n == Height(v)
  <2>2. n \in Nat /\ n = Len(chain[v]) /\ chain[v] \in Seq(Committed)
    BY TipHashType DEF TypeOK, Height
  <2>3. /\ step[v] = "precommits" /\ prop[v].prev = TipHash(v)
        /\ chain' = [chain EXCEPT ![v] = Append(chain[v], new)]
    BY <2>1 DEF CommitBlock
  <2>4. new \in Committed
    BY DEF Committed, TypeOK, Backers, Signers
  <2>5. /\ \A w \in Validator : w # v => chain'[w] = chain[w]
        /\ chain'[v] = Append(chain[v], new)
    BY <2>3 DEF TypeOK
  <2>6. /\ Len(chain'[v]) = n + 1
        /\ chain'[v][n + 1] = new
        /\ \A h \in 1 .. n : chain'[v][h] = chain[v][h]
    BY <2>2, <2>4, <2>5
  <2>7. prop[v].height = n + 1 /\ prop[v].round = round[v]
    BY <2>3 DEF PropMatches
  <2>8. ASSUME NEW h, NEW r, NEW x,
               h = n + 1, r = prop[v].round, x = HashOf(prop[v])
        PROVE  sigs \subseteq Signers("precommit", h, r, x)'
    <3>1. sigs \subseteq Signers("precommit", h, r, x)
      BY <2>1, <2>7, <2>8 DEF Backers
    <3> QED BY <3>1, <1>0
  <2>9. prop[v].prev = IF n + 1 = 1 THEN GenesisHash
                                    ELSE HashOf(chain'[v][n].block)
    BY <2>2, <2>3, <2>6 DEF TipHash
  <2>10. ASSUME NEW w \in Validator, w # v, NEW h \in 1 .. Height(w)'
         PROVE  CertifiedChain!(w)!(h)'
    <3>1. chain'[w] = chain[w] /\ h \in 1 .. Height(w)
      BY <2>5, <2>10 DEF Height
    <3> QED BY <3>1, <1>0 DEF CertifiedChain
  <2>11. ASSUME NEW h \in 1 .. n PROVE CertifiedChain!(v)!(h)'
    <3>1. chain'[v][h] = chain[v][h] /\ (h # 1 => chain'[v][h - 1] = chain[v][h - 1])
      BY <2>2, <2>6
    <3> QED BY <3>1, <1>0 DEF CertifiedChain
  <2>12. ASSUME NEW h, h = n + 1 PROVE CertifiedChain!(v)!(h)'
    <3>1. chain'[v][h] = new /\ h - 1 = n
      BY <2>2, <2>6, <2>12
    <3>2. new.block = prop[v] /\ new.sigs = sigs
      OBVIOUS
    <3>3. sigs \subseteq {w \in Validator :
             [kind |-> "precommit", height |-> h, round |-> prop[v].round,
              hash |-> HashOf(prop[v]), voter |-> w] \in signed'}
      BY <2>8, <2>12 DEF Signers
    <3> HIDE DEF new, n
    <3> QED BY <2>1, <2>7, <2>9, <2>12, <3>1, <3>2, <3>3 DEF Signers, HashOf
  <2>13. Height(v)' = n + 1 /\ \A h \in 1 .. Height(v)' : h \in 1 .. n \/ h = n + 1
    BY <2>2, <2>6 DEF Height
  <2>14. ASSUME NEW w \in Validator, NEW h \in 1 .. Height(w)'
         PROVE  CertifiedChain!(w)!(h)'
    BY <2>10, <2>11, <2>12, <2>13, <2>14
  <2> QED BY <2>14 DEF CertifiedChain
<1> QED
  BY <1>1, <1>2
     DEF Next, vars, AtBounds, Propose, Prevote, CastPrevote, Precommit,
         CastPrecommit, CommitFails, RejectBlock, Timeout, NextRound, Restart

LEMMA VotingInvStep == VotingInv /\ [Next]_vars => VotingInv'
BY TypeStep, PropMatchesStep, VotesBehindStep, OneVoteStep, VotesEndStep,
   VotesNextStep, OnlyUnstableStep, CertifiedStep
   DEF VotingInv

LEMMA VotingInvInit == Init => VotingInv
<1> SUFFICES ASSUME Init PROVE VotingInv
  OBVIOUS
<1>1. TypeOK
  BY HashTypes, StepType, VotingAssumption DEF Init, TypeOK
<1>2. PropMatches
  BY StepType DEF Init, PropMatches
<1>3. VotesBehind /\ OneVotePerRound /\ VotesEnd /\ VotesNext
  BY DEF Init, VotesBehind, OneVotePerRound, VotesEnd, VotesNext
<1>r. OnlyUnstableRestart
  BY DEF Init, OnlyUnstableRestart, Restarted
<1>4. CertifiedChain
  BY DEF Init, CertifiedChain, Height
<1> QED BY <1>1, <1>2, <1>3, <1>r, <1>4 DEF VotingInv

LEMMA VotingInvHolds == Spec => []VotingInv
BY VotingInvInit, VotingInvStep, PTL DEF Spec

-----------------------------------------------------------------------------
(* What follows from it.                                                   *)

\* Every committed block extends the block below it and carries a quorum of
\* precommits signed for it in its own round, on every validator, whatever
\* restarts (CommitBlock, chain.go:110-122).
THEOREM CertifiedChainHolds == Spec => []CertifiedChain
<1>1. VotingInv => CertifiedChain
  BY DEF VotingInv
<1> QED BY <1>1, VotingInvHolds, PTL

\* Two certificates of one round are for one block: their quorums share a
\* validator that has not restarted, and it has signed once.
LEMMA CertificatesAgree ==
  ASSUME FewRestarted, VotingInv
  PROVE  RoundAgreement
<1> SUFFICES ASSUME NEW v \in Validator, NEW w \in Validator,
                    NEW h \in (1 .. Height(v)) \cap (1 .. Height(w)),
                    chain[v][h].block.round = chain[w][h].block.round
             PROVE  HashOf(chain[v][h].block) = HashOf(chain[w][h].block)
  BY DEF RoundAgreement
<1> DEFINE bv == chain[v][h].block
           bw == chain[w][h].block
           P == chain[v][h].sigs
           Q == chain[w][h].sigs
<1>1. /\ P \subseteq Signers("precommit", h, bv.round, HashOf(bv))
      /\ Cardinality(P) >= quorumSize
      /\ Q \subseteq Signers("precommit", h, bw.round, HashOf(bw))
      /\ Cardinality(Q) >= quorumSize
  BY DEF VotingInv, CertifiedChain
<1>2. P \in SUBSET Validator /\ Q \in SUBSET Validator
  BY <1>1 DEF Signers
<1>3. PICK x \in P \cap Q : x \in Validator /\ epoch[x] = 0
  <2>1. Restarted \in SUBSET Validator
    BY DEF Restarted
  <2>2. PICK x \in P \cap Q : x \notin Restarted
    BY <1>1, <1>2, <2>1, QuorumsMeet DEF FewRestarted
  <2> QED BY <1>2, <2>2 DEF Restarted
<1> DEFINE Signed(b) == [kind |-> "precommit", height |-> h, round |-> bv.round,
                         hash |-> HashOf(b), voter |-> x]
<1>4. Signed(bv) \in signed /\ Signed(bw) \in signed
  BY <1>1, <1>3 DEF Signers
<1>5. OneVotePerRound
  BY DEF VotingInv
<1> QED BY <1>3, <1>4, <1>5 DEF OneVotePerRound

\* As long as at most f validators have restarted, whichever they are, no two
\* validators have committed different blocks in one round of a height: the
\* promise of pbft.go:3-6, for any number of validators, heights and rounds.
THEOREM RoundAgreementUntil == Spec => [](FewRestarted => RoundAgreement)
<1>1. VotingInv => (FewRestarted => RoundAgreement)
  BY CertificatesAgree
<1> QED BY <1>1, VotingInvHolds, PTL

\* So it is for good when at most f validators ever restart, however often.
THEOREM RoundAgreementHolds ==
  ASSUME FewUnstable
  PROVE  Spec => []RoundAgreement
<1>1. VotingInv => FewRestarted
  <2> SUFFICES ASSUME VotingInv PROVE FewRestarted
    OBVIOUS
  <2>1. Restarted \in SUBSET Unstable /\ Unstable \in SUBSET Validator
    BY VotingAssumption DEF VotingInv, OnlyUnstableRestart, Validator
  <2>2. IsFiniteSet(Unstable) /\ Cardinality(Unstable) \in Nat
    BY <2>1, ValidatorsFinite, FS_Subset, FS_CardinalityType
  <2>3. Cardinality(Restarted) \in Nat /\ Cardinality(Restarted) <= Cardinality(Unstable)
    BY <2>1, <2>2, FS_Subset, FS_CardinalityType
  <2> QED BY <2>2, <2>3, FaultsBound DEF FewUnstable, FewRestarted
<1> QED BY <1>1, RoundAgreementUntil, VotingInvHolds, PTL

\* Up to three validators, a quorum is everybody (util.go:33-43).
LEMMA SmallQuorum ==
  ASSUME N <= 3, NEW P \in SUBSET Validator, Cardinality(P) >= quorumSize
  PROVE  P = Validator
<1>1. quorumSize = N
  BY VotingAssumption DEF quorumSize, quorum, Faults
<1>2. Cardinality(P) \in Nat /\ Cardinality(P) <= N
  BY ValidatorsFinite, FS_Subset, FS_CardinalityType
<1> QED BY <1>1, <1>2, ValidatorsFinite, VotingAssumption, FS_Subset

\* Two certificates of one height are of one round then: each has the vote of
\* the validator that holds the other, which votes in no round after its own.
LEMMA CertificatesSameRound ==
  ASSUME N <= 3, VotingInv, \A v \in Validator : epoch[v] = 0
  PROVE  Agreement
<1> SUFFICES ASSUME NEW v \in Validator, NEW w \in Validator,
                    NEW h \in (1 .. Height(v)) \cap (1 .. Height(w))
             PROVE  HashOf(chain[v][h].block) = HashOf(chain[w][h].block)
  BY DEF Agreement
<1>1. ASSUME NEW x \in Validator, NEW y \in Validator,
             h \in 1 .. Height(x), h \in 1 .. Height(y)
      PROVE  chain[x][h].block.round <= chain[y][h].block.round
  <2> DEFINE b == chain[x][h].block
             vote == [kind |-> "precommit", height |-> h, round |-> b.round,
                      hash |-> HashOf(b), voter |-> y]
  <2>1. chain[x][h].sigs \subseteq Signers("precommit", h, b.round, HashOf(b))
        /\ Cardinality(chain[x][h].sigs) >= quorumSize
    BY <1>1 DEF VotingInv, CertifiedChain
  <2>2. y \in chain[x][h].sigs
    BY <2>1, SmallQuorum DEF Signers
  <2>3. vote \in signed
    BY <2>1, <2>2 DEF Signers
  <2>4. Height(y) \in Nat
    BY TipHashType DEF VotingInv
  <2>5. vote.voter = y /\ vote.height = h /\ vote.round = b.round
    OBVIOUS
  <2> HIDE DEF vote, b
  <2>6. b.round <= chain[y][h].block.round
    BY <1>1, <2>3, <2>4, <2>5 DEF VotingInv, VotesEnd
  <2> QED BY <2>6 DEF b
<1>2. chain[v][h].block.round \in Nat /\ chain[w][h].block.round \in Nat
  <2>1. chain[v][h] \in Committed /\ chain[w][h] \in Committed
    BY DEF VotingInv, TypeOK, Height
  <2> QED BY <2>1 DEF Committed, Block
<1>3. chain[v][h].block.round = chain[w][h].block.round
  BY <1>1, <1>2
<1>4. FewRestarted
  <2>1. Restarted = {}
    BY DEF Restarted
  <2> QED BY <2>1, FS_EmptySet, FaultsBound DEF FewRestarted
<1> QED BY <1>3, <1>4, CertificatesAgree DEF RoundAgreement

\* Up to three validators, and until one of them restarts, there is one chain,
\* although rounds time out on some and not on others (pbft.go:135-151).
THEOREM StableAgreementHolds == Spec => []StableAgreement
<1>1. VotingInv => StableAgreement
  BY CertificatesSameRound DEF StableAgreement
<1> QED BY <1>1, VotingInvHolds, PTL

\* Those who are no more than one block behind v.
CloseTo(v) == {w \in Validator : Height(v) <= Height(w) + 1}

\* A quorum keeps up with whoever is ahead, restarts or not: a block needs the
\* votes of a quorum, and each voter has the block below it.
NobodyRunsAhead == \A v \in Validator : Cardinality(CloseTo(v)) >= quorumSize

LEMMA KeepsUp == VotingInv => NobodyRunsAhead
<1> SUFFICES ASSUME VotingInv, NEW v \in Validator
             PROVE  Cardinality(CloseTo(v)) >= quorumSize
  BY DEF NobodyRunsAhead
<1>1. \A w \in Validator : Height(w) \in Nat
  BY TipHashType DEF VotingInv
<1>2. CloseTo(v) \in SUBSET Validator
  BY DEF CloseTo
<1>3. IsFiniteSet(CloseTo(v)) /\ Cardinality(CloseTo(v)) \in Nat
  BY <1>2, ValidatorsFinite, FS_Subset, FS_CardinalityType
<1>4. quorumSize \in Nat /\ quorumSize <= N
  BY VotingAssumption DEF quorumSize, quorum, Faults
<1>5. CASE Height(v) = 0
  <2>1. CloseTo(v) = Validator
    BY <1>1, <1>5 DEF CloseTo
  <2> QED BY <1>4, <2>1, ValidatorsFinite
<1>6. CASE Height(v) # 0
  <2> DEFINE h == Height(v)
             sigs == chain[v][h].sigs
             b == chain[v][h].block
  <2>1. h \in 1 .. Height(v)
    BY <1>1, <1>6
  <2>2. sigs \subseteq Signers("precommit", h, b.round, HashOf(b))
        /\ Cardinality(sigs) >= quorumSize
    BY <2>1 DEF VotingInv, CertifiedChain
  <2>3. ASSUME NEW w \in sigs PROVE w \in CloseTo(v)
    <3>1. w \in Validator
          /\ [kind |-> "precommit", height |-> h, round |-> b.round,
              hash |-> HashOf(b), voter |-> w] \in signed
      BY <2>2 DEF Signers
    <3>2. h <= Height(w) + 1
      BY <1>1, <3>1 DEF VotingInv, VotesNext
    <3> QED BY <3>1, <3>2 DEF CloseTo
  <2>4. sigs \in SUBSET CloseTo(v)
    BY <2>3
  <2>5. Cardinality(sigs) \in Nat /\ Cardinality(sigs) <= Cardinality(CloseTo(v))
    BY <1>3, <2>4, FS_Subset, FS_CardinalityType
  <2> QED BY <1>3, <1>4, <2>2, <2>5
<1> QED BY <1>5, <1>6

\* Whatever restarts, a quorum is never more than one block behind anybody.
THEOREM NobodyRunsAheadHolds == Spec => []NobodyRunsAhead
BY KeepsUp, VotingInvHolds, PTL

-----------------------------------------------------------------------------
(* One log.  Where a quorum is everybody, the validators are writers of    *)
(* the log that module Messaging implements, until one of them restarts:   *)
(* an entry has one transaction, the block, and its nonce is the height.   *)

EntryOf(b) == <<[from |-> "chain", nonce |-> b.height, hash |-> HashOf(b)]>>

LogEntries == {<<tx>> : tx \in [from : {"chain"}, nonce : Nat, hash : Hash]}

CopyOf(v) == [h \in 1 .. Height(v) |-> EntryOf(chain[v][h].block)]

\* What a validator has that is not behind any other.
LongestCopy ==
  CHOOSE l \in {CopyOf(v) : v \in Validator} :
    \A v \in Validator : Len(CopyOf(v)) <= Len(l)

Shared == INSTANCE ReplicatedLog
  WITH Replica <- Validator, Writer <- Validator, Entry <- LogEntries,
       log <- LongestCopy, copy <- [v \in Validator |-> CopyOf(v)]

\* A quorum is all of the validators, and none has forgotten what it signed.
SmallAndUp == N <= 3 /\ \A v \in Validator : epoch[v] = 0

\* What two validators have at one height is the same, the longest of the chains
\* is the log, and the nonces of a chain count its blocks.
OneCopy ==
  \A v, w \in Validator : \A h \in (1 .. Height(v)) \cap (1 .. Height(w)) :
    CopyOf(v)[h] = CopyOf(w)[h]

Foremost(v) == \A w \in Validator : Height(w) <= Height(v)

MostIsLog ==
  /\ \E v \in Validator : Foremost(v)
  /\ \A v \in Validator : Foremost(v) => LongestCopy = CopyOf(v)

Numbered ==
  \A v \in Validator : \A h \in 1 .. Height(v) :
    DOMAIN CopyOf(v)[h] = {1} /\ CopyOf(v)[h][1].nonce = h

LEMMA CopyTypes ==
  ASSUME TypeOK, NEW v \in Validator
  PROVE  /\ Height(v) \in Nat /\ Len(CopyOf(v)) = Height(v)
         /\ DOMAIN CopyOf(v) = 1 .. Height(v)
         /\ CopyOf(v) \in Seq(LogEntries)
         /\ \A h \in 1 .. Height(v) : /\ CopyOf(v)[h] = EntryOf(chain[v][h].block)
                                      /\ chain[v][h].block \in Block
<1>1. Height(v) \in Nat
  BY TipHashType
<1>2. \A h \in 1 .. Height(v) : chain[v][h].block \in Block
  <2>1. \A h \in 1 .. Len(chain[v]) : chain[v][h] \in Committed
    BY DEF TypeOK
  <2> QED BY <2>1 DEF Height, Committed
<1>3. \A b \in Block : EntryOf(b) \in LogEntries
  BY HashTypes DEF EntryOf, LogEntries, Block
<1>4. \A h \in 1 .. Height(v) : EntryOf(chain[v][h].block) \in LogEntries
  BY <1>2, <1>3
<1>5. CopyOf(v) \in Seq(LogEntries) /\ Len(CopyOf(v)) = Height(v)
  BY <1>1, <1>4 DEF CopyOf
<1> QED BY <1>1, <1>2, <1>5 DEF CopyOf

LEMMA ChainsNumbered == VotingInv => Numbered
<1> SUFFICES ASSUME VotingInv, NEW v \in Validator, NEW h \in 1 .. Height(v)
             PROVE  DOMAIN CopyOf(v)[h] = {1} /\ CopyOf(v)[h][1].nonce = h
  BY DEF Numbered
<1>1. CopyOf(v)[h] = EntryOf(chain[v][h].block)
  BY CopyTypes DEF VotingInv
<1>2. chain[v][h].block.height = h
  BY DEF VotingInv, CertifiedChain
<1> QED BY <1>1, <1>2 DEF EntryOf

\* Everybody has voted for what v has, so nobody is two blocks behind it.
LEMMA OneBlockApart ==
  ASSUME VotingInv, N <= 3, NEW v \in Validator, NEW w \in Validator
  PROVE  Height(v) <= Height(w) + 1
<1>1. CloseTo(v) = Validator
  BY KeepsUp, SmallQuorum DEF NobodyRunsAhead, CloseTo
<1> QED BY <1>1 DEF CloseTo

LEMMA SameEntries == VotingInv /\ SmallAndUp => OneCopy
<1> SUFFICES ASSUME VotingInv, SmallAndUp, NEW v \in Validator, NEW w \in Validator,
                    NEW h \in (1 .. Height(v)) \cap (1 .. Height(w))
             PROVE  CopyOf(v)[h] = CopyOf(w)[h]
  BY DEF OneCopy
<1>1. HashOf(chain[v][h].block) = HashOf(chain[w][h].block)
  BY CertificatesSameRound DEF SmallAndUp, Agreement
<1>2. chain[v][h].block.height = chain[w][h].block.height
  BY <1>1 DEF HashOf
<1>3. /\ CopyOf(v)[h] = EntryOf(chain[v][h].block)
      /\ CopyOf(w)[h] = EntryOf(chain[w][h].block)
  BY CopyTypes DEF VotingInv
<1> QED BY <1>1, <1>2, <1>3 DEF EntryOf

\* Somebody is not behind, and whoever is not has the log.
LEMMA LogIsCopy == VotingInv /\ SmallAndUp => MostIsLog
<1> SUFFICES ASSUME VotingInv, SmallAndUp PROVE MostIsLog
  OBVIOUS
<1>1. \A v \in Validator : Height(v) \in Nat /\ Len(CopyOf(v)) = Height(v)
  BY CopyTypes DEF VotingInv
<1>2. ASSUME NEW v \in Validator, Foremost(v)
      PROVE  LongestCopy = CopyOf(v)
  <2> DEFINE Longest(l) == \A w \in Validator : Len(CopyOf(w)) <= Len(l)
             Copies == {CopyOf(w) : w \in Validator}
  <2>1. CopyOf(v) \in Copies /\ Longest(CopyOf(v))
    BY <1>1, <1>2 DEF Foremost
  <2>2. LongestCopy \in Copies /\ Longest(LongestCopy)
    <3>1. LongestCopy = CHOOSE l \in Copies : Longest(l)
      BY DEF LongestCopy
    <3> HIDE DEF Longest, Copies
    <3> QED BY <2>1, <3>1
  <2>3. PICK w \in Validator : LongestCopy = CopyOf(w)
    BY <2>2
  <2>4. Height(w) = Height(v)
    <3>1. Len(CopyOf(v)) <= Len(CopyOf(w))
      BY <2>2, <2>3
    <3> QED BY <1>1, <1>2, <3>1 DEF Foremost
  <2>5. \A h \in 1 .. Height(v) : CopyOf(w)[h] = CopyOf(v)[h]
    BY <2>4, SameEntries DEF OneCopy
  <2>6. CopyOf(w) \in Seq(LogEntries) /\ CopyOf(v) \in Seq(LogEntries)
    BY CopyTypes DEF VotingInv
  <2> HIDE DEF Longest, Copies
  <2> QED BY <1>1, <2>3, <2>4, <2>5, <2>6
<1>3. \E v \in Validator : Foremost(v)
  <2>1. 0 \in Validator
    BY VotingAssumption DEF Validator
  <2>2. CASE \E v \in Validator : Height(0) < Height(v)
    <3>1. PICK v \in Validator : Height(0) < Height(v)
      BY <2>2
    <3>2. \A w \in Validator : Height(w) <= Height(0) + 1
      BY <2>1, OneBlockApart DEF SmallAndUp
    <3> QED BY <1>1, <2>1, <3>1, <3>2 DEF Foremost
  <2>3. CASE ~ \E v \in Validator : Height(0) < Height(v)
    BY <1>1, <2>1, <2>3 DEF Foremost
  <2> QED BY <2>2, <2>3
<1> QED BY <1>2, <1>3 DEF MostIsLog

\* A commit by a validator that is behind takes the next entry of the log; one by
\* any other appends, and then everybody has what was there before.
LEMMA CommitIsLogStep ==
  ASSUME VotingInv, VotingInv', SmallAndUp, SmallAndUp', NEW v \in Validator, Commit(v)
  PROVE  Shared!LogNext
<1>1. PICK sigs \in SUBSET Backers(v, "precommit") :
        Cardinality(sigs) >= quorumSize /\ CommitBlock(v, sigs)
  BY DEF Commit
<1> DEFINE e == EntryOf(prop[v])
           block == [block |-> prop[v], sigs |-> sigs]
<1>2. \A w \in Validator : Height(w) \in Nat /\ chain[w] \in Seq(Committed)
  BY TipHashType DEF VotingInv, TypeOK
<1>3. /\ chain'[v] = Append(chain[v], block)
      /\ \A w \in Validator : w # v => chain'[w] = chain[w] /\ Height(w)' = Height(w)
  <2>1. chain' = [chain EXCEPT ![v] = Append(chain[v], block)]
    BY <1>1 DEF CommitBlock
  <2> QED BY <2>1 DEF VotingInv, TypeOK, Height
<1>4. /\ Height(v)' = Height(v) + 1
      /\ chain'[v][Height(v) + 1].block = prop[v]
      /\ \A h \in 1 .. Height(v) : chain'[v][h] = chain[v][h]
  BY <1>2, <1>3 DEF Height
<1>5. \A w \in Validator : Height(v) <= Height(w)
  <2> SUFFICES ASSUME NEW w \in Validator PROVE Height(v) <= Height(w)
    OBVIOUS
  <2>1. w \in sigs
    <3>1. sigs \in SUBSET Validator
      BY DEF Backers, Signers
    <3> QED BY <1>1, <3>1, SmallQuorum DEF SmallAndUp
  <2>2. [kind |-> "precommit", height |-> Height(v) + 1, round |-> round[v],
         hash |-> HashOf(prop[v]), voter |-> w] \in signed
    BY <2>1 DEF Backers, Signers
  <2>3. Height(v) + 1 <= Height(w) + 1
    BY <1>2, <2>2 DEF VotingInv, VotesNext
  <2> QED BY <1>2, <2>3
<1>6. e \in LogEntries
  BY HashTypes DEF VotingInv, TypeOK, EntryOf, LogEntries, Block
<1>7. /\ \A w \in Validator : w # v => CopyOf(w)' = CopyOf(w)
      /\ CopyOf(v)' = Append(CopyOf(v), e)
      /\ CopyOf(v) \in Seq(LogEntries) /\ Len(CopyOf(v)) = Height(v)
  <2>1. \A w \in Validator : w # v => CopyOf(w)' = CopyOf(w)
    BY <1>3 DEF CopyOf
  <2>2. CopyOf(v) \in Seq(LogEntries) /\ Len(CopyOf(v)) = Height(v)
    BY CopyTypes DEF VotingInv
  <2>3. CopyOf(v)' = [h \in 1 .. Height(v) + 1 |-> EntryOf(chain'[v][h].block)]
    BY <1>4 DEF CopyOf
  <2>4. \A h \in 1 .. Height(v) + 1 :
          EntryOf(chain'[v][h].block) = IF h = Height(v) + 1 THEN e ELSE CopyOf(v)[h]
    BY <1>2, <1>4 DEF CopyOf
  <2> HIDE DEF e
  <2>5. ASSUME NEW s \in Seq(LogEntries), NEW x \in LogEntries
        PROVE  Append(s, x) = [h \in 1 .. Len(s) + 1 |->
                                 IF h = Len(s) + 1 THEN x ELSE s[h]]
    <3> DEFINE longer == [h \in 1 .. Len(s) + 1 |->
                            IF h = Len(s) + 1 THEN x ELSE s[h]]
    <3>1. longer \in Seq(LogEntries) /\ Len(longer) = Len(s) + 1
      OBVIOUS
    <3>2. Append(s, x) \in Seq(LogEntries) /\ Len(Append(s, x)) = Len(s) + 1
      OBVIOUS
    <3>3. \A h \in 1 .. Len(s) + 1 : Append(s, x)[h] = longer[h]
      OBVIOUS
    <3> HIDE DEF longer
    <3>4. Append(s, x) = longer
      BY <3>1, <3>2, <3>3
    <3> QED BY <3>4 DEF longer
  <2>6. Append(CopyOf(v), e) = [h \in 1 .. Height(v) + 1 |->
                                  IF h = Height(v) + 1 THEN e ELSE CopyOf(v)[h]]
    BY <1>6, <2>2, <2>5
  <2> QED BY <2>1, <2>2, <2>3, <2>4, <2>6
<1> HIDE DEF e, block
<1> DEFINE copies == [w \in Validator |-> CopyOf(w)]
<1>8. copies' = [copies EXCEPT ![v] = Append(CopyOf(v), e)]
  BY <1>7
<1>9. MostIsLog /\ MostIsLog' /\ OneCopy' /\ Numbered'
  <2>1. (VotingInv /\ SmallAndUp => MostIsLog)' /\ (VotingInv /\ SmallAndUp => OneCopy)'
        /\ (VotingInv => Numbered)'
    BY LogIsCopy, SameEntries, ChainsNumbered, PTL
  <2> QED BY <2>1, LogIsCopy
<1>10. CASE \E u \in Validator : Height(v) < Height(u)
  <2>1. PICK u \in Validator : Height(v) < Height(u)
    BY <1>10
  <2>2. /\ u # v /\ Height(u) = Height(v) + 1
        /\ \A w \in Validator : Height(w) <= Height(u)
    <3>1. Height(u) <= Height(v) + 1 /\ \A w \in Validator : Height(w) <= Height(v) + 1
      BY OneBlockApart DEF SmallAndUp
    <3> QED BY <1>2, <2>1, <3>1
  <2>3. Foremost(u) /\ Foremost(u)'
    <3>1. Height(u)' = Height(u) /\ Height(v)' = Height(u)
      BY <1>3, <1>4, <2>2
    <3>2. \A w \in Validator : Height(w)' <= Height(u)'
      BY <1>2, <1>3, <2>2, <3>1
    <3> QED BY <2>2, <3>2 DEF Foremost
  <2>4. LongestCopy = CopyOf(u) /\ LongestCopy' = CopyOf(u)'
    BY <1>9, <2>3 DEF MostIsLog
  <2>5. /\ LongestCopy' = LongestCopy /\ Len(LongestCopy) = Height(v) + 1
        /\ LongestCopy \in Seq(LogEntries)
    BY <1>7, <2>2, <2>4, CopyTypes DEF VotingInv
  <2>6. \A h \in 1 .. Height(v) + 1 : Append(CopyOf(v), e)[h] = LongestCopy[h]
    <3>1. \A h \in 1 .. Height(v) + 1 : CopyOf(v)'[h] = CopyOf(u)'[h]
      BY <1>2, <1>3, <1>4, <1>9, <2>2 DEF OneCopy
    <3> QED BY <1>7, <2>4, <2>5, <3>1
  <2>7. Append(CopyOf(v), e) = SubSeq(LongestCopy, 1, Height(v) + 1)
    <3>1. Append(CopyOf(v), e) \in Seq(LogEntries)
          /\ Len(Append(CopyOf(v), e)) = Height(v) + 1
      BY <1>2, <1>7, <1>6
    <3>2. SubSeq(LongestCopy, 1, Height(v) + 1) = LongestCopy
      BY <1>2, <2>5
    <3> QED BY <2>5, <2>6, <3>1, <3>2
  <2>8. Shared!Follow(v)
    <3>1. copies[v] = CopyOf(v) /\ Len(copies[v]) < Len(LongestCopy)
      BY <1>2, <1>7, <2>5
    <3>2. copies' = [copies EXCEPT ![v] = SubSeq(LongestCopy, 1, Len(copies[v]) + 1)]
      BY <1>7, <1>8, <2>7, <3>1
    <3> QED BY <2>5, <3>1, <3>2 DEF Shared!Follow
  <2> QED BY <2>8 DEF Shared!LogNext
<1>11. CASE ~ \E u \in Validator : Height(v) < Height(u)
  <2>1. \A w \in Validator : Height(w) = Height(v)
    BY <1>2, <1>5, <1>11
  <2>2. \A w \in Validator : LongestCopy = CopyOf(w)
    BY <1>2, <1>9, <2>1 DEF MostIsLog, Foremost
  <2>3. LongestCopy' = CopyOf(v)'
    <3>1. \A w \in Validator : Height(w)' <= Height(v)'
      BY <1>2, <1>3, <1>4, <2>1
    <3> QED BY <1>9, <3>1 DEF MostIsLog, Foremost
  <2>4. LongestCopy' = Append(LongestCopy, e)
    BY <1>7, <2>2, <2>3
  <2>5. Shared!Ordered(LongestCopy')
    <3>1. DOMAIN LongestCopy' = 1 .. Height(v)'
      <4>1. Len(LongestCopy') = Height(v) + 1 /\ LongestCopy' \in Seq(LogEntries)
        BY <1>2, <1>7, <1>6, <2>3
      <4> QED BY <1>2, <1>4, <4>1
    <3>2. \A h \in 1 .. Height(v)' : DOMAIN LongestCopy'[h] = {1} /\ LongestCopy'[h][1].nonce = h
      BY <1>9, <2>3 DEF Numbered
    <3>3. Height(v)' \in Nat
      BY <1>2, <1>4
    <3> QED BY <3>1, <3>2, <3>3 DEF Shared!Ordered
  <2>6. Shared!Extend(v)
    BY <1>6, <1>8, <2>2, <2>4, <2>5 DEF Shared!Extend
  <2> QED BY <2>6 DEF Shared!LogNext
<1> QED BY <1>10, <1>11

\* Every step, from everything that is known of the states around it.
LEMMA StepOfLog ==
  VotingInv /\ VotingInv' /\ [Next]_vars
    => (SmallAndUp' => Shared!LogNext \/ UNCHANGED Shared!logVars)
<1> SUFFICES ASSUME VotingInv, VotingInv', [Next]_vars, SmallAndUp'
             PROVE  Shared!LogNext \/ UNCHANGED Shared!logVars
  OBVIOUS
<1>1. SmallAndUp
  BY RestartsStay DEF VotingInv, SmallAndUp
<1>2. CASE \E v \in Validator : Commit(v)
  BY <1>1, <1>2, CommitIsLogStep
<1>3. CASE UNCHANGED chain
  BY <1>3 DEF Shared!logVars, LongestCopy, CopyOf, Height
<1> QED BY <1>2, <1>3 DEF Next, vars, Propose, Prevote, CastPrevote, Precommit,
      CastPrecommit, CommitFails, RejectBlock, Timeout, NextRound, Restart, AtBounds

\* Up to three validators and until one restarts, the engine writes one log: a
\* commit either appends to it, when everybody has all of it, or takes the next
\* block of it, and nobody takes a block back (CommitBlock, chain.go:99-147).
THEOREM StepsOfOneLog ==
  Spec => [][SmallAndUp' => Shared!LogNext \/ UNCHANGED Shared!logVars]_vars
<1>1. VotingInv /\ VotingInv' /\ [Next]_vars
        => [SmallAndUp' => Shared!LogNext \/ UNCHANGED Shared!logVars]_vars
  BY StepOfLog
<1> QED BY <1>1, VotingInvHolds, PTL DEF Spec

\* So where none ever restarts the engine implements the replicated log, in
\* which the blocks are numbered and no writer is two blocks behind another.
THEOREM VotingImplementsLog ==
  ASSUME N <= 3, Unstable = {}
  PROVE  Spec => Shared!LogSpec
<1>1. Init => Shared!LogInit
  <2> SUFFICES ASSUME Init PROVE Shared!LogInit
    OBVIOUS
  <2>1. \A v \in Validator : Height(v) = 0 /\ CopyOf(v) = <<>>
    BY DEF Init, Height, CopyOf
  <2>2. SmallAndUp
    BY DEF Init, SmallAndUp
  <2>3. LongestCopy = <<>>
    BY <2>1, <2>2, VotingInvInit, LogIsCopy DEF MostIsLog
  <2> QED BY <2>1, <2>3 DEF Shared!LogInit
<1>2. VotingInv => SmallAndUp
  BY DEF VotingInv, OnlyUnstableRestart, Restarted, SmallAndUp
<1>3. VotingInv /\ VotingInv' /\ [Next]_vars => [Shared!LogNext]_(Shared!logVars)
  <2>1. (VotingInv => SmallAndUp)'
    BY <1>2, PTL
  <2> QED BY <2>1, StepOfLog
<1> QED BY <1>1, <1>3, VotingInvHolds, PTL DEF Spec, Shared!LogSpec

-----------------------------------------------------------------------------
(* The first phase.                                                        *)

\* No precommit is ever published, by anybody, for a block that a quorum has
\* not prevoted in the same round (pbft.go:184-192).
THEOREM PrecommitBackedHolds == Spec => []PrecommitBacked
<1>1. Init => PrecommitBacked
  BY DEF Init, PrecommitBacked
<1>2. VotingInv /\ PrecommitBacked /\ [Next]_vars => PrecommitBacked'
  <2> SUFFICES ASSUME VotingInv, PrecommitBacked, [Next]_vars
               PROVE  PrecommitBacked'
    OBVIOUS
  <2> DEFINE Backing(vote) ==
               Signers("prevote", vote.height, vote.round, vote.hash)
  <2>1. ASSUME NEW k, NEW h, NEW r, NEW x, Cardinality(Signers(k, h, r, x)) >= quorumSize
        PROVE  Cardinality(Signers(k, h, r, x)') >= quorumSize
    <3>1. Signers(k, h, r, x) \subseteq Signers(k, h, r, x)'
      BY VotesGrow DEF Signers
    <3>2. Signers(k, h, r, x)' \subseteq Validator
      BY DEF Signers
    <3>3. /\ IsFiniteSet(Signers(k, h, r, x)')
          /\ Cardinality(Signers(k, h, r, x)') \in Nat
      BY <3>2, ValidatorsFinite, FS_Subset, FS_CardinalityType
    <3>4. /\ Cardinality(Signers(k, h, r, x)) \in Nat
          /\ Cardinality(Signers(k, h, r, x)) <= Cardinality(Signers(k, h, r, x)')
      BY <3>1, <3>3, FS_Subset, FS_CardinalityType
    <3>5. quorumSize \in Int
      BY FaultsBound, VotingAssumption DEF quorumSize, quorum
    <3> QED BY <2>1, <3>3, <3>4, <3>5
  <2>2. ASSUME NEW vote \in signed', vote.kind = "precommit"
        PROVE  Cardinality(Backing(vote)) >= quorumSize
    <3>1. CASE vote \in signed
      BY <2>2, <3>1 DEF PrecommitBacked
    <3>2. CASE vote \notin signed
      <4>1. \/ signed' = signed
            \/ \E v \in Validator : Prevote(v) \/ Precommit(v)
        BY DEF Next, vars, AtBounds, Propose, Commit, CommitBlock,
               CommitFails, RejectBlock, Timeout, NextRound, Restart
      <4>2. ~ \E v \in Validator : Prevote(v)
        BY <2>2, <3>2 DEF Prevote, CastPrevote, Ballot
      <4>3. PICK v \in Validator : Precommit(v)
        BY <2>2, <3>2, <4>1, <4>2
      <4>4. vote = Ballot(v, "precommit", prop[v])
        BY <2>2, <3>2, <4>3 DEF Precommit, CastPrecommit
      <4> QED BY <4>3, <4>4 DEF Precommit, Backers, Ballot
    <3> QED BY <3>1, <3>2
  <2> QED BY <2>1, <2>2 DEF PrecommitBacked
<1> QED BY <1>1, <1>2, VotingInvHolds, PTL DEF Spec

=============================================================================
