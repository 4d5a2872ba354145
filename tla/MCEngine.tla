------------------------------ MODULE MCEngine ------------------------------
(***************************************************************************)
(* Bounds on Engine for the run with restarts, and the engine on a network *)
(* that is timely except for the validators that are down.                 *)
(***************************************************************************)
EXTENDS Engine

\* Nobody handles mail for a round it has left: no wait reads that key again,
\* so only the garbage the maps collect is cut off.
NoLateMail ==
  \A v \in Validator :
    \A m \in (propInbox[v] \ propInbox'[v]) \cup (voteInbox[v] \ voteInbox'[v]) :
      /\ m.height > Height(v)
      /\ m.height = Height(v) + 1 => m.round >= round[v]

\* Rounds time out at the first height only, and never once someone restarted.
FewSetbacks ==
  \A v \in Validator : round[v] > 0 =>
    /\ Height(v) = 0
    /\ \A w \in Validator : epoch[w] = 0

-----------------------------------------------------------------------------
(* A timely network.                                                       *)

CONSTANT Dead   \* validators that are down from the start

ASSUME DeadAssumption == Dead \subseteq Validator

Live == Validator \ Dead

\* RoundTimeout is longer than the messages of a round take: only a round
\* whose proposer is down times out.
DueTimeout(v) ==
  /\ proposerFor(Height(v) + 1, round[v]) \in Dead
  /\ EngineTimeout(v)

TimelyNext ==
  \E v \in Live :
    \/ EnginePropose(v) \/ EnginePrevote(v) \/ EnginePrecommit(v)
    \/ EngineCommit(v) \/ DueTimeout(v)
    \/ handleProposal(v) \/ handleVote(v)
    \/ Height(v) = MaxHeight /\ UNCHANGED engineVars

\* Every goroutine of every live validator keeps running, nothing is lost.
TimelySpec ==
  /\ EngineInit
  /\ [][TimelyNext]_engineVars
  /\ \A v \in Live :
       /\ WF_engineVars(EnginePropose(v))
       /\ WF_engineVars(EnginePrevote(v))
       /\ WF_engineVars(EnginePrecommit(v))
       /\ WF_engineVars(EngineCommit(v))
       /\ WF_engineVars(DueTimeout(v))
       /\ WF_engineVars(handleProposal(v))
       /\ WF_engineVars(handleVote(v))

\* A validator that is down costs the rounds it would have led and nothing
\* else: every other validator commits every height (pbft.go:10-12, 104-151).
EveryoneCommits == <>(\A v \in Live : Height(v) = MaxHeight)
=============================================================================
