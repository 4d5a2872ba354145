--------------------------- MODULE RegistryProofs ---------------------------
(***************************************************************************)
(* Theorems about Registry, for any number of nodes, relays, restarts and  *)
(* updates that come between SetHealth and Get.                            *)
(***************************************************************************)
EXTENDS Registry, TLAPS

-----------------------------------------------------------------------------
(* What each step does to the records, the mail and the counts.            *)

\* A record enters a registry as the seed, as it is announced, or as a
\* registration or the prober makes it.
LEMMA RecordTypes ==
  /\ Unknown.role # "relay" /\ PeerInfo.role # "relay"
  /\ \A i \in RelayInfo : i.role = "relay" /\ i.healthy \in BOOLEAN
                          /\ i.version \in Version
  /\ \A h \in BOOLEAN, w \in Version :
       [role |-> "relay", healthy |-> h, version |-> w] \in RelayInfo
  /\ \A i \in RelayInfo, h \in BOOLEAN : [i EXCEPT !.healthy = h] \in RelayInfo
BY DEF RelayInfo, Unknown, PeerInfo

\* What a probe in progress is.
LEMMA ProbeTypes ==
  /\ Idle \in Probe
  /\ \A r \in Relay, p \in Phase :
       /\ [relay |-> r, phase |-> p] \in Probe
       /\ [relay |-> r, phase |-> p] # Idle
  /\ \A q \in Probe : q # Idle => q.relay \in Relay /\ q.phase \in Phase
BY DEF Probe, Phase, Idle

-----------------------------------------------------------------------------
(* Types, and that what the prober works on stays registered.              *)

\* A record that is set healthy or not keeps its role and its version.
LEMMA SetHealthEffect ==
  ASSUME RegTypeOK, NEW v \in Validators, NEW r \in Relay,
         registry[v][r].role = "relay",
         NEW healthy \in BOOLEAN, SetHealth(v, r, healthy)
  PROVE  /\ registry' \in [Node -> [Relay -> RelayInfo \cup {Unknown, PeerInfo}]]
         /\ \A n \in Node, q \in Relay :
              /\ registry'[n][q].role = registry[n][q].role
              /\ registry'[n][q].version = registry[n][q].version
              /\ n # v \/ q # r => registry'[n][q] = registry[n][q]
         /\ registry'[v][r].healthy = healthy
<1> DEFINE old == registry[v][r]
           new == [old EXCEPT !.healthy = healthy]
<1>1. v \in Node /\ registry \in [Node -> [Relay -> RelayInfo \cup {Unknown, PeerInfo}]]
  BY RegistryAssumption DEF RegTypeOK
<1>2. old \in RelayInfo
  BY <1>1, RecordTypes
<1>3. /\ new \in RelayInfo /\ new.role = old.role /\ new.version = old.version
      /\ new.healthy = healthy
  BY <1>2 DEF RelayInfo
<1>4. registry' = [registry EXCEPT ![v] = [registry[v] EXCEPT ![r] = new]]
  BY DEF SetHealth
<1> HIDE DEF new
<1>5. registry' \in [Node -> [Relay -> RelayInfo \cup {Unknown, PeerInfo}]]
  BY <1>1, <1>3, <1>4
<1>6. \A n \in Node, q \in Relay :
        registry'[n][q] = IF n = v /\ q = r THEN new ELSE registry[n][q]
  BY <1>1, <1>4
<1> QED BY <1>1, <1>3, <1>5, <1>6

LEMMA ProbeNames ==
  ASSUME NEW v \in Validators, NEW r \in Relay, NEW p \in Phase,
         probe[v] = [relay |-> r, phase |-> p]
  PROVE  probe[v] # Idle /\ probe[v].relay = r
BY ProbeTypes

LEMMA ProbedIsRelay ==
  ASSUME ProbedIsKnown, NEW v \in Validators, NEW r \in Relay, NEW p \in Phase,
         probe[v] = [relay |-> r, phase |-> p]
  PROVE  registry[v][r].role = "relay"
<1>1. probe[v] # Idle
  BY ProbeTypes
<1>2. probe[v].relay = r
  BY ProbeNames
<1>3. registry[v][probe[v].relay].role = "relay"
  BY <1>1 DEF ProbedIsKnown
<1> QED BY <1>2, <1>3

\* And so is the relay whose probe ends, before or after it was sent.
LEMMA EndingIsRelay ==
  ASSUME ProbedIsKnown, NEW v \in Validators, NEW r \in Relay, Probing(v, r)
  PROVE  registry[v][r].role = "relay"
<1>1. CASE r \in sweep[v]
  BY <1>1 DEF ProbedIsKnown
<1>2. ASSUME NEW p \in {"sent", "open", "missed"},
             probe[v] = [relay |-> r, phase |-> p]
      PROVE  registry[v][r].role = "relay"
  <2>1. p \in Phase
    BY DEF Phase
  <2> QED BY <1>2, <2>1, ProbedIsRelay
<1> QED BY <1>1, <1>2 DEF Probing

LEMMA RegTypeStep ==
  ASSUME RegTypeOK, ProbedIsKnown, [RegNext]_regVars
  PROVE  RegTypeOK'
<1> USE RegistryAssumption
<1>0. \A v \in Validators : v \in Node
  OBVIOUS
<1>1. ASSUME NEW r \in Relay, NEW v \in Validators, RegisterRelay(r, v)
      PROVE  RegTypeOK'
  <2> DEFINE info == [role |-> "relay", healthy |-> TRUE, version |-> version[r]]
  <2>1. info \in RelayInfo /\ [relay |-> r, info |-> info] \in Announcement
    BY RecordTypes DEF RegTypeOK, Announcement
  <2>2. Upsert(v, r, info) /\ announce(r, info)
        /\ UNCHANGED <<prober, relays, restarts>>
    BY <1>1 DEF RegisterRelay
  <2> HIDE DEF info
  <2> QED BY <2>1, <2>2 DEF Upsert, announce, RegTypeOK, prober, relays
<1>2. ASSUME NEW n \in Node, NEW a \in mail[n], Deliver(n, a) PROVE RegTypeOK'
  <2>1. a.relay \in Relay /\ a.info \in RelayInfo
    BY DEF RegTypeOK, Announcement
  <2> QED BY <1>2, <2>1 DEF Deliver, Upsert, RegTypeOK, prober, relays
<1>3. ASSUME NEW n \in Node, NEW a \in mail[n], Lose(n, a) PROVE RegTypeOK'
  BY <1>3 DEF Lose, RegTypeOK, prober, relays, bounds
<1>4. ASSUME NEW v \in Validators, StartSweep(v) PROVE RegTypeOK'
  BY <1>4 DEF StartSweep, AllRelays, RegTypeOK, records, relays, bounds
<1>5. ASSUME NEW v \in Validators, NEW r \in Relay, SendProbe(v, r)
      PROVE  RegTypeOK'
  <2>1. [relay |-> r, phase |-> "sent"] \in Probe
    BY ProbeTypes DEF Phase
  <2> QED BY <1>5, <2>1 DEF SendProbe, RegTypeOK, records, relays, bounds
<1>6. ASSUME NEW v \in Validators, NEW r \in Relay, NEW p \in Phase, NEW q \in Phase,
             ProbeStep(v, r, p, q)
      PROVE  RegTypeOK'
  <2>1. [probe[v] EXCEPT !.phase = q] \in Probe
    BY <1>6, ProbeTypes DEF ProbeStep, Probe
  <2> QED BY <1>6, <2>1 DEF ProbeStep, RegTypeOK, records, relays, bounds
<1>7. ASSUME NEW v \in Validators, NEW r \in Relay, ProbeServed(v, r)
      PROVE  RegTypeOK'
  <2>1. [relay |-> r, phase |-> "report"] \in Probe
    BY ProbeTypes DEF Phase
  <2>2. registry[v][r].role = "relay"
    BY <1>7, ProbedIsRelay DEF ProbeServed, Phase
  <2>3. SetHealth(v, r, TRUE)
    BY <1>7 DEF ProbeServed
  <2>4. registry' \in [Node -> [Relay -> RelayInfo \cup {Unknown, PeerInfo}]]
    BY <2>2, <2>3, SetHealthEffect
  <2> QED BY <1>7, <2>1, <2>4 DEF ProbeServed, SetHealth, RegTypeOK, relays, bounds
<1>8. ASSUME NEW v \in Validators, NEW r \in Relay, ProbeFailed(v, r)
      PROVE  RegTypeOK'
  <2>1. [relay |-> r, phase |-> "report"] \in Probe
    BY ProbeTypes DEF Phase
  <2>2. registry[v][r].role = "relay"
    BY <1>8, EndingIsRelay DEF ProbeFailed, CountFailure
  <2>3. /\ registry' \in [Node -> [Relay -> RelayInfo \cup {Unknown, PeerInfo}]]
        /\ probe' \in [Validators -> Probe]
    BY <1>8, <2>1, <2>2, SetHealthEffect, ProbeTypes
       DEF ProbeFailed, SetHealth, RegTypeOK
  <2>4. OneMore(failures[v][r]) \in 0 .. MaxFailures
        /\ OneMore(streak[v][r]) \in 0 .. MaxFailures
    BY DEF OneMore, RegTypeOK
  <2> QED BY <1>8, <2>3, <2>4
          DEF ProbeFailed, CountFailure, RegTypeOK, relays, bounds
<1>9. ASSUME NEW v \in Validators, NEW r \in Relay, Report(v, r)
      PROVE  RegTypeOK'
  <2>1. registry[v][r] \in RelayInfo
    <3>1. registry[v][r].role = "relay"
      BY <1>9, ProbedIsRelay DEF Report, Phase
    <3>2. registry[v][r] \in RelayInfo \cup {Unknown, PeerInfo}
      BY DEF RegTypeOK
    <3>3. registry[v][r] # Unknown /\ registry[v][r] # PeerInfo
      BY <3>1, RecordTypes
    <3> QED BY <3>2, <3>3
  <2>2. [relay |-> r, info |-> registry[v][r]] \in Announcement
    BY <2>1 DEF Announcement
  <2> QED BY <1>9, <2>2, ProbeTypes
          DEF Report, announce, RegTypeOK, relays, bounds
<1>10. ASSUME NEW r \in Relay, Switch(r) PROVE RegTypeOK'
  BY <1>10 DEF Switch, RegTypeOK, records, prober, bounds
<1>11. ASSUME NEW r \in Relay, NEW new \in Version, Upgrade(r, new)
       PROVE  RegTypeOK'
  BY <1>11 DEF Upgrade, RegTypeOK, records, prober, bounds
<1>12. ASSUME NEW n \in Node, Restart(n) PROVE RegTypeOK'
  <2>1. seedGateways(n) \in [Relay -> RelayInfo \cup {Unknown, PeerInfo}]
    BY DEF seedGateways
  <2>2. /\ registry' \in [Node -> [Relay -> RelayInfo \cup {Unknown, PeerInfo}]]
        /\ mail' \in [Node -> SUBSET Announcement]
        /\ restarts' \in 0 .. MaxRestarts /\ slips' = slips
        /\ struck' = struck /\ up' = up /\ version' = version
    BY <1>12, <2>1 DEF Restart, RegTypeOK, relays
  <2>3. /\ failures' \in [Validators -> [Relay -> 0 .. MaxFailures]]
        /\ streak' \in [Validators -> [Relay -> 0 .. MaxFailures]]
        /\ sweep' \in [Validators -> SUBSET Relay]
        /\ probe' \in [Validators -> Probe]
    <3>1. [q \in Relay |-> 0] \in [Relay -> 0 .. MaxFailures]
      OBVIOUS
    <3> QED BY <1>12, <3>1, ProbeTypes DEF Restart, RegTypeOK
  <2> QED BY <2>2, <2>3 DEF RegTypeOK
<1>13. CASE UNCHANGED regVars
  BY <1>13 DEF regVars, RegTypeOK
<1> QED
  BY <1>1, <1>2, <1>3, <1>4, <1>5, <1>6, <1>7, <1>8, <1>9, <1>10, <1>11,
     <1>12, <1>13
  DEF RegNext, ProberStep, StreamIncomingSMS, ProbeOvertaken, Phase

\* What is announced is a registered relay's record, and only a restart, which
\* ends the sweep too, takes such a record away.
LEMMA KnownStep ==
  ASSUME RegTypeOK, ProbedIsKnown, [RegNext]_regVars
  PROVE  ProbedIsKnown'
<1> USE RegistryAssumption
<1> DEFINE Kept == \A n \in Node, q \in Relay :
                     registry[n][q].role = "relay" => registry'[n][q].role = "relay"
<1>a. ASSUME Kept, NEW v \in Validators, sweep'[v] \subseteq sweep[v],
             probe'[v] # Idle => \/ probe'[v].relay \in sweep[v]
                                 \/ probe[v] # Idle /\ probe'[v].relay = probe[v].relay
      PROVE  /\ \A r \in sweep'[v] : registry'[v][r].role = "relay"
             /\ probe'[v] # Idle => registry'[v][probe'[v].relay].role = "relay"
  <2>1. v \in Node /\ sweep[v] \subseteq Relay
    BY DEF RegTypeOK
  <2>2. probe[v] # Idle => probe[v].relay \in Relay
    BY ProbeTypes DEF RegTypeOK
  <2>3. /\ \A r \in sweep[v] : registry[v][r].role = "relay"
        /\ probe[v] # Idle => registry[v][probe[v].relay].role = "relay"
    BY DEF ProbedIsKnown
  <2> QED BY <1>a, <2>1, <2>2, <2>3
<1>b. ASSUME Kept, sweep' = sweep, probe' = probe PROVE ProbedIsKnown'
  BY <1>a, <1>b DEF ProbedIsKnown
<1>1. ASSUME NEW r \in Relay, NEW v \in Validators, RegisterRelay(r, v)
      PROVE  ProbedIsKnown'
  <2>1. Kept
    BY <1>1 DEF RegisterRelay, Upsert, RegTypeOK
  <2> QED BY <1>1, <1>b, <2>1 DEF RegisterRelay, prober
<1>2. ASSUME NEW n \in Node, NEW a \in mail[n], Deliver(n, a)
      PROVE  ProbedIsKnown'
  <2>1. a.relay \in Relay /\ a.info.role = "relay"
    BY RecordTypes DEF RegTypeOK, Announcement
  <2>2. Kept
    BY <1>2, <2>1 DEF Deliver, Upsert, RegTypeOK
  <2> QED BY <1>2, <1>b, <2>2 DEF Deliver, prober
<1>3. ASSUME UNCHANGED <<registry, sweep, probe>> PROVE ProbedIsKnown'
  BY <1>3 DEF ProbedIsKnown
<1>4. ASSUME NEW v \in Validators, StartSweep(v) PROVE ProbedIsKnown'
  BY <1>4 DEF StartSweep, AllRelays, ProbedIsKnown, RegTypeOK, records
<1>5. ASSUME NEW v \in Validators, NEW r \in Relay, UNCHANGED registry,
             sweep' \in {sweep, [sweep EXCEPT ![v] = @ \ {r}]},
             \/ probe' = [probe EXCEPT ![v] = Idle]
             \/ /\ r \in sweep[v] \/ (probe[v] # Idle /\ probe[v].relay = r)
                /\ \E p \in Phase :
                     probe' = [probe EXCEPT ![v] = [relay |-> r, phase |-> p]]
      PROVE  ProbedIsKnown'
  <2>1. Kept
    BY <1>5
  <2>2. ASSUME NEW w \in Validators
        PROVE  /\ sweep'[w] \subseteq sweep[w]
               /\ probe'[w] # Idle =>
                    \/ probe'[w].relay \in sweep[w]
                    \/ probe[w] # Idle /\ probe'[w].relay = probe[w].relay
    <3>1. CASE w # v
      <4>1. sweep'[w] = sweep[w]
        BY <1>5, <3>1 DEF RegTypeOK
      <4>2. probe'[w] = probe[w]
        BY <1>5, <3>1 DEF RegTypeOK
      <4> QED BY <4>1, <4>2
    <3>2. CASE w = v
      <4>1. sweep'[w] \subseteq sweep[w]
        BY <1>5 DEF RegTypeOK
      <4>2. \/ probe'[w] = Idle
            \/ /\ \E p \in Phase : probe'[w] = [relay |-> r, phase |-> p]
               /\ r \in sweep[w] \/ (probe[w] # Idle /\ probe[w].relay = r)
        BY <1>5, <3>2 DEF RegTypeOK
      <4>3. probe'[w] # Idle => probe'[w].relay = r
        <5>1. ASSUME NEW p \in Phase, probe'[w] = [relay |-> r, phase |-> p]
              PROVE  probe'[w].relay = r
          BY <5>1
        <5> QED BY <4>2, <5>1
      <4> QED BY <4>1, <4>2, <4>3
    <3> QED BY <3>1, <3>2
  <2> QED BY <1>a, <2>1, <2>2 DEF ProbedIsKnown
<1>6. ASSUME NEW v \in Validators, NEW r \in Relay, NEW p \in Phase, NEW q \in Phase,
             ProbeStep(v, r, p, q)
      PROVE  ProbedIsKnown'
  <2>1. probe[v] # Idle /\ probe[v].relay = r
    BY <1>6, ProbeNames DEF ProbeStep
  <2>2. probe' = [probe EXCEPT ![v] = [relay |-> r, phase |-> q]]
    <3>1. [probe[v] EXCEPT !.phase = q] = [relay |-> r, phase |-> q]
      BY <1>6 DEF ProbeStep
    <3>2. probe' = [probe EXCEPT ![v] = [probe[v] EXCEPT !.phase = q]]
      BY <1>6 DEF ProbeStep
    <3> QED BY <3>1, <3>2
  <2> QED BY <1>5, <1>6, <2>1, <2>2 DEF ProbeStep, records
<1>7. ASSUME NEW v \in Validators, NEW r \in Relay, SendProbe(v, r)
      PROVE  ProbedIsKnown'
  <2>1. "sent" \in Phase
    BY DEF Phase
  <2>2. /\ r \in sweep[v] /\ UNCHANGED registry
        /\ sweep' = [sweep EXCEPT ![v] = @ \ {r}]
        /\ probe' = [probe EXCEPT ![v] = [relay |-> r, phase |-> "sent"]]
    BY <1>7 DEF SendProbe, records
  <2>3. \E p \in Phase :
          probe' = [probe EXCEPT ![v] = [relay |-> r, phase |-> p]]
    BY <2>1, <2>2
  <2>4. sweep' \in {sweep, [sweep EXCEPT ![v] = @ \ {r}]}
    BY <2>2
  <2>5. UNCHANGED registry /\ r \in sweep[v]
    BY <2>2
  <2>6. /\ r \in sweep[v] \/ (probe[v] # Idle /\ probe[v].relay = r)
        /\ \E p \in Phase :
             probe' = [probe EXCEPT ![v] = [relay |-> r, phase |-> p]]
    BY <2>3, <2>5
  <2> HIDE DEF Kept
  <2> QED BY <1>5, <2>4, <2>5, <2>6
<1>8. ASSUME NEW v \in Validators, NEW r \in Relay, NEW healthy \in BOOLEAN,
             SetHealth(v, r, healthy), registry[v][r].role = "relay",
             sweep' \in {sweep, [sweep EXCEPT ![v] = @ \ {r}]},
             \/ r \in sweep[v]
             \/ probe[v] # Idle /\ probe[v].relay = r
      PROVE  ProbedIsKnown'
  <2>1. Kept
    BY <1>8, SetHealthEffect
  <2>2. ASSUME NEW w \in Validators
        PROVE  /\ sweep'[w] \subseteq sweep[w]
               /\ probe'[w] # Idle =>
                    \/ probe'[w].relay \in sweep[w]
                    \/ probe[w] # Idle /\ probe'[w].relay = probe[w].relay
    BY <1>8 DEF SetHealth, RegTypeOK
  <2> QED BY <1>a, <2>1, <2>2 DEF ProbedIsKnown
<1>9. ASSUME NEW v \in Validators, NEW r \in Relay, ProbeServed(v, r)
      PROVE  ProbedIsKnown'
  <2>1. probe[v] # Idle /\ probe[v].relay = r
    <3>1. "open" \in Phase
      BY DEF Phase
    <3> QED BY <1>9, <3>1, ProbeNames DEF ProbeServed
  <2>2. registry[v][r].role = "relay"
    BY <1>9, ProbedIsRelay DEF ProbeServed, Phase
  <2> QED BY <1>8, <1>9, <2>1, <2>2 DEF ProbeServed
<1>10. ASSUME NEW v \in Validators, NEW r \in Relay, ProbeFailed(v, r)
       PROVE  ProbedIsKnown'
  <2>1. Probing(v, r) /\ sweep' = [sweep EXCEPT ![v] = @ \ {r}]
    BY <1>10 DEF ProbeFailed, CountFailure
  <2>2. registry[v][r].role = "relay"
    BY <2>1, EndingIsRelay
  <2>3. r \in sweep[v] \/ (probe[v] # Idle /\ probe[v].relay = r)
    <3>1. ASSUME NEW p \in {"sent", "open", "missed"},
                 probe[v] = [relay |-> r, phase |-> p]
          PROVE  probe[v] # Idle /\ probe[v].relay = r
      <4>1. p \in Phase
        BY DEF Phase
      <4> QED BY <3>1, <4>1, ProbeNames
    <3> QED BY <2>1, <3>1 DEF Probing
  <2>4. CASE SetHealth(v, r, FALSE)
    BY <1>8, <2>1, <2>2, <2>3, <2>4
  <2>5. CASE UNCHANGED registry /\ probe' = [probe EXCEPT ![v] = Idle]
    BY <1>5, <2>1, <2>5
  <2> QED BY <1>10, <2>4, <2>5 DEF ProbeFailed
<1>11. ASSUME NEW v \in Validators, NEW r \in Relay, Report(v, r)
       PROVE  ProbedIsKnown'
  BY <1>5, <1>11 DEF Report
<1>12. ASSUME NEW n \in Node, Restart(n) PROVE ProbedIsKnown'
  <2>1. ASSUME NEW v \in Validators, v = n
        PROVE  sweep'[v] = {} /\ probe'[v] = Idle
    BY <1>12, <2>1 DEF Restart, RegTypeOK
  <2>2. ASSUME NEW v \in Validators, v # n
        PROVE  /\ sweep'[v] = sweep[v] /\ probe'[v] = probe[v]
               /\ registry'[v] = registry[v]
    BY <1>12, <2>2 DEF Restart, RegTypeOK
  <2> QED BY <2>1, <2>2 DEF ProbedIsKnown
<1>13. ASSUME NEW n \in Node, NEW a \in mail[n], Lose(n, a) PROVE ProbedIsKnown'
  BY <1>3, <1>13 DEF Lose, prober
<1>14. ASSUME NEW r \in Relay,
              Switch(r) \/ \E new \in Version : Upgrade(r, new)
       PROVE  ProbedIsKnown'
  BY <1>3, <1>14 DEF Switch, Upgrade, records, prober
<1>15. ASSUME NEW v \in Validators, NEW r \in Relay,
              StreamIncomingSMS(v, r) \/ ProbeOvertaken(v, r)
       PROVE  ProbedIsKnown'
  BY <1>6, <1>15 DEF StreamIncomingSMS, ProbeOvertaken, Phase
<1>16. CASE UNCHANGED regVars
  BY <1>3, <1>16 DEF regVars
<1> QED
  BY <1>1, <1>2, <1>4, <1>7, <1>9, <1>10, <1>11, <1>12, <1>13, <1>14, <1>15,
     <1>16
  DEF RegNext, ProberStep

\* In every behaviour the variables have their types, and the prober works on
\* relays that are still registered: SetHealth and Get never miss.
THEOREM RegTypeCorrect == RegSpec => [](RegTypeOK /\ ProbedIsKnown)
<1>1. RegInit => RegTypeOK /\ ProbedIsKnown
  BY RegistryAssumption, ProbeTypes
  DEF RegInit, RegTypeOK, ProbedIsKnown, seedGateways
<1>2. RegTypeOK /\ ProbedIsKnown /\ [RegNext]_regVars => (RegTypeOK /\ ProbedIsKnown)'
  BY RegTypeStep, KnownStep
<1> QED BY <1>1, <1>2, PTL DEF RegSpec

\* In every behaviour SetHealth and Get find the record they are called for.
THEOREM ProbedIsKnownHolds == RegSpec => []ProbedIsKnown
BY RegTypeCorrect, PTL

-----------------------------------------------------------------------------
(* Bad news has a cause.                                                   *)

\* The prober's count is what it is meant to be, and all bad news is about
\* relays that have reached the threshold.
CauseInv ==
  /\ failures = streak
  /\ MarkedForCause

LEMMA CauseStep ==
  ASSUME RegTypeOK, ProbedIsKnown, CauseInv, [RegNext]_regVars
  PROVE  CauseInv'
<1> USE RegistryAssumption
<1> DEFINE Bad(i) == i.role = "relay" /\ ~ i.healthy
<1>a. ASSUME failures' = streak', struck \subseteq struck',
             \A n \in Node, r \in Relay :
               Bad(registry'[n][r]) =>
                 \/ Bad(registry[n][r])
                 \/ \E a \in mail[n] : a.relay = r /\ ~ a.info.healthy
                 \/ r \in struck',
             \A n \in Node : \A a \in mail'[n] :
               ~ a.info.healthy =>
                 \/ a \in mail[n]
                 \/ \E m \in Node : Bad(registry[m][a.relay])
      PROVE  CauseInv'
  <2>1. \A n \in Node : \A a \in mail[n] : a.relay \in Relay
    BY DEF RegTypeOK, Announcement
  <2>2. failures' = streak' /\ MarkedForCause
    BY <1>a DEF CauseInv
  <2>3. ASSUME NEW r \in Relay, NEW n \in Node, Bad(registry'[n][r])
        PROVE  r \in struck'
    BY <1>a, <2>2, <2>3 DEF MarkedForCause
  <2>4. ASSUME NEW r \in Relay, NEW n \in Node, NEW a \in mail'[n],
               a.relay = r, ~ a.info.healthy
        PROVE  r \in struck'
    BY <1>a, <2>2, <2>4 DEF MarkedForCause
  <2> QED BY <2>2, <2>3, <2>4 DEF CauseInv, MarkedForCause
<1>b. failures = streak
  BY DEF CauseInv
<1>1. ASSUME NEW r \in Relay, NEW v \in Validators, RegisterRelay(r, v)
      PROVE  CauseInv'
  <2> DEFINE info == [role |-> "relay", healthy |-> TRUE, version |-> version[r]]
  <2>1. info.healthy
    OBVIOUS
  <2>2. /\ registry' = [registry EXCEPT ![v][r] = info]
        /\ mail' = [n \in Node |-> mail[n] \cup {[relay |-> r, info |-> info]}]
        /\ UNCHANGED <<failures, streak, struck>>
    BY <1>1 DEF RegisterRelay, Upsert, announce, prober
  <2> HIDE DEF info
  <2> QED BY <1>a, <1>b, <2>1, <2>2 DEF RegTypeOK
<1>2. ASSUME NEW n \in Node, NEW a \in mail[n], Deliver(n, a) PROVE CauseInv'
  <2>1. a.relay \in Relay
    BY DEF RegTypeOK, Announcement
  <2>2. /\ registry' = [registry EXCEPT ![n][a.relay] = a.info]
        /\ mail' = [mail EXCEPT ![n] = @ \ {a}]
        /\ UNCHANGED <<failures, streak, struck>>
    BY <1>2 DEF Deliver, Upsert, prober
  <2> QED BY <1>a, <1>b, <2>1, <2>2 DEF RegTypeOK
<1>3. ASSUME NEW n \in Node, NEW a \in mail[n], Lose(n, a) PROVE CauseInv'
  <2>1. /\ mail' = [mail EXCEPT ![n] = @ \ {a}]
        /\ UNCHANGED <<registry, failures, streak, struck>>
    BY <1>3 DEF Lose, prober
  <2> QED BY <1>a, <1>b, <2>1 DEF RegTypeOK
<1>4. ASSUME NEW v \in Validators, NEW r \in Relay, ProbeServed(v, r)
      PROVE  CauseInv'
  <2>1. registry[v][r].role = "relay"
    BY <1>4, ProbedIsRelay DEF ProbeServed, Phase
  <2>2. SetHealth(v, r, TRUE)
    BY <1>4 DEF ProbeServed
  <2>3. \A n \in Node, q \in Relay : Bad(registry'[n][q]) => Bad(registry[n][q])
    <3>1. ASSUME NEW h \in BOOLEAN, SetHealth(v, r, h)
          PROVE  /\ \A n \in Node, q \in Relay :
                      n # v \/ q # r => registry'[n][q] = registry[n][q]
                 /\ registry'[v][r].healthy = h
      BY <2>1, <3>1, SetHealthEffect
    <3>2. \A n \in Node, q \in Relay :
            n # v \/ q # r => registry'[n][q] = registry[n][q]
      BY <2>2, <3>1
    <3>3. ASSUME NEW h \in BOOLEAN, h = TRUE, SetHealth(v, r, h)
          PROVE  registry'[v][r].healthy
      BY <3>1, <3>3
    <3>4. registry'[v][r].healthy
      BY <2>2, <3>3
    <3> QED BY <3>2, <3>4
  <2>4. failures' = streak' /\ mail' = mail /\ struck' = struck
    BY <1>4, <1>b DEF ProbeServed
  <2> HIDE DEF Bad
  <2> QED BY <1>a, <2>3, <2>4
<1>5. ASSUME NEW v \in Validators, NEW r \in Relay, ProbeFailed(v, r)
      PROVE  CauseInv'
  <2>1. CountFailure(v, r) /\ registry[v][r].role = "relay"
    BY <1>5, EndingIsRelay DEF ProbeFailed, CountFailure
  <2>2. failures' = streak' /\ mail' = mail /\ struck \subseteq struck'
    BY <1>b, <2>1 DEF CountFailure
  <2>3. CASE UNCHANGED registry
    BY <1>a, <2>2, <2>3
  <2>4. CASE SetHealth(v, r, FALSE) /\ ~ failures[v][r] + 1 < MaxFailures
    <3>1. r \in struck'
      BY <1>b, <2>1, <2>4 DEF CountFailure, RegTypeOK
    <3>2. \A n \in Node, q \in Relay :
            Bad(registry'[n][q]) => Bad(registry[n][q]) \/ q = r
      <4>1. \A n \in Node, q \in Relay :
              n # v \/ q # r => registry'[n][q] = registry[n][q]
        <5>1. ASSUME NEW h \in BOOLEAN, SetHealth(v, r, h)
              PROVE  \A n \in Node, q \in Relay :
                       n # v \/ q # r => registry'[n][q] = registry[n][q]
          BY <2>1, <5>1, SetHealthEffect
        <5> QED BY <2>4, <5>1
      <4> QED BY <4>1
    <3> HIDE DEF Bad
    <3> QED BY <1>a, <2>2, <3>1, <3>2
  <2> QED BY <1>5, <2>3, <2>4 DEF ProbeFailed
<1>6. ASSUME NEW v \in Validators, NEW r \in Relay, Report(v, r)
      PROVE  CauseInv'
  <2>1. registry[v][r].role = "relay"
    BY <1>6, ProbedIsRelay DEF Report, Phase
  <2>2. /\ mail' = [n \in Node |->
                      mail[n] \cup {[relay |-> r, info |-> registry[v][r]]}]
        /\ UNCHANGED <<registry, failures, streak, struck>>
    BY <1>6 DEF Report, announce
  <2> QED BY <1>a, <1>b, <2>1, <2>2
<1>7. ASSUME NEW n \in Node, Restart(n) PROVE CauseInv'
  <2>1. failures' = streak' /\ struck' = struck
    BY <1>7, <1>b DEF Restart
  <2>2. \A m \in Node : mail'[m] \subseteq mail[m]
    BY <1>7 DEF Restart, RegTypeOK
  <2>3. ASSUME NEW m \in Node, NEW r \in Relay, Bad(registry'[m][r])
        PROVE  Bad(registry[m][r])
    <3>1. seedGateways(n)[r].role # "relay"
      BY RecordTypes DEF seedGateways
    <3> QED BY <1>7, <2>3, <3>1 DEF Restart, RegTypeOK
  <2> HIDE DEF Bad
  <2> QED BY <1>a, <2>1, <2>2, <2>3
<1>8. ASSUME UNCHANGED <<registry, mail, failures, streak, struck>>
      PROVE  CauseInv'
  BY <1>8 DEF CauseInv, MarkedForCause
<1>9. ASSUME NEW v \in Validators, NEW r \in Relay,
             \/ StartSweep(v) \/ SendProbe(v, r)
             \/ StreamIncomingSMS(v, r) \/ ProbeOvertaken(v, r)
      PROVE  CauseInv'
  BY <1>8, <1>9 DEF StartSweep, SendProbe, StreamIncomingSMS, ProbeOvertaken,
                    ProbeStep, records
<1>10. ASSUME NEW v \in Validators, StartSweep(v) PROVE CauseInv'
  BY <1>8, <1>10 DEF StartSweep, records
<1>11. ASSUME NEW r \in Relay, Switch(r) \/ \E new \in Version : Upgrade(r, new)
       PROVE  CauseInv'
  BY <1>8, <1>11 DEF Switch, Upgrade, records, prober
<1>12. CASE UNCHANGED regVars
  BY <1>8, <1>12 DEF regVars
<1> QED
  BY <1>1, <1>2, <1>3, <1>4, <1>5, <1>6, <1>7, <1>9, <1>10, <1>11, <1>12
  DEF RegNext, ProberStep

\* In every behaviour a relay is marked, and announced, as unhealthy only once
\* some validator has seen it fail MaxFailures times in a row.
THEOREM MarkedForCauseHolds == RegSpec => []MarkedForCause
<1>1. RegInit => CauseInv
  BY RegistryAssumption, RecordTypes
  DEF RegInit, CauseInv, MarkedForCause, seedGateways
<1>2. RegTypeOK /\ ProbedIsKnown /\ CauseInv /\ [RegNext]_regVars => CauseInv'
  BY CauseStep
<1>3. CauseInv => MarkedForCause
  BY DEF CauseInv
<1> QED BY <1>1, <1>2, <1>3, RegTypeCorrect, PTL DEF RegSpec

-----------------------------------------------------------------------------
(* Versions.                                                               *)

\* v is a validator the relay registers with and whose allowlist has w.
VettedBy(r, w) == \E v \in RegisterWith[r] : w \in Allowed[v]

\* Vetted, and the same of what is on its way.
VettedInv ==
  /\ Vetted
  /\ \A n \in Node : \A a \in mail[n] : VettedBy(a.relay, a.info.version)

LEMMA VettedStep ==
  ASSUME RegTypeOK, ProbedIsKnown, VettedInv, [RegNext]_regVars
  PROVE  VettedInv'
<1> USE RegistryAssumption
<1>a. ASSUME \A n \in Node, r \in Relay :
               registry'[n][r].role = "relay" =>
                 \/ /\ registry[n][r].role = "relay"
                    /\ registry'[n][r].version = registry[n][r].version
                 \/ VettedBy(r, registry'[n][r].version),
             \A n \in Node : \A a \in mail'[n] :
               a \in mail[n] \/ VettedBy(a.relay, a.info.version)
      PROVE  VettedInv'
  BY <1>a DEF VettedInv, Vetted, VettedBy
<1>1. ASSUME NEW r \in Relay, NEW v \in Validators, RegisterRelay(r, v)
      PROVE  VettedInv'
  <2> DEFINE info == [role |-> "relay", healthy |-> TRUE, version |-> version[r]]
  <2>1. VettedBy(r, info.version)
    BY <1>1 DEF RegisterRelay, VettedBy
  <2>2. /\ registry' = [registry EXCEPT ![v][r] = info]
        /\ mail' = [n \in Node |-> mail[n] \cup {[relay |-> r, info |-> info]}]
    BY <1>1 DEF RegisterRelay, Upsert, announce
  <2> HIDE DEF info
  <2> QED BY <1>a, <2>1, <2>2 DEF RegTypeOK
<1>2. ASSUME NEW n \in Node, NEW a \in mail[n], Deliver(n, a) PROVE VettedInv'
  <2>1. a.relay \in Relay /\ VettedBy(a.relay, a.info.version)
    BY DEF RegTypeOK, Announcement, VettedInv
  <2>2. /\ registry' = [registry EXCEPT ![n][a.relay] = a.info]
        /\ mail' = [mail EXCEPT ![n] = @ \ {a}]
    BY <1>2 DEF Deliver, Upsert
  <2> QED BY <1>a, <2>1, <2>2 DEF RegTypeOK
<1>3. ASSUME NEW n \in Node, NEW a \in mail[n], Lose(n, a) PROVE VettedInv'
  BY <1>a, <1>3 DEF Lose, RegTypeOK
<1>4. ASSUME NEW v \in Validators, NEW r \in Relay, NEW healthy \in BOOLEAN,
             SetHealth(v, r, healthy), registry[v][r].role = "relay", mail' = mail
      PROVE  VettedInv'
  BY <1>a, <1>4, SetHealthEffect
<1>5. ASSUME NEW v \in Validators, NEW r \in Relay, ProbeServed(v, r)
      PROVE  VettedInv'
  BY <1>4, <1>5, ProbedIsRelay DEF ProbeServed, Phase
<1>6. ASSUME NEW v \in Validators, NEW r \in Relay, ProbeFailed(v, r)
      PROVE  VettedInv'
  <2>1. registry[v][r].role = "relay" /\ mail' = mail
    BY <1>6, EndingIsRelay DEF ProbeFailed, CountFailure
  <2>2. CASE UNCHANGED registry
    BY <1>a, <2>1, <2>2
  <2>3. CASE SetHealth(v, r, FALSE)
    BY <1>4, <2>1, <2>3
  <2> QED BY <1>6, <2>2, <2>3 DEF ProbeFailed
<1>7. ASSUME NEW v \in Validators, NEW r \in Relay, Report(v, r)
      PROVE  VettedInv'
  <2>1. v \in Node /\ registry[v][r].role = "relay"
    BY <1>7, ProbedIsRelay DEF Report, Phase
  <2>2. VettedBy(r, registry[v][r].version)
    BY <2>1 DEF VettedInv, Vetted, VettedBy
  <2> QED BY <1>a, <1>7, <2>2 DEF Report, announce
<1>8. ASSUME NEW n \in Node, Restart(n) PROVE VettedInv'
  <2>1. \A r \in Relay : seedGateways(n)[r].role # "relay"
    BY RecordTypes DEF seedGateways
  <2> QED BY <1>a, <1>8, <2>1 DEF Restart, RegTypeOK
<1>9. ASSUME UNCHANGED records PROVE VettedInv'
  BY <1>a, <1>9 DEF records
<1>10. ASSUME NEW v \in Validators, NEW r \in Relay,
              \/ StartSweep(v) \/ SendProbe(v, r)
              \/ StreamIncomingSMS(v, r) \/ ProbeOvertaken(v, r)
       PROVE  VettedInv'
  BY <1>9, <1>10 DEF StartSweep, SendProbe, StreamIncomingSMS, ProbeOvertaken,
                     ProbeStep
<1>11. ASSUME NEW v \in Validators, StartSweep(v) PROVE VettedInv'
  BY <1>9, <1>11 DEF StartSweep
<1>12. ASSUME NEW r \in Relay, Switch(r) \/ \E new \in Version : Upgrade(r, new)
       PROVE  VettedInv'
  BY <1>9, <1>12 DEF Switch, Upgrade
<1>13. CASE UNCHANGED regVars
  BY <1>9, <1>13 DEF regVars, records
<1> QED
  BY <1>1, <1>2, <1>3, <1>5, <1>6, <1>7, <1>8, <1>10, <1>11, <1>12, <1>13
  DEF RegNext, ProberStep

\* In every behaviour the version a node has on record for a relay was checked
\* by a validator that the relay registered with, never only handed on.
THEOREM VettedHolds == RegSpec => []Vetted
<1>1. RegInit => VettedInv
  BY RegistryAssumption, RecordTypes DEF RegInit, VettedInv, Vetted, seedGateways
<1>2. RegTypeOK /\ ProbedIsKnown /\ VettedInv /\ [RegNext]_regVars => VettedInv'
  BY VettedStep
<1>3. VettedInv => Vetted
  BY DEF VettedInv
<1> QED BY <1>1, <1>2, <1>3, RegTypeCorrect, PTL DEF RegSpec
=============================================================================
