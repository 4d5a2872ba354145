------------------------------ MODULE Registry ------------------------------
(***************************************************************************)
(* Which relays a node lists for its clients: grpcserver.Registry of every *)
(* node, fed by RegisterRelay, by the health prober of every validator and *)
(* by the announcements the validators gossip (cmd/node/relay.go).         *)
(*                                                                         *)
(* An announcement carries a whole record, its receiver overwrites what it *)
(* has (runAnnounceListener never looks at the timestamp), and it comes    *)
(* back to its sender: a late one undoes a newer one, everywhere.          *)
(*                                                                         *)
(* A record is known by its address, which is the relay's identity here.   *)
(* The validators' own records, always healthy and announced by nobody     *)
(* else, are left out.                                                     *)
(***************************************************************************)
EXTENDS Naturals, FiniteSets

CONSTANTS
  Node,          \* every node that keeps a registry
  Validators,    \* those that accept registrations, probe and announce
  Relay,         \* the relays, by address
  RegisterWith,  \* RegisterWith[r]: the validators r registers with
  Seeded,        \* Seeded[n]: the relays among the GATEWAY_PEERS of n
  Version,       \* the versions a relay may run
  NoVersion,     \* the version of a record that has none
  Allowed,       \* Allowed[v]: the versions on the allowlist of v
  MaxFailures,   \* RELAY_MAX_CONSECUTIVE_FAILURES
  MaxRestarts,   \* bound on the restarts of nodes
  MaxSlips       \* bound on the updates between SetHealth and Get

ASSUME RegistryAssumption ==
  /\ Validators \subseteq Node
  /\ RegisterWith \in [Relay -> SUBSET Validators]
  /\ NoVersion \notin Version
  /\ Seeded \in [Node -> SUBSET Relay]
  /\ Allowed \in [Validators -> SUBSET Version]
  /\ MaxFailures \in Nat \ {0}
  /\ MaxRestarts \in Nat
  /\ MaxSlips \in Nat

VARIABLES
  registry,  \* registry[n][r]: Registry.gateways
  mail,      \* mail[n]: announcements on their way to n
  failures,  \* failures[v][r]: the prober's count, up to MaxFailures
  sweep,     \* sweep[v]: what AllRelays returned and is not yet probed
  probe,     \* probe[v]: the relay v is probing and how far it has got
  up,        \* up[r]: the process of r runs
  version,   \* version[r]: what r runs
  restarts,  \* nodes restarted so far
  slips,     \* updates that came between SetHealth and Get so far
  streak,    \* history, streak[v][r]: the probes of r by v that failed in a row
  struck     \* history: the relays that have failed some validator MaxFailures
             \* times in a row

regVars == <<registry, mail, failures, sweep, probe, up, version, restarts,
             slips, streak, struck>>
records == <<registry, mail>>
prober == <<failures, sweep, probe, streak, struck>>
relays == <<up, version>>
bounds == <<restarts, slips>>

\* A GatewayInfo with the role a relay's record can have: none at all, the
\* bare address of a configured peer, or what a registration has made of it.
RelayInfo == [role : {"relay"}, healthy : BOOLEAN, version : Version]
Unknown == [role |-> "none", healthy |-> FALSE, version |-> NoVersion]
PeerInfo == [role |-> "peer", healthy |-> FALSE, version |-> NoVersion]
Announcement == [relay : Relay, info : RelayInfo]

Phase == {"sent", "open", "missed", "report"}
Idle == [relay |-> "none", phase |-> "idle"]
Probe == [relay : Relay, phase : Phase] \cup {Idle}

seedGateways(n) ==
  [r \in Relay |-> IF r \in Seeded[n] THEN PeerInfo ELSE Unknown]

\* Mutant: every known gateway is probed, whatever its role.
AllGateways(n) == {r \in Relay : registry[n][r].role # "none"}

AllRelays(n) == {r \in Relay : registry[n][r].role = "relay"}

\* What GetNodesDiscovery tells a client to be a healthy relay.
Listed(n, r) == registry[n][r].role = "relay" /\ registry[n][r].healthy

RegInit ==
  /\ registry = [n \in Node |-> seedGateways(n)]
  /\ mail = [n \in Node |-> {}]
  /\ failures = [v \in Validators |-> [r \in Relay |-> 0]]
  /\ sweep = [v \in Validators |-> {}]
  /\ probe = [v \in Validators |-> Idle]
  /\ up \in [Relay -> BOOLEAN]
  /\ version \in [Relay -> Version]
  /\ restarts = 0 /\ slips = 0
  /\ streak = failures
  /\ struck = {}

-----------------------------------------------------------------------------
(* Registration and announcements.                                         *)

\* n is between SetHealth and Get for r.
Reporting(n, r) ==
  n \in Validators /\ probe[n] = [relay |-> r, phase |-> "report"]

\* An update of r at n by somebody else than the prober, which may come
\* between its SetHealth and its Get.
Upsert(n, r, info) ==
  /\ registry' = [registry EXCEPT ![n][r] = info]
  /\ IF Reporting(n, r) THEN slips < MaxSlips /\ slips' = slips + 1
                        ELSE UNCHANGED slips

\* gossip carries it to every node, the one that sends it included.
announce(r, info) ==
  mail' = [n \in Node |-> mail[n] \cup {[relay |-> r, info |-> info]}]

\* Mutant: nobody looks at the version.
RegisterAny(r, v) ==
  /\ v \in RegisterWith[r] /\ up[r]
  /\ LET info == [role |-> "relay", healthy |-> TRUE, version |-> version[r]]
     IN Upsert(v, r, info) /\ announce(r, info)
  /\ UNCHANGED <<prober, relays, restarts>>

\* Mutant: the announcement is what the registry held before.
RegisterStale(r, v) ==
  /\ v \in RegisterWith[r] /\ up[r] /\ version[r] \in Allowed[v]
  /\ Upsert(v, r, [role |-> "relay", healthy |-> TRUE, version |-> version[r]])
  /\ announce(r, registry[v][r])
  /\ UNCHANGED <<prober, relays, restarts>>

\* runRelayRegistrar calls RegisterRelay: optimistically healthy, whatever the
\* probes have said so far; the prober's count is not touched.
RegisterRelay(r, v) ==
  /\ v \in RegisterWith[r] /\ up[r] /\ version[r] \in Allowed[v]
  /\ LET info == [role |-> "relay", healthy |-> TRUE, version |-> version[r]]
     IN Upsert(v, r, info) /\ announce(r, info)
  /\ UNCHANGED <<prober, relays, restarts>>

\* runAnnounceListener merges what a validator has signed.
Deliver(n, a) ==
  /\ a \in mail[n]
  /\ mail' = [mail EXCEPT ![n] = @ \ {a}]
  /\ Upsert(n, a.relay, a.info)
  /\ UNCHANGED <<prober, relays, restarts>>

Lose(n, a) ==
  /\ a \in mail[n]
  /\ mail' = [mail EXCEPT ![n] = @ \ {a}]
  /\ UNCHANGED <<registry, prober, relays, bounds>>

-----------------------------------------------------------------------------
(* The prober of validator v.                                              *)

StartSweep(v) ==
  /\ probe[v] = Idle /\ sweep[v] = {}
  /\ sweep' = [sweep EXCEPT ![v] = AllRelays(v)]
  /\ UNCHANGED <<records, failures, probe, streak, struck, relays, bounds>>

ProbeStep(v, r, from, to) ==
  /\ probe[v] = [relay |-> r, phase |-> from]
  /\ probe' = [probe EXCEPT ![v].phase = to]
  /\ UNCHANGED <<records, failures, sweep, streak, struck, relays, bounds>>

\* SendSMS through the relay, which accepts it.
SendProbe(v, r) ==
  /\ probe[v] = Idle /\ r \in sweep[v] /\ up[r]
  /\ sweep' = [sweep EXCEPT ![v] = @ \ {r}]
  /\ probe' = [probe EXCEPT ![v] = [relay |-> r, phase |-> "sent"]]
  /\ UNCHANGED <<records, failures, streak, struck, relays, bounds>>

StreamIncomingSMS(v, r) == up[r] /\ ProbeStep(v, r, "sent", "open")

\* The relay applies the block with the probe before the stream is open, and
\* no stream carries it any more.
ProbeOvertaken(v, r) == up[r] /\ ProbeStep(v, r, "sent", "missed")

\* The outcome of a probe, up to SetHealth.
SetHealth(v, r, healthy) ==
  /\ registry' = [registry EXCEPT ![v][r].healthy = healthy]
  /\ probe' = [probe EXCEPT ![v] = [relay |-> r, phase |-> "report"]]

\* Mutant: a success does not clear the count.
ProbeServedForgetful(v, r) ==
  /\ up[r] /\ probe[v] = [relay |-> r, phase |-> "open"]
  /\ SetHealth(v, r, TRUE)
  /\ streak' = [streak EXCEPT ![v][r] = 0]
  /\ UNCHANGED <<mail, failures, sweep, struck, relays, bounds>>

\* Mutant: only a relay that recovers is reported.
ProbeServedQuietly(v, r) ==
  /\ up[r] /\ probe[v] = [relay |-> r, phase |-> "open"]
  /\ failures' = [failures EXCEPT ![v][r] = 0]
  /\ streak' = [streak EXCEPT ![v][r] = 0]
  /\ IF failures[v][r] > 0
     THEN SetHealth(v, r, TRUE)
     ELSE UNCHANGED registry /\ probe' = [probe EXCEPT ![v] = Idle]
  /\ UNCHANGED <<mail, sweep, struck, relays, bounds>>

\* The relay applies the block and the open stream carries the probe back.
ProbeServed(v, r) ==
  /\ up[r] /\ probe[v] = [relay |-> r, phase |-> "open"]
  /\ failures' = [failures EXCEPT ![v][r] = 0]
  /\ streak' = [streak EXCEPT ![v][r] = 0]
  /\ SetHealth(v, r, TRUE)
  /\ UNCHANGED <<mail, sweep, struck, relays, bounds>>

OneMore(count) == IF count < MaxFailures THEN count + 1 ELSE count

\* The relay cannot be dialled, or it refuses, breaks off or lets the probe
\* time out, whatever it has done with it.
Probing(v, r) ==
  \/ probe[v] = Idle /\ r \in sweep[v]
  \/ \E p \in {"sent", "open", "missed"} : probe[v] = [relay |-> r, phase |-> p]

CountFailure(v, r) ==
  /\ Probing(v, r)
  /\ sweep' = [sweep EXCEPT ![v] = @ \ {r}]
  /\ failures' = [failures EXCEPT ![v][r] = OneMore(@)]
  /\ streak' = [streak EXCEPT ![v][r] = OneMore(@)]
  /\ struck' = IF streak[v][r] + 1 >= MaxFailures THEN struck \cup {r} ELSE struck
  /\ UNCHANGED <<mail, relays, bounds>>


\* Below the threshold the last known status stands; from the threshold on
\* every failure is reported.
ProbeFailed(v, r) ==
  /\ CountFailure(v, r)
  /\ IF failures[v][r] + 1 < MaxFailures
     THEN UNCHANGED registry /\ probe' = [probe EXCEPT ![v] = Idle]
     ELSE SetHealth(v, r, FALSE)

\* Get, and what it returns is announced: not always what SetHealth has set.
Report(v, r) ==
  /\ probe[v] = [relay |-> r, phase |-> "report"]
  /\ probe' = [probe EXCEPT ![v] = Idle]
  /\ announce(r, registry[v][r])
  /\ UNCHANGED <<registry, failures, sweep, streak, struck, relays, bounds>>

-----------------------------------------------------------------------------
(* Processes.                                                              *)

\* A relay starts or dies.
Switch(r) ==
  /\ up' = [up EXCEPT ![r] = ~ @]
  /\ UNCHANGED <<records, prober, version, bounds>>

\* A relay that is down is started with another binary.
Upgrade(r, new) ==
  /\ ~ up[r] /\ new # version[r]
  /\ version' = [version EXCEPT ![r] = new]
  /\ UNCHANGED <<records, prober, up, bounds>>

\* A node restarts with nothing but its configuration.
Restart(n) ==
  /\ restarts < MaxRestarts
  /\ restarts' = restarts + 1
  /\ registry' = [registry EXCEPT ![n] = seedGateways(n)]
  /\ mail' = [mail EXCEPT ![n] = {}]
  /\ IF n \in Validators
     THEN /\ failures' = [failures EXCEPT ![n] = [r \in Relay |-> 0]]
          /\ streak' = [streak EXCEPT ![n] = [r \in Relay |-> 0]]
          /\ sweep' = [sweep EXCEPT ![n] = {}]
          /\ probe' = [probe EXCEPT ![n] = Idle]
     ELSE UNCHANGED <<failures, streak, sweep, probe>>
  /\ UNCHANGED <<struck, relays, slips>>

ProberStep(v) ==
  \/ StartSweep(v)
  \/ \E r \in Relay :
       \/ SendProbe(v, r) \/ StreamIncomingSMS(v, r) \/ ProbeOvertaken(v, r)
       \/ ProbeServed(v, r) \/ ProbeFailed(v, r) \/ Report(v, r)

RegNext ==
  \/ \E v \in Validators : ProberStep(v) \/ \E r \in Relay : RegisterRelay(r, v)
  \/ \E n \in Node :
       \/ \E a \in mail[n] : Deliver(n, a) \/ Lose(n, a)
       \/ Restart(n)
  \/ \E r \in Relay : Switch(r) \/ \E new \in Version : Upgrade(r, new)

RegSpec == RegInit /\ [][RegNext]_regVars

\* The loop of the prober and the ticker of the registrar go on; gossip does
\* not lose for ever what is announced again and again.
FairRegSpec ==
  /\ RegSpec
  /\ \A v \in Validators :
       /\ WF_regVars(ProberStep(v))
       /\ \A r \in Relay : WF_regVars(RegisterRelay(r, v))
  /\ \A n \in Node, r \in Relay, healthy \in BOOLEAN :
       SF_regVars(\E a \in mail[n] : /\ a.relay = r /\ a.info.healthy = healthy
                                    /\ Deliver(n, a))

-----------------------------------------------------------------------------
(* Properties.                                                             *)

\* Every variable has its type; only records of registered relays are ever
\* announced.
RegTypeOK ==
  /\ registry \in [Node -> [Relay -> RelayInfo \cup {Unknown, PeerInfo}]]
  /\ mail \in [Node -> SUBSET Announcement]
  /\ failures \in [Validators -> [Relay -> 0 .. MaxFailures]]
  /\ streak \in [Validators -> [Relay -> 0 .. MaxFailures]]
  /\ sweep \in [Validators -> SUBSET Relay]
  /\ probe \in [Validators -> Probe]
  /\ up \in [Relay -> BOOLEAN]
  /\ version \in [Relay -> Version]
  /\ restarts \in 0 .. MaxRestarts
  /\ slips \in 0 .. MaxSlips
  /\ struck \in SUBSET Relay

\* No node holds, and no announcement carries, a registered relay as unhealthy
\* unless the relay has failed one and the same validator MaxFailures times in
\* a row: no mixture of two validators' counts, of counts from before and
\* after a restart, or of late announcements amounts to that (relay.go:384-393).
MarkedForCause ==
  \A r \in Relay :
    (\/ \E n \in Node : registry[n][r].role = "relay" /\ ~ registry[n][r].healthy
     \/ \E n \in Node : \E a \in mail[n] : a.relay = r /\ ~ a.info.healthy)
    => r \in struck

\* The version under which any node lists a relay was on the allowlist of a
\* validator that the relay has registered with, however many nodes have handed
\* the record on, and whatever the relay runs by now (server.go:200-205).
Vetted ==
  \A n \in Node, r \in Relay :
    registry[n][r].role = "relay" =>
      \E v \in RegisterWith[r] : registry[n][r].version \in Allowed[v]

\* The relay a sweep has yet to probe, or is probing, is still a registered
\* relay in the same registry, although its record may have been replaced in
\* the meantime: SetHealth is never a no-op, and Get finds what it announces
\* (registry.go:49-50).
ProbedIsKnown ==
  \A v \in Validators :
    /\ \A r \in sweep[v] : registry[v][r].role = "relay"
    /\ probe[v] # Idle => registry[v][probe[v].relay].role = "relay"


\* A relay that some validator keeps a record of and whose probes succeed from
\* some time on is in the end listed as healthy by every node, whatever bad
\* news is still on its way: its own registrations are not needed for that,
\* and are refused if it runs another version by now (relay.go:394-405).
SoundIsListed ==
  \A r \in Relay :
    <>[](/\ up[r]
         /\ \E v \in Validators : registry[v][r].role = "relay"
         /\ \A v \in Validators : failures[v][r] = 0)
    => <>[](\A n \in Node : Listed(n, r))
=============================================================================
