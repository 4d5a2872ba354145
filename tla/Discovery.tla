----------------------------- MODULE Discovery ------------------------------
(***************************************************************************)
(* The connection of a client to its gateways: client.Discovery, shared by *)
(* all the goroutines that call the client. A Listen, one SendMessage for  *)
(* every message that is typed and a FetchHistory each take the current    *)
(* connection for every attempt, and each of them fails over on its own.   *)
(*                                                                         *)
(* d.mu protects single reads and writes of `current`; a Failover is many  *)
(* of them, with dials in between. Backoff and dialTimeout are left out: a *)
(* dial succeeds when the gateway is up and fails when it is down. A       *)
(* ClientConn outlives its gateway: it works again when that is back.      *)
(***************************************************************************)
EXTENDS Naturals, FiniteSets

CONSTANTS
  Gateway,      \* the addresses of gateways
  Bootstrap,    \* those the client was given
  Answers,      \* what GetNodesDiscovery may answer: sets of addresses
  Listener,     \* goroutines that call Listen
  Sender,       \* goroutines that call SendMessage or FetchHistory
  Connection,   \* grpc.ClientConns: more than can be referred to at a time
  None,         \* no address, no connection
  MaxOutages,   \* bound: how often a gateway goes down
  MaxCalls      \* bound: how many calls are made, pages and Close included

Caller == Listener \cup Sender

ASSUME DiscoveryAssumption ==
  /\ Bootstrap \subseteq Gateway /\ Answers \subseteq SUBSET Gateway
  /\ Listener \cap Sender = {}
  /\ IsFiniteSet(Caller) /\ IsFiniteSet(Connection)
  /\ Cardinality(Connection) > Cardinality(Caller) + 1
  /\ None \notin Gateway \cup Connection
  /\ MaxOutages \in Nat /\ MaxCalls \in Nat

VARIABLES
  reachable,    \* the gateways that are up
  outages,      \* how often one went down
  calls,        \* how many calls were made
  peer,         \* peer[k]: where connection k leads, None when it is closed
  cache,        \* Discovery.cache
  current,      \* Discovery.current
  currentAddr,  \* Discovery.currentAddr
  pc,           \* pc[c]: where in its call c is
  expired,      \* expired[c]: the context of its call is done
  retried,      \* retried[c]: it has failed over once
  untried,      \* untried[c]: the candidates left of this pass
  bad,          \* bad[c]: the address it fails over from
  held,         \* held[c]: the connection of its attempt
  panicked,     \* a call was made on a nil connection, and the process is gone
  leaked,       \* history: an open connection was dropped and never closed
  raced         \* history: somebody dialled while somebody else did, or was
                \* about to take the connection

worldVars == <<reachable, outages>>
connVars == <<peer, current, currentAddr, leaked>>
callVars == <<pc, expired, retried, untried, bad, held>>
discVars ==
  <<worldVars, calls, connVars, cache, callVars, panicked, raced>>

Locations == {"idle", "calling", "dialing", "refresh", "inCall", "failed"}

DiscInit ==
  /\ reachable \in SUBSET Gateway /\ outages = 0 /\ calls = 0
  /\ peer = [k \in Connection |-> None]
  /\ cache = {} /\ current = None /\ currentAddr = None
  /\ pc = [c \in Caller |-> "idle"]
  /\ expired = [c \in Caller |-> FALSE]
  /\ retried = [c \in Caller |-> FALSE]
  /\ untried = [c \in Caller |-> {}]
  /\ bad = [c \in Caller |-> None]
  /\ held = [c \in Caller |-> None]
  /\ panicked = FALSE /\ leaked = FALSE /\ raced = FALSE

Go(c, l) == pc' = [pc EXCEPT ![c] = l]

\* Somebody can still close connection k, or call on it.
Referred(k) == k = current \/ \E c \in Caller : held[c] = k

\* A call on connection k is answered.
Works(k) == k # None /\ peer[k] \in reachable

-----------------------------------------------------------------------------
(* Discovery.                                                              *)

\* Mutant: once there is a cache, the seeds are not tried any more.
candidatesOfCache(exclude) ==
  (IF cache = {} THEN Bootstrap ELSE cache) \ {exclude}

\* Mutant: an empty address is not skipped.
candidatesWithEmpty(exclude) == (cache \cup Bootstrap \cup {None}) \ {exclude}

\* The cache and the bootstrap list, in any order, but for one address.
candidates(exclude) == (cache \cup Bootstrap) \ {exclude}

\* The loop of Connect and Failover begins.
Dial(c, exclude) ==
  /\ Go(c, "dialing")
  /\ bad' = [bad EXCEPT ![c] = exclude]
  /\ untried' = [untried EXCEPT ![c] = candidates(exclude)]

\* A candidate answers and becomes the connection, whatever that is by now.
DialSucceeds(c) ==
  /\ pc[c] = "dialing" /\ ~ expired[c]
  /\ \E g \in untried[c] \cap reachable :
       LET k == CHOOSE x \in Connection : ~ Referred(x)
       IN /\ peer' = [x \in Connection |->
                         IF x = k THEN g ELSE IF Referred(x) THEN peer[x] ELSE None]
          /\ current' = k /\ currentAddr' = g
  /\ leaked' = (leaked \/ (current # None /\ peer[current] # None))
  /\ Go(c, "refresh")
  /\ untried' = [untried EXCEPT ![c] = {}]
  /\ bad' = [bad EXCEPT ![c] = None]
  /\ UNCHANGED <<worldVars, calls, cache, expired, retried, held, panicked>>

\* A candidate does not, or the context is done.
DialFails(c) ==
  /\ pc[c] = "dialing"
  /\ \E g \in untried[c] :
       /\ g \notin reachable \/ expired[c]
       /\ untried' = [untried EXCEPT ![c] = @ \ {g}]
  /\ UNCHANGED <<worldVars, calls, connVars, cache, pc, expired, retried, bad, held,
                 panicked>>

\* The call returns, with or without an error.
Return(c) ==
  /\ Go(c, "idle")
  /\ expired' = [expired EXCEPT ![c] = FALSE]
  /\ retried' = [retried EXCEPT ![c] = FALSE]
  /\ held' = [held EXCEPT ![c] = None]
  /\ bad' = [bad EXCEPT ![c] = None]
  /\ UNCHANGED untried

\* Mutant: the wait between two passes does not end with the context.
NextPassRegardless(c) ==
  /\ pc[c] = "dialing" /\ untried[c] = {}
  /\ Dial(c, bad[c]) /\ UNCHANGED <<expired, retried, held>>
  /\ UNCHANGED <<worldVars, calls, connVars, cache, panicked>>

\* All have been tried: with an error, or from the start with what the cache
\* has become.
NextPass(c) ==
  /\ pc[c] = "dialing" /\ untried[c] = {}
  /\ IF expired[c] THEN Return(c)
     ELSE Dial(c, bad[c]) /\ UNCHANGED <<expired, retried, held>>
  /\ UNCHANGED <<worldVars, calls, connVars, cache, panicked>>

\* refreshCache: the gateway that is current now answers; or not.
refreshCache(c) ==
  /\ pc[c] = "refresh" /\ Go(c, "calling")
  /\ \/ Works(current) /\ cache' \in Answers
     \/ UNCHANGED cache
  /\ UNCHANGED <<worldVars, calls, connVars, expired, retried, untried, bad, held,
                 panicked>>

\* Mutant: the connection is let go of without being closed.
FailoverWithoutClose(c) ==
  /\ pc[c] = "failed"
  /\ current' = None
  /\ leaked' = (leaked \/ (current # None /\ peer[current] # None))
  /\ Dial(c, currentAddr)
  /\ held' = [held EXCEPT ![c] = None]
  /\ UNCHANGED <<worldVars, calls, peer, currentAddr, cache, expired, retried, panicked>>

\* Failover lets go of the connection that is current by now, and of its
\* address, whatever the connection was that failed.
Failover(c) ==
  /\ pc[c] = "failed"
  /\ peer' = [k \in Connection |-> IF k = current THEN None ELSE peer[k]]
  /\ current' = None
  /\ Dial(c, currentAddr)
  /\ held' = [held EXCEPT ![c] = None]
  /\ UNCHANGED <<worldVars, calls, currentAddr, leaked, cache, expired, retried,
                 panicked>>

\* Discovery.Close leaves the closed connection where it is.
Close ==
  /\ calls < MaxCalls /\ calls' = calls + 1
  /\ current # None /\ peer[current] # None
  /\ peer' = [peer EXCEPT ![current] = None]
  /\ UNCHANGED <<worldVars, current, currentAddr, leaked, cache, callVars,
                 panicked>>

-----------------------------------------------------------------------------
(* Client.                                                                 *)

\* EnsureConnected, with which every call begins.
Call(c) ==
  /\ pc[c] = "idle" /\ calls < MaxCalls /\ calls' = calls + 1
  /\ IF current # None THEN Go(c, "calling") /\ UNCHANGED <<untried, bad>>
     ELSE Dial(c, None)
  /\ UNCHANGED <<worldVars, connVars, cache, expired, retried, held, panicked>>

\* gw: an attempt takes the connection that is current. Listen looks at its
\* context first.
Attempt(c) ==
  /\ pc[c] = "calling"
  /\ \/ /\ c \in Listener /\ expired[c]
        /\ Return(c) /\ UNCHANGED panicked
     \/ /\ ~ (c \in Listener /\ expired[c])
        /\ current = None /\ panicked' = TRUE
        /\ UNCHANGED callVars
     \/ /\ ~ (c \in Listener /\ expired[c])
        /\ current # None /\ Go(c, "inCall")
        /\ held' = [held EXCEPT ![c] = current]
        /\ UNCHANGED <<expired, retried, untried, bad, panicked>>
  /\ UNCHANGED <<worldVars, calls, connVars, cache>>

\* The stream of a Listen breaks, with whatever error.
StreamBreaks(c) ==
  /\ c \in Listener /\ pc[c] = "inCall"
  /\ \/ expired[c] /\ Return(c)
     \/ /\ ~ expired[c] /\ ~ Works(held[c])
        /\ Go(c, "failed")
        /\ UNCHANGED <<expired, retried, untried, bad, held>>
  /\ UNCHANGED <<worldVars, calls, connVars, cache, panicked>>

\* A unary call is answered, or fails: "Canceled" on a connection that was
\* closed or when its context is cancelled, and that is no transport error.
CallReturns(c) ==
  /\ c \in Sender /\ pc[c] = "inCall"
  /\ Works(held[c]) \/ peer[held[c]] = None \/ expired[c] \/ retried[c]
  /\ Return(c)
  /\ UNCHANGED <<worldVars, calls, connVars, cache, panicked>>

\* A page of FetchHistory is answered, and the next one is asked for.
MoreBlocks(c) ==
  /\ c \in Sender /\ pc[c] = "inCall" /\ ~ expired[c]
  /\ Works(held[c]) /\ Go(c, "calling")
  /\ calls < MaxCalls /\ calls' = calls + 1
  /\ retried' = [retried EXCEPT ![c] = FALSE]
  /\ held' = [held EXCEPT ![c] = None]
  /\ UNCHANGED <<worldVars, connVars, cache, expired, untried, bad, panicked>>

\* A call fails for the first time with a transport error: the gateway is down, its
\* stream was reset as the connection closed, or the deadline is past.
CallBreaks(c) ==
  /\ c \in Sender /\ pc[c] = "inCall"
  /\ ~ Works(held[c]) \/ expired[c]
  /\ ~ retried[c] /\ retried' = [retried EXCEPT ![c] = TRUE]
  /\ Go(c, "failed")
  /\ UNCHANGED <<worldVars, calls, connVars, cache, expired, untried, bad, held, panicked>>

CallerStep(c) ==
  \/ DialSucceeds(c) \/ DialFails(c) \/ NextPass(c) \/ refreshCache(c) \/ Failover(c)
  \/ Attempt(c) \/ StreamBreaks(c) \/ CallReturns(c) \/ MoreBlocks(c) \/ CallBreaks(c)

-----------------------------------------------------------------------------
(* What happens to them.                                                   *)

BesidesWorld == UNCHANGED <<calls, connVars, cache, callVars, panicked>>

Goes == \E g \in reachable :
  /\ outages < MaxOutages /\ outages' = outages + 1
  /\ reachable' = reachable \ {g}
  /\ BesidesWorld

Comes == \E g \in Gateway \ reachable :
  /\ reachable' = reachable \cup {g}
  /\ UNCHANGED outages /\ BesidesWorld

\* The context of a call is cancelled, or its deadline passes.
Expire(c) ==
  /\ pc[c] # "idle" /\ ~ expired[c]
  /\ expired' = [expired EXCEPT ![c] = TRUE]
  /\ UNCHANGED <<worldVars, calls, connVars, cache, pc, retried, untried, bad, held,
                 panicked>>

Racing ==
  \E c, d \in Caller :
    c # d /\ pc[c] = "dialing" /\ pc[d] \in {"dialing", "refresh", "calling"}

DiscNext ==
  /\ ~ panicked
  /\ \/ \E c \in Caller : Call(c) \/ CallerStep(c) \/ Expire(c)
     \/ Close \/ Goes \/ Comes
  /\ raced' = (raced \/ Racing')

\* Every goroutine goes on, whatever the gateways do.
DiscSpec ==
  /\ DiscInit /\ [][DiscNext]_discVars
  /\ \A c \in Caller : WF_discVars(DiscNext /\ CallerStep(c))

-----------------------------------------------------------------------------
(* Properties.                                                             *)

\* Every variable has its type.
DiscTypeOK ==
  /\ reachable \subseteq Gateway /\ cache \subseteq Gateway
  /\ outages \in 0 .. MaxOutages /\ calls \in 0 .. MaxCalls
  /\ peer \in [Connection -> Gateway \cup {None}]
  /\ current \in Connection \cup {None} /\ currentAddr \in Gateway \cup {None}
  /\ pc \in [Caller -> Locations]
  /\ expired \in [Caller -> BOOLEAN] /\ retried \in [Caller -> BOOLEAN]
  /\ untried \in [Caller -> SUBSET Gateway]
  /\ bad \in [Caller -> Gateway \cup {None}]
  /\ held \in [Caller -> Connection \cup {None}]
  /\ {panicked, leaked, raced} \subseteq BOOLEAN

\* discovery.go:39-41: safe for concurrent use. A connection is left open for
\* ever, or missing when a call takes it, only if two goroutines dialled at a
\* time, or one was between EnsureConnected and its call while another failed
\* over.
OneDialIsSafe == (leaked \/ panicked) => raced

\* discovery.go:89-95, 179-181: a Listen that is not cancelled gets a stream
\* that lasts, when two of the gateways it started with stay up; one of them may
\* be the one a Failover avoids for good. It does so whatever the other calls
\* do to its connection.
ListenRecovers ==
  \A l \in Listener :
    (<>[](Cardinality(reachable \cap Bootstrap) > 1))
      => <>[](panicked \/ pc[l] = "idle" \/ (pc[l] = "inCall" /\ Works(held[l])))

\* A call whose context is done comes back, whatever it is in the middle of and
\* whatever the gateways do (discovery.go:121-125, 212-216).
ExpiredReturns == \A c \in Caller : expired[c] ~> (panicked \/ ~ expired[c])
=============================================================================
