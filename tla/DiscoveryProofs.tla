-------------------------- MODULE DiscoveryProofs ---------------------------
(***************************************************************************)
(* Theorems about Discovery, for any number of goroutines, gateways, calls *)
(* and outages.                                                            *)
(***************************************************************************)
EXTENDS Discovery, FiniteSetTheorems, TLAPS

\* There is always a connection to dial with: every caller holds one at most,
\* and one more is current.
LEMMA FreshConnection ==
  ASSUME DiscTypeOK
  PROVE  \E k \in Connection : ~ Referred(k)
<1> DEFINE R == {held[c] : c \in Caller}
<1> SUFFICES ASSUME \A k \in Connection : Referred(k)
             PROVE  FALSE
  OBVIOUS
<1>1. held \in Surjection(Caller, R)
  BY DEF DiscTypeOK, Surjection
<1>2. IsFiniteSet(R) /\ Cardinality(R) <= Cardinality(Caller)
  BY <1>1, FS_Surjection, DiscoveryAssumption
<1> HIDE DEF R
<1>3. /\ IsFiniteSet(R \cup {current})
      /\ Cardinality(R \cup {current})
           = IF current \in R THEN Cardinality(R) ELSE Cardinality(R) + 1
  BY <1>2, FS_AddElement
<1>4. Connection \subseteq R \cup {current}
  BY DEF Referred, R
<1>5. Cardinality(Connection) <= Cardinality(R \cup {current})
  BY <1>3, <1>4, FS_Subset
<1>6. /\ Cardinality(R) \in Nat /\ Cardinality(R \cup {current}) \in Nat
      /\ Cardinality(Connection) \in Nat /\ Cardinality(Caller) \in Nat
  BY <1>2, <1>3, FS_CardinalityType, DiscoveryAssumption
<1>. QED
  BY <1>2, <1>3, <1>5, <1>6, DiscoveryAssumption

-----------------------------------------------------------------------------
(* Types.                                                                  *)

\* A dial that succeeds makes a connection current that nobody refers to.
LEMMA DialEffect ==
  ASSUME DiscTypeOK, NEW c \in Caller, DialSucceeds(c)
  PROVE  /\ \E k \in Connection : ~ Referred(k) /\ current' = k
         /\ \E g \in Gateway : currentAddr' = g
         /\ peer' \in [Connection -> Gateway \cup {None}]
<1> DEFINE k == CHOOSE x \in Connection : ~ Referred(x)
<1>1. k \in Connection /\ ~ Referred(k)
  BY FreshConnection
<1> HIDE DEF k
<1>2. PICK g \in untried[c] \cap reachable :
        /\ peer' = [x \in Connection |->
                      IF x = k THEN g ELSE IF Referred(x) THEN peer[x] ELSE None]
        /\ current' = k /\ currentAddr' = g
  BY DEF DialSucceeds, k
<1>3. g \in Gateway
  BY <1>2 DEF DiscTypeOK
<1>4. \A x \in Connection : peer[x] \in Gateway \cup {None}
  BY DEF DiscTypeOK
<1>. QED
  BY <1>1, <1>2, <1>3, <1>4

\* candidates are addresses.
LEMMA CandidateTypes ==
  ASSUME DiscTypeOK, NEW g
  PROVE  candidates(g) \in SUBSET Gateway
BY DiscoveryAssumption DEF candidates, DiscTypeOK

\* Every step of a caller keeps the types.
LEMMA CallerKeepsTypes ==
  ASSUME DiscTypeOK, NEW c \in Caller, Call(c) \/ CallerStep(c) \/ Expire(c),
         raced' \in BOOLEAN
  PROVE  DiscTypeOK'
<1> USE DEF DiscTypeOK, worldVars, connVars, callVars, Locations, Go
<1>0. /\ panicked \in BOOLEAN /\ leaked \in BOOLEAN /\ None \notin Gateway
      /\ currentAddr \in Gateway \cup {None} /\ bad[c] \in Gateway \cup {None}
  BY DiscoveryAssumption
<1>1. CASE Call(c)
  <2>1. CASE current # None /\ pc' = [pc EXCEPT ![c] = "calling"] /\ UNCHANGED <<untried, bad>>
    BY <1>1, <2>1, DiscoveryAssumption DEF Call
  <2>2. CASE Dial(c, None)
    BY <1>1, <2>2, CandidateTypes, DiscoveryAssumption DEF Call, Dial
  <2>. QED
    BY <1>1, <2>1, <2>2 DEF Call
<1>2. CASE DialSucceeds(c)
  <2>1. /\ current' \in Connection /\ currentAddr' \in Gateway
        /\ peer' \in [Connection -> Gateway \cup {None}]
    BY <1>2, DialEffect
  <2>2. leaked' \in BOOLEAN
    BY <1>2 DEF DialSucceeds
  <2>. QED
    BY <1>2, <2>1, <2>2 DEF DialSucceeds
<1>3. CASE DialFails(c)
  BY <1>3 DEF DialFails
<1>4. CASE NextPass(c)
  <2>1. CASE Return(c)
    BY <1>4, <2>1 DEF NextPass, Return
  <2>2. CASE Dial(c, bad[c]) /\ UNCHANGED <<expired, retried, held>>
    BY <1>4, <2>2, CandidateTypes, <1>0 DEF NextPass, Dial
  <2>. QED
    BY <1>4, <2>1, <2>2 DEF NextPass
<1>5. CASE refreshCache(c)
  BY <1>5, DiscoveryAssumption DEF refreshCache
<1>6. CASE Failover(c)
  BY <1>6, CandidateTypes, <1>0 DEF Failover, Dial
<1>7. CASE Attempt(c)
  <2>1. CASE Return(c) /\ UNCHANGED panicked
    BY <1>7, <2>1 DEF Attempt, Return
  <2>2. CASE panicked' = TRUE /\ UNCHANGED callVars
    BY <1>7, <2>2 DEF Attempt
  <2>3. CASE /\ Go(c, "inCall") /\ held' = [held EXCEPT ![c] = current]
             /\ UNCHANGED <<expired, retried, untried, bad, panicked>>
    BY <1>7, <2>3 DEF Attempt
  <2>. QED
    BY <1>7, <2>1, <2>2, <2>3 DEF Attempt
<1>8. CASE StreamBreaks(c)
  <2>1. CASE Return(c)
    BY <1>8, <2>1 DEF StreamBreaks, Return
  <2>2. CASE Go(c, "failed") /\ UNCHANGED <<expired, retried, untried, bad, held>>
    BY <1>8, <2>2 DEF StreamBreaks
  <2>. QED
    BY <1>8, <2>1, <2>2 DEF StreamBreaks
<1>9. CASE CallReturns(c)
  BY <1>9 DEF CallReturns, Return
<1>10. CASE CallBreaks(c)
  BY <1>10 DEF CallBreaks
<1>11. CASE MoreBlocks(c)
  BY <1>11, DiscoveryAssumption DEF MoreBlocks
<1>12. CASE Expire(c)
  BY <1>12 DEF Expire
<1>. QED
  BY <1>1, <1>2, <1>3, <1>4, <1>5, <1>6, <1>7, <1>8, <1>9, <1>10, <1>11, <1>12
  DEF CallerStep

\* So do Close and the gateways.
LEMMA WorldKeepsTypes ==
  ASSUME DiscTypeOK, Close \/ Goes \/ Comes, raced' \in BOOLEAN
  PROVE  DiscTypeOK'
<1> USE DEF DiscTypeOK, worldVars, connVars, callVars, BesidesWorld
<1>1. CASE Close
  BY <1>1, DiscoveryAssumption DEF Close
<1>2. CASE Goes
  BY <1>2, DiscoveryAssumption DEF Goes
<1>3. CASE Comes
  BY <1>3 DEF Comes
<1>. QED
  BY <1>1, <1>2, <1>3

\* The types hold at the start.
LEMMA InitTypes ==
  ASSUME DiscInit
  PROVE  DiscTypeOK
<1>1. 0 \in 0 .. MaxOutages /\ 0 \in 0 .. MaxCalls
  BY DiscoveryAssumption
<1>2. panicked = FALSE /\ leaked = FALSE /\ raced = FALSE
  BY DEF DiscInit
<1>3. {panicked, leaked, raced} \subseteq BOOLEAN
  BY <1>2
<1>. QED
  BY <1>1, <1>3 DEF DiscInit, DiscTypeOK, Locations

\* Every variable has its type, whatever the callers and the gateways do.
THEOREM DiscTypeCorrect == DiscSpec => []DiscTypeOK
<1>1. DiscInit => DiscTypeOK
  BY InitTypes
<1>2. DiscTypeOK /\ [DiscNext]_discVars => DiscTypeOK'
  <2> SUFFICES ASSUME DiscTypeOK, [DiscNext]_discVars
               PROVE  DiscTypeOK'
    OBVIOUS
  <2>1. CASE DiscNext
    <3>1. raced' \in BOOLEAN
      BY <2>1 DEF DiscNext
    <3>. QED
      BY <2>1, <3>1, CallerKeepsTypes, WorldKeepsTypes DEF DiscNext
  <2>2. CASE UNCHANGED discVars
    BY <2>2 DEF DiscTypeOK, discVars, worldVars, connVars, callVars
  <2>. QED
    BY <2>1, <2>2
<1>. QED
  BY <1>1, <1>2, PTL DEF DiscSpec

-----------------------------------------------------------------------------
(* One dial at a time.                                                     *)

\* What holds as long as no dial has raced with another call: only the current
\* connection is open, whoever dials has none to overwrite, and whoever is about
\* to take it finds one.
Unraced ==
  /\ ~ leaked /\ ~ panicked /\ ~ Racing
  /\ \A k \in Connection : peer[k] # None => k = current
  /\ \A c \in Caller : pc[c] = "dialing" => current = None
  /\ \A c \in Caller : pc[c] \in {"refresh", "calling"} => current # None

SafeInv == DiscTypeOK /\ (raced \/ Unraced)

\* A step of a caller that does not race.
LEMMA CallerKeepsUnraced ==
  ASSUME DiscTypeOK, Unraced, NEW c \in Caller,
         Call(c) \/ CallerStep(c) \/ Expire(c), ~ Racing'
  PROVE  Unraced'
<1> USE DEF Unraced, Racing, worldVars, connVars, callVars, Go
<1>0. pc \in [Caller -> Locations] /\ None \notin Connection
  BY DiscoveryAssumption DEF DiscTypeOK
<1>1. CASE Call(c)
  BY <1>0, <1>1 DEF Call, Dial
<1>2. CASE DialSucceeds(c)
  <2>1. current' # None
    BY <1>2, <1>0, DialEffect
  <2>2. \A d \in Caller : d # c => pc[d] \notin {"dialing", "refresh", "calling"}
    BY <1>2 DEF DialSucceeds
  <2>3. current = None /\ ~ leaked'
    BY <1>2 DEF DialSucceeds
  <2>4. \A k \in Connection : peer'[k] # None => k = current'
    <3>1. \A k \in Connection : peer[k] = None
      BY <2>3, <1>0
    <3>. QED
      BY <1>2, <3>1 DEF DialSucceeds
  <2>. QED
    BY <1>0, <1>2, <2>1, <2>2, <2>3, <2>4 DEF DialSucceeds
<1>3. CASE DialFails(c)
  BY <1>3 DEF DialFails
<1>4. CASE NextPass(c)
  BY <1>0, <1>4 DEF NextPass, Return, Dial
<1>5. CASE refreshCache(c)
  BY <1>0, <1>5 DEF refreshCache
<1>6. CASE Failover(c)
  BY <1>0, <1>6 DEF Failover, Dial
<1>7. CASE Attempt(c)
  BY <1>0, <1>7 DEF Attempt, Return
<1>8. CASE StreamBreaks(c)
  BY <1>0, <1>8 DEF StreamBreaks, Return
<1>9. CASE CallReturns(c)
  BY <1>0, <1>9 DEF CallReturns, Return
<1>10. CASE CallBreaks(c)
  BY <1>0, <1>10 DEF CallBreaks
<1>11. CASE MoreBlocks(c)
  <2>1. current # None
    BY <1>0, <1>11, DiscoveryAssumption DEF MoreBlocks, Works, DiscTypeOK
  <2>. QED
    BY <1>0, <1>11, <2>1 DEF MoreBlocks
<1>12. CASE Expire(c)
  BY <1>12 DEF Expire
<1>. QED
  BY <1>1, <1>2, <1>3, <1>4, <1>5, <1>6, <1>7, <1>8, <1>9, <1>10, <1>11, <1>12
  DEF CallerStep

\* discovery.go:39-41, for any number of goroutines: a connection is lost, or
\* missing when a call takes it, only after a dial raced with another call.
THEOREM OneDialIsSafeHolds == DiscSpec => []OneDialIsSafe
<1>1. DiscInit => SafeInv
  BY InitTypes DEF DiscInit, SafeInv, Unraced, Racing
<1>2. SafeInv /\ DiscTypeOK' /\ [DiscNext]_discVars => SafeInv'
  <2> SUFFICES ASSUME SafeInv, DiscTypeOK', [DiscNext]_discVars, ~ raced'
               PROVE  Unraced'
    BY DEF SafeInv
  <2>1. CASE DiscNext
    <3>1. ~ raced /\ ~ Racing' /\ Unraced /\ DiscTypeOK
      BY <2>1 DEF DiscNext, SafeInv
    <3>2. CASE \E c \in Caller : Call(c) \/ CallerStep(c) \/ Expire(c)
      BY <3>1, <3>2, CallerKeepsUnraced
    <3>3. CASE Close
      BY <3>1, <3>3 DEF Unraced, Racing, Close, callVars, DiscTypeOK
    <3>4. CASE Goes \/ Comes
      BY <3>1, <3>4 DEF Unraced, Racing, Goes, Comes, BesidesWorld, connVars, callVars
    <3>. QED
      BY <2>1, <3>2, <3>3, <3>4 DEF DiscNext
  <2>2. CASE UNCHANGED discVars
    BY <2>2 DEF SafeInv, Unraced, Racing, discVars, connVars, callVars
  <2>. QED
    BY <2>1, <2>2
<1>3. SafeInv => OneDialIsSafe
  BY DEF SafeInv, Unraced, OneDialIsSafe
<1>. QED
  BY <1>1, <1>2, <1>3, DiscTypeCorrect, PTL DEF DiscSpec
=============================================================================
