--------------------------- MODULE DeliveryProofs ---------------------------
(***************************************************************************)
(* Theorems about Delivery: the scan, its checkpoint and the chats file.   *)
(***************************************************************************)
EXTENDS Delivery, FiniteSetTheorems, TLAPS

\* What m holds goes up to c: every incoming message below c is there.
Covers(m, c) == \A h \in Incoming : h < c => m.copies[h] > 0

\* The inductive invariant: a scan that is under way has left nothing out
\* below its cursor, so that the cursor may become the checkpoint.
DeliveryInv ==
  /\ StoreTypeOK
  /\ ScannedIsStored
  /\ phase = "sync" => Covers(memory, cursor)

-----------------------------------------------------------------------------
(* The store.                                                              *)

\* An empty store is well formed and claims nothing.
LEMMA NoChatsClaimNothing ==
  NoChats \in Chats /\ NoChats.synced = 0 /\ Covers(NoChats, 0)
BY DeliveryAssumption DEF NoChats, Chats, Covers, Height

\* Appending a message takes nothing away and leaves the checkpoint alone.
LEMMA StoredAdds ==
  ASSUME NEW m \in Chats, NEW h \in Height
  PROVE  /\ Stored(m, h) \in Chats
         /\ Stored(m, h).synced = m.synced
         /\ Stored(m, h).copies[h] > 0
         /\ \A k \in Height : m.copies[k] > 0 => Stored(m, h).copies[k] > 0
<1> DEFINE more == [m.copies EXCEPT ![h] = @ + 1]
<1>1. m.copies \in [Height -> Nat] /\ m.synced \in 0 .. MaxHeight + 1
  BY DEF Chats
<1>2. Stored(m, h) = [copies |-> more, contact |-> TRUE, synced |-> m.synced]
  BY DEF Stored
<1>3. /\ more \in [Height -> Nat] /\ more[h] > 0
      /\ \A k \in Height : m.copies[k] > 0 => more[k] > 0
  BY <1>1
<1> HIDE DEF more
<1> QED BY <1>1, <1>2, <1>3 DEF Chats

\* Whatever becomes of a write, the file holds what it did, what the memory
\* holds, or nothing.
LEMMA WriteOutcome ==
  ASSUME Saved \/ NotSaved, torn \in BOOLEAN
  PROVE  disk' \in {disk, memory', NoChats} /\ torn' \in BOOLEAN
BY DEF Saved, NotSaved, CutOff

\* A checkpoint of zero is never ahead of the chain.
LEMMA NothingIsOnChain == ASSUME StoreTypeOK PROVE OnChain(0)
<1>1. conn \in Gateway /\ tip[conn] \in 0 .. MaxHeight
  BY DEF StoreTypeOK
<1> QED BY <1>1, DeliveryAssumption DEF OnChain

\* A call of the store that adds messages and moves the checkpoint no further
\* than they reach keeps its promise, whatever becomes of the write.
LEMMA StoreCall ==
  ASSUME DeliveryInv, memory' \in Chats, Covers(memory', memory'.synced),
         OnChain(memory'.synced), disk' \in {disk, memory', NoChats}
  PROVE  /\ disk' \in Chats
         /\ ScannedIsStored'
         /\ OnChain(disk'.synced)
<1>1. OnChain(disk.synced) /\ disk \in Chats
  BY DEF DeliveryInv, StoreTypeOK
<1>2. OnChain(0)
  BY NothingIsOnChain DEF DeliveryInv
<1> QED BY <1>1, <1>2, NoChatsClaimNothing
        DEF DeliveryInv, StoreTypeOK, ScannedIsStored, Covers
-----------------------------------------------------------------------------
(* One lemma per kind of step.                                             *)

\* The gateways move on: what was on the chain stays on it.
LEMMA ChainStep ==
  ASSUME DeliveryInv, NEW g \in Gateway, Commit(g) \/ Publish(g)
  PROVE  DeliveryInv'
<1>1. CASE Commit(g)
  <2>1. /\ tip' \in [Gateway -> 0 .. MaxHeight]
        /\ \A k \in Gateway : tip'[k] >= tip[k] /\ published'[k] <= tip'[k]
    BY <1>1, DeliveryAssumption DEF Commit, DeliveryInv, StoreTypeOK
  <2>2. \A h \in 0 .. MaxHeight + 1 :
          OnChain(h) => \E k \in Gateway : h <= tip'[k] + 1
    <3> SUFFICES ASSUME NEW h \in 0 .. MaxHeight + 1, NEW k \in Gateway,
                        h <= tip[k] + 1
                 PROVE  h <= tip'[k] + 1
      BY DEF OnChain
    <3> QED BY <2>1, DeliveryAssumption DEF DeliveryInv, StoreTypeOK
  <2>3. OnChain(cursor)' /\ OnChain(batchEnd)'
    BY <1>1, <2>2 DEF Commit, DeliveryInv, StoreTypeOK, scanVars, OnChain
  <2>4. OnChain(memory.synced)' /\ OnChain(disk.synced)'
    <3>1. memory.synced \in 0 .. MaxHeight + 1 /\ disk.synced \in 0 .. MaxHeight + 1
      BY DEF DeliveryInv, StoreTypeOK, Chats
    <3>2. memory' = memory /\ disk' = disk
      BY <1>1 DEF Commit, storeVars
    <3> QED BY <2>2, <3>1, <3>2 DEF DeliveryInv, StoreTypeOK, OnChain
  <2> QED BY <1>1, <2>1, <2>3, <2>4
          DEF Commit, DeliveryInv, StoreTypeOK, ScannedIsStored, Covers,
              linkVars, scanVars, storeVars, sendVars
<1>2. CASE Publish(g)
  <2>1. /\ published' \in [Gateway -> 0 .. MaxHeight]
        /\ \A k \in Gateway : published'[k] <= tip[k]
    BY <1>2 DEF Publish, DeliveryInv, StoreTypeOK
  <2>2. stream' \in Seq(Height)
    <3>1. tip[g] \in Height
      BY <1>2, DeliveryAssumption DEF Publish, DeliveryInv, StoreTypeOK, Height
    <3> QED BY <1>2, <3>1 DEF Publish, DeliveryInv, StoreTypeOK
  <2> QED BY <1>2, <2>1, <2>2
          DEF Publish, OnChain, DeliveryInv, StoreTypeOK, ScannedIsStored, Covers,
              linkVars, scanVars, storeVars, sendVars
<1> QED BY <1>1, <1>2

\* Connections break and come back, streams open: the store is not touched,
\* and no step of this kind goes back to scanning.
LEMMA LinkStep ==
  ASSUME DeliveryInv, Disconnect \/ Reconnect \/ Failover \/ Subscribe
  PROVE  DeliveryInv'
<1>1. /\ conn' \in Gateway /\ linked' \in BOOLEAN /\ failed' \in BOOLEAN
      /\ phase' \in {"off", "sync", "listen", "live", "broken"}
      /\ phase' = "sync" => phase = "sync"
  BY DEF Disconnect, Reconnect, Failover, Subscribe, scanVars, linkVars,
         DeliveryInv, StoreTypeOK
<1>2. stream' \in Seq(Height)
  <2>1. CASE UNCHANGED stream
    BY <2>1 DEF DeliveryInv, StoreTypeOK
  <2>2. CASE Disconnect
    BY <2>2 DEF Disconnect, DeliveryInv, StoreTypeOK
  <2> QED BY <2>1, <2>2 DEF Reconnect, Failover, Subscribe
<1>3. UNCHANGED <<chainVars, cursor, batchEnd, known, storeVars, sendVars>>
  BY DEF Disconnect, Reconnect, Failover, Subscribe, scanVars
<1> QED BY <1>1, <1>2, <1>3
        DEF DeliveryInv, StoreTypeOK, ScannedIsStored, Covers, OnChain,
            chainVars, storeVars, sendVars

\* The app starts with what the file holds, and stops with or without a write
\* that is cut off.
LEMMA ProcessStep ==
  ASSUME DeliveryInv, Start \/ Stop \/ KilledSaving
  PROVE  DeliveryInv'
<1>1. OnChain(0)
  BY NothingIsOnChain DEF DeliveryInv
<1>2. CASE Start
  <2>1. /\ disk \in Chats /\ OnChain(disk.synced) /\ Covers(disk, disk.synced)
        /\ disk.synced \in 0 .. MaxHeight + 1 /\ disk.contact \in BOOLEAN
    BY DEF DeliveryInv, StoreTypeOK, ScannedIsStored, Covers, Chats
  <2>2. memory' = disk /\ disk' = disk /\ tip' = tip
        /\ cursor' = disk.synced /\ batchEnd' = 0
    BY <1>2 DEF Start, chainVars
  <2>3. /\ OnChain(cursor)' /\ OnChain(batchEnd)'
        /\ OnChain(memory.synced)' /\ OnChain(disk.synced)'
    BY <1>1, <2>1, <2>2 DEF OnChain
  <2>4. StoreTypeOK'
    <3>1. /\ cursor' \in 0 .. MaxHeight + 1 /\ batchEnd' \in 0 .. MaxHeight + 1
          /\ memory' \in Chats /\ disk' \in Chats
      BY <2>1, <2>2, DeliveryAssumption
    <3>2. /\ conn' \in Gateway /\ linked' \in BOOLEAN /\ torn' \in BOOLEAN
          /\ known' \in BOOLEAN /\ failed' \in BOOLEAN /\ phase' = "sync"
      BY <1>2, <2>1 DEF Start, DeliveryInv, StoreTypeOK
    <3>3. UNCHANGED <<tip, published, stream, sent, pending>>
      BY <1>2 DEF Start, chainVars, sendVars
    <3> QED BY <2>3, <3>1, <3>2, <3>3 DEF DeliveryInv, StoreTypeOK
  <2> QED BY <1>2, <2>1, <2>2, <2>4
          DEF Start, DeliveryInv, ScannedIsStored, Covers
<1>3. CASE Exit /\ (UNCHANGED <<disk, torn>> \/ CutOff)
  <2>1. disk' \in {disk, NoChats} /\ torn' \in BOOLEAN
    BY <1>3 DEF CutOff, DeliveryInv, StoreTypeOK
  <2>2. /\ disk' \in Chats /\ OnChain(disk'.synced) /\ Covers(disk', disk'.synced)
    BY <1>1, <2>1, NoChatsClaimNothing
       DEF DeliveryInv, StoreTypeOK, ScannedIsStored, Covers
  <2>3. memory' = NoChats /\ tip' = tip /\ cursor' = 0 /\ batchEnd' = 0
    BY <1>3 DEF Exit, NoScan, chainVars
  <2>4. /\ OnChain(cursor)' /\ OnChain(batchEnd)'
        /\ OnChain(memory.synced)' /\ OnChain(disk.synced)'
    BY <1>1, <2>2, <2>3, NoChatsClaimNothing DEF OnChain
  <2>5. StoreTypeOK'
    <3>1. /\ cursor' \in 0 .. MaxHeight + 1 /\ batchEnd' \in 0 .. MaxHeight + 1
          /\ memory' \in Chats /\ disk' \in Chats
      BY <2>2, <2>3, NoChatsClaimNothing, DeliveryAssumption
    <3>2. /\ phase' = "off" /\ linked' = FALSE /\ failed' = FALSE
          /\ known' = FALSE /\ stream' = <<>> /\ pending' = {}
      BY <1>3 DEF Exit, NoScan
    <3>3. UNCHANGED <<tip, published, conn, sent>>
      BY <1>3 DEF Exit, chainVars
    <3>4. stream' \in Seq(Height) /\ pending' \in SUBSET sent
      BY <3>2
    <3> QED BY <2>1, <2>4, <3>1, <3>2, <3>3, <3>4 DEF DeliveryInv, StoreTypeOK
  <2> QED BY <1>3, <2>2, <2>3, <2>5, NoChatsClaimNothing
          DEF Exit, DeliveryInv, ScannedIsStored, Covers
<1> QED BY <1>2, <1>3 DEF Stop, KilledSaving

\* SyncHistory's calls: the checkpoint moves to the cursor of a scan that has
\* left nothing out.
LEMMA AnswerStep ==
  ASSUME DeliveryInv, NEW g \in Gateway, Asking, Answer(g),
         conn' \in Gateway, linked' \in BOOLEAN,
         UNCHANGED <<chainVars, stream, failed, sendVars>>
  PROVE  DeliveryInv'
<1>1. CASE tip[g] >= cursor /\ batchEnd' = ServedEnd(g)
           /\ UNCHANGED <<phase, cursor, known, storeVars>>
  <2>1. batchEnd' \in 0 .. MaxHeight + 1 /\ batchEnd' <= tip[g] + 1
    BY <1>1, DeliveryAssumption DEF ServedEnd, DeliveryInv, StoreTypeOK
  <2>2. UNCHANGED <<tip, published, cursor, memory, disk, torn, sent, pending>>
    BY <1>1 DEF chainVars, storeVars, sendVars
  <2>3. /\ OnChain(cursor)' /\ OnChain(batchEnd)'
        /\ OnChain(memory.synced)' /\ OnChain(disk.synced)'
    BY <2>1, <2>2 DEF OnChain, DeliveryInv, StoreTypeOK
  <2> QED BY <1>1, <2>1, <2>2, <2>3
          DEF DeliveryInv, StoreTypeOK, ScannedIsStored, Covers
<1>2. CASE phase' = "listen" /\ NoScan
           /\ \/ UNCHANGED storeVars
              \/ /\ memory' = [memory EXCEPT !.synced = cursor]
                 /\ Saved \/ NotSaved
  <2>1. /\ memory' \in Chats /\ Covers(memory', memory'.synced)
        /\ OnChain(memory'.synced)
    <3>1. CASE UNCHANGED storeVars
      BY <3>1 DEF storeVars, DeliveryInv, StoreTypeOK, ScannedIsStored, Covers
    <3>2. CASE memory' = [memory EXCEPT !.synced = cursor]
      <4>1. memory' \in Chats /\ memory'.synced = cursor
            /\ memory'.copies = memory.copies
        BY <3>2 DEF DeliveryInv, StoreTypeOK, Chats
      <4> QED BY <4>1 DEF Asking, Covers, DeliveryInv, StoreTypeOK
    <3> QED BY <1>2, <3>1, <3>2
  <2>2. disk' \in {disk, memory', NoChats} /\ torn' \in BOOLEAN
    BY <1>2, WriteOutcome DEF storeVars, DeliveryInv, StoreTypeOK
  <2>3. disk' \in Chats /\ ScannedIsStored' /\ OnChain(disk'.synced)
    BY <2>1, <2>2, StoreCall
  <2>4. OnChain(0)
    BY NothingIsOnChain DEF DeliveryInv
  <2>5. UNCHANGED <<tip, published, stream, failed, sent, pending>>
        /\ cursor' = 0 /\ batchEnd' = 0 /\ known' = FALSE
    BY <1>2 DEF NoScan, chainVars, sendVars
  <2>6. /\ OnChain(cursor)' /\ OnChain(batchEnd)'
        /\ OnChain(memory.synced)' /\ OnChain(disk.synced)'
    BY <2>1, <2>3, <2>4, <2>5 DEF OnChain
  <2>7. /\ cursor' \in 0 .. MaxHeight + 1 /\ batchEnd' \in 0 .. MaxHeight + 1
    BY <2>5, DeliveryAssumption
  <2> QED BY <1>2, <2>1, <2>2, <2>3, <2>5, <2>6, <2>7 DEF DeliveryInv, StoreTypeOK
<1> QED BY <1>1, <1>2 DEF Answer

\* One block of a scan: what it is about to leave behind is stored.
LEMMA ScanStep ==
  ASSUME DeliveryInv, ScanBlock
  PROVE  DeliveryInv'
<1>1. /\ phase = "sync" /\ cursor < batchEnd /\ cursor' = cursor + 1
      /\ known' = (known \/ cursor \in Incoming)
      /\ UNCHANGED <<tip, published, phase, conn, linked, stream, batchEnd, sent, pending>>
  BY DEF ScanBlock, chainVars, linkVars, sendVars
<1>2. /\ memory' \in Chats /\ memory'.synced = memory.synced
      /\ \A h \in Height : memory.copies[h] > 0 => memory'.copies[h] > 0
      /\ cursor \in Incoming => memory'.copies[cursor] > 0
      /\ UNCHANGED storeVars \/ Saved \/ NotSaved
      /\ failed' \in BOOLEAN
  <2>1. CASE Readable(cursor) /\ memory.copies[cursor] = 0
    <3>1. cursor \in Height /\ memory' = Stored(memory, cursor)
          /\ (Saved \/ NotSaved) /\ failed' \in BOOLEAN
      BY <2>1, DeliveryAssumption
         DEF ScanBlock, Readable, Height, DeliveryInv, StoreTypeOK
    <3> QED BY <3>1, StoredAdds DEF DeliveryInv, StoreTypeOK
  <2>2. CASE ~ (Readable(cursor) /\ memory.copies[cursor] = 0)
    <3>1. UNCHANGED <<storeVars, failed>>
      BY <2>2 DEF ScanBlock
    <3>2. cursor \in Incoming => memory.copies[cursor] > 0
      BY <2>2, DeliveryAssumption
         DEF Readable, Height, Chats, DeliveryInv, StoreTypeOK
    <3> QED BY <3>1, <3>2 DEF storeVars, DeliveryInv, StoreTypeOK
  <2> QED BY <2>1, <2>2
<1>3. Covers(memory', cursor + 1) /\ Covers(memory', memory'.synced)
  BY <1>1, <1>2, DeliveryAssumption
     DEF Covers, Height, DeliveryInv, StoreTypeOK, ScannedIsStored
<1>4. disk' \in {disk, memory', NoChats} /\ torn' \in BOOLEAN
  BY <1>2, WriteOutcome DEF storeVars, DeliveryInv, StoreTypeOK
<1>5. OnChain(memory'.synced)
  BY <1>2 DEF DeliveryInv, StoreTypeOK
<1>6. disk' \in Chats /\ ScannedIsStored' /\ OnChain(disk'.synced)
  BY <1>2, <1>3, <1>4, <1>5, StoreCall
<1>7. PICK g \in Gateway : batchEnd <= tip[g] + 1
  BY DEF DeliveryInv, StoreTypeOK, OnChain
<1>8. cursor' \in 0 .. MaxHeight + 1 /\ cursor' <= tip[g] + 1
  BY <1>1, <1>7, DeliveryAssumption DEF DeliveryInv, StoreTypeOK
<1>9. /\ OnChain(cursor)' /\ OnChain(batchEnd)'
      /\ OnChain(memory.synced)' /\ OnChain(disk.synced)'
  BY <1>1, <1>5, <1>6, <1>7, <1>8 DEF OnChain
<1>10. StoreTypeOK'
  BY <1>1, <1>2, <1>4, <1>6, <1>8, <1>9 DEF DeliveryInv, StoreTypeOK
<1> QED BY <1>1, <1>3, <1>6, <1>10 DEF DeliveryInv

\* What arrives, or is sent, adds to the store and scans nothing.
LEMMA AppendStep ==
  ASSUME DeliveryInv, memory' \in Chats, memory'.synced = memory.synced,
         \A h \in Height : memory.copies[h] > 0 => memory'.copies[h] > 0,
         UNCHANGED storeVars \/ Saved \/ NotSaved,
         stream' \in Seq(Height), sent' \in SUBSET Own, pending' \in SUBSET sent',
         UNCHANGED <<chainVars, phase, linkVars, scanVars>>
  PROVE  DeliveryInv'
<1>1. UNCHANGED <<tip, published, conn, linked, cursor, batchEnd, known, failed>>
  BY DEF chainVars, linkVars, scanVars
<1>2. /\ Covers(memory', memory'.synced)
      /\ phase = "sync" => Covers(memory', cursor)
  BY DeliveryAssumption DEF Covers, Height, DeliveryInv, ScannedIsStored
<1>3. disk' \in {disk, memory', NoChats} /\ torn' \in BOOLEAN
  BY WriteOutcome DEF storeVars, DeliveryInv, StoreTypeOK
<1>4. OnChain(memory'.synced)
  BY DEF DeliveryInv, StoreTypeOK
<1>5. disk' \in Chats /\ ScannedIsStored' /\ OnChain(disk'.synced)
  BY <1>2, <1>3, <1>4, StoreCall
<1>6. /\ OnChain(cursor)' /\ OnChain(batchEnd)'
      /\ OnChain(memory.synced)' /\ OnChain(disk.synced)'
  BY <1>1, <1>4, <1>5 DEF OnChain, DeliveryInv, StoreTypeOK
<1> QED BY <1>1, <1>2, <1>3, <1>5, <1>6 DEF DeliveryInv, StoreTypeOK
-----------------------------------------------------------------------------
(* The theorems.                                                           *)

\* A fresh install claims nothing.
LEMMA DeliveryInvInit == DeliveryInit => DeliveryInv
<1> SUFFICES ASSUME DeliveryInit PROVE DeliveryInv
  OBVIOUS
<1>1. /\ tip = [g \in Gateway |-> 0] /\ published = tip /\ conn \in Gateway
      /\ cursor = 0 /\ batchEnd = 0 /\ memory = NoChats /\ disk = NoChats
  BY DEF DeliveryInit
<1>2. OnChain(0)
  BY <1>1 DEF OnChain
<1>3. /\ 0 \in 0 .. MaxHeight /\ 0 \in 0 .. MaxHeight + 1
      /\ <<>> \in Seq(Height)
  BY DeliveryAssumption
<1>4. StoreTypeOK
  <2>1. /\ tip \in [Gateway -> 0 .. MaxHeight] /\ published \in [Gateway -> 0 .. MaxHeight]
        /\ \A g \in Gateway : published[g] <= tip[g]
    BY <1>1, <1>3
  <2>2. /\ phase = "off" /\ linked = FALSE /\ stream = <<>> /\ known = FALSE
        /\ failed = FALSE /\ torn = FALSE /\ sent = {} /\ pending = {}
    BY DEF DeliveryInit
  <2>3. /\ OnChain(cursor) /\ OnChain(batchEnd)
        /\ OnChain(memory.synced) /\ OnChain(disk.synced)
    BY <1>1, <1>2, NoChatsClaimNothing
  <2> QED BY <1>1, <1>3, <2>1, <2>2, <2>3, NoChatsClaimNothing DEF StoreTypeOK
<1>5. ScannedIsStored /\ phase # "sync"
  BY <1>1, NoChatsClaimNothing DEF DeliveryInit, ScannedIsStored, Covers
<1> QED BY <1>4, <1>5 DEF DeliveryInv

LEMMA DeliveryInvStep == DeliveryInv /\ [DeliveryNext]_deliveryVars => DeliveryInv'
<1> SUFFICES ASSUME DeliveryInv, [DeliveryNext]_deliveryVars PROVE DeliveryInv'
  OBVIOUS
<1> USE DEF DeliveryInv
<1>1. ASSUME NEW g \in Gateway, Commit(g) \/ Publish(g) PROVE DeliveryInv'
  BY <1>1, ChainStep
<1>2. CASE Start \/ Stop \/ KilledSaving
  BY <1>2, ProcessStep
<1>3. CASE GetBlocks
  BY <1>3, AnswerStep DEF GetBlocks, linkVars, StoreTypeOK
<1>4. CASE SyncFailover
  BY <1>4, AnswerStep DEF SyncFailover
<1>5. CASE SyncFails
  <2>1. OnChain(0)
    BY NothingIsOnChain
  <2>2. /\ conn' \in Gateway /\ phase' = "listen" /\ failed' = TRUE
        /\ cursor' = 0 /\ batchEnd' = 0 /\ known' = FALSE
        /\ UNCHANGED <<tip, published, linked, stream, memory, disk, torn, sent, pending>>
    BY <1>5 DEF SyncFails, NoScan, chainVars, storeVars, sendVars
  <2>3. /\ OnChain(cursor)' /\ OnChain(batchEnd)'
        /\ OnChain(memory.synced)' /\ OnChain(disk.synced)'
    BY <2>1, <2>2 DEF OnChain, StoreTypeOK
  <2>4. cursor' \in 0 .. MaxHeight + 1 /\ batchEnd' \in 0 .. MaxHeight + 1
    BY <2>2, DeliveryAssumption
  <2> QED BY <2>2, <2>3, <2>4 DEF StoreTypeOK, ScannedIsStored
<1>6. CASE ScanBlock
  BY <1>6, ScanStep
<1>7. CASE Disconnect \/ Reconnect \/ Failover \/ Subscribe
  BY <1>7, LinkStep
<1>8. CASE Receive
  <2>1. stream \in Seq(Height) /\ stream # <<>> /\ memory \in Chats
    BY <1>8 DEF Receive, StoreTypeOK
  <2>2. Head(stream) \in Height /\ Tail(stream) \in Seq(Height)
    BY <2>1
  <2>3. \/ memory' = Stored(memory, Head(stream)) /\ (Saved \/ NotSaved)
        \/ UNCHANGED storeVars
    BY <1>8 DEF Receive
  <2>4. /\ memory' \in Chats /\ memory'.synced = memory.synced
        /\ \A h \in Height : memory.copies[h] > 0 => memory'.copies[h] > 0
    BY <2>1, <2>2, <2>3, StoredAdds DEF storeVars
  <2> QED BY <1>8, <2>2, <2>3, <2>4, AppendStep DEF Receive, sendVars, StoreTypeOK
<1>9. CASE AddContact
  <2>1. /\ memory' \in Chats /\ memory'.synced = memory.synced
        /\ memory'.copies = memory.copies
    BY <1>9 DEF AddContact, StoreTypeOK, Chats
  <2> QED BY <1>9, <2>1, AppendStep DEF AddContact, sendVars, StoreTypeOK
<1>10. ASSUME NEW h \in Own, SendText(h) PROVE DeliveryInv'
  <2>1. memory' \in Chats /\ memory' = memory
    BY <1>10 DEF SendText, storeVars, StoreTypeOK
  <2> QED BY <1>10, <2>1, AppendStep DEF SendText, StoreTypeOK
<1>11. ASSUME NEW h \in Own, AppendSent(h) PROVE DeliveryInv'
  <2>1. h \in Height
    BY DeliveryAssumption DEF Height
  <2> DEFINE more == [memory.copies EXCEPT ![h] = @ + 1]
  <2>2. memory \in Chats /\ memory.copies \in [Height -> Nat]
    BY DEF StoreTypeOK, Chats
  <2>3. /\ more \in [Height -> Nat]
        /\ \A k \in Height : memory.copies[k] > 0 => more[k] > 0
    BY <2>1, <2>2
  <2>4. memory' = [memory EXCEPT !.copies = more]
    BY <1>11 DEF AppendSent
  <2> HIDE DEF more
  <2>5. /\ memory' \in Chats
        /\ memory'.synced = memory.synced /\ memory'.copies = more
    BY <2>2, <2>3, <2>4 DEF Chats
  <2>6. \A k \in Height : memory.copies[k] > 0 => memory'.copies[k] > 0
    BY <2>3, <2>5
  <2> QED BY <1>11, <2>5, <2>6, AppendStep DEF AppendSent, StoreTypeOK
<1>12. CASE UNCHANGED deliveryVars
  BY <1>12 DEF deliveryVars, chainVars, linkVars, scanVars, storeVars, sendVars,
               StoreTypeOK, ScannedIsStored, Covers, OnChain
<1> QED BY <1>1, <1>2, <1>3, <1>4, <1>5, <1>6, <1>7, <1>8, <1>9, <1>10, <1>11, <1>12
        DEF DeliveryNext, SyncStep, ListenStep

\* The types hold, and nothing is ahead of the chain, for any number of
\* gateways, any chain and any size of batches and buffers.
THEOREM DeliveryTypeCorrect == DeliverySpec => []StoreTypeOK
<1>1. DeliveryInv => StoreTypeOK
  BY DEF DeliveryInv
<1> QED BY <1>1, DeliveryInvInit, DeliveryInvStep, PTL DEF DeliverySpec

\* The checkpoint is never past an incoming message that the file does not
\* hold, however writes, connections and the process fail (service.go:92-145).
THEOREM ScannedIsStoredHolds == DeliverySpec => []ScannedIsStored
<1>1. DeliveryInv => ScannedIsStored
  BY DEF DeliveryInv
<1> QED BY <1>1, DeliveryInvInit, DeliveryInvStep, PTL DEF DeliverySpec

-----------------------------------------------------------------------------
(* How often a message is stored.                                          *)

\* The copies of h that the stream may yet bring.
Arrivals(s, h) == Cardinality({i \in DOMAIN s : s[i] = h})

\* The gateways that have handed out the block at h.
Publishers(p, h) == Cardinality({g \in Gateway : p[g] >= h})

\* The copy of h that SendText may yet append.
Due(h) == IF h \in pending \/ h \notin sent THEN 1 ELSE 0

\* The inductive invariant: a copy on its way counts as if it were stored.
CopyInv ==
  /\ phase = "off" => stream = <<>>
  /\ \A h \in Incoming :
       /\ Arrivals(stream, h) <= Publishers(published, h)
       /\ memory.copies[h] + Arrivals(stream, h) <= 1 + Publishers(published, h)
       /\ disk.copies[h] <= 1 + Publishers(published, h)
  /\ \A h \in Own :
       /\ memory.copies[h] + Due(h) <= 2
       /\ disk.copies[h] + Due(h) <= 2

\* Numbers of arrivals are numbers, and of an empty stream zero.
LEMMA ArrivalsCount ==
  ASSUME NEW s \in Seq(Height), NEW h
  PROVE  /\ IsFiniteSet({i \in DOMAIN s : s[i] = h})
         /\ Arrivals(s, h) \in Nat
         /\ Arrivals(<<>>, h) = 0
<1>1. DOMAIN s = 1 .. Len(s) /\ Len(s) \in Nat
  OBVIOUS
<1>2. IsFiniteSet(1 .. Len(s))
  BY <1>1, FS_Interval
<1>3. IsFiniteSet({i \in DOMAIN s : s[i] = h})
  <2>1. {i \in DOMAIN s : s[i] = h} \in SUBSET (1 .. Len(s))
    BY <1>1
  <2> QED BY <1>2, <2>1, FS_Subset
<1>4. {i \in DOMAIN <<>> : <<>>[i] = h} = {}
  OBVIOUS
<1> QED BY <1>3, <1>4, FS_CardinalityType, FS_EmptySet DEF Arrivals

\* An event that is appended adds one arrival, of itself.
LEMMA AppendArrives ==
  ASSUME NEW s \in Seq(Height), NEW k \in Height, NEW h
  PROVE  Arrivals(Append(s, k), h) = Arrivals(s, h) + (IF k = h THEN 1 ELSE 0)
<1> DEFINE At(t) == {i \in DOMAIN t : t[i] = h}
<1>1. IsFiniteSet(At(s)) /\ Arrivals(s, h) \in Nat
  BY ArrivalsCount
<1>2. /\ DOMAIN s = 1 .. Len(s) /\ Len(s) \in Nat
      /\ DOMAIN Append(s, k) = 1 .. Len(s) + 1
      /\ Append(s, k)[Len(s) + 1] = k
      /\ \A i \in 1 .. Len(s) : Append(s, k)[i] = s[i]
  OBVIOUS
<1>3. CASE k = h
  <2>1. At(Append(s, k)) = At(s) \cup {Len(s) + 1} /\ Len(s) + 1 \notin At(s)
    BY <1>2, <1>3
  <2> QED BY <1>1, <1>3, <2>1, FS_AddElement DEF Arrivals
<1>4. CASE k # h
  <2>1. At(Append(s, k)) = At(s)
    BY <1>2, <1>4
  <2>2. Arrivals(Append(s, k), h) = Arrivals(s, h)
    BY <2>1 DEF Arrivals
  <2> QED BY <1>1, <1>4, <2>2
<1> QED BY <1>3, <1>4

\* An event that is taken off the stream is one arrival less.
LEMMA TailArrives ==
  ASSUME NEW s \in Seq(Height), s # <<>>, NEW h
  PROVE  Arrivals(Tail(s), h) + (IF Head(s) = h THEN 1 ELSE 0) <= Arrivals(s, h)
<1> DEFINE At(t) == {i \in DOMAIN t : t[i] = h}
           later == [i \in At(Tail(s)) |-> i + 1]
<1>1. IsFiniteSet(At(s)) /\ Arrivals(s, h) \in Nat
  BY ArrivalsCount
<1>2. /\ DOMAIN s = 1 .. Len(s) /\ Len(s) \in Nat /\ Len(s) > 0
      /\ DOMAIN Tail(s) = 1 .. Len(s) - 1
      /\ Head(s) = s[1]
      /\ \A i \in 1 .. Len(s) - 1 : Tail(s)[i] = s[i + 1]
  OBVIOUS
<1>3. IsFiniteSet(At(s) \ {1})
      /\ Cardinality(At(s) \ {1}) = IF 1 \in At(s) THEN Cardinality(At(s)) - 1
                                                   ELSE Cardinality(At(s))
  BY <1>1, FS_RemoveElement
<1>4. later \in Injection(At(Tail(s)), At(s) \ {1})
  <2>1. \A i \in At(Tail(s)) : i \in Int /\ i + 1 \in At(s) \ {1}
    BY <1>2
  <2>2. later \in [At(Tail(s)) -> At(s) \ {1}]
    BY <2>1
  <2>3. \A i, j \in At(Tail(s)) : later[i] = later[j] => i = j
    BY <2>1
  <2> HIDE DEF later, At
  <2> QED BY <2>2, <2>3 DEF Injection, IsInjective
<1>5. Cardinality(At(Tail(s))) <= Cardinality(At(s) \ {1})
  <2> HIDE DEF later, At
  <2> QED BY <1>3, <1>4, FS_Injection
<1>6. Arrivals(Tail(s), h) \in Nat
  <2>1. Tail(s) \in Seq(Height)
    OBVIOUS
  <2> QED BY <2>1, ArrivalsCount
<1>7. Head(s) = h <=> 1 \in At(s)
  BY <1>2
<1>8. Arrivals(s, h) = Cardinality(At(s))
      /\ Arrivals(Tail(s), h) = Cardinality(At(Tail(s)))
  BY DEF Arrivals
<1> HIDE DEF later, At
<1> QED BY <1>1, <1>3, <1>5, <1>6, <1>7, <1>8

\* What is cut off a stream brings nothing any more.
LEMMA CutArrives ==
  ASSUME NEW s \in Seq(Height), NEW n \in 0 .. Len(s), NEW h
  PROVE  Arrivals(SubSeq(s, 1, n), h) <= Arrivals(s, h)
<1>1. IsFiniteSet({i \in DOMAIN s : s[i] = h})
  BY ArrivalsCount
<1>2. {i \in DOMAIN SubSeq(s, 1, n) : SubSeq(s, 1, n)[i] = h}
        \in SUBSET {i \in DOMAIN s : s[i] = h}
  <2>1. /\ DOMAIN s = 1 .. Len(s) /\ Len(s) \in Nat
        /\ DOMAIN SubSeq(s, 1, n) = 1 .. n
        /\ \A i \in 1 .. n : SubSeq(s, 1, n)[i] = s[i]
    OBVIOUS
  <2> QED BY <2>1
<1> QED BY <1>1, <1>2, FS_Subset DEF Arrivals

\* Publishers are numbers.
LEMMA PublishersCount ==
  ASSUME NEW p, NEW h
  PROVE  IsFiniteSet({g \in Gateway : p[g] >= h}) /\ Publishers(p, h) \in Nat
<1>1. {g \in Gateway : p[g] >= h} \in SUBSET Gateway
  OBVIOUS
<1> QED BY <1>1, FS_Subset, FS_CardinalityType, DeliveryAssumption DEF Publishers

\* Types of what the invariant counts.
LEMMA CopyTypes ==
  ASSUME StoreTypeOK, NEW h \in Height
  PROVE  /\ memory.copies[h] \in Nat /\ disk.copies[h] \in Nat
         /\ NoChats.copies[h] = 0
         /\ Arrivals(stream, h) \in Nat /\ Publishers(published, h) \in Nat
         /\ Due(h) \in {0, 1}
BY ArrivalsCount, PublishersCount DEF StoreTypeOK, Chats, NoChats, Due

\* Publishing a block can only add publishers, and adds one of that block.
LEMMA PublishCounts ==
  ASSUME StoreTypeOK, NEW g \in Gateway, Publish(g), NEW h \in Height
  PROVE  /\ Publishers(published, h) <= Publishers(published', h)
         /\ h = tip[g] => Publishers(published, h) + 1 <= Publishers(published', h)
<1> DEFINE Of(p) == {k \in Gateway : p[k] >= h}
<1>1. /\ published \in [Gateway -> 0 .. MaxHeight] /\ tip[g] \in 0 .. MaxHeight
      /\ published[g] < tip[g] /\ published' = [published EXCEPT ![g] = tip[g]]
  BY DEF StoreTypeOK, Publish
<1>2. MaxHeight \in Nat /\ h \in Nat
  BY DeliveryAssumption DEF Height
<1>3. /\ IsFiniteSet(Of(published)) /\ IsFiniteSet(Of(published'))
      /\ Publishers(published, h) \in Nat /\ Publishers(published', h) \in Nat
  BY PublishersCount
<1>4. Of(published) \in SUBSET Of(published')
  BY <1>1, <1>2
<1>5. Publishers(published, h) <= Publishers(published', h)
  BY <1>3, <1>4, FS_Subset DEF Publishers
<1>6. ASSUME h = tip[g]
      PROVE  Publishers(published, h) + 1 <= Publishers(published', h)
  <2>1. /\ g \notin Of(published) /\ g \in Of(published')
    BY <1>1, <1>2, <1>6
  <2>2. Of(published) \cup {g} \in SUBSET Of(published')
    BY <1>4, <2>1
  <2>3. Cardinality(Of(published) \cup {g}) = Cardinality(Of(published)) + 1
    <3> HIDE DEF Of
    <3> QED BY <1>3, <2>1, FS_AddElement
  <2>4. Cardinality(Of(published) \cup {g}) <= Cardinality(Of(published'))
    <3> HIDE DEF Of
    <3> QED BY <1>3, <2>2, FS_Subset
  <2>5. Cardinality(Of(published)) + 1 <= Cardinality(Of(published'))
    <3> HIDE DEF Of
    <3> QED BY <2>3, <2>4
  <2> QED BY <2>5 DEF Publishers
<1> QED BY <1>5, <1>6

\* A step keeps the invariant when neither memory nor stream gains more than
\* the publishers do, nor SendText more than was due.
LEMMA CopyStep ==
  ASSUME StoreTypeOK, StoreTypeOK', CopyInv,
         phase' = "off" => stream' = <<>>,
         disk' \in {disk, memory', NoChats},
         \A h \in Incoming :
           /\ Publishers(published, h) <= Publishers(published', h)
           /\ Arrivals(stream', h) <= Publishers(published', h)
           /\ memory'.copies[h] + Arrivals(stream', h) <= 1 + Publishers(published', h),
         \A h \in Own : Due(h)' <= Due(h) /\ memory'.copies[h] + Due(h)' <= 2
  PROVE  CopyInv'
<1>1. ASSUME NEW h \in Height
      PROVE  /\ disk.copies[h] \in Nat /\ memory'.copies[h] \in Nat
             /\ NoChats.copies[h] = 0
             /\ Arrivals(stream', h) \in Nat
             /\ Publishers(published, h) \in Nat /\ Publishers(published', h) \in Nat
             /\ Due(h) \in {0, 1} /\ Due(h)' \in {0, 1}
  BY <1>1, ArrivalsCount, PublishersCount DEF StoreTypeOK, Chats, NoChats, Due
<1>2. ASSUME NEW h \in Incoming
      PROVE  disk'.copies[h] <= 1 + Publishers(published', h)
  <2>1. h \in Height
    BY DeliveryAssumption DEF Height
  <2>2. disk.copies[h] <= 1 + Publishers(published, h)
    BY DEF CopyInv
  <2> QED BY <1>1, <2>1, <2>2
<1>3. ASSUME NEW h \in Own PROVE disk'.copies[h] + Due(h)' <= 2
  <2>1. h \in Height
    BY DeliveryAssumption DEF Height
  <2>2. disk.copies[h] + Due(h) <= 2
    BY DEF CopyInv
  <2> QED BY <1>1, <2>1, <2>2
<1> QED BY <1>2, <1>3 DEF CopyInv

\* A step that leaves the numbers of copies alone and adds nothing to the
\* stream keeps the invariant.
LEMMA QuietStep ==
  ASSUME StoreTypeOK, StoreTypeOK', CopyInv,
         phase' = "off" => stream' = <<>>,
         disk' \in {disk, memory', NoChats},
         memory'.copies = memory.copies,
         \A h \in Height : Arrivals(stream', h) <= Arrivals(stream, h),
         published' = published, \A h \in Own : Due(h)' <= Due(h)
  PROVE  CopyInv'
<1>1. ASSUME NEW h \in Incoming
      PROVE  /\ Publishers(published, h) <= Publishers(published', h)
             /\ Arrivals(stream', h) <= Publishers(published', h)
             /\ memory'.copies[h] + Arrivals(stream', h) <= 1 + Publishers(published', h)
  <2>1. h \in Height
    BY DeliveryAssumption DEF Height
  <2>2. Arrivals(stream', h) \in Nat
    BY ArrivalsCount DEF StoreTypeOK
  <2> QED BY <2>1, <2>2, CopyTypes DEF CopyInv
<1>2. ASSUME NEW h \in Own PROVE memory'.copies[h] + Due(h)' <= 2
  <2>1. h \in Height
    BY DeliveryAssumption DEF Height
  <2>2. Due(h)' \in {0, 1}
    BY DEF Due
  <2> QED BY <2>1, <2>2, CopyTypes DEF CopyInv
<1> QED BY <1>1, <1>2, CopyStep

\* A gateway publishes a block: the one event that is appended is of a block it
\* had not published before.
LEMMA PublishCopies ==
  ASSUME StoreTypeOK, StoreTypeOK', CopyInv, NEW g \in Gateway, Publish(g)
  PROVE  CopyInv'
<1>1. /\ stream \in Seq(Height) /\ tip[g] \in Height
      /\ UNCHANGED <<phase, memory, disk, sent, pending>>
  BY DeliveryAssumption DEF Publish, StoreTypeOK, Height, storeVars, sendVars
<1>2. phase' = "off" => stream' = <<>>
  BY <1>1 DEF Publish, CopyInv
<1>3. ASSUME NEW h \in Incoming
      PROVE  /\ Publishers(published, h) <= Publishers(published', h)
             /\ Arrivals(stream', h) <= Publishers(published', h)
             /\ memory'.copies[h] + Arrivals(stream', h) <= 1 + Publishers(published', h)
  <2>1. h \in Height
    BY DeliveryAssumption DEF Height
  <2>2. Arrivals(stream', h)
          \in {Arrivals(stream, h), Arrivals(stream, h) + (IF tip[g] = h THEN 1 ELSE 0)}
    BY <1>1, AppendArrives DEF Publish
  <2>3. /\ Arrivals(stream, h) <= Publishers(published, h)
        /\ memory.copies[h] + Arrivals(stream, h) <= 1 + Publishers(published, h)
    BY DEF CopyInv
  <2>4. /\ Publishers(published, h) <= Publishers(published', h)
        /\ h = tip[g] => Publishers(published, h) + 1 <= Publishers(published', h)
        /\ Publishers(published', h) \in Nat
    BY <2>1, PublishCounts, PublishersCount
  <2> QED BY <1>1, <2>1, <2>2, <2>3, <2>4, CopyTypes
<1>4. ASSUME NEW h \in Own PROVE Due(h)' <= Due(h) /\ memory'.copies[h] + Due(h)' <= 2
  <2>1. Due(h)' = Due(h) /\ Due(h) \in {0, 1}
    BY <1>1 DEF Due
  <2> QED BY <1>1, <2>1 DEF CopyInv
<1> QED BY <1>1, <1>2, <1>3, <1>4, CopyStep

\* One copy of h more in memory leaves the others as they are.
LEMMA StoredCopies ==
  ASSUME NEW m \in Chats, NEW h \in Height
  PROVE  /\ Stored(m, h).copies[h] = m.copies[h] + 1
         /\ \A k \in Height \ {h} : Stored(m, h).copies[k] = m.copies[k]
<1>1. m.copies \in [Height -> Nat]
  BY DEF Chats
<1>2. Stored(m, h).copies = [m.copies EXCEPT ![h] = @ + 1]
  BY DEF Stored
<1> QED BY <1>1, <1>2

\* A scan stores a message only where there is none.
LEMMA ScanCopies ==
  ASSUME StoreTypeOK, StoreTypeOK', CopyInv, ScanBlock
  PROVE  CopyInv'
<1>1. UNCHANGED <<published, phase, stream, sent, pending>>
  BY DEF ScanBlock, chainVars, sendVars
<1>2. \A h \in Own : Due(h)' = Due(h) /\ Due(h) \in {0, 1}
  BY <1>1 DEF Due
<1>3. phase' = "off" => stream' = <<>>
  BY <1>1 DEF CopyInv
<1>4. CASE Readable(cursor) /\ memory.copies[cursor] = 0
  <2>1. cursor \in Height
    BY <1>4, DeliveryAssumption DEF Readable, Height
  <2>2. memory' = Stored(memory, cursor) /\ disk' \in {disk, memory', NoChats}
    BY <1>4, WriteOutcome DEF ScanBlock, StoreTypeOK
  <2>3. /\ memory'.copies[cursor] = 1
        /\ \A k \in Height \ {cursor} : memory'.copies[k] = memory.copies[k]
    BY <1>4, <2>1, <2>2, StoredCopies DEF StoreTypeOK
  <2>4. ASSUME NEW h \in Incoming
        PROVE  /\ Publishers(published, h) <= Publishers(published', h)
               /\ Arrivals(stream', h) <= Publishers(published', h)
               /\ memory'.copies[h] + Arrivals(stream', h) <= 1 + Publishers(published', h)
    <3>1. h \in Height
      BY DeliveryAssumption DEF Height
    <3> QED BY <1>1, <2>3, <3>1, CopyTypes DEF CopyInv
  <2>5. ASSUME NEW h \in Own PROVE memory'.copies[h] + Due(h)' <= 2
    <3>1. h \in Height
      BY DeliveryAssumption DEF Height
    <3> QED BY <1>2, <2>3, <3>1 DEF CopyInv
  <2> QED BY <1>2, <1>3, <2>2, <2>4, <2>5, CopyStep
<1>5. CASE ~ (Readable(cursor) /\ memory.copies[cursor] = 0)
  <2>1. memory' = memory /\ disk' = disk
    BY <1>5 DEF ScanBlock, storeVars
  <2>2. \A h \in Height : Arrivals(stream', h) <= Arrivals(stream, h)
    BY <1>1, CopyTypes
  <2> QED BY <1>1, <1>2, <1>3, <2>1, <2>2, QuietStep
<1> QED BY <1>4, <1>5

\* What arrives was counted while it was on its way.
LEMMA ReceiveCopies ==
  ASSUME StoreTypeOK, StoreTypeOK', CopyInv, Receive
  PROVE  CopyInv'
<1>1. /\ stream \in Seq(Height) /\ stream # <<>> /\ stream' = Tail(stream)
      /\ Head(stream) \in Height /\ phase' # "off"
      /\ UNCHANGED <<published, sent, pending>>
  <2>1. stream \in Seq(Height) /\ stream # <<>>
    BY DEF Receive, StoreTypeOK
  <2> QED BY <2>1 DEF Receive, chainVars, sendVars
<1>2. \A h \in Own : Due(h)' = Due(h) /\ Due(h) \in {0, 1}
  BY <1>1 DEF Due
<1>3. \A h \in Height :
        Arrivals(stream', h) + (IF Head(stream) = h THEN 1 ELSE 0) <= Arrivals(stream, h)
  BY <1>1, TailArrives
<1>4. \A h \in Height : Arrivals(stream', h) \in Nat /\ Arrivals(stream, h) \in Nat
  BY ArrivalsCount DEF StoreTypeOK
<1>5. CASE Head(stream) \in Incoming
  <2>1. memory' = Stored(memory, Head(stream)) /\ disk' \in {disk, memory', NoChats}
    BY <1>5, WriteOutcome DEF Receive, StoreTypeOK
  <2>2. /\ memory'.copies[Head(stream)] = memory.copies[Head(stream)] + 1
        /\ \A k \in Height \ {Head(stream)} : memory'.copies[k] = memory.copies[k]
    BY <1>1, <2>1, StoredCopies DEF StoreTypeOK
  <2>3. ASSUME NEW h \in Incoming
        PROVE  /\ Publishers(published, h) <= Publishers(published', h)
               /\ Arrivals(stream', h) <= Publishers(published', h)
               /\ memory'.copies[h] + Arrivals(stream', h) <= 1 + Publishers(published', h)
    <3>1. h \in Height
      BY DeliveryAssumption DEF Height
    <3>2. /\ Arrivals(stream, h) <= Publishers(published, h)
          /\ memory.copies[h] + Arrivals(stream, h) <= 1 + Publishers(published, h)
      BY DEF CopyInv
    <3>3. Arrivals(stream', h) + (IF Head(stream) = h THEN 1 ELSE 0) <= Arrivals(stream, h)
      BY <1>3, <3>1
    <3>4. memory'.copies[h] = memory.copies[h] + (IF Head(stream) = h THEN 1 ELSE 0)
      <4>1. memory.copies[h] \in Nat
        BY <3>1, CopyTypes
      <4> QED BY <2>2, <3>1, <4>1
    <3>5. /\ memory.copies[h] \in Nat /\ Publishers(published, h) \in Nat
          /\ Arrivals(stream', h) \in Nat /\ Arrivals(stream, h) \in Nat
      BY <1>4, <3>1, CopyTypes
    <3> QED BY <1>1, <3>2, <3>3, <3>4, <3>5
  <2>4. ASSUME NEW h \in Own PROVE memory'.copies[h] + Due(h)' <= 2
    <3>1. h \in Height \ {Head(stream)}
      BY <1>5, DeliveryAssumption DEF Height
    <3>2. memory'.copies[h] = memory.copies[h]
      BY <2>2, <3>1
    <3>3. memory.copies[h] + Due(h) <= 2
      BY DEF CopyInv
    <3> QED BY <1>2, <3>2, <3>3
  <2> QED BY <1>1, <1>2, <2>1, <2>3, <2>4, CopyStep
<1>6. CASE Head(stream) \notin Incoming
  <2>1. memory' = memory /\ disk' = disk
    BY <1>6 DEF Receive, storeVars
  <2>2. \A h \in Height : Arrivals(stream', h) <= Arrivals(stream, h)
    BY <1>3, <1>4
  <2> QED BY <1>1, <1>2, <2>1, <2>2, QuietStep
<1> QED BY <1>5, <1>6

\* The copy SendText appends was due.
LEMMA AppendSentCopies ==
  ASSUME StoreTypeOK, StoreTypeOK', CopyInv, NEW h \in Own, AppendSent(h)
  PROVE  CopyInv'
<1>1. /\ h \in Height /\ h \notin Incoming /\ h \in pending /\ h \in sent
      /\ pending' = pending \ {h}
      /\ UNCHANGED <<published, phase, stream, sent>>
      /\ disk' \in {disk, memory', NoChats}
  BY WriteOutcome, DeliveryAssumption
     DEF AppendSent, Height, StoreTypeOK, chainVars
<1>2. /\ memory'.copies[h] = memory.copies[h] + 1
      /\ \A k \in Height \ {h} : memory'.copies[k] = memory.copies[k]
  <2>1. memory \in Chats /\ memory.copies \in [Height -> Nat]
    BY DEF StoreTypeOK, Chats
  <2> DEFINE more == [memory.copies EXCEPT ![h] = @ + 1]
  <2>2. memory' = [memory EXCEPT !.copies = more]
    BY DEF AppendSent
  <2>3. more[h] = memory.copies[h] + 1
        /\ \A k \in Height \ {h} : more[k] = memory.copies[k]
    BY <1>1, <2>1
  <2> HIDE DEF more
  <2>4. memory'.copies = more
    BY <2>1, <2>2 DEF Chats
  <2> QED BY <2>3, <2>4
<1>3. /\ Due(h) = 1 /\ Due(h)' = 0
      /\ \A k \in Own \ {h} : Due(k)' = Due(k)
      /\ \A k \in Own : Due(k) \in {0, 1}
  BY <1>1 DEF Due
<1>4. ASSUME NEW k \in Incoming
      PROVE  /\ Publishers(published, k) <= Publishers(published', k)
             /\ Arrivals(stream', k) <= Publishers(published', k)
             /\ memory'.copies[k] + Arrivals(stream', k) <= 1 + Publishers(published', k)
  <2>1. k \in Height \ {h}
    BY <1>1, DeliveryAssumption DEF Height
  <2> QED BY <1>1, <1>2, <2>1, CopyTypes DEF CopyInv
<1>5. ASSUME NEW k \in Own
      PROVE  Due(k)' <= Due(k) /\ memory'.copies[k] + Due(k)' <= 2
  <2>1. k \in Height /\ memory.copies[k] + Due(k) <= 2 /\ memory.copies[k] \in Nat
    BY CopyTypes, DeliveryAssumption DEF Height, CopyInv
  <2> QED BY <1>2, <1>3, <2>1
<1>6. phase' = "off" => stream' = <<>>
  BY <1>1 DEF CopyInv
<1> QED BY <1>1, <1>4, <1>5, <1>6, CopyStep

\* The app starts with what the file holds, and forgets what is on its way
\* when it stops.
LEMMA ProcessCopies ==
  ASSUME StoreTypeOK, StoreTypeOK', CopyInv, Start \/ Stop \/ KilledSaving
  PROVE  CopyInv'
<1>1. /\ published' = published /\ sent' = sent /\ pending' \subseteq pending
      /\ memory' \in {disk, NoChats} /\ disk' \in {disk, NoChats}
      /\ stream' = <<>>
  BY DEF Start, Stop, KilledSaving, Exit, CutOff, chainVars, sendVars, CopyInv
<1>2. ASSUME NEW h \in Own PROVE Due(h)' <= Due(h) /\ memory'.copies[h] + Due(h)' <= 2
  <2>1. Due(h)' <= Due(h) /\ Due(h) \in {0, 1} /\ Due(h)' \in {0, 1}
    BY <1>1 DEF Due
  <2>2. h \in Height /\ disk.copies[h] + Due(h) <= 2
    BY DeliveryAssumption DEF Height, CopyInv
  <2> QED BY <1>1, <2>1, <2>2, CopyTypes
<1>3. ASSUME NEW h \in Incoming
      PROVE  /\ Publishers(published, h) <= Publishers(published', h)
             /\ Arrivals(stream', h) <= Publishers(published', h)
             /\ memory'.copies[h] + Arrivals(stream', h) <= 1 + Publishers(published', h)
  <2>1. h \in Height /\ disk.copies[h] <= 1 + Publishers(published, h)
    BY DeliveryAssumption DEF Height, CopyInv
  <2>2. Arrivals(stream', h) = 0
    BY <1>1, ArrivalsCount DEF StoreTypeOK
  <2> QED BY <1>1, <2>1, <2>2, CopyTypes
<1> QED BY <1>1, <1>2, <1>3, CopyStep

\* Calls, connections, contacts and messages that are sent leave the copies
\* alone, and the stream no longer than it was.
LEMMA OtherCopies ==
  ASSUME StoreTypeOK, StoreTypeOK', CopyInv,
         \/ GetBlocks \/ SyncFailover \/ SyncFails \/ Subscribe \/ Failover
         \/ Disconnect \/ Reconnect \/ AddContact \/ UNCHANGED deliveryVars
         \/ (\E g \in Gateway : Commit(g)) \/ (\E h \in Own : SendText(h))
  PROVE  CopyInv'
<1>1. published' = published /\ sent \subseteq sent' /\ pending' \subseteq pending \cup (sent' \ sent)
  BY DEF GetBlocks, SyncFailover, SyncFails, Subscribe, Failover, Disconnect, Reconnect,
         AddContact, Commit, SendText, deliveryVars, chainVars, sendVars
<1>2. /\ \/ UNCHANGED storeVars \/ Saved \/ NotSaved
      /\ \/ UNCHANGED memory
         \/ memory' = [memory EXCEPT !.synced = cursor]
         \/ memory' = [memory EXCEPT !.contact = TRUE]
  BY DEF GetBlocks, SyncFailover, Answer, SyncFails, Subscribe, Failover, Disconnect,
         Reconnect, AddContact, Commit, SendText, deliveryVars, storeVars
<1>3. memory'.copies = memory.copies
  BY <1>2 DEF StoreTypeOK, Chats
<1>4. disk' \in {disk, memory', NoChats}
  BY <1>2, WriteOutcome DEF storeVars, StoreTypeOK
<1>5. \A h \in Height : Arrivals(stream', h) <= Arrivals(stream, h)
  <2>1. CASE UNCHANGED stream
    BY <2>1, CopyTypes
  <2>2. CASE Disconnect
    <3>1. stream \in Seq(Height)
      BY DEF StoreTypeOK
    <3>2. \/ UNCHANGED stream
          \/ \E n \in 0 .. Len(stream) : stream' = SubSeq(stream, 1, n)
      BY <2>2 DEF Disconnect
    <3> QED BY <2>1, <3>1, <3>2, CutArrives
  <2> QED BY <2>1, <2>2
          DEF GetBlocks, SyncFailover, SyncFails, Subscribe, Failover, Reconnect,
              AddContact, Commit, SendText, deliveryVars
<1>6. phase' = "off" => stream' = <<>>
  <2>1. CASE UNCHANGED <<phase, stream>>
    BY <2>1 DEF CopyInv
  <2>2. CASE phase' \in {"listen", "live", "broken"}
    BY <2>2
  <2>3. CASE GetBlocks \/ SyncFailover
    BY <2>3 DEF GetBlocks, SyncFailover, Asking, Answer
  <2> QED BY <2>1, <2>2, <2>3
          DEF SyncFails, Subscribe, Failover, Disconnect, Reconnect, AddContact,
              Commit, SendText, deliveryVars
<1>7. \A h \in Own : Due(h)' <= Due(h)
  BY <1>1 DEF Due
<1> QED BY <1>1, <1>3, <1>4, <1>5, <1>6, <1>7, QuietStep

LEMMA CopyInvInit == DeliveryInit => CopyInv
<1> SUFFICES ASSUME DeliveryInit PROVE CopyInv
  OBVIOUS
<1>1. StoreTypeOK
  BY DeliveryInvInit DEF DeliveryInv
<1>2. stream = <<>> /\ memory = NoChats /\ disk = NoChats
  BY DEF DeliveryInit
<1>3. ASSUME NEW h \in Height
      PROVE  /\ Arrivals(stream, h) = 0 /\ Publishers(published, h) \in Nat
             /\ memory.copies[h] = 0 /\ disk.copies[h] = 0
             /\ Due(h) \in {0, 1}
  BY <1>1, <1>2, ArrivalsCount, CopyTypes DEF StoreTypeOK
<1> QED BY <1>2, <1>3, DeliveryAssumption DEF CopyInv, Height

LEMMA CopyInvStep ==
  StoreTypeOK /\ StoreTypeOK' /\ CopyInv /\ [DeliveryNext]_deliveryVars => CopyInv'
<1> SUFFICES ASSUME StoreTypeOK, StoreTypeOK', CopyInv, [DeliveryNext]_deliveryVars
             PROVE  CopyInv'
  OBVIOUS
<1>1. CASE \E g \in Gateway : Publish(g)
  BY <1>1, PublishCopies
<1>2. CASE Start \/ Stop \/ KilledSaving
  BY <1>2, ProcessCopies
<1>3. CASE ScanBlock
  BY <1>3, ScanCopies
<1>4. CASE Receive
  BY <1>4, ReceiveCopies
<1>5. CASE \E h \in Own : AppendSent(h)
  BY <1>5, AppendSentCopies
<1> QED BY <1>1, <1>2, <1>3, <1>4, <1>5, OtherCopies
        DEF DeliveryNext, SyncStep, ListenStep

\* However often the app starts, fails over and scans, a message is stored at
\* most once by a scan and once for each gateway that published it, and one's
\* own at most twice (service.go:53-67, 92-145).
THEOREM CopiesBoundedHolds == DeliverySpec => []CopiesBounded
<1>1. StoreTypeOK /\ CopyInv => CopiesBounded
  <2> SUFFICES ASSUME StoreTypeOK, CopyInv PROVE CopiesBounded
    OBVIOUS
  <2>1. ASSUME NEW h \in Incoming PROVE memory.copies[h] <= 1 + Publishers(published, h)
    <3>1. h \in Height
      BY DeliveryAssumption DEF Height
    <3> QED BY <3>1, CopyTypes DEF CopyInv
  <2>2. ASSUME NEW h \in Own PROVE memory.copies[h] <= 2
    <3>1. h \in Height /\ memory.copies[h] + Due(h) <= 2
      BY DeliveryAssumption DEF Height, CopyInv
    <3> QED BY <3>1, CopyTypes
  <2> QED BY <2>1, <2>2 DEF CopiesBounded, Publishers
<1> QED BY <1>1, DeliveryTypeCorrect, CopyInvInit, CopyInvStep, PTL DEF DeliverySpec
=============================================================================
