------------------------------ MODULE Delivery ------------------------------
(***************************************************************************)
(* How the messages of one wallet get from the chain into its ChatStore:   *)
(* every gateway commits the same blocks at its own pace and publishes     *)
(* them to its subscribers; the app scans what it has missed               *)
(* (Service.SyncHistory), then listens (Client.Listen), failing over to    *)
(* another gateway when its connection breaks.                             *)
(*                                                                         *)
(* A message is the height of the block it is in, at most one per block;   *)
(* all are exchanged with one peer, whose key is known or not.             *)
(***************************************************************************)
EXTENDS Integers, Sequences, FiniteSets

CONSTANTS
  Gateway,     \* the nodes a client may be connected to
  MaxHeight,   \* bound: the last block
  Incoming,    \* the heights of the messages to this wallet
  Own,         \* the heights of the messages this wallet sends
  BatchSize,   \* maxGetBlocksBatch
  BufferSize   \* the capacity of a subscriber's channel

ASSUME DeliveryAssumption ==
  /\ IsFiniteSet(Gateway)
  /\ MaxHeight \in Nat
  /\ Incoming \subseteq 1 .. MaxHeight
  /\ Own \subseteq (1 .. MaxHeight) \ Incoming
  /\ BatchSize \in Nat \ {0}
  /\ BufferSize \in Nat \ {0}

VARIABLES
  tip,        \* tip[g]: the highest block in the store of gateway g
  published,  \* published[g]: the highest block g has handed to its subscribers
  phase,      \* what the app's background goroutine is doing
  conn,       \* Discovery.current
  linked,     \* whether the connection to conn works
  stream,     \* the heights on their way from the gateway's channel to the app
  cursor,     \* FetchHistory: height
  batchEnd,   \* FetchHistory: the height after the last block in resp.Blocks
  known,      \* whether knownX25519Pub has the peer's key
  failed,     \* SyncHistory's err or appendErr, until the stream is open
  memory,     \* ChatStore.data
  disk,       \* what the chats file holds, if it can be parsed
  torn,       \* whether the chats file was cut off in the middle
  sent,       \* own messages a gateway has accepted
  pending     \* those of them SendText has yet to append

chainVars == <<tip, published>>
linkVars == <<conn, linked>>
scanVars == <<cursor, batchEnd, known, failed>>
storeVars == <<memory, disk, torn>>
sendVars == <<sent, pending>>
deliveryVars == <<chainVars, phase, linkVars, stream, scanVars, storeVars, sendVars>>

Height == 1 .. MaxHeight

\* chatsFile: how often each message is stored, whether the peer's contact is
\* there with its key, and SyncedHeight.
Chats == [copies : [Height -> Nat], contact : BOOLEAN, synced : 0 .. MaxHeight + 1]

NoChats == [copies |-> [h \in Height |-> 0], contact |-> FALSE, synced |-> 0]

Running == phase # "off"

DeliveryInit ==
  /\ tip = [g \in Gateway |-> 0] /\ published = tip
  /\ phase = "off"
  /\ conn \in Gateway /\ linked = FALSE
  /\ stream = <<>>
  /\ cursor = 0 /\ batchEnd = 0 /\ known = FALSE /\ failed = FALSE
  /\ memory = NoChats /\ disk = NoChats /\ torn = FALSE
  /\ sent = {} /\ pending = {}

-----------------------------------------------------------------------------
(* The gateways.                                                           *)

\* PutBlock: GetBlocks serves the block from now on. Chain.mu is held until
\* it is published. A block with a message of this wallet needs the message.
Commit(g) ==
  /\ tip[g] < MaxHeight /\ published[g] = tip[g]
  /\ tip[g] + 1 \in Own => tip[g] + 1 \in sent
  /\ tip' = [tip EXCEPT ![g] = @ + 1]
  /\ UNCHANGED <<published, phase, linkVars, stream, scanVars, storeVars, sendVars>>

\* publish: the event is dropped when the subscriber's channel is full.
Publish(g) ==
  /\ published[g] < tip[g]
  /\ published' = [published EXCEPT ![g] = tip[g]]
  /\ stream' = IF phase = "live" /\ conn = g /\ Len(stream) < BufferSize
               THEN Append(stream, tip[g])
               ELSE stream
  /\ UNCHANGED <<tip, phase, linkVars, scanVars, storeVars, sendVars>>

-----------------------------------------------------------------------------
(* The store: each call changes the memory and writes the whole file. The  *)
(* writer may not open, or truncate the file and not write all of it.      *)

Saved == disk' = memory' /\ torn' = FALSE

CutOff == disk' = NoChats /\ torn' \in BOOLEAN

NotSaved == UNCHANGED <<disk, torn>> \/ CutOff

\* A message is appended; its peer is a contact with a key from now on.
Stored(m, h) ==
  [copies |-> [m.copies EXCEPT ![h] = @ + 1], contact |-> TRUE, synced |-> m.synced]

-----------------------------------------------------------------------------
(* Start and stop.                                                         *)

\* The app is opened and connects. A file that does not parse stops it here.
Start ==
  /\ phase = "off" /\ ~ torn
  /\ phase' = "sync"
  /\ conn' \in Gateway /\ linked' = TRUE
  /\ memory' = disk
  /\ cursor' = disk.synced /\ batchEnd' = 0
  /\ known' = disk.contact /\ failed' = FALSE
  /\ UNCHANGED <<chainVars, stream, disk, torn, sendVars>>

\* FetchHistory's variables when it does not run.
NoScan == cursor' = 0 /\ batchEnd' = 0 /\ known' = FALSE

\* Memory is gone with the process.
Exit ==
  /\ Running
  /\ phase' = "off" /\ linked' = FALSE /\ stream' = <<>>
  /\ NoScan /\ failed' = FALSE
  /\ memory' = NoChats /\ pending' = {}
  /\ UNCHANGED <<chainVars, conn, sent>>

\* Closed, or killed, between two calls of the store.
Stop == Exit /\ UNCHANGED <<disk, torn>>

\* Killed in the middle of one: a user who edits a contact can start it anytime.
KilledSaving == Exit /\ CutOff

-----------------------------------------------------------------------------
(* SyncHistory.                                                            *)

\* Mutant: GetBlocks promises blocks the gateway does not have.
ServedEndAnyway(g) == cursor + BatchSize

\* GetBlocks stops at the first block the gateway does not have.
ServedEnd(g) == IF cursor + BatchSize < tip[g] + 1 THEN cursor + BatchSize
                                                   ELSE tip[g] + 1

\* Mutant: the scan is done one block early.
AnswerShort(g) ==
  \/ /\ tip[g] > cursor
     /\ batchEnd' = ServedEnd(g)
     /\ UNCHANGED <<phase, cursor, known, storeVars>>
  \/ /\ tip[g] <= cursor
     /\ phase' = "listen" /\ NoScan
     /\ UNCHANGED storeVars

\* A gateway answers GetBlocks. An empty answer ends the scan, and a scan that
\* has saved everything moves the checkpoint.
Answer(g) ==
  \/ /\ tip[g] >= cursor
     /\ batchEnd' = ServedEnd(g)
     /\ UNCHANGED <<phase, cursor, known, storeVars>>
  \/ /\ tip[g] < cursor
     /\ phase' = "listen" /\ NoScan
     /\ IF failed THEN UNCHANGED storeVars
        ELSE /\ memory' = [memory EXCEPT !.synced = cursor]
             /\ Saved \/ NotSaved

Asking == phase = "sync" /\ cursor >= batchEnd

GetBlocks ==
  /\ Asking /\ linked
  /\ Answer(conn)
  /\ UNCHANGED <<chainVars, linkVars, stream, failed, sendVars>>

\* The call failed; it is made again at another gateway.
SyncFailover ==
  /\ Asking /\ ~ linked
  /\ \E g \in Gateway \ {conn} : conn' = g /\ Answer(g)
  /\ linked' = TRUE
  /\ UNCHANGED <<chainVars, stream, failed, sendVars>>

\* The second call failed too: SyncHistory returns an error, Start listens.
SyncFails ==
  /\ Asking /\ ~ linked
  /\ conn' \in Gateway \ {conn}
  /\ phase' = "listen" /\ failed' = TRUE /\ NoScan
  /\ UNCHANGED <<chainVars, linked, stream, storeVars, sendVars>>

\* Only messages whose key is at hand can be read.
Readable(h) == h \in Incoming \/ (h \in Own /\ known)

\* Mutant: a message is appended without looking for it.
ScanBlockBlindly ==
  /\ phase = "sync" /\ cursor < batchEnd
  /\ cursor' = cursor + 1
  /\ known' = (known \/ cursor \in Incoming)
  /\ IF Readable(cursor)
     THEN memory' = Stored(memory, cursor) /\ Saved
     ELSE UNCHANGED storeVars
  /\ UNCHANGED <<chainVars, phase, linkVars, stream, batchEnd, failed, sendVars>>

\* FetchHistory's loop over a batch, one block at a time: a message is
\* appended unless it is there already.
ScanBlock ==
  /\ phase = "sync" /\ cursor < batchEnd
  /\ cursor' = cursor + 1
  /\ known' = (known \/ cursor \in Incoming)
  /\ IF Readable(cursor) /\ memory.copies[cursor] = 0
     THEN /\ memory' = Stored(memory, cursor)
          /\ \/ Saved /\ UNCHANGED failed
             \/ NotSaved /\ failed' = TRUE
     ELSE UNCHANGED <<storeVars, failed>>
  /\ UNCHANGED <<chainVars, phase, linkVars, stream, batchEnd, sendVars>>

-----------------------------------------------------------------------------
(* Listen. In phase "listen" the stream is being opened, in "broken" the   *)
(* app reads what had arrived before the connection broke.                 *)

\* The gateway's handler subscribes: what it publishes from now on arrives.
\* Nobody needs SyncHistory's error any more.
Subscribe ==
  /\ phase = "listen" /\ linked
  /\ phase' = "live" /\ failed' = FALSE
  /\ UNCHANGED <<chainVars, linkVars, stream, cursor, batchEnd, known, storeVars, sendVars>>

\* Mutant: a message that arrives moves the checkpoint past its block.
ReceiveAndCheckpoint ==
  /\ phase \in {"live", "broken"} /\ stream # <<>>
  /\ stream' = Tail(stream)
  /\ IF Head(stream) \in Incoming
     THEN /\ memory' = [Stored(memory, Head(stream)) EXCEPT !.synced = Head(stream) + 1]
          /\ Saved \/ NotSaved
     ELSE UNCHANGED storeVars
  /\ UNCHANGED <<chainVars, phase, linkVars, scanVars, sendVars>>

\* A message is appended without looking whether it is there; whether it could
\* be saved changes nothing. The gateway skips events that are for others.
Receive ==
  /\ phase \in {"live", "broken"} /\ stream # <<>>
  /\ stream' = Tail(stream)
  /\ IF Head(stream) \in Incoming
     THEN /\ memory' = Stored(memory, Head(stream))
          /\ Saved \/ NotSaved
     ELSE UNCHANGED storeVars
  /\ UNCHANGED <<chainVars, phase, linkVars, scanVars, sendVars>>

\* The stream did not open, or has ended: the next one is at another gateway.
Failover ==
  /\ \/ phase = "listen" /\ ~ linked
     \/ phase = "broken" /\ stream = <<>>
  /\ conn' \in Gateway \ {conn} /\ linked' = TRUE
  /\ phase' = "listen"
  /\ UNCHANGED <<chainVars, stream, scanVars, storeVars, sendVars>>

\* The gateway dies or the network does: what is under way may be lost.
Disconnect ==
  /\ Running /\ linked
  /\ linked' = FALSE
  /\ IF phase = "live"
     THEN /\ phase' = "broken"
          /\ \E n \in 0 .. Len(stream) : stream' = SubSeq(stream, 1, n)
     ELSE UNCHANGED <<phase, stream>>
  /\ UNCHANGED <<chainVars, conn, scanVars, storeVars, sendVars>>

\* gRPC reconnects, or a SendMessage under way fails over.
Reconnect ==
  /\ Running /\ ~ linked
  /\ conn' \in Gateway /\ linked' = TRUE
  /\ UNCHANGED <<chainVars, phase, stream, scanVars, storeVars, sendVars>>

-----------------------------------------------------------------------------
(* What the user does meanwhile.                                           *)

\* UpsertContact, of the peer with its key.
AddContact ==
  /\ Running
  /\ memory' = [memory EXCEPT !.contact = TRUE]
  /\ Saved \/ NotSaved
  /\ UNCHANGED <<chainVars, phase, linkVars, stream, scanVars, sendVars>>

\* SendMessage: a gateway accepts the message, whether or not its answer gets
\* back. When a second gateway answers that it has it already, SendText gives up.
SendText(h) ==
  /\ Running /\ memory.contact /\ h \in Own \ sent
  /\ sent' = sent \cup {h}
  /\ pending' \in {pending, pending \cup {h}}
  /\ UNCHANGED <<chainVars, phase, linkVars, stream, scanVars, storeVars>>

\* SendText goes on: the message is appended without looking whether a scan
\* has found it in the meantime.
AppendSent(h) ==
  /\ h \in pending
  /\ pending' = pending \ {h}
  /\ memory' = [memory EXCEPT !.copies = [memory.copies EXCEPT ![h] = @ + 1]]
  /\ Saved \/ NotSaved
  /\ UNCHANGED <<chainVars, phase, linkVars, stream, scanVars, sent>>

-----------------------------------------------------------------------------

SyncStep == GetBlocks \/ SyncFailover \/ SyncFails \/ ScanBlock

ListenStep == Subscribe \/ Receive \/ Failover

DeliveryNext ==
  \/ \E g \in Gateway : Commit(g) \/ Publish(g)
  \/ Start \/ Stop \/ KilledSaving
  \/ SyncStep \/ ListenStep
  \/ Disconnect \/ Reconnect
  \/ AddContact
  \/ \E h \in Own : SendText(h) \/ AppendSent(h)

DeliverySpec == DeliveryInit /\ [][DeliveryNext]_deliveryVars

\* SyncHistory goes on: every call it makes has a time limit, and Failover
\* tries until a gateway answers.
ScanningSpec == DeliverySpec /\ WF_deliveryVars(SyncStep)

-----------------------------------------------------------------------------
(* Properties.                                                             *)

\* h is at most one past the highest block of some gateway.
OnChain(h) == \E g \in Gateway : h <= tip[g] + 1

\* Every variable has its type, and nothing is ahead of the chain: a gateway
\* publishes what it has, and no scan or checkpoint is past the highest block.
StoreTypeOK ==
  /\ tip \in [Gateway -> 0 .. MaxHeight]
  /\ published \in [Gateway -> 0 .. MaxHeight]
  /\ \A g \in Gateway : published[g] <= tip[g]
  /\ phase \in {"off", "sync", "listen", "live", "broken"}
  /\ conn \in Gateway /\ linked \in BOOLEAN
  /\ stream \in Seq(Height)
  /\ cursor \in 0 .. MaxHeight + 1 /\ batchEnd \in 0 .. MaxHeight + 1
  /\ known \in BOOLEAN /\ failed \in BOOLEAN
  /\ memory \in Chats /\ disk \in Chats /\ torn \in BOOLEAN
  /\ sent \in SUBSET Own /\ pending \in SUBSET sent
  /\ OnChain(cursor) /\ OnChain(batchEnd)
  /\ OnChain(memory.synced) /\ OnChain(disk.synced)

\* The next scan starts at SyncedHeight, so what is below it must be in the
\* file: whatever writes fail, whenever the app is killed and whatever the
\* stream dropped or never carried (service.go:92-145, chat_store.go:42-134).
ScannedIsStored ==
  \A h \in Incoming :
    /\ h < memory.synced => memory.copies[h] > 0
    /\ h < disk.synced => disk.copies[h] > 0

\* Live delivery does not look for duplicates (service.go:53-67), so a message
\* may be stored again by each gateway that commits it after the app has
\* failed over to it; scanning, restarts and failed writes add no more.
\* A message of one's own may be there twice, by the scan and by SendText.
CopiesBounded ==
  /\ \A h \in Incoming :
       memory.copies[h] <= 1 + Cardinality({g \in Gateway : published[g] >= h})
  /\ \A h \in Own : memory.copies[h] <= 2

\* A scan recovers every readable message that all gateways have, although
\* the connection may break in every call, unless it reports an error or the
\* app is stopped (service.go:74-82, client.go:256-354).
StartRecovers ==
  \A h \in Height :
    (/\ phase = "sync" /\ cursor <= h /\ Readable(h)
     /\ \A g \in Gateway : tip[g] >= h)
    ~> memory.copies[h] > 0 \/ failed \/ ~ Running
=============================================================================
