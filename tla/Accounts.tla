------------------------------ MODULE Accounts ------------------------------
(***************************************************************************)
(* What the two apps have in common: a device on which one identity after  *)
(* another is logged in, the chain that holds the messages of all of them, *)
(* and the chat store that a session fills from it.                        *)
(*                                                                         *)
(* A message is the height of its block, one per block. Gateways that are  *)
(* behind, writes of the store that fail and copies of a message are in    *)
(* module Delivery; here a gateway has the whole chain, a write is done or *)
(* not at all, and a store holds a message or does not.                    *)
(***************************************************************************)
EXTENDS Integers, Sequences

CONSTANTS
  Identity,     \* recovery phrases
  NoIdentity,   \* nothing is saved
  MaxHeight,    \* bound: the last block
  MaxSessions   \* bound: how often somebody logs in or unlocks

ASSUME AccountsAssumption ==
  /\ NoIdentity \notin Identity
  /\ MaxHeight \in Nat /\ MaxSessions \in Nat

VARIABLE chain   \* chain[h]: whose message block h has, and whether it is sent by them

Height == 1 .. MaxHeight

Session == 1 .. MaxSessions

Tip == Len(chain)

\* The messages of w that are on the chain; those w has received.
MessagesOf(w) == {h \in 1 .. Tip : chain[h].wallet = w}

ReceivedBy(w) == {h \in MessagesOf(w) : ~ chain[h].own}

\* chatsFile: the messages, and the height the next scan starts at.
Chats == [messages : SUBSET Height, synced : 0 .. MaxHeight + 1]

NoChats == [messages |-> {}, synced |-> 0]

\* AppendMessage, AppendHistoryMessage.
With(c, hs) == [c EXCEPT !.messages = @ \cup hs]

\* SetLastSyncedHeight.
Checkpointed(c, next) == [c EXCEPT !.synced = next]

AddBlock(w, own) ==
  /\ Tip < MaxHeight
  /\ chain' = Append(chain, [wallet |-> w, own |-> own])

\* The store holds messages of w only, and all it has received below the height
\* the next scan starts at.
BelongsTo(c, w) ==
  /\ c.messages \subseteq MessagesOf(w)
  /\ \A h \in ReceivedBy(w) : h < c.synced => h \in c.messages

ChainTypeOK ==
  /\ chain \in Seq([wallet : Identity, own : BOOLEAN])
  /\ Tip <= MaxHeight
=============================================================================
