----------------------------- MODULE AppsProofs -----------------------------
(***************************************************************************)
(* On a device with either of the two apps, the chats that are saved are   *)
(* those of the identity that is saved, but for the leftovers the models   *)
(* name; and no step of an app loses a phrase, or reopens a stream that    *)
(* was stopped.                                                            *)
(***************************************************************************)
EXTENDS MCApps, FiniteSetTheorems, TLAPS

-----------------------------------------------------------------------------
(* The chain only grows.                                                   *)

LEMMA MessagesAreHeights ==
  ASSUME ChainTypeOK
  PROVE  /\ Tip \in 0 .. MaxHeight
         /\ \A w : ReceivedBy(w) \subseteq MessagesOf(w) /\ MessagesOf(w) \subseteq 1 .. Tip
         /\ 1 .. Tip \subseteq Height
<1>1. Tip \in Nat /\ Tip <= MaxHeight /\ MaxHeight \in Nat
  BY AccountsAssumption DEF ChainTypeOK, Tip
<1>2. 1 .. Tip \subseteq Height
  BY <1>1 DEF Height
<1> QED BY <1>1, <1>2 DEF MessagesOf, ReceivedBy

\* What every message of anybody was, it still is; new ones are past the tip.
Grown ==
  /\ ChainTypeOK' /\ Tip <= Tip'
  /\ \A w : MessagesOf(w) \subseteq MessagesOf(w)'
  /\ \A w : \A h \in ReceivedBy(w)' : h \in ReceivedBy(w) \/ Tip < h

LEMMA SameChainIsGrown ==
  ASSUME ChainTypeOK, UNCHANGED chain
  PROVE  Grown /\ \A w : MessagesOf(w)' = MessagesOf(w)
<1>1. ChainTypeOK'
  BY DEF ChainTypeOK, Tip
<1>2. \A w : MessagesOf(w)' = MessagesOf(w) /\ ReceivedBy(w)' = ReceivedBy(w)
  BY DEF MessagesOf, ReceivedBy, Tip
<1>3. Tip' = Tip /\ Tip \in Int
  BY MessagesAreHeights DEF Tip
<1> QED BY <1>1, <1>2, <1>3 DEF Grown

LEMMA AddedBlockIsLast ==
  ASSUME ChainTypeOK, NEW w \in Identity, NEW own \in BOOLEAN, AddBlock(w, own)
  PROVE  Grown /\ Tip + 1 \in Height /\ Tip + 1 \in MessagesOf(w)' /\ Tip' = Tip + 1
<1> DEFINE block == [wallet |-> w, own |-> own]
<1>1. /\ chain \in Seq([wallet : Identity, own : BOOLEAN])
      /\ block \in [wallet : Identity, own : BOOLEAN]
      /\ chain' = Append(chain, block)
      /\ Tip < MaxHeight /\ Tip \in Nat /\ MaxHeight \in Nat
  BY AccountsAssumption DEF ChainTypeOK, AddBlock, Tip
<1> HIDE DEF block
<1>2. /\ chain' \in Seq([wallet : Identity, own : BOOLEAN])
      /\ Tip' = Tip + 1
      /\ chain'[Tip + 1] = block
      /\ \A h \in 1 .. Tip : chain'[h] = chain[h]
  BY <1>1 DEF Tip
<1>3. ChainTypeOK' /\ Tip + 1 \in Height
  BY <1>1, <1>2 DEF ChainTypeOK, Height
<1>4. ASSUME NEW v
      PROVE  /\ MessagesOf(v)' = {h \in 1 .. Tip + 1 : chain'[h].wallet = v}
             /\ ReceivedBy(v)' = {h \in MessagesOf(v)' : ~ chain'[h].own}
  BY <1>2 DEF MessagesOf, ReceivedBy, Tip
<1>5. \A h \in 1 .. Tip + 1 : h \in 1 .. Tip \/ h = Tip + 1
  BY <1>1
<1>6. ASSUME NEW v
      PROVE  /\ MessagesOf(v) \subseteq MessagesOf(v)'
             /\ \A h \in ReceivedBy(v)' : h \in ReceivedBy(v) \/ Tip < h
  <2>1. \A h \in 1 .. Tip : h \in 1 .. Tip + 1
    BY <1>1
  <2>2. MessagesOf(v) \subseteq MessagesOf(v)'
    BY <2>1, <1>2, <1>4 DEF MessagesOf
  <2>3. ASSUME NEW h \in ReceivedBy(v)', ~ (Tip < h)
        PROVE  h \in ReceivedBy(v)
    <3>1. h \in 1 .. Tip
      BY <1>1, <1>4, <1>5, <2>3
    <3> QED BY <3>1, <1>2, <1>4, <2>3 DEF ReceivedBy, MessagesOf
  <2> QED BY <2>2, <2>3
<1>7. Tip + 1 \in MessagesOf(w)'
  <2>1. Tip + 1 \in 1 .. Tip + 1
    BY <1>1
  <2> QED BY <2>1, <1>2, <1>4 DEF block
<1>8. Tip <= Tip'
  BY <1>1, <1>2
<1> QED BY <1>2, <1>3, <1>6, <1>7, <1>8 DEF Grown

\* A store that was somebody's stays it, whatever comes in.
LEMMA StillBelongs ==
  ASSUME Grown, ChainTypeOK
  PROVE  \A c \in Chats : \A w :
           BelongsTo(c, w) /\ c.synced <= Tip + 1 =>
             /\ c.messages \subseteq MessagesOf(w)'
             /\ \A h \in ReceivedBy(w)' : h < c.synced => h \in c.messages
<1> SUFFICES ASSUME NEW c \in Chats, NEW w, BelongsTo(c, w), c.synced <= Tip + 1,
                    NEW h \in ReceivedBy(w)', h < c.synced
             PROVE  h \in c.messages
  BY DEF Grown, BelongsTo
<1>1. h \in 1 .. Tip'
  BY MessagesAreHeights DEF Grown, ReceivedBy, MessagesOf
<1>2. Tip \in Nat /\ Tip' \in Nat /\ c.synced \in Int
  BY MessagesAreHeights DEF Chats, Grown, ChainTypeOK, Tip
<1>3. h \in ReceivedBy(w)
  BY <1>1, <1>2 DEF Grown
<1> QED BY <1>3 DEF BelongsTo

LEMMA NoChatsBelong ==
  ASSUME ChainTypeOK
  PROVE  /\ NoChats \in Chats /\ NoChats.synced = 0 /\ NoChats.messages = {}
         /\ \A w : BelongsTo(NoChats, w)
<1>1. NoChats \in Chats /\ NoChats.synced = 0 /\ NoChats.messages = {}
  BY AccountsAssumption DEF NoChats, Chats
<1>2. \A w : \A h \in ReceivedBy(w) : h \in 1 .. Tip
  BY MessagesAreHeights
<1> QED BY <1>1, <1>2 DEF BelongsTo

\* Of some blocks, one is the first.
LEMMA LeastIsOne ==
  ASSUME NEW hs \in SUBSET Height, hs # {}
  PROVE  Least(hs) \in hs
<1> DEFINE Below(h) == {i \in hs : i < h}
           Belows == {Below(h) : h \in hs}
<1>1. IsFiniteSet(Height)
  BY FS_Interval, AccountsAssumption DEF Height
<1>2. IsFiniteSet(hs)
  BY <1>1, FS_Subset
<1>3. IsWellFoundedOn(StrictSubsetOrdering(hs), SUBSET hs)
  BY <1>2, FS_StrictSubsetOrderingWellFounded, FS_FiniteSubsetsOfFinite
<1>4. Belows \subseteq SUBSET hs /\ Belows # {}
  OBVIOUS
<1>5. PICK B \in Belows : \A C \in Belows : ~ (<<C, B>> \in StrictSubsetOrdering(hs))
  <2> HIDE DEF Belows
  <2> QED BY <1>3, <1>4, WFMin
<1>6. PICK h \in hs : B = Below(h)
  BY <1>5
<1>7. \A i \in hs : i \in Int
  BY AccountsAssumption DEF Height
<1>8. ASSUME NEW i \in hs, i < h
      PROVE  FALSE
  <2>1. Below(i) \subseteq Below(h) /\ i \in Below(h) /\ i \notin Below(i)
    BY <1>7, <1>8
  <2>2. Below(i) \in Belows /\ Below(i) \in SUBSET hs /\ Below(h) \in SUBSET hs
    OBVIOUS
  <2> QED BY <2>1, <2>2, <1>5, <1>6 DEF StrictSubsetOrdering
<1>9. \A i \in hs : h <= i
  BY <1>7, <1>8
<1> QED BY <1>9 DEF Least

-----------------------------------------------------------------------------
(* The inductive invariant of the desktop app.                             *)

\* No scan starts, or has got to, more than one block past the tip.
DeskOnChain ==
  /\ file.synced <= Tip + 1
  /\ \A s \in Session : store[s].synced <= Tip + 1 /\ cursor[s] <= Tip + 1

\* A session that will not write any more.
Idle(s) == task[s] \in {"none", "ended"} /\ batch[s] = {} /\ sending[s] = {}

\* A login that has not been yet has done nothing, one that is over is cancelled
\* or idle, and what a session is about to append are messages of its owner.
DeskSessions ==
  /\ \A s \in Session :
       /\ logins < s => Idle(s) /\ ~ cancelled[s]
       /\ s < logins => Idle(s) \/ cancelled[s]
       /\ s <= logins => owner[s] \in Identity
       /\ batch[s] \cup sending[s] \subseteq MessagesOf(owner[s])
       /\ task[s] \in {"asked", "mark", "listen"} => batch[s] = {}
  /\ screen \notin {"main", "erased", "wiped"} =>
       \A s \in Session : s = logins => Idle(s) \/ cancelled[s]

\* What the screen says of the wallet file.
DeskScreens ==
  /\ screen \in {"main", "erased", "wiped"} => logins # 0
  /\ screen = "main" => wallet = owner[logins]
  /\ screen \in {"erased", "wiped"} => wallet \in {owner[logins], NoIdentity}
  /\ screen = "welcome" => wallet = NoIdentity
  /\ screen = "setPin" => phrase \in Identity /\ wallet \in {NoIdentity, Torn, phrase}

\* A scan that is under way has stored, or is about to, all it has passed.
NothingSkipped(s) ==
  task[s] \in {"scan", "asked", "mark"} =>
    \A h \in ReceivedBy(owner[s]) :
      h < cursor[s] => h \in store[s].messages \cup batch[s]

\* The file is the store of the session on the screen, and that is sound; before
\* there is a session, what the file has is the saved identity's.
DeskKept ==
  /\ screen \in {"main", "erased"} =>
       /\ file = store[logins]
       /\ BelongsTo(file, owner[logins])
       /\ NothingSkipped(logins)
  /\ screen \in {"welcome", "setPin"} => file = NoChats
  /\ screen \notin {"main", "erased"} =>
       IF wallet \in Identity THEN BelongsTo(file, wallet) ELSE file = NoChats

DeskInv ==
  /\ DeskTypeOK /\ DeskOnChain /\ DeskSessions /\ DeskScreens
  /\ leftover \/ DeskKept

-----------------------------------------------------------------------------
(* The inductive invariant of the Apple app.                               *)

AppleOnChain ==
  /\ chatStore.synced <= Tip + 1
  /\ \A s \in Session : next[s] <= Tip + 1

\* What a session is about to append are messages of its holder.
AppleSessions ==
  /\ \A s \in Session :
       /\ sessions < s => phase[s] = "none" /\ events[s] = {} /\ outgoing[s] = {}
       /\ s <= sessions => holder[s] \in Identity
       /\ events[s] \cup outgoing[s] \subseteq MessagesOf(holder[s])
  /\ step = "main" <=> current # 0
  /\ step = "setPIN" => mnemonic \in Identity
  /\ \A s \in heard :
       s <= sessions /\ s # current /\ stop[s] /\ phase[s] \in {"opening", "open", "ended"}

\* Of what is under way in the Keychain, all is for w.
OnlyFor(w) == {saving, loading} \subseteq {w, NoIdentity} /\ ready \subseteq {w}

AppleSkippedNothing(s) ==
  phase[s] \in {"fetching", "fetched"} =>
    \A h \in ReceivedBy(holder[s]) :
      h < next[s] =>
        h \in chatStore.messages \/ (phase[s] = "fetched" /\ h \in events[s])

\* What the step says of the Keychain and the store.
AppleKept ==
  /\ step \in {"closed", "welcome"} => ~ Entering
  /\ step \in {"welcome", "setPIN"} => chatStore = NoChats
  /\ step = "closed" =>
       IF keychain \in Identity THEN BelongsTo(chatStore, keychain) ELSE chatStore = NoChats
  /\ step = "setPIN" =>
       OnlyFor(mnemonic) /\ loading = NoIdentity /\ (ready # {} => keychain = mnemonic)
  /\ step = "unlock" =>
       /\ keychain \in Identity
       /\ OnlyFor(keychain) /\ saving = NoIdentity
       /\ BelongsTo(chatStore, keychain)
  /\ step = "main" =>
       /\ keychain = holder[current]
       /\ OnlyFor(keychain)
       /\ BelongsTo(chatStore, keychain)
       /\ AppleSkippedNothing(current)

AppleInv ==
  /\ AppleTypeOK /\ AppleOnChain /\ AppleSessions
  /\ remains \/ AppleKept

-----------------------------------------------------------------------------
(* Every step of the desktop app keeps it, part by part.                   *)

\* The steps after which the chain is what it was.
OfflineStep ==
  \/ Open \/ ChoosePhrase \/ SavePin \/ Unlock
  \/ \E s \in Session : TaskStep(s) \/ AppendSent(s)
  \/ EraseWallet \/ Wipe \/ Leave \/ Quit

LEMMA DeskGrows ==
  ASSUME DeskInv, DeskNext
  PROVE  Grown
<1> USE DEF DeskInv, DeskTypeOK
<1>1. CASE OfflineStep
  <2>1. ASSUME NEW s \in Session, TaskStep(s) \/ AppendSent(s)
        PROVE  UNCHANGED chain
    BY <2>1 DEF TaskStep, AskBlocks, GetBlocks, ScanMessage, Mark, OpenStream, Recv, Handle,
                StreamBreaks, AppendSent
  <2>2. ASSUME SavePin \/ Unlock
        PROVE  UNCHANGED chain
    BY <2>2 DEF SavePin, Unlock, startApp, startFails
  <2>3. ASSUME Open \/ ChoosePhrase \/ EraseWallet \/ Wipe \/ Leave \/ Quit
        PROVE  UNCHANGED chain
    BY <2>3 DEF Open, ChoosePhrase, EraseWallet, Wipe, Leave, Quit
  <2> QED BY <1>1, <2>1, <2>2, <2>3, SameChainIsGrown DEF OfflineStep
<1>2. CASE Send
  <2>1. owner[logins] \in Identity
    BY <1>2 DEF Send, DeskScreens, DeskSessions, Session
  <2> QED BY <1>2, <2>1, AddedBlockIsLast DEF Send
<1>3. CASE Arrive
  BY <1>3, AddedBlockIsLast DEF Arrive
<1> QED BY <1>1, <1>2, <1>3 DEF DeskNext, OfflineStep

LEMMA TaskKeepsType ==
  ASSUME DeskInv, NEW s \in Session, TaskStep(s) \/ AppendSent(s), ChainTypeOK'
  PROVE  DeskTypeOK'
<1> USE DEF DeskInv, DeskTypeOK, screenVars, taskVars, loginVars, chatVars, Tasks
<1> USE AccountsAssumption
<1>1. Tip \in 0 .. MaxHeight /\ \A w : MessagesOf(w) \subseteq Height /\ ReceivedBy(w) \subseteq Height
  BY MessagesAreHeights
<1>2. 0 \in 0 .. MaxHeight + 1 /\ Tip + 1 \in 0 .. MaxHeight + 1
  BY <1>1
<1>3. ASSUME NEW c \in Chats, NEW hs \in SUBSET Height, NEW n \in 0 .. MaxHeight + 1
      PROVE  With(c, hs) \in Chats /\ Checkpointed(c, n) \in Chats
  BY DEF With, Checkpointed, Chats
<1>4. CASE AskBlocks(s)
  BY <1>2, <1>4 DEF AskBlocks, Goto, Outside
<1>5. CASE GetBlocks(s)
  <2>1. task' \in [Session -> Tasks] /\ cursor' \in [Session -> 0 .. MaxHeight + 1]
    BY <1>2, <1>5 DEF GetBlocks, Goto, Outside
  <2>2. batch' \in [Session -> SUBSET Height]
    <3>1. \A unreadable : {h \in MessagesOf(owner[s]) \ unreadable : h >= cursor[s]} \in SUBSET Height
      BY <1>1
    <3> QED BY <3>1, <1>5 DEF GetBlocks
  <2> QED BY <1>5, <2>1, <2>2 DEF GetBlocks
<1>6. CASE ScanMessage(s)
  <2>1. Least(batch[s]) \in Height
    BY <1>6, LeastIsOne DEF ScanMessage
  <2>2. With(store[s], {Least(batch[s])}) \in Chats
    BY <2>1, <1>3
  <2> QED BY <1>6, <2>2 DEF ScanMessage, Write
<1>7. CASE Mark(s)
  <2>1. Checkpointed(store[s], cursor[s]) \in Chats
    BY <1>3
  <2> QED BY <1>2, <1>7, <2>1 DEF Mark, Write, Goto, Outside
<1>8. CASE OpenStream(s)
  BY <1>2, <1>8 DEF OpenStream, Goto
<1>9. CASE Recv(s)
  <2> DEFINE coming == {h \in ReceivedBy(owner[s]) : h >= cursor[s]}
  <2>1. Least(coming) \in Height
    BY <1>1, <1>9, LeastIsOne DEF Recv
  <2>2. Least(coming) + 1 \in 0 .. MaxHeight + 1
    BY <2>1 DEF Height
  <2> HIDE DEF coming
  <2>3. batch' = [batch EXCEPT ![s] = {Least(coming)}] /\ cursor' = [cursor EXCEPT ![s] = Least(coming) + 1]
    BY <1>9 DEF Recv, coming
  <2>4. batch' \in [Session -> SUBSET Height] /\ cursor' \in [Session -> 0 .. MaxHeight + 1]
    BY <2>1, <2>2, <2>3
  <2> QED BY <1>9, <2>4 DEF Recv
<1>10. CASE Handle(s)
  <2>1. With(store[s], batch[s]) \in Chats
    BY <1>3
  <2> QED BY <1>10, <2>1 DEF Handle, Write
<1>11. CASE StreamBreaks(s)
  BY <1>2, <1>11 DEF StreamBreaks, Goto, Outside
<1>12. CASE AppendSent(s)
  <2>1. PICK h \in sending[s] : /\ sending' = [sending EXCEPT ![s] = @ \ {h}]
                                 /\ Write(s, With(store[s], {h}))
                                 /\ UNCHANGED <<chain, screenVars, taskVars, loginVars>>
    BY <1>12 DEF AppendSent
  <2>2. With(store[s], {h}) \in Chats
    BY <1>3
  <2> QED BY <2>1, <2>2 DEF Write
<1> QED BY <1>4, <1>5, <1>6, <1>7, <1>8, <1>9, <1>10, <1>11, <1>12 DEF TaskStep

LEMMA DeskKeepsType ==
  ASSUME DeskInv, DeskNext
  PROVE  DeskTypeOK'
<1> USE DEF DeskInv, DeskTypeOK, screenVars, taskVars, loginVars, chatVars, Tasks, Screens
<1> USE AccountsAssumption, DesktopAssumption
<1>1. ChainTypeOK'
  BY DeskGrows DEF Grown
<1>2. CASE Open
  BY <1>1, <1>2 DEF Open, runOnboarding
<1>3. CASE ChoosePhrase
  BY <1>1, <1>3 DEF ChoosePhrase
<1>4. ASSUME NEW w \in Identity, startApp(w), wallet' \in Identity \cup {NoIdentity, Torn}
      PROVE  DeskTypeOK'
  <2>1. logins + 1 \in Session /\ logins + 1 \in 0 .. MaxSessions
    BY <1>4 DEF startApp, Session
  <2>2. file.synced \in 0 .. MaxHeight + 1
    BY DEF Chats
  <2> QED BY <1>1, <1>4, <2>1, <2>2 DEF startApp, load
<1>5. CASE SavePin
  <2>1. phrase \in Identity
    BY <1>5 DEF SavePin, DeskScreens
  <2>2. wallet' \in Identity \cup {NoIdentity, Torn}
    BY <1>5, <2>1 DEF SavePin, Save, SaveFails
  <2> QED BY <1>1, <1>4, <1>5, <2>1, <2>2 DEF SavePin, startFails
<1>6. CASE Unlock
  BY <1>4, <1>6 DEF Unlock
<1>7. CASE \E s \in Session : TaskStep(s) \/ AppendSent(s)
  BY <1>1, <1>7, TaskKeepsType
<1>8. CASE Send
  <2>1. owner[logins] \in Identity /\ logins \in Session
    BY <1>8 DEF Send, DeskScreens, DeskSessions, Session
  <2>2. Tip + 1 \in Height
    BY <1>8, <2>1, AddedBlockIsLast DEF Send
  <2> QED BY <1>1, <1>8, <2>1, <2>2 DEF Send
<1>9. CASE EraseWallet
  BY <1>1, <1>9 DEF EraseWallet
<1>10. CASE Wipe
  BY <1>1, <1>10, NoChatsBelong DEF Wipe
<1>11. CASE Leave
  BY <1>1, <1>11 DEF Leave, runOnboarding
<1>12. CASE Quit
  <2>1. quits' \in 0 .. MaxQuits
    BY <1>12 DEF Quit
  <2>2. 0 \in 0 .. MaxHeight + 1 /\ NoChats \in Chats
    BY NoChatsBelong
  <2> QED BY <1>1, <1>12, <2>1, <2>2 DEF Quit
<1>13. CASE Arrive
  BY <1>1, <1>13 DEF Arrive
<1> QED BY <1>2, <1>3, <1>5, <1>6, <1>7, <1>8, <1>9, <1>10, <1>11, <1>12, <1>13 DEF DeskNext


LEMMA StoreCalls ==
  ASSUME NEW c \in Chats, NEW hs \in SUBSET Height, NEW n \in 0 .. MaxHeight + 1
  PROVE  /\ With(c, hs) \in Chats
         /\ With(c, hs).messages = c.messages \cup hs /\ With(c, hs).synced = c.synced
         /\ Checkpointed(c, n) \in Chats
         /\ Checkpointed(c, n).messages = c.messages /\ Checkpointed(c, n).synced = n
BY DEF With, Checkpointed, Chats

\* What a step of session s leaves alone: the chain, the screen, the logins and
\* the other sessions; and what it writes it writes to the file as well.
OthersUntouched(s) ==
  /\ UNCHANGED <<chain, screenVars, loginVars>>
  /\ \A t \in Session \ {s} :
       /\ store'[t] = store[t] /\ task'[t] = task[t] /\ cursor'[t] = cursor[t]
       /\ batch'[t] = batch[t] /\ sending'[t] = sending[t]
  /\ \/ UNCHANGED chatVars
     \/ file' = store'[s] /\ leftover' = (leftover \/ cancelled[s] \/ screen = "wiped")

\* What it does of its own: it has and appends messages of its owner only, and a
\* scan skips none.
StaysSound(s) ==
  /\ batch'[s] \cup sending'[s] \subseteq MessagesOf(owner[s])
  /\ store'[s].synced <= Tip + 1 /\ cursor'[s] <= Tip + 1
  /\ task'[s] \in {"asked", "mark", "listen"} => batch'[s] = {}
  /\ store[s].messages \subseteq store'[s].messages
  /\ store'[s].messages \subseteq store[s].messages \cup MessagesOf(owner[s])
  /\ store'[s].synced = store[s].synced \/ (task[s] = "mark" /\ store'[s].synced = cursor[s])
  /\ NothingSkipped(s) => NothingSkipped(s)'

LEMMA TaskTouchesItsOwn ==
  ASSUME DeskInv, NEW s \in Session, TaskStep(s) \/ AppendSent(s)
  PROVE  OthersUntouched(s) /\ ~ Idle(s)
<1> USE DEF DeskInv, DeskTypeOK, screenVars, taskVars, loginVars, chatVars, OthersUntouched, Idle
<1>1. CASE AskBlocks(s)
  BY <1>1 DEF AskBlocks, Goto, Outside
<1>2. CASE GetBlocks(s)
  BY <1>2 DEF GetBlocks, Goto, Outside
<1>3. CASE ScanMessage(s)
  BY <1>3 DEF ScanMessage, Write
<1>4. CASE Mark(s)
  BY <1>4 DEF Mark, Write, Goto, Outside
<1>5. CASE OpenStream(s)
  BY <1>5 DEF OpenStream, Goto
<1>6. CASE Recv(s)
  BY <1>6 DEF Recv
<1>7. CASE Handle(s)
  BY <1>7 DEF Handle, Write
<1>8. CASE StreamBreaks(s)
  BY <1>8 DEF StreamBreaks, Goto, Outside
<1>9. CASE AppendSent(s)
  BY <1>9 DEF AppendSent, Write
<1> QED BY <1>1, <1>2, <1>3, <1>4, <1>5, <1>6, <1>7, <1>8, <1>9 DEF TaskStep

LEMMA TaskStaysSound ==
  ASSUME DeskInv, NEW s \in Session, TaskStep(s) \/ AppendSent(s)
  PROVE  StaysSound(s)
<1> USE DEF DeskInv, DeskTypeOK, screenVars, taskVars, loginVars, chatVars
<1>1. /\ Tip \in Nat /\ Tip <= MaxHeight /\ MaxHeight \in Nat
      /\ \A w : ReceivedBy(w) \subseteq MessagesOf(w) /\ MessagesOf(w) \subseteq 1 .. Tip
      /\ 1 .. Tip \subseteq Height
  BY MessagesAreHeights, AccountsAssumption
<1>2. /\ \A w : MessagesOf(w)' = MessagesOf(w) /\ ReceivedBy(w)' = ReceivedBy(w)
      /\ owner' = owner
  BY TaskTouchesItsOwn DEF OthersUntouched, MessagesOf, ReceivedBy, Tip
<1>3. /\ store[s] \in Chats /\ cursor[s] \in 0 .. MaxHeight + 1 /\ store[s].synced \in Int
      /\ batch[s] \cup sending[s] \subseteq MessagesOf(owner[s])
      /\ batch[s] \in SUBSET Height /\ sending[s] \in SUBSET Height
      /\ task[s] \in {"asked", "mark", "listen"} => batch[s] = {}
      /\ store[s].synced <= Tip + 1 /\ cursor[s] <= Tip + 1
  BY DEF DeskOnChain, DeskSessions, Chats
<1> USE DEF StaysSound, NothingSkipped
<1>4. CASE AskBlocks(s)
  BY <1>1, <1>2, <1>3, <1>4 DEF AskBlocks, Goto, Outside
<1>5. CASE GetBlocks(s)
  <2>1. CASE /\ Goto(s, "scan") /\ cursor' = [cursor EXCEPT ![s] = Tip + 1]
             /\ \E unreadable \in SUBSET (MessagesOf(owner[s]) \ ReceivedBy(owner[s])) :
                  batch' = [batch EXCEPT ![s] =
                              {h \in MessagesOf(owner[s]) \ unreadable : h >= cursor[s]}]
    <3>1. PICK unreadable \in SUBSET (MessagesOf(owner[s]) \ ReceivedBy(owner[s])) :
            batch' = [batch EXCEPT ![s] =
                        {h \in MessagesOf(owner[s]) \ unreadable : h >= cursor[s]}]
      BY <2>1
    <3>2. /\ batch'[s] = {h \in MessagesOf(owner[s]) \ unreadable : h >= cursor[s]}
          /\ cursor'[s] = Tip + 1 /\ task'[s] = "scan" /\ UNCHANGED <<store, sending>>
      BY <1>5, <2>1, <3>1 DEF GetBlocks, Goto
    <3>3. ASSUME NEW h \in ReceivedBy(owner[s]), NothingSkipped(s)
          PROVE  h \in store[s].messages \cup batch'[s]
      <4>1. CASE h < cursor[s]
        BY <1>3, <1>5, <3>3, <4>1 DEF GetBlocks
      <4>2. CASE h >= cursor[s]
        BY <1>1, <3>2, <4>2
      <4> QED BY <1>1, <1>3, <4>1, <4>2
    <3> HIDE DEF NothingSkipped
    <3>4. NothingSkipped(s) => NothingSkipped(s)'
      BY <1>2, <3>2, <3>3 DEF NothingSkipped
    <3>5. batch'[s] \subseteq MessagesOf(owner[s]) /\ Tip + 1 <= Tip + 1
      BY <1>1, <3>2
    <3> QED BY <1>3, <3>2, <3>4, <3>5
  <2>2. CASE Goto(s, "mark") /\ UNCHANGED <<cursor, batch>>
    BY <1>1, <1>2, <1>3, <1>5, <2>2 DEF GetBlocks, Goto
  <2>3. CASE Goto(s, "listen") /\ Outside(s) /\ UNCHANGED batch
    BY <1>1, <1>2, <1>3, <1>5, <2>3 DEF GetBlocks, Goto, Outside
  <2> QED BY <1>5, <2>1, <2>2, <2>3 DEF GetBlocks
<1>6. CASE ScanMessage(s)
  <2> DEFINE h == Least(batch[s])
  <2>1. h \in batch[s] /\ task[s] = "scan" /\ batch' = [batch EXCEPT ![s] = @ \ {h}]
    BY <1>3, <1>6, LeastIsOne DEF ScanMessage
  <2>2. /\ store'[s].messages = store[s].messages \cup {h}
        /\ store'[s].synced = store[s].synced
    <3>1. CASE h \in store[s].messages
      BY <1>6, <3>1 DEF ScanMessage
    <3>2. CASE h \notin store[s].messages
      BY <1>3, <1>6, <2>1, <3>2, StoreCalls, AccountsAssumption DEF ScanMessage, Write
    <3> QED BY <3>1, <3>2
  <2>3. UNCHANGED <<task, cursor, sending>>
    BY <1>6 DEF ScanMessage
  <2> HIDE DEF h
  <2> QED BY <1>1, <1>2, <1>3, <2>1, <2>2, <2>3
<1>7. CASE Mark(s)
  <2>1. /\ store'[s].messages = store[s].messages /\ store'[s].synced = cursor[s]
        /\ task'[s] = "listen" /\ cursor'[s] = 0 /\ task[s] = "mark"
        /\ UNCHANGED <<batch, sending>>
    <3>1. /\ Checkpointed(store[s], cursor[s]).messages = store[s].messages
          /\ Checkpointed(store[s], cursor[s]).synced = cursor[s]
      BY <1>3, StoreCalls
    <3> QED BY <1>7, <3>1 DEF Mark, Write, Goto, Outside
  <2> QED BY <1>1, <1>2, <1>3, <2>1
<1>8. CASE OpenStream(s)
  BY <1>1, <1>2, <1>3, <1>8 DEF OpenStream, Goto
<1>9. CASE Recv(s)
  <2> DEFINE coming == {h \in ReceivedBy(owner[s]) : h >= cursor[s]}
  <2>1. coming \in SUBSET Height /\ coming # {}
    BY <1>1, <1>9 DEF Recv
  <2>2. Least(coming) \in ReceivedBy(owner[s]) /\ Least(coming) \in 1 .. Tip
    BY <1>1, <2>1, LeastIsOne
  <2>3. /\ batch'[s] = {Least(coming)} /\ cursor'[s] = Least(coming) + 1
        /\ task'[s] = "live" /\ UNCHANGED <<store, sending>>
    BY <1>9 DEF Recv
  <2> HIDE DEF coming
  <2> QED BY <1>1, <1>2, <1>3, <2>2, <2>3
<1>10. CASE Handle(s)
  <2>1. /\ store'[s].messages = store[s].messages \cup batch[s]
        /\ store'[s].synced = store[s].synced /\ task'[s] = "live" /\ batch'[s] = {}
        /\ UNCHANGED <<cursor, sending>>
    BY <1>3, <1>10, StoreCalls, AccountsAssumption DEF Handle, Write
  <2> QED BY <1>1, <1>2, <1>3, <2>1
<1>11. CASE StreamBreaks(s)
  BY <1>1, <1>2, <1>3, <1>11 DEF StreamBreaks, Goto, Outside
<1>12. CASE AppendSent(s)
  <2>1. PICK h \in sending[s] : /\ sending' = [sending EXCEPT ![s] = @ \ {h}]
                                 /\ Write(s, With(store[s], {h}))
                                 /\ UNCHANGED <<chain, screenVars, taskVars, loginVars>>
    BY <1>12 DEF AppendSent
  <2>2. /\ store'[s].messages = store[s].messages \cup {h}
        /\ store'[s].synced = store[s].synced
    BY <1>3, <2>1, StoreCalls, AccountsAssumption DEF Write
  <2> QED BY <1>1, <1>2, <1>3, <2>1, <2>2
<1> QED BY <1>4, <1>5, <1>6, <1>7, <1>8, <1>9, <1>10, <1>11, <1>12 DEF TaskStep


-----------------------------------------------------------------------------
(* The rest of the app, and the invariant put together.                    *)

LEMMA DeskKeepsOnChain ==
  ASSUME DeskInv, DeskNext
  PROVE  DeskOnChain'
<1> USE DEF DeskInv, DeskTypeOK, chatVars, taskVars, screenVars, loginVars
<1>1. /\ Tip \in Nat /\ Tip' \in Nat /\ Tip <= Tip' /\ 0 <= Tip' + 1
      /\ file.synced \in Int /\ NoChats.synced = 0
      /\ \A s \in Session : store[s].synced \in Int /\ cursor[s] \in Int
  BY DeskGrows, AccountsAssumption, NoChatsBelong, MessagesAreHeights
     DEF Grown, ChainTypeOK, Chats, Tip
<1>2. /\ file.synced <= Tip + 1
      /\ \A s \in Session : store[s].synced <= Tip + 1 /\ cursor[s] <= Tip + 1
  BY DEF DeskOnChain
<1>3. CASE UNCHANGED <<file, store, cursor>>
  BY <1>1, <1>2, <1>3 DEF DeskOnChain
<1>4. ASSUME NEW w, startApp(w)
      PROVE  DeskOnChain'
  <2>1. /\ file' = file
        /\ store' = [store EXCEPT ![logins + 1] = file]
        /\ cursor' = [cursor EXCEPT ![logins + 1] = file.synced]
    BY <1>4 DEF startApp, load
  <2> QED BY <1>1, <1>2, <2>1 DEF DeskOnChain
<1>5. CASE SavePin \/ Unlock
  BY <1>3, <1>4, <1>5 DEF SavePin, Unlock, startFails
<1>6. ASSUME NEW s \in Session, TaskStep(s) \/ AppendSent(s)
      PROVE  DeskOnChain'
  <2>1. OthersUntouched(s) /\ StaysSound(s)
    BY <1>6, TaskTouchesItsOwn, TaskStaysSound
  <2>2. Tip' = Tip
    BY <2>1 DEF OthersUntouched, Tip
  <2> QED BY <1>1, <1>2, <2>1, <2>2 DEF DeskOnChain, OthersUntouched, StaysSound
<1>7. CASE Wipe
  BY <1>1, <1>2, <1>7 DEF Wipe, DeskOnChain
<1>8. CASE Quit
  <2>1. \A s \in Session : store'[s].synced = 0 /\ cursor'[s] = 0
    BY <1>1, <1>8 DEF Quit
  <2>2. file'.synced <= Tip' + 1
    BY <1>1, <1>2, <1>8 DEF Quit
  <2> QED BY <1>1, <2>1, <2>2 DEF DeskOnChain
<1>9. CASE Open \/ ChoosePhrase \/ Send \/ EraseWallet \/ Leave \/ Arrive
  <2>1. UNCHANGED <<file, store, cursor>>
    BY <1>9 DEF Open, ChoosePhrase, Send, EraseWallet, Leave, Arrive
  <2> QED BY <1>3, <2>1
<1> QED BY <1>5, <1>6, <1>7, <1>8, <1>9 DEF DeskNext

LEMMA DeskKeepsScreens ==
  ASSUME DeskInv, DeskNext
  PROVE  DeskScreens'
<1> USE DEF DeskInv, DeskTypeOK, DeskScreens, chatVars, taskVars, screenVars, loginVars, Screens
<1> USE DesktopAssumption, AccountsAssumption
<1>1. CASE Open \/ ChoosePhrase
  BY <1>1 DEF Open, runOnboarding, ChoosePhrase
<1>2. ASSUME NEW w, startApp(w), wallet' = w
      PROVE  DeskScreens'
  BY <1>2 DEF startApp, Session
<1>3. CASE SavePin \/ Unlock
  BY <1>2, <1>3 DEF SavePin, Unlock, startFails, Save, SaveFails, Loads
<1>4. ASSUME NEW s \in Session, TaskStep(s) \/ AppendSent(s)
      PROVE  DeskScreens'
  BY <1>4, TaskTouchesItsOwn DEF OthersUntouched
<1>5. CASE Send \/ Arrive
  BY <1>5 DEF Send, Arrive
<1>6. CASE EraseWallet \/ Wipe
  BY <1>6 DEF EraseWallet, Wipe
<1>7. CASE Leave
  BY <1>7 DEF Leave, runOnboarding
<1>8. CASE Quit
  BY <1>8 DEF Quit
<1> QED BY <1>1, <1>3, <1>4, <1>5, <1>6, <1>7, <1>8 DEF DeskNext

LEMMA DeskKeepsSessions ==
  ASSUME DeskInv, DeskNext
  PROVE  DeskSessions'
<1> USE DEF DeskInv, DeskTypeOK, DeskSessions, chatVars, taskVars, screenVars, loginVars
<1>1. /\ \A w : MessagesOf(w) \subseteq MessagesOf(w)'
      /\ logins \in Int /\ \A s \in Session : s \in Int
  BY DeskGrows DEF Grown, Session
<1>2. CASE /\ screen \notin {"main", "erased", "wiped"} \/ screen' \in {"main", "erased", "wiped"}
           /\ UNCHANGED <<taskVars, loginVars, sending>>
  BY <1>1, <1>2 DEF Idle
<1>3. CASE Open \/ ChoosePhrase \/ EraseWallet \/ Wipe \/ Arrive
  BY <1>2, <1>3 DEF Open, ChoosePhrase, EraseWallet, Wipe, Arrive
<1>4. ASSUME NEW w \in Identity, startApp(w), screen \in {"setPin", "unlock"}
      PROVE  DeskSessions'
  <2>1. /\ logins' = logins + 1 /\ logins + 1 \in Session /\ screen' = "main"
        /\ owner' = [owner EXCEPT ![logins + 1] = w]
        /\ task' = [task EXCEPT ![logins + 1] = "scan"]
        /\ UNCHANGED <<cancelled, batch, sending>>
    BY <1>4 DEF startApp
  <2>2. Idle(logins + 1)
    BY <1>1, <2>1
  <2>3. ASSUME NEW s \in Session
        PROVE  /\ s # logins + 1 => (Idle(s)' <=> Idle(s)) /\ owner'[s] = owner[s] /\ task'[s] = task[s]
               /\ s = logins + 1 => task'[s] = "scan" /\ batch'[s] = {} /\ sending'[s] = {} /\ owner'[s] = w
    BY <2>1, <2>2 DEF Idle
  <2> QED BY <1>1, <1>4, <2>1, <2>3
<1>5. CASE SavePin
  <2>1. phrase \in Identity /\ screen = "setPin"
    BY <1>5 DEF SavePin, DeskScreens
  <2> QED BY <1>2, <1>4, <1>5, <2>1 DEF SavePin, startFails
<1>6. CASE Unlock
  BY <1>4, <1>6 DEF Unlock
<1>7. ASSUME NEW s \in Session, TaskStep(s) \/ AppendSent(s)
      PROVE  DeskSessions'
  <2>1. OthersUntouched(s) /\ StaysSound(s) /\ ~ Idle(s)
    BY <1>7, TaskTouchesItsOwn, TaskStaysSound
  <2>2. UNCHANGED <<chain, screen, logins, owner, cancelled>> /\ \A w : MessagesOf(w)' = MessagesOf(w)
    BY <2>1 DEF OthersUntouched, MessagesOf, Tip
  <2>3. ASSUME NEW t \in Session \ {s}
        PROVE  (Idle(t)' <=> Idle(t)) /\ task'[t] = task[t] /\ batch'[t] = batch[t] /\ sending'[t] = sending[t]
    BY <2>1 DEF OthersUntouched, Idle
  <2>4. /\ batch'[s] \cup sending'[s] \subseteq MessagesOf(owner[s])
        /\ task'[s] \in {"asked", "mark", "listen"} => batch'[s] = {}
    BY <2>1 DEF StaysSound
  <2> QED BY <1>1, <2>1, <2>2, <2>3, <2>4
<1>8. CASE Send
  <2>1. owner[logins] \in Identity /\ logins \in Session
    BY <1>8 DEF Send, DeskScreens, Session
  <2>2. Tip + 1 \in MessagesOf(owner[logins])'
    BY <1>8, <2>1, AddedBlockIsLast DEF Send
  <2>3. /\ sending' = [sending EXCEPT ![logins] = @ \cup {Tip + 1}]
        /\ screen = "main" /\ UNCHANGED <<screenVars, taskVars, loginVars>>
    BY <1>8 DEF Send
  <2>4. ASSUME NEW s \in Session, s # logins
        PROVE  Idle(s)' <=> Idle(s)
    BY <2>3, <2>4 DEF Idle
  <2> QED BY <1>1, <2>1, <2>2, <2>3, <2>4
<1>9. CASE Leave
  <2>1. /\ cancelled' = [cancelled EXCEPT ![logins] = TRUE] /\ logins \in Session
        /\ UNCHANGED <<taskVars, sending, logins, owner>>
    BY <1>9 DEF Leave, DeskScreens, Session
  <2>2. \A s \in Session : Idle(s)' <=> Idle(s)
    BY <2>1 DEF Idle
  <2> QED BY <1>1, <2>1, <2>2
<1>10. CASE Quit
  BY <1>1, <1>10 DEF Quit, Idle
<1> QED BY <1>3, <1>5, <1>6, <1>7, <1>8, <1>9, <1>10 DEF DeskNext


\* The step of a session: the file stays that of the session on the screen, or
\* something is left over.
LEMMA TaskKeepsKept ==
  ASSUME DeskInv, NEW s \in Session, TaskStep(s) \/ AppendSent(s), ~ leftover'
  PROVE  DeskKept'
<1> USE DEF DeskInv, DeskTypeOK, chatVars, screenVars, loginVars
<1>1. OthersUntouched(s) /\ StaysSound(s) /\ ~ Idle(s)
  BY TaskTouchesItsOwn, TaskStaysSound
<1>2. /\ UNCHANGED <<chain, screen, phrase, wallet, logins, owner, cancelled>>
      /\ \A w : MessagesOf(w)' = MessagesOf(w) /\ ReceivedBy(w)' = ReceivedBy(w)
  BY <1>1 DEF OthersUntouched, MessagesOf, ReceivedBy, Tip
<1>3. DeskKept
  BY <1>1 DEF OthersUntouched
<1>4. CASE s = logins /\ screen \in {"main", "erased"}
  <2>1. file = store[s] /\ BelongsTo(file, owner[s]) /\ NothingSkipped(s)
    BY <1>3, <1>4 DEF DeskKept
  <2>2. file' = store'[s]
    BY <1>1, <2>1 DEF OthersUntouched
  <2>3. BelongsTo(file, owner[s])'
    <3>1. store'[s].messages \subseteq MessagesOf(owner[s])
      BY <1>1, <2>1 DEF StaysSound, BelongsTo
    <3>2. ASSUME NEW h \in ReceivedBy(owner[s]), h < store'[s].synced
          PROVE  h \in store'[s].messages
      <4>1. CASE store'[s].synced = store[s].synced
        BY <1>1, <2>1, <3>2, <4>1 DEF StaysSound, BelongsTo
      <4>2. CASE task[s] = "mark" /\ store'[s].synced = cursor[s]
        <5>1. batch[s] = {}
          BY <4>2 DEF DeskSessions
        <5> QED BY <1>1, <2>1, <3>2, <4>2, <5>1 DEF StaysSound, NothingSkipped
      <4> QED BY <1>1, <4>1, <4>2 DEF StaysSound
    <3> QED BY <1>2, <2>2, <3>1, <3>2 DEF BelongsTo
  <2>4. NothingSkipped(s)'
    BY <1>1, <2>1 DEF StaysSound
  <2> QED BY <1>2, <1>4, <2>2, <2>3, <2>4 DEF DeskKept
<1>5. CASE ~ (s = logins /\ screen \in {"main", "erased"})
  <2>1. cancelled[s] \/ screen = "wiped"
    <3>1. logins \in Int /\ s \in Int
      BY DEF Session
    <3> QED BY <1>1, <1>5, <3>1 DEF DeskSessions
  <2>2. UNCHANGED chatVars
    BY <1>1, <2>1 DEF OthersUntouched
  <2>3. CASE screen \notin {"main", "erased"}
    BY <1>2, <1>3, <2>2, <2>3 DEF DeskKept, BelongsTo
  <2>4. CASE screen \in {"main", "erased"}
    <3>1. s # logins /\ logins \in Session
      BY <1>5, <2>4 DEF DeskScreens, Session
    <3>2. /\ task'[logins] = task[logins] /\ cursor'[logins] = cursor[logins]
          /\ batch'[logins] = batch[logins]
      BY <1>1, <3>1 DEF OthersUntouched
    <3>3. NothingSkipped(logins) => NothingSkipped(logins)'
      BY <1>2, <2>2, <3>2 DEF NothingSkipped
    <3>4. BelongsTo(file, owner[logins]) => BelongsTo(file, owner[logins])'
      BY <1>2, <2>2 DEF BelongsTo
    <3> QED BY <1>2, <1>3, <2>2, <2>4, <3>3, <3>4 DEF DeskKept
  <2> QED BY <2>3, <2>4
<1> QED BY <1>4, <1>5

LEMMA DeskKeepsKept ==
  ASSUME DeskInv, DeskNext, ~ leftover'
  PROVE  DeskKept'
<1> USE DEF DeskInv, DeskTypeOK, chatVars, taskVars, screenVars, loginVars
<1> USE DesktopAssumption, AccountsAssumption
<1>1. Grown /\ ChainTypeOK'
  BY DeskGrows DEF Grown
<1>2. ASSUME NEW w, BelongsTo(file, w), UNCHANGED file
      PROVE  BelongsTo(file, w)'
  BY <1>1, <1>2, StillBelongs DEF BelongsTo, DeskOnChain
<1>3. ASSUME NEW w
      PROVE  BelongsTo(NoChats, w) /\ (file' = NoChats => BelongsTo(file, w)')
  <2>1. NoChats.synced <= Tip + 1
    BY NoChatsBelong, MessagesAreHeights
  <2> QED BY <1>1, <2>1, NoChatsBelong, StillBelongs DEF BelongsTo
<1>4. CASE Wipe /\ file' = NoChats
  BY <1>3, <1>4 DEF Wipe, DeskKept
<1>5. CASE Wipe /\ file' # NoChats
  <2>1. /\ UNCHANGED <<file, wallet>> /\ DeskKept /\ wallet # NoIdentity
        /\ screen = "erased" /\ screen' = "wiped"
    BY <1>5 DEF Wipe
  <2>2. wallet = owner[logins] /\ BelongsTo(file, wallet)
    BY <2>1 DEF DeskScreens, DeskKept
  <2>3. wallet \in Identity
    BY <2>1, <2>2 DEF DeskSessions, DeskScreens, Session
  <2> QED BY <1>2, <2>1, <2>2, <2>3 DEF DeskKept
<1>6. ASSUME NEW s \in Session, TaskStep(s) \/ AppendSent(s)
      PROVE  DeskKept'
  BY <1>6, TaskKeepsKept
<1>7. ASSUME NEW w \in Identity, startApp(w), BelongsTo(file, w)
      PROVE  DeskKept'
  <2> DEFINE s == logins + 1
  <2>1. /\ s \in Session /\ logins' = s /\ owner'[s] = w /\ store'[s] = file
        /\ task'[s] = "scan" /\ cursor'[s] = file.synced /\ screen' = "main"
        /\ UNCHANGED file
    BY <1>7 DEF startApp, load
  <2>2. BelongsTo(file, w)'
    BY <1>2, <1>7, <2>1
  <2> HIDE DEF s
  <2>3. NothingSkipped(logins)'
    BY <2>1, <2>2 DEF NothingSkipped, BelongsTo
  <2> QED BY <2>1, <2>2, <2>3 DEF DeskKept, BelongsTo
<1>8. CASE SavePin
  <2>1. /\ phrase \in Identity /\ screen = "setPin" /\ wallet \in {NoIdentity, Torn, phrase}
    BY <1>8 DEF SavePin, DeskScreens
  <2>2. UNCHANGED file /\ DeskKept
    BY <1>8 DEF SavePin, startApp, startFails
  <2>3. file = NoChats
    BY <2>1, <2>2 DEF DeskKept
  <2>4. CASE startApp(phrase)
    BY <1>3, <1>7, <2>1, <2>3, <2>4
  <2>5. CASE startFails
    BY <1>3, <2>1, <2>2, <2>3, <2>5 DEF startFails, DeskKept
  <2> QED BY <1>8, <2>4, <2>5 DEF SavePin
<1>9. CASE Unlock
  <2>1. PICK w \in Identity : wallet = w /\ startApp(w) /\ screen = "unlock"
    BY <1>9 DEF Unlock, Loads
  <2>2. DeskKept
    BY <2>1 DEF startApp
  <2> QED BY <1>7, <2>1, <2>2 DEF DeskKept
<1>10. CASE Open \/ ChoosePhrase \/ Leave
  <2>1. /\ UNCHANGED <<file, wallet>> /\ DeskKept
        /\ screen \notin {"main", "erased"} /\ screen' \notin {"main", "erased"}
        /\ screen' \in {"welcome", "setPin"} => wallet = NoIdentity
    BY <1>10 DEF Open, ChoosePhrase, Leave, runOnboarding, DeskScreens
  <2> QED BY <1>2, <1>3, <2>1 DEF DeskKept
<1>11. CASE Send \/ EraseWallet \/ Arrive
  <2>1. /\ UNCHANGED <<chatVars, taskVars, loginVars>> /\ DeskKept
        /\ \/ screen \in {"main", "erased"} /\ screen' \in {"main", "erased"}
           \/ UNCHANGED <<screen, wallet>>
    BY <1>11 DEF Send, EraseWallet, Arrive
  <2>2. CASE screen \in {"main", "erased"} /\ screen' \in {"main", "erased"}
    <3>1. /\ file = store[logins] /\ BelongsTo(file, owner[logins]) /\ NothingSkipped(logins)
          /\ logins \in Session
      BY <2>1, <2>2 DEF DeskKept, DeskScreens, Session
    <3>2. \A w : \A h \in ReceivedBy(w)' : h < cursor[logins] => h \in ReceivedBy(w)
      <4>1. cursor[logins] <= Tip + 1 /\ cursor[logins] \in Int /\ Tip \in Int
        BY <3>1, MessagesAreHeights DEF DeskOnChain
      <4>2. \A w : \A h \in ReceivedBy(w)' : h \in Int
        BY <1>1 DEF ReceivedBy, MessagesOf
      <4> QED BY <1>1, <4>1, <4>2 DEF Grown
    <3>3. NothingSkipped(logins)'
      BY <2>1, <3>1, <3>2 DEF NothingSkipped
    <3>4. BelongsTo(file, owner[logins])'
      BY <1>2, <2>1, <3>1 DEF BelongsTo
    <3> QED BY <2>1, <2>2, <3>1, <3>3, <3>4 DEF DeskKept
  <2>3. CASE UNCHANGED <<screen, wallet>> /\ screen \notin {"main", "erased"}
    BY <1>2, <2>1, <2>3 DEF DeskKept, BelongsTo
  <2> QED BY <2>1, <2>2, <2>3
<1>12. CASE Quit
  <2>1. /\ UNCHANGED file /\ DeskKept /\ screen' = "closed"
        /\ wallet' = wallet \/ (wallet' = Torn /\ screen = "setPin")
        /\ ~ (screen = "erased" /\ wallet = NoIdentity)
    BY <1>12 DEF Quit
  <2>2. CASE screen \in {"main", "erased"}
    <3>1. wallet' = owner[logins] /\ BelongsTo(file, owner[logins]) /\ owner[logins] \in Identity
      BY <2>1, <2>2 DEF DeskKept, DeskScreens, DeskSessions, Session
    <3> QED BY <1>2, <2>1, <3>1 DEF DeskKept, BelongsTo
  <2>3. CASE screen \notin {"main", "erased"}
    <3>1. CASE wallet' = wallet
      BY <1>2, <2>1, <2>3, <3>1 DEF DeskKept, BelongsTo
    <3>2. CASE wallet' = Torn /\ screen = "setPin"
      BY <2>1, <3>2 DEF DeskKept
    <3> QED BY <2>1, <3>1, <3>2
  <2> QED BY <2>2, <2>3
<1> QED BY <1>4, <1>5, <1>6, <1>8, <1>9, <1>10, <1>11, <1>12 DEF DeskNext

LEMMA DeskInvInit == DeskInit => DeskInv
<1> SUFFICES ASSUME DeskInit PROVE DeskInv
  OBVIOUS
<1> USE DEF DeskInit
<1>1. ChainTypeOK /\ Tip = 0
  BY AccountsAssumption DEF ChainTypeOK, Tip
<1>2. NoChats \in Chats /\ NoChats.synced = 0
  BY <1>1, NoChatsBelong
<1>3. DeskTypeOK
  <2>1. 0 \in 0 .. MaxHeight + 1 /\ 0 \in 0 .. MaxSessions /\ 0 \in 0 .. MaxQuits
    BY AccountsAssumption, DesktopAssumption
  <2>2. /\ store \in [Session -> Chats] /\ cursor \in [Session -> 0 .. MaxHeight + 1]
        /\ task \in [Session -> Tasks]
    BY <1>2, <2>1 DEF Tasks
  <2> QED BY <1>1, <1>2, <2>1, <2>2 DEF DeskTypeOK, Screens
<1>4. DeskOnChain
  BY <1>1, <1>2 DEF DeskOnChain
<1>5. DeskSessions
  BY DEF DeskSessions, Idle, Session
<1>6. DeskScreens /\ DeskKept
  BY AccountsAssumption DEF DeskScreens, DeskKept
<1> QED BY <1>3, <1>4, <1>5, <1>6 DEF DeskInv

LEMMA DeskInvNext == DeskInv /\ [DeskNext]_deskVars => DeskInv'
<1> SUFFICES ASSUME DeskInv, [DeskNext]_deskVars PROVE DeskInv'
  OBVIOUS
<1>1. CASE DeskNext
  BY <1>1, DeskKeepsType, DeskKeepsOnChain, DeskKeepsSessions, DeskKeepsScreens, DeskKeepsKept
     DEF DeskInv
<1>2. CASE UNCHANGED deskVars
  <2> USE <1>2 DEF deskVars, windowVars, screenVars, taskVars, loginVars, chatVars
  <2>1. DeskTypeOK' /\ DeskScreens'
    BY DEF DeskInv, DeskTypeOK, ChainTypeOK, Tip, DeskScreens
  <2>2. DeskOnChain' /\ DeskSessions'
    BY DEF DeskInv, DeskOnChain, Tip, DeskSessions, Idle, MessagesOf
  <2>3. leftover' \/ DeskKept'
    BY DEF DeskInv, DeskKept, BelongsTo, NothingSkipped, ReceivedBy, MessagesOf, Tip
  <2> QED BY <2>1, <2>2, <2>3 DEF DeskInv
<1> QED BY <1>1, <1>2


-----------------------------------------------------------------------------
(* The threads of the Apple app.                                           *)

\* What a thread of session s leaves alone; and of a session that is not the one
\* on the screen, the store has something afterwards.
OtherThreadsUntouched(s) ==
  /\ UNCHANGED <<chain, walletVars, sessionVars, kills, stop, heard>>
  /\ \A t \in Session \ {s} :
       /\ phase'[t] = phase[t] /\ next'[t] = next[t]
       /\ events'[t] = events[t] /\ outgoing'[t] = outgoing[t]
  /\ UNCHANGED <<chatStore, remains>> \/ remains' = (remains \/ s # current)

\* What it does of its own.
ThreadStaysSound(s) ==
  /\ events'[s] \cup outgoing'[s] \subseteq MessagesOf(holder[s])
  /\ chatStore'.synced <= Tip + 1 /\ next'[s] <= Tip + 1
  /\ chatStore.messages \subseteq chatStore'.messages
  /\ chatStore'.messages \subseteq chatStore.messages \cup MessagesOf(holder[s])
  /\ \/ chatStore'.synced = chatStore.synced
     \/ /\ phase[s] = "fetched" /\ chatStore'.synced = next[s]
        /\ events[s] \subseteq chatStore'.messages
  /\ BelongsTo(chatStore, holder[s]) /\ AppleSkippedNothing(s) => AppleSkippedNothing(s)'

LEMMA ThreadTouchesItsOwn ==
  ASSUME AppleInv, NEW s \in Session, ThreadStep(s) \/ Sent(s)
  PROVE  /\ OtherThreadsUntouched(s)
         /\ phase[s] # "none" \/ events[s] # {} \/ outgoing[s] # {}
<1> USE DEF AppleInv, AppleTypeOK, OtherThreadsUntouched, threadVars, sessionVars, historyVars,
            BesidesThread, Uncounted, To, Persist
<1>1. CASE Connect(s)
  BY <1>1 DEF Connect
<1>2. CASE FetchHistory(s)
  BY <1>2 DEF FetchHistory
<1>3. CASE SyncHistory(s)
  BY <1>3 DEF SyncHistory
<1>4. CASE BeginListening(s)
  BY <1>4 DEF BeginListening
<1>5. CASE Subscribe(s)
  BY <1>5 DEF Subscribe
<1>6. CASE OnMessage(s)
  BY <1>6 DEF OnMessage
<1>7. CASE Deliver(s)
  BY <1>7 DEF Deliver
<1>8. CASE StreamEnds(s)
  BY <1>8 DEF StreamEnds
<1>9. CASE Sent(s)
  BY <1>9 DEF Sent
<1> QED BY <1>1, <1>2, <1>3, <1>4, <1>5, <1>6, <1>7, <1>8, <1>9 DEF ThreadStep

\* Types, and that a session which was stopped while it listened only ends.
LEMMA ThreadKeepsType ==
  ASSUME AppleInv, NEW s \in Session, ThreadStep(s) \/ Sent(s)
  PROVE  /\ AppleTypeOK'
         /\ stop[s] /\ phase[s] \in {"opening", "open", "ended"} => phase'[s] \in {phase[s], "ended"}
         /\ phase[s] \in {"opening", "open", "ended"} => phase'[s] \in {"opening", "open", "ended"}
<1> USE DEF AppleInv, AppleTypeOK, threadVars, sessionVars, walletVars, historyVars, Phases,
            BesidesThread, Uncounted, To, Persist
<1> USE AccountsAssumption
<1>1. /\ Tip \in 0 .. MaxHeight /\ 0 \in 0 .. MaxHeight + 1 /\ Tip + 1 \in 0 .. MaxHeight + 1
      /\ \A w : MessagesOf(w) \subseteq Height /\ ReceivedBy(w) \subseteq Height
  BY MessagesAreHeights
<1>2. UNCHANGED chain => ChainTypeOK'
  BY SameChainIsGrown DEF Grown
<1>3. \A hs \in SUBSET Height : With(chatStore, hs) \in Chats
  BY StoreCalls
<1>4. CASE Connect(s)
  <2>1. chatStore.synced \in 0 .. MaxHeight + 1
    BY DEF Chats
  <2> QED BY <1>2, <1>4, <2>1 DEF Connect
<1>5. CASE FetchHistory(s)
  <2>1. phase' \in [Session -> Phases] /\ next' \in [Session -> 0 .. MaxHeight + 1]
    BY <1>1, <1>5 DEF FetchHistory
  <2>2. events' \in [Session -> SUBSET Height]
    <3>1. \A unreadable : {h \in MessagesOf(holder[s]) \ unreadable : h >= next[s]} \in SUBSET Height
      BY <1>1
    <3> QED BY <3>1, <1>5 DEF FetchHistory
  <2> QED BY <1>2, <1>5, <2>1, <2>2 DEF FetchHistory
<1>6. CASE SyncHistory(s)
  <2>1. Checkpointed(With(chatStore, events[s]), next[s]) \in Chats
    BY <1>3, StoreCalls
  <2> QED BY <1>1, <1>2, <1>6, <2>1 DEF SyncHistory
<1>7. CASE BeginListening(s)
  BY <1>2, <1>7 DEF BeginListening
<1>8. CASE Subscribe(s)
  BY <1>1, <1>2, <1>8 DEF Subscribe
<1>9. CASE OnMessage(s)
  <2>1. PICK h \in ReceivedBy(holder[s]) :
             /\ events' = [events EXCEPT ![s] = @ \cup {h}]
             /\ next' = [next EXCEPT ![s] = h + 1]
             /\ UNCHANGED <<phase, stop, historyVars>> /\ BesidesThread
    BY <1>9 DEF OnMessage
  <2>2. h \in Height /\ h + 1 \in 0 .. MaxHeight + 1
    BY <1>1 DEF Height
  <2> QED BY <1>2, <2>1, <2>2
<1>10. CASE Deliver(s)
  <2>1. PICK h \in events[s] :
             /\ Persist(s, With(chatStore, {h}))
             /\ events' = [events EXCEPT ![s] = @ \ {h}]
             /\ UNCHANGED <<phase, stop, next>> /\ BesidesThread
    BY <1>10 DEF Deliver
  <2>2. With(chatStore, {h}) \in Chats
    BY <1>3
  <2> QED BY <1>2, <2>1, <2>2
<1>11. CASE StreamEnds(s)
  BY <1>1, <1>2, <1>11 DEF StreamEnds
<1>12. CASE Sent(s)
  <2>1. PICK h \in outgoing[s] :
             /\ outgoing' = [outgoing EXCEPT ![s] = @ \ {h}]
             /\ Persist(s, With(chatStore, {h}))
             /\ UNCHANGED <<chain, walletVars, threadVars, sessionVars, kills>>
    BY <1>12 DEF Sent
  <2>2. With(chatStore, {h}) \in Chats
    BY <1>3
  <2> QED BY <1>2, <2>1, <2>2
<1> QED BY <1>4, <1>5, <1>6, <1>7, <1>8, <1>9, <1>10, <1>11, <1>12 DEF ThreadStep

LEMMA ThreadIsSound ==
  ASSUME AppleInv, NEW s \in Session, ThreadStep(s) \/ Sent(s)
  PROVE  ThreadStaysSound(s)
<1> USE DEF AppleInv, AppleTypeOK, threadVars, sessionVars, historyVars,
            BesidesThread, Uncounted, To, Persist
<1>1. /\ Tip \in Nat /\ Tip <= MaxHeight /\ MaxHeight \in Nat
      /\ \A w : ReceivedBy(w) \subseteq MessagesOf(w) /\ MessagesOf(w) \subseteq 1 .. Tip
      /\ 1 .. Tip \subseteq Height
  BY MessagesAreHeights, AccountsAssumption
<1>2. /\ \A w : MessagesOf(w)' = MessagesOf(w) /\ ReceivedBy(w)' = ReceivedBy(w)
      /\ holder' = holder
  BY ThreadTouchesItsOwn DEF OtherThreadsUntouched, MessagesOf, ReceivedBy, Tip
<1>3. /\ chatStore \in Chats /\ next[s] \in 0 .. MaxHeight + 1 /\ chatStore.synced \in Int
      /\ events[s] \cup outgoing[s] \subseteq MessagesOf(holder[s])
      /\ events[s] \in SUBSET Height /\ outgoing[s] \in SUBSET Height
      /\ chatStore.synced <= Tip + 1 /\ next[s] <= Tip + 1
  BY DEF AppleOnChain, AppleSessions, Chats
<1>4. \A hs \in SUBSET Height :
        /\ With(chatStore, hs).messages = chatStore.messages \cup hs
        /\ With(chatStore, hs).synced = chatStore.synced
        /\ With(chatStore, hs) \in Chats
  BY <1>3, StoreCalls
<1> USE DEF ThreadStaysSound, AppleSkippedNothing
<1>5. CASE Connect(s)
  BY <1>1, <1>2, <1>3, <1>5 DEF Connect, BelongsTo
<1>6. CASE FetchHistory(s)
  <2>1. CASE To(s, "launching") /\ Uncounted(s) /\ UNCHANGED events
    BY <1>1, <1>2, <1>3, <1>6, <2>1 DEF FetchHistory
  <2>2. CASE /\ To(s, "fetched") /\ next' = [next EXCEPT ![s] = Tip + 1]
             /\ \E unreadable \in SUBSET (MessagesOf(holder[s]) \ ReceivedBy(holder[s])) :
                  events' = [events EXCEPT ![s] =
                               {h \in MessagesOf(holder[s]) \ unreadable : h >= next[s]}]
    <3>1. PICK unreadable \in SUBSET (MessagesOf(holder[s]) \ ReceivedBy(holder[s])) :
            events' = [events EXCEPT ![s] =
                         {h \in MessagesOf(holder[s]) \ unreadable : h >= next[s]}]
      BY <2>2
    <3>2. /\ events'[s] = {h \in MessagesOf(holder[s]) \ unreadable : h >= next[s]}
          /\ next'[s] = Tip + 1 /\ phase'[s] = "fetched" /\ phase[s] = "fetching"
          /\ UNCHANGED <<chatStore, outgoing>>
      BY <1>6, <2>2, <3>1 DEF FetchHistory
    <3>3. ASSUME NEW h \in ReceivedBy(holder[s]), AppleSkippedNothing(s)
          PROVE  h \in chatStore.messages \/ h \in events'[s]
      <4>1. CASE h < next[s]
        BY <3>2, <3>3, <4>1
      <4>2. CASE h >= next[s]
        BY <1>1, <3>2, <4>2
      <4> QED BY <1>1, <1>3, <4>1, <4>2
    <3> HIDE DEF AppleSkippedNothing
    <3>4. AppleSkippedNothing(s) => AppleSkippedNothing(s)'
      BY <1>2, <3>2, <3>3 DEF AppleSkippedNothing
    <3>5. events'[s] \subseteq MessagesOf(holder[s]) /\ Tip + 1 <= Tip + 1
      BY <1>1, <3>2
    <3> QED BY <1>3, <3>2, <3>4, <3>5
  <2> QED BY <1>6, <2>1, <2>2 DEF FetchHistory
<1>7. CASE SyncHistory(s)
  <2>1. /\ chatStore'.messages = chatStore.messages \cup events[s]
        /\ chatStore'.synced = next[s]
    <3>1. /\ chatStore' = Checkpointed(With(chatStore, events[s]), next[s])
          /\ With(chatStore, events[s]) \in Chats
      BY <1>3, <1>4, <1>7 DEF SyncHistory
    <3>2. /\ chatStore'.messages = With(chatStore, events[s]).messages
          /\ chatStore'.synced = next[s]
      BY <1>3, <3>1, StoreCalls
    <3> QED BY <1>3, <1>4, <3>2
  <2>2. /\ phase[s] = "fetched" /\ phase'[s] = "launching" /\ next'[s] = 0 /\ events'[s] = {}
        /\ UNCHANGED outgoing
    BY <1>7 DEF SyncHistory
  <2> QED BY <1>1, <1>2, <1>3, <2>1, <2>2
<1>8. CASE BeginListening(s)
  BY <1>1, <1>2, <1>3, <1>8 DEF BeginListening
<1>9. CASE Subscribe(s)
  BY <1>1, <1>2, <1>3, <1>9 DEF Subscribe
<1>10. CASE OnMessage(s)
  <2>1. PICK h \in ReceivedBy(holder[s]) :
             /\ phase[s] = "open" /\ events'[s] = events[s] \cup {h} /\ next'[s] = h + 1
             /\ UNCHANGED <<phase, chatStore, outgoing>>
    BY <1>10 DEF OnMessage
  <2>2. h + 1 <= Tip + 1 /\ h \in MessagesOf(holder[s])
    BY <1>1
  <2> QED BY <1>1, <1>2, <1>3, <2>1, <2>2
<1>11. CASE Deliver(s)
  <2>1. PICK h \in events[s] :
             /\ phase[s] # "fetched" /\ chatStore' = With(chatStore, {h})
             /\ events'[s] = events[s] \ {h} /\ UNCHANGED <<phase, next, outgoing>>
    BY <1>11 DEF Deliver
  <2>2. /\ chatStore'.messages = chatStore.messages \cup {h}
        /\ chatStore'.synced = chatStore.synced
    BY <1>3, <1>4, <2>1
  <2> QED BY <1>1, <1>2, <1>3, <2>1, <2>2
<1>12. CASE StreamEnds(s)
  BY <1>1, <1>2, <1>3, <1>12 DEF StreamEnds
<1>13. CASE Sent(s)
  <2>1. PICK h \in outgoing[s] :
             /\ chatStore' = With(chatStore, {h}) /\ outgoing'[s] = outgoing[s] \ {h}
             /\ UNCHANGED <<phase, next, events>>
    BY <1>13 DEF Sent
  <2>2. /\ chatStore'.messages = chatStore.messages \cup {h}
        /\ chatStore'.synced = chatStore.synced
    BY <1>3, <1>4, <2>1
  <2> QED BY <1>1, <1>2, <1>3, <2>1, <2>2
<1> QED BY <1>5, <1>6, <1>7, <1>8, <1>9, <1>10, <1>11, <1>12, <1>13 DEF ThreadStep


-----------------------------------------------------------------------------
(* The rest of the Apple app, and its invariant put together.              *)

LEMMA OnScreen ==
  ASSUME AppleInv, step = "main"
  PROVE  current \in Session /\ current <= sessions /\ holder[current] \in Identity
BY AccountsAssumption DEF AppleInv, AppleTypeOK, AppleSessions, Session

LEMMA AppleGrows ==
  ASSUME AppleInv, AppleNext
  PROVE  Grown
<1>1. ChainTypeOK
  BY DEF AppleInv, AppleTypeOK
<1>2. CASE UNCHANGED chain
  BY <1>1, <1>2, SameChainIsGrown
<1>3. ASSUME NEW s \in Session, ThreadStep(s) \/ Sent(s)
      PROVE  UNCHANGED chain
  BY <1>3, ThreadTouchesItsOwn DEF OtherThreadsUntouched
<1>4. CASE SendText
  BY <1>1, <1>4, OnScreen, AddedBlockIsLast DEF SendText
<1>5. CASE WriteTo
  BY <1>1, <1>5, AddedBlockIsLast DEF WriteTo
<1>6. CASE \/ Relaunch \/ ChooseMnemonic \/ AskKeychain \/ SaveEnds \/ LoadEnds \/ LogOutInstead
           \/ CompleteOnboarding \/ OnboardingFails \/ Logout \/ Kill
  <2>1. UNCHANGED chain
    BY <1>6 DEF Relaunch, ChooseMnemonic, AskKeychain, SaveEnds, LoadEnds, LogOutInstead,
                CompleteOnboarding, OnboardingFails, Logout, Kill, BesidesWallet
  <2> QED BY <1>2, <2>1
<1> QED BY <1>2, <1>3, <1>4, <1>5, <1>6 DEF AppleNext

LEMMA AppleKeepsType ==
  ASSUME AppleInv, AppleNext
  PROVE  AppleTypeOK'
<1> USE DEF AppleInv, AppleTypeOK, threadVars, sessionVars, walletVars, historyVars, BesidesWallet, Steps
<1> USE AccountsAssumption, AppleAssumption
<1>1. ChainTypeOK'
  BY AppleGrows DEF Grown
<1>2. NoChats \in Chats /\ 0 \in 0 .. MaxHeight + 1
  BY NoChatsBelong
<1>3. CASE Relaunch
  BY <1>1, <1>3 DEF Relaunch, FirstStep
<1>4. CASE ChooseMnemonic
  BY <1>1, <1>4 DEF ChooseMnemonic
<1>5. CASE AskKeychain
  BY <1>1, <1>5 DEF AskKeychain
<1>6. CASE SaveEnds
  BY <1>1, <1>6 DEF SaveEnds
<1>7. CASE LoadEnds
  BY <1>1, <1>7 DEF LoadEnds
<1>8. CASE LogOutInstead
  BY <1>1, <1>8 DEF LogOutInstead, Entering
<1>9. CASE CompleteOnboarding
  <2>1. sessions + 1 \in Session => sessions + 1 \in 0 .. MaxSessions /\ sessions + 1 \in 0 .. sessions + 1
    BY DEF Session
  <2> QED BY <1>1, <1>9, <2>1 DEF CompleteOnboarding, Phases
<1>10. CASE OnboardingFails
  BY <1>1, <1>10 DEF OnboardingFails
<1>11. CASE Logout
  <2>1. current \in Session /\ 0 \in 0 .. sessions
    BY <1>11, OnScreen DEF Logout
  <2>2. stop' \in [Session -> BOOLEAN]
    <3>1. Listening(current) \in BOOLEAN
      BY DEF Listening
    <3>2. stop' = [stop EXCEPT ![current] = Listening(current)]
      BY <1>11 DEF Logout, Close
    <3> QED BY <3>1, <3>2
  <2>3. heard' \subseteq Session
    BY <1>11, <2>1 DEF Logout
  <2> QED BY <1>1, <1>2, <1>11, <2>1, <2>2, <2>3 DEF Logout, wipe, Entering, FirstStep
<1>12. CASE Kill
  <2>1. /\ phase' \in [Session -> Phases] /\ next' \in [Session -> 0 .. MaxHeight + 1]
        /\ events' \in [Session -> SUBSET Height] /\ outgoing' \in [Session -> SUBSET Height]
    BY <1>2, <1>12 DEF Kill, Phases
  <2>2. current' \in 0 .. sessions' /\ kills' \in 0 .. MaxKills
    BY <1>12 DEF Kill
  <2> QED BY <1>1, <1>12, <2>1, <2>2 DEF Kill
<1>13. CASE \E s \in Session : ThreadStep(s) \/ Sent(s)
  BY <1>13, ThreadKeepsType
<1>14. CASE SendText
  <2>1. Tip + 1 \in Height /\ current \in Session
    BY <1>14, OnScreen, AddedBlockIsLast DEF SendText
  <2> QED BY <1>1, <1>14, <2>1 DEF SendText
<1>15. CASE WriteTo
  BY <1>1, <1>15 DEF WriteTo
<1> QED BY <1>3, <1>4, <1>5, <1>6, <1>7, <1>8, <1>9, <1>10, <1>11, <1>12, <1>13, <1>14, <1>15
        DEF AppleNext

LEMMA AppleKeepsOnChain ==
  ASSUME AppleInv, AppleNext
  PROVE  AppleOnChain'
<1> USE DEF AppleInv, AppleTypeOK, threadVars, sessionVars, historyVars
<1>1. /\ Tip \in Nat /\ Tip' \in Nat /\ Tip <= Tip' /\ 0 <= Tip' + 1
      /\ chatStore.synced \in Int /\ NoChats.synced = 0
      /\ \A s \in Session : next[s] \in Int
  BY AppleGrows, AccountsAssumption, NoChatsBelong, MessagesAreHeights
     DEF Grown, ChainTypeOK, Chats, Tip
<1>2. chatStore.synced <= Tip + 1 /\ \A s \in Session : next[s] <= Tip + 1
  BY DEF AppleOnChain
<1>3. CASE UNCHANGED <<chatStore, next>>
  BY <1>1, <1>2, <1>3 DEF AppleOnChain
<1>4. CASE \/ Relaunch \/ ChooseMnemonic \/ AskKeychain \/ SaveEnds \/ LoadEnds \/ LogOutInstead
           \/ CompleteOnboarding \/ OnboardingFails \/ SendText \/ WriteTo
  <2>1. UNCHANGED <<chatStore, next>>
    BY <1>4 DEF Relaunch, ChooseMnemonic, AskKeychain, SaveEnds, LoadEnds, LogOutInstead,
                CompleteOnboarding, OnboardingFails, SendText, WriteTo, BesidesWallet
  <2> QED BY <1>3, <2>1
<1>5. CASE Logout
  BY <1>1, <1>2, <1>5 DEF Logout, wipe, AppleOnChain
<1>6. CASE Kill
  <2>1. UNCHANGED chatStore /\ \A s \in Session : next'[s] = 0
    BY <1>6 DEF Kill
  <2> QED BY <1>1, <1>2, <2>1 DEF AppleOnChain
<1>7. ASSUME NEW s \in Session, ThreadStep(s) \/ Sent(s)
      PROVE  AppleOnChain'
  <2>1. OtherThreadsUntouched(s) /\ ThreadStaysSound(s)
    BY <1>7, ThreadTouchesItsOwn, ThreadIsSound
  <2>2. Tip' = Tip
    BY <2>1 DEF OtherThreadsUntouched, Tip
  <2> QED BY <1>1, <1>2, <2>1, <2>2 DEF AppleOnChain, OtherThreadsUntouched, ThreadStaysSound
<1> QED BY <1>4, <1>5, <1>6, <1>7 DEF AppleNext

LEMMA AppleKeepsSessions ==
  ASSUME AppleInv, AppleNext
  PROVE  AppleSessions'
<1> USE DEF AppleInv, AppleTypeOK, AppleSessions, threadVars, sessionVars, walletVars, historyVars
<1>1. /\ \A w : MessagesOf(w) \subseteq MessagesOf(w)'
      /\ sessions \in Int /\ current \in Int /\ \A s \in Session : s \in Int
  BY AppleGrows DEF Grown, Session
<1>2. CASE Relaunch \/ ChooseMnemonic \/ AskKeychain \/ SaveEnds \/ LoadEnds \/ LogOutInstead \/ OnboardingFails
  <2>1. /\ UNCHANGED <<threadVars, sessionVars, outgoing, heard>>
        /\ step = "main" <=> step' = "main"
        /\ step' = "setPIN" => mnemonic' \in Identity
    BY <1>2 DEF Relaunch, FirstStep, ChooseMnemonic, AskKeychain, SaveEnds, LoadEnds, LogOutInstead,
                OnboardingFails, BesidesWallet
  <2> QED BY <1>1, <2>1
<1>3. CASE CompleteOnboarding
  <2>1. PICK w \in ready :
          /\ sessions + 1 \in Session /\ sessions' = sessions + 1 /\ current' = sessions + 1
          /\ holder' = [holder EXCEPT ![sessions + 1] = w]
          /\ phase' = [phase EXCEPT ![sessions + 1] = "connecting"]
          /\ step' = "main" /\ UNCHANGED <<stop, events, outgoing, heard>>
    BY <1>3 DEF CompleteOnboarding
  <2>2. w \in Identity /\ events[sessions + 1] = {} /\ outgoing[sessions + 1] = {}
    BY <1>1, <2>1
  <2>3. ASSUME NEW s \in Session
        PROVE  /\ s # sessions + 1 => holder'[s] = holder[s] /\ phase'[s] = phase[s]
               /\ s = sessions + 1 => holder'[s] = w
    BY <2>1
  <2>4. \A s \in heard : s # current' /\ s <= sessions'
    BY <1>1, <2>1
  <2>5. \A s \in heard : stop'[s] /\ phase'[s] \in {"opening", "open", "ended"}
    BY <1>1, <2>1, <2>3
  <2> QED BY <1>1, <2>1, <2>2, <2>3, <2>4, <2>5
<1>4. CASE Logout
  <2>1. /\ current \in Session /\ current <= sessions
        /\ stop' = [stop EXCEPT ![current] = Listening(current)]
        /\ heard' = heard \cup {s \in {current} : Listening(s)}
        /\ current' = 0 /\ step' \in {"welcome", "unlock"}
        /\ UNCHANGED <<phase, events, outgoing, sessions, holder>>
    BY <1>4, OnScreen DEF Logout, Close, FirstStep
  <2>2. ASSUME NEW s \in heard'
        PROVE  /\ s <= sessions /\ s # 0 /\ stop'[s]
               /\ phase[s] \in {"opening", "open", "ended"}
    <3>1. CASE s = current /\ Listening(current)
      <4>1. stop'[current] = Listening(current)
        BY <2>1
      <4>2. stop'[s]
        BY <3>1, <4>1, Zenon
      <4>3. phase[s] \in {"opening", "open", "ended"} /\ s # 0
        BY <2>1, <3>1 DEF Listening, Session
      <4> QED BY <2>1, <3>1, <4>2, <4>3
    <3>2. CASE s \in heard /\ s # current
      BY <2>1, <3>2 DEF Session
    <3> QED BY <2>1, <3>1, <3>2
  <2> QED BY <1>1, <2>1, <2>2
<1>5. CASE Kill
  <2>1. /\ phase' = [s \in Session |-> IF s <= sessions THEN "ended" ELSE "none"]
        /\ \A s \in Session : events'[s] = {} /\ outgoing'[s] = {}
        /\ current' = 0 /\ step' = "closed"
        /\ UNCHANGED <<stop, sessions, holder, heard>>
    BY <1>5 DEF Kill
  <2>2. \A s \in heard : s \in Session /\ s # 0 /\ s <= sessions
    BY DEF Session
  <2> QED BY <1>1, <2>1, <2>2
<1>6. ASSUME NEW s \in Session, ThreadStep(s) \/ Sent(s)
      PROVE  AppleSessions'
  <2>1. /\ OtherThreadsUntouched(s) /\ ThreadStaysSound(s)
        /\ phase[s] # "none" \/ events[s] # {} \/ outgoing[s] # {}
        /\ phase[s] \in {"opening", "open", "ended"} => phase'[s] \in {"opening", "open", "ended"}
    BY <1>6, ThreadTouchesItsOwn, ThreadIsSound, ThreadKeepsType
  <2>2. /\ UNCHANGED <<step, mnemonic, current, sessions, holder, stop, heard>>
        /\ \A w : MessagesOf(w)' = MessagesOf(w)
    BY <2>1 DEF OtherThreadsUntouched, MessagesOf, Tip
  <2>3. s <= sessions
    BY <1>1, <2>1
  <2>4. \A t \in Session \ {s} :
          phase'[t] = phase[t] /\ events'[t] = events[t] /\ outgoing'[t] = outgoing[t]
    BY <2>1 DEF OtherThreadsUntouched
  <2>5. events'[s] \cup outgoing'[s] \subseteq MessagesOf(holder[s])
    BY <2>1 DEF ThreadStaysSound
  <2> QED BY <1>1, <2>1, <2>2, <2>3, <2>4, <2>5
<1>7. CASE SendText
  <2>1. current \in Session /\ current <= sessions /\ Tip + 1 \in MessagesOf(holder[current])'
    BY <1>7, OnScreen, AddedBlockIsLast DEF SendText
  <2>2. /\ outgoing' = [outgoing EXCEPT ![current] = @ \cup {Tip + 1}]
        /\ UNCHANGED <<walletVars, threadVars, sessionVars, heard>>
    BY <1>7 DEF SendText
  <2> QED BY <1>1, <2>1, <2>2
<1>8. CASE WriteTo
  BY <1>1, <1>8 DEF WriteTo
<1> QED BY <1>2, <1>3, <1>4, <1>5, <1>6, <1>7, <1>8 DEF AppleNext


LEMMA ThreadKeepsKept ==
  ASSUME AppleInv, NEW s \in Session, ThreadStep(s) \/ Sent(s), ~ remains'
  PROVE  AppleKept'
<1> USE DEF AppleInv, AppleTypeOK, walletVars, sessionVars
<1>1. OtherThreadsUntouched(s) /\ ThreadStaysSound(s)
  BY ThreadTouchesItsOwn, ThreadIsSound
<1>2. /\ UNCHANGED <<chain, step, mnemonic, keychain, saving, loading, ready, current, holder>>
      /\ \A w : MessagesOf(w)' = MessagesOf(w) /\ ReceivedBy(w)' = ReceivedBy(w)
  BY <1>1 DEF OtherThreadsUntouched, MessagesOf, ReceivedBy, Tip
<1>3. /\ AppleKept
      /\ s = current \/ UNCHANGED chatStore
  <2>1. CASE UNCHANGED <<chatStore, remains>>
    BY <2>1
  <2>2. CASE remains' = (remains \/ s # current)
    <3>1. ~ (remains \/ s # current)
      BY <2>2, Zenon
    <3> QED BY <3>1
  <2> QED BY <1>1, <2>1, <2>2 DEF OtherThreadsUntouched
<1>4. CASE step = "main"
  <2>1. /\ keychain = holder[current] /\ OnlyFor(keychain) /\ current \in Session
        /\ BelongsTo(chatStore, holder[current]) /\ AppleSkippedNothing(current)
    BY <1>3, <1>4, OnScreen DEF AppleKept
  <2>2. BelongsTo(chatStore, holder[current])' /\ AppleSkippedNothing(current)'
    <3>1. CASE s = current
      <4>1. chatStore'.messages \subseteq MessagesOf(holder[s])
        BY <1>1, <2>1, <3>1 DEF ThreadStaysSound, BelongsTo
      <4>2. ASSUME NEW h \in ReceivedBy(holder[s]), h < chatStore'.synced
            PROVE  h \in chatStore'.messages
        <5>1. CASE chatStore'.synced = chatStore.synced
          BY <1>1, <2>1, <3>1, <4>2, <5>1 DEF ThreadStaysSound, BelongsTo
        <5>2. CASE /\ phase[s] = "fetched" /\ chatStore'.synced = next[s]
                   /\ events[s] \subseteq chatStore'.messages
          BY <1>1, <2>1, <3>1, <4>2, <5>2 DEF ThreadStaysSound, AppleSkippedNothing
        <5> QED BY <1>1, <5>1, <5>2 DEF ThreadStaysSound
      <4>3. BelongsTo(chatStore, holder[current])'
        BY <1>2, <3>1, <4>1, <4>2 DEF BelongsTo
      <4>4. AppleSkippedNothing(s)'
        BY <1>1, <2>1, <3>1 DEF ThreadStaysSound
      <4> QED BY <1>2, <3>1, <4>3, <4>4 DEF AppleSkippedNothing
    <3>2. CASE s # current
      <4>1. /\ UNCHANGED chatStore /\ phase'[current] = phase[current]
            /\ next'[current] = next[current] /\ events'[current] = events[current]
        BY <1>1, <1>3, <2>1, <3>2 DEF OtherThreadsUntouched
      <4> QED BY <1>2, <2>1, <4>1 DEF BelongsTo, AppleSkippedNothing
    <3> QED BY <3>1, <3>2
  <2> QED BY <1>2, <1>4, <2>1, <2>2 DEF AppleKept, OnlyFor
<1>5. CASE step # "main"
  <2>1. UNCHANGED chatStore
    <3>1. current = 0
      BY <1>5 DEF AppleSessions
    <3> QED BY <1>3, <3>1 DEF Session
  <2> QED BY <1>2, <1>3, <1>5, <2>1 DEF AppleKept, OnlyFor, Entering, BelongsTo
<1> QED BY <1>4, <1>5

LEMMA AppleKeepsKept ==
  ASSUME AppleInv, AppleNext, ~ remains'
  PROVE  AppleKept'
<1> USE DEF AppleInv, AppleTypeOK, walletVars, threadVars, sessionVars, historyVars, BesidesWallet
<1> USE AccountsAssumption
<1>1. Grown
  BY AppleGrows
<1>2. ASSUME NEW w, BelongsTo(chatStore, w), UNCHANGED chatStore
      PROVE  BelongsTo(chatStore, w)'
  BY <1>1, <1>2, StillBelongs DEF BelongsTo, AppleOnChain
<1>3. ASSUME NEW w
      PROVE  BelongsTo(NoChats, w) /\ (chatStore' = NoChats => BelongsTo(chatStore, w)')
  <2>1. NoChats.synced <= Tip + 1
    BY NoChatsBelong, MessagesAreHeights
  <2> QED BY <1>1, <2>1, NoChatsBelong, StillBelongs DEF BelongsTo
<1>4. CASE Logout
  <2>1. /\ ~ Entering /\ chatStore' = NoChats /\ UNCHANGED <<saving, loading, ready>>
        /\ step' = IF keychain' = NoIdentity THEN "welcome" ELSE "unlock"
        /\ keychain' \in Identity \cup {NoIdentity}
    BY <1>4 DEF Logout, wipe, FirstStep
  <2> QED BY <1>3, <2>1 DEF AppleKept, Entering, OnlyFor
<1>5. ASSUME NEW s \in Session, ThreadStep(s) \/ Sent(s)
      PROVE  AppleKept'
  BY <1>5, ThreadKeepsKept
<1>6. ASSUME ~ Logout, ~ \E s \in Session : ThreadStep(s) \/ Sent(s)
      PROVE  AppleKept /\ UNCHANGED chatStore
  <2>1. CASE Relaunch \/ ChooseMnemonic \/ AskKeychain \/ SaveEnds \/ LoadEnds \/ LogOutInstead
    BY <2>1 DEF Relaunch, ChooseMnemonic, AskKeychain, SaveEnds, LoadEnds, LogOutInstead
  <2>2. CASE CompleteOnboarding \/ OnboardingFails \/ Kill \/ SendText \/ WriteTo
    BY <2>2 DEF CompleteOnboarding, OnboardingFails, Kill, SendText, WriteTo
  <2> QED BY <1>6, <2>1, <2>2 DEF AppleNext
<1>7. CASE AppleKept /\ UNCHANGED chatStore
  <2>1. CASE Relaunch
    <3>1. /\ step = "closed" /\ UNCHANGED <<keychain, saving, loading, ready>>
          /\ step' = IF keychain = NoIdentity THEN "welcome" ELSE "unlock"
      BY <2>1 DEF Relaunch, FirstStep
    <3> QED BY <1>2, <1>7, <3>1 DEF AppleKept, Entering, OnlyFor
  <2>2. CASE ChooseMnemonic
    BY <1>7, <2>2 DEF ChooseMnemonic, AppleKept, Entering, OnlyFor
  <2>3. CASE AskKeychain
    <3>1. CASE step = "setPIN"
      BY <1>7, <2>3, <3>1 DEF AskKeychain, AppleKept, OnlyFor
    <3>2. CASE step = "unlock"
      BY <1>2, <1>7, <2>3, <3>2 DEF AskKeychain, AppleKept, OnlyFor, BelongsTo
    <3> QED BY <2>3, <3>1, <3>2 DEF AskKeychain
  <2>4. CASE SaveEnds
    <3>1. /\ saving # NoIdentity /\ saving' = NoIdentity /\ step \in {"setPIN", "main"}
          /\ UNCHANGED <<step, mnemonic, loading, current, holder, phase, next, events>>
          /\ \/ keychain' = saving /\ ready' = ready \cup {saving}
             \/ UNCHANGED <<keychain, ready>>
      BY <1>7, <2>4 DEF SaveEnds, AppleKept, Entering, Steps
    <3>2. CASE step = "setPIN"
      BY <1>7, <3>1, <3>2 DEF AppleKept, OnlyFor
    <3>3. CASE step = "main"
      <4>1. keychain' = keychain /\ OnlyFor(keychain)'
        BY <1>7, <3>1, <3>3 DEF AppleKept, OnlyFor
      <4>2. BelongsTo(chatStore, keychain) => BelongsTo(chatStore, keychain)'
        BY <1>2, <1>7, <4>1 DEF BelongsTo
      <4>3. AppleSkippedNothing(current) => AppleSkippedNothing(current)'
        BY <1>7, <2>4, <3>1 DEF SaveEnds, AppleSkippedNothing, ReceivedBy, MessagesOf, Tip
      <4> QED BY <1>7, <3>1, <3>3, <4>1, <4>2, <4>3 DEF AppleKept
    <3> QED BY <3>1, <3>2, <3>3
  <2>5. CASE LoadEnds \/ OnboardingFails
    <3>1. /\ UNCHANGED <<chain, step, mnemonic, keychain, saving, current, holder, phase, next, events>>
          /\ ready' \subseteq ready \cup ({loading} \ {NoIdentity})
          /\ loading' \in {loading, NoIdentity}
          /\ loading # NoIdentity \/ ready # {}
      BY <2>5 DEF LoadEnds, OnboardingFails
    <3>2. step \in {"setPIN", "unlock", "main"}
      BY <1>7, <3>1 DEF AppleKept, Entering, Steps
    <3>3. CASE step = "setPIN"
      BY <1>7, <3>1, <3>3 DEF AppleKept, OnlyFor
    <3>4. CASE step = "unlock"
      <4>1. BelongsTo(chatStore, keychain) => BelongsTo(chatStore, keychain)'
        BY <1>2, <1>7, <3>1 DEF BelongsTo
      <4> QED BY <1>7, <3>1, <3>4, <4>1 DEF AppleKept, OnlyFor
    <3>5. CASE step = "main"
      <4>1. BelongsTo(chatStore, keychain) => BelongsTo(chatStore, keychain)'
        BY <1>2, <1>7, <3>1 DEF BelongsTo
      <4>2. AppleSkippedNothing(current) => AppleSkippedNothing(current)'
        BY <1>7, <3>1 DEF AppleSkippedNothing, ReceivedBy, MessagesOf, Tip
      <4> QED BY <1>7, <3>1, <3>5, <4>1, <4>2 DEF AppleKept, OnlyFor
    <3> QED BY <3>2, <3>3, <3>4, <3>5
  <2>6. CASE LogOutInstead
    BY <1>7, <2>6 DEF LogOutInstead, AppleKept, Entering
  <2>7. CASE CompleteOnboarding
    <3>1. PICK w \in ready :
            /\ sessions + 1 \in Session /\ current' = sessions + 1 /\ ready' = ready \ {w}
            /\ holder'[sessions + 1] = w /\ phase'[sessions + 1] = "connecting"
            /\ step' = "main" /\ UNCHANGED <<keychain, saving, loading>>
      BY <2>7 DEF CompleteOnboarding
    <3>2. step \in {"setPIN", "unlock", "main"}
      BY <1>7, <3>1 DEF AppleKept, Entering, Steps
    <3>3. w = keychain /\ OnlyFor(keychain) /\ BelongsTo(chatStore, keychain)
      BY <1>3, <1>7, <3>1, <3>2 DEF AppleKept, OnlyFor
    <3>4. BelongsTo(chatStore, keychain)'
      BY <1>2, <1>7, <3>1, <3>3 DEF BelongsTo
    <3>5. AppleSkippedNothing(current)'
      BY <3>1 DEF AppleSkippedNothing
    <3> QED BY <3>1, <3>3, <3>4, <3>5 DEF AppleKept, OnlyFor
  <2>8. CASE Kill
    <3>1. /\ step' = "closed" /\ UNCHANGED keychain
          /\ saving' = NoIdentity /\ loading' = NoIdentity /\ ready' = {}
      BY <2>8 DEF Kill
    <3>2. IF keychain \in Identity THEN BelongsTo(chatStore, keychain) ELSE chatStore = NoChats
      BY <1>3, <1>7, OnScreen DEF AppleKept, Steps
    <3>3. BelongsTo(chatStore, keychain) => BelongsTo(chatStore, keychain)'
      BY <1>2, <1>7, <3>1 DEF BelongsTo
    <3> QED BY <1>7, <3>1, <3>2, <3>3 DEF AppleKept, Entering
  <2>9. CASE SendText \/ WriteTo
    <3>1. UNCHANGED <<walletVars, threadVars, sessionVars>>
      BY <2>9 DEF SendText, WriteTo
    <3>2. BelongsTo(chatStore, keychain) => BelongsTo(chatStore, keychain)'
      BY <1>2, <1>7, <3>1 DEF BelongsTo
    <3>3. CASE step # "main"
      BY <1>7, <3>1, <3>2, <3>3 DEF AppleKept, OnlyFor, Entering
    <3>4. CASE step = "main"
      <4>1. next[current] <= Tip + 1 /\ next[current] \in Int /\ Tip \in Int
        BY <3>4, OnScreen, MessagesAreHeights DEF AppleOnChain
      <4>2. \A v : \A h \in ReceivedBy(v)' : h \in Int
        BY <1>1, MessagesAreHeights DEF Grown, ReceivedBy, MessagesOf
      <4>3. \A v : \A h \in ReceivedBy(v)' : h < next[current] => h \in ReceivedBy(v)
        BY <1>1, <4>1, <4>2 DEF Grown
      <4>4. AppleSkippedNothing(current) => AppleSkippedNothing(current)'
        BY <1>7, <3>1, <4>3 DEF AppleSkippedNothing
      <4> QED BY <1>7, <3>1, <3>2, <3>4, <4>4 DEF AppleKept, OnlyFor
    <3> QED BY <3>3, <3>4
  <2> QED BY <1>4, <1>5, <2>1, <2>2, <2>3, <2>4, <2>5, <2>6, <2>7, <2>8, <2>9 DEF AppleNext
<1> QED BY <1>4, <1>5, <1>6, <1>7

LEMMA AppleInvInit == AppleInit => AppleInv
<1> SUFFICES ASSUME AppleInit PROVE AppleInv
  OBVIOUS
<1> USE DEF AppleInit
<1>1. ChainTypeOK /\ Tip = 0
  BY AccountsAssumption DEF ChainTypeOK, Tip
<1>2. NoChats \in Chats /\ NoChats.synced = 0
  BY <1>1, NoChatsBelong
<1>3. AppleTypeOK
  <2>1. /\ 0 \in 0 .. MaxHeight + 1 /\ 0 \in 0 .. MaxSessions /\ 0 \in 0 .. MaxKills
        /\ 0 \in 0 .. 0
    BY AccountsAssumption, AppleAssumption
  <2>2. /\ next \in [Session -> 0 .. MaxHeight + 1] /\ phase \in [Session -> Phases]
    BY <2>1 DEF Phases
  <2> QED BY <1>1, <1>2, <2>1, <2>2 DEF AppleTypeOK, Steps
<1>4. AppleOnChain
  BY <1>1, <1>2 DEF AppleOnChain
<1>5. AppleSessions
  BY DEF AppleSessions, Session
<1>6. AppleKept
  BY AccountsAssumption DEF AppleKept, Entering
<1> QED BY <1>3, <1>4, <1>5, <1>6 DEF AppleInv

LEMMA AppleInvNext == AppleInv /\ [AppleNext]_appleVars => AppleInv'
<1> SUFFICES ASSUME AppleInv, [AppleNext]_appleVars PROVE AppleInv'
  OBVIOUS
<1>1. CASE AppleNext
  BY <1>1, AppleKeepsType, AppleKeepsOnChain, AppleKeepsSessions, AppleKeepsKept DEF AppleInv
<1>2. CASE UNCHANGED appleVars
  <2> USE <1>2 DEF appleVars, phoneVars, walletVars, threadVars, sessionVars, historyVars
  <2>1. AppleTypeOK'
    BY DEF AppleInv, AppleTypeOK, ChainTypeOK, Tip
  <2>2. AppleOnChain' /\ AppleSessions'
    BY DEF AppleInv, AppleOnChain, Tip, AppleSessions, MessagesOf
  <2>3. remains' \/ AppleKept'
    BY DEF AppleInv, AppleKept, Entering, OnlyFor, BelongsTo, AppleSkippedNothing, ReceivedBy,
           MessagesOf, Tip
  <2> QED BY <2>1, <2>2, <2>3 DEF AppleInv
<1> QED BY <1>1, <1>2


-----------------------------------------------------------------------------
(* The device: one app runs, and the other one has never been started.     *)

PhoneAtRest ==
  /\ step = "closed" /\ keychain = NoIdentity /\ mnemonic = NoIdentity
  /\ saving = NoIdentity /\ loading = NoIdentity /\ ready = {}
  /\ current = 0 /\ sessions = 0 /\ kills = 0
  /\ holder = [s \in Session |-> NoIdentity] /\ phase = [s \in Session |-> "none"]
  /\ stop = [s \in Session |-> FALSE] /\ next = [s \in Session |-> 0]
  /\ events = [s \in Session |-> {}] /\ outgoing = [s \in Session |-> {}]
  /\ chatStore = NoChats /\ remains = FALSE /\ heard = {}

DeskAtRest ==
  /\ screen = "closed" /\ phrase = NoIdentity /\ wallet = NoIdentity
  /\ file = NoChats /\ leftover = FALSE /\ logins = 0 /\ quits = 0
  /\ owner = [s \in Session |-> NoIdentity] /\ store = [s \in Session |-> NoChats]
  /\ cancelled = [s \in Session |-> FALSE] /\ task = [s \in Session |-> "none"]
  /\ cursor = [s \in Session |-> 0] /\ batch = [s \in Session |-> {}]
  /\ sending = [s \in Session |-> {}]

AppInv ==
  /\ device \in {"desktop", "phone"}
  /\ device = "desktop" => DeskInv /\ PhoneAtRest
  /\ device = "phone" => AppleInv /\ DeskAtRest

LEMMA AppInvInit == AppInit => AppInv
<1>1. AppInit => PhoneAtRest /\ DeskAtRest
  BY DEF AppInit, DeskInit, AppleInit, PhoneAtRest, DeskAtRest
<1> QED BY <1>1, DeskInvInit, AppleInvInit DEF AppInit, AppInv

LEMMA AppInvNext == AppInv /\ [AppNext]_appVars => AppInv'
<1> SUFFICES ASSUME AppInv, [AppNext]_appVars PROVE AppInv'
  OBVIOUS
<1> USE DEF appVars, deskVars, appleVars
<1>1. UNCHANGED phoneVars /\ PhoneAtRest => PhoneAtRest'
  BY DEF PhoneAtRest, phoneVars, walletVars, threadVars, sessionVars, historyVars
<1>2. UNCHANGED windowVars /\ DeskAtRest => DeskAtRest'
  BY DEF DeskAtRest, windowVars, screenVars, taskVars, loginVars, chatVars
<1>3. CASE device = "desktop"
  <2>1. device' = device /\ [DeskNext]_deskVars /\ UNCHANGED phoneVars
    BY <1>3 DEF AppNext
  <2> QED BY <1>1, <1>3, <2>1, DeskInvNext DEF AppInv
<1>4. CASE device = "phone"
  <2>1. device' = device /\ [AppleNext]_appleVars /\ UNCHANGED windowVars
    BY <1>4 DEF AppNext
  <2> QED BY <1>2, <1>4, <2>1, AppleInvNext DEF AppInv
<1> QED BY <1>3, <1>4 DEF AppInv

\* An app that has not been started is in order.
LEMMA AtRestInOrder ==
  ASSUME ChainTypeOK
  PROVE  /\ PhoneAtRest => AppleTypeOK /\ ChatsMatchWallet
         /\ DeskAtRest => DeskTypeOK /\ ChatsAreOwn
<1>1. NoChats \in Chats
  BY NoChatsBelong
<1>2. /\ 0 \in 0 .. MaxHeight + 1 /\ 0 \in 0 .. MaxSessions /\ 0 \in 0 .. MaxKills
      /\ 0 \in 0 .. MaxQuits /\ 0 \in 0 .. 0
  BY AccountsAssumption, AppleAssumption, DesktopAssumption
<1>3. ASSUME PhoneAtRest
      PROVE  AppleTypeOK /\ ChatsMatchWallet
  <2> USE <1>3 DEF PhoneAtRest
  <2>1. next \in [Session -> 0 .. MaxHeight + 1] /\ phase \in [Session -> Phases]
    BY <1>2 DEF Phases
  <2>2. AppleTypeOK
    BY <1>1, <1>2, <2>1 DEF AppleTypeOK, Steps
  <2> QED BY <2>2, AccountsAssumption DEF ChatsMatchWallet, Account
<1>4. ASSUME DeskAtRest
      PROVE  DeskTypeOK /\ ChatsAreOwn
  <2> USE <1>4 DEF DeskAtRest
  <2>1. /\ store \in [Session -> Chats] /\ cursor \in [Session -> 0 .. MaxHeight + 1]
        /\ task \in [Session -> Tasks]
    BY <1>1, <1>2 DEF Tasks
  <2>2. DeskTypeOK
    BY <1>1, <1>2, <2>1 DEF DeskTypeOK, Screens
  <2> QED BY <2>2, AccountsAssumption DEF ChatsAreOwn, Holder
<1> QED BY <1>3, <1>4

LEMMA DeskInvImplies ==
  ASSUME DeskInv
  PROVE  ChatsAreOwn
<1>1. CASE leftover
  BY <1>1 DEF ChatsAreOwn
<1>2. CASE DeskKept /\ screen \in {"main", "erased"}
  <2>1. owner[logins] \in Identity
    BY <1>2 DEF DeskInv, DeskTypeOK, DeskScreens, DeskSessions, Session
  <2> QED BY <1>2, <2>1 DEF DeskKept, ChatsAreOwn, Holder
<1>3. CASE DeskKept /\ screen \notin {"main", "erased"}
  BY <1>3 DEF DeskKept, ChatsAreOwn, Holder
<1> QED BY <1>1, <1>2, <1>3 DEF DeskInv

LEMMA AppleInvImplies ==
  ASSUME AppleInv
  PROVE  ChatsMatchWallet
<1>1. CASE remains
  BY <1>1 DEF ChatsMatchWallet
<1>2. CASE AppleKept
  <2>1. \A w : BelongsTo(NoChats, w)
    BY NoChatsBelong DEF AppleInv, AppleTypeOK
  <2> QED BY <1>2, <2>1, OnScreen DEF AppleInv, AppleTypeOK, Steps, AppleKept, ChatsMatchWallet, Account
<1> QED BY <1>1, <1>2 DEF AppleInv

\* Every variable of either app keeps its type.
THEOREM AppTypes == AppSpec => []AppTypeOK
<1>1. AppInv => AppTypeOK
  <2> SUFFICES ASSUME AppInv PROVE AppTypeOK
    OBVIOUS
  <2>1. ChainTypeOK
    BY DEF AppInv, DeskInv, DeskTypeOK, AppleInv, AppleTypeOK
  <2> QED BY <2>1, AtRestInOrder DEF AppInv, DeskInv, AppleInv, AppTypeOK
<1> QED BY <1>1, AppInvInit, AppInvNext, PTL DEF AppSpec

\* The chats file of the desktop app is the saved identity's, but for the three
\* leftovers the model names.
THEOREM ChatsAreOwnHolds == AppSpec => []ChatsAreOwn
<1>1. AppInv => ChatsAreOwn
  <2>1. AppleInv => ChainTypeOK
    BY DEF AppleInv, AppleTypeOK
  <2> QED BY <2>1, DeskInvImplies, AtRestInOrder DEF AppInv
<1> QED BY <1>1, AppInvInit, AppInvNext, PTL DEF AppSpec

\* The store of the Apple app has the messages of the identity in the Keychain,
\* but for what the model says remains.
THEOREM ChatsMatchWalletHolds == AppSpec => []ChatsMatchWallet
<1>1. AppInv => ChatsMatchWallet
  <2>1. DeskInv => ChainTypeOK
    BY DEF DeskInv, DeskTypeOK
  <2> QED BY <2>1, AppleInvImplies, AtRestInOrder DEF AppInv
<1> QED BY <1>1, AppInvInit, AppInvNext, PTL DEF AppSpec

\* No step of the desktop app puts another phrase in the place of a saved one.
THEOREM PhraseIsKeptHolds == AppSpec => PhraseIsKept
<1> DEFINE Kept == (wallet \in Identity) =>
                     \/ wallet' \in {wallet, NoIdentity}
                     \/ wallet' = Torn /\ phrase = wallet
<1>1. ASSUME DeskInv, DeskNext
      PROVE  Kept
  <2> USE DEF DeskInv, screenVars, taskVars, loginVars, chatVars
  <2>1. CASE SavePin
    <3>1. wallet \in {NoIdentity, Torn, phrase}
      BY <1>1, <2>1 DEF SavePin, DeskScreens
    <3> QED BY <2>1, <3>1, DesktopAssumption, AccountsAssumption DEF SavePin, Save, SaveFails
  <2>2. CASE Quit
    <3>1. wallet' = wallet \/ (wallet' = Torn /\ screen = "setPin")
      BY <2>2 DEF Quit
    <3> QED BY <1>1, <3>1, DesktopAssumption, AccountsAssumption DEF DeskScreens
  <2>3. ASSUME NEW s \in Session, TaskStep(s) \/ AppendSent(s)
        PROVE  Kept
    BY <1>1, <2>3, TaskTouchesItsOwn DEF OthersUntouched
  <2>4. CASE Open \/ ChoosePhrase \/ Unlock \/ Send \/ EraseWallet \/ Wipe \/ Leave \/ Arrive
    BY <2>4 DEF Open, ChoosePhrase, Unlock, Send, EraseWallet, Wipe, Leave, Arrive
  <2> QED BY <1>1, <2>1, <2>2, <2>3, <2>4 DEF DeskNext
<1>2. AppInv /\ [AppNext]_appVars => [Kept]_deskVars
  <2>1. UNCHANGED windowVars => Kept
    BY DEF windowVars, screenVars
  <2> QED BY <1>1, <2>1 DEF AppInv, AppNext, appVars
<1>3. AppSpec => [][Kept]_deskVars
  <2> HIDE DEF Kept
  <2> QED BY <1>2, AppInvInit, AppInvNext, PTL DEF AppSpec
<1> QED BY <1>3 DEF PhraseIsKept

\* A session of the Apple app that was stopped while it listened opens no stream
\* again.
THEOREM StoppedStaysSilentHolds == AppSpec => StoppedStaysSilent
<1> DEFINE Silent == \A s \in heard : phase'[s] \in {phase[s], "ended"}
<1>1. ASSUME AppleInv, AppleNext
      PROVE  Silent
  <2> USE <1>1 DEF AppleInv, AppleTypeOK, threadVars, sessionVars, walletVars, historyVars, BesidesWallet
  <2>1. \A s \in heard : /\ s \in Session /\ s <= sessions /\ stop[s]
                          /\ phase[s] \in {"opening", "open", "ended"}
    BY DEF AppleSessions
  <2>2. ASSUME NEW t \in Session, ThreadStep(t) \/ Sent(t)
        PROVE  Silent
    <3>1. \A s \in Session \ {t} : phase'[s] = phase[s]
      BY <2>2, ThreadTouchesItsOwn DEF OtherThreadsUntouched
    <3>2. stop[t] /\ phase[t] \in {"opening", "open", "ended"} => phase'[t] \in {phase[t], "ended"}
      BY <2>2, ThreadKeepsType
    <3> QED BY <2>1, <3>1, <3>2
  <2>3. CASE CompleteOnboarding
    <3>1. \A s \in Session : s <= sessions => phase'[s] = phase[s]
      BY <2>3 DEF CompleteOnboarding, Session
    <3> QED BY <2>1, <3>1
  <2>4. CASE Kill
    BY <2>1, <2>4 DEF Kill
  <2>5. CASE Relaunch \/ ChooseMnemonic \/ AskKeychain \/ SaveEnds \/ LoadEnds \/ LogOutInstead
    BY <2>5 DEF Relaunch, ChooseMnemonic, AskKeychain, SaveEnds, LoadEnds, LogOutInstead
  <2>6. CASE OnboardingFails \/ Logout \/ SendText \/ WriteTo
    BY <2>6 DEF OnboardingFails, Logout, SendText, WriteTo
  <2> QED BY <2>2, <2>3, <2>4, <2>5, <2>6 DEF AppleNext
<1>2. AppInv /\ [AppNext]_appVars => [Silent]_appleVars
  <2>1. UNCHANGED phoneVars => Silent
    BY DEF phoneVars, threadVars
  <2> QED BY <1>1, <2>1 DEF AppInv, AppNext, appVars
<1>3. AppSpec => [][Silent]_appleVars
  <2> HIDE DEF Silent
  <2> QED BY <1>2, AppInvInit, AppInvNext, PTL DEF AppSpec
<1> QED BY <1>3 DEF StoppedStaysSilent
=============================================================================
