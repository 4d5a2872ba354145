------------------------------- MODULE Desktop -------------------------------
(***************************************************************************)
(* The desktop app from onboarding to logout: the wallet file, the screens *)
(* on Fyne's main goroutine, and what runs beside it for each login, the   *)
(* goroutine of Service.Start and those of mainScreen.send. Every login    *)
(* has a ChatStore of its own; they all write the same file.               *)
(***************************************************************************)
EXTENDS Accounts

CONSTANTS
  Torn,       \* a wallet file that was cut off while it was written
  MaxQuits    \* bound: how often the app is closed or killed

ASSUME DesktopAssumption ==
  /\ Torn \notin Identity \cup {NoIdentity}
  /\ MaxQuits \in Nat

VARIABLES
  screen,      \* what the window shows; in "erased" and "wiped" it is logging out
  phrase,      \* the recovery phrase the onboarding screens have passed on
  wallet,      \* the wallet file
  file,        \* the chats file; a missing one loads like an empty one
  logins,      \* how many sessions there have been; the last one is on the screen
  owner,       \* owner[s]: the identity session s was started with
  store,       \* store[s]: ChatStore.data
  cancelled,   \* cancelled[s]: its context
  task,        \* task[s]: what the goroutine of Service.Start is doing
  cursor,      \* cursor[s]: the next block it asks or waits for
  batch,       \* batch[s]: the messages it has got and not yet appended
  sending,     \* sending[s]: accepted messages SendText has yet to append
  quits,       \* how often the app was closed
  leftover     \* history: the file may have something of an earlier login

screenVars == <<screen, phrase, wallet, quits>>
taskVars == <<task, cursor, batch>>
loginVars == <<logins, owner, cancelled>>
chatVars == <<store, file, leftover>>
windowVars == <<screenVars, taskVars, loginVars, chatVars, sending>>
deskVars == <<chain, windowVars>>

Screens ==
  {"closed", "welcome", "setPin", "unlock", "main", "erased", "wiped"}

Tasks == {"none", "scan", "asked", "mark", "listen", "live", "ended"}

DeskInit ==
  /\ chain = <<>>
  /\ screen = "closed" /\ phrase = NoIdentity /\ wallet = NoIdentity
  /\ file = NoChats /\ leftover = FALSE
  /\ logins = 0 /\ quits = 0
  /\ owner = [s \in Session |-> NoIdentity]
  /\ store = [s \in Session |-> NoChats]
  /\ cancelled = [s \in Session |-> FALSE]
  /\ task = [s \in Session |-> "none"]
  /\ cursor = [s \in Session |-> 0] /\ batch = [s \in Session |-> {}]
  /\ sending = [s \in Session |-> {}]

-----------------------------------------------------------------------------
(* Onboarding.                                                             *)

\* Mutant: the app asks for a new phrase whatever is saved.
WelcomeEveryone == screen' = "welcome"

\* runOnboarding: a file that is there is a wallet, readable or not.
runOnboarding == screen' = IF wallet = NoIdentity THEN "welcome" ELSE "unlock"

Open ==
  /\ screen = "closed"
  /\ runOnboarding
  /\ UNCHANGED <<chain, phrase, wallet, quits, taskVars, loginVars, chatVars, sending>>

\* "Create a new identity", to which nobody has written yet, or a recovery phrase
\* that is imported. The screens in between only pass it on.
ChoosePhrase ==
  /\ screen = "welcome" /\ screen' = "setPin"
  /\ \/ phrase' \in {w \in Identity : MessagesOf(w) = {}}
     \/ phrase' \in Identity
  /\ UNCHANGED <<chain, wallet, quits, taskVars, loginVars, chatVars, sending>>

\* NewChatStore, load.
load == file

\* startApp: wallet, client and store, then the main screen and Service.Start.
startApp(w) ==
  LET s == logins + 1 IN
  /\ s \in Session
  /\ logins' = s /\ owner' = [owner EXCEPT ![s] = w]
  /\ store' = [store EXCEPT ![s] = load]
  /\ task' = [task EXCEPT ![s] = "scan"]
  /\ cursor' = [cursor EXCEPT ![s] = load.synced]
  /\ screen' = "main" /\ phrase' = NoIdentity
  /\ UNCHANGED <<chain, cancelled, file, leftover, batch, sending, quits>>

\* The CA file cannot be read: an error is shown and the screen stays.
startFails == UNCHANGED <<chain, screen, phrase, quits, taskVars, loginVars, chatVars, sending>>

\* WalletStore.Save.
Save == wallet' = phrase

\* It returns an error; the writer truncates the file before it writes it.
SaveFails == wallet' \in {wallet, Torn}

\* WalletStore.Load succeeds, with the right PIN. With another one, or on a torn
\* file, nothing happens.
Loads(w) == wallet = w /\ w \in Identity

\* "Save & Continue".
SavePin ==
  /\ screen = "setPin"
  /\ \/ Save /\ (startApp(phrase) \/ startFails)
     \/ SaveFails /\ startFails

\* "Unlock".
Unlock ==
  /\ screen = "unlock"
  /\ \E w \in Identity : Loads(w) /\ startApp(w)
  /\ UNCHANGED wallet

-----------------------------------------------------------------------------
(* The goroutine of Service.Start.                                         *)

\* persist: the whole of this session's store becomes the file, also when the
\* session has been wiped.
Write(s, c) ==
  /\ store' = [store EXCEPT ![s] = c]
  /\ file' = c
  /\ leftover' = (leftover \/ cancelled[s] \/ screen = "wiped")

Goto(s, t) == task' = [task EXCEPT ![s] = t]

\* Neither FetchHistory nor Listen is running.
Outside(s) == cursor' = [cursor EXCEPT ![s] = 0]

Least(hs) == CHOOSE h \in hs : \A i \in hs : h <= i

\* FetchHistory looks at its context, and calls GetBlocks. When it is cancelled,
\* SyncHistory ends with an error, and Listen at once.
AskBlocks(s) ==
  /\ task[s] = "scan" /\ batch[s] = {}
  /\ IF cancelled[s] THEN Goto(s, "ended") /\ Outside(s)
     ELSE Goto(s, "asked") /\ UNCHANGED cursor
  /\ UNCHANGED <<chain, screenVars, batch, loginVars, chatVars, sending>>

\* GetBlocks returns all the blocks there are, none at the end of the scan, or
\* an error, and then Listen is next. Whether a message of one's own can be read
\* depends on the contacts.
GetBlocks(s) ==
  /\ task[s] = "asked"
  /\ \/ /\ Tip >= cursor[s]
        /\ Goto(s, "scan") /\ cursor' = [cursor EXCEPT ![s] = Tip + 1]
        /\ \E unreadable \in SUBSET (MessagesOf(owner[s]) \ ReceivedBy(owner[s])) :
             batch' = [batch EXCEPT ![s] =
                         {h \in MessagesOf(owner[s]) \ unreadable : h >= cursor[s]}]
     \/ Tip < cursor[s] /\ Goto(s, "mark") /\ UNCHANGED <<cursor, batch>>
     \/ Goto(s, "listen") /\ Outside(s) /\ UNCHANGED batch
  /\ UNCHANGED <<chain, screenVars, loginVars, chatVars, sending>>

\* The loop over a batch, which nothing interrupts.
ScanMessage(s) ==
  LET h == Least(batch[s]) IN
  /\ task[s] = "scan" /\ batch[s] # {}
  /\ batch' = [batch EXCEPT ![s] = @ \ {h}]
  /\ IF h \in store[s].messages THEN UNCHANGED chatVars
     ELSE Write(s, With(store[s], {h}))
  /\ UNCHANGED <<chain, screenVars, task, cursor, loginVars, sending>>

\* Mutant: the height to resume from is counted once too often.
MarkOneFurther(s) ==
  /\ task[s] = "mark" /\ Goto(s, "listen") /\ Outside(s)
  /\ Write(s, Checkpointed(store[s], cursor[s] + 1))
  /\ UNCHANGED <<chain, screenVars, batch, loginVars, sending>>

\* SetLastSyncedHeight, without another look at the context.
Mark(s) ==
  /\ task[s] = "mark" /\ Goto(s, "listen") /\ Outside(s)
  /\ Write(s, Checkpointed(store[s], cursor[s]))
  /\ UNCHANGED <<chain, screenVars, batch, loginVars, sending>>

\* Listen: the stream opens at the tip, or the context is done.
OpenStream(s) ==
  /\ task[s] = "listen"
  /\ IF cancelled[s] THEN Goto(s, "ended") /\ UNCHANGED cursor
     ELSE Goto(s, "live") /\ cursor' = [cursor EXCEPT ![s] = Tip + 1]
  /\ UNCHANGED <<chain, screenVars, batch, loginVars, chatVars, sending>>

\* Recv: the next message for this wallet, which a cancelled stream may still
\* have in its buffer.
Recv(s) ==
  LET coming == {h \in ReceivedBy(owner[s]) : h >= cursor[s]} IN
  /\ task[s] = "live" /\ batch[s] = {} /\ coming # {}
  /\ batch' = [batch EXCEPT ![s] = {Least(coming)}]
  /\ cursor' = [cursor EXCEPT ![s] = Least(coming) + 1]
  /\ UNCHANGED <<chain, screenVars, task, loginVars, chatVars, sending>>

\* onMessage: AppendMessage.
Handle(s) ==
  /\ task[s] = "live" /\ batch[s] # {}
  /\ batch' = [batch EXCEPT ![s] = {}]
  /\ Write(s, With(store[s], batch[s]))
  /\ UNCHANGED <<chain, screenVars, task, cursor, loginVars, sending>>

\* The stream breaks, and Listen fails over to another; or its context is done.
StreamBreaks(s) ==
  /\ task[s] = "live" /\ batch[s] = {}
  /\ Goto(s, IF cancelled[s] THEN "ended" ELSE "listen") /\ Outside(s)
  /\ UNCHANGED <<chain, screenVars, batch, loginVars, chatVars, sending>>

-----------------------------------------------------------------------------
(* The main screen.                                                        *)

\* mainScreen.send: a gateway accepts the message; SendText goes on on its own.
Send ==
  /\ screen = "main"
  /\ AddBlock(owner[logins], TRUE)
  /\ sending' = [sending EXCEPT ![logins] = @ \cup {Tip + 1}]
  /\ UNCHANGED <<screenVars, taskVars, loginVars, chatVars>>

AppendSent(s) ==
  \E h \in sending[s] :
    /\ sending' = [sending EXCEPT ![s] = @ \ {h}]
    /\ Write(s, With(store[s], {h}))
    /\ UNCHANGED <<chain, screenVars, taskVars, loginVars>>

\* "Log out": wipeSessionData, call by call. Errors are shown and passed over.
EraseWallet ==
  /\ screen = "main" /\ screen' = "erased"
  /\ wallet' \in {wallet, NoIdentity}
  /\ UNCHANGED <<chain, phrase, quits, taskVars, loginVars, chatVars, sending>>

\* Mutant: the messages go, the checkpoint stays.
WipeMessages ==
  /\ screen = "erased" /\ screen' = "wiped"
  /\ store' = [store EXCEPT ![logins].messages = {}]
  /\ file' = store'[logins] /\ leftover' = FALSE
  /\ UNCHANGED <<chain, phrase, wallet, quits, taskVars, loginVars, sending>>

\* ChatStore.Wipe: memory is cleared also when the file cannot be deleted.
Wipe ==
  /\ screen = "erased" /\ screen' = "wiped"
  /\ store' = [store EXCEPT ![logins] = NoChats]
  /\ \/ file' = NoChats /\ leftover' = FALSE
     \/ UNCHANGED file /\ leftover' = (leftover \/ wallet = NoIdentity)
  /\ UNCHANGED <<chain, phrase, wallet, quits, taskVars, loginVars, sending>>

\* onLogout: cancel, then onboarding again.
Leave ==
  /\ screen = "wiped"
  /\ cancelled' = [cancelled EXCEPT ![logins] = TRUE]
  /\ runOnboarding
  /\ UNCHANGED <<chain, phrase, wallet, quits, taskVars, logins, owner, chatVars, sending>>

\* The window is closed or the process killed, at any moment; in the middle of
\* Save it leaves a torn wallet file.
Quit ==
  /\ screen # "closed" /\ quits < MaxQuits
  /\ quits' = quits + 1
  /\ screen' = "closed" /\ phrase' = NoIdentity
  /\ wallet' \in {wallet} \cup (IF screen = "setPin" THEN {Torn} ELSE {})
  /\ task' = [s \in Session |-> IF s <= logins THEN "ended" ELSE "none"]
  /\ cursor' = [s \in Session |-> 0] /\ batch' = [s \in Session |-> {}]
  /\ store' = [s \in Session |-> NoChats]
  /\ sending' = [s \in Session |-> {}]
  /\ leftover' = (leftover \/ (screen = "erased" /\ wallet = NoIdentity))
  /\ UNCHANGED <<chain, loginVars, file>>

-----------------------------------------------------------------------------

\* Somebody writes to an identity.
Arrive ==
  /\ \E w \in Identity : AddBlock(w, FALSE)
  /\ UNCHANGED <<screenVars, taskVars, loginVars, chatVars, sending>>

TaskStep(s) ==
  \/ AskBlocks(s) \/ GetBlocks(s) \/ ScanMessage(s) \/ Mark(s)
  \/ OpenStream(s) \/ Recv(s) \/ Handle(s) \/ StreamBreaks(s)

DeskNext ==
  \/ Open \/ ChoosePhrase \/ SavePin \/ Unlock
  \/ \E s \in Session : TaskStep(s) \/ AppendSent(s)
  \/ Send \/ EraseWallet \/ Wipe \/ Leave \/ Quit
  \/ Arrive

DeskSpec == DeskInit /\ [][DeskNext]_deskVars

-----------------------------------------------------------------------------
(* Properties.                                                             *)

\* Every variable has its type.
DeskTypeOK ==
  /\ ChainTypeOK
  /\ screen \in Screens
  /\ phrase \in Identity \cup {NoIdentity}
  /\ wallet \in Identity \cup {NoIdentity, Torn}
  /\ file \in Chats /\ leftover \in BOOLEAN
  /\ logins \in 0 .. MaxSessions /\ quits \in 0 .. MaxQuits
  /\ owner \in [Session -> Identity \cup {NoIdentity}]
  /\ store \in [Session -> Chats]
  /\ cancelled \in [Session -> BOOLEAN]
  /\ task \in [Session -> Tasks]
  /\ cursor \in [Session -> 0 .. MaxHeight + 1]
  /\ batch \in [Session -> SUBSET Height]
  /\ sending \in [Session -> SUBSET Height]

\* Whose messages the chats file should have.
Holder == IF screen \in {"main", "erased"} THEN owner[logins] ELSE wallet

\* chat_store.go:45-56, 271-274: a wiped store is scanned again from the start,
\* nothing of the identity before is left, and a killed app loses nothing. So
\* it is, whoever logs in and out and whenever the app is killed, but for three
\* leftovers: a Wipe that failed or was not reached after the wallet had been
\* deleted, and a goroutine of a wiped session that writes once more.
ChatsAreOwn ==
  leftover \/
    /\ IF Holder \in Identity THEN BelongsTo(file, Holder) ELSE file = NoChats
    /\ screen = "main" => file = store[logins]

\* A saved phrase is erased by logging out and never replaced by another; saving
\* the same one a second time may tear the file (onboarding.go:124-154,
\* wallet_store.go:82-129).
PhraseIsKept ==
  [][(wallet \in Identity) =>
       \/ wallet' \in {wallet, NoIdentity}
       \/ wallet' = Torn /\ phrase = wallet]_deskVars
=============================================================================
