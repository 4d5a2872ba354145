-------------------------------- MODULE Apple --------------------------------
(***************************************************************************)
(* The Apple app from onboarding to logout, and the Go core below it       *)
(* (mobile.Session). What touches the app's state runs on the main actor,  *)
(* one piece at a time; calls of the core run on threads of their own and  *)
(* nothing on the Swift side can cancel one. There is one ChatStore, which *)
(* all sessions share; it is written to disk at every change.              *)
(***************************************************************************)
EXTENDS Accounts

CONSTANT MaxKills   \* bound: how often the app is killed

ASSUME AppleAssumption == MaxKills \in Nat

VARIABLES
  step,        \* OnboardingModel.step; AppModel.stage is .main in "main"
  mnemonic,    \* the phrase in .setPIN
  keychain,    \* the identity in the Keychain
  saving,      \* the phrase KeychainWalletStore.save is encrypting
  loading,     \* the phrase KeychainWalletStore.load is decrypting
  ready,       \* the phrases the main actor is to call onReady with
  current,     \* AppModel.session, 0 for nil
  sessions,    \* how many there have been
  holder,      \* holder[s]: the wallet of session s
  phase,       \* phase[s]: where its start() task and Listen are
  stop,        \* stop[s]: Session.cancel was called
  next,        \* next[s]: the next block it asks or waits for
  events,      \* events[s]: messages it has yet to append
  outgoing,    \* outgoing[s]: accepted messages sendText has yet to append
  chatStore,   \* ChatStore
  kills,       \* how often the app was killed
  remains,     \* history: the store may have something of an earlier login
  heard        \* history: the sessions that were listening when they were logged out

walletVars == <<step, mnemonic, keychain, saving, loading, ready>>
threadVars == <<phase, stop, next, events>>
sessionVars == <<current, sessions, holder>>
historyVars == <<chatStore, remains, heard>>
phoneVars == <<walletVars, threadVars, sessionVars, outgoing, historyVars, kills>>
appleVars == <<chain, phoneVars>>

Steps == {"closed", "welcome", "setPIN", "unlock", "main"}

Phases ==
  {"none", "connecting", "fetching", "fetched", "launching", "opening", "open", "ended"}

AppleInit ==
  /\ chain = <<>>
  /\ step = "closed" /\ mnemonic = NoIdentity /\ keychain = NoIdentity
  /\ saving = NoIdentity /\ loading = NoIdentity /\ ready = {}
  /\ current = 0 /\ sessions = 0 /\ kills = 0
  /\ holder = [s \in Session |-> NoIdentity]
  /\ phase = [s \in Session |-> "none"]
  /\ stop = [s \in Session |-> FALSE]
  /\ next = [s \in Session |-> 0]
  /\ events = [s \in Session |-> {}]
  /\ outgoing = [s \in Session |-> {}]
  /\ chatStore = NoChats /\ remains = FALSE /\ heard = {}

-----------------------------------------------------------------------------
(* OnboardingModel.                                                        *)

BesidesWallet == UNCHANGED <<chain, threadVars, sessionVars, outgoing, kills>>

\* OnboardingModel.init.
FirstStep(saved) == IF saved = NoIdentity THEN "welcome" ELSE "unlock"

Relaunch ==
  /\ step = "closed" /\ step' = FirstStep(keychain)
  /\ UNCHANGED <<mnemonic, keychain, saving, loading, ready, historyVars>>
  /\ BesidesWallet

\* createIdentity and confirmedBackup: nobody has written to the identity yet.
\* Or chooseImport and submitImport. Until then backToWelcome changes nothing.
ChooseMnemonic ==
  /\ step = "welcome" /\ step' = "setPIN"
  /\ \/ mnemonic' \in {w \in Identity : MessagesOf(w) = {}}
     \/ mnemonic' \in Identity
  /\ UNCHANGED <<keychain, saving, loading, ready, historyVars>>
  /\ BesidesWallet

\* savePIN and unlock(pin:), up to the slow part.
AskKeychain ==
  /\ \/ /\ step = "setPIN" /\ saving = NoIdentity
        /\ saving' = mnemonic /\ UNCHANGED loading
     \/ /\ step = "unlock" /\ loading = NoIdentity /\ keychain # NoIdentity
        /\ loading' = keychain /\ UNCHANGED saving
  /\ UNCHANGED <<step, mnemonic, keychain, ready, historyVars>>
  /\ BesidesWallet

\* KeychainWalletStore.save writes, or fails.
SaveEnds ==
  /\ saving # NoIdentity /\ saving' = NoIdentity
  /\ \/ keychain' = saving /\ ready' = ready \cup {saving}
     \/ UNCHANGED <<keychain, ready>>
  /\ UNCHANGED <<step, mnemonic, loading, historyVars>>
  /\ BesidesWallet

\* KeychainWalletStore.load: the phrase, or "Incorrect PIN".
LoadEnds ==
  /\ loading # NoIdentity /\ loading' = NoIdentity
  /\ ready' \in {ready, ready \cup {loading}}
  /\ UNCHANGED <<step, mnemonic, keychain, saving, historyVars>>
  /\ BesidesWallet

\* Something is under way that ends in onReady.
Entering == saving # NoIdentity \/ loading # NoIdentity \/ ready # {}

\* logOutAndImportInstead, also while the PIN is being tried. The chats stay.
LogOutInstead ==
  /\ step = "unlock" /\ step' = "welcome"
  /\ keychain' \in {keychain, NoIdentity}
  /\ remains' = (remains \/ Entering \/ chatStore # NoChats)
  /\ UNCHANGED <<mnemonic, saving, loading, ready, chatStore, heard>>
  /\ BesidesWallet

-----------------------------------------------------------------------------
(* AppModel.                                                               *)

\* completeOnboarding: a session that is there is replaced, not stopped.
CompleteOnboarding ==
  \E w \in ready :
    LET s == sessions + 1 IN
    /\ s \in Session
    /\ ready' = ready \ {w}
    /\ sessions' = s /\ current' = s
    /\ holder' = [holder EXCEPT ![s] = w]
    /\ phase' = [phase EXCEPT ![s] = "connecting"]
    /\ step' = "main" /\ mnemonic' = NoIdentity
    /\ UNCHANGED <<chain, keychain, saving, loading, stop, next, events, outgoing,
                   historyVars, kills>>

\* It throws, and the step stays.
OnboardingFails ==
  /\ \E w \in ready : ready' = ready \ {w}
  /\ UNCHANGED <<step, mnemonic, keychain, saving, loading, historyVars>>
  /\ BesidesWallet

Listening(s) == phase[s] \in {"opening", "open"}

\* Mutant: closing the connection is all there is to it.
CloseConnection == UNCHANGED stop

\* SessionModel.stop: Session.Stop finds a cancel function while Listen runs.
Close == stop' = [stop EXCEPT ![current] = Listening(current)]

\* chatStore.wipe.
wipe ==
  /\ chatStore' = NoChats
  /\ remains' = Entering

Logout ==
  /\ step = "main"
  /\ Close
  /\ keychain' \in {keychain, NoIdentity}
  /\ wipe
  /\ heard' = heard \cup {s \in {current} : Listening(s)}
  /\ current' = 0 /\ step' = FirstStep(keychain')
  /\ UNCHANGED <<chain, mnemonic, saving, loading, ready, phase, next, events,
                 sessions, holder, outgoing, kills>>

\* The process is killed, in the middle of a logout between delete and wipe.
Kill ==
  /\ step # "closed" /\ kills < MaxKills
  /\ kills' = kills + 1
  /\ step' = "closed" /\ mnemonic' = NoIdentity
  /\ saving' = NoIdentity /\ loading' = NoIdentity /\ ready' = {}
  /\ current' = 0
  /\ phase' = [s \in Session |-> IF s <= sessions THEN "ended" ELSE "none"]
  /\ next' = [s \in Session |-> 0]
  /\ events' = [s \in Session |-> {}] /\ outgoing' = [s \in Session |-> {}]
  /\ \/ UNCHANGED <<keychain, remains>>
     \/ step = "main" /\ keychain' = NoIdentity /\ remains' = TRUE
  /\ UNCHANGED <<chain, stop, sessions, holder, chatStore, heard>>

-----------------------------------------------------------------------------
(* SessionModel and mobile.Session.                                        *)

Uncounted(s) == next' = [next EXCEPT ![s] = 0]

To(s, p) == phase' = [phase EXCEPT ![s] = p]

BesidesThread == UNCHANGED <<chain, walletVars, sessionVars, outgoing, kills>>

\* A session changes the store, whoever is logged in by now.
Persist(s, c) ==
  /\ chatStore' = c
  /\ remains' = (remains \/ s # current)
  /\ UNCHANGED heard

\* connect() returns: nobody asks whether there has been a logout since. The
\* scan starts where the store is now.
Connect(s) ==
  /\ phase[s] = "connecting"
  /\ \/ To(s, "fetching") /\ next' = [next EXCEPT ![s] = chatStore.synced]
     \/ To(s, "ended") /\ UNCHANGED next
  /\ UNCHANGED <<stop, events, historyVars>> /\ BesidesThread

\* FetchHistory, to the end of the chain; or it fails, as it may when Close has
\* closed the connection under it, and fails over or not.
FetchHistory(s) ==
  /\ phase[s] = "fetching"
  /\ \/ /\ To(s, "fetched") /\ next' = [next EXCEPT ![s] = Tip + 1]
        /\ \E unreadable \in SUBSET (MessagesOf(holder[s]) \ ReceivedBy(holder[s])) :
             events' = [events EXCEPT ![s] =
                          {h \in MessagesOf(holder[s]) \ unreadable : h >= next[s]}]
     \/ To(s, "launching") /\ Uncounted(s) /\ UNCHANGED events
  /\ UNCHANGED <<stop, historyVars>> /\ BesidesThread

\* Mutant: the next scan starts past the blocks that came in meanwhile.
SyncHistoryPastTip(s) ==
  /\ phase[s] = "fetched" /\ To(s, "launching") /\ Uncounted(s)
  /\ Persist(s, Checkpointed(With(chatStore, events[s]), Tip + 1))
  /\ events' = [events EXCEPT ![s] = {}]
  /\ UNCHANGED stop /\ BesidesThread

\* syncHistory goes on: all it has got is stored, and start() goes on to listen.
SyncHistory(s) ==
  /\ phase[s] = "fetched" /\ To(s, "launching") /\ Uncounted(s)
  /\ Persist(s, Checkpointed(With(chatStore, events[s]), next[s]))
  /\ events' = [events EXCEPT ![s] = {}]
  /\ UNCHANGED stop /\ BesidesThread

\* Session.Listen sets its cancel function; a model that is gone does not call it.
BeginListening(s) ==
  /\ phase[s] = "launching"
  /\ \/ To(s, "opening")
     \/ s # current /\ To(s, "ended")
  /\ UNCHANGED <<stop, next, events, historyVars>> /\ BesidesThread

\* Client.Listen: the stream opens at the tip, or the context is done.
Subscribe(s) ==
  /\ phase[s] = "opening"
  /\ IF stop[s] THEN To(s, "ended") /\ UNCHANGED next
     ELSE To(s, "open") /\ next' = [next EXCEPT ![s] = Tip + 1]
  /\ UNCHANGED <<stop, events, historyVars>> /\ BesidesThread

\* The next message, which a cancelled stream may still have in its buffer, is
\* handed to the main actor.
OnMessage(s) ==
  \E h \in ReceivedBy(holder[s]) :
    /\ phase[s] = "open" /\ h >= next[s]
    /\ \A i \in ReceivedBy(holder[s]) : i >= next[s] => h <= i
    /\ events' = [events EXCEPT ![s] = @ \cup {h}]
    /\ next' = [next EXCEPT ![s] = h + 1]
    /\ UNCHANGED <<phase, stop, historyVars>> /\ BesidesThread

\* The main actor gets to it: appendMessage.
Deliver(s) ==
  \E h \in events[s] :
    /\ phase[s] # "fetched"
    /\ Persist(s, With(chatStore, {h}))
    /\ events' = [events EXCEPT ![s] = @ \ {h}]
    /\ UNCHANGED <<phase, stop, next>> /\ BesidesThread

\* The stream breaks, and Listen fails over; or it was cancelled.
StreamEnds(s) ==
  /\ phase[s] = "open"
  /\ To(s, IF stop[s] THEN "ended" ELSE "opening") /\ Uncounted(s)
  /\ UNCHANGED <<stop, events, historyVars>> /\ BesidesThread

\* sendText: a gateway accepts the message, and the main actor appends it.
SendText ==
  /\ step = "main"
  /\ AddBlock(holder[current], TRUE)
  /\ outgoing' = [outgoing EXCEPT ![current] = @ \cup {Tip + 1}]
  /\ UNCHANGED <<walletVars, threadVars, sessionVars, historyVars, kills>>

Sent(s) ==
  \E h \in outgoing[s] :
    /\ outgoing' = [outgoing EXCEPT ![s] = @ \ {h}]
    /\ Persist(s, With(chatStore, {h}))
    /\ UNCHANGED <<chain, walletVars, threadVars, sessionVars, kills>>

-----------------------------------------------------------------------------

WriteTo ==
  /\ \E w \in Identity : AddBlock(w, FALSE)
  /\ UNCHANGED <<walletVars, threadVars, sessionVars, outgoing, historyVars, kills>>

ThreadStep(s) ==
  \/ Connect(s) \/ FetchHistory(s) \/ SyncHistory(s) \/ BeginListening(s)
  \/ Subscribe(s) \/ OnMessage(s) \/ Deliver(s) \/ StreamEnds(s)

AppleNext ==
  \/ Relaunch \/ ChooseMnemonic \/ AskKeychain \/ SaveEnds \/ LoadEnds \/ LogOutInstead
  \/ CompleteOnboarding \/ OnboardingFails \/ Logout \/ Kill
  \/ \E s \in Session : ThreadStep(s) \/ Sent(s)
  \/ SendText \/ WriteTo

AppleSpec == AppleInit /\ [][AppleNext]_appleVars

-----------------------------------------------------------------------------
(* Properties.                                                             *)

\* Every variable has its type.
AppleTypeOK ==
  /\ ChainTypeOK
  /\ step \in Steps
  /\ {mnemonic, keychain, saving, loading} \subseteq Identity \cup {NoIdentity}
  /\ ready \subseteq Identity
  /\ sessions \in 0 .. MaxSessions /\ current \in 0 .. sessions /\ kills \in 0 .. MaxKills
  /\ holder \in [Session -> Identity \cup {NoIdentity}]
  /\ phase \in [Session -> Phases]
  /\ stop \in [Session -> BOOLEAN]
  /\ next \in [Session -> 0 .. MaxHeight + 1]
  /\ events \in [Session -> SUBSET Height]
  /\ outgoing \in [Session -> SUBSET Height]
  /\ chatStore \in Chats /\ remains \in BOOLEAN /\ heard \subseteq Session

Account == IF step = "main" THEN holder[current] ELSE keychain

\* AppModel.swift:67-78, ChatStore.swift:133-141: after a logout nothing is left
\* of an identity, and the next one is scanned from the start. So it is but for
\* what remains: a session that was not listening yet when it was stopped, or
\* has a message on its way to the main actor; a logout from the unlock screen,
\* which erases no chats and stops no unlock; and a kill in the middle.
ChatsMatchWallet ==
  remains \/
    /\ IF Account \in Identity THEN BelongsTo(chatStore, Account) ELSE chatStore = NoChats
    /\ step = "main" => keychain = holder[current]

\* A session that is stopped while it listens opens no stream again; what the
\* stream had for it may still arrive (SessionModel.swift:164-169,
\* session.go:139-182, client.go:168-209).
StoppedStaysSilent ==
  [][\A s \in heard : phase'[s] \in {phase[s], "ended"}]_appleVars
=============================================================================
