------------------------------ MODULE SwapSession ------------------------------
(***************************************************************************)
(* Who the swap page acts for: the connected wallet, the sign-in and the   *)
(* panels that show a wallet's saved data (src/src/app/swap/page.tsx,      *)
(* src/src/lib/backendSession.ts, backendClient.ts, walletSigning.ts), and *)
(* the cookie the backend answers by (AuthService.java).                   *)
(*                                                                         *)
(* A session is the wallet it was issued to.  The page keeps it twice, in  *)
(* the tab's storage and in its state; the backend looks at neither, it    *)
(* takes the wallet of the cookie.  A handler of the page runs up to its   *)
(* next await, so a task is a handler that waits: for the sign-in, or for  *)
(* the answer to a request sent with the cookie of that moment.            *)
(***************************************************************************)
EXTENDS Naturals, FiniteSets

CONSTANTS
    Wallets,
    None,
    Scopes,     \* bound: the panel one behaviour uses, the handlers started
    MaxMoves,   \* bound: wallet events
    MaxFaults   \* bound: expiries, failed and refused requests

Panels == {"history", "preferences", "favorites", "alerts"}

VARIABLES
    provider,   \* a wallet provider is attached
    wallet,     \* walletAddress
    attaching,  \* eth_accounts of the attached provider has not answered
    moved,      \* walletAddress or provider changed, the effect has not run
    stored,     \* the session in the tab's sessionStorage
    session,    \* backendSession
    cookie,     \* wallet_session in the browser: the wallet it stands for
    request,    \* backendSessionRequestRef: wallet and phase, or "none"
    leaving,    \* onDisconnectWallet: "no", "logout", "closing"
    shown,      \* whose data each panel shows
    loaded,     \* historyLoaded, notificationPreferenceLoaded, ...
    busy,       \* historyLoading, favoritePairSaving, ...: panel and operation
    flying,     \* historyRequestInFlightRef, ...: the panels with a load
    tasks,
    scope, started, moves, faults

walletVars == <<provider, wallet, attaching, moved, moves>>
pastVars == <<scope, started>>
sessionVars == <<stored, session, cookie>>
panelVars == <<shown, loaded, busy, flying>>
vars == <<walletVars, sessionVars, request, leaving, panelVars, tasks, pastVars, faults>>

NoRequest == [phase |-> "none", wallet |-> None]

Init ==
    /\ provider = FALSE /\ wallet = None /\ attaching = FALSE /\ moved = FALSE
    /\ stored = None /\ session = None /\ cookie = None
    /\ request = NoRequest
    /\ leaving = "no"
    /\ shown = [p \in Panels |-> {}] /\ loaded = [p \in Panels |-> FALSE]
    /\ busy = {} /\ flying = {}
    /\ scope \in Scopes
    /\ tasks = {} /\ started = 0 /\ moves = 0 /\ faults = 0

Fault == faults < MaxFaults /\ faults' = faults + 1

Signed(owner) == owner # None /\ owner = wallet    \* isSessionForWallet

\* getCurrentBackendSessionForWallet: the state first, then the storage.
Current == IF session # None THEN session ELSE stored

ForgetSession == stored' = None /\ session' = None

-----------------------------------------------------------------------------
(* The wallet *)

Move == moves < MaxMoves /\ moves' = moves + 1

Becomes(w) ==
    /\ wallet' = w
    /\ moved' = (moved \/ w # wallet \/ provider' # provider)

\* The wallet bridge reports a connected account; the provider of
\* a new connection is asked for its accounts.
BridgeConnects(w) ==
    /\ ~provider \/ w # wallet
    /\ Move
    /\ provider' = TRUE
    /\ Becomes(w)
    /\ attaching' = (attaching \/ ~provider)
    /\ UNCHANGED <<sessionVars, request, leaving, panelVars, tasks, pastVars, faults>>

BridgeLeaves ==
    /\ provider \/ wallet # None
    /\ Move
    /\ provider' = FALSE
    /\ Becomes(None)
    /\ UNCHANGED <<attaching, sessionVars, request, leaving, panelVars, tasks, pastVars, faults>>

\* The late answer sets the address whatever happened in between.
AttachAnswers(w) ==
    /\ attaching
    /\ Move
    /\ attaching' = FALSE
    /\ UNCHANGED provider
    /\ Becomes(w)
    /\ UNCHANGED <<sessionVars, request, leaving, panelVars, tasks, pastVars, faults>>

AccountsChanged(w) ==
    /\ provider
    /\ Move
    /\ ForgetSession
    /\ UNCHANGED provider
    /\ Becomes(w)
    /\ UNCHANGED <<attaching, cookie, request, leaving, panelVars, tasks, pastVars, faults>>

ProviderDisconnects ==
    /\ provider
    /\ Move
    /\ ForgetSession
    /\ provider' = FALSE
    /\ Becomes(None)
    /\ UNCHANGED <<attaching, cookie, request, leaving, panelVars, tasks, pastVars, faults>>

Flags(panels) == {b \in busy : b[1] \in panels}

Cleared(panels) ==
    /\ shown' = [p \in Panels |-> IF p \in panels THEN {} ELSE shown[p]]
    /\ loaded' = [p \in Panels |-> loaded[p] /\ p \notin panels]

\* The effect on walletAddress and provider takes the stored session of the
\* new wallet, if there is one, and empties the panels.
WalletEffect ==
    /\ moved
    /\ moved' = FALSE
    /\ session' = IF Signed(stored) THEN stored ELSE None
    /\ Cleared(Panels)
    /\ busy' = IF Signed(stored) THEN Flags({"history"}) ELSE {}
    /\ flying' = flying \cap {"history"}
    /\ UNCHANGED <<provider, wallet, attaching, moves, stored, cookie, request, leaving,
                   tasks, pastVars, faults>>

-----------------------------------------------------------------------------
(* Signing in, and the tasks that wait for it *)

Asked(t) == [t EXCEPT !.phase = "asked", !.account = cookie]

Waiting == {t \in tasks : t.phase = "signing"}

\* Mutant: the flags are reset on success only.
EndedOnAnswer(done) ==
    /\ busy' = busy \ {<<t.panel, t.op>> : t \in {u \in done : u.account # None}}
    /\ flying' = flying \ {t.panel : t \in {u \in done : u.op = "load"}}

\* The finally block of each handler of a set.
Ended(done) ==
    /\ busy' = busy \ {<<t.panel, t.op>> : t \in done}
    /\ flying' = flying \ {t.panel : t \in {u \in done : u.op = "load"}}

\* A failed load of the history empties it; the other panels keep their data.
Failed(done) ==
    /\ shown' = IF \E t \in done : t.panel = "history" /\ t.op = "load"
                THEN [shown EXCEPT !["history"] = {}] ELSE shown
    /\ Ended(done)
    /\ UNCHANGED loaded

RequestStep(from, to) ==
    /\ request.phase = from
    /\ request' = [request EXCEPT !.phase = to]
    /\ UNCHANGED <<walletVars, stored, session, leaving, panelVars, tasks, pastVars, faults>>

NonceArrives == RequestStep("nonce", "prompt") /\ UNCHANGED cookie
Approve == RequestStep("prompt", "signing") /\ UNCHANGED cookie
Sign == RequestStep("signing", "verifying") /\ UNCHANGED cookie
Verify == RequestStep("verifying", "answering") /\ cookie' = request.wallet

Resume == tasks' = (tasks \ Waiting) \cup {Asked(t) : t \in Waiting}

\* Mutant: an answer for a wallet that has left is not written.
SignedInIfSame ==
    /\ request.phase = "answering"
    /\ request' = NoRequest
    /\ IF request.wallet = wallet THEN stored' = wallet /\ session' = wallet
                                  ELSE UNCHANGED <<stored, session>>
    /\ Resume
    /\ UNCHANGED <<walletVars, cookie, leaving, panelVars, pastVars, faults>>

\* verifyAuthSignature answers: the session is kept for whatever wallet is
\* connected by now, and every waiting handler goes on with it.
SignedIn ==
    /\ request.phase = "answering"
    /\ request' = NoRequest
    /\ stored' = request.wallet /\ session' = request.wallet
    /\ Resume
    /\ UNCHANGED <<walletVars, cookie, leaving, panelVars, pastVars, faults>>

\* The nonce, the signature or the verification fails, or there was no
\* provider; a refused verification is a 401, which signs the page out.
\* persistSwapSnapshot does not look at the status here.
RequestFails(refused) ==
    /\ request.phase \in {"nonce", "signing", "verifying", "refused"}
    /\ request.phase # "refused" => faults < MaxFaults
    /\ faults' = IF request.phase = "refused" THEN faults ELSE faults + 1
    /\ refused => request.phase = "verifying"
    /\ request' = NoRequest
    /\ IF refused /\ \E t \in Waiting : t.panel # "history" \/ t.op # "save"
       THEN ForgetSession ELSE UNCHANGED <<stored, session>>
    /\ Failed(Waiting)
    /\ tasks' = tasks \ Waiting
    /\ UNCHANGED <<walletVars, cookie, leaving, pastVars>>

\* Mutant: the dialog is closed and the promise behind it left open.
PromptDismissed ==
    /\ request.phase = "prompt"
    /\ request' = [request EXCEPT !.phase = "dismissed"]
    /\ UNCHANGED <<walletVars, sessionVars, leaving, panelVars, tasks, pastVars, faults>>

CancelPrompt ==
    /\ request.phase = "prompt"
    /\ request' = NoRequest
    /\ Failed(Waiting)
    /\ tasks' = tasks \ Waiting
    /\ UNCHANGED <<walletVars, sessionVars, leaving, pastVars, faults>>

\* ensureBackendSession after the storage held no session for w: one request
\* is shared by all handlers, whatever wallet it was started for.
Join(w) ==
    request' = IF request # NoRequest THEN request
               ELSE [phase |-> IF provider THEN "nonce" ELSE "refused", wallet |-> w]

-----------------------------------------------------------------------------
(* The handlers of the panels *)

NewTask(panel, op, phase) ==
    [id |-> CHOOSE i \in 1 .. scope.handlers : \A t \in tasks : t.id # i, panel |-> panel, op |-> op, phase |-> phase,
     wallet |-> IF panel = "history" /\ op = "save" THEN wallet ELSE None,
     account |-> IF phase = "asked" THEN cookie ELSE None, again |-> FALSE]

\* The effects of a change have run when the user presses a button.
Starts(panel, op, phase) ==
    /\ ~moved
    /\ panel = scope.panel /\ started < scope.handlers
    /\ started' = started + 1 /\ UNCHANGED scope
    /\ tasks' = tasks \cup {NewTask(panel, op, phase)}
    /\ busy' = IF panel = "history" /\ op = "save" THEN busy ELSE busy \cup {<<panel, op>>}
    /\ flying' = IF op = "load" THEN flying \cup {panel} ELSE flying
    /\ UNCHANGED <<walletVars, stored, cookie, leaving, shown, loaded, faults>>

\* ensureBackendSession: the stored session of the wallet, or a sign-in.
WithSignIn(panel, op) ==
    /\ wallet # None
    /\ \/ Signed(stored) /\ session' = stored
          /\ Starts(panel, op, "asked") /\ UNCHANGED request
       \/ ~Signed(stored) /\ Join(wallet)
          /\ Starts(panel, op, "signing") /\ UNCHANGED session

\* getSignedInBackendSessionOrThrow: without a session nothing is asked.
WithSession(panel, op) ==
    /\ Signed(Current)
    /\ session' = Current
    /\ Starts(panel, op, "asked") /\ UNCHANGED request

\* By the button unless it shows that a load runs, or when the view opens
\* with a session and without data; the reference guards both.
MayLoad(panel) ==
    /\ panel \notin flying
    /\ <<panel, "load">> \notin busy \/ (~loaded[panel] /\ Signed(Current))

\* What the views offer: the settings and the favorites take a session in the
\* state, the history and the alerts a wallet; a button that is at work is
\* disabled.
PreferencesOffer(op) == Signed(session) /\ <<"preferences", op>> \notin busy
FavoritesOffer(op) == Signed(session) /\ <<"favorites", op>> \notin busy
PopoverOffers == wallet # None /\ <<"favorites", "save">> \notin busy
AlertsOffer(op) == wallet # None /\ <<"alerts", op>> \notin busy

LoadHistory == MayLoad("history") /\ WithSignIn("history", "load")
PersistSwap == WithSignIn("history", "save")
LoadPreferences == MayLoad("preferences") /\ WithSignIn("preferences", "load")
SavePreferences == PreferencesOffer("save") /\ WithSession("preferences", "save")
CheckTelegram == PreferencesOffer("save") /\ WithSession("preferences", "save")
StartTelegram == PreferencesOffer("call") /\ WithSession("preferences", "call")
TestPush == PreferencesOffer("call") /\ WithSession("preferences", "call")
EnablePush == PreferencesOffer("push") /\ WithSession("preferences", "push")
DisablePush == PreferencesOffer("push") /\ WithSession("preferences", "push")
LoadFavorites == MayLoad("favorites") /\ WithSession("favorites", "load")
SignInAndLoadFavorites ==
    ~Signed(session) /\ MayLoad("favorites") /\ WithSignIn("favorites", "load")
SaveFavorite ==
    (PopoverOffers \/ FavoritesOffer("save")) /\ WithSignIn("favorites", "save")
RemoveFavorite == FavoritesOffer("delete") /\ WithSession("favorites", "delete")
LoadAlerts == MayLoad("alerts") /\ WithSignIn("alerts", "load")
SaveAlert == AlertsOffer("save") /\ WithSignIn("alerts", "save")
RemoveAlert == AlertsOffer("delete") /\ WithSignIn("alerts", "delete")

\* What an answered handler puts on the screen: a load and a preference
\* replace, a saved record joins the records shown, a removal takes one away.
Applied(t) ==
    LET p == t.panel
        whole == t.op = "load" \/ p = "preferences"
    IN  /\ shown' = IF t.op \in {"delete", "call"} THEN shown
                    ELSE [shown EXCEPT ![p] = IF whole THEN {t.account} ELSE @ \cup {t.account}]
        /\ loaded' = IF t.op \in {"delete", "call"} \/ (p = "history" /\ t.op = "save")
                     THEN loaded ELSE [loaded EXCEPT ![p] = TRUE]

\* refreshCurrentPushDeviceStatus follows a load and a change of the push
\* settings, inside the same handler.
AsksDevice(t) == t.panel = "preferences" /\ t.op \in {"load", "push"}

Answered(t) ==
    /\ t \in tasks /\ t.phase = "asked" /\ t.account # None
    /\ Applied(t)
    /\ IF AsksDevice(t)
       THEN /\ tasks' = (tasks \ {t}) \cup {[t EXCEPT !.phase = "device", !.account = cookie]}
            /\ UNCHANGED <<busy, flying>>
       ELSE tasks' = tasks \ {t} /\ Ended({t})
    /\ UNCHANGED <<walletVars, sessionVars, request, leaving, pastVars, faults>>

\* The status of the device is added to the preference shown, if any; a
\* failure is swallowed.
DeviceAnswered(t) ==
    /\ t \in tasks /\ t.phase = "device"
    /\ shown' = IF t.account = None \/ shown["preferences"] = {} THEN shown
                ELSE [shown EXCEPT !["preferences"] = @ \cup {t.account}]
    /\ UNCHANGED loaded
    /\ tasks' = tasks \ {t} /\ Ended({t})
    /\ UNCHANGED <<walletVars, sessionVars, request, leaving, pastVars, faults>>

\* The cookie is missing or no longer accepted: the page signs out.  A swap
\* that was not saved is saved once more, after a new sign-in.
Unauthorised(t) ==
    /\ t \in tasks /\ t.phase = "asked" /\ t.account = None
    /\ ForgetSession
    /\ IF t.panel = "history" /\ t.op = "save" /\ ~t.again
       THEN /\ tasks' = (tasks \ {t}) \cup {[t EXCEPT !.phase = "signing", !.again = TRUE]}
            /\ Join(t.wallet)
            /\ UNCHANGED panelVars
       ELSE /\ tasks' = tasks \ {t}
            /\ Failed({t})
            /\ UNCHANGED request
    /\ UNCHANGED <<walletVars, cookie, leaving, pastVars, faults>>

\* Any other error, and the answer that does not come within 20 seconds.
AnswerLost(t) ==
    /\ t \in tasks /\ t.phase = "asked" /\ t.account # None
    /\ Fault
    /\ tasks' = tasks \ {t}
    /\ Failed({t})
    /\ UNCHANGED <<walletVars, sessionVars, request, leaving, pastVars>>

-----------------------------------------------------------------------------
(* Leaving, and sessions that end *)

PressDisconnect ==
    /\ leaving = "no" /\ wallet # None /\ ~moved
    /\ leaving' = IF Current # None THEN "logout" ELSE "closing"
    /\ UNCHANGED <<walletVars, sessionVars, request, panelVars, tasks, pastVars, faults>>

\* The backend ends the session of the cookie and takes the cookie back.
LogoutAnswers ==
    /\ leaving = "logout"
    /\ leaving' = "closing"
    /\ cookie' = None
    /\ UNCHANGED <<walletVars, stored, session, request, panelVars, tasks, pastVars, faults>>

LogoutFails ==
    /\ leaving = "logout"
    /\ Fault
    /\ leaving' = "closing"
    /\ UNCHANGED <<walletVars, sessionVars, request, panelVars, tasks, pastVars>>

Disconnected ==
    /\ leaving = "closing"
    /\ leaving' = "no"
    /\ ForgetSession
    /\ provider' = FALSE
    /\ Becomes(None)
    /\ shown' = [shown EXCEPT !["history"] = {}, !["preferences"] = {}, !["favorites"] = {}]
    /\ loaded' = [loaded EXCEPT !["preferences"] = FALSE, !["favorites"] = FALSE]
    /\ busy' = Flags({"history", "alerts"})
    /\ flying' = flying \cap {"history", "alerts"}
    /\ UNCHANGED <<attaching, moves, cookie, request, tasks, pastVars, faults>>

\* isValidStoredSession gives a session up a minute before it expires.
StoredExpires ==
    /\ stored # None
    /\ Fault
    /\ stored' = None
    /\ UNCHANGED <<walletVars, session, cookie, request, leaving, panelVars, tasks, pastVars>>

CookieExpires ==
    /\ cookie \notin {None, stored}
    /\ Fault
    /\ cookie' = None
    /\ UNCHANGED <<walletVars, stored, session, request, leaving, panelVars, tasks, pastVars>>

-----------------------------------------------------------------------------
Press ==
    \/ LoadHistory \/ PersistSwap
    \/ LoadPreferences \/ SavePreferences \/ CheckTelegram \/ StartTelegram
    \/ TestPush \/ EnablePush \/ DisablePush
    \/ LoadFavorites \/ SignInAndLoadFavorites \/ SaveFavorite \/ RemoveFavorite
    \/ LoadAlerts \/ SaveAlert \/ RemoveAlert
    \/ PressDisconnect

WalletEvent ==
    \/ \E w \in Wallets : BridgeConnects(w) \/ AttachAnswers(w)
    \/ \E w \in Wallets \cup {None} : AccountsChanged(w)
    \/ BridgeLeaves \/ ProviderDisconnects

\* What the scheduler, the network's timeouts and the user's attention to a
\* modal dialog bring about.
Progress ==
    \/ WalletEffect
    \/ NonceArrives \/ Approve \/ CancelPrompt \/ Sign \/ Verify \/ SignedIn
    \/ RequestFails(TRUE) \/ RequestFails(FALSE)
    \/ \E t \in tasks : Answered(t) \/ DeviceAnswered(t) \/ Unauthorised(t) \/ AnswerLost(t)
    \/ LogoutAnswers \/ LogoutFails \/ Disconnected

Next == Press \/ WalletEvent \/ Progress \/ StoredExpires \/ CookieExpires

Spec == Init /\ [][Next]_vars /\ WF_vars(Progress)

-----------------------------------------------------------------------------
Owners == Wallets \cup {None}
Operations == {"load", "save", "push", "call", "delete"}

\* The state's types, and the bounds.
TypeOK ==
    /\ {provider, attaching, moved} \subseteq BOOLEAN
    /\ {wallet, stored, session, cookie, request.wallet} \subseteq Owners
    /\ request.phase \in {"none", "nonce", "prompt", "signing", "verifying", "answering", "refused"}
    /\ leaving \in {"no", "logout", "closing"}
    /\ shown \in [Panels -> SUBSET Wallets] /\ loaded \in [Panels -> BOOLEAN]
    /\ busy \subseteq Panels \X Operations /\ flying \subseteq Panels
    /\ \A t \in tasks : /\ t.id \in 1 .. scope.handlers /\ t.panel \in Panels /\ t.op \in Operations
                        /\ t.phase \in {"signing", "asked", "device"}
    /\ scope \in Scopes /\ started <= scope.handlers /\ moves <= MaxMoves /\ faults <= MaxFaults

\* A spinner has work behind it: no order of wallet changes, failed sign-ins
\* and late answers leaves a loading or saving flag set when no handler is
\* left to reset it.
SpinnerHasWork == \A b \in busy : \E t \in tasks : <<t.panel, t.op>> = b

\* Once no sign-in and no sign-out is under way, the session the page
\* believes in is the one the browser's cookie stands for, or the cookie is
\* gone, which the next answer tells: the page does not keep showing one
\* wallet as signed in while the backend acts for another one.
SettledSessionIsTheCookies ==
    request = NoRequest /\ leaving = "no" =>
        \A s \in {stored, session} \ {None} : cookie \in {s, None}

\* When the user and the wallet come to rest, so does the page: every sign-in
\* ends, every handler is answered and every spinner stops.
EverythingAnswers ==
    <>[](tasks = {} /\ busy = {} /\ request = NoRequest /\ leaving = "no")

\* "keep your history, favorite pairs, and notification settings separate from
\* other users" (page.tsx): what a panel shows belongs to the wallet connected.
ShownDataIsTheWallets == ~moved => \A p \in Panels : shown[p] \subseteq {wallet}
=============================================================================
