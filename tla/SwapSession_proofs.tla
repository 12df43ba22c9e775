-------------------------- MODULE SwapSession_proofs --------------------------
(***************************************************************************)
(* Two invariants of SwapSession for any number of wallets, handlers and   *)
(* wallet events: the session the page believes in is the one its cookie   *)
(* stands for, and a spinner has a handler behind it.                      *)
(***************************************************************************)
EXTENDS SwapSession, TLAPS

-----------------------------------------------------------------------------
(* The session and the cookie *)

RequestOK == request = [phase |-> request.phase, wallet |-> request.wallet]

\* Until the answer of a verification is handled the page may believe in an
\* older session than the cookie; then it takes over the wallet verified.
Believed ==
    IF request.phase = "answering" THEN cookie \in {request.wallet, None}
    ELSE \A s \in {stored, session} \ {None} : cookie \in {s, None}

SessionInv == RequestOK /\ Believed

LEMMA SessionInit == Init => SessionInv
BY DEF Init, SessionInv, RequestOK, Believed, NoRequest

\* A step that leaves the request and the cookie, and takes no session that
\* was not there before.
LEMMA SessionKept ==
    ASSUME SessionInv, UNCHANGED <<request, cookie>>,
           {stored', session'} \subseteq {stored, session, None}
    PROVE  SessionInv'
BY DEF SessionInv, RequestOK, Believed

\* A handler that joins the sign-in under way, or starts one.
LEMMA SessionJoined ==
    ASSUME SessionInv, NEW w, Join(w), UNCHANGED cookie,
           {stored', session'} \subseteq {stored, session, None}
    PROVE  SessionInv'
<1>1. CASE request # NoRequest
  BY <1>1, SessionKept DEF Join
<1>2. CASE request = NoRequest
  BY <1>2 DEF Join, NoRequest, SessionInv, RequestOK, Believed
<1> QED
  BY <1>1, <1>2

\* A press of a button or an effect that loads.
LEMMA SessionPressed ==
    ASSUME SessionInv, NEW panel, NEW op,
           WithSignIn(panel, op) \/ WithSession(panel, op)
    PROVE  SessionInv'
<1>1. CASE WithSession(panel, op)
  BY <1>1, SessionKept DEF WithSession, Starts, Current
<1>2. CASE Signed(stored) /\ session' = stored /\ Starts(panel, op, "asked") /\ UNCHANGED request
  BY <1>2, SessionKept DEF Starts
<1>3. CASE ~Signed(stored) /\ Join(wallet) /\ Starts(panel, op, "signing") /\ UNCHANGED session
  BY <1>3, SessionJoined DEF Starts
<1> QED
  BY <1>1, <1>2, <1>3 DEF WithSignIn

LEMMA SessionRequestStep ==
    ASSUME SessionInv, NEW from, NEW to, RequestStep(from, to), UNCHANGED cookie,
           from # "answering", to # "answering"
    PROVE  SessionInv'
BY DEF SessionInv, RequestOK, Believed, RequestStep, sessionVars

LEMMA SessionNext == SessionInv /\ [Next]_vars => SessionInv'
<1> SUFFICES ASSUME SessionInv, [Next]_vars PROVE SessionInv'
  OBVIOUS
<1>1. CASE Press
  <2>1. CASE PressDisconnect
    BY <2>1, SessionKept DEF PressDisconnect, sessionVars
  <2>2. CASE ~PressDisconnect
    BY <1>1, <2>2, SessionPressed
    DEF Press, LoadHistory, PersistSwap, LoadPreferences, SavePreferences, CheckTelegram,
        StartTelegram, TestPush, EnablePush, DisablePush, LoadFavorites,
        SignInAndLoadFavorites, SaveFavorite, RemoveFavorite, LoadAlerts, SaveAlert, RemoveAlert
  <2> QED
    BY <2>1, <2>2
<1>2. CASE WalletEvent
  BY <1>2, SessionKept
  DEF WalletEvent, BridgeConnects, BridgeLeaves, AttachAnswers, AccountsChanged,
      ProviderDisconnects, ForgetSession, sessionVars
<1>3. CASE WalletEffect
  BY <1>3, SessionKept DEF WalletEffect
<1>4. CASE NonceArrives \/ Approve \/ Sign
  BY <1>4, SessionRequestStep DEF NonceArrives, Approve, Sign
<1>5. CASE Verify
  BY <1>5 DEF Verify, RequestStep, SessionInv, RequestOK, Believed
<1>6. CASE SignedIn
  BY <1>6 DEF SignedIn, NoRequest, SessionInv, RequestOK, Believed
<1>7. CASE CancelPrompt
  BY <1>7 DEF CancelPrompt, NoRequest, SessionInv, RequestOK, Believed, sessionVars
<1>8. CASE \E refused \in BOOLEAN : RequestFails(refused)
  <2>1. PICK refused \in BOOLEAN : RequestFails(refused)
    BY <1>8
  <2>2. {stored', session'} \subseteq {stored, session, None} /\ request' = NoRequest
        /\ request.phase # "answering" /\ cookie' = cookie
    BY <2>1 DEF RequestFails, ForgetSession
  <2> QED
    BY <2>2 DEF NoRequest, SessionInv, RequestOK, Believed
<1>9. CASE \E t \in tasks : Answered(t) \/ DeviceAnswered(t) \/ AnswerLost(t)
  BY <1>9, SessionKept DEF Answered, DeviceAnswered, AnswerLost, sessionVars
<1>10. CASE \E t \in tasks : Unauthorised(t)
  <2>1. PICK t \in tasks : Unauthorised(t)
    BY <1>10
  <2>2. {stored', session'} \subseteq {stored, session, None} /\ cookie' = cookie
        /\ (Join(t.wallet) \/ request' = request)
    BY <2>1 DEF Unauthorised, ForgetSession
  <2> QED
    BY <2>2, SessionJoined, SessionKept
<1>11. CASE LogoutAnswers \/ CookieExpires
  BY <1>11 DEF LogoutAnswers, CookieExpires, SessionInv, RequestOK, Believed
<1>12. CASE LogoutFails \/ Disconnected \/ StoredExpires
  BY <1>12, SessionKept DEF LogoutFails, Disconnected, StoredExpires, ForgetSession, sessionVars
<1>13. CASE UNCHANGED vars
  BY <1>13, SessionKept DEF vars, sessionVars
<1> QED
  BY <1>1, <1>2, <1>3, <1>4, <1>5, <1>6, <1>7, <1>8, <1>9, <1>10, <1>11, <1>12, <1>13
  DEF Next, Progress

\* With no sign-in under way, the session in the page's state and the one in
\* the tab's storage are the cookie's, or the cookie is gone: for any number of
\* wallets, handlers that share a sign-in, and events.
THEOREM SessionFollowsCookie == Spec => []SettledSessionIsTheCookies
<1>1. SessionInv => SettledSessionIsTheCookies
  BY DEF SessionInv, Believed, SettledSessionIsTheCookies, NoRequest
<1> QED
  BY <1>1, SessionInit, SessionNext, PTL DEF Spec

-----------------------------------------------------------------------------
(* Spinners and the handlers behind them *)

\* A waiting handler is one record; only its phase, its account and whether it
\* tries again ever change.
IsTask(t) == t \in [id : {t.id}, panel : {t.panel}, op : {t.op}, phase : {t.phase},
                    wallet : {t.wallet}, account : {t.account}, again : {t.again}]

SameWork(t, u) == IsTask(u) /\ u.panel = t.panel /\ u.op = t.op

SpinnerInv == (\A t \in tasks : IsTask(t)) /\ SpinnerHasWork

LEMMA SpinnerInit == Init => SpinnerInv
BY DEF Init, SpinnerInv, SpinnerHasWork

\* Handlers end and take their flags with them; the others may go on.
LEMMA SpinnerEnded ==
    ASSUME SpinnerInv, NEW done \in SUBSET tasks, tasks' = tasks \ done,
           busy' = busy \ {<<t.panel, t.op>> : t \in done}
    PROVE  SpinnerInv'
<1>1. \A t \in tasks' : IsTask(t)
  BY DEF SpinnerInv
<1>2. ASSUME NEW b \in busy' PROVE \E t \in tasks' : <<t.panel, t.op>> = b
  <2>1. PICK t \in tasks : <<t.panel, t.op>> = b
    BY DEF SpinnerInv, SpinnerHasWork
  <2>2. t \notin done
    BY <2>1
  <2> QED
    BY <2>1, <2>2
<1> QED
  BY <1>1, <1>2 DEF SpinnerInv, SpinnerHasWork

\* Flags are taken down only, and every handler goes on with the same work.
LEMMA SpinnerGoesOn ==
    ASSUME SpinnerInv, busy' \subseteq busy,
           \A t \in tasks : \E u \in tasks' : SameWork(t, u),
           \A u \in tasks' : IsTask(u)
    PROVE  SpinnerInv'
<1>1. ASSUME NEW b \in busy' PROVE \E t \in tasks' : <<t.panel, t.op>> = b
  <2>1. PICK t \in tasks : <<t.panel, t.op>> = b
    BY DEF SpinnerInv, SpinnerHasWork
  <2>2. PICK u \in tasks' : SameWork(t, u)
    OBVIOUS
  <2> QED
    BY <2>1, <2>2 DEF SameWork
<1> QED
  BY <1>1 DEF SpinnerInv, SpinnerHasWork

LEMMA SpinnerKept ==
    ASSUME SpinnerInv, busy' \subseteq busy, tasks' = tasks
    PROVE  SpinnerInv'
BY DEF SpinnerInv, SpinnerHasWork

LEMMA NewTaskWorks ==
    ASSUME NEW panel, NEW op, NEW phase
    PROVE  LET t == NewTask(panel, op, phase) IN IsTask(t) /\ t.panel = panel /\ t.op = op
<1> DEFINE id == CHOOSE i \in 1 .. scope.handlers : \A t \in tasks : t.id # i
           for == IF panel = "history" /\ op = "save" THEN wallet ELSE None
           account == IF phase = "asked" THEN cookie ELSE None
<1>1. NewTask(panel, op, phase) = [id |-> id, panel |-> panel, op |-> op, phase |-> phase,
                                   wallet |-> for, account |-> account, again |-> FALSE]
  BY DEF NewTask
<1> HIDE DEF id, for, account
<1> QED
  BY <1>1 DEF IsTask

LEMMA SpinnerStarts ==
    ASSUME SpinnerInv, NEW panel, NEW op, NEW phase, Starts(panel, op, phase)
    PROVE  SpinnerInv'
<1> DEFINE new == NewTask(panel, op, phase)
<1>1. IsTask(new) /\ new.panel = panel /\ new.op = op
  BY NewTaskWorks
<1>2. tasks' = tasks \cup {new} /\ busy' \subseteq busy \cup {<<panel, op>>}
  BY DEF Starts
<1> HIDE DEF new
<1>3. \A t \in tasks' : IsTask(t)
  BY <1>1, <1>2 DEF SpinnerInv
<1>4. ASSUME NEW b \in busy' PROVE \E t \in tasks' : <<t.panel, t.op>> = b
  <2>1. CASE b \in busy
    BY <1>2, <2>1 DEF SpinnerInv, SpinnerHasWork
  <2>2. CASE b = <<panel, op>>
    BY <1>1, <1>2, <2>2
  <2> QED
    BY <1>2, <2>1, <2>2
<1> QED
  BY <1>3, <1>4 DEF SpinnerInv, SpinnerHasWork

LEMMA RecordExcept ==
    ASSUME NEW I, NEW P, NEW O, NEW H, NEW W, NEW A, NEW G,
           NEW t \in [id : I, panel : P, op : O, phase : H, wallet : W, account : A, again : G],
           NEW x, NEW y, NEW z
    PROVE  LET u == [t EXCEPT !.phase = x, !.account = y]
               v == [t EXCEPT !.phase = x, !.again = z]
           IN  /\ u.panel = t.panel /\ u.op = t.op
               /\ u \in [id : I, panel : P, op : O, phase : H \cup {x}, wallet : W,
                          account : A \cup {y}, again : G]
               /\ v.panel = t.panel /\ v.op = t.op
               /\ v \in [id : I, panel : P, op : O, phase : H \cup {x}, wallet : W,
                          account : A, again : G \cup {z}]
OBVIOUS

\* A handler that goes on stays at its work.
LEMMA TaskExcept ==
    ASSUME NEW t, IsTask(t), NEW x, NEW y, NEW z
    PROVE  /\ SameWork(t, [t EXCEPT !.phase = x, !.account = y])
           /\ SameWork(t, [t EXCEPT !.phase = x, !.again = z])
<1> DEFINE u == [t EXCEPT !.phase = x, !.account = y]
           v == [t EXCEPT !.phase = x, !.again = z]
<1>1. /\ u.panel = t.panel /\ u.op = t.op
      /\ u \in [id : {t.id}, panel : {t.panel}, op : {t.op}, phase : {t.phase} \cup {x},
                 wallet : {t.wallet}, account : {t.account} \cup {y}, again : {t.again}]
      /\ v.panel = t.panel /\ v.op = t.op
      /\ v \in [id : {t.id}, panel : {t.panel}, op : {t.op}, phase : {t.phase} \cup {x},
                 wallet : {t.wallet}, account : {t.account}, again : {t.again} \cup {z}]
  BY RecordExcept, Zenon DEF IsTask
<1> HIDE DEF u, v
<1>2. IsTask(u) /\ IsTask(v)
  BY <1>1 DEF IsTask
<1>3. SameWork(t, u) /\ SameWork(t, v)
  BY <1>1, <1>2 DEF SameWork
<1> QED
  BY <1>3 DEF u, v

LEMMA AskedWorks ==
    ASSUME NEW t, IsTask(t)
    PROVE  SameWork(t, Asked(t))
BY TaskExcept, Zenon DEF Asked

\* One handler goes on to its next request.
LEMMA SpinnerNextRequest ==
    ASSUME SpinnerInv, NEW t \in tasks, NEW u, SameWork(t, u),
           tasks' = (tasks \ {t}) \cup {u}, busy' = busy
    PROVE  SpinnerInv'
<1>1. \A x \in tasks' : IsTask(x)
  BY DEF SpinnerInv, SameWork
<1>2. \A x \in tasks : \E y \in tasks' : SameWork(x, y)
  BY DEF SpinnerInv, SameWork
<1> QED
  BY <1>1, <1>2, SpinnerGoesOn

LEMMA SpinnerAnswers ==
    ASSUME SpinnerInv, NEW t \in tasks,
           Answered(t) \/ DeviceAnswered(t) \/ Unauthorised(t) \/ AnswerLost(t)
    PROVE  SpinnerInv'
<1>1. IsTask(t)
  BY DEF SpinnerInv
<1>2. CASE tasks' = tasks \ {t} /\ Ended({t})
  BY <1>2, SpinnerEnded DEF Ended
<1>3. CASE tasks' = (tasks \ {t}) \cup {[t EXCEPT !.phase = "device", !.account = cookie]}
           /\ busy' = busy
  <2> DEFINE u == [t EXCEPT !.phase = "device", !.account = cookie]
  <2>1. SameWork(t, u)
    BY <1>1, TaskExcept, Zenon
  <2> QED
    BY <1>3, <2>1, SpinnerNextRequest
<1>4. CASE tasks' = (tasks \ {t}) \cup {[t EXCEPT !.phase = "signing", !.again = TRUE]}
           /\ busy' = busy
  <2> DEFINE u == [t EXCEPT !.phase = "signing", !.again = TRUE]
  <2>1. SameWork(t, u)
    BY <1>1, TaskExcept, Zenon
  <2> QED
    BY <1>4, <2>1, SpinnerNextRequest
<1>5. Answered(t) => \/ /\ tasks' = tasks \ {t}
                        /\ Ended({t})
                     \/ /\ tasks' = (tasks \ {t}) \cup {[t EXCEPT !.phase = "device", !.account = cookie]}
                        /\ busy' = busy
  BY DEF Answered
<1>6. DeviceAnswered(t) \/ AnswerLost(t) => tasks' = tasks \ {t} /\ Ended({t})
  BY DEF DeviceAnswered, AnswerLost, Failed
<1>7. Unauthorised(t) => \/ /\ tasks' = tasks \ {t}
                            /\ Ended({t})
                         \/ /\ tasks' = (tasks \ {t}) \cup {[t EXCEPT !.phase = "signing", !.again = TRUE]}
                            /\ busy' = busy
  BY DEF Unauthorised, Failed, panelVars
<1> QED
  BY <1>2, <1>3, <1>4, <1>5, <1>6, <1>7

LEMMA SpinnerNext == SpinnerInv /\ [Next]_vars => SpinnerInv'
<1> SUFFICES ASSUME SpinnerInv, [Next]_vars PROVE SpinnerInv'
  OBVIOUS
<1>1. CASE Press
  <2>1. CASE PressDisconnect
    BY <2>1, SpinnerKept DEF PressDisconnect, panelVars
  <2>2. ASSUME NEW panel, NEW op, WithSignIn(panel, op) \/ WithSession(panel, op)
        PROVE  SpinnerInv'
    BY <2>2, SpinnerStarts DEF WithSignIn, WithSession
  <2>3. CASE ~PressDisconnect
    BY <1>1, <2>2, <2>3
    DEF Press, LoadHistory, PersistSwap, LoadPreferences, SavePreferences, CheckTelegram,
        StartTelegram, TestPush, EnablePush, DisablePush, LoadFavorites,
        SignInAndLoadFavorites, SaveFavorite, RemoveFavorite, LoadAlerts, SaveAlert, RemoveAlert
  <2> QED
    BY <2>1, <2>3
<1>2. CASE WalletEvent
  BY <1>2, SpinnerKept
  DEF WalletEvent, BridgeConnects, BridgeLeaves, AttachAnswers, AccountsChanged,
      ProviderDisconnects, panelVars
<1>3. CASE WalletEffect \/ Disconnected
  BY <1>3, SpinnerKept DEF WalletEffect, Disconnected, Flags
<1>4. CASE NonceArrives \/ Approve \/ Sign \/ Verify
  BY <1>4, SpinnerKept DEF NonceArrives, Approve, Sign, Verify, RequestStep, panelVars
<1>5. CASE SignedIn
  <2>1. busy' = busy /\ tasks' = (tasks \ Waiting) \cup {Asked(t) : t \in Waiting}
    BY <1>5 DEF SignedIn, Resume, panelVars
  <2>2. \A t \in tasks : SameWork(t, Asked(t)) /\ SameWork(t, t)
    BY AskedWorks DEF SpinnerInv, SameWork
  <2>3. \A u \in tasks' : IsTask(u)
    BY <2>1, <2>2 DEF SameWork, Waiting
  <2>4. \A t \in tasks : \E u \in tasks' : SameWork(t, u)
    BY <2>1, <2>2
  <2> QED
    BY <2>1, <2>3, <2>4, SpinnerGoesOn
<1>6. CASE CancelPrompt \/ \E refused \in BOOLEAN : RequestFails(refused)
  <2>1. Failed(Waiting) /\ tasks' = tasks \ Waiting /\ Waiting \subseteq tasks
    BY <1>6 DEF CancelPrompt, RequestFails, Waiting
  <2> QED
    BY <2>1, SpinnerEnded DEF Failed, Ended
<1>7. CASE \E t \in tasks : Answered(t) \/ DeviceAnswered(t) \/ Unauthorised(t) \/ AnswerLost(t)
  BY <1>7, SpinnerAnswers
<1>8. CASE LogoutAnswers \/ LogoutFails \/ StoredExpires \/ CookieExpires
  BY <1>8, SpinnerKept DEF LogoutAnswers, LogoutFails, StoredExpires, CookieExpires, panelVars
<1>9. CASE UNCHANGED vars
  BY <1>9, SpinnerKept DEF vars, panelVars
<1> QED
  BY <1>1, <1>2, <1>3, <1>4, <1>5, <1>6, <1>7, <1>8, <1>9 DEF Next, Progress

\* No order of wallet changes, failed sign-ins and late answers leaves a
\* loading or saving flag set without a handler that will reset it.
THEOREM SpinnersHaveWork == Spec => []SpinnerHasWork
<1>1. SpinnerInv => SpinnerHasWork
  BY DEF SpinnerInv
<1> QED
  BY <1>1, SpinnerInit, SpinnerNext, PTL DEF Spec

=============================================================================
