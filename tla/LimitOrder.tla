----------------------------- MODULE LimitOrder -----------------------------
(***************************************************************************)
(* The life of signed limit orders in the Java backend                     *)
(* (backend/src/main/java/com/wallet/swap/limitorder): the limit_orders    *)
(* table, the request threads that save and cancel orders, the submission  *)
(* and status workers of every backend replica, and, as environment, the   *)
(* order books of CoW Protocol and 1inch.                                  *)
(*                                                                         *)
(* One action is one SQL statement or transaction, or one HTTP call to an  *)
(* order book: between two of them any other thread may run, a lease may   *)
(* run out and a process may die.  Wall-clock time appears only through    *)
(* what the code compares with now(): an order's expiry, a lease's end,    *)
(* and whether a next attempt is scheduled at all.                         *)
(***************************************************************************)
EXTENDS Naturals, FiniteSets

CONSTANTS
    Order,          \* signed orders, one per order hash
    Wallet,         \* wallet addresses
    OwnerOf,        \* the wallet that signed an order
    ScopeOf,        \* its (wallet, chain, sell token, provider): one token approval
    OneInch,        \* the orders whose execution_provider is 1inch; the rest are CoW's
    Submitter,      \* threads that submit: request threads and submission workers
    Checker,        \* status workers, one per replica
    Canceller,      \* request threads that serve cancel()
    MaxAttempts,    \* wallet.limit-orders.submission-max-attempts
    MaxActive,      \* MAX_ACTIVE_ORDERS_PER_WALLET
    Configs,        \* the configurations a deployment may start with
    None            \* SQL NULL: no lease holder, no order

ASSUME OwnerAssumption == OwnerOf \in [Order -> Wallet]
ASSUME ScopeAssumption ==
    \A o, p \in Order : ScopeOf[o] = ScopeOf[p] =>
        OwnerOf[o] = OwnerOf[p] /\ (o \in OneInch <=> p \in OneInch)
ASSUME AttemptsAssumption == MaxAttempts \in Nat \ {0}
ASSUME ConfigAssumption ==
    Configs # {} /\ Configs \subseteq SUBSET {"submission", "oneinch"}
ASSUME NoneAssumption == None \notin Order \cup Submitter \cup Checker

VARIABLES
    orders,       \* the limit_orders table
    sub,          \* submitting threads
    chk,          \* status workers
    can,          \* cancelling request threads
    enabled,      \* the limit-orders feature flag
    config,       \* LimitOrderProperties: which submissions are switched on
    expired,      \* expires_at <= now(), per order
    book,         \* what the provider's order book holds, per order
    inFlight,     \* a POST the backend gave up on may still reach the provider
    cancelAsked,  \* the maker's cancellation has reached the provider or the chain
    doubt         \* history: what the backend has made of attempts it never heard of

threads == <<sub, chk, can>>
world == <<expired, book, inFlight, cancelAsked, doubt>>
vars == <<orders, sub, chk, can, enabled, config,
          expired, book, inFlight, cancelAsked, doubt>>

-----------------------------------------------------------------------------
(* Statuses and rows *)

Submittable == {"stored", "pending_submission", "failed"}
ProviderActive == {"submitted", "open", "partially_filled"}
Active == Submittable \cup ProviderActive
Terminal == {"filled", "expired", "cancelled", "rejected"}
Status == {"none"} \cup Active \cup Terminal

Row == [status : Status,
        attempts : 0..MaxAttempts,
        due : BOOLEAN,                        \* next_submission_at is set
        lock : Submitter \cup {None},         \* submission_lock_token
        lapsed : BOOLEAN,                     \* submission_locked_until <= now()
        known : BOOLEAN,                      \* provider_order_id is set
        checkDue : BOOLEAN,                   \* next_status_check_at is set
        checkLock : Checker \cup {None},      \* status_check_lock_token
        checkLapsed : BOOLEAN,                \* status_check_locked_until <= now()
        cancelRequested : BOOLEAN]            \* cancellation_requested_at is set

BlankRow == [status |-> "none", attempts |-> 0, due |-> FALSE,
             lock |-> None, lapsed |-> FALSE, known |-> FALSE,
             checkDue |-> FALSE, checkLock |-> None, checkLapsed |-> FALSE,
             cancelRequested |-> FALSE]

Answer == {"none", "accepted", "skipped", "unavailable", "refused"}
Report == {"none", "failure", "open"} \cup Terminal
BookState == {"absent", "open", "filled", "cancelled", "invalid"}

SubThread == [pc : {"idle", "saved", "claimed", "answered"},
              order : Order \cup {None}, answer : Answer]
ChkThread == [pc : {"idle", "claimed", "answered"},
              order : Order \cup {None}, seen : Status, report : Report]
CanThread == [pc : {"idle", "local", "delete", "mark"}, order : Order \cup {None}]

IdleSub == [pc |-> "idle", order |-> None, answer |-> "none"]
IdleChk == [pc |-> "idle", order |-> None, seen |-> "none", report |-> "none"]
IdleCan == [pc |-> "idle", order |-> None]

Init ==
    /\ orders = [o \in Order |-> BlankRow]
    /\ sub = [s \in Submitter |-> IdleSub]
    /\ chk = [c \in Checker |-> IdleChk]
    /\ can = [k \in Canceller |-> IdleCan]
    /\ enabled = TRUE
    /\ config \in Configs
    /\ expired = [o \in Order |-> FALSE]
    /\ book = [o \in Order |-> "absent"]
    /\ inFlight = [o \in Order |-> FALSE]
    /\ cancelAsked = [o \in Order |-> FALSE]
    /\ doubt = [o \in Order |-> "none"]

-----------------------------------------------------------------------------
(* Saving: LimitOrderService.save, then submitNow on the same thread *)

\* capabilityService.check and validate: the service takes the order at all.
Acceptable(o) ==
    /\ enabled
    /\ ~expired[o]
    /\ o \in OneInch => "oneinch" \in config

\* Mutant: the SQL list of active statuses without 'failed'.
ScopeFreeOfConfirmed(o) ==
    \A p \in Order : ScopeOf[p] = ScopeOf[o] => orders[p].status \notin Active \ {"failed"}

ScopeFree(o) ==
    \A p \in Order : ScopeOf[p] = ScopeOf[o] => orders[p].status \notin Active

ActiveOrders(w) == {o \in Order : OwnerOf[o] = w /\ orders[o].status \in Active}

\* The row that insertIfAbsent writes; the scheduleManualRetry that follows in
\* the same transaction finds attempts 0 and a due submission already.
NewRow == [BlankRow EXCEPT !.status = "stored", !.due = TRUE]

Becomes(s, t) == sub' = [sub EXCEPT ![s] = t]
SavedSub(o) == [pc |-> "saved", order |-> o, answer |-> "none"]

SaveNew(s, o) ==
    /\ sub[s].pc = "idle"
    /\ Acceptable(o)
    /\ orders[o].status = "none"
    /\ ScopeFree(o)
    /\ Cardinality(ActiveOrders(OwnerOf[o])) < MaxActive
    /\ orders' = [orders EXCEPT ![o] = NewRow]
    /\ Becomes(s, SavedSub(o))
    /\ UNCHANGED <<chk, can, enabled, config, world>>

\* The same signed order sent again: an idempotent match, and a fresh budget of
\* attempts unless a submission holds its lease (scheduleManualRetry).
FreshAttempts(r) == [r EXCEPT !.attempts = 0, !.due = TRUE]

SaveAgain(s, o) ==
    /\ sub[s].pc = "idle"
    /\ Acceptable(o)
    /\ orders[o].status # "none"
    /\ orders' =
         IF /\ orders[o].status \in {"stored", "failed"}
            /\ orders[o].lock = None \/ orders[o].lapsed
         THEN [orders EXCEPT ![o] = FreshAttempts(orders[o])]
         ELSE orders
    /\ Becomes(s, SavedSub(o))
    /\ UNCHANGED <<chk, can, enabled, config, world>>

-----------------------------------------------------------------------------
(* Submission: claim a lease, POST to the order book, write the answer back *)

\* Mutant: submission_attempts < ? dropped.
ClaimableForEver(o) ==
    /\ orders[o].status \in Submittable
    /\ ~expired[o]
    /\ orders[o].due
    /\ orders[o].lock = None \/ orders[o].lapsed

Claimable(o) ==
    /\ orders[o].status \in Submittable
    /\ ~expired[o]
    /\ orders[o].due
    /\ orders[o].attempts < MaxAttempts
    /\ orders[o].lock = None \/ orders[o].lapsed

LeasedRow(r, s) == [r EXCEPT !.status = "pending_submission", !.attempts = r.attempts + 1,
                             !.lock = s, !.lapsed = FALSE]
ClaimedSub(o) == [pc |-> "claimed", order |-> o, answer |-> "none"]

\* History, read by properties only.  A claim of a row that is 'failed' or still
\* 'pending_submission' leaves an attempt behind whose outcome nobody knows; an
\* answer that the provider does not have the order then overrules that attempt.
DoubtAfterClaim(o) == IF doubt[o] = "none" /\ orders[o].status # "stored" THEN "unsure" ELSE doubt[o]

DoubtAfterAnswer(o, a) ==
    IF doubt[o] = "none" THEN "none"
    ELSE IF a \in {"skipped", "refused"} THEN "overruled" ELSE "unsure"

TakeSubmissionLease(s, o) ==
    /\ orders' = [orders EXCEPT ![o] = LeasedRow(orders[o], s)]
    /\ doubt' = [doubt EXCEPT ![o] = DoubtAfterClaim(o)]
    /\ Becomes(s, ClaimedSub(o))

\* submitDue, on the scheduled worker: claimDue(1), only while the flag is on.
ClaimDue(s, o) ==
    /\ sub[s].pc = "idle"
    /\ enabled
    /\ "submission" \in config
    /\ Claimable(o)
    /\ TakeSubmissionLease(s, o)
    /\ UNCHANGED <<chk, can, enabled, config, expired, book, inFlight, cancelAsked>>

\* submitNow, on the request thread that saved the order; the flag is not read again.
ClaimById(s) ==
    LET o == sub[s].order IN
    /\ sub[s].pc = "saved"
    /\ IF "submission" \in config /\ Claimable(o)
       THEN TakeSubmissionLease(s, o)
       ELSE Becomes(s, IdleSub) /\ UNCHANGED <<orders, doubt>>
    /\ UNCHANGED <<chk, can, enabled, config, expired, book, inFlight, cancelAsked>>

Answered(s, a) ==
    Becomes(s, [pc |-> "answered", order |-> sub[s].order, answer |-> a])

Posting(s) == sub[s].pc = "claimed"

SwitchedOff(o) == o \in OneInch /\ "oneinch" \notin config

\* submitOneInch while 1inch is switched off or has no key.
PostSkipped(s) ==
    /\ Posting(s)
    /\ SwitchedOff(sub[s].order)
    /\ Answered(s, "skipped")
    /\ UNCHANGED <<orders, chk, can, enabled, config, world>>

CanLand(o) == book[o] = "absent" /\ ~expired[o]
Held(o) == book[o] \in {"open", "filled", "cancelled", "invalid"}

\* The order book takes the order, or the backend recognises the duplicate of
\* an order it already holds (couldBeDuplicate and orderExists).
PostAccepted(s) ==
    LET o == sub[s].order IN
    /\ Posting(s)
    /\ ~SwitchedOff(o)
    /\ \/ CanLand(o) /\ book' = [book EXCEPT ![o] = "open"]
       \/ Held(o) /\ UNCHANGED book
    /\ Answered(s, "accepted")
    /\ UNCHANGED <<orders, chk, can, enabled, config, expired, inFlight, cancelAsked, doubt>>

\* A timeout, a broken connection, an unusable body, 404, 408, 425, 429 or 5xx:
\* the order may have landed, may never arrive, or may still arrive.
PostUnavailable(s) ==
    LET o == sub[s].order IN
    /\ Posting(s)
    /\ ~SwitchedOff(o)
    /\ \/ UNCHANGED <<book, inFlight>>
       \/ CanLand(o) /\ book' = [book EXCEPT ![o] = "open"] /\ UNCHANGED inFlight
       \/ CanLand(o) /\ inFlight' = [inFlight EXCEPT ![o] = TRUE] /\ UNCHANGED book
    /\ Answered(s, "unavailable")
    /\ UNCHANGED <<orders, chk, can, enabled, config, expired, cancelAsked, doubt>>

\* Any other 4xx, or success = false, that no lookup turned into a duplicate: 401,
\* 403 and 422 are never looked up, and a lookup that fails finds nothing.  It says
\* nothing of an earlier attempt, whose order the book may hold or still receive.
PostRefused(s) ==
    /\ Posting(s)
    /\ ~SwitchedOff(sub[s].order)
    /\ Answered(s, "refused")
    /\ UNCHANGED <<orders, chk, can, enabled, config, world>>

Retryable(a) == a \in {"skipped", "unavailable"}

\* nextAttemptAt: null after a verdict, the last attempt, or when the delay
\* would reach past the expiry.
MayRetry(o, a) == Retryable(a) /\ orders[o].attempts < MaxAttempts /\ ~expired[o]

\* Mutants: an unconfirmed submission given up as rejected, or put back as stored.
StatusAfterGivingUp(a) ==
    CASE a = "accepted" -> "submitted"
      [] a = "skipped" -> "stored"
      [] OTHER -> "rejected"

StatusAfterPuttingBack(a) ==
    CASE a = "accepted" -> "submitted"
      [] a \in {"skipped", "unavailable"} -> "stored"
      [] OTHER -> "rejected"

StatusAfter(a) ==
    CASE a = "accepted" -> "submitted"
      [] a = "skipped" -> "stored"
      [] a = "unavailable" -> "failed"
      [] OTHER -> "rejected"

SubmittedRow(r, a, again) ==
    [r EXCEPT !.status = StatusAfter(a), !.due = again,
              !.known = (r.known \/ a = "accepted"),
              !.checkDue = (r.checkDue \/ a = "accepted"),
              !.lock = None, !.lapsed = FALSE]

\* Mutant: AND submission_lock_token = ? dropped.
CompleteWithoutToken(s) ==
    LET o == sub[s].order
        a == sub[s].answer
    IN
    /\ sub[s].pc = "answered"
    /\ \E again \in BOOLEAN :
         /\ again => MayRetry(o, a)
         /\ orders' = [orders EXCEPT ![o] = SubmittedRow(orders[o], a, again)]
    /\ doubt' = [doubt EXCEPT ![o] = DoubtAfterAnswer(o, a)]
    /\ Becomes(s, IdleSub)
    /\ UNCHANGED <<chk, can, enabled, config, expired, book, inFlight, cancelAsked>>

\* completeSubmission: WHERE id = ? AND submission_lock_token = ?.  While the
\* token matches, the row's attempts are those the candidate was claimed with.
CompleteSubmission(s) ==
    LET o == sub[s].order
        a == sub[s].answer
    IN
    /\ sub[s].pc = "answered"
    /\ \E again \in BOOLEAN :
         /\ again => MayRetry(o, a)
         /\ orders' =
              IF orders[o].lock = s
              THEN [orders EXCEPT ![o] = SubmittedRow(orders[o], a, again)]
              ELSE orders
    /\ doubt' =
         IF orders[o].lock = s
         THEN [doubt EXCEPT ![o] = DoubtAfterAnswer(o, a)]
         ELSE doubt
    /\ Becomes(s, IdleSub)
    /\ UNCHANGED <<chk, can, enabled, config, expired, book, inFlight, cancelAsked>>

ExpiredRow(r) == [r EXCEPT !.status = "expired", !.due = FALSE, !.lock = None, !.lapsed = FALSE]

\* Mutant: AND expires_at <= now() dropped.
MarkAllPendingExpired ==
    LET due == {o \in Order : orders[o].status \in Submittable} IN
    /\ due # {}
    /\ orders' = [o \in Order |->
                    IF o \in due
                    THEN ExpiredRow(orders[o])
                    ELSE orders[o]]
    /\ UNCHANGED <<threads, enabled, config, world>>

\* The first statement of every pass of both workers; the status worker runs it
\* whatever the feature flag says.
MarkExpiredPending ==
    LET due == {o \in Order : orders[o].status \in Submittable /\ expired[o]} IN
    /\ due # {}
    /\ orders' = [o \in Order |->
                    IF o \in due
                    THEN ExpiredRow(orders[o])
                    ELSE orders[o]]
    /\ UNCHANGED <<threads, enabled, config, world>>

-----------------------------------------------------------------------------
(* Reconciliation: the status worker *)

CheckLeasedRow(r, c) == [r EXCEPT !.checkLock = c, !.checkLapsed = FALSE]
ClaimedChk(o) == [pc |-> "claimed", order |-> o, seen |-> orders[o].status, report |-> "none"]

\* Mutant: a lapsed lease is not taken over.
ClaimStatusCheckOnce(c, o) ==
    /\ chk[c].pc = "idle"
    /\ orders[o].status \in ProviderActive
    /\ orders[o].checkDue
    /\ orders[o].checkLock = None
    /\ orders' = [orders EXCEPT ![o] = CheckLeasedRow(orders[o], c)]
    /\ chk' = [chk EXCEPT ![c] = ClaimedChk(o)]
    /\ UNCHANGED <<sub, can, enabled, config, world>>

ClaimStatusCheck(c, o) ==
    /\ chk[c].pc = "idle"
    /\ orders[o].status \in ProviderActive
    /\ orders[o].checkDue
    /\ orders[o].checkLock = None \/ orders[o].checkLapsed
    /\ orders' = [orders EXCEPT ![o] = CheckLeasedRow(orders[o], c)]
    /\ chk' = [chk EXCEPT ![c] = ClaimedChk(o)]
    /\ UNCHANGED <<sub, can, enabled, config, world>>

\* parseOneInch and parseCow, by the order book's state.
Reported(o) ==
    CASE book[o] \in {"filled", "cancelled"} -> book[o]
      [] book[o] \in {"open", "invalid"} /\ expired[o] -> "expired"
      [] book[o] = "invalid" /\ ~expired[o] -> "rejected"
      [] book[o] = "open" /\ ~expired[o] -> "open"
      [] OTHER -> "failure"

Reports(c, r) ==
    /\ chk[c].pc = "claimed"
    /\ chk' = [chk EXCEPT ![c] = [pc |-> "answered", order |-> chk[c].order,
                                   seen |-> chk[c].seen, report |-> r]]
    /\ UNCHANGED <<orders, sub, can, enabled, config, world>>

CheckAnswered(c) ==
    /\ ~SwitchedOff(chk[c].order)
    /\ Reports(c, Reported(chk[c].order))

CheckFailed(c) == Reports(c, "failure")

CheckedRow(r, status, again) ==
    [r EXCEPT !.status = status, !.checkDue = again, !.checkLock = None, !.checkLapsed = FALSE]

\* Mutant: a failed check schedules no next one.
CompleteStatusCheckForGood(c) ==
    LET o == chk[c].order
        next == IF chk[c].report = "failure" THEN chk[c].seen ELSE chk[c].report
    IN
    /\ chk[c].pc = "answered"
    /\ orders' =
         IF orders[o].checkLock = c
         THEN [orders EXCEPT ![o] = CheckedRow(orders[o], next, chk[c].report = "open")]
         ELSE orders
    /\ chk' = [chk EXCEPT ![c] = IdleChk]
    /\ UNCHANGED <<sub, can, enabled, config, world>>

\* completeStatusCheck; a failed check writes back the status it was claimed with.
CompleteStatusCheck(c) ==
    LET o == chk[c].order
        next == IF chk[c].report = "failure" THEN chk[c].seen ELSE chk[c].report
    IN
    /\ chk[c].pc = "answered"
    /\ orders' =
         IF orders[o].checkLock = c
         THEN [orders EXCEPT ![o] = CheckedRow(orders[o], next, next \notin Terminal)]
         ELSE orders
    /\ chk' = [chk EXCEPT ![c] = IdleChk]
    /\ UNCHANGED <<sub, can, enabled, config, world>>

-----------------------------------------------------------------------------
(* Cancellation: LimitOrderCancellationService.cancel *)

IsLocal(o) == ~orders[o].known /\ orders[o].status = "stored"

\* cancel reads the row once and chooses its way; anything else it answers at once.
BeginCancel(k, o) ==
    /\ can[k].pc = "idle"
    /\ enabled
    /\ ~orders[o].cancelRequested
    /\ \/ IsLocal(o) /\ can' = [can EXCEPT ![k] = [pc |-> "local", order |-> o]]
       \/ /\ orders[o].status \in ProviderActive
          /\ can' = [can EXCEPT ![k] =
                       [pc |-> IF o \in OneInch THEN "mark" ELSE "delete", order |-> o]]
    /\ UNCHANGED <<orders, sub, chk, enabled, config, world>>

CancelledRow(r) == [r EXCEPT !.status = "cancelled", !.cancelRequested = TRUE,
                             !.due = FALSE, !.lock = None, !.lapsed = FALSE]

\* cancelUnsubmitted; when it updates nothing, resolveConcurrentChange only reads.
CancelLocally(k) ==
    LET o == can[k].order IN
    /\ can[k].pc = "local"
    /\ orders' =
         IF IsLocal(o) /\ ~orders[o].cancelRequested
         THEN [orders EXCEPT ![o] = CancelledRow(orders[o])]
         ELSE orders
    /\ can' = [can EXCEPT ![k] = IdleCan]
    /\ UNCHANGED <<sub, chk, enabled, config, world>>

AskToCancel(o) == cancelAsked' = [cancelAsked EXCEPT ![o] = TRUE]

\* cancelCow answered with success, or failed on an order already cancelled.
DeleteAccepted(k) ==
    LET o == can[k].order IN
    /\ can[k].pc = "delete"
    /\ \/ book[o] = "open" /\ AskToCancel(o)
       \/ book[o] = "cancelled" /\ UNCHANGED cancelAsked
    /\ can' = [can EXCEPT ![k] = [pc |-> "mark", order |-> o]]
    /\ UNCHANGED <<orders, sub, chk, enabled, config, expired, book, inFlight, doubt>>

\* Refused, unavailable, or completed meanwhile: the request may still have landed.
DeleteFailed(k) ==
    LET o == can[k].order IN
    /\ can[k].pc = "delete"
    /\ \/ book[o] = "open" /\ AskToCancel(o)
       \/ UNCHANGED cancelAsked
    /\ can' = [can EXCEPT ![k] = IdleCan]
    /\ UNCHANGED <<orders, sub, chk, enabled, config, expired, book, inFlight, doubt>>

\* Mutant: the requested cancellation is shown as done.
MarkCancelled(k) ==
    LET o == can[k].order IN
    /\ can[k].pc = "mark"
    /\ orders' =
         IF orders[o].status \in ProviderActive /\ ~orders[o].cancelRequested
         THEN [orders EXCEPT ![o] = [orders[o] EXCEPT !.status = "cancelled",
                                                      !.cancelRequested = TRUE]]
         ELSE orders
    /\ can' = [can EXCEPT ![k] = IdleCan]
    /\ UNCHANGED <<sub, chk, enabled, config, world>>

MarkedRow(r) == [r EXCEPT !.cancelRequested = TRUE, !.checkDue = TRUE]

\* markProviderCancellationRequested; 1inch's transaction hash is taken as given.
MarkCancellation(k) ==
    LET o == can[k].order IN
    /\ can[k].pc = "mark"
    /\ orders' =
         IF orders[o].status \in ProviderActive /\ ~orders[o].cancelRequested
         THEN [orders EXCEPT ![o] = MarkedRow(orders[o])]
         ELSE orders
    /\ can' = [can EXCEPT ![k] = IdleCan]
    /\ UNCHANGED <<sub, chk, enabled, config, world>>

-----------------------------------------------------------------------------
(* Leases running out, processes dying, the flag and the configuration *)

SubmissionLeaseLapses(o) ==
    /\ orders[o].lock # None /\ ~orders[o].lapsed
    /\ orders' = [orders EXCEPT ![o] = [orders[o] EXCEPT !.lapsed = TRUE]]
    /\ UNCHANGED <<threads, enabled, config, world>>

CheckLeaseLapses(o) ==
    /\ orders[o].checkLock # None /\ ~orders[o].checkLapsed
    /\ orders' = [orders EXCEPT ![o] = [orders[o] EXCEPT !.checkLapsed = TRUE]]
    /\ UNCHANGED <<threads, enabled, config, world>>

\* A replica dies, or a statement throws: the thread is gone, its lease stays.
CrashSubmitter(s) ==
    /\ sub[s].pc # "idle"
    /\ Becomes(s, IdleSub)
    /\ UNCHANGED <<orders, chk, can, enabled, config, world>>

CrashChecker(c) ==
    /\ chk[c].pc # "idle"
    /\ chk' = [chk EXCEPT ![c] = IdleChk]
    /\ UNCHANGED <<orders, sub, can, enabled, config, world>>

CrashCanceller(k) ==
    /\ can[k].pc # "idle"
    /\ can' = [can EXCEPT ![k] = IdleCan]
    /\ UNCHANGED <<orders, sub, chk, enabled, config, world>>

\* A deployment: every thread of the old processes is gone.
Redeploy ==
    /\ config' \in Configs \ {config}
    /\ sub' = [s \in Submitter |-> IdleSub]
    /\ chk' = [c \in Checker |-> IdleChk]
    /\ can' = [k \in Canceller |-> IdleCan]
    /\ UNCHANGED <<orders, enabled, world>>

ToggleFlag ==
    /\ enabled' = ~enabled
    /\ UNCHANGED <<orders, threads, config, world>>

-----------------------------------------------------------------------------
(* The world outside: clock, order books, solvers, wallets *)

Live(o) == book[o] = "open" /\ ~expired[o]

Outside == <<orders, threads, enabled, config, doubt>>

Deadline(o) ==
    /\ orders[o].status # "none" /\ ~expired[o]
    /\ expired' = [expired EXCEPT ![o] = TRUE]
    /\ UNCHANGED <<Outside, book, inFlight, cancelAsked>>

LatePostLands(o) ==
    /\ inFlight[o] /\ CanLand(o)
    /\ book' = [book EXCEPT ![o] = "open"]
    /\ inFlight' = [inFlight EXCEPT ![o] = FALSE]
    /\ UNCHANGED <<Outside, expired, cancelAsked>>

BookMoves(o, to) ==
    /\ Live(o)
    /\ book' = [book EXCEPT ![o] = to]
    /\ UNCHANGED <<Outside, expired, inFlight, cancelAsked>>

Fill(o) == BookMoves(o, "filled")
CancellationLands(o) == cancelAsked[o] /\ BookMoves(o, "cancelled")
Invalidate(o) == o \in OneInch /\ BookMoves(o, "invalid")

\* The maker's own on-chain cancellation of a 1inch order.
WalletCancels(o) ==
    /\ o \in OneInch /\ Live(o) /\ ~cancelAsked[o]
    /\ AskToCancel(o)
    /\ UNCHANGED <<Outside, expired, book, inFlight>>

-----------------------------------------------------------------------------
Submission(s) ==
    \/ \E o \in Order : SaveNew(s, o) \/ SaveAgain(s, o) \/ ClaimDue(s, o)
    \/ ClaimById(s)
    \/ PostSkipped(s) \/ PostAccepted(s) \/ PostUnavailable(s) \/ PostRefused(s)
    \/ CompleteSubmission(s)
    \/ CrashSubmitter(s)

Reconciliation(c) ==
    \/ \E o \in Order : ClaimStatusCheck(c, o)
    \/ CheckAnswered(c) \/ CheckFailed(c)
    \/ CompleteStatusCheck(c)
    \/ CrashChecker(c)

Cancellation(k) ==
    \/ \E o \in Order : BeginCancel(k, o)
    \/ CancelLocally(k)
    \/ DeleteAccepted(k) \/ DeleteFailed(k)
    \/ MarkCancellation(k)
    \/ CrashCanceller(k)

Environment(o) ==
    \/ Deadline(o) \/ LatePostLands(o) \/ Fill(o) \/ CancellationLands(o)
    \/ Invalidate(o) \/ WalletCancels(o)
    \/ SubmissionLeaseLapses(o) \/ CheckLeaseLapses(o)

Next ==
    \/ \E s \in Submitter : Submission(s)
    \/ \E c \in Checker : Reconciliation(c)
    \/ \E k \in Canceller : Cancellation(k)
    \/ \E o \in Order : Environment(o)
    \/ MarkExpiredPending
    \/ Redeploy
    \/ ToggleFlag

Spec == Init /\ [][Next]_vars

\* Checker c works on order o under the order's current lease.
Leased(c, o) == chk[c].order = o /\ orders[o].checkLock = c

WriteAnswer(c) == chk[c].report # "failure" /\ CompleteStatusCheck(c)

\* The clock moves; the status workers keep running, whatever the flag says; a
\* lease runs out; the queue, ordered by due time, reaches every due order.  The
\* provider answers a check now and then, and not every answer is lost to a crash
\* or a lapsed lease: a pass takes seconds, a lease at least fifteen.
Fairness ==
    /\ WF_vars(MarkExpiredPending)
    /\ \A c \in Checker :
        WF_vars(CheckAnswered(c) \/ CheckFailed(c) \/ CompleteStatusCheck(c))
    /\ \A o \in Order :
        /\ WF_vars(Deadline(o))
        /\ WF_vars(CheckLeaseLapses(o))
        /\ SF_vars(\E c \in Checker : ClaimStatusCheck(c, o))
        /\ SF_vars(\E c \in Checker : Leased(c, o) /\ CheckAnswered(c))
        /\ SF_vars(\E c \in Checker : Leased(c, o) /\ WriteAnswer(c))

FairSpec == Spec /\ Fairness

-----------------------------------------------------------------------------
(* Properties *)

\* Types: every row, thread and order-book entry stays in its domain.
TypeOK ==
    /\ orders \in [Order -> Row]
    /\ sub \in [Submitter -> SubThread]
    /\ chk \in [Checker -> ChkThread]
    /\ can \in [Canceller -> CanThread]
    /\ enabled \in BOOLEAN
    /\ config \in Configs
    /\ expired \in [Order -> BOOLEAN]
    /\ book \in [Order -> BookState]
    /\ inFlight \in [Order -> BOOLEAN]
    /\ cancelAsked \in [Order -> BOOLEAN]
    /\ doubt \in [Order -> {"none", "unsure", "overruled"}]

\* A provider can still execute the order, or may yet receive it.
CanExecute(o) == Live(o) \/ (inFlight[o] /\ CanLand(o))

\* The last answer the backend wrote down overruled an attempt it had never heard of.
Overruled(o) == doubt[o] = "overruled"

\* The approval of one (wallet, chain, sell token, provider) never backs two
\* orders a provider could execute, whatever submissions were retried, lost,
\* answered late or swept (requireAllowanceScopeAvailable, the index of V24),
\* unless a refused or skipped retry overruled an unanswered attempt of one.
OneLivePerScope ==
    \A o, p \in Order :
        /\ ScopeOf[o] = ScopeOf[p] /\ o # p
        /\ CanExecute(o) /\ CanExecute(p)
        => Overruled(o) \/ Overruled(p)

\* An order shown as filled, expired, cancelled or rejected, whose scope is free
\* again, cannot execute any more (completeSubmission, cancelUnsubmitted,
\* markExpiredPending, completeStatusCheck): only the refused or skipped retry
\* of an order with an unanswered attempt releases one that can.
ReleasedOrderIsDead ==
    \A o \in Order : orders[o].status \in Terminal /\ CanExecute(o) => Overruled(o)

\* A final status agrees with the order book: nothing is called filled that was
\* not; nothing is called cancelled or rejected that the provider holds or filled,
\* but an order whose unanswered attempt a retry's answer overruled.
OutcomeIsTrue ==
    \A o \in Order :
        /\ orders[o].status = "filled" => book[o] = "filled"
        /\ orders[o].status = "cancelled" => book[o] \in {"absent", "cancelled"} \/ Overruled(o)
        /\ orders[o].status = "rejected" => book[o] \in {"absent", "invalid"} \/ Overruled(o)

\* An order in a provider-active status carries its provider id, is known to the
\* provider and stays in the status worker's queue until it is settled.
TrackedUntilSettled ==
    \A o \in Order :
        orders[o].status \in ProviderActive =>
            orders[o].known /\ Held(o) /\ orders[o].checkDue

\* Nothing of o was ever sent: the book never saw it, no submission is under way.
Untouched(o) ==
    /\ book[o] = "absent" /\ ~inFlight[o]
    /\ \A s \in Submitter : sub[s].order = o => sub[s].pc = "saved"

\* A stored order, which its owner may cancel here without asking anybody, was never
\* sent and no submission of it is under way (cancelUnsubmitted against claimDue,
\* completeSubmission), unless a skipped retry put back an order that had been sent.
LocalOrderUntouched ==
    \A o \in Order : IsLocal(o) => Untouched(o) \/ Overruled(o)

\* "This saved order has not reached the provider and can be cancelled
\* immediately": what the local cancellation plan says of every stored order.
LocalOrderNeverSent == \A o \in Order : IsLocal(o) => Untouched(o)

\* "The order service rejected this order, so it cannot execute": what
\* LimitOrderCancellationService.terminalReason tells the owner of a rejected order.
RejectedCannotExecute ==
    \A o \in Order : orders[o].status = "rejected" => ~CanExecute(o)

\* A terminal status never changes, whichever late answer, sweep or retry comes.
TerminalIsFinal ==
    [][\A o \in Order :
         orders[o].status \in Terminal => orders'[o].status = orders[o].status]_vars

\* Every saved order reaches a terminal status, with the limit-orders feature
\* switched off, crashes and lost leases included: no scope stays reserved.
EverySavedOrderSettles ==
    \A o \in Order : orders[o].status # "none" ~> orders[o].status \in Terminal

\* The backend keeps the promise of the allowance reservation: a saved order is
\* reserved, a terminal one released, and only reserved orders are filled, apart
\* from those whose unanswered attempt was overruled.
Reservation == INSTANCE AllowanceReservation WITH
    reserved <- {o \in Order : orders[o].status \in Active},
    released <- {o \in Order : orders[o].status \in Terminal},
    overruled <- {o \in Order : Overruled(o)},
    executed <- {o \in Order : book[o] = "filled"}

\* LimitOrder implements AllowanceReservation under that mapping.
ImplementsReservation == Reservation!Spec
=============================================================================
