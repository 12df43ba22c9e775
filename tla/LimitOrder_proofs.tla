------------------------- MODULE LimitOrder_proofs -------------------------
(***************************************************************************)
(* Type correctness of LimitOrder and what its leases protect: a terminal  *)
(* status is final, and an order the provider holds stays tracked.  Both   *)
(* follow from one inductive invariant, TrackingInv, for every set of      *)
(* orders and threads, every configuration and every budget of attempts.   *)
(* The second half is about what the token approval is promised.           *)
(***************************************************************************)
EXTENDS LimitOrder, TLAPS

-----------------------------------------------------------------------------
(* What each statement writes into a row *)

\* Rows and idle threads have their types.
LEMMA BlankRowType == BlankRow \in Row
BY AttemptsAssumption DEF BlankRow, Row, Status

LEMMA NewRowType ==
    /\ NewRow \in Row
    /\ NewRow.status = "stored" /\ NewRow.lock = None /\ NewRow.checkLock = None
BY BlankRowType DEF NewRow, BlankRow, Row, Status, Active, Submittable

LEMMA IdleTypes ==
    /\ IdleSub \in SubThread /\ IdleSub.pc = "idle" /\ IdleSub.order = None
    /\ IdleChk \in ChkThread /\ IdleChk.pc = "idle"
    /\ IdleCan \in CanThread /\ IdleCan.pc = "idle"
BY DEF IdleSub, SubThread, Answer, IdleChk, ChkThread, Report, Status, IdleCan, CanThread

LEMMA FreshAttemptsRow ==
    ASSUME NEW r \in Row
    PROVE  LET n == FreshAttempts(r) IN
           /\ n \in Row
           /\ n.status = r.status /\ n.lock = r.lock /\ n.checkLock = r.checkLock
           /\ n.known = r.known /\ n.checkDue = r.checkDue
<1>1. 0 \in 0..MaxAttempts
  BY AttemptsAssumption
<1> QED
  BY <1>1 DEF FreshAttempts, Row

LEMMA LeasedRowRow ==
    ASSUME NEW r \in Row, NEW s \in Submitter, r.attempts < MaxAttempts
    PROVE  LET n == LeasedRow(r, s) IN
           /\ n \in Row
           /\ n.status = "pending_submission" /\ n.lock = s /\ n.checkLock = r.checkLock
<1> DEFINE m == r.attempts + 1
<1>1. m \in 0..MaxAttempts
  BY AttemptsAssumption DEF Row
<1> HIDE DEF m
<1>2. LeasedRow(r, s) = [r EXCEPT !.status = "pending_submission", !.attempts = m,
                                  !.lock = s, !.lapsed = FALSE]
  BY DEF LeasedRow, m
<1> QED
  BY <1>1, <1>2 DEF Row, Status, Active, Submittable

LEMMA SubmittedRowRow ==
    ASSUME NEW r \in Row, NEW a, NEW again \in BOOLEAN
    PROVE  LET n == SubmittedRow(r, a, again) IN
           /\ n \in Row
           /\ n.status = StatusAfter(a) /\ n.lock = None /\ n.checkLock = r.checkLock
           /\ a = "accepted" => n.known /\ n.checkDue
<1>1. StatusAfter(a) \in Status
  BY DEF StatusAfter, Status, Active, Submittable, ProviderActive, Terminal
<1>2. SubmittedRow(r, a, again) \in Row
  <2> DEFINE st == StatusAfter(a)
             known == (r.known \/ a = "accepted")
             checkDue == (r.checkDue \/ a = "accepted")
  <2>1. known \in BOOLEAN /\ checkDue \in BOOLEAN
    OBVIOUS
  <2>2. SubmittedRow(r, a, again) =
          [r EXCEPT !.status = st, !.due = again, !.known = known,
                    !.checkDue = checkDue, !.lock = None, !.lapsed = FALSE]
    BY DEF SubmittedRow
  <2> HIDE DEF st, known, checkDue
  <2> QED
    BY <1>1, <2>1, <2>2 DEF Row, st
<1>3. SubmittedRow(r, a, again).status = StatusAfter(a)
  BY DEF SubmittedRow, Row
<1>4. SubmittedRow(r, a, again).lock = None
  BY DEF SubmittedRow, Row
<1>5. SubmittedRow(r, a, again).checkLock = r.checkLock
  BY DEF SubmittedRow, Row
<1>6. ASSUME a = "accepted"
      PROVE  SubmittedRow(r, a, again).known /\ SubmittedRow(r, a, again).checkDue
  BY <1>6 DEF SubmittedRow, Row
<1> QED
  BY <1>2, <1>3, <1>4, <1>5, <1>6

LEMMA ExpiredRowRow ==
    ASSUME NEW r \in Row
    PROVE  LET n == ExpiredRow(r) IN
           /\ n \in Row
           /\ n.status = "expired" /\ n.lock = None /\ n.checkLock = r.checkLock
BY DEF ExpiredRow, Row, Status, Terminal

LEMMA CheckLeasedRowRow ==
    ASSUME NEW r \in Row, NEW c \in Checker
    PROVE  LET n == CheckLeasedRow(r, c) IN
           /\ n \in Row
           /\ n.status = r.status /\ n.lock = r.lock /\ n.checkLock = c
           /\ n.known = r.known /\ n.checkDue = r.checkDue
BY DEF CheckLeasedRow, Row

LEMMA CheckedRowRow ==
    ASSUME NEW r \in Row, NEW st \in Status, NEW again \in BOOLEAN
    PROVE  LET n == CheckedRow(r, st, again) IN
           /\ n \in Row
           /\ n.status = st /\ n.lock = r.lock /\ n.checkLock = None
           /\ n.known = r.known /\ n.checkDue = again
BY DEF CheckedRow, Row

LEMMA CancelledRowRow ==
    ASSUME NEW r \in Row
    PROVE  LET n == CancelledRow(r) IN
           /\ n \in Row
           /\ n.status = "cancelled" /\ n.lock = None /\ n.checkLock = r.checkLock
BY DEF CancelledRow, Row, Status, Terminal

LEMMA MarkedRowRow ==
    ASSUME NEW r \in Row
    PROVE  LET n == MarkedRow(r) IN
           /\ n \in Row
           /\ n.status = r.status /\ n.lock = r.lock /\ n.checkLock = r.checkLock
           /\ n.known = r.known /\ n.checkDue
BY DEF MarkedRow, Row

\* A lease running out touches only its own flag.
LEMMA LapsedRow ==
    ASSUME NEW r \in Row
    PROVE  /\ LET n == [r EXCEPT !.lapsed = TRUE] IN
              /\ n \in Row
              /\ n.status = r.status /\ n.lock = r.lock /\ n.checkLock = r.checkLock
              /\ n.known = r.known /\ n.checkDue = r.checkDue
           /\ LET n == [r EXCEPT !.checkLapsed = TRUE] IN
              /\ n \in Row
              /\ n.status = r.status /\ n.lock = r.lock /\ n.checkLock = r.checkLock
              /\ n.known = r.known /\ n.checkDue = r.checkDue
BY DEF Row

-----------------------------------------------------------------------------
(* Types *)

Doubt == {"none", "unsure", "overruled"}

LEMMA DoubtType ==
    ASSUME NEW o \in Order, NEW a, doubt[o] \in Doubt
    PROVE  DoubtAfterClaim(o) \in Doubt /\ DoubtAfterAnswer(o, a) \in Doubt
BY DEF DoubtAfterClaim, DoubtAfterAnswer, Doubt

LEMMA InitType == Init => TypeOK
BY BlankRowType, IdleTypes DEF Init, TypeOK, BookState

LEMMA SubmissionType ==
    ASSUME TypeOK, NEW s \in Submitter, Submission(s)
    PROVE  TypeOK'
<1> USE DEF TypeOK, threads, world, Becomes
<1>1. ASSUME NEW o \in Order, SaveNew(s, o) PROVE TypeOK'
  <2>1. SavedSub(o) \in SubThread
    BY DEF SavedSub, SubThread, Answer
  <2> QED
    BY <1>1, <2>1, NewRowType DEF SaveNew
<1>2. ASSUME NEW o \in Order, SaveAgain(s, o) PROVE TypeOK'
  <2>1. SavedSub(o) \in SubThread
    BY DEF SavedSub, SubThread, Answer
  <2> QED
    BY <1>2, <2>1, FreshAttemptsRow DEF SaveAgain
<1>3. ASSUME NEW o \in Order \cup {None}, TakeSubmissionLease(s, o), Claimable(o)
      PROVE  /\ orders' \in [Order -> Row] /\ sub' \in [Submitter -> SubThread]
             /\ doubt' \in [Order -> Doubt]
  <2>1. ClaimedSub(o) \in SubThread
    BY DEF ClaimedSub, SubThread, Answer
  <2>2. orders' \in [Order -> Row] /\ sub' \in [Submitter -> SubThread]
    BY <1>3, <2>1, LeasedRowRow DEF TakeSubmissionLease, Claimable
  <2>3. doubt' \in [Order -> Doubt]
    BY <1>3, DoubtType DEF TakeSubmissionLease, Doubt
  <2> QED
    BY <2>2, <2>3
<1>4. ASSUME NEW o \in Order, ClaimDue(s, o) PROVE TypeOK'
  BY <1>4, <1>3 DEF ClaimDue, Doubt
<1>5. ASSUME ClaimById(s) PROVE TypeOK'
  <2>1. sub[s].order \in Order \cup {None}
    BY DEF SubThread
  <2> QED
    BY <1>5, <1>3, <2>1, IdleTypes DEF ClaimById, Doubt
<1>6. ASSUME NEW a \in Answer, Answered(s, a) PROVE sub' \in [Submitter -> SubThread]
  <2>1. [pc |-> "answered", order |-> sub[s].order, answer |-> a] \in SubThread
    BY DEF SubThread
  <2> QED
    BY <1>6, <2>1 DEF Answered
<1>7. ASSUME PostSkipped(s) PROVE TypeOK'
  BY <1>6, <1>7 DEF PostSkipped, Answer
<1>8. ASSUME PostAccepted(s) PROVE TypeOK'
  BY <1>6, <1>8 DEF PostAccepted, Answer, BookState
<1>9. ASSUME PostUnavailable(s) PROVE TypeOK'
  BY <1>6, <1>9 DEF PostUnavailable, Answer, BookState
<1>10. ASSUME PostRefused(s) PROVE TypeOK'
  BY <1>6, <1>10 DEF PostRefused, Answer, BookState
<1>11. ASSUME CompleteSubmission(s) PROVE TypeOK'
  <2> DEFINE o == sub[s].order
             a == sub[s].answer
  <2>1. PICK again \in BOOLEAN :
          orders' = IF orders[o].lock = s
                    THEN [orders EXCEPT ![o] = SubmittedRow(orders[o], a, again)]
                    ELSE orders
    BY <1>11 DEF CompleteSubmission
  <2>2. orders' \in [Order -> Row]
    BY <2>1, SubmittedRowRow
  <2>3. doubt' \in [Order -> Doubt]
    <3>1. \A q \in Order : DoubtAfterAnswer(q, a) \in Doubt
      BY DoubtType DEF Doubt
    <3>2. doubt' = IF orders[o].lock = s
                   THEN [doubt EXCEPT ![o] = DoubtAfterAnswer(o, a)]
                   ELSE doubt
      BY <1>11 DEF CompleteSubmission
    <3> QED
      BY <3>1, <3>2 DEF Doubt
  <2> QED
    BY <1>11, <2>2, <2>3, IdleTypes DEF CompleteSubmission, Doubt
<1>12. ASSUME CrashSubmitter(s) PROVE TypeOK'
  BY <1>12, IdleTypes DEF CrashSubmitter
<1> QED
  BY <1>1, <1>2, <1>4, <1>5, <1>7, <1>8, <1>9, <1>10, <1>11, <1>12 DEF Submission

LEMMA ReconciliationType ==
    ASSUME TypeOK, NEW c \in Checker, Reconciliation(c)
    PROVE  TypeOK'
<1> USE DEF TypeOK, threads, world
<1>1. ASSUME NEW o \in Order, ClaimStatusCheck(c, o) PROVE TypeOK'
  <2>1. ClaimedChk(o) \in ChkThread
    BY DEF ClaimedChk, ChkThread, Report, Row
  <2> QED
    BY <1>1, <2>1, CheckLeasedRowRow DEF ClaimStatusCheck
<1>2. ASSUME NEW r \in Report, Reports(c, r) PROVE TypeOK'
  <2>1. [pc |-> "answered", order |-> chk[c].order, seen |-> chk[c].seen, report |-> r]
          \in ChkThread
    BY DEF ChkThread
  <2> QED
    BY <1>2, <2>1 DEF Reports
<1>3. ASSUME CheckAnswered(c) PROVE TypeOK'
  <2>1. Reported(chk[c].order) \in Report
    BY DEF Reported, Report, Terminal
  <2> QED
    BY <1>2, <1>3, <2>1 DEF CheckAnswered
<1>4. ASSUME CheckFailed(c) PROVE TypeOK'
  BY <1>2, <1>4 DEF CheckFailed, Report
<1>5. ASSUME CompleteStatusCheck(c) PROVE TypeOK'
  <2> DEFINE o == chk[c].order
             next == IF chk[c].report = "failure" THEN chk[c].seen ELSE chk[c].report
             again == next \notin Terminal
  <2>1. next \in Status /\ again \in BOOLEAN
    BY DEF ChkThread, Report, Status, Active, ProviderActive
  <2>2. /\ orders' = IF orders[o].checkLock = c
                     THEN [orders EXCEPT ![o] = CheckedRow(orders[o], next, again)]
                     ELSE orders
        /\ chk' = [chk EXCEPT ![c] = IdleChk]
        /\ UNCHANGED <<sub, can, enabled, config, world>>
    BY <1>5 DEF CompleteStatusCheck
  <2> HIDE DEF next, again
  <2> QED
    BY <2>1, <2>2, CheckedRowRow, IdleTypes
<1>6. ASSUME CrashChecker(c) PROVE TypeOK'
  BY <1>6, IdleTypes DEF CrashChecker
<1> QED
  BY <1>1, <1>3, <1>4, <1>5, <1>6 DEF Reconciliation

LEMMA CancellationType ==
    ASSUME TypeOK, NEW k \in Canceller, Cancellation(k)
    PROVE  TypeOK'
<1> USE DEF TypeOK, threads, world
<1>1. ASSUME NEW o \in Order, BeginCancel(k, o) PROVE TypeOK'
  BY <1>1 DEF BeginCancel, CanThread
<1>2. ASSUME CancelLocally(k) PROVE TypeOK'
  BY <1>2, IdleTypes, CancelledRowRow DEF CancelLocally
<1>3. ASSUME DeleteAccepted(k) PROVE TypeOK'
  <2>1. [pc |-> "mark", order |-> can[k].order] \in CanThread
    BY DEF CanThread
  <2> QED
    BY <1>3, <2>1 DEF DeleteAccepted, AskToCancel
<1>4. ASSUME DeleteFailed(k) PROVE TypeOK'
  BY <1>4, IdleTypes DEF DeleteFailed, AskToCancel
<1>5. ASSUME MarkCancellation(k) PROVE TypeOK'
  BY <1>5, IdleTypes, MarkedRowRow DEF MarkCancellation
<1>6. ASSUME CrashCanceller(k) PROVE TypeOK'
  BY <1>6, IdleTypes DEF CrashCanceller
<1> QED
  BY <1>1, <1>2, <1>3, <1>4, <1>5, <1>6 DEF Cancellation

LEMMA EnvironmentType ==
    ASSUME TypeOK, NEW o \in Order, Environment(o)
    PROVE  TypeOK'
<1> USE DEF TypeOK, threads, world, Outside
<1>1. CASE Deadline(o)
  BY <1>1 DEF Deadline
<1>2. CASE LatePostLands(o)
  BY <1>2 DEF LatePostLands, BookState
<1>3. CASE Fill(o) \/ CancellationLands(o) \/ Invalidate(o)
  BY <1>3 DEF Fill, CancellationLands, Invalidate, BookMoves, BookState
<1>4. CASE WalletCancels(o)
  BY <1>4 DEF WalletCancels, AskToCancel
<1>5. CASE SubmissionLeaseLapses(o)
  BY <1>5, LapsedRow DEF SubmissionLeaseLapses
<1>6. CASE CheckLeaseLapses(o)
  BY <1>6, LapsedRow DEF CheckLeaseLapses
<1> QED
  BY <1>1, <1>2, <1>3, <1>4, <1>5, <1>6 DEF Environment

LEMMA NextType ==
    ASSUME TypeOK, [Next]_vars
    PROVE  TypeOK'
<1>1. CASE MarkExpiredPending
  <2>1. ASSUME NEW o \in Order PROVE orders'[o] \in Row
    BY <1>1, ExpiredRowRow DEF MarkExpiredPending, TypeOK
  <2>2. orders' \in [Order -> Row]
    BY <1>1, <2>1 DEF MarkExpiredPending
  <2> QED
    BY <1>1, <2>2 DEF MarkExpiredPending, TypeOK, threads, world
<1>2. CASE Redeploy
  BY <1>2, IdleTypes DEF Redeploy, TypeOK, world
<1>3. CASE ToggleFlag
  BY <1>3 DEF ToggleFlag, TypeOK, threads, world
<1>4. CASE UNCHANGED vars
  BY <1>4 DEF TypeOK, vars
<1> QED
  BY <1>1, <1>2, <1>3, <1>4, SubmissionType, ReconciliationType, CancellationType,
     EnvironmentType DEF Next

\* Every reachable row, thread and order-book entry is in its domain; in
\* particular no order is ever submitted more than MaxAttempts times on one budget.
THEOREM TypeCorrect == Spec => []TypeOK
<1>1. Init => TypeOK
  BY InitType
<1>2. TypeOK /\ [Next]_vars => TypeOK'
  BY NextType
<1> QED
  BY <1>1, <1>2, PTL DEF Spec

-----------------------------------------------------------------------------
(* The leases and the queue of the status worker *)

\* Only a submission in progress holds the submission lease, and only an order
\* at the provider the status lease: no statement writes under both.
LeaseInv ==
    \A o \in Order :
        /\ orders[o].lock # None => orders[o].status = "pending_submission"
        /\ orders[o].checkLock # None => orders[o].status \in ProviderActive

\* A busy submitter works on an order, and "accepted" is said of an order the
\* provider holds.
AnswerInv ==
    \A s \in Submitter :
        /\ sub[s].pc # "idle" => sub[s].order \in Order
        /\ sub[s].pc = "answered" /\ sub[s].answer = "accepted" => Held(sub[s].order)

QueueInv == LeaseInv /\ AnswerInv /\ TrackedUntilSettled

TrackingInv == TypeOK /\ QueueInv

LEMMA InitTracking == Init => TrackingInv
<1> SUFFICES ASSUME Init PROVE TrackingInv
  OBVIOUS
<1>1. \A o \in Order : /\ orders[o].status = "none"
                       /\ orders[o].lock = None /\ orders[o].checkLock = None
  BY DEF Init, BlankRow
<1>2. \A s \in Submitter : sub[s].pc = "idle"
  BY DEF Init, IdleSub
<1> QED
  BY <1>1, <1>2, InitType
  DEF TrackingInv, QueueInv, LeaseInv, AnswerInv, TrackedUntilSettled, ProviderActive

\* The order book never forgets an order it holds.
LEMMA HeldForever ==
    ASSUME TypeOK, [Next]_vars, NEW o \in Order, Held(o)
    PROVE  Held(o)'
<1> USE DEF Held, TypeOK, threads, world, Outside, vars
<1>1. CASE \E s \in Submitter : Submission(s)
  BY <1>1 DEF Submission, SaveNew, SaveAgain, ClaimDue, ClaimById, PostSkipped,
       PostAccepted, PostUnavailable, PostRefused, CanLand, CompleteSubmission, CrashSubmitter
<1>2. CASE \E c \in Checker : Reconciliation(c)
  BY <1>2 DEF Reconciliation, ClaimStatusCheck, CheckAnswered, CheckFailed, Reports,
       CompleteStatusCheck, CrashChecker
<1>3. CASE \E k \in Canceller : Cancellation(k)
  BY <1>3 DEF Cancellation, BeginCancel, CancelLocally, DeleteAccepted, DeleteFailed,
       MarkCancellation, CrashCanceller
<1>4. CASE \E p \in Order : Environment(p)
  BY <1>4 DEF Environment, Deadline, LatePostLands, CanLand, Fill, CancellationLands,
       Invalidate, BookMoves, Live, WalletCancels, SubmissionLeaseLapses, CheckLeaseLapses
<1>5. CASE MarkExpiredPending \/ Redeploy \/ ToggleFlag \/ UNCHANGED vars
  BY <1>5 DEF MarkExpiredPending, Redeploy, ToggleFlag
<1> QED
  BY <1>1, <1>2, <1>3, <1>4, <1>5 DEF Next

LEMMA SubmissionTracking ==
    ASSUME TrackingInv, NEW s \in Submitter, Submission(s)
    PROVE  QueueInv'
<1> USE NoneAssumption DEF threads, world, Becomes
<1>0. /\ orders \in [Order -> Row] /\ sub \in [Submitter -> SubThread]
      /\ Submittable \cap ProviderActive = {} /\ "none" \notin ProviderActive
      /\ LeaseInv /\ AnswerInv /\ TrackedUntilSettled
  BY DEF TrackingInv, QueueInv, TypeOK, Submittable, ProviderActive
<1>1. \A o \in Order : Held(o) => Held(o)'
  BY HeldForever DEF TrackingInv, Next
<1>2. ASSUME NEW o \in Order, SaveNew(s, o) PROVE QueueInv'
  BY <1>0, <1>1, <1>2, NewRowType DEF SaveNew, SavedSub, QueueInv, LeaseInv, AnswerInv, TrackedUntilSettled, ProviderActive
<1>3. ASSUME NEW o \in Order, SaveAgain(s, o) PROVE QueueInv'
  BY <1>0, <1>1, <1>3, FreshAttemptsRow DEF SaveAgain, SavedSub, QueueInv, LeaseInv, AnswerInv, TrackedUntilSettled
<1>4. ASSUME NEW o \in Order, TakeSubmissionLease(s, o), Claimable(o), UNCHANGED book
      PROVE  QueueInv'
  BY <1>0, <1>1, <1>4, LeasedRowRow DEF TakeSubmissionLease, Claimable, ClaimedSub, QueueInv, LeaseInv, AnswerInv, TrackedUntilSettled, Submittable, ProviderActive
<1>5. ASSUME NEW o \in Order, ClaimDue(s, o) PROVE QueueInv'
  BY <1>4, <1>5 DEF ClaimDue
<1>6. ASSUME ClaimById(s) PROVE QueueInv'
  <2>1. sub[s].order \in Order
    BY <1>0, <1>6 DEF ClaimById, AnswerInv
  <2> QED
    BY <1>0, <1>1, <1>4, <1>6, <2>1, IdleTypes DEF ClaimById, QueueInv, LeaseInv, AnswerInv, TrackedUntilSettled
<1>7. ASSUME NEW a, Answered(s, a), UNCHANGED orders, sub[s].pc = "claimed",
             a = "accepted" => Held(sub[s].order)'
      PROVE QueueInv'
  BY <1>0, <1>1, <1>7 DEF Answered, QueueInv, LeaseInv, AnswerInv, TrackedUntilSettled
<1>8. ASSUME PostSkipped(s) PROVE QueueInv'
  BY <1>7, <1>8 DEF PostSkipped, Posting
<1>9. ASSUME PostAccepted(s) PROVE QueueInv'
  <2>1. sub[s].order \in Order /\ book \in [Order -> BookState]
    BY <1>0, <1>9 DEF PostAccepted, Posting, AnswerInv, TrackingInv, TypeOK
  <2>2. Held(sub[s].order)'
    BY <1>9, <2>1 DEF PostAccepted, Held, Answered
  <2> QED
    BY <1>7, <1>9, <2>2 DEF PostAccepted, Posting
<1>10. ASSUME PostUnavailable(s) PROVE QueueInv'
  BY <1>7, <1>10 DEF PostUnavailable, Posting
<1>11. ASSUME PostRefused(s) PROVE QueueInv'
  BY <1>7, <1>11 DEF PostRefused, Posting
<1>12. ASSUME CompleteSubmission(s) PROVE QueueInv'
  <2> DEFINE o == sub[s].order
             a == sub[s].answer
  <2>1. PICK again \in BOOLEAN :
          orders' = IF orders[o].lock = s
                    THEN [orders EXCEPT ![o] = SubmittedRow(orders[o], a, again)]
                    ELSE orders
    BY <1>12 DEF CompleteSubmission
  <2>2. o \in Order /\ (a = "accepted" => Held(o))
    BY <1>0, <1>12 DEF CompleteSubmission, AnswerInv
  <2>3. a # "accepted" => StatusAfter(a) \notin ProviderActive
    BY DEF StatusAfter, ProviderActive
  <2>4. orders[o].lock = s => orders[o].checkLock = None
    BY <1>0, <2>2 DEF LeaseInv, ProviderActive
  <2>5. LeaseInv'
    BY <1>0, <2>1, <2>2, <2>4, SubmittedRowRow DEF LeaseInv
  <2>6. TrackedUntilSettled'
    BY <1>0, <1>1, <2>1, <2>2, <2>3, SubmittedRowRow DEF TrackedUntilSettled
  <2>7. AnswerInv'
    BY <1>0, <1>1, <1>12, IdleTypes DEF CompleteSubmission, AnswerInv
  <2> QED
    BY <2>5, <2>6, <2>7 DEF QueueInv
<1>13. ASSUME CrashSubmitter(s) PROVE QueueInv'
  BY <1>0, <1>1, <1>13, IdleTypes DEF CrashSubmitter, QueueInv, LeaseInv, AnswerInv, TrackedUntilSettled
<1> QED
  BY <1>2, <1>3, <1>5, <1>6, <1>8, <1>9, <1>10, <1>11, <1>12, <1>13 DEF Submission

LEMMA ReconciliationTracking ==
    ASSUME TrackingInv, NEW c \in Checker, Reconciliation(c)
    PROVE  QueueInv'
<1> USE NoneAssumption DEF threads, world
<1>0. /\ orders \in [Order -> Row] /\ chk \in [Checker -> ChkThread]
      /\ LeaseInv /\ AnswerInv /\ TrackedUntilSettled
      /\ UNCHANGED <<sub, book>>
  BY DEF TrackingInv, QueueInv, TypeOK, Reconciliation, ClaimStatusCheck, CheckAnswered,
     CheckFailed, Reports, CompleteStatusCheck, CrashChecker
<1>1. AnswerInv'
  BY <1>0 DEF AnswerInv, Held
<1>2. ASSUME NEW o \in Order, ClaimStatusCheck(c, o) PROVE QueueInv'
  BY <1>0, <1>1, <1>2, CheckLeasedRowRow
  DEF ClaimStatusCheck, QueueInv, LeaseInv, TrackedUntilSettled, Held
<1>3. ASSUME UNCHANGED orders PROVE QueueInv'
  BY <1>0, <1>1, <1>3 DEF QueueInv, LeaseInv, TrackedUntilSettled, Held
<1>4. ASSUME CompleteStatusCheck(c) PROVE QueueInv'
  <2> DEFINE o == chk[c].order
             next == IF chk[c].report = "failure" THEN chk[c].seen ELSE chk[c].report
             again == next \notin Terminal
  <2>1. next \in Status /\ again \in BOOLEAN
    BY <1>0 DEF ChkThread, Report, Status, Active, ProviderActive
  <2>2. orders' = IF orders[o].checkLock = c
                  THEN [orders EXCEPT ![o] = CheckedRow(orders[o], next, again)]
                  ELSE orders
    BY <1>4 DEF CompleteStatusCheck
  <2>3. next \in ProviderActive => again
    BY DEF ProviderActive, Terminal
  <2> HIDE DEF next, again
  <2>4. CASE o \in Order /\ orders[o].checkLock = c
    <3>1. orders[o].status \in ProviderActive /\ orders[o].lock = None
      BY <1>0, <2>4 DEF LeaseInv, ProviderActive
    <3>2. LeaseInv'
      BY <1>0, <2>1, <2>2, <2>4, <3>1, CheckedRowRow DEF LeaseInv
    <3>3. TrackedUntilSettled'
      BY <1>0, <2>1, <2>2, <2>3, <2>4, <3>1, CheckedRowRow DEF TrackedUntilSettled, Held
    <3> QED
      BY <1>1, <3>2, <3>3 DEF QueueInv
  <2>5. CASE ~(o \in Order /\ orders[o].checkLock = c)
    <3>1. UNCHANGED orders
      BY <1>0, <2>2, <2>5
    <3> QED
      BY <1>3, <3>1
  <2> QED
    BY <2>4, <2>5
<1> QED
  BY <1>2, <1>3, <1>4 DEF Reconciliation, CheckAnswered, CheckFailed, Reports, CrashChecker

LEMMA CancellationTracking ==
    ASSUME TrackingInv, NEW k \in Canceller, Cancellation(k)
    PROVE  QueueInv'
<1> USE NoneAssumption DEF threads, world
<1>0. /\ orders \in [Order -> Row]
      /\ LeaseInv /\ AnswerInv /\ TrackedUntilSettled
      /\ UNCHANGED <<sub, book>>
  BY DEF TrackingInv, QueueInv, TypeOK, Cancellation, BeginCancel, CancelLocally,
     DeleteAccepted, DeleteFailed, MarkCancellation, CrashCanceller
<1>1. AnswerInv'
  BY <1>0 DEF AnswerInv, Held
<1>2. ASSUME UNCHANGED orders PROVE QueueInv'
  BY <1>0, <1>1, <1>2 DEF QueueInv, LeaseInv, TrackedUntilSettled, Held
<1>3. ASSUME CancelLocally(k) PROVE QueueInv'
  BY <1>0, <1>1, <1>3, CancelledRowRow
  DEF CancelLocally, IsLocal, QueueInv, LeaseInv, TrackedUntilSettled, ProviderActive, Held
<1>4. ASSUME MarkCancellation(k) PROVE QueueInv'
  BY <1>0, <1>1, <1>4, MarkedRowRow
  DEF MarkCancellation, QueueInv, LeaseInv, TrackedUntilSettled, Held
<1> QED
  BY <1>2, <1>3, <1>4
  DEF Cancellation, BeginCancel, DeleteAccepted, DeleteFailed, CrashCanceller

LEMMA EnvironmentTracking ==
    ASSUME TrackingInv, NEW o \in Order, Environment(o)
    PROVE  QueueInv'
<1> USE DEF threads, world, Outside
<1>0. orders \in [Order -> Row] /\ LeaseInv /\ AnswerInv /\ TrackedUntilSettled
  BY DEF TrackingInv, QueueInv, TypeOK
<1>1. \A p \in Order : Held(p) => Held(p)'
  BY HeldForever DEF TrackingInv, Next
<1>2. UNCHANGED sub
  BY DEF Environment, Deadline, LatePostLands, Fill, CancellationLands, Invalidate,
     BookMoves, WalletCancels, SubmissionLeaseLapses, CheckLeaseLapses
<1>3. AnswerInv'
  BY <1>0, <1>1, <1>2 DEF AnswerInv
<1>4. ASSUME SubmissionLeaseLapses(o) \/ CheckLeaseLapses(o) PROVE QueueInv'
  <2>1. \A p \in Order :
          LET r == orders[p]  n == orders'[p] IN
          /\ n.status = r.status /\ n.lock = r.lock /\ n.checkLock = r.checkLock
          /\ n.known = r.known /\ n.checkDue = r.checkDue
    <3>1. CASE SubmissionLeaseLapses(o)
      BY <1>0, <3>1, LapsedRow DEF SubmissionLeaseLapses
    <3>2. CASE CheckLeaseLapses(o)
      BY <1>0, <3>2, LapsedRow DEF CheckLeaseLapses
    <3> QED
      BY <1>4, <3>1, <3>2
  <2> QED
    BY <1>0, <1>1, <1>3, <2>1 DEF QueueInv, LeaseInv, TrackedUntilSettled
<1>5. ASSUME UNCHANGED orders PROVE QueueInv'
  BY <1>0, <1>1, <1>3, <1>5 DEF QueueInv, LeaseInv, TrackedUntilSettled
<1> QED
  BY <1>4, <1>5 DEF Environment, Deadline, LatePostLands, Fill, CancellationLands,
     Invalidate, BookMoves, WalletCancels

LEMMA NextTracking ==
    ASSUME TrackingInv, [Next]_vars
    PROVE  TrackingInv'
<1>0. /\ orders \in [Order -> Row]
      /\ LeaseInv /\ AnswerInv /\ TrackedUntilSettled
  BY DEF TrackingInv, QueueInv, TypeOK
<1>1. TypeOK'
  BY NextType DEF TrackingInv
<1>2. ASSUME MarkExpiredPending PROVE QueueInv'
  <2>1. \A o \in Order : \/ orders'[o] = orders[o]
                         \/ /\ orders[o].status \in Submittable
                            /\ orders'[o] = ExpiredRow(orders[o])
    BY <1>2 DEF MarkExpiredPending
  <2>2. UNCHANGED <<sub, book>>
    BY <1>2 DEF MarkExpiredPending, threads, world
  <2> QED
    BY <1>0, <2>1, <2>2, ExpiredRowRow
    DEF QueueInv, LeaseInv, AnswerInv, TrackedUntilSettled, Submittable, ProviderActive, Held
<1>3. ASSUME Redeploy PROVE QueueInv'
  BY <1>0, <1>3, IdleTypes
  DEF Redeploy, world, QueueInv, LeaseInv, AnswerInv, TrackedUntilSettled, Held
<1>4. ASSUME ToggleFlag \/ UNCHANGED vars PROVE QueueInv'
  BY <1>0, <1>4
  DEF ToggleFlag, threads, world, vars, QueueInv, LeaseInv, AnswerInv, TrackedUntilSettled, Held
<1> QED
  BY <1>1, <1>2, <1>3, <1>4, SubmissionTracking, ReconciliationTracking,
     CancellationTracking, EnvironmentTracking DEF Next, TrackingInv

\* The invariant holds in every behaviour.
THEOREM Tracking == Spec => []TrackingInv
<1>1. Init => TrackingInv
  BY InitTracking
<1>2. TrackingInv /\ [Next]_vars => TrackingInv'
  BY NextTracking
<1> QED
  BY <1>1, <1>2, PTL DEF Spec

\* An order in a provider-active status has its provider id, is held by the order
\* book and waits in the status worker's queue, whichever lease lapsed and
\* whichever submission came late (completeSubmission, completeStatusCheck,
\* markProviderCancellationRequested).
THEOREM OrdersStayTracked == Spec => []TrackedUntilSettled
<1>1. TrackingInv => TrackedUntilSettled
  BY DEF TrackingInv, QueueInv
<1> QED
  BY <1>1, Tracking, PTL

-----------------------------------------------------------------------------
(* How a status may change *)

\* The status of o in one step: kept, saved, leased, answered, swept, reconciled
\* or cancelled here; each with what its statement's WHERE clause demands, and with
\* what becomes of the submission lease and of the doubt about o.
StatusMoves(o) ==
    LET old == orders[o].status
        new == orders'[o].status
    IN
    \/ new = old /\ orders'[o].lock = orders[o].lock /\ doubt'[o] = doubt[o]
    \/ /\ old = "none" /\ new = "stored" /\ doubt'[o] = doubt[o]
       /\ \E s \in Submitter : SaveNew(s, o)
    \/ /\ old \in Submittable /\ new = "pending_submission"
       /\ doubt'[o] = DoubtAfterClaim(o)
       /\ \E s \in Submitter : orders'[o].lock = s
    \/ \E s \in Submitter :
         /\ CompleteSubmission(s) /\ sub[s].order = o /\ orders[o].lock = s
         /\ old = "pending_submission" /\ new = StatusAfter(sub[s].answer)
         /\ doubt'[o] = DoubtAfterAnswer(o, sub[s].answer)
    \/ old \in Submittable /\ new = "expired" /\ expired[o] /\ doubt'[o] = doubt[o]
    \/ \E c \in Checker :
         /\ chk[c].pc = "answered" /\ chk[c].order = o
         /\ old \in ProviderActive /\ doubt'[o] = doubt[o]
         /\ new = IF chk[c].report = "failure" THEN chk[c].seen ELSE chk[c].report
    \/ old = "stored" /\ new = "cancelled" /\ doubt'[o] = doubt[o]

LEMMA StatusStep ==
    ASSUME TrackingInv, [Next]_vars, NEW o \in Order
    PROVE  StatusMoves(o)
<1> USE NoneAssumption DEF threads, world, Outside
<1>0. /\ orders \in [Order -> Row] /\ sub \in [Submitter -> SubThread]
      /\ doubt \in [Order -> Doubt]
      /\ LeaseInv /\ AnswerInv
  BY DEF TrackingInv, QueueInv, TypeOK, Doubt
<1>1. ASSUME NEW s \in Submitter, Submission(s) PROVE StatusMoves(o)
  <2>1. ASSUME NEW p \in Order, SaveNew(s, p) PROVE StatusMoves(o)
    BY <1>0, <2>1, NewRowType DEF SaveNew, StatusMoves
  <2>2. ASSUME NEW p \in Order, SaveAgain(s, p) PROVE StatusMoves(o)
    BY <1>0, <2>2, FreshAttemptsRow DEF SaveAgain, StatusMoves
  <2>3. ASSUME NEW p, Claimable(p), TakeSubmissionLease(s, p)
        PROVE  StatusMoves(o)
    <3>1. o = p => orders[o].status \in Submittable /\ orders'[o] = LeasedRow(orders[o], s)
                   /\ orders[o].attempts < MaxAttempts /\ doubt'[o] = DoubtAfterClaim(o)
      BY <1>0, <2>3 DEF Claimable, TakeSubmissionLease
    <3>2. o # p => orders'[o] = orders[o] /\ doubt'[o] = doubt[o]
      BY <1>0, <2>3 DEF TakeSubmissionLease
    <3> QED
      BY <1>0, <3>1, <3>2, LeasedRowRow DEF StatusMoves
  <2>4. ASSUME CompleteSubmission(s) PROVE StatusMoves(o)
    <3>1. PICK again \in BOOLEAN :
            orders' = IF orders[sub[s].order].lock = s
                      THEN [orders EXCEPT ![sub[s].order] =
                              SubmittedRow(orders[sub[s].order], sub[s].answer, again)]
                      ELSE orders
      BY <2>4 DEF CompleteSubmission
    <3>2. /\ doubt' = IF orders[sub[s].order].lock = s
                      THEN [doubt EXCEPT ![sub[s].order] =
                              DoubtAfterAnswer(sub[s].order, sub[s].answer)]
                      ELSE doubt
          /\ sub[s].pc = "answered" /\ sub[s].order \in Order
      BY <1>0, <2>4 DEF CompleteSubmission, AnswerInv
    <3>3. CASE o = sub[s].order /\ orders[o].lock = s
      <4>1. orders[o].status = "pending_submission"
        BY <1>0, <3>3 DEF LeaseInv
      <4>2. orders'[o].status = StatusAfter(sub[s].answer)
        BY <1>0, <3>1, <3>3, SubmittedRowRow
      <4>3. doubt'[o] = DoubtAfterAnswer(o, sub[s].answer)
        BY <1>0, <3>2, <3>3
      <4> QED
        BY <2>4, <3>3, <4>1, <4>2, <4>3 DEF StatusMoves
    <3>4. CASE ~(o = sub[s].order /\ orders[o].lock = s)
      BY <1>0, <3>1, <3>2, <3>4 DEF StatusMoves
    <3> QED
      BY <3>3, <3>4
  <2> QED
    BY <1>1, <2>1, <2>2, <2>3, <2>4
    DEF Submission, ClaimDue, ClaimById, PostSkipped, PostAccepted, PostUnavailable,
        PostRefused, CrashSubmitter, StatusMoves
<1>2. ASSUME NEW c \in Checker, Reconciliation(c) PROVE StatusMoves(o)
  <2>1. ASSUME NEW p \in Order, ClaimStatusCheck(c, p) PROVE StatusMoves(o)
    BY <1>0, <2>1, CheckLeasedRowRow DEF ClaimStatusCheck, StatusMoves
  <2>2. ASSUME CompleteStatusCheck(c) PROVE StatusMoves(o)
    <3> DEFINE next == IF chk[c].report = "failure" THEN chk[c].seen ELSE chk[c].report
               again == next \notin Terminal
    <3>1. /\ chk[c].pc = "answered"
          /\ orders' = IF orders[chk[c].order].checkLock = c
                       THEN [orders EXCEPT ![chk[c].order] =
                               CheckedRow(orders[chk[c].order], next, again)]
                       ELSE orders
          /\ UNCHANGED doubt
      BY <2>2 DEF CompleteStatusCheck
    <3>2. next \in Status /\ again \in BOOLEAN
      BY DEF TrackingInv, TypeOK, ChkThread, Report, Status, Active, ProviderActive
    <3>3. CASE o = chk[c].order /\ orders[o].checkLock = c
      <4>1. orders[o].status \in ProviderActive
        BY <1>0, <3>3 DEF LeaseInv
      <4>2. orders'[o] = CheckedRow(orders[o], next, again)
        BY <1>0, <3>1, <3>3
      <4> HIDE DEF next, again
      <4>3. orders'[o].status = next
        BY <1>0, <3>2, <4>2, CheckedRowRow
      <4> QED
        BY <3>1, <3>3, <4>1, <4>3 DEF StatusMoves, next
    <3>4. CASE ~(o = chk[c].order /\ orders[o].checkLock = c)
      BY <1>0, <3>1, <3>4 DEF StatusMoves
    <3> QED
      BY <3>3, <3>4
  <2> QED
    BY <1>2, <2>1, <2>2
    DEF Reconciliation, CheckAnswered, CheckFailed, Reports, CrashChecker, StatusMoves
<1>3. ASSUME NEW k \in Canceller, Cancellation(k) PROVE StatusMoves(o)
  <2>1. ASSUME CancelLocally(k) PROVE StatusMoves(o)
    BY <1>0, <2>1, CancelledRowRow DEF CancelLocally, IsLocal, StatusMoves
  <2>2. ASSUME MarkCancellation(k) PROVE StatusMoves(o)
    BY <1>0, <2>2, MarkedRowRow DEF MarkCancellation, StatusMoves
  <2> QED
    BY <1>3, <2>1, <2>2
    DEF Cancellation, BeginCancel, DeleteAccepted, DeleteFailed, CrashCanceller, StatusMoves
<1>4. ASSUME NEW p \in Order, Environment(p) PROVE StatusMoves(o)
  <2>1. CASE SubmissionLeaseLapses(p)
    BY <1>0, <2>1, LapsedRow DEF SubmissionLeaseLapses, StatusMoves
  <2>2. CASE CheckLeaseLapses(p)
    BY <1>0, <2>2, LapsedRow DEF CheckLeaseLapses, StatusMoves
  <2> QED
    BY <1>4, <2>1, <2>2
    DEF Environment, Deadline, LatePostLands, Fill, CancellationLands, Invalidate, BookMoves,
        WalletCancels, StatusMoves
<1>5. ASSUME MarkExpiredPending PROVE StatusMoves(o)
  BY <1>0, <1>5, ExpiredRowRow DEF MarkExpiredPending, StatusMoves
<1>6. ASSUME Redeploy \/ ToggleFlag \/ UNCHANGED vars PROVE StatusMoves(o)
  BY <1>6 DEF Redeploy, ToggleFlag, vars, StatusMoves
<1> QED
  BY <1>1, <1>2, <1>3, <1>4, <1>5, <1>6 DEF Next

\* A final status never changes: no late answer, lapsed lease, sweep, retry or
\* deployment takes an order out of filled, expired, cancelled or rejected
\* (the token guards of completeSubmission and completeStatusCheck, the status
\* guards of the other statements).
THEOREM TerminalStatusIsFinal == Spec => TerminalIsFinal
<1>1. TrackingInv /\ [Next]_vars =>
        [\A o \in Order :
           orders[o].status \in Terminal => orders'[o].status = orders[o].status]_vars
  BY StatusStep DEF StatusMoves, Terminal, Submittable, ProviderActive
<1> QED
  BY <1>1, Tracking, PTL DEF Spec, TerminalIsFinal

-----------------------------------------------------------------------------
(***************************************************************************)
(* What the token approval is promised: an order that gave its reservation *)
(* back cannot execute, no two orders of one scope can, and LimitOrder     *)
(* implements AllowanceReservation, except for the orders of which a       *)
(* refused or skipped retry overruled an unanswered attempt.  Nothing is   *)
(* assumed of the providers or of the deployment; that the exception is    *)
(* real is what LimitOrderRefused.cfg and LimitOrderSkipped.cfg show.      *)
(***************************************************************************)

-----------------------------------------------------------------------------
(* The inductive invariant *)

Working(s) == sub[s].pc \in {"claimed", "answered"}
Denied(s) == sub[s].pc = "claimed" \/ sub[s].answer \in {"skipped", "refused"}

\* While nothing is in doubt, the one thread at work on o holds its lease, or the
\* sweep has taken it away; and what was not sent or was turned away is not in the book.
LeaseFacts(s, o) ==
    doubt[o] = "none" =>
        /\ orders[o].lock = s \/ orders[o].status = "expired"
        /\ Denied(s) => book[o] = "absent" /\ ~inFlight[o]

\* What a submitting thread carries is true when it writes it.
SubFacts(s) ==
    /\ sub[s].pc = "idle" => sub[s].order = None
    /\ sub[s].pc # "idle" => orders[sub[s].order].status # "none"
    /\ sub[s].pc = "answered" => sub[s].answer \in Answer \ {"none"}
    /\ Working(s) => LeaseFacts(s, sub[s].order)

\* And so is what a status worker carries.
ChkFacts(c) ==
    /\ chk[c].pc # "idle" => chk[c].order \in Order /\ chk[c].seen \in ProviderActive
    /\ chk[c].pc = "answered" =>
         LET o == chk[c].order  r == chk[c].report IN
         /\ r \in {"failure", "open"} \cup Terminal
         /\ r = "filled" => book[o] = "filled"
         /\ r = "cancelled" => book[o] = "cancelled"
         /\ r = "rejected" => book[o] = "invalid"
         /\ r = "expired" => expired[o]

\* What a status says of the order book.
StatusFacts(o) ==
    LET st == orders[o].status IN
    /\ st = "none" => Untouched(o)
    /\ st = "stored" => Untouched(o) \/ Overruled(o)
    /\ st = "filled" => book[o] = "filled"
    /\ st = "expired" => expired[o]
    /\ st = "cancelled" => Untouched(o) \/ book[o] = "cancelled" \/ Overruled(o)
    /\ st = "rejected" => Untouched(o) \/ book[o] = "invalid" \/ Overruled(o)

OneActivePerScope ==
    \A o, p \in Order :
        /\ ScopeOf[o] = ScopeOf[p]
        /\ orders[o].status \in Active /\ orders[p].status \in Active
        => o = p

ReservationInv ==
    /\ TrackingInv
    /\ \A s \in Submitter : SubFacts(s)
    /\ \A c \in Checker : ChkFacts(c)
    /\ \A o \in Order : StatusFacts(o)
    /\ OneActivePerScope

LEMMA InitReservation == Init => ReservationInv
<1> SUFFICES ASSUME Init PROVE ReservationInv
  OBVIOUS
<1>1. \A o \in Order : orders[o].status = "none" /\ book[o] = "absent" /\ ~inFlight[o]
  BY DEF Init, BlankRow
<1>2. \A s \in Submitter : sub[s].pc = "idle" /\ sub[s].order = None /\ None \notin Order
  BY NoneAssumption DEF Init, IdleSub
<1>3. \A c \in Checker : chk[c].pc = "idle"
  BY DEF Init, IdleChk
<1> QED
  BY <1>1, <1>2, <1>3, InitTracking
  DEF ReservationInv, SubFacts, Working, ChkFacts, StatusFacts, Untouched, OneActivePerScope,
      Active, Submittable, ProviderActive

\* Settled book entries and passed deadlines stay as they are.
LEMMA WorldStep ==
    ASSUME TypeOK, [Next]_vars, NEW o \in Order
    PROVE  /\ book[o] \in {"filled", "cancelled", "invalid"} => book'[o] = book[o]
           /\ expired[o] => expired'[o]
<1> USE DEF Held, TypeOK, threads, world, Outside, vars
<1>1. CASE \E s \in Submitter : Submission(s)
  BY <1>1 DEF Submission, SaveNew, SaveAgain, ClaimDue, ClaimById, PostSkipped,
       PostAccepted, PostUnavailable, PostRefused, CanLand, CompleteSubmission, CrashSubmitter
<1>2. CASE \E c \in Checker : Reconciliation(c)
  BY <1>2 DEF Reconciliation, ClaimStatusCheck, CheckAnswered, CheckFailed, Reports,
       CompleteStatusCheck, CrashChecker
<1>3. CASE \E k \in Canceller : Cancellation(k)
  BY <1>3 DEF Cancellation, BeginCancel, CancelLocally, DeleteAccepted, DeleteFailed,
       MarkCancellation, CrashCanceller
<1>4. CASE \E p \in Order : Environment(p)
  BY <1>4 DEF Environment, Deadline, LatePostLands, CanLand, Fill, CancellationLands,
       Invalidate, BookMoves, Live, WalletCancels, SubmissionLeaseLapses, CheckLeaseLapses
<1>5. CASE MarkExpiredPending \/ Redeploy \/ ToggleFlag \/ UNCHANGED vars
  BY <1>5 DEF MarkExpiredPending, Redeploy, ToggleFlag
<1> QED
  BY <1>1, <1>2, <1>3, <1>4, <1>5 DEF Next

LEMMA SavedForever ==
    ASSUME ReservationInv, [Next]_vars, NEW o \in Order, orders[o].status # "none"
    PROVE  orders'[o].status # "none"
<1>1. StatusMoves(o)
  BY StatusStep DEF ReservationInv
<1> QED
  BY <1>1 DEF StatusMoves, StatusAfter, ReservationInv, ChkFacts, ProviderActive, Terminal

\* A doubt, once raised, stays; it is overruled only by the answer of a submission
\* that holds the lease, and so not while the status is a settled one.
LEMMA DoubtStep ==
    ASSUME ReservationInv, [Next]_vars, NEW o \in Order
    PROVE  /\ doubt'[o] = "none" => doubt[o] = "none"
           /\ Overruled(o) /\ orders'[o].status \in {"stored", "cancelled", "rejected"}
                => Overruled(o)'
<1>1. StatusMoves(o) /\ \A c \in Checker : ChkFacts(c)
  BY StatusStep DEF ReservationInv
<1>2. \A s \in Submitter : CompleteSubmission(s) => SubFacts(s) /\ sub[s].pc = "answered"
  BY DEF ReservationInv, CompleteSubmission
<1> QED
  BY <1>1, <1>2 DEF StatusMoves, Overruled, DoubtAfterClaim, DoubtAfterAnswer, StatusAfter,
     SubFacts, Answer

\* Only taking a lease on o touches it.
LEMMA UntouchedStep ==
    ASSUME ReservationInv, [Next]_vars, NEW o \in Order, Untouched(o),
           orders'[o].status # "pending_submission"
    PROVE  Untouched(o)'
<1> USE NoneAssumption DEF threads, world, Outside, Becomes
<1>0. /\ orders \in [Order -> Row] /\ sub \in [Submitter -> SubThread]
      /\ book \in [Order -> BookState] /\ inFlight \in [Order -> BOOLEAN]
      /\ \A s \in Submitter : sub[s].pc # "idle" => sub[s].order \in Order
  BY DEF ReservationInv, TrackingInv, QueueInv, AnswerInv, TypeOK
<1>1. ASSUME NEW s \in Submitter, Submission(s) PROVE Untouched(o)'
  <2>1. ASSUME NEW p \in Order, SaveNew(s, p) \/ SaveAgain(s, p) PROVE Untouched(o)'
    BY <1>0, <2>1 DEF SaveNew, SaveAgain, SavedSub, Untouched
  <2>2. ASSUME NEW p \in Order, Claimable(p), TakeSubmissionLease(s, p),
               UNCHANGED <<book, inFlight>>
        PROVE  Untouched(o)'
    <3>1. p # o
      BY <1>0, <2>2, LeasedRowRow DEF TakeSubmissionLease, Claimable
    <3> QED
      BY <1>0, <2>2, <3>1 DEF TakeSubmissionLease, ClaimedSub, Untouched
  <2>3. ASSUME ClaimById(s) PROVE Untouched(o)'
    <3>1. sub[s].order \in Order
      BY <1>0, <2>3 DEF ClaimById
    <3> QED
      BY <1>0, <2>2, <2>3, <3>1, IdleTypes DEF ClaimById, Untouched
  <2>4. ASSUME NEW p \in Order, sub[s].order = p, sub[s].pc = "claimed", NEW a, Answered(s, a),
               \A q \in Order : q # p => book'[q] = book[q] /\ inFlight'[q] = inFlight[q]
        PROVE  Untouched(o)'
    BY <1>0, <2>4 DEF Answered, Untouched
  <2>5. ASSUME PostSkipped(s) \/ PostAccepted(s) \/ PostUnavailable(s) \/ PostRefused(s)
        PROVE  Untouched(o)'
    BY <1>0, <2>4, <2>5
    DEF PostSkipped, PostAccepted, PostUnavailable, PostRefused, Posting
  <2>6. ASSUME CompleteSubmission(s) \/ CrashSubmitter(s) PROVE Untouched(o)'
    BY <1>0, <2>6, IdleTypes DEF CompleteSubmission, CrashSubmitter, Untouched
  <2> QED
    BY <1>1, <2>1, <2>2, <2>3, <2>5, <2>6 DEF Submission, ClaimDue
<1>2. ASSUME NEW c \in Checker, Reconciliation(c) PROVE Untouched(o)'
  BY <1>2 DEF Untouched, Reconciliation, ClaimStatusCheck, CheckAnswered, CheckFailed,
     Reports, CompleteStatusCheck, CrashChecker
<1>3. ASSUME NEW k \in Canceller, Cancellation(k) PROVE Untouched(o)'
  BY <1>3 DEF Untouched, Cancellation, BeginCancel, CancelLocally, DeleteAccepted,
     DeleteFailed, MarkCancellation, CrashCanceller
<1>4. ASSUME NEW p \in Order, Environment(p) PROVE Untouched(o)'
  BY <1>0, <1>4 DEF Untouched, Environment, Deadline, LatePostLands, Fill,
     CancellationLands, Invalidate, BookMoves, Live, WalletCancels, SubmissionLeaseLapses,
     CheckLeaseLapses
<1>5. ASSUME Redeploy PROVE Untouched(o)'
  BY <1>5, IdleTypes DEF Untouched, Redeploy
<1>6. ASSUME MarkExpiredPending \/ ToggleFlag \/ UNCHANGED vars PROVE Untouched(o)'
  BY <1>6 DEF Untouched, MarkExpiredPending, ToggleFlag, vars
<1> QED
  BY <1>1, <1>2, <1>3, <1>4, <1>5, <1>6 DEF Next

\* Only the POST of a thread at work on o brings o into the book, if nothing is under way.
LEMMA BookStep ==
    ASSUME ReservationInv, [Next]_vars, NEW o \in Order, book[o] = "absent", ~inFlight[o]
    PROVE  \/ book'[o] = "absent" /\ ~inFlight'[o]
           \/ /\ ~expired[o]
              /\ \E s \in Submitter :
                   /\ sub[s].order = o /\ sub[s].pc = "claimed"
                   /\ sub'[s].pc = "answered"
                   /\ sub'[s].answer \in {"accepted", "unavailable"}
<1> USE DEF threads, world, Outside, Becomes
<1>0. /\ book \in [Order -> BookState] /\ inFlight \in [Order -> BOOLEAN]
      /\ sub \in [Submitter -> SubThread]
  BY DEF ReservationInv, TrackingInv, TypeOK
<1>1. ASSUME NEW s \in Submitter, PostAccepted(s) \/ PostUnavailable(s), sub[s].order = o
      PROVE  \/ book'[o] = "absent" /\ ~inFlight'[o]
             \/ /\ ~expired[o]
                /\ sub[s].pc = "claimed"
                /\ sub'[s].pc = "answered"
                /\ sub'[s].answer \in {"accepted", "unavailable"}
  BY <1>0, <1>1 DEF PostAccepted, PostUnavailable, Posting, Answered, CanLand, Held
<1>2. ASSUME NEW s \in Submitter, PostAccepted(s) \/ PostUnavailable(s), sub[s].order # o
      PROVE  book'[o] = "absent" /\ ~inFlight'[o]
  BY <1>0, <1>2 DEF PostAccepted, PostUnavailable
<1>3. ASSUME UNCHANGED <<book, inFlight>> PROVE book'[o] = "absent" /\ ~inFlight'[o]
  BY <1>3
<1>4. ASSUME NEW s \in Submitter, Submission(s)
      PROVE  PostAccepted(s) \/ PostUnavailable(s) \/ UNCHANGED <<book, inFlight>>
  BY <1>4 DEF Submission, SaveNew, SaveAgain, ClaimDue, ClaimById, PostSkipped, PostRefused,
     CompleteSubmission, CrashSubmitter
<1>5. ASSUME NEW c \in Checker, Reconciliation(c) PROVE UNCHANGED <<book, inFlight>>
  BY <1>5 DEF Reconciliation, ClaimStatusCheck, CheckAnswered, CheckFailed,
     Reports, CompleteStatusCheck, CrashChecker
<1>6. ASSUME NEW k \in Canceller, Cancellation(k) PROVE UNCHANGED <<book, inFlight>>
  BY <1>6 DEF Cancellation, BeginCancel, CancelLocally, DeleteAccepted, DeleteFailed,
     MarkCancellation, CrashCanceller
<1>7. ASSUME NEW p \in Order, Environment(p) PROVE book'[o] = "absent" /\ ~inFlight'[o]
  BY <1>0, <1>7 DEF Environment, Deadline, LatePostLands, Fill, CancellationLands, Invalidate,
     BookMoves, Live, WalletCancels, SubmissionLeaseLapses, CheckLeaseLapses
<1>8. ASSUME MarkExpiredPending \/ Redeploy \/ ToggleFlag \/ UNCHANGED vars
      PROVE  UNCHANGED <<book, inFlight>>
  BY <1>8 DEF MarkExpiredPending, Redeploy, ToggleFlag, vars
<1> QED
  BY <1>1, <1>2, <1>3, <1>4, <1>5, <1>6, <1>7, <1>8 DEF Next

\* A stored order that is in no doubt is untouched.
LEMMA StoredUntouched ==
    ASSUME ReservationInv, NEW o \in Order, orders[o].status = "stored", doubt[o] = "none"
    PROVE  Untouched(o)
BY DEF ReservationInv, StatusFacts, Overruled

\* While o is in no doubt, two threads at work on it would both hold its lease.
LEMMA OneWorks ==
    ASSUME ReservationInv, NEW s \in Submitter, NEW t \in Submitter, Working(s), Working(t),
           sub[s].order = sub[t].order, doubt[sub[t].order] = "none",
           orders[sub[t].order].status # "expired"
    PROVE  s = t
BY DEF ReservationInv, SubFacts, LeaseFacts

\* What a thread at work on o knows outlasts every step but its own.
LEMMA KeepLeaseFacts ==
    ASSUME ReservationInv, [Next]_vars, NEW t \in Submitter, Working(t), sub'[t] = sub[t]
    PROVE  LeaseFacts(t, sub[t].order)'
<1> DEFINE o == sub[t].order
<1>0. /\ sub \in [Submitter -> SubThread] /\ o \in Order /\ sub[t].pc # "idle"
      /\ SubFacts(t) /\ StatusMoves(o) /\ LeaseInv
      /\ \A c \in Checker : ChkFacts(c)
  BY StatusStep DEF ReservationInv, TrackingInv, QueueInv, AnswerInv, TypeOK, Working
<1> HIDE DEF o
<1> SUFFICES ASSUME doubt'[o] = "none"
             PROVE  /\ orders'[o].lock = t \/ orders'[o].status = "expired"
                    /\ Denied(t) => book'[o] = "absent" /\ ~inFlight'[o]
  BY DEF LeaseFacts, Denied, o
<1>1. /\ doubt[o] = "none"
      /\ orders[o].lock = t \/ orders[o].status = "expired"
      /\ Denied(t) => book[o] = "absent" /\ ~inFlight[o]
      /\ orders[o].status # "none"
  BY <1>0, DoubtStep DEF SubFacts, LeaseFacts, Working, o
<1>2. orders[o].lock = t => orders[o].status = "pending_submission"
  BY <1>0, NoneAssumption DEF LeaseInv
<1>3. orders[o].status # "stored"
  BY <1>1, <1>2
<1>4. ASSUME NEW s \in Submitter, CompleteSubmission(s), sub[s].order = o, orders[o].lock = s
      PROVE  FALSE
  <2>1. s = t
    BY <1>0, <1>1, <1>4, NoneAssumption DEF LeaseInv
  <2>2. sub'[t].pc = "idle"
    BY <1>0, <1>4, <2>1, IdleTypes DEF CompleteSubmission, Becomes
  <2> QED
    BY <1>0, <2>2
<1>5. orders'[o].lock = t \/ orders'[o].status = "expired"
  <2>1. orders[o].status \in {"pending_submission", "expired"}
    BY <1>1, <1>2
  <2>2. CASE orders'[o].status = "pending_submission" /\ doubt'[o] = DoubtAfterClaim(o)
             /\ orders[o].status \in Submittable
    BY <1>1, <1>3, <2>2 DEF DoubtAfterClaim
  <2>3. CASE orders'[o].status = orders[o].status /\ orders'[o].lock = orders[o].lock
    BY <1>1, <2>3
  <2> QED
    BY <1>0, <1>1, <1>4, <2>1, <2>2, <2>3 DEF StatusMoves, ProviderActive
<1>6. ASSUME Denied(t) PROVE book'[o] = "absent" /\ ~inFlight'[o]
  <2>1. book[o] = "absent" /\ ~inFlight[o]
    BY <1>1, <1>6
  <2>2. ASSUME ~expired[o],
               NEW s \in Submitter, sub[s].order = o, sub[s].pc = "claimed",
               sub'[s].pc = "answered"
        PROVE  FALSE
    <3>1. orders[o].status # "expired"
      BY <1>0, <2>2 DEF ReservationInv, StatusFacts
    <3>2. s = t
      BY <1>1, <2>2, <3>1, OneWorks DEF Working, o
    <3> QED
      BY <2>2, <3>2
  <2> QED
    BY <1>0, <2>1, <2>2, BookStep
<1> QED
  BY <1>5, <1>6

\* A lease taken on an order in no doubt is taken on an untouched order.
LEMMA TakenLeaseFacts ==
    ASSUME ReservationInv, NEW s \in Submitter, NEW p \in Order, Claimable(p),
           TakeSubmissionLease(s, p), UNCHANGED <<book, inFlight>>
    PROVE  LeaseFacts(s, p)'
<1>0. doubt \in [Order -> Doubt] /\ orders \in [Order -> Row] /\ orders[p].attempts < MaxAttempts
  BY DEF ReservationInv, TrackingInv, TypeOK, Doubt, Claimable
<1>1. orders'[p].lock = s
  BY <1>0, LeasedRowRow DEF TakeSubmissionLease
<1>2. doubt'[p] = "none" => doubt[p] = "none" /\ orders[p].status = "stored"
  BY <1>0 DEF TakeSubmissionLease, DoubtAfterClaim
<1>3. doubt'[p] = "none" => book[p] = "absent" /\ ~inFlight[p]
  BY <1>2, StoredUntouched DEF Untouched
<1> QED
  BY <1>1, <1>3 DEF LeaseFacts

LEMMA SubFactsStep ==
    ASSUME ReservationInv, [Next]_vars, NEW t \in Submitter
    PROVE  SubFacts(t)'
<1> USE NoneAssumption DEF threads, world, Outside, Becomes
<1>0. /\ orders \in [Order -> Row] /\ sub \in [Submitter -> SubThread]
      /\ book \in [Order -> BookState]
      /\ sub[t].pc # "idle" => sub[t].order \in Order
      /\ SubFacts(t)
  BY DEF ReservationInv, TrackingInv, QueueInv, AnswerInv, TypeOK
<1>1. \A o \in Order : orders[o].status # "none" => orders'[o].status # "none"
  BY SavedForever
<1>2. ASSUME sub'[t] = sub[t] PROVE SubFacts(t)'
  <2>1. Working(t) => LeaseFacts(t, sub[t].order)'
    BY <1>2, KeepLeaseFacts
  <2>2. Working(t)' <=> Working(t)
    BY <1>2 DEF Working
  <2>3. sub'[t].pc # "idle" => orders'[sub'[t].order].status # "none"
    BY <1>0, <1>1, <1>2 DEF SubFacts
  <2>4. Working(t)' => LeaseFacts(t, sub[t].order)'
    BY <2>1, <2>2
  <2> QED
    BY <1>0, <1>2, <2>3, <2>4 DEF SubFacts
<1>3. ASSUME sub'[t] = IdleSub PROVE SubFacts(t)'
  BY <1>3, IdleTypes DEF SubFacts, Working
<1>4. ASSUME NEW s \in Submitter, Submission(s) PROVE SubFacts(t)'
  <2>2. ASSUME NEW p \in Order, SaveNew(s, p) PROVE SubFacts(t)'
    BY <1>0, <1>2, <2>2, NewRowType DEF SaveNew, SavedSub, SubFacts, Working
  <2>3. ASSUME NEW p \in Order, SaveAgain(s, p) PROVE SubFacts(t)'
    BY <1>0, <1>1, <1>2, <2>3 DEF SaveAgain, SavedSub, SubFacts, Working
  <2>4. ASSUME NEW p \in Order, Claimable(p), TakeSubmissionLease(s, p),
               UNCHANGED <<book, inFlight>>, s = t
        PROVE  SubFacts(t)'
    <3>1. orders'[p].status # "none"
      BY <1>1, <2>4 DEF Claimable, Submittable
    <3>2. LeaseFacts(t, p)'
      BY <2>4, TakenLeaseFacts
    <3>3. sub'[t] = ClaimedSub(p)
      BY <1>0, <2>4 DEF TakeSubmissionLease
    <3> QED
      BY <3>1, <3>2, <3>3 DEF ClaimedSub, SubFacts
  <2>5. ASSUME ClaimById(s), s = t PROVE SubFacts(t)'
    BY <1>0, <1>3, <2>4, <2>5 DEF ClaimById
  <2>6. ASSUME Posting(s), s = t, NEW a \in Answer \ {"none"}, Answered(s, a),
               UNCHANGED <<orders, doubt>>,
               a \in {"skipped", "refused"} => UNCHANGED <<book, inFlight>>
        PROVE  SubFacts(t)'
    <3>1. sub'[t] = [pc |-> "answered", order |-> sub[t].order, answer |-> a]
      BY <1>0, <2>6 DEF Answered
    <3>2. LeaseFacts(t, sub[t].order)
      BY <1>0, <2>6 DEF Posting, SubFacts, Working
    <3>3. LeaseFacts(t, sub[t].order)'
      BY <2>6, <3>1, <3>2 DEF LeaseFacts, Denied, Posting
    <3>4. orders'[sub[t].order].status # "none"
      BY <1>0, <2>6 DEF Posting, SubFacts
    <3> QED
      BY <3>1, <3>3, <3>4 DEF SubFacts
  <2>7. ASSUME PostSkipped(s), s = t PROVE SubFacts(t)'
    BY <2>6, <2>7 DEF PostSkipped, Answer
  <2>8. ASSUME PostAccepted(s) \/ PostUnavailable(s), s = t PROVE SubFacts(t)'
    BY <2>6, <2>8 DEF PostAccepted, PostUnavailable, Answer
  <2>9. ASSUME PostRefused(s), s = t PROVE SubFacts(t)'
    BY <2>6, <2>9 DEF PostRefused, Answer
  <2>10. ASSUME CompleteSubmission(s) \/ CrashSubmitter(s), s = t PROVE SubFacts(t)'
    BY <1>0, <1>3, <2>10 DEF CompleteSubmission, CrashSubmitter
  <2>11. CASE s # t
    <3>1. sub'[t] = sub[t]
      BY <1>0, <1>4, <2>11 DEF Submission, SaveNew, SaveAgain, ClaimDue, ClaimById,
         TakeSubmissionLease, PostSkipped, PostAccepted, PostUnavailable, PostRefused,
         Answered, CompleteSubmission, CrashSubmitter
    <3> QED
      BY <1>2, <3>1
  <2>12. CASE s = t
    BY <1>4, <2>2, <2>3, <2>4, <2>5, <2>7, <2>8, <2>9, <2>10, <2>12 DEF Submission, ClaimDue
  <2> QED
    BY <2>11, <2>12
<1>5. ASSUME NEW c \in Checker, Reconciliation(c) PROVE SubFacts(t)'
  BY <1>2, <1>5 DEF Reconciliation, ClaimStatusCheck, CheckAnswered, CheckFailed, Reports,
     CompleteStatusCheck, CrashChecker
<1>6. ASSUME NEW k \in Canceller, Cancellation(k) PROVE SubFacts(t)'
  BY <1>2, <1>6 DEF Cancellation, BeginCancel, CancelLocally, DeleteAccepted, DeleteFailed,
     MarkCancellation, CrashCanceller
<1>7. ASSUME NEW p \in Order, Environment(p) PROVE SubFacts(t)'
  BY <1>2, <1>7 DEF Environment, Deadline, LatePostLands, Fill, CancellationLands,
     Invalidate, BookMoves, WalletCancels, SubmissionLeaseLapses, CheckLeaseLapses
<1>8. ASSUME Redeploy PROVE SubFacts(t)'
  BY <1>3, <1>8 DEF Redeploy
<1>9. ASSUME MarkExpiredPending \/ ToggleFlag \/ UNCHANGED vars PROVE SubFacts(t)'
  BY <1>2, <1>9 DEF MarkExpiredPending, ToggleFlag, vars
<1> QED
  BY <1>4, <1>5, <1>6, <1>7, <1>8, <1>9 DEF Next

LEMMA ChkFactsStep ==
    ASSUME ReservationInv, [Next]_vars, NEW d \in Checker
    PROVE  ChkFacts(d)'
<1> USE DEF threads, world, Outside
<1>0. chk \in [Checker -> ChkThread] /\ ChkFacts(d)
  BY DEF ReservationInv, TrackingInv, TypeOK
<1>1. \A o \in Order :
        /\ book[o] \in {"filled", "cancelled", "invalid"} => book'[o] = book[o]
        /\ expired[o] => expired'[o]
  BY WorldStep DEF ReservationInv, TrackingInv
<1>2. ASSUME chk'[d] = chk[d] PROVE ChkFacts(d)'
  BY <1>0, <1>1, <1>2 DEF ChkFacts
<1>3. ASSUME chk'[d] = IdleChk PROVE ChkFacts(d)'
  BY <1>3, IdleTypes DEF ChkFacts
<1>4. ASSUME NEW c \in Checker, Reconciliation(c) PROVE ChkFacts(d)'
  <2>1. ASSUME NEW o \in Order, ClaimStatusCheck(c, o) PROVE ChkFacts(d)'
    BY <1>0, <1>2, <2>1 DEF ClaimStatusCheck, ClaimedChk, ChkFacts
  <2>2. ASSUME NEW r \in {"failure", "open"} \cup Terminal, Reports(c, r),
               LET o == chk[c].order IN
               /\ r = "filled" => book[o] = "filled"
               /\ r = "cancelled" => book[o] = "cancelled"
               /\ r = "rejected" => book[o] = "invalid"
               /\ r = "expired" => expired[o]
        PROVE  ChkFacts(d)'
    BY <1>0, <1>2, <2>2 DEF Reports, ChkFacts
  <2>3. ASSUME CheckAnswered(c) PROVE ChkFacts(d)'
    <3> DEFINE o == chk[c].order
               r == Reported(o)
    <3>1. /\ r \in {"failure", "open"} \cup Terminal
          /\ r = "filled" => book[o] = "filled"
          /\ r = "cancelled" => book[o] = "cancelled"
          /\ r = "rejected" => book[o] = "invalid"
          /\ r = "expired" => expired[o]
      BY DEF Reported, Terminal
    <3>2. Reports(c, r)
      BY <2>3 DEF CheckAnswered
    <3> QED
      BY <2>2, <3>1, <3>2
  <2>4. ASSUME CheckFailed(c) PROVE ChkFacts(d)'
    BY <2>2, <2>4 DEF CheckFailed
  <2>5. ASSUME CompleteStatusCheck(c) \/ CrashChecker(c) PROVE ChkFacts(d)'
    BY <1>0, <1>2, <1>3, <2>5 DEF CompleteStatusCheck, CrashChecker
  <2> QED
    BY <1>4, <2>1, <2>3, <2>4, <2>5 DEF Reconciliation
<1>5. ASSUME Redeploy PROVE ChkFacts(d)'
  BY <1>3, <1>5 DEF Redeploy
<1>6. ASSUME UNCHANGED chk PROVE ChkFacts(d)'
  BY <1>2, <1>6
<1>7. ASSUME NEW s \in Submitter, Submission(s) PROVE UNCHANGED chk
  BY <1>7 DEF Submission, SaveNew, SaveAgain, ClaimDue, ClaimById, PostSkipped,
     PostAccepted, PostUnavailable, PostRefused, CompleteSubmission, CrashSubmitter
<1>8. ASSUME NEW k \in Canceller, Cancellation(k) PROVE UNCHANGED chk
  BY <1>8 DEF Cancellation, BeginCancel, CancelLocally, DeleteAccepted, DeleteFailed,
     MarkCancellation, CrashCanceller
<1>9. ASSUME NEW p \in Order, Environment(p) PROVE UNCHANGED chk
  BY <1>9 DEF Environment, Deadline, LatePostLands, Fill, CancellationLands,
     Invalidate, BookMoves, WalletCancels, SubmissionLeaseLapses, CheckLeaseLapses
<1>10. ASSUME MarkExpiredPending \/ ToggleFlag \/ UNCHANGED vars PROVE UNCHANGED chk
  BY <1>10 DEF MarkExpiredPending, ToggleFlag, vars
<1> QED
  BY <1>4, <1>5, <1>6, <1>7, <1>8, <1>9, <1>10 DEF Next

\* The answer "skipped" or "refused" to an attempt that nothing is in doubt of leaves
\* an untouched order.
LEMMA DeniedUntouched ==
    ASSUME ReservationInv, NEW o \in Order, NEW s \in Submitter, CompleteSubmission(s),
           sub[s].order = o, orders[o].lock = s, doubt[o] = "none",
           sub[s].answer \in {"skipped", "refused"}
    PROVE  Untouched(o)'
<1>0. sub \in [Submitter -> SubThread] /\ LeaseInv /\ SubFacts(s) /\ sub[s].pc = "answered"
      /\ \A t \in Submitter : sub[t].pc = "idle" => sub[t].order = None
  BY DEF ReservationInv, SubFacts, TrackingInv, QueueInv, TypeOK, CompleteSubmission
<1>1. orders[o].status = "pending_submission"
  BY <1>0, NoneAssumption DEF LeaseInv
<1>2. book[o] = "absent" /\ ~inFlight[o]
  BY <1>0 DEF SubFacts, Working, LeaseFacts, Denied
<1>3. sub' = [sub EXCEPT ![s] = IdleSub] /\ UNCHANGED <<book, inFlight>>
  BY DEF CompleteSubmission, Becomes
<1>4. ASSUME NEW t \in Submitter, sub'[t].order = o PROVE sub'[t].pc = "saved"
  <2>1. t # s /\ sub'[t] = sub[t]
    BY <1>0, <1>3, <1>4, NoneAssumption, IdleTypes
  <2>2. ~Working(t)
    BY <1>0, <1>1, <1>4, <2>1, OneWorks DEF Working
  <2> QED
    BY <1>0, <1>4, <2>1, <2>2, NoneAssumption DEF Working, SubThread
<1> QED
  BY <1>2, <1>3, <1>4 DEF Untouched

LEMMA StatusFactsStep ==
    ASSUME ReservationInv, [Next]_vars, NEW o \in Order
    PROVE  StatusFacts(o)'
<1>0. /\ StatusMoves(o) /\ StatusFacts(o)
      /\ \A s \in Submitter : SubFacts(s)
      /\ \A c \in Checker : ChkFacts(c)
  BY StatusStep DEF ReservationInv
<1>1. /\ book[o] \in {"filled", "cancelled", "invalid"} => book'[o] = book[o]
      /\ expired[o] => expired'[o]
  BY WorldStep DEF ReservationInv, TrackingInv
<1>2. Overruled(o) /\ orders'[o].status \in {"stored", "cancelled", "rejected"} => Overruled(o)'
  BY DoubtStep
<1>3. Untouched(o) /\ orders'[o].status # "pending_submission" => Untouched(o)'
  BY UntouchedStep
<1>4. ASSUME NEW s \in Submitter, CompleteSubmission(s), sub[s].order = o, orders[o].lock = s,
             doubt'[o] = DoubtAfterAnswer(o, sub[s].answer),
             orders'[o].status = StatusAfter(sub[s].answer),
             orders'[o].status \in {"stored", "rejected"}
      PROVE  Untouched(o)' \/ Overruled(o)'
  <2>1. sub[s].answer \in {"skipped", "refused"}
    BY <1>0, <1>4 DEF SubFacts, CompleteSubmission, Answer, StatusAfter
  <2> QED
    BY <1>4, <2>1, DeniedUntouched DEF DoubtAfterAnswer, Overruled
<1>5. (orders[o].status = "none" => Untouched(o))'
  <2>1. orders'[o].status = "none" => orders[o].status = "none"
    BY <1>0 DEF StatusMoves, ChkFacts, StatusAfter, ProviderActive, Terminal
  <2> QED
    BY <1>0, <1>3, <2>1 DEF StatusFacts
<1>6. (orders[o].status = "stored" => Untouched(o) \/ Overruled(o))'
  BY <1>0, <1>2, <1>3, <1>4 DEF StatusMoves, StatusFacts, ChkFacts, ProviderActive, Terminal
<1>7. (orders[o].status = "filled" => book[o] = "filled")'
  BY <1>0, <1>1 DEF StatusMoves, StatusFacts, ChkFacts, StatusAfter, ProviderActive
<1>8. (orders[o].status = "expired" => expired[o])'
  BY <1>0, <1>1 DEF StatusMoves, StatusFacts, ChkFacts, StatusAfter, ProviderActive
<1>9. (orders[o].status = "cancelled" => Untouched(o) \/ book[o] = "cancelled" \/ Overruled(o))'
  BY <1>0, <1>1, <1>2, <1>3 DEF StatusMoves, StatusFacts, ChkFacts, StatusAfter, ProviderActive
<1>10. (orders[o].status = "rejected" => Untouched(o) \/ book[o] = "invalid" \/ Overruled(o))'
  BY <1>0, <1>1, <1>2, <1>3, <1>4 DEF StatusMoves, StatusFacts, ChkFacts, ProviderActive
<1> QED
  BY <1>5, <1>6, <1>7, <1>8, <1>9, <1>10 DEF StatusFacts

\* Two orders never take one scope: the second save sees the first.
LEMMA ScopeStep ==
    ASSUME ReservationInv, [Next]_vars
    PROVE  OneActivePerScope'
<1> SUFFICES ASSUME NEW o \in Order, NEW p \in Order, ScopeOf[o] = ScopeOf[p],
                    orders'[o].status \in Active, orders'[p].status \in Active
             PROVE  o = p
  BY DEF OneActivePerScope
<1>1. \A q \in Order : orders'[q].status \in Active =>
        orders[q].status \in Active \/ \E s \in Submitter : SaveNew(s, q)
  <2> TAKE q \in Order
  <2>1. StatusMoves(q)
    BY StatusStep DEF ReservationInv
  <2> QED
    BY <2>1 DEF StatusMoves, Active, Submittable, ProviderActive, Terminal
<1>2. ASSUME NEW q \in Order, NEW s \in Submitter, SaveNew(s, q),
             NEW r \in Order, ScopeOf[r] = ScopeOf[q], orders'[r].status \in Active
      PROVE  r = q
  BY <1>2 DEF SaveNew, ScopeFree, ReservationInv, TrackingInv, TypeOK
<1>3. CASE orders[o].status \in Active /\ orders[p].status \in Active
  BY <1>3 DEF ReservationInv, OneActivePerScope
<1> QED
  BY <1>1, <1>2, <1>3

LEMMA ReservationStep ==
    ASSUME ReservationInv, [Next]_vars
    PROVE  ReservationInv'
BY NextTracking, SubFactsStep, ChkFactsStep, StatusFactsStep, ScopeStep DEF ReservationInv

\* The invariant holds in every behaviour.
THEOREM ReservationInvariant == Spec => []ReservationInv
<1>1. Init => ReservationInv
  BY InitReservation
<1>2. ReservationInv /\ [Next]_vars => ReservationInv'
  BY ReservationStep
<1> QED
  BY <1>1, <1>2, PTL DEF Spec

-----------------------------------------------------------------------------
(* The properties *)

\* What can execute has an active status, or an answer overruled it.
LEMMA ExecutableIsActive ==
    ASSUME ReservationInv, NEW o \in Order, CanExecute(o)
    PROVE  orders[o].status \in Active \/ Overruled(o)
<1>1. orders[o].status \in Status /\ StatusFacts(o)
  BY DEF ReservationInv, TrackingInv, TypeOK, Row
<1> QED
  BY <1>1 DEF CanExecute, Live, CanLand, StatusFacts, Untouched, Status, Terminal

\* An order shown as filled, expired, cancelled or rejected cannot execute any more,
\* so the allowance that its scope hands on is free, unless a refused or skipped
\* retry overruled an attempt the backend had never heard of.
THEOREM ReleasedOrdersAreDead == Spec => []ReleasedOrderIsDead
<1>1. ReservationInv => ReleasedOrderIsDead
  BY ExecutableIsActive DEF ReleasedOrderIsDead, Terminal, Active, Submittable, ProviderActive
<1> QED
  BY <1>1, ReservationInvariant, PTL

\* Two orders a provider can execute against one token approval: then a refused or
\* skipped retry has overruled an unanswered attempt of one of them.
THEOREM OneLiveOrderPerScope == Spec => []OneLivePerScope
<1>1. ReservationInv => OneLivePerScope
  BY ExecutableIsActive DEF OneLivePerScope, ReservationInv, OneActivePerScope
<1> QED
  BY <1>1, ReservationInvariant, PTL

\* The final status a user reads is what happened at the order book, but for the
\* orders whose unanswered attempt was overruled; 'filled' is always true.
THEOREM OutcomesAreTrue == Spec => []OutcomeIsTrue
<1>1. ReservationInv => OutcomeIsTrue
  BY DEF ReservationInv, StatusFacts, Untouched, OutcomeIsTrue
<1> QED
  BY <1>1, ReservationInvariant, PTL

\* An order the user may cancel without a signature has never been sent and no thread
\* is about to send it, unless a skipped retry put an order back that had been sent.
THEOREM LocalOrdersUntouched == Spec => []LocalOrderUntouched
<1>1. ReservationInv => LocalOrderUntouched
  BY DEF ReservationInv, StatusFacts, LocalOrderUntouched, IsLocal
<1> QED
  BY <1>1, ReservationInvariant, PTL

-----------------------------------------------------------------------------
(* Refinement *)

\* Nothing but a solver's fill makes an order executed.
LEMMA OnlyFillExecutes ==
    ASSUME TypeOK, [Next]_vars, NEW o \in Order, book[o] # "filled", book'[o] = "filled"
    PROVE  Fill(o)
<1> USE DEF TypeOK, threads, world, Outside, vars
<1>1. CASE \E s \in Submitter : Submission(s)
  BY <1>1 DEF Submission, SaveNew, SaveAgain, ClaimDue, ClaimById, PostSkipped,
       PostAccepted, PostUnavailable, PostRefused, CompleteSubmission, CrashSubmitter
<1>2. CASE \E c \in Checker : Reconciliation(c)
  BY <1>2 DEF Reconciliation, ClaimStatusCheck, CheckAnswered, CheckFailed, Reports,
       CompleteStatusCheck, CrashChecker
<1>3. CASE \E k \in Canceller : Cancellation(k)
  BY <1>3 DEF Cancellation, BeginCancel, CancelLocally, DeleteAccepted, DeleteFailed,
       MarkCancellation, CrashCanceller
<1>4. CASE \E p \in Order : Environment(p)
  BY <1>4 DEF Environment, Deadline, LatePostLands, Fill, CancellationLands,
       Invalidate, BookMoves, WalletCancels, SubmissionLeaseLapses, CheckLeaseLapses
<1>5. CASE MarkExpiredPending \/ Redeploy \/ ToggleFlag \/ UNCHANGED vars
  BY <1>5 DEF MarkExpiredPending, Redeploy, ToggleFlag
<1> QED
  BY <1>1, <1>2, <1>3, <1>4, <1>5 DEF Next

\* Every step of the backend and of the order books is a reservation, an
\* execution, a release of the orders that became final, or none of them.
LEMMA RefinementStep ==
    ASSUME ReservationInv, [Next]_vars
    PROVE  [Reservation!Next]_(Reservation!vars)
<1> DEFINE reserved == {o \in Order : orders[o].status \in Active}
           released == {o \in Order : orders[o].status \in Terminal}
           overruled == {o \in Order : Overruled(o)}
           executed == {o \in Order : book[o] = "filled"}
           S == {o \in Order : orders[o].status \in Active /\ orders'[o].status \in Terminal}
<1>0. /\ orders \in [Order -> Row] /\ book \in [Order -> BookState]
      /\ doubt \in [Order -> Doubt]
  BY DEF ReservationInv, TrackingInv, TypeOK, Doubt
<1>1. CASE \E s \in Submitter, o \in Order : SaveNew(s, o)
  <2>1. PICK s \in Submitter, o \in Order : SaveNew(s, o)
    BY <1>1
  <2>2. orders' = [orders EXCEPT ![o] = NewRow] /\ UNCHANGED <<book, doubt>>
    BY <2>1 DEF SaveNew, world
  <2>3. /\ reserved' = reserved \cup {o} /\ released' = released
        /\ overruled' = overruled /\ executed' = executed
    BY <1>0, <2>1, <2>2, NewRowType
    DEF SaveNew, Active, Submittable, ProviderActive, Terminal, Overruled
  <2>4. o \notin reserved \cup released /\ \A p \in reserved : ScopeOf[p] # ScopeOf[o]
    BY <2>1 DEF SaveNew, ScopeFree, Active, Submittable, ProviderActive, Terminal
  <2>5. Reservation!Reserve(o)
    BY <2>3, <2>4 DEF Reservation!Reserve
  <2> QED
    BY <2>5 DEF Reservation!Next
<1>2. CASE \E o \in Order : Fill(o)
  <2>1. PICK o \in Order : Fill(o)
    BY <1>2
  <2>2. UNCHANGED <<orders, doubt>> /\ Live(o) /\ book' = [book EXCEPT ![o] = "filled"]
    BY <2>1 DEF Fill, BookMoves, Outside
  <2>3. orders[o].status \in Active \/ Overruled(o)
    BY <2>2, ExecutableIsActive DEF CanExecute
  <2>4. /\ reserved' = reserved /\ released' = released /\ overruled' = overruled
        /\ executed' = executed \cup {o} /\ o \in (reserved \cup overruled) \ executed
    BY <1>0, <2>2, <2>3 DEF Live, Overruled
  <2>5. Reservation!Execute(o)
    BY <2>4 DEF Reservation!Execute
  <2> QED
    BY <2>5 DEF Reservation!Next
<1>3. CASE /\ ~\E s \in Submitter, o \in Order : SaveNew(s, o)
           /\ ~\E o \in Order : Fill(o)
           /\ \A o \in Order : Overruled(o)' <=> Overruled(o)
  <2>1. executed' = executed /\ overruled' = overruled
    <3>1. \A o \in Order : book[o] = "filled" <=> book'[o] = "filled"
      BY <1>3, OnlyFillExecutes, WorldStep DEF ReservationInv, TrackingInv
    <3> QED
      BY <1>3, <3>1
  <2>2. \A o \in Order :
          /\ orders'[o].status \in Active => orders[o].status \in Active
          /\ orders[o].status \in Active => orders'[o].status \in Active \cup Terminal
          /\ orders[o].status \in Terminal => orders'[o].status \in Terminal
          /\ orders'[o].status \in Terminal => orders[o].status \in Active \cup Terminal
    <3> TAKE o \in Order
    <3>1. /\ StatusMoves(o)
          /\ \A s \in Submitter : SubFacts(s)
          /\ \A c \in Checker : ChkFacts(c)
      BY StatusStep DEF ReservationInv
    <3> QED
      BY <1>3, <3>1 DEF StatusMoves, SubFacts, ChkFacts, StatusAfter, Active, Submittable,
         ProviderActive, Terminal
  <2>3. Active \cap Terminal = {}
    BY DEF Active, Submittable, ProviderActive, Terminal
  <2>4. reserved' = reserved \ S /\ released' = released \cup S /\ S \subseteq reserved
    BY <2>2, <2>3
  <2>5. CASE S = {}
    BY <2>1, <2>4, <2>5 DEF Reservation!vars
  <2>6. CASE S # {}
    BY <2>1, <2>4, <2>6 DEF Reservation!Next, Reservation!Release, Reservation!GiveBack
  <2> QED
    BY <2>5, <2>6
<1>4. CASE \E o \in Order : ~(Overruled(o)' <=> Overruled(o))
  <2>1. PICK o \in Order : ~(Overruled(o)' <=> Overruled(o))
    BY <1>4
  <2>2. PICK s \in Submitter :
          /\ CompleteSubmission(s) /\ sub[s].order = o /\ orders[o].lock = s
          /\ orders[o].status = "pending_submission"
          /\ orders'[o].status = StatusAfter(sub[s].answer)
          /\ doubt'[o] = DoubtAfterAnswer(o, sub[s].answer)
    <3>1. StatusMoves(o)
      BY StatusStep DEF ReservationInv
    <3> QED
      BY <2>1, <3>1 DEF StatusMoves, Overruled, DoubtAfterClaim
  <2>3. UNCHANGED book /\ \A p \in Order \ {o} : orders'[p] = orders[p] /\ doubt'[p] = doubt[p]
    BY <1>0, <2>2 DEF CompleteSubmission
  <2>4. executed' = executed /\ o \in reserved
    BY <2>2, <2>3 DEF Active, Submittable
  <2>5. CASE Overruled(o)'
    <3>1. overruled' = overruled \cup {o}
      BY <2>3, <2>5 DEF Overruled
    <3>2. sub[s].answer \in {"skipped", "refused"}
      BY <2>1, <2>2, <2>5 DEF Overruled, DoubtAfterAnswer
    <3>3. CASE sub[s].answer = "skipped"
      <4>1. orders'[o].status \in Active \ Terminal /\ orders[o].status \in Active \ Terminal
        BY <2>2, <3>3 DEF StatusAfter, Active, Submittable, Terminal
      <4>2. reserved' = reserved /\ released' = released
        BY <2>3, <4>1
      <4> QED
        BY <2>4, <3>1, <4>2 DEF Reservation!Next, Reservation!Overrule
    <3>4. CASE sub[s].answer = "refused"
      <4>1. orders'[o].status \in Terminal \ Active /\ orders[o].status \in Active \ Terminal
        BY <2>2, <3>4 DEF StatusAfter, Active, Submittable, ProviderActive, Terminal
      <4>2. reserved' = reserved \ {o} /\ released' = released \cup {o}
        BY <2>3, <4>1
      <4> QED
        BY <2>4, <3>1, <4>2 DEF Reservation!Next, Reservation!Overrule, Reservation!GiveBack
    <3> QED
      BY <3>2, <3>3, <3>4
  <2>6. CASE ~Overruled(o)'
    <3>1. overruled' = overruled \ {o} /\ o \in overruled
      BY <2>1, <2>3, <2>6 DEF Overruled
    <3>2. sub[s].answer \in {"accepted", "unavailable"}
      <4>1. sub[s].answer \in Answer \ {"none"}
        BY <2>2 DEF ReservationInv, SubFacts, CompleteSubmission
      <4> QED
        BY <2>1, <2>2, <2>6, <4>1 DEF Overruled, DoubtAfterAnswer, Answer
    <3>3. orders'[o].status \in Active \ Terminal /\ orders[o].status \in Active \ Terminal
      BY <2>2, <3>2 DEF StatusAfter, Active, Submittable, ProviderActive, Terminal
    <3>4. reserved' = reserved /\ released' = released
      BY <2>3, <3>3
    <3> QED
      BY <2>4, <3>1, <3>4 DEF Reservation!Next, Reservation!Reinstate
  <2> QED
    BY <2>5, <2>6
<1> QED
  BY <1>1, <1>2, <1>3, <1>4

\* LimitOrder implements AllowanceReservation: no interleaving of submissions,
\* lost answers, sweeps, cancellations and fills breaks the promise of the approval,
\* with the orders whose unanswered attempt was overruled as its only exception.
THEOREM Implementation == Spec => ImplementsReservation
<1>1. Init => Reservation!Init
  BY DEF Init, BlankRow, Reservation!Init, Active, Submittable, ProviderActive, Terminal, Overruled
<1>2. ReservationInv /\ [Next]_vars => [Reservation!Next]_(Reservation!vars)
  BY RefinementStep
<1> QED
  BY <1>1, <1>2, ReservationInvariant, PTL DEF Spec, ImplementsReservation, Reservation!Spec
=============================================================================
