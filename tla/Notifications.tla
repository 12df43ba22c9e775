---------------------------- MODULE Notifications ----------------------------
(***************************************************************************)
(* Price alerts on their way to the user                                   *)
(* (backend/src/main/java/com/wallet/swap/notification, pricealert, ops):  *)
(* the scheduled monitor of every backend replica under the job lock, the  *)
(* cooldown and the dedupe window, the notification_outbox table and the   *)
(* delivery workers that lease its rows, the delivery records the cooldown *)
(* is computed from, and the mail, Telegram or push service as environment.*)
(*                                                                         *)
(* One action is one SQL statement or one call to a delivery service.  The *)
(* clock counts in units of which Cooldown make the alert's cooldown; the  *)
(* ends of leases and of the job lock are booleans that may turn at any    *)
(* moment, and a retry's delay is over at some moment.                     *)
(***************************************************************************)
EXTENDS Naturals, FiniteSets

CONSTANTS
    Alert,        \* alert rules, each with one delivery channel
    Monitor,      \* monitor threads, one per replica, named by its lock owner id
    Worker,       \* delivery threads, one per replica
    Cooldown,     \* cooldown_minutes of the wallet's preferences, in clock units
    MaxTime,      \* bound of the clock
    MaxAttempts,  \* wallet.notifications.outbox-max-attempts
    None          \* SQL NULL, and a lock owner that lives no more

ASSUME WorkerAssumption == IsFiniteSet(Worker)
ASSUME CooldownAssumption == Cooldown \in Nat \ {0}
ASSUME TimeAssumption == MaxTime \in Nat
ASSUME MaxAttemptsAssumption == MaxAttempts \in Nat \ {0}
ASSUME NoneAssumption == None \notin Monitor \cup Nat

VARIABLES
    now,       \* the clock
    alerts,    \* the rules that exist
    sentAt,    \* per rule, max(sent_at) of its delivery records with status 'sent'
    outbox,    \* the notification_outbox table, by dedupe key
    copies,    \* messages that left for the user, per outbox row
    job,       \* the job_locks row of "notification-monitor"; an owner whose
               \* lock is over counts for nothing and is not kept
    mon,       \* monitor threads
    wrk        \* delivery threads

vars == <<now, alerts, sentAt, outbox, copies, job, mon, wrk>>

Time == 0..MaxTime
Window == 0..(MaxTime \div Cooldown)
Key == Alert \X Window

OutboxStatus == {"absent", "pending", "sending", "sent", "failed"}
OutboxRow == [status : OutboxStatus,
              attempts : 0..MaxAttempts,
              lapsed : BOOLEAN]          \* locked_until <= now()

Candidate == [alert : Alert, last : Time \cup {None}]
MonThread == [pc : {"idle", "locked", "cycle"},
              todo : SUBSET Candidate,
              overran : BOOLEAN]         \* still running past the lock's end
WrkThread == [pc : {"idle", "claimed", "sent", "recorded", "failed"},
              key : Key \cup {None},
              attempts : 0..MaxAttempts]

NoRow == [status |-> "absent", attempts |-> 0, lapsed |-> FALSE]
FreeLock == [owner |-> None, lapsed |-> TRUE]
IdleMon == [pc |-> "idle", todo |-> {}, overran |-> FALSE]
IdleWrk == [pc |-> "idle", key |-> None, attempts |-> 0]

Init ==
    /\ now = 0
    /\ alerts = Alert
    /\ sentAt = [a \in Alert |-> None]
    /\ outbox = [k \in Key |-> NoRow]
    /\ copies = [k \in Key |-> 0]
    /\ job = FreeLock
    /\ mon = [r \in Monitor |-> IdleMon]
    /\ wrk = [r \in Worker |-> IdleWrk]

-----------------------------------------------------------------------------
(* The monitor: ReverseProfitMonitor under JobLockService *)

\* tryAcquire: the row is new, its lock is over, or this process owns it.
AcquireMonitorLock(r) ==
    /\ mon[r].pc = "idle"
    /\ job.lapsed \/ job.owner = r
    /\ job' = [owner |-> r, lapsed |-> FALSE]
    /\ mon' = [mon EXCEPT ![r] = [pc |-> "locked", todo |-> {}, overran |-> FALSE]]
    /\ UNCHANGED <<now, alerts, sentAt, outbox, copies, wrk>>

\* findNotificationCandidates: the rules with the last delivery of each.
ReadCandidates(r) ==
    /\ mon[r].pc = "locked"
    /\ mon' = [mon EXCEPT ![r] =
                 [pc |-> "cycle", todo |-> {[alert |-> a, last |-> sentAt[a]] : a \in alerts},
                  overran |-> mon[r].overran]]
    /\ UNCHANGED <<now, alerts, sentAt, outbox, copies, job, wrk>>

CooldownElapsed(last) == last = None \/ last + Cooldown < now

DedupeKey(a) == <<a, now \div Cooldown>>

NewNotification == [status |-> "pending", attempts |-> 0, lapsed |-> FALSE]

\* enqueue: ON CONFLICT (dedupe_key) DO NOTHING.
Enqueue(a) ==
    outbox' = IF outbox[DedupeKey(a)].status = "absent"
              THEN [outbox EXCEPT ![DedupeKey(a)] = NewNotification]
              ELSE outbox

DoneWith(r, c) ==
    mon' = [mon EXCEPT ![r] = [pc |-> "cycle", todo |-> mon[r].todo \ {c},
                               overran |-> mon[r].overran]]

\* One candidate whose target rate is reached, by the prices of this cycle.
Reached(r, c) ==
    /\ mon[r].pc = "cycle" /\ c \in mon[r].todo
    /\ IF CooldownElapsed(c.last) THEN Enqueue(c.alert) ELSE UNCHANGED outbox
    /\ DoneWith(r, c)
    /\ UNCHANGED <<now, alerts, sentAt, copies, job, wrk>>

NotReached(r, c) ==
    /\ mon[r].pc = "cycle" /\ c \in mon[r].todo
    /\ DoneWith(r, c)
    /\ UNCHANGED <<now, alerts, sentAt, outbox, copies, job, wrk>>

\* Mutant: WHERE lock_name = ?, without AND owner_id = ?.
ReleaseAnyones(r) == job' = FreeLock

Release(r) == job' = IF job.owner = r THEN FreeLock ELSE job

\* The cycle is over, or an exception ended it; the release itself may fail.
EndCycle(r) ==
    /\ mon[r].pc # "idle"
    /\ Release(r) \/ UNCHANGED job
    /\ mon' = [mon EXCEPT ![r] = IdleMon]
    /\ UNCHANGED <<now, alerts, sentAt, outbox, copies, wrk>>

\* The cycle outlasts the lock's time to live.
JobLockLapses ==
    /\ ~job.lapsed
    /\ job' = FreeLock
    /\ mon' = [r \in Monitor |->
                 IF r = job.owner /\ mon[r].pc # "idle"
                 THEN [pc |-> mon[r].pc, todo |-> mon[r].todo, overran |-> TRUE]
                 ELSE mon[r]]
    /\ UNCHANGED <<now, alerts, sentAt, outbox, copies, wrk>>

-----------------------------------------------------------------------------
(* The delivery workers: NotificationOutboxWorker *)

Unleased(row) == row.status = "pending" \/ (row.status = "sending" /\ row.lapsed)

\* Mutant: only 'pending' rows are given up.
ExhaustedPending(row) == row.status = "pending" /\ row.attempts >= MaxAttempts

Exhausted(row) == Unleased(row) /\ row.attempts >= MaxAttempts

GivenUp(row) == [status |-> "failed", attempts |-> row.attempts, lapsed |-> FALSE]

\* The first statement of every pass.
MarkExhaustedPending ==
    /\ \E k \in Key : Exhausted(outbox[k])
    /\ outbox' = [k \in Key |->
                    IF Exhausted(outbox[k]) THEN GivenUp(outbox[k]) ELSE outbox[k]]
    /\ UNCHANGED <<now, alerts, sentAt, copies, job, mon, wrk>>

MayClaim(row) == Unleased(row) /\ row.attempts < MaxAttempts

\* Mutant: a row taken over from a lost lease keeps its count.
UncountedLease(row) ==
    [status |-> "sending", lapsed |-> FALSE,
     attempts |-> IF row.status = "sending" THEN row.attempts ELSE row.attempts + 1]

LeasedNotification(row) ==
    [status |-> "sending", attempts |-> row.attempts + 1, lapsed |-> FALSE]

WrkBecomes(r, pc) ==
    wrk' = [wrk EXCEPT ![r] = [pc |-> pc, key |-> wrk[r].key, attempts |-> wrk[r].attempts]]

\* claimPending(1, ...)
ClaimPending(r, k) ==
    /\ wrk[r].pc = "idle"
    /\ MayClaim(outbox[k])
    /\ outbox' = [outbox EXCEPT ![k] = LeasedNotification(outbox[k])]
    /\ wrk' = [wrk EXCEPT ![r] = [pc |-> "claimed", key |-> k,
                                  attempts |-> outbox[k].attempts + 1]]
    /\ UNCHANGED <<now, alerts, sentAt, copies, job, mon>>

MessageLeaves(k) == copies' = [copies EXCEPT ![k] = copies[k] + 1]

SendSucceeds(r) ==
    /\ wrk[r].pc = "claimed"
    /\ MessageLeaves(wrk[r].key)
    /\ WrkBecomes(r, "sent")
    /\ UNCHANGED <<now, alerts, sentAt, outbox, job, mon>>

\* Refused, unreachable or timed out: the message may have left all the same.
SendFails(r) ==
    /\ wrk[r].pc = "claimed"
    /\ MessageLeaves(wrk[r].key) \/ UNCHANGED copies
    /\ WrkBecomes(r, "failed")
    /\ UNCHANGED <<now, alerts, sentAt, outbox, job, mon>>

AlertOf(k) == k[1]

\* saveDelivery(sent): the record, then markTriggered, which may fail on its own.
SaveDelivery(r) ==
    LET a == AlertOf(wrk[r].key) IN
    /\ wrk[r].pc = "sent"
    /\ a \in alerts
    /\ sentAt' = [sentAt EXCEPT ![a] = now]
    /\ WrkBecomes(r, "recorded") \/ WrkBecomes(r, "failed")
    /\ UNCHANGED <<now, alerts, outbox, copies, job, mon>>

\* The foreign key of a deleted rule, or any database error: caught by deliver.
SaveDeliveryFails(r) ==
    /\ wrk[r].pc = "sent"
    /\ WrkBecomes(r, "failed")
    /\ UNCHANGED <<now, alerts, sentAt, outbox, copies, job, mon>>

\* Mutant: markSent ahead of saveDelivery.
MarkSentFirst(r) ==
    LET k == wrk[r].key IN
    /\ wrk[r].pc \in {"sent", "recorded"}
    /\ outbox' = [outbox EXCEPT ![k] = [status |-> "sent", attempts |-> outbox[k].attempts,
                                        lapsed |-> FALSE]]
    /\ wrk' = [wrk EXCEPT ![r] = IdleWrk]
    /\ UNCHANGED <<now, alerts, sentAt, copies, job, mon>>

\* markSent: WHERE id = ?, whoever holds the lease by now.
MarkSent(r) ==
    LET k == wrk[r].key IN
    /\ wrk[r].pc = "recorded"
    /\ outbox' = [outbox EXCEPT ![k] = [status |-> "sent", attempts |-> outbox[k].attempts,
                                        lapsed |-> FALSE]]
    /\ wrk' = [wrk EXCEPT ![r] = IdleWrk]
    /\ UNCHANGED <<now, alerts, sentAt, copies, job, mon>>

FailedOutcome(attempts) == IF attempts < MaxAttempts THEN "pending" ELSE "failed"

\* markFailed: WHERE id = ?, with the attempts the item was claimed with.
MarkFailed(r) ==
    LET k == wrk[r].key IN
    /\ wrk[r].pc = "failed"
    /\ outbox' = [outbox EXCEPT ![k] = [status |-> FailedOutcome(wrk[r].attempts),
                                        attempts |-> outbox[k].attempts,
                                        lapsed |-> FALSE]]
    /\ wrk' = [wrk EXCEPT ![r] = IdleWrk]
    /\ UNCHANGED <<now, alerts, sentAt, copies, job, mon>>

LeaseLapses(k) ==
    /\ outbox[k].status = "sending" /\ ~outbox[k].lapsed
    /\ outbox' = [outbox EXCEPT ![k] = [status |-> "sending", attempts |-> outbox[k].attempts,
                                        lapsed |-> TRUE]]
    /\ UNCHANGED <<now, alerts, sentAt, copies, job, mon, wrk>>

-----------------------------------------------------------------------------
(* Users, processes, the clock *)

\* Deleting a rule deletes its delivery records (ON DELETE CASCADE).
DeleteAlert(a) ==
    /\ a \in alerts
    /\ alerts' = alerts \ {a}
    /\ sentAt' = [sentAt EXCEPT ![a] = None]
    /\ UNCHANGED <<now, outbox, copies, job, mon, wrk>>

\* A process dies and another takes its place, under a new lock owner id.
RestartMonitor(r) ==
    /\ mon[r].pc # "idle"
    /\ mon' = [mon EXCEPT ![r] = IdleMon]
    /\ job' = IF job.owner = r THEN [owner |-> None, lapsed |-> FALSE] ELSE job
    /\ UNCHANGED <<now, alerts, sentAt, outbox, copies, wrk>>

RestartWorker(r) ==
    /\ wrk[r].pc # "idle"
    /\ wrk' = [wrk EXCEPT ![r] = IdleWrk]
    /\ UNCHANGED <<now, alerts, sentAt, outbox, copies, job, mon>>

Tick ==
    /\ now < MaxTime
    /\ now' = now + 1
    /\ UNCHANGED <<alerts, sentAt, outbox, copies, job, mon, wrk>>

-----------------------------------------------------------------------------
Monitoring(r) ==
    \/ AcquireMonitorLock(r) \/ ReadCandidates(r) \/ EndCycle(r)
    \/ \E c \in mon[r].todo : Reached(r, c) \/ NotReached(r, c)

Delivering(r) ==
    \/ SendSucceeds(r) \/ SendFails(r)
    \/ SaveDelivery(r) \/ SaveDeliveryFails(r)
    \/ MarkSent(r) \/ MarkFailed(r)

Next ==
    \/ \E r \in Monitor : Monitoring(r) \/ RestartMonitor(r)
    \/ \E r \in Worker : Delivering(r) \/ RestartWorker(r)
    \/ \E r \in Worker, k \in Key : ClaimPending(r, k)
    \/ \E k \in Key : LeaseLapses(k)
    \/ \E a \in Alert : DeleteAlert(a)
    \/ MarkExhaustedPending
    \/ JobLockLapses
    \/ Tick

Spec == Init /\ [][Next]_vars

\* The delivery job runs every few seconds in every replica and a claimed item is
\* worked off; a lease runs out; the queue, oldest first, reaches every due row.
Fairness ==
    /\ WF_vars(MarkExhaustedPending)
    /\ \A r \in Worker : WF_vars(Delivering(r))
    /\ \A k \in Key :
        /\ WF_vars(LeaseLapses(k))
        /\ SF_vars(\E r \in Worker : ClaimPending(r, k))

FairSpec == Spec /\ Fairness

-----------------------------------------------------------------------------
(* Properties *)

\* Types: rows, threads and the clock stay in their domains, and no row is
\* claimed more often than outbox-max-attempts allows.
TypeOK ==
    /\ now \in Time
    /\ alerts \subseteq Alert
    /\ sentAt \in [Alert -> Time \cup {None}]
    /\ outbox \in [Key -> OutboxRow]
    /\ copies \in [Key -> Nat]
    /\ job \in [owner : Monitor \cup {None}, lapsed : BOOLEAN]
    /\ mon \in [Monitor -> MonThread]
    /\ wrk \in [Worker -> WrkThread]

\* Two replicas run the monitor cycle at once only when one of them has outlasted
\* its lock: a late release never frees a lock another process took meanwhile
\* (JobLockService.tryAcquire, release).
MonitorsDoNotOverlap ==
    \A r, s \in Monitor :
        mon[r].pc # "idle" /\ mon[s].pc # "idle" /\ r # s =>
            mon[r].overran \/ mon[s].overran

\* The user gets at most outbox-max-attempts copies of one notification, one per
\* attempt counted in its row, with leases taken over, crashes, timeouts of
\* messages that left, and deliveries whose record cannot be saved.
CopiesWithinAttempts ==
    \A k \in Key : copies[k] <= outbox[k].attempts /\ copies[k] <= MaxAttempts

\* A notification shown as sent has left for the user at least once, also after a
\* worker that lost its lease wrote its outcome over another's.
SentHasLeft ==
    \A k \in Key : outbox[k].status = "sent" => copies[k] > 0

\* A sent notification of a rule that still exists has a delivery record of its
\* window or later: the next cycle's cooldown counts from it, even if a process
\* died between the two statements.
SentIsRecorded ==
    \A k \in Key :
        outbox[k].status = "sent" /\ AlertOf(k) \in alerts =>
            sentAt[AlertOf(k)] # None /\ sentAt[AlertOf(k)] >= k[2] * Cooldown

\* Every queued notification is sent or given up in the end, with crashes, lost
\* leases and failing services (the retry limit is the dead-letter rule).
NotificationsSettle ==
    \A k \in Key :
        outbox[k].status \in {"pending", "sending"} ~> outbox[k].status \in {"sent", "failed"}

\* "Avoid sending duplicate alerts inside the cooldown window": no notification of
\* an alert is queued while another one of it waits to be sent, or within the
\* cooldown of the last one that was.
CooldownRespected ==
    [][\A a \in Alert, w \in Window :
         outbox[<<a, w>>].status = "absent" /\ outbox'[<<a, w>>].status = "pending" =>
             /\ \A v \in Window : outbox[<<a, v>>].status \notin {"pending", "sending"}
             /\ sentAt[a] = None \/ sentAt[a] + Cooldown <= now]_vars
=============================================================================
