------------------------- MODULE Notifications_proofs -------------------------
(***************************************************************************)
(* Proofs about Notifications, for any number of alerts, monitors and      *)
(* workers and any bounds.  One inductive invariant per question:          *)
(* TypeInv, LockInv (who runs under the job lock), CopyInv (what an        *)
(* attempt may still send) and RecordInv (what a message that left         *)
(* implies).                                                               *)
(***************************************************************************)
EXTENDS Notifications, FiniteSetTheorems, TLAPS

-----------------------------------------------------------------------------
(* Types *)

LEMMA ZeroFacts == 0 \in Time /\ 0 \in 0..MaxAttempts /\ 0 \in Nat
BY TimeAssumption, MaxAttemptsAssumption DEF Time

LEMMA RowTypes ==
    /\ NoRow \in OutboxRow /\ NewNotification \in OutboxRow
    /\ IdleMon \in MonThread /\ IdleWrk \in WrkThread
    /\ FreeLock \in [owner : Monitor \cup {None}, lapsed : BOOLEAN]
BY ZeroFacts DEF NoRow, NewNotification, OutboxRow, OutboxStatus, IdleMon, MonThread,
    IdleWrk, WrkThread, FreeLock

\* The key of a worker that is not idle.
BusyHasKey == \A r \in Worker : wrk[r].pc # "idle" => wrk[r].key \in Key

TypeInv == TypeOK /\ BusyHasKey

LEMMA InitType == Init => TypeInv
BY RowTypes, ZeroFacts DEF Init, TypeInv, TypeOK, BusyHasKey, IdleWrk

LEMMA DedupeKeyType == ASSUME now \in Time, NEW a \in Alert PROVE DedupeKey(a) \in Key
<1>1. now \div Cooldown \in 0..(MaxTime \div Cooldown)
  BY CooldownAssumption, TimeAssumption DEF Time
<1> QED BY <1>1 DEF DedupeKey, Key, Window

LEMMA MonitorStepType ==
    ASSUME TypeInv, NEW r \in Monitor,
           \/ AcquireMonitorLock(r) \/ ReadCandidates(r) \/ EndCycle(r) \/ RestartMonitor(r)
           \/ \E c \in mon[r].todo : NotReached(r, c)
    PROVE TypeInv'
<1>1. mon[r] \in MonThread
  BY DEF TypeInv, TypeOK
<1>2. mon' \in [Monitor -> MonThread]
  <2>1. CASE AcquireMonitorLock(r)
    BY <2>1 DEF AcquireMonitorLock, TypeInv, TypeOK, MonThread
  <2>2. CASE ReadCandidates(r)
    <3>1. {[alert |-> a, last |-> sentAt[a]] : a \in alerts} \subseteq Candidate
      BY DEF TypeInv, TypeOK, Candidate
    <3>2. [pc |-> "cycle", todo |-> {[alert |-> a, last |-> sentAt[a]] : a \in alerts},
           overran |-> mon[r].overran] \in MonThread
      BY <3>1, <1>1 DEF MonThread
    <3> QED BY <2>2, <3>2 DEF ReadCandidates, TypeInv, TypeOK
  <2>3. CASE EndCycle(r) \/ RestartMonitor(r)
    BY <2>3, RowTypes DEF EndCycle, RestartMonitor, TypeInv, TypeOK
  <2>4. CASE \E c \in mon[r].todo : NotReached(r, c)
    BY <2>4, <1>1 DEF NotReached, DoneWith, MonThread, TypeInv, TypeOK
  <2> QED BY <2>1, <2>2, <2>3, <2>4
<1>3. job' \in [owner : Monitor \cup {None}, lapsed : BOOLEAN]
  <2>1. \/ job' = job \/ job' = FreeLock
        \/ job' = [owner |-> r, lapsed |-> FALSE] \/ job' = [owner |-> None, lapsed |-> FALSE]
    BY DEF AcquireMonitorLock, ReadCandidates, EndCycle, Release, RestartMonitor, NotReached
  <2>2. /\ job \in [owner : Monitor \cup {None}, lapsed : BOOLEAN]
        /\ FreeLock \in [owner : Monitor \cup {None}, lapsed : BOOLEAN]
        /\ \A o \in Monitor \cup {None} :
             [owner |-> o, lapsed |-> FALSE] \in [owner : Monitor \cup {None}, lapsed : BOOLEAN]
    BY RowTypes DEF TypeInv, TypeOK
  <2> QED BY <2>1, <2>2
<1>4. UNCHANGED <<now, alerts, sentAt, outbox, copies, wrk>>
  BY DEF AcquireMonitorLock, ReadCandidates, EndCycle, RestartMonitor, NotReached
<1> QED BY <1>2, <1>3, <1>4 DEF TypeInv, TypeOK, BusyHasKey

LEMMA ReachedType ==
    ASSUME TypeInv, NEW r \in Monitor, NEW c \in mon[r].todo, Reached(r, c)
    PROVE TypeInv'
<1>1. mon[r] \in MonThread
  BY DEF TypeInv, TypeOK
<1>2. mon' \in [Monitor -> MonThread]
  BY <1>1 DEF Reached, DoneWith, MonThread, TypeInv, TypeOK
<1>3. c.alert \in Alert
  BY <1>1 DEF MonThread, Candidate
<1>4. outbox' \in [Key -> OutboxRow]
  BY <1>3, DedupeKeyType, RowTypes DEF Reached, Enqueue, TypeInv, TypeOK
<1> QED BY <1>2, <1>4 DEF Reached, TypeInv, TypeOK, BusyHasKey

LEMMA JobLockLapsesType == ASSUME TypeInv, JobLockLapses PROVE TypeInv'
<1>1. mon' \in [Monitor -> MonThread]
  BY DEF JobLockLapses, MonThread, TypeInv, TypeOK
<1> QED BY <1>1, RowTypes DEF JobLockLapses, TypeInv, TypeOK, BusyHasKey

LEMMA ClaimType ==
    ASSUME TypeInv, NEW r \in Worker, NEW k \in Key, ClaimPending(r, k)
    PROVE TypeInv'
<1>1. outbox[k] \in OutboxRow
  BY DEF TypeInv, TypeOK
<1>2. outbox[k].attempts + 1 \in 0..MaxAttempts
  BY <1>1, MaxAttemptsAssumption DEF ClaimPending, MayClaim, OutboxRow
<1>3. LeasedNotification(outbox[k]) \in OutboxRow
  BY <1>2 DEF LeasedNotification, OutboxRow, OutboxStatus
<1>4. [pc |-> "claimed", key |-> k, attempts |-> outbox[k].attempts + 1] \in WrkThread
  BY <1>2 DEF WrkThread
<1> QED BY <1>3, <1>4 DEF ClaimPending, TypeInv, TypeOK, BusyHasKey

LEMMA DeliveringType ==
    ASSUME TypeInv, NEW r \in Worker, Delivering(r) \/ RestartWorker(r)
    PROVE TypeInv'
<1> DEFINE k == wrk[r].key
<1>1. wrk[r] \in WrkThread /\ k \in Key
  BY DEF TypeInv, TypeOK, BusyHasKey, Delivering, RestartWorker, SendSucceeds, SendFails,
      SaveDelivery, SaveDeliveryFails, MarkSent, MarkFailed
<1>2. outbox[k] \in OutboxRow /\ AlertOf(k) \in Alert
  BY <1>1 DEF TypeInv, TypeOK, AlertOf, Key
<1>3. wrk' \in [Worker -> WrkThread] /\ BusyHasKey'
  <2>1. \A pc \in {"sent", "recorded", "failed"} :
          [pc |-> pc, key |-> k, attempts |-> wrk[r].attempts] \in WrkThread
    BY <1>1 DEF WrkThread
  <2>2. \/ wrk' = [wrk EXCEPT ![r] = IdleWrk]
        \/ \E pc \in {"sent", "recorded", "failed"} :
             wrk' = [wrk EXCEPT ![r] = [pc |-> pc, key |-> k, attempts |-> wrk[r].attempts]]
    BY DEF Delivering, RestartWorker, SendSucceeds, SendFails, SaveDelivery,
        SaveDeliveryFails, MarkSent, MarkFailed, WrkBecomes
  <2> QED BY <1>1, <2>1, <2>2, RowTypes DEF TypeInv, TypeOK, BusyHasKey, IdleWrk
<1>4. outbox' \in [Key -> OutboxRow]
  <2>1. \A s \in OutboxStatus :
          [status |-> s, attempts |-> outbox[k].attempts, lapsed |-> FALSE] \in OutboxRow
    BY <1>2 DEF OutboxRow
  <2>2. \/ UNCHANGED outbox
        \/ \E s \in OutboxStatus :
             outbox' = [outbox EXCEPT ![k] =
                          [status |-> s, attempts |-> outbox[k].attempts, lapsed |-> FALSE]]
    BY DEF Delivering, RestartWorker, SendSucceeds, SendFails, SaveDelivery,
        SaveDeliveryFails, MarkSent, MarkFailed, FailedOutcome, OutboxStatus
  <2> QED BY <1>1, <2>1, <2>2 DEF TypeInv, TypeOK
<1>5. copies' \in [Key -> Nat]
  BY <1>1 DEF Delivering, RestartWorker, SendSucceeds, SendFails, MessageLeaves, SaveDelivery,
      SaveDeliveryFails, MarkSent, MarkFailed, TypeInv, TypeOK
<1>6. sentAt' \in [Alert -> Time \cup {None}]
  BY <1>2 DEF Delivering, RestartWorker, SendSucceeds, SendFails, SaveDelivery,
      SaveDeliveryFails, MarkSent, MarkFailed, TypeInv, TypeOK
<1>7. UNCHANGED <<now, alerts, job, mon>>
  BY DEF Delivering, RestartWorker, SendSucceeds, SendFails, SaveDelivery,
      SaveDeliveryFails, MarkSent, MarkFailed
<1> QED BY <1>3, <1>4, <1>5, <1>6, <1>7 DEF TypeInv, TypeOK

LEMMA OutboxSweepType ==
    ASSUME TypeInv, MarkExhaustedPending \/ \E k \in Key : LeaseLapses(k)
    PROVE TypeInv'
<1>1. outbox' \in [Key -> OutboxRow]
  <2>1. CASE MarkExhaustedPending
    BY <2>1 DEF MarkExhaustedPending, GivenUp, OutboxRow, OutboxStatus, TypeInv, TypeOK
  <2>2. CASE \E k \in Key : LeaseLapses(k)
    BY <2>2 DEF LeaseLapses, OutboxRow, OutboxStatus, TypeInv, TypeOK
  <2> QED BY <2>1, <2>2
<1>2. UNCHANGED <<now, alerts, sentAt, copies, job, mon, wrk>>
  BY DEF MarkExhaustedPending, LeaseLapses
<1> QED BY <1>1, <1>2 DEF TypeInv, TypeOK, BusyHasKey

LEMMA DeleteOrTickType ==
    ASSUME TypeInv, Tick \/ \E a \in Alert : DeleteAlert(a)
    PROVE TypeInv'
<1>1. CASE Tick
  BY <1>1, TimeAssumption DEF Tick, Time, TypeInv, TypeOK, BusyHasKey
<1>2. CASE \E a \in Alert : DeleteAlert(a)
  BY <1>2 DEF DeleteAlert, TypeInv, TypeOK, BusyHasKey
<1> QED BY <1>1, <1>2

LEMMA NextType == TypeInv /\ [Next]_vars => TypeInv'
<1> SUFFICES ASSUME TypeInv, [Next]_vars PROVE TypeInv'
  OBVIOUS
<1>1. CASE UNCHANGED vars
  BY <1>1 DEF vars, TypeInv, TypeOK, BusyHasKey
<1>2. ASSUME NEW r \in Monitor, Monitoring(r) \/ RestartMonitor(r) PROVE TypeInv'
  BY <1>2, MonitorStepType, ReachedType DEF Monitoring
<1>3. ASSUME NEW r \in Worker, Delivering(r) \/ RestartWorker(r) PROVE TypeInv'
  BY <1>3, DeliveringType
<1>4. ASSUME NEW r \in Worker, NEW k \in Key, ClaimPending(r, k) PROVE TypeInv'
  BY <1>4, ClaimType
<1> QED
  BY <1>1, <1>2, <1>3, <1>4, OutboxSweepType, DeleteOrTickType, JobLockLapsesType DEF Next

\* Rows, threads and the clock keep their types, and no row is claimed more often
\* than outbox-max-attempts (NotificationOutboxRepository.claimPending).
THEOREM NotificationTypes == Spec => []TypeOK
<1>1. Spec => []TypeInv
  BY InitType, NextType, PTL DEF Spec
<1> QED BY <1>1, PTL DEF TypeInv

-----------------------------------------------------------------------------
(* The job lock *)

\* A cycle that has not outlasted its lock runs under its own name.
LockInv ==
    /\ job.lapsed => job.owner = None
    /\ \A r \in Monitor : mon[r].pc # "idle" /\ ~mon[r].overran => job.owner = r

LEMMA MonitoringLock ==
    ASSUME TypeInv, LockInv, NEW r \in Monitor, Monitoring(r) \/ RestartMonitor(r)
    PROVE LockInv'
<1> USE DEF TypeInv, TypeOK, LockInv
<1>1. CASE AcquireMonitorLock(r)
  BY <1>1, NoneAssumption DEF AcquireMonitorLock
<1>2. CASE ReadCandidates(r)
  BY <1>2 DEF ReadCandidates
<1>3. ASSUME NEW c \in mon[r].todo, Reached(r, c) \/ NotReached(r, c) PROVE LockInv'
  <2>1. UNCHANGED job /\ mon[r].pc = "cycle"
    BY <1>3 DEF Reached, NotReached
  <2>2. mon' = [mon EXCEPT ![r] = [pc |-> "cycle", todo |-> mon[r].todo \ {c},
                                   overran |-> mon[r].overran]]
    BY <1>3 DEF Reached, NotReached, DoneWith
  <2> QED BY <2>1, <2>2
<1>4. CASE EndCycle(r)
  BY <1>4, NoneAssumption DEF EndCycle, Release, FreeLock, IdleMon
<1>5. CASE RestartMonitor(r)
  BY <1>5, NoneAssumption DEF RestartMonitor, IdleMon
<1> QED BY <1>1, <1>2, <1>3, <1>4, <1>5 DEF Monitoring

LEMMA NextLock == TypeInv /\ LockInv /\ [Next]_vars => LockInv'
<1> SUFFICES ASSUME TypeInv, LockInv, [Next]_vars PROVE LockInv'
  OBVIOUS
<1>1. CASE UNCHANGED <<job, mon>>
  BY <1>1 DEF LockInv
<1>2. ASSUME NEW r \in Monitor, Monitoring(r) \/ RestartMonitor(r) PROVE LockInv'
  BY <1>2, MonitoringLock
<1>3. CASE JobLockLapses
  BY <1>3 DEF JobLockLapses, FreeLock, LockInv, TypeInv, TypeOK
<1>4. ASSUME NEW r \in Worker, Delivering(r) \/ RestartWorker(r) PROVE UNCHANGED <<job, mon>>
  BY <1>4 DEF Delivering, RestartWorker, SendSucceeds, SendFails, SaveDelivery,
      SaveDeliveryFails, MarkSent, MarkFailed
<1> QED
  BY <1>1, <1>2, <1>3, <1>4 DEF Next, vars, ClaimPending, LeaseLapses, DeleteAlert,
      MarkExhaustedPending, Tick

\* Two cycles overlap only when one has outlasted its lock: neither a late release
\* nor a restart frees another process's lock (JobLockService).
THEOREM MonitorsTakeTurns == Spec => []MonitorsDoNotOverlap
<1>1. Init => LockInv
  BY DEF Init, LockInv, FreeLock, IdleMon
<1>2. LockInv => MonitorsDoNotOverlap
  BY DEF LockInv, MonitorsDoNotOverlap
<1> QED BY <1>1, <1>2, InitType, NextType, NextLock, PTL DEF Spec

-----------------------------------------------------------------------------
(* Copies *)

Claimants(k) == {r \in Worker : wrk[r].pc = "claimed" /\ wrk[r].key = k}

\* Every attempt counted in a row has sent its copy, may still send it, or sent none.
CopyInv ==
    \A k \in Key :
        /\ outbox[k].status = "absent" => outbox[k].attempts = 0
        /\ copies[k] + Cardinality(Claimants(k)) <= outbox[k].attempts

LEMMA ClaimantsFinite ==
    ASSUME NEW k \in Key
    PROVE IsFiniteSet(Claimants(k)) /\ Cardinality(Claimants(k)) \in Nat
BY WorkerAssumption, FS_Subset, FS_CardinalityType DEF Claimants

LEMMA CopiesStay ==
    ASSUME TypeInv, CopyInv, UNCHANGED copies,
           \A k \in Key : /\ Claimants(k)' \subseteq Claimants(k)
                          /\ outbox'[k].attempts = outbox[k].attempts
                          /\ outbox'[k].status = "absent" => outbox[k].status = "absent"
    PROVE CopyInv'
<1> SUFFICES ASSUME NEW k \in Key
             PROVE /\ outbox'[k].status = "absent" => outbox'[k].attempts = 0
                   /\ copies'[k] + Cardinality(Claimants(k)') <= outbox'[k].attempts
  BY DEF CopyInv
<1>1. /\ Cardinality(Claimants(k)') \in Nat /\ Cardinality(Claimants(k)) \in Nat
      /\ Cardinality(Claimants(k)') <= Cardinality(Claimants(k))
  BY ClaimantsFinite, FS_Subset, FS_CardinalityType
<1>2. copies[k] \in Nat /\ outbox[k].attempts \in Nat
  BY DEF TypeInv, TypeOK, OutboxRow
<1> QED BY <1>1, <1>2 DEF CopyInv

LEMMA CopiesOfClaim ==
    ASSUME TypeInv, CopyInv, NEW r \in Worker, NEW j \in Key, ClaimPending(r, j)
    PROVE CopyInv'
<1> SUFFICES ASSUME NEW k \in Key
             PROVE /\ outbox'[k].status = "absent" => outbox'[k].attempts = 0
                   /\ copies'[k] + Cardinality(Claimants(k)') <= outbox'[k].attempts
  BY DEF CopyInv
<1>1. copies[k] \in Nat /\ outbox[k].attempts \in Nat
  BY DEF TypeInv, TypeOK, OutboxRow
<1>2. CASE k = j
  <2>1. r \notin Claimants(k) /\ Claimants(k)' = Claimants(k) \cup {r}
    BY <1>2 DEF Claimants, ClaimPending, TypeInv, TypeOK
  <2>2. Cardinality(Claimants(k)') = Cardinality(Claimants(k)) + 1
    BY <2>1, ClaimantsFinite, FS_AddElement
  <2>3. outbox'[k].attempts = outbox[k].attempts + 1 /\ outbox'[k].status = "sending"
    BY <1>2 DEF ClaimPending, LeasedNotification, TypeInv, TypeOK
  <2>4. copies'[k] = copies[k]
    BY DEF ClaimPending
  <2> QED BY <1>1, <2>2, <2>3, <2>4, ClaimantsFinite DEF CopyInv
<1>3. CASE k # j
  <2>1. Claimants(k)' = Claimants(k)
    BY <1>3 DEF Claimants, ClaimPending, TypeInv, TypeOK
  <2>2. outbox'[k] = outbox[k] /\ copies'[k] = copies[k]
    BY <1>3 DEF ClaimPending, TypeInv, TypeOK
  <2> QED BY <2>1, <2>2 DEF CopyInv
<1> QED BY <1>2, <1>3

LEMMA CopiesOfSend ==
    ASSUME TypeInv, CopyInv, NEW r \in Worker, SendSucceeds(r) \/ SendFails(r)
    PROVE CopyInv'
<1> DEFINE j == wrk[r].key
<1>1. j \in Key /\ wrk[r].pc = "claimed" /\ UNCHANGED outbox
  BY DEF TypeInv, BusyHasKey, SendSucceeds, SendFails
<1>2. \A k \in Key : copies'[k] = copies[k] \/ (k = j /\ copies'[k] = copies[k] + 1)
  BY <1>1 DEF SendSucceeds, SendFails, MessageLeaves, TypeInv, TypeOK
<1>3. PICK pc \in {"sent", "failed"} :
        wrk' = [wrk EXCEPT ![r] = [pc |-> pc, key |-> wrk[r].key, attempts |-> wrk[r].attempts]]
  BY DEF SendSucceeds, SendFails, WrkBecomes
<1> SUFFICES ASSUME NEW k \in Key
             PROVE copies'[k] + Cardinality(Claimants(k)') <= outbox[k].attempts
  BY <1>1 DEF CopyInv
<1>4. copies[k] \in Nat /\ outbox[k].attempts \in Nat
  BY DEF TypeInv, TypeOK, OutboxRow
<1>5. CASE k = j
  <2>1. r \in Claimants(k) /\ Claimants(k)' = Claimants(k) \ {r}
    BY <1>1, <1>3, <1>5 DEF Claimants, TypeInv, TypeOK
  <2>2. Cardinality(Claimants(k)') = Cardinality(Claimants(k)) - 1
    BY <2>1, ClaimantsFinite, FS_RemoveElement
  <2> QED BY <1>2, <1>4, <2>2, ClaimantsFinite DEF CopyInv
<1>6. CASE k # j
  <2>1. Claimants(k)' = Claimants(k)
    BY <1>3, <1>6 DEF Claimants, TypeInv, TypeOK
  <2> QED BY <1>2, <1>6, <2>1 DEF CopyInv
<1> QED BY <1>5, <1>6

LEMMA CopiesOfEnqueue ==
    ASSUME TypeInv, CopyInv, NEW r \in Monitor, NEW c \in mon[r].todo, Reached(r, c)
    PROVE CopyInv'
<1>1. mon[r] \in MonThread
  BY DEF TypeInv, TypeOK
<1>2. DedupeKey(c.alert) \in Key
  BY <1>1, DedupeKeyType DEF MonThread, Candidate, TypeInv, TypeOK
<1>3. UNCHANGED <<copies, wrk>>
  BY DEF Reached
<1>4. \A k \in Key : Claimants(k)' \subseteq Claimants(k)
  BY <1>3 DEF Claimants
<1>5. \A k \in Key : /\ outbox'[k].attempts = outbox[k].attempts
                     /\ outbox'[k].status = "absent" => outbox[k].status = "absent"
  <2>1. \/ UNCHANGED outbox
        \/ /\ outbox' = [outbox EXCEPT ![DedupeKey(c.alert)] = NewNotification]
           /\ outbox[DedupeKey(c.alert)].attempts = 0
    BY <1>2 DEF Reached, Enqueue, CopyInv
  <2> QED BY <1>2, <2>1 DEF NewNotification, TypeInv, TypeOK
<1> QED BY <1>3, <1>4, <1>5, CopiesStay

LEMMA CopiesOfOutcome ==
    ASSUME TypeInv, CopyInv, NEW r \in Worker,
           \/ SaveDelivery(r) \/ SaveDeliveryFails(r) \/ MarkSent(r) \/ MarkFailed(r)
           \/ RestartWorker(r)
    PROVE CopyInv'
<1> DEFINE j == wrk[r].key
<1>1. j \in Key /\ UNCHANGED copies
  BY DEF TypeInv, BusyHasKey, SaveDelivery, SaveDeliveryFails, MarkSent, MarkFailed,
      RestartWorker
<1>2. \/ wrk' = [wrk EXCEPT ![r] = IdleWrk]
      \/ \E pc \in {"recorded", "failed"} :
           wrk' = [wrk EXCEPT ![r] = [pc |-> pc, key |-> wrk[r].key,
                                      attempts |-> wrk[r].attempts]]
  BY DEF SaveDelivery, SaveDeliveryFails, MarkSent, MarkFailed, RestartWorker, WrkBecomes
<1>3. \A k \in Key : Claimants(k)' \subseteq Claimants(k)
  BY <1>2 DEF Claimants, IdleWrk, TypeInv, TypeOK
<1>4. \/ UNCHANGED outbox
      \/ \E s \in {"sent", "pending", "failed"} :
           outbox' = [outbox EXCEPT ![j] =
                        [status |-> s, attempts |-> outbox[j].attempts, lapsed |-> FALSE]]
  BY DEF SaveDelivery, SaveDeliveryFails, MarkSent, MarkFailed, RestartWorker, FailedOutcome
<1>5. \A k \in Key : /\ outbox'[k].attempts = outbox[k].attempts
                     /\ outbox'[k].status = "absent" => outbox[k].status = "absent"
  BY <1>1, <1>4 DEF TypeInv, TypeOK
<1> QED BY <1>1, <1>3, <1>5, CopiesStay

LEMMA CopiesOfSweep ==
    ASSUME TypeInv, CopyInv, MarkExhaustedPending \/ \E k \in Key : LeaseLapses(k)
    PROVE CopyInv'
<1>1. UNCHANGED <<copies, wrk>>
  BY DEF MarkExhaustedPending, LeaseLapses
<1>2. \A k \in Key : Claimants(k)' \subseteq Claimants(k)
  BY <1>1 DEF Claimants
<1>3. \A k \in Key : /\ outbox'[k].attempts = outbox[k].attempts
                     /\ outbox'[k].status = "absent" => outbox[k].status = "absent"
  <2>1. CASE MarkExhaustedPending
    BY <2>1 DEF MarkExhaustedPending, GivenUp, TypeInv, TypeOK
  <2>2. CASE \E k \in Key : LeaseLapses(k)
    BY <2>2 DEF LeaseLapses, TypeInv, TypeOK
  <2> QED BY <2>1, <2>2
<1> QED BY <1>1, <1>2, <1>3, CopiesStay

LEMMA CopiesElsewhere ==
    ASSUME TypeInv, CopyInv, UNCHANGED <<outbox, copies, wrk>>
    PROVE CopyInv'
<1>1. \A k \in Key : Claimants(k)' = Claimants(k)
  BY DEF Claimants
<1> QED BY <1>1 DEF CopyInv

LEMMA NextCopies == TypeInv /\ CopyInv /\ [Next]_vars => CopyInv'
<1> SUFFICES ASSUME TypeInv, CopyInv, [Next]_vars PROVE CopyInv'
  OBVIOUS
<1>1. ASSUME NEW r \in Monitor, Monitoring(r) \/ RestartMonitor(r) PROVE CopyInv'
  <2>1. \/ \E c \in mon[r].todo : Reached(r, c)
        \/ UNCHANGED <<outbox, copies, wrk>>
    BY <1>1 DEF Monitoring, AcquireMonitorLock, ReadCandidates, EndCycle, NotReached,
        RestartMonitor
  <2> QED BY <2>1, CopiesOfEnqueue, CopiesElsewhere
<1>2. ASSUME NEW r \in Worker, Delivering(r) \/ RestartWorker(r) PROVE CopyInv'
  BY <1>2, CopiesOfSend, CopiesOfOutcome DEF Delivering
<1>3. ASSUME NEW r \in Worker, NEW k \in Key, ClaimPending(r, k) PROVE CopyInv'
  BY <1>3, CopiesOfClaim
<1>4. ASSUME \/ UNCHANGED vars \/ JobLockLapses \/ Tick
             \/ \E a \in Alert : DeleteAlert(a)
      PROVE CopyInv'
  <2>1. UNCHANGED <<outbox, copies, wrk>>
    BY <1>4 DEF vars, JobLockLapses, Tick, DeleteAlert
  <2> QED BY <2>1, CopiesElsewhere
<1> QED BY <1>1, <1>2, <1>3, <1>4, CopiesOfSweep DEF Next

\* The user gets at most one copy per counted attempt, and at most
\* outbox-max-attempts of them, whatever crashes, leases and timeouts do
\* (NotificationOutboxRepository.claimPending counts before anything is sent).
THEOREM CopiesAreBounded == Spec => []CopiesWithinAttempts
<1>1. Init => CopyInv
  <2> SUFFICES ASSUME Init, NEW k \in Key
               PROVE /\ outbox[k].status = "absent" => outbox[k].attempts = 0
                     /\ copies[k] + Cardinality(Claimants(k)) <= outbox[k].attempts
    BY DEF CopyInv
  <2>1. Claimants(k) = {}
    BY DEF Init, Claimants, IdleWrk
  <2> QED BY <2>1, FS_EmptySet DEF Init, NoRow
<1>2. TypeInv /\ CopyInv => CopiesWithinAttempts
  <2> SUFFICES ASSUME TypeInv, CopyInv, NEW k \in Key
               PROVE copies[k] <= outbox[k].attempts /\ copies[k] <= MaxAttempts
    BY DEF CopiesWithinAttempts
  <2>1. copies[k] \in Nat /\ outbox[k].attempts \in 0..MaxAttempts
    BY DEF TypeInv, TypeOK, OutboxRow
  <2>2. copies[k] + Cardinality(Claimants(k)) <= outbox[k].attempts
    BY DEF CopyInv
  <2> QED BY <2>1, <2>2, ClaimantsFinite, MaxAttemptsAssumption
<1> QED BY <1>1, <1>2, InitType, NextType, NextCopies, PTL DEF Spec

-----------------------------------------------------------------------------
(* Delivery records *)

WindowStart(k) == k[2] * Cooldown

\* The rule's last delivery record is at or after the start of a notification's window.
Covered(k) ==
    AlertOf(k) \in alerts =>
        sentAt[AlertOf(k)] # None /\ sentAt[AlertOf(k)] >= WindowStart(k)

\* What a queued row, a thread that has sent and a thread that has recorded imply.
RecordInv ==
    /\ \A k \in Key : /\ outbox[k].status # "absent" => WindowStart(k) <= now
                      /\ outbox[k].status = "sent" => copies[k] > 0 /\ Covered(k)
    /\ \A r \in Worker :
        /\ wrk[r].pc # "idle" => outbox[wrk[r].key].status # "absent"
        /\ wrk[r].pc \in {"sent", "recorded"} => copies[wrk[r].key] > 0
        /\ wrk[r].pc = "recorded" => Covered(wrk[r].key)

LEMMA StartOfWindow ==
    ASSUME now \in Time, NEW a \in Alert PROVE WindowStart(DedupeKey(a)) <= now
<1>1. now \in Nat /\ Cooldown \in Nat /\ Cooldown > 0
  BY CooldownAssumption, TimeAssumption DEF Time
<1>2. (now \div Cooldown) * Cooldown <= now
  BY <1>1
<1> QED BY <1>2 DEF WindowStart, DedupeKey

LEMMA WindowStartType == \A k \in Key : WindowStart(k) \in Nat /\ AlertOf(k) \in Alert
<1> SUFFICES ASSUME NEW k \in Key PROVE WindowStart(k) \in Nat /\ AlertOf(k) \in Alert
  OBVIOUS
<1>1. k[2] \in Nat /\ k[1] \in Alert
  <2>1. MaxTime \div Cooldown \in Nat
    BY CooldownAssumption, TimeAssumption
  <2> QED BY <2>1 DEF Key, Window
<1> QED BY <1>1, CooldownAssumption DEF WindowStart, AlertOf

\* Steps of the monitor, of users and of the clock.
LEMMA RecordsOfOthers ==
    ASSUME TypeInv, RecordInv, UNCHANGED <<copies, wrk>>, now' \in Nat, now <= now',
           alerts' \subseteq alerts, \A a \in alerts' : sentAt'[a] = sentAt[a],
           \A k \in Key :
             /\ outbox'[k].status = "sent" => outbox[k].status = "sent"
             /\ outbox'[k].status = "absent" => outbox[k].status = "absent"
             /\ outbox'[k].status # "absent" => WindowStart(k) <= now
    PROVE RecordInv'
<1>1. now \in Nat
  BY TimeAssumption DEF TypeInv, TypeOK, Time
<1>2. \A k \in Key : Covered(k) => Covered(k)'
  BY WindowStartType DEF Covered
<1>3. \A k \in Key : /\ outbox'[k].status # "absent" => WindowStart(k) <= now'
                     /\ outbox'[k].status = "sent" => copies'[k] > 0 /\ Covered(k)'
  BY <1>1, <1>2, WindowStartType DEF RecordInv
<1>4. \A r \in Worker :
        /\ wrk'[r].pc # "idle" => outbox'[wrk'[r].key].status # "absent"
        /\ wrk'[r].pc \in {"sent", "recorded"} => copies'[wrk'[r].key] > 0
        /\ wrk'[r].pc = "recorded" => Covered(wrk[r].key)'
  BY <1>2 DEF RecordInv, TypeInv, BusyHasKey
<1> QED BY <1>3, <1>4 DEF RecordInv

LEMMA RecordsOfMonitor ==
    ASSUME TypeInv, RecordInv, NEW r \in Monitor, Monitoring(r) \/ RestartMonitor(r)
    PROVE RecordInv'
<1>1. UNCHANGED <<now, alerts, sentAt, copies, wrk>>
  BY DEF Monitoring, AcquireMonitorLock, ReadCandidates, Reached, NotReached, EndCycle,
      RestartMonitor
<1>2. now \in Nat
  BY TimeAssumption DEF TypeInv, TypeOK, Time
<1>3. \/ UNCHANGED outbox
      \/ \E a \in Alert : outbox' = [outbox EXCEPT ![DedupeKey(a)] = NewNotification]
  <2>1. \A c \in mon[r].todo : c.alert \in Alert
    BY DEF TypeInv, TypeOK, MonThread, Candidate
  <2> QED BY <2>1 DEF Monitoring, AcquireMonitorLock, ReadCandidates, Reached, NotReached,
      EndCycle, RestartMonitor, Enqueue
<1>4. \A a \in Alert : DedupeKey(a) \in Key /\ WindowStart(DedupeKey(a)) <= now
  BY DedupeKeyType, StartOfWindow DEF TypeInv, TypeOK
<1>5. \A k \in Key :
        /\ outbox'[k].status = "sent" => outbox[k].status = "sent"
        /\ outbox'[k].status = "absent" => outbox[k].status = "absent"
        /\ outbox'[k].status # "absent" => WindowStart(k) <= now
  BY <1>3, <1>4 DEF NewNotification, RecordInv, TypeInv, TypeOK
<1> QED BY <1>1, <1>2, <1>5, RecordsOfOthers

LEMMA RecordsOfWorld ==
    ASSUME TypeInv, RecordInv,
           \/ UNCHANGED vars \/ JobLockLapses \/ MarkExhaustedPending \/ Tick
           \/ \E k \in Key : LeaseLapses(k)
           \/ \E a \in Alert : DeleteAlert(a)
    PROVE RecordInv'
<1>1. now \in Nat /\ now' \in Nat /\ now <= now'
  BY TimeAssumption DEF TypeInv, TypeOK, Time, vars, JobLockLapses, MarkExhaustedPending,
      Tick, LeaseLapses, DeleteAlert
<1>2. UNCHANGED <<copies, wrk>>
  BY DEF vars, JobLockLapses, MarkExhaustedPending, Tick, LeaseLapses, DeleteAlert
<1>3. alerts' \subseteq alerts /\ \A a \in alerts' : sentAt'[a] = sentAt[a]
  BY DEF vars, JobLockLapses, MarkExhaustedPending, Tick, LeaseLapses, DeleteAlert,
      TypeInv, TypeOK
<1>4. \A k \in Key : /\ outbox'[k].status = "sent" => outbox[k].status = "sent"
                     /\ outbox'[k].status = "absent" <=> outbox[k].status = "absent"
  <2>1. CASE MarkExhaustedPending
    BY <2>1 DEF MarkExhaustedPending, Exhausted, Unleased, GivenUp, TypeInv, TypeOK
  <2>2. CASE \E k \in Key : LeaseLapses(k)
    BY <2>2 DEF LeaseLapses, TypeInv, TypeOK
  <2>3. CASE UNCHANGED outbox
    BY <2>3
  <2> QED BY <2>1, <2>2, <2>3 DEF vars, JobLockLapses, Tick, DeleteAlert
<1>5. \A k \in Key : outbox'[k].status # "absent" => WindowStart(k) <= now
  BY <1>4 DEF RecordInv
<1> QED BY <1>1, <1>2, <1>3, <1>4, <1>5, RecordsOfOthers

LEMMA RecordsOfClaim ==
    ASSUME TypeInv, RecordInv, NEW r \in Worker, NEW j \in Key, ClaimPending(r, j)
    PROVE RecordInv'
<1>1. UNCHANGED <<now, alerts, sentAt, copies>> /\ outbox[j].status # "absent"
  BY DEF ClaimPending, MayClaim, Unleased
<1>2. \A k \in Key : Covered(k)' <=> Covered(k)
  BY <1>1 DEF Covered
<1>3. outbox' = [outbox EXCEPT ![j] = LeasedNotification(outbox[j])]
  BY DEF ClaimPending
<1>4. \A k \in Key : outbox'[k] = outbox[k] \/ (k = j /\ outbox'[k].status = "sending")
  BY <1>3 DEF LeasedNotification, TypeInv, TypeOK
<1>5. \A s \in Worker : wrk'[s] = wrk[s] \/ (wrk'[s].pc = "claimed" /\ wrk'[s].key = j)
  BY DEF ClaimPending, TypeInv, TypeOK
<1>6. \A k \in Key : /\ outbox'[k].status # "absent" => WindowStart(k) <= now'
                     /\ outbox'[k].status = "sent" => copies'[k] > 0 /\ Covered(k)'
  BY <1>1, <1>2, <1>4 DEF RecordInv
<1>7. \A s \in Worker :
        /\ wrk'[s].pc # "idle" => outbox'[wrk'[s].key].status # "absent"
        /\ wrk'[s].pc \in {"sent", "recorded"} => copies'[wrk'[s].key] > 0
  BY <1>1, <1>4, <1>5 DEF RecordInv, TypeInv, BusyHasKey
<1>8. ASSUME NEW s \in Worker, wrk'[s].pc = "recorded" PROVE Covered(wrk[s].key)'
  BY <1>1, <1>2, <1>5, <1>8 DEF RecordInv, TypeInv, BusyHasKey, Covered
<1> QED BY <1>6, <1>7, <1>8 DEF RecordInv

LEMMA RecordsOfSend ==
    ASSUME TypeInv, RecordInv, NEW r \in Worker, SendSucceeds(r) \/ SendFails(r)
    PROVE RecordInv'
<1> DEFINE j == wrk[r].key
<1>1. j \in Key /\ wrk[r].pc = "claimed" /\ UNCHANGED <<now, alerts, sentAt, outbox>>
  BY DEF TypeInv, BusyHasKey, SendSucceeds, SendFails
<1>2. PICK pc \in {"sent", "failed"} :
        /\ wrk' = [wrk EXCEPT ![r] = [pc |-> pc, key |-> j, attempts |-> wrk[r].attempts]]
        /\ pc = "sent" => copies' = [copies EXCEPT ![j] = copies[j] + 1]
  BY DEF SendSucceeds, SendFails, WrkBecomes, MessageLeaves
<1>3. \A k \in Key : copies[k] \in Nat /\ copies'[k] >= copies[k]
  BY <1>1 DEF SendSucceeds, SendFails, MessageLeaves, TypeInv, TypeOK
<1>4. pc = "sent" => copies'[j] > 0
  BY <1>1, <1>2, <1>3 DEF TypeInv, TypeOK
<1>5. \A k \in Key : copies[k] > 0 => copies'[k] > 0
  <2> SUFFICES ASSUME NEW k \in Key, copies[k] > 0 PROVE copies'[k] > 0
    OBVIOUS
  <2>1. copies'[k] \in Nat
    BY <1>1 DEF SendSucceeds, SendFails, MessageLeaves, TypeInv, TypeOK
  <2> QED BY <1>3, <2>1
<1>6. \A k : Covered(k)' <=> Covered(k)
  BY <1>1 DEF Covered
<1>7. \A s \in Worker : \/ wrk'[s] = wrk[s]
                        \/ s = r /\ wrk'[s].pc = pc /\ wrk'[s].key = j
  BY <1>2 DEF TypeInv, TypeOK
<1>8. \A s \in Worker :
        /\ wrk'[s].pc # "idle" => outbox'[wrk'[s].key].status # "absent"
        /\ wrk'[s].pc \in {"sent", "recorded"} => copies'[wrk'[s].key] > 0
        /\ wrk'[s].pc = "recorded" => wrk'[s] = wrk[s]
  BY <1>1, <1>4, <1>5, <1>7 DEF RecordInv, TypeInv, BusyHasKey
<1>9. \A k \in Key : /\ outbox'[k].status # "absent" => WindowStart(k) <= now'
                     /\ outbox'[k].status = "sent" => copies'[k] > 0 /\ Covered(k)'
  BY <1>1, <1>5, <1>6 DEF RecordInv
<1>10. ASSUME NEW s \in Worker, wrk'[s].pc = "recorded" PROVE Covered(wrk[s].key)'
  BY <1>1, <1>8, <1>10 DEF RecordInv, Covered
<1> QED BY <1>8, <1>9, <1>10 DEF RecordInv

LEMMA RecordsOfSave ==
    ASSUME TypeInv, RecordInv, NEW r \in Worker, SaveDelivery(r)
    PROVE RecordInv'
<1> DEFINE j == wrk[r].key
           a == AlertOf(j)
<1>1. j \in Key /\ a \in Alert /\ wrk[r].pc = "sent"
  BY WindowStartType DEF TypeInv, BusyHasKey, SaveDelivery
<1>2. UNCHANGED <<now, alerts, outbox, copies>> /\ sentAt' = [sentAt EXCEPT ![a] = now]
  BY DEF SaveDelivery
<1>3. now \in Nat /\ now # None
  BY TimeAssumption, NoneAssumption DEF TypeInv, TypeOK, Time
<1>4. \A k \in Key : outbox[k].status # "absent" /\ (Covered(k) \/ AlertOf(k) = a)
                       => Covered(k)'
  <2> SUFFICES ASSUME NEW k \in Key, outbox[k].status # "absent",
                      Covered(k) \/ AlertOf(k) = a, AlertOf(k) \in alerts
               PROVE sentAt'[AlertOf(k)] # None /\ sentAt'[AlertOf(k)] >= WindowStart(k)
    BY <1>2 DEF Covered, AlertOf, WindowStart
  <2>1. CASE AlertOf(k) = a
    BY <1>1, <1>2, <1>3, <2>1, WindowStartType DEF RecordInv, TypeInv, TypeOK
  <2>2. CASE AlertOf(k) # a
    BY <1>2, <2>2, WindowStartType DEF Covered, TypeInv, TypeOK
  <2> QED BY <2>1, <2>2
<1>5. PICK pc \in {"recorded", "failed"} :
        wrk' = [wrk EXCEPT ![r] = [pc |-> pc, key |-> j, attempts |-> wrk[r].attempts]]
  BY DEF SaveDelivery, WrkBecomes
<1>6. \A s \in Worker : \/ wrk'[s] = wrk[s]
                        \/ s = r /\ wrk'[s].pc = pc /\ wrk'[s].key = j
  BY <1>5 DEF TypeInv, TypeOK
<1>7. \A s \in Worker :
        /\ wrk'[s].pc # "idle" => outbox'[wrk'[s].key].status # "absent"
        /\ wrk'[s].pc \in {"sent", "recorded"} => copies'[wrk'[s].key] > 0
  BY <1>1, <1>2, <1>6 DEF RecordInv
<1>8. \A k \in Key : /\ outbox'[k].status # "absent" => WindowStart(k) <= now'
                     /\ outbox'[k].status = "sent" => copies'[k] > 0 /\ Covered(k)'
  BY <1>2, <1>4 DEF RecordInv
<1>9. ASSUME NEW s \in Worker, wrk'[s].pc = "recorded" PROVE Covered(wrk[s].key)'
  <2>1. PICK k \in Key : k = wrk'[s].key
    BY <1>1, <1>6, <1>9 DEF TypeInv, BusyHasKey
  <2>2. outbox[k].status # "absent" /\ (Covered(k) \/ AlertOf(k) = a)
    BY <1>1, <1>6, <1>9, <2>1 DEF RecordInv
  <2>3. Covered(k)'
    BY <1>4, <2>2
  <2> QED BY <2>1, <2>3 DEF Covered, AlertOf, WindowStart
<1> QED BY <1>7, <1>8, <1>9 DEF RecordInv

LEMMA RecordsOfOutcome ==
    ASSUME TypeInv, RecordInv, NEW r \in Worker,
           SaveDeliveryFails(r) \/ MarkSent(r) \/ MarkFailed(r) \/ RestartWorker(r)
    PROVE RecordInv'
<1> DEFINE j == wrk[r].key
<1>1. j \in Key /\ UNCHANGED <<now, alerts, sentAt, copies>>
  BY DEF TypeInv, BusyHasKey, SaveDeliveryFails, MarkSent, MarkFailed, RestartWorker
<1>2. \A k : Covered(k)' <=> Covered(k)
  BY <1>1 DEF Covered
<1>3. outbox[j].status # "absent"
  BY DEF RecordInv, SaveDeliveryFails, MarkSent, MarkFailed, RestartWorker
<1>4. \/ UNCHANGED outbox
      \/ \E s \in {"sent", "pending", "failed"} :
           /\ outbox' = [outbox EXCEPT ![j] =
                           [status |-> s, attempts |-> outbox[j].attempts, lapsed |-> FALSE]]
           /\ s = "sent" => wrk[r].pc = "recorded"
  BY DEF SaveDeliveryFails, MarkSent, MarkFailed, RestartWorker, FailedOutcome
<1>5. \A k \in Key :
        \/ outbox'[k] = outbox[k]
        \/ /\ k = j /\ outbox'[k].status # "absent"
           /\ outbox'[k].status = "sent" => wrk[r].pc = "recorded"
  BY <1>1, <1>4 DEF TypeInv, TypeOK
<1>6. \A s \in Worker : \/ wrk'[s] = wrk[s]
                        \/ wrk'[s].pc = "idle"
                        \/ wrk'[s].pc = "failed" /\ wrk'[s].key = j
  BY DEF SaveDeliveryFails, MarkSent, MarkFailed, RestartWorker, WrkBecomes, IdleWrk,
      TypeInv, TypeOK
<1>7. \A k \in Key : /\ outbox'[k].status # "absent" => WindowStart(k) <= now'
                     /\ outbox'[k].status = "sent" => copies'[k] > 0 /\ Covered(k)'
  BY <1>1, <1>2, <1>3, <1>5 DEF RecordInv
<1>8. \A s \in Worker :
        /\ wrk'[s].pc # "idle" => outbox'[wrk'[s].key].status # "absent"
        /\ wrk'[s].pc \in {"sent", "recorded"} =>
             wrk'[s] = wrk[s] /\ copies'[wrk'[s].key] > 0
  BY <1>1, <1>3, <1>5, <1>6 DEF RecordInv, TypeInv, BusyHasKey
<1>9. ASSUME NEW s \in Worker, wrk'[s].pc = "recorded" PROVE Covered(wrk[s].key)'
  BY <1>1, <1>8, <1>9 DEF RecordInv, Covered
<1> QED BY <1>7, <1>8, <1>9 DEF RecordInv

LEMMA NextRecords == TypeInv /\ RecordInv /\ [Next]_vars => RecordInv'
<1> SUFFICES ASSUME TypeInv, RecordInv, [Next]_vars PROVE RecordInv'
  OBVIOUS
<1>1. ASSUME NEW r \in Monitor, Monitoring(r) \/ RestartMonitor(r) PROVE RecordInv'
  BY <1>1, RecordsOfMonitor
<1>2. ASSUME NEW r \in Worker, Delivering(r) \/ RestartWorker(r) PROVE RecordInv'
  BY <1>2, RecordsOfSend, RecordsOfSave, RecordsOfOutcome DEF Delivering
<1>3. ASSUME NEW r \in Worker, NEW k \in Key, ClaimPending(r, k) PROVE RecordInv'
  BY <1>3, RecordsOfClaim
<1> QED BY <1>1, <1>2, <1>3, RecordsOfWorld DEF Next

LEMMA InitRecords == Init => RecordInv
BY DEF Init, RecordInv, NoRow, IdleWrk

\* A notification shown as sent has left for the user, whichever worker's outcome
\* was written last (NotificationOutboxWorker.deliver).
THEOREM SentNotificationsLeft == Spec => []SentHasLeft
<1>1. RecordInv => SentHasLeft
  BY DEF RecordInv, SentHasLeft
<1> QED BY <1>1, InitType, InitRecords, NextType, NextRecords, PTL DEF Spec

\* A sent notification of a living rule has a delivery record the cooldown counts
\* from, of its own window or later (saveDelivery comes before markSent).
THEOREM SentNotificationsRecorded == Spec => []SentIsRecorded
<1>1. RecordInv => SentIsRecorded
  BY DEF RecordInv, Covered, WindowStart, SentIsRecorded
<1> QED BY <1>1, InitType, InitRecords, NextType, NextRecords, PTL DEF Spec
=============================================================================
