----------------------------- MODULE MarketRadar -----------------------------
(***************************************************************************)
(* The four parts of the market radar over one set of variables: what the  *)
(* collector watches (RadarCollector), how the engine turns its books into *)
(* zones (RadarEngine), how snapshots are kept (RadarRecorder) and signals *)
(* judged (RadarAudit).  They meet in snapshots and tables only, which     *)
(* each module bounds by what its neighbour may hand over, so a behaviour  *)
(* is one of a single part, as "part" says; the variables of the others    *)
(* stay 0.                                                                 *)
(***************************************************************************)
EXTENDS Integers, Sequences, FiniteSets

CONSTANTS
    Parts,         \* the parts to run: "recorder", "audit", "engine", "collector"
    None,
    MinVenues,     \* RADAR_MINIMUM_VENUES
    \* RadarRecorder
    Pairs, Views(_), Capacity, Interval, Stale, RecorderTime, MaxOffers, RecorderFaults,
    \* RadarAudit
    Collectors, Horizons, MaxGap, Grace, Lease, Backoff, MaxAttempts, Batch, Retention,
    AuditTime, AuditFaults,
    \* RadarEngine
    Exchanges, Bands, MinHistory, Gap, History, EngineTime, MaxChanges, MaxSuspicion,
    \* RadarCollector
    Markets, VenueOrder, Listings(_), VenuesPerMarket, ContinuousMarkets, OnDemand, Ttl, Lapse,
    Limit, WatchTtl, MaxReads, CollectorFaults

\* A deployment has at least one horizon.  The clock of the audit ends after
\* every window; samples are kept (for days) beyond the grace period.
ASSUME AuditAssumption ==
    /\ Horizons \subseteq Nat /\ \E n \in Horizons : Horizons \subseteq 0 .. n
    /\ {MaxGap, Grace, Lease, Retention, Backoff, AuditTime, MaxAttempts} \subseteq Nat
    /\ 1 <= Grace /\ Grace <= Retention
    /\ \A h \in Horizons : 1 + 2 * h + Grace <= AuditTime
    /\ None \notin Collectors
ASSUME EngineAssumption ==
    /\ Bands \subseteq Nat /\ \E n \in Bands : Bands = 1 .. n
    /\ {Gap, MaxSuspicion} \subseteq Nat /\ None \notin Nat
ASSUME CollectorAssumption ==
    /\ Markets \subseteq Nat /\ IsFiniteSet(Markets) /\ VenueOrder \in Seq(STRING)
    /\ {MinVenues, VenuesPerMarket, ContinuousMarkets, OnDemand, Ttl, Limit, WatchTtl} \subseteq Nat
    /\ \A v \in {VenueOrder[i] : i \in DOMAIN VenueOrder} : Listings(v) \subseteq SUBSET Markets

VARIABLES
    part, now, faults,
    pending, accepted, closed, running, saving, last, material, db, trail, settled, blurred, offers,
    sampled, stored, rows, pc, job, at, outcome, wasted,
    price, book, healthy, flying, fills, lastAt, lastPrice, walls, zones, shown, run,
    heard, changes,
    listed, age, asking, discoveryDue, watched, feeds, alerts, watches, maintaining, found, ran,
    reads

recorderVars == <<pending, accepted, closed, running, saving, last, material, db, trail,
                  settled, blurred, offers>>
auditVars == <<sampled, stored, rows, pc, job, at, outcome, wasted>>
engineVars == <<price, book, healthy, flying, fills, lastAt, lastPrice, walls, zones,
                shown, run, heard, changes>>
collectorVars == <<listed, age, asking, discoveryDue, watched, feeds, alerts, watches,
                   maintaining, found, ran, reads>>
vars == <<part, now, faults, recorderVars, auditVars, engineVars, collectorVars>>

Recorder == INSTANCE RadarRecorder WITH MaxTime <- RecorderTime, MaxFaults <- RecorderFaults
Audit == INSTANCE RadarAudit WITH MaxTime <- AuditTime, MaxFaults <- AuditFaults
Engine == INSTANCE RadarEngine WITH Venues <- Exchanges, MaxTime <- EngineTime
Collector == INSTANCE RadarCollector WITH
    Pairs <- Markets, Continuous <- ContinuousMarkets, MaxFaults <- CollectorFaults, rows <- found

\* None is no snapshot and no recorded state.
Shapes == Recorder!Live \cup {"NONE", "BROKEN", "STALE"}
ASSUME RecorderAssumption ==
    /\ Interval \in Nat \ {0} /\ Stale \in Nat
    /\ None \notin [pair : Pairs, calc : Nat, at : Int, shape : Shapes, strength : 0 .. 2,
                    covered : BOOLEAN, live : BOOLEAN]
    /\ None \notin [shape : Shapes, strength : 0 .. 2]

-----------------------------------------------------------------------------
NoRecorder ==
    /\ pending = 0 /\ accepted = 0 /\ closed = 0 /\ running = 0 /\ saving = 0 /\ last = 0
    /\ material = 0 /\ db = 0 /\ trail = 0 /\ settled = 0 /\ blurred = 0 /\ offers = 0
NoAudit ==
    /\ sampled = 0 /\ stored = 0 /\ rows = 0 /\ pc = 0 /\ job = 0 /\ at = 0
    /\ outcome = 0 /\ wasted = 0
NoEngine ==
    /\ price = 0 /\ book = 0 /\ healthy = 0 /\ flying = 0 /\ fills = 0 /\ lastAt = 0
    /\ lastPrice = 0 /\ walls = 0 /\ zones = 0 /\ shown = 0 /\ run = 0 /\ heard = 0
    /\ changes = 0
NoCollector ==
    /\ listed = 0 /\ age = 0 /\ asking = 0 /\ discoveryDue = 0 /\ watched = 0 /\ feeds = 0
    /\ alerts = 0 /\ watches = 0 /\ maintaining = 0 /\ found = 0 /\ ran = 0 /\ reads = 0

Init ==
    /\ part \in Parts
    /\ \/ part = "recorder" /\ Recorder!Init /\ NoAudit /\ NoEngine /\ NoCollector
       \/ part = "audit" /\ Audit!Init /\ NoRecorder /\ NoEngine /\ NoCollector
       \/ part = "engine" /\ Engine!Init /\ NoRecorder /\ NoAudit /\ NoCollector /\ faults = 0
       \/ part = "collector" /\ Collector!Init /\ NoRecorder /\ NoAudit /\ NoEngine /\ now = 0

RecorderStep(A) ==
    part = "recorder" /\ A /\ UNCHANGED <<part, auditVars, engineVars, collectorVars>>
AuditStep(A) ==
    part = "audit" /\ A /\ UNCHANGED <<part, recorderVars, engineVars, collectorVars>>
EngineStep(A) ==
    part = "engine" /\ A /\ UNCHANGED <<part, faults, recorderVars, auditVars, collectorVars>>
CollectorStep(A) ==
    part = "collector" /\ A /\ UNCHANGED <<part, now, recorderVars, auditVars, engineVars>>

RecorderNext == RecorderStep(Recorder!Next)
AuditNext == AuditStep(Audit!Next)
EngineNext == EngineStep(Engine!Next)
CollectorNext == CollectorStep(Collector!Next)
Next == RecorderNext \/ AuditNext \/ EngineNext \/ CollectorNext

\* What RadarRecorder, RadarAudit and RadarCollector say of their timers and
\* loops, for the parts that run.
RecorderFairness ==
    /\ WF_recorderVars(part = "recorder" /\ Recorder!Take)
    /\ WF_recorderVars(part = "recorder" /\ Recorder!Commit)
    /\ WF_recorderVars(part = "recorder" /\ Recorder!Exit)
AuditFairness ==
    /\ WF_now(part = "audit" /\ Audit!Tick)
    /\ \A t \in Audit!Samples : WF_stored(part = "audit" /\ Audit!Store(t))
    /\ \A c \in Collectors : WF_auditVars(part = "audit" /\ Audit!Maintain(c))
CollectorFairness ==
    /\ WF_collectorVars(part = "collector" /\ Collector!FirstTick)
    /\ WF_collectorVars(part = "collector" /\ Collector!Discovery)
    /\ WF_collectorVars(part = "collector" /\ Collector!Maintenance)
    /\ WF_collectorVars(part = "collector" /\ Collector!Elapse)
Fairness ==
    /\ \A p \in Parts \cap {"recorder"} : RecorderFairness
    /\ \A p \in Parts \cap {"audit"} : AuditFairness
    /\ \A p \in Parts \cap {"collector"} : CollectorFairness

Spec == Init /\ [][Next]_vars /\ Fairness

-----------------------------------------------------------------------------
(* Properties: those of the parts *)

TypeOK ==
    /\ part = "recorder" => Recorder!TypeOK
    /\ part = "audit" => Audit!TypeOK
    /\ part = "engine" => Engine!TypeOK
    /\ part = "collector" => Collector!TypeOK

\* RadarEngine: no zone is said to be older than each of its walls.
PersistenceIsObserved == part = "engine" => Engine!PersistenceIsObserved
\* RadarEngine: executed consumption is no cancellation (it may be; see README).
ConsumptionIsNotPenalised ==
    [][part = "engine" => \A x \in heard :
        Engine!Remembered(x) /\ walls'[x] # None /\ ~Engine!Moved(x) =>
            walls'[x].cancellations <= walls[x].cancellations]_vars

\* RadarRecorder: coalescing never gives up the newest accepted snapshot.
NewestSurvives == part = "recorder" => Recorder!NewestSurvives
\* RadarRecorder: what a pair shows is in its newest signal.
ChangeIsRecorded == part = "recorder" => Recorder!ChangeIsRecorded
EveryChangeIsRecorded == part = "recorder" => Recorder!EveryChangeIsRecorded
\* RadarRecorder: no material change of a pair is lost, and no signal repeats
\* the one before it.
ChangeIsRecordedOnce ==
    [][part = "recorder" => Recorder!ChangeIsRecorded' /\ Recorder!NewSignalDiffers]_vars
\* RadarRecorder: a zone that breaks between two saved snapshots is announced.
BreakIsAnnounced == part = "recorder" => Recorder!BreakIsAnnounced
\* RadarRecorder: the queue runs empty.
QueueDrains == []<>(part # "recorder" \/ (pending = <<>> /\ saving = None))

\* RadarAudit: a verdict covers the whole window of its signal.
VerdictCoversWindow == part = "audit" => Audit!VerdictCoversWindow
\* RadarAudit: a COMPLETE outcome has no gap in its window.
CompleteIsCovered == part = "audit" => Audit!CompleteIsCovered
\* RadarAudit: a failed row was tried as often as the code promises.
FailedWasTried == part = "audit" => Audit!FailedWasTried
\* RadarAudit: no verdict is taken back.
VerdictIsFinal == [][part = "audit" => Audit!VerdictKept]_vars
\* RadarAudit: every outcome is judged, failed or deleted.
EveryOutcomeEnds ==
    \A h \in Horizons : <>(part # "audit" \/ Audit!Deleted(h) \/ rows[h].status # "PENDING")
\* Both halves of the store come to their ends.
StoreSettles == QueueDrains /\ EveryOutcomeEnds

\* RadarCollector: feeds and promises stay within their budgets.
BudgetsHold == part = "collector" => Collector!BudgetsHold
\* RadarCollector: the market of a standing alert rule gets its feed.
AlertIsWatched ==
    \A p \in Markets : <>[](part = "collector" /\ p \in alerts /\ p \in Collector!Qualified)
                         => []<>(p \in Collector!Engines)
\* RadarCollector: no venue is left out for ever.
CatalogRecovers ==
    \A v \in Collector!Venues : []<>(part # "collector" \/ age[v] <= Lapse)
=============================================================================
