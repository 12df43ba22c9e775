------------------------------ MODULE RadarAudit ------------------------------
(***************************************************************************)
(* How the market radar judges a recorded signal: RadarStore.evaluateDue   *)
(* and cleanup (src/src/market-radar/store.ts), calculateOutcome           *)
(* (audit.ts) and the maintenance timer of main.ts.                        *)
(*                                                                         *)
(* One signal, observed at time 1, has an outcome row for every horizon.   *)
(* A sample of the price says whether it lies in the signal's zone; the    *)
(* excursions that a result also reports are arithmetic over the same      *)
(* samples and are left out.  Time is counted in units of ten seconds.     *)
(* Once the clock has reached MaxTime it stands for any later time.        *)
(***************************************************************************)
EXTENDS Naturals, FiniteSetsExt

CONSTANTS
    Collectors,    \* processes running the maintenance timer
    None,
    Horizons,      \* RADAR_AUDIT_HORIZONS_MS
    MaxGap,        \* maxGapMs
    Grace,         \* the 10 seconds added to the first due time
    Lease,         \* 180 seconds
    Backoff,       \* the delay after a failure
    MaxAttempts,   \* 5 in the code
    Batch,         \* 5 in the code
    Retention,     \* RADAR_RETENTION_DAYS
    MaxTime,       \* bound: the clock, past every window
    MaxFaults      \* bound: failed evaluations and crashes

VARIABLES
    now,
    sampled,    \* the samples taken: time -> "away", "inside" or "none"
    stored,     \* times of the samples in market_radar.observations
    rows,       \* market_radar.outcomes, None once deleted with the signal
    pc,         \* per collector: "idle", "evaluate", "write", "sweep", "cleanup"
    job,        \* per collector: the rows it claimed and has not written
    at,         \* per collector: the "now" of its evaluateDue call
    outcome,    \* per collector: the outcome it is about to write
    wasted,     \* ghost: claims of a row that ended without an outcome
    faults

vars == <<now, sampled, stored, rows, pc, job, at, outcome, wasted, faults>>

Start == 1
Samples == 1 .. Start + 2 * Max(Horizons)

\* The last instant of the model is later than any other.
Passed(t, time) == t <= time \/ time = MaxTime

\* Mutant: due at the end of the horizon.
FirstDueAtOnce(h) == Start + h

FirstDue(h) == Start + h + Grace

Init ==
    /\ now = Start
    /\ sampled = [t \in Samples |-> IF t = Start THEN "away" ELSE "none"]
    /\ stored = {Start}
    /\ rows = [h \in Horizons |-> [status |-> "PENDING", due |-> FirstDue(h), lock |-> 0,
                                   lease |-> None, attempts |-> 0, end |-> 0, entered |-> FALSE]]
    /\ pc = [c \in Collectors |-> "idle"]
    /\ job = [c \in Collectors |-> {}] /\ at = [c \in Collectors |-> 0]
    /\ outcome = [c \in Collectors |-> None]
    /\ wasted = [h \in Horizons |-> 0] /\ faults = 0

Deleted(h) == rows[h] = None

-----------------------------------------------------------------------------
(* audit.ts *)

\* No gap between the signal, the samples and the end exceeds maxGapMs.
Covered(points, end) ==
    /\ points # {}
    /\ \A t \in (points \cup {end}) \ {Start} :
           \E s \in points \cup {Start} : s < t /\ t - s <= MaxGap

\* A late contact is given its full evaluation window.
WindowEnd(h, contacts) == IF contacts = {} THEN Start + h ELSE Min(contacts) + h

CalculateOutcome(h, time) ==
    LET seen     == {t \in stored : sampled[t] # "none" /\ t <= Start + 2 * h}
        contacts == {t \in seen : sampled[t] = "inside" /\ t <= time /\ t <= Start + h}
        end      == WindowEnd(h, contacts)
        points   == {t \in seen : t <= time /\ t <= end}
        status   == IF time < end THEN "PENDING"
                    ELSE IF Covered(points, end) THEN "COMPLETE"
                    ELSE "INCOMPLETE_DATA"
    IN  [status |-> status, end |-> end, entered |-> status = "COMPLETE" /\ contacts # {}]

-----------------------------------------------------------------------------
(* RadarStore.evaluateDue *)

Due(h) ==
    /\ ~Deleted(h) /\ rows[h].status = "PENDING" /\ Passed(rows[h].due, now)
    /\ rows[h].lease = None \/ Passed(rows[h].lock + 1, now)
    /\ rows[h].attempts < MaxAttempts

\* The oldest due rows, at most Batch of them, are leased in one statement.
Claim(c) ==
    /\ pc[c] = "idle"
    /\ LET due == {h \in Horizons : Due(h)}
       IN  \E taken \in SUBSET due :
            /\ Cardinality(taken) = Min({Batch, Cardinality(due)})
            /\ \A h \in taken, g \in due \ taken : rows[h].due <= rows[g].due
            /\ pc' = [pc EXCEPT ![c] = IF taken = {} THEN "sweep" ELSE "evaluate"]
            /\ job' = [job EXCEPT ![c] = taken]
            /\ at' = [at EXCEPT ![c] = now]
            /\ rows' = [h \in Horizons |-> IF h \in taken
                           THEN [rows[h] EXCEPT !.lock = now + Lease, !.lease = c, !.attempts = @ + 1]
                           ELSE rows[h]]
            /\ wasted' = [h \in Horizons |-> IF h \in taken /\ rows[h].lease # None
                                             THEN wasted[h] + 1 ELSE wasted[h]]
    /\ UNCHANGED <<now, sampled, stored, outcome, faults>>

\* The signal and its samples are read and judged as of the call's "now".
Evaluate(c, h) ==
    /\ pc[c] = "evaluate" /\ h \in job[c] /\ ~Deleted(h)
    /\ outcome' = [outcome EXCEPT ![c] = [row |-> h, result |-> CalculateOutcome(h, at[c])]]
    /\ pc' = [pc EXCEPT ![c] = "write"]
    /\ UNCHANGED <<now, sampled, stored, rows, job, at, wasted, faults>>

AfterRow(c, h) ==
    /\ job' = [job EXCEPT ![c] = @ \ {h}]
    /\ pc' = [pc EXCEPT ![c] = IF job[c] = {h} THEN "sweep" ELSE "evaluate"]
    /\ outcome' = [outcome EXCEPT ![c] = None]

\* Mutant: the lease is not compared.
HoldsAny(c, h) == ~Deleted(h)

\* WHERE ... AND lease_id=$5
Holds(c, h) == ~Deleted(h) /\ rows[h].lease = c

\* A window that is still open does not use up an attempt.
AttemptsAfter(row, status) ==
    IF status = "PENDING" /\ row.attempts > 0 THEN row.attempts - 1 ELSE row.attempts

WriteOutcome(c) ==
    /\ pc[c] = "write"
    /\ LET h == outcome[c].row
           r == outcome[c].result
       IN  /\ rows' = IF Holds(c, h)
                      THEN [rows EXCEPT ![h] = [rows[h] EXCEPT !.status = r.status, !.due = r.end,
                              !.lock = 0, !.lease = None, !.end = r.end, !.entered = r.entered,
                              !.attempts = AttemptsAfter(rows[h], r.status)]]
                      ELSE rows
           /\ AfterRow(c, h)
    /\ UNCHANGED <<now, sampled, stored, at, wasted, faults>>

\* catch: the signal is gone or a statement failed.
Fails(c, h) ==
    /\ rows' = IF Holds(c, h)
               THEN [rows EXCEPT ![h] = [rows[h] EXCEPT
                       !.status = IF rows[h].attempts >= MaxAttempts THEN "FAILED" ELSE "PENDING",
                       !.due = at[c] + Backoff, !.lock = 0, !.lease = None]]
               ELSE rows
    /\ wasted' = IF Holds(c, h) THEN [wasted EXCEPT ![h] = @ + 1] ELSE wasted
    /\ AfterRow(c, h)
    /\ UNCHANGED <<now, sampled, stored, at>>

SourceGone(c, h) ==
    /\ pc[c] = "evaluate" /\ h \in job[c] /\ Deleted(h)
    /\ Fails(c, h)
    /\ UNCHANGED faults

EvaluationFails(c, h) ==
    /\ pc[c] \in {"evaluate", "write"} /\ h \in job[c] /\ faults < MaxFaults
    /\ pc[c] = "write" => outcome[c].row = h
    /\ faults' = faults + 1
    /\ Fails(c, h)

\* The last attempt's lease lapsed: nobody will claim the row again.
Lost(t) ==
    {h \in Horizons : /\ ~Deleted(h) /\ rows[h].status = "PENDING" /\ rows[h].attempts >= MaxAttempts
                      /\ rows[h].lease # None /\ Passed(rows[h].lock + 1, t)}

Sweep(c) ==
    LET failed(h) == [rows[h] EXCEPT !.status = "FAILED", !.lock = 0, !.lease = None]
    IN  /\ pc[c] = "sweep" /\ pc' = [pc EXCEPT ![c] = "cleanup"] /\ at' = [at EXCEPT ![c] = 0]
        /\ rows' = [h \in Horizons |-> IF h \in Lost(at[c]) THEN failed(h) ELSE rows[h]]
        /\ wasted' = [h \in Horizons |-> IF h \in Lost(at[c]) THEN wasted[h] + 1 ELSE wasted[h]]
        /\ UNCHANGED <<now, sampled, stored, job, outcome, faults>>

-----------------------------------------------------------------------------
(* RadarStore.cleanup and the timer of main.ts *)

\* Rows observed before the cutoff go in batches, a signal with its outcomes.
Cleanup(c) ==
    LET old(t) == now > t + Retention
    IN  /\ pc[c] = "cleanup"
        /\ pc' = [pc EXCEPT ![c] = "idle"]
        /\ stored' = {t \in stored : ~old(t)}
        /\ rows' = [h \in Horizons |-> IF old(Start) THEN None ELSE rows[h]]
        /\ UNCHANGED <<now, sampled, job, at, outcome, wasted, faults>>

\* nextCleanup is not reached yet.
CleanupNotDue(c) ==
    /\ pc[c] = "cleanup"
    /\ pc' = [pc EXCEPT ![c] = "idle"]
    /\ UNCHANGED <<now, sampled, stored, rows, job, at, outcome, wasted, faults>>

\* The process dies; its leases stay.
Crash(c) ==
    /\ pc[c] # "idle" /\ faults < MaxFaults
    /\ faults' = faults + 1
    /\ pc' = [pc EXCEPT ![c] = "idle"]
    /\ job' = [job EXCEPT ![c] = {}] /\ outcome' = [outcome EXCEPT ![c] = None]
    /\ at' = [at EXCEPT ![c] = 0]
    /\ UNCHANGED <<now, sampled, stored, rows, wasted>>

-----------------------------------------------------------------------------
(* Time and the collector's samples *)

Unstored == {t \in Samples : sampled[t] # "none" /\ t \notin stored /\ t + Retention >= now}

\* After every horizon a sample in the zone counts like any other.
\* A sample is stored before the grace period of its time is over.
Store(t) ==
    /\ t \in Unstored
    /\ stored' = stored \cup {t}
    /\ UNCHANGED <<now, sampled, rows, pc, job, at, outcome, wasted, faults>>

Tick ==
    /\ now < MaxTime
    /\ \A t \in Unstored : now + 1 < t + Grace
    /\ now' = now + 1
    /\ \E kind \in {"away", "inside", "none"} :
           /\ now' > Start + Max(Horizons) => kind # "inside"
           /\ sampled' = IF now' \in Samples THEN [sampled EXCEPT ![now'] = kind] ELSE sampled
    /\ UNCHANGED <<stored, rows, pc, job, at, outcome, wasted, faults>>

Maintain(c) ==
    \/ Claim(c) \/ WriteOutcome(c) \/ Sweep(c) \/ Cleanup(c) \/ CleanupNotDue(c)
    \/ \E h \in Horizons : Evaluate(c, h) \/ SourceGone(c, h)

Next ==
    \/ \E c \in Collectors : Maintain(c) \/ Crash(c)
    \/ \E c \in Collectors, h \in Horizons : EvaluationFails(c, h)
    \/ \E t \in Samples : Store(t)
    \/ Tick

\* Time passes, samples are stored and the timer of a running process goes on.
Fairness ==
    /\ WF_vars(Tick) /\ \A t \in Samples : WF_vars(Store(t))
    /\ \A c \in Collectors : WF_vars(Maintain(c))

Spec == Init /\ [][Next]_vars /\ Fairness

-----------------------------------------------------------------------------
(* Properties *)

Verdicts == {"COMPLETE", "INCOMPLETE_DATA"}

TypeOK ==
    /\ now \in Start .. MaxTime /\ stored \subseteq Samples
    /\ \A h \in Horizons : Deleted(h) \/
           /\ rows[h].status \in Verdicts \cup {"PENDING", "FAILED"}
           /\ rows[h].attempts \in 0 .. MaxAttempts
           /\ rows[h].lease \in Collectors \cup {None}
    /\ \A c \in Collectors : pc[c] \in {"idle", "evaluate", "write", "sweep", "cleanup"}
                             /\ job[c] \subseteq Horizons
    /\ faults \in 0 .. MaxFaults

\* What really happened: the first sample in the zone within the horizon.
TrueContacts(h) == {t \in Samples : sampled[t] = "inside" /\ t <= Start + h}

\* A verdict is given over a full horizon after the first contact, also when
\* the contact comes late, its sample is stored late or the evaluation was
\* retried: no late contact is counted as a zone that was not reached.
VerdictCoversWindow ==
    \A h \in Horizons : ~Deleted(h) /\ rows[h].status \in Verdicts =>
        IF TrueContacts(h) = {} THEN rows[h].end = Start + h
        ELSE rows[h].end = Min(TrueContacts(h)) + h

\* A COMPLETE outcome has no gap above maxGapMs anywhere in its window, its
\* last part included, and says truly whether the zone was reached.
CompleteIsCovered ==
    \A h \in Horizons : ~Deleted(h) /\ rows[h].status = "COMPLETE" =>
        /\ \A t \in Start .. rows[h].end - MaxGap - 1 :
               \E s \in t + 1 .. t + MaxGap + 1 : sampled[s] # "none"
        /\ rows[h].entered <=> TrueContacts(h) # {}

\* A verdict is never taken back by a second evaluation of the same row.
VerdictKept ==
    \A h \in Horizons : ~Deleted(h) /\ rows[h].status # "PENDING" =>
        rows'[h] = None \/ rows'[h].status = rows[h].status
VerdictIsFinal == [][VerdictKept]_vars

\* Expected waiting is free: a row fails only after five claims that ended in
\* an error or with a lapsed lease.
FailedWasTried ==
    \A h \in Horizons : ~Deleted(h) /\ rows[h].status = "FAILED" => wasted[h] >= MaxAttempts

\* Every outcome is judged, failed or deleted with its signal.
EveryOutcomeEnds == \A h \in Horizons : <>(Deleted(h) \/ rows[h].status # "PENDING")
=============================================================================
