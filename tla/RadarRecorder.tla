---------------------------- MODULE RadarRecorder ----------------------------
(***************************************************************************)
(* What the market radar's collector keeps: the persistence queue          *)
(* (src/src/market-radar/persistence-queue.ts), one transaction per        *)
(* snapshot (store.ts, observe) and the alert events found between two     *)
(* snapshots (events.ts).                                                  *)
(*                                                                         *)
(* Each pair has one zone.  Its strength is counted in units of four       *)
(* points, so a material change is two of them; "shape" is its lifecycle   *)
(* when it is among the supply and demand zones, BROKEN or STALE when it   *)
(* is among the previous ones.  Time is counted in units of ten seconds.   *)
(* The outcomes to evaluate are inserted with their signal and are the     *)
(* subject of RadarAudit.                                                  *)
(***************************************************************************)
EXTENDS Naturals, Sequences, FiniteSetsExt

CONSTANTS
    Pairs,
    None,
    Views(_),    \* bound: what the radar may show of a pair
    Capacity,    \* PersistenceQueue.capacity
    Interval,    \* PersistenceQueue.intervalMs
    Stale,       \* RADAR_STALE_MS: how old a book may be in a live snapshot
    MaxTime,     \* bound: the clock
    MaxOffers,   \* bound: snapshots the queue accepts
    MaxFaults    \* bound: failed saves, lost answers, restarts

VARIABLES
    now,
    pending,     \* PersistenceQueue.pending, in the map's order
    accepted,    \* PersistenceQueue.lastAccepted
    closed,      \* PersistenceQueue.closed
    running,     \* PersistenceQueue.running: a drain is under way
    saving,      \* the snapshot drain() awaits, or None
    last,        \* RadarStore.last
    material,    \* RadarStore.material: the recorded shape and strength
    db,          \* the tables latest, observations, signals, events
    trail,       \* ghost: the last two snapshots of a pair saved by this process
    settled,     \* ghost: calculatedAt of the last snapshot whose save ended
    blurred,     \* ghost: pairs whose newest signal the process may not know
    offers, faults

memory == <<pending, accepted, closed, running, saving, last, material, trail, settled, blurred>>
vars == <<now, memory, db, offers, faults>>

\* SELECT ... ORDER BY observed_at DESC LIMIT 1
Newest(rows) == CHOOSE r \in rows : \A q \in rows : q.at <= r.at

-----------------------------------------------------------------------------
(* Snapshots *)

Live == {"FORMING", "ACTIVE", "UNDER_TEST"}

\* What one calculation may show of the pair's zone: with coverage any shape,
\* without it only what became of a previous zone, and no observation time
\* when no venue is healthy.
AllViews == [shape : Live \cup {"NONE", "BROKEN", "STALE"}, strength : 0 .. 2,
             covered : BOOLEAN, live : BOOLEAN]
Possible(view) ==
    /\ view.covered => view.live /\ view.shape # "STALE"
    /\ ~view.covered => view.shape \notin Live
    /\ ~view.live => view.shape # "BROKEN"

Snapshot(p, view, at) == [pair |-> p, calc |-> now, at |-> IF view.live THEN at ELSE 0,
                          shape |-> view.shape, strength |-> view.strength,
                          covered |-> view.covered, live |-> view.live]

Blank == [shape |-> "NONE", strength |-> 0, covered |-> FALSE, at |-> 0]

Init ==
    /\ now = Interval + Stale
    /\ pending = <<>> /\ accepted = [p \in Pairs |-> 0] /\ closed = FALSE /\ running = FALSE
    /\ saving = None
    /\ last = [p \in Pairs |-> None] /\ material = [p \in Pairs |-> None]
    /\ db = [latest |-> [p \in Pairs |-> 0], observations |-> {}, signals |-> {}, events |-> {}]
    /\ trail = [p \in Pairs |-> <<Blank, Blank>>] /\ settled = [p \in Pairs |-> 0]
    /\ blurred = {} /\ offers = 0 /\ faults = 0

-----------------------------------------------------------------------------
(* The queue *)

Queued(p) == {i \in DOMAIN pending : pending[i].pair = p}

\* Mutant: the waiting snapshot is kept.
EnqueuedOnce(s) == IF Queued(s.pair) = {} THEN Append(pending, s) ELSE pending

\* Map.set: a waiting snapshot of the same pair is replaced where it stands.
Enqueued(s) ==
    IF Queued(s.pair) = {} THEN Append(pending, s)
    ELSE [i \in DOMAIN pending |-> IF i \in Queued(s.pair) THEN s ELSE pending[i]]

\* offer(): at most one snapshot per pair and interval; a full queue takes no
\* pair that does not wait already; a drain is started unless one is under way.
Offer(p, view, at) ==
    LET s == Snapshot(p, view, at)
    IN  /\ ~closed /\ offers < MaxOffers
        /\ view \in AllViews /\ Possible(view)
        /\ now - accepted[p] >= Interval
        /\ Queued(p) # {} \/ Len(pending) < Capacity
        /\ offers' = offers + 1
        /\ accepted' = [accepted EXCEPT ![p] = now]
        /\ pending' = Enqueued(s) /\ running' = TRUE
        /\ UNCHANGED <<now, closed, saving, last, material, db, trail, settled, blurred, faults>>

\* drain(): the first snapshot leaves the queue before its save is awaited.
Take ==
    /\ running /\ saving = None /\ pending # <<>>
    /\ saving' = Head(pending) /\ pending' = Tail(pending)
    /\ UNCHANGED <<now, accepted, closed, running, last, material, db, trail, settled, blurred,
                   offers, faults>>

\* The save ends, whatever its result: failures++ at most, and the loop goes
\* on while something waits.
Ended ==
    /\ saving' = None
    /\ settled' = [settled EXCEPT ![saving.pair] = saving.calc]
    /\ running' = (pending # <<>>)

-----------------------------------------------------------------------------
(* events.ts *)

DetectEvents(before, s) ==
    LET approached == s.shape = "UNDER_TEST" /\ before.shape # "UNDER_TEST"
        stronger   == s.strength >= before.strength + 2
        weaker     == before.strength >= s.strength + 2
        broken     == s.shape = "BROKEN" /\ before.shape # "BROKEN"
        types == {t \in {"APPROACHED", "STRENGTHENED", "WEAKENED", "BROKEN"} :
                    CASE t = "APPROACHED"   -> approached
                      [] t = "STRENGTHENED" -> stronger
                      [] t = "WEAKENED"     -> weaker
                      [] OTHER              -> broken}
    IN  IF before = None \/ ~s.live \/ ~s.covered \/ s.shape = "NONE" THEN {}
        ELSE IF before.shape = "NONE" THEN {}
        ELSE {[pair |-> s.pair, type |-> t, at |-> s.at] : t \in types}

-----------------------------------------------------------------------------
(* RadarStore.observe *)

\* The cached state, or the newest signal after a restart.
Recorded(p) ==
    LET rows == {s \in db.signals : s.pair = p}
    IN  IF material[p] # None THEN material[p]
        ELSE IF rows = {} THEN None
        ELSE [shape |-> Newest(rows).shape, strength |-> Newest(rows).strength]

Close(a, b) == a.shape = b.shape /\ a.strength < b.strength + 2 /\ b.strength < a.strength + 2

\* The shown zones of a covered snapshot that differ from what is recorded.
Significant(s) ==
    /\ s.shape \in Live \ {"FORMING"} /\ s.covered
    /\ Recorded(s.pair) = None \/ ~Close(Recorded(s.pair), s)

\* ON CONFLICT DO NOTHING: the id is made of the zone and observedAt.
NewSignal(s) ==
    IF Significant(s) /\ ~\E row \in db.signals : row.pair = s.pair /\ row.at = s.at
    THEN {[pair |-> s.pair, at |-> s.at, shape |-> s.shape, strength |-> s.strength]}
    ELSE {}

\* The statements of the transaction, all or none.
Written(s) ==
    [latest |-> [db.latest EXCEPT ![s.pair] = Max({@, s.at})],
     observations |-> db.observations \cup
                      (IF s.live /\ s.covered THEN {<<s.pair, s.at>>} ELSE {}),
     signals |-> db.signals \cup NewSignal(s),
     events |-> db.events \cup DetectEvents(last[s.pair], s)]

\* Mutant: every snapshot moves the recorded state.
RememberAll(s) ==
    material' = [material EXCEPT ![s.pair] = [shape |-> s.shape, strength |-> s.strength]]

\* The cache follows what was significant, inserted or not.
Remember(s) ==
    material' = IF Significant(s)
                THEN [material EXCEPT ![s.pair] = [shape |-> s.shape, strength |-> s.strength]]
                ELSE material

\* The id of a signal tells observedAt, and observedAt may repeat or go back:
\* it is the oldest of the books that qualify.
Later(s) == \A row \in db.signals : row.pair = s.pair => row.at < s.at

\* Once a change is not observed later than the newest signal, that signal is
\* not the last change, until a later one follows.
Blurred(s) ==
    IF ~Significant(s) THEN blurred
    ELSE IF Later(s) THEN blurred \ {s.pair} ELSE blurred \cup {s.pair}

\* COMMIT, then last and material are set.
Commit ==
    /\ saving # None
    /\ db' = Written(saving)
    /\ last' = [last EXCEPT ![saving.pair] = saving]
    /\ Remember(saving)
    /\ trail' = [trail EXCEPT ![saving.pair] = <<@[2], [shape |-> saving.shape,
                    strength |-> saving.strength, covered |-> saving.covered, at |-> saving.at]>>]
    /\ blurred' = Blurred(saving)
    /\ Ended
    /\ UNCHANGED <<now, pending, accepted, closed, offers, faults>>

\* Mutant: the snapshot is remembered as the last one when its save begins.
FailRemembered ==
    /\ saving # None /\ faults < MaxFaults
    /\ faults' = faults + 1
    /\ last' = [last EXCEPT ![saving.pair] = saving]
    /\ Ended
    /\ UNCHANGED <<now, pending, accepted, closed, material, db, trail, blurred, offers>>

\* Mutant: a failure ends the drain.
FailStuck ==
    /\ saving # None /\ faults < MaxFaults
    /\ faults' = faults + 1
    /\ saving' = None /\ running' = FALSE
    /\ UNCHANGED <<now, pending, accepted, closed, last, material, db, trail,
                   settled, blurred, offers>>

\* Another session holds the pair's advisory lock, or a statement fails and
\* the transaction is rolled back: nothing is kept, in memory neither.
SaveFails ==
    /\ saving # None /\ faults < MaxFaults
    /\ faults' = faults + 1
    /\ Ended
    /\ UNCHANGED <<now, pending, accepted, closed, last, material, db, trail, blurred, offers>>

\* The connection breaks after COMMIT was done and before its answer came.
CommitUnacknowledged ==
    /\ saving # None /\ faults < MaxFaults
    /\ faults' = faults + 1
    /\ db' = Written(saving)
    /\ blurred' = IF NewSignal(saving) = {} THEN blurred ELSE blurred \cup {saving.pair}
    /\ Ended
    /\ UNCHANGED <<now, pending, accepted, closed, last, material, trail, offers>>

-----------------------------------------------------------------------------
(* The process *)

\* SIGTERM: no more snapshots, close() waits for the drain.
Stop ==
    /\ ~closed /\ faults < MaxFaults
    /\ faults' = faults + 1
    /\ closed' = TRUE
    /\ UNCHANGED <<now, pending, accepted, running, saving, last, material, db, trail,
                   settled, blurred, offers>>

\* A new process: empty memory, and no zone older than the minimum history.
Fresh ==
    /\ pending' = <<>> /\ accepted' = [p \in Pairs |-> 0] /\ closed' = FALSE /\ running' = FALSE
    /\ saving' = None
    /\ last' = [p \in Pairs |-> None] /\ material' = [p \in Pairs |-> None]
    /\ trail' = [p \in Pairs |-> <<Blank, Blank>>] /\ settled' = [p \in Pairs |-> 0]
    /\ blurred' = {} /\ now' = now + Interval + Stale
    /\ UNCHANGED <<db, offers>>

\* The drain is over, or the deadline of 15 seconds has passed.
Exit == closed /\ Fresh /\ UNCHANGED faults

Crash ==
    /\ faults < MaxFaults
    /\ faults' = faults + 1
    /\ Fresh

Tick ==
    /\ now < MaxTime
    /\ now' = now + 1
    /\ UNCHANGED <<memory, db, offers, faults>>

Next ==
    \/ \E p \in Pairs, age \in 0 .. Stale : \E view \in Views(p) : Offer(p, view, now - age)
    \/ Take \/ Commit \/ SaveFails \/ CommitUnacknowledged
    \/ Stop \/ Exit \/ Crash \/ Tick

Fairness == WF_vars(Take) /\ WF_vars(Commit) /\ WF_vars(Exit)
Spec == Init /\ [][Next]_vars /\ Fairness

-----------------------------------------------------------------------------
(* Properties *)

TypeOK ==
    /\ now \in Nat /\ closed \in BOOLEAN /\ offers \in 0 .. MaxOffers /\ faults \in 0 .. MaxFaults
    /\ Len(pending) <= Capacity
    /\ \A p \in Pairs : Cardinality(Queued(p)) <= 1
    /\ saving = None \/ saving.pair \in Pairs
    /\ \A p \in Pairs : accepted[p] \in 0 .. now /\ settled[p] \in 0 .. now
    /\ blurred \subseteq Pairs

\* Coalescing gives up older snapshots of a pair and never the newest one the
\* queue has accepted: it waits, is being saved or its save has ended.
NewestSurvives ==
    \A p \in Pairs :
        \/ accepted[p] = settled[p]
        \/ saving # None /\ saving.pair = p /\ saving.calc = accepted[p]
        \/ \E i \in Queued(p) : pending[i].calc = accepted[p]

\* What the last saved snapshot of a pair shows is in its newest signal up to
\* a change that is not material, whatever the age of the books: slow drifts,
\* failed saves and restarts lose no material change that was observed later
\* than the signals before it and whose commit was acknowledged.
Shown(p) == trail[p][2].covered /\ trail[p][2].shape \in Live \ {"FORMING"}
IsRecorded(p) ==
    LET rows == {s \in db.signals : s.pair = p}
    IN  rows # {} /\ Close(Newest(rows), trail[p][2])
ChangeIsRecorded == \A p \in Pairs : Shown(p) /\ p \notin blurred => IsRecorded(p)

\* The same of every snapshot: books older than the interval and lost answers
\* of a commit refute it.
EveryChangeIsRecorded == \A p \in Pairs : Shown(p) => IsRecorded(p)

\* A signal that would repeat the newest one is suppressed, after a restart too.
NewSignalDiffers ==
    \A s \in db'.signals \ db.signals :
        LET rows == {r \in db.signals : r.pair = s.pair}
        IN  rows = {} \/ s.pair \in blurred \/ ~Close(Newest(rows), s)

\* A zone broken between two saved snapshots is announced, although saves in
\* between may have failed.
BreakIsAnnounced ==
    \A p \in Pairs :
        LET before == trail[p][1]
            after  == trail[p][2]
        IN  after.covered /\ after.shape = "BROKEN" /\ before.shape \notin {"NONE", "BROKEN"}
              => [pair |-> p, type |-> "BROKEN", at |-> after.at] \in db.events

\* Whatever fails, the queue runs empty.
QueueDrains == []<>(pending = <<>> /\ saving = None)
=============================================================================
