-------------------------- MODULE MarketRadar_proofs --------------------------
(***************************************************************************)
(* What the radar keeps and says is right for any pairs, collectors,       *)
(* horizons, venues and bands, and for any bounds that satisfy the         *)
(* assumptions of MarketRadar.                                             *)
(***************************************************************************)
EXTENDS MarketRadar, FiniteSetTheorems, WellFoundedInduction, TLAPS

-----------------------------------------------------------------------------
(* Least and greatest members *)

LEMMA Smallest ==
    ASSUME NEW T \in SUBSET Nat, T # {}
    PROVE  \E x \in T : \A y \in T : x <= y
<1>1. PICK x \in T : \A y \in T : ~(<<y, x>> \in OpToRel(<, Nat))
  BY WFMin, NatLessThanWellFounded
<1>2. \A y \in T : ~(y < x)
  BY <1>1 DEF OpToRel
<1> QED
  BY <1>2

LEMMA Greatest ==
    ASSUME NEW T \in SUBSET Nat, T # {}, NEW top \in Nat, \A y \in T : y <= top
    PROVE  \E x \in T : \A y \in T : x >= y
<1> DEFINE B == {n \in Nat : \A y \in T : y <= n}
<1>1. top \in B
  OBVIOUS
<1>2. PICK m \in B : \A n \in B : m <= n
  BY <1>1, Smallest
<1>3. m \in T
  <2> SUFFICES ASSUME m \notin T PROVE FALSE
    OBVIOUS
  <2>1. \A y \in T : y \in Nat /\ y < m
    BY <1>2
  <2>2. PICK y \in T : TRUE
    OBVIOUS
  <2>3. m - 1 \in Nat /\ \A z \in T : z <= m - 1
    <3>1. m \in Nat /\ y \in Nat /\ y < m
      BY <2>1, <1>2
    <3> QED
      BY <2>1, <3>1
  <2> QED
    BY <2>3, <1>2
<1> QED
  BY <1>2, <1>3

-----------------------------------------------------------------------------
(* RadarAudit *)

Statuses == {"PENDING", "COMPLETE", "INCOMPLETE_DATA", "FAILED"}
Row == [status : Statuses, due : Nat, lock : Nat, lease : Collectors \cup {None},
        attempts : Nat, end : Nat, entered : BOOLEAN]
Result == [status : Statuses \ {"FAILED"}, end : Nat, entered : BOOLEAN]
Outcome == [row : Horizons, result : Result]

AuditTypes ==
    /\ now \in Nat /\ now >= 1
    /\ sampled \in [Audit!Samples -> {"away", "inside", "none"}]
    /\ stored \subseteq {t \in Audit!Samples : sampled[t] # "none"}
    /\ \A t \in Audit!Samples : sampled[t] # "none" => t <= now
    /\ rows \in [Horizons -> Row \cup {None}]
    /\ pc \in [Collectors -> {"idle", "evaluate", "write", "sweep", "cleanup"}]
    /\ job \in [Collectors -> SUBSET Horizons]
    /\ at \in [Collectors -> Nat]
    /\ outcome \in [Collectors -> Outcome \cup {None}]
    /\ wasted \in [Horizons -> Nat]

Judged(h, end) ==
    /\ now >= 1 + h
    /\ end = IF Audit!TrueContacts(h) = {} THEN 1 + h ELSE Audit!Min(Audit!TrueContacts(h)) + h

\* What VerdictCoversWindow and CompleteIsCovered say of a verdict.
VerdictTrue(h, r) ==
    /\ r.status \in Audit!Verdicts => Judged(h, r.end)
    /\ r.status = "COMPLETE" =>
           /\ \A t \in 1 .. r.end - MaxGap - 1 :
                  \E s \in t + 1 .. t + MaxGap + 1 : s \in Audit!Samples /\ sampled[s] # "none"
           /\ r.entered <=> Audit!TrueContacts(h) # {}

\* As long as a signal is kept, so are its samples, but for those of the
\* last moments; a row is due when those are in.
SamplesKept ==
    \A h \in Horizons : ~Audit!Deleted(h) =>
        \A t \in Audit!Samples : sampled[t] # "none" /\ t \notin stored => now < t + Grace

DueAfterGrace ==
    /\ \A h \in Horizons : ~Audit!Deleted(h) /\ rows[h].status = "PENDING" =>
           rows[h].due >= Audit!FirstDue(h)
    /\ \A c \in Collectors : /\ pc[c] \notin {"evaluate", "write"} => job[c] = {}
                             /\ at[c] <= now
                             /\ \A h \in job[c] : at[c] >= Audit!FirstDue(h)

\* A row with a verdict, a true one, is leased to nobody.
RowsTrue ==
    \A h \in Horizons : ~Audit!Deleted(h) =>
        /\ rows[h].status # "PENDING" => rows[h].lease = None
        /\ VerdictTrue(h, rows[h])

\* What a collector is about to write.
OutcomeTrue(h, r) ==
    /\ r.status = "PENDING" => r.end >= Audit!FirstDue(h)
    /\ ~Audit!Deleted(h) => VerdictTrue(h, r)

OutcomesTrue ==
    \A c \in Collectors : pc[c] = "write" =>
        /\ outcome[c] \in Outcome /\ outcome[c].row \in job[c]
        /\ OutcomeTrue(outcome[c].row, outcome[c].result)

\* Every attempt that is counted has ended in vain or is under way.
AttemptsTried ==
    \A h \in Horizons : ~Audit!Deleted(h) =>
        /\ rows[h].status = "PENDING" =>
               /\ rows[h].attempts <= wasted[h] + 1
               /\ rows[h].lease = None => rows[h].attempts <= wasted[h]
        /\ rows[h].status = "FAILED" => wasted[h] >= MaxAttempts

AuditInv ==
    /\ AuditTypes /\ SamplesKept /\ DueAfterGrace /\ RowsTrue /\ OutcomesTrue /\ AttemptsTried

LEMMA AuditNumbers ==
    /\ Audit!Start = 1
    /\ \E n \in Horizons : Audit!Samples = 1 .. 1 + 2 * n /\ \A h \in Horizons : h <= n
    /\ Horizons \subseteq Nat
    /\ MaxGap \in Nat /\ Grace \in Nat /\ Lease \in Nat /\ Retention \in Nat /\ Backoff \in Nat
    /\ AuditTime \in Nat /\ MaxAttempts \in Nat
    /\ \A h \in Horizons : Audit!FirstDue(h) = 1 + h + Grace /\ Audit!FirstDue(h) <= AuditTime
    /\ None \notin Collectors
<1>1. PICK n \in Horizons : Horizons \subseteq 0 .. n
  BY AuditAssumption
<1>2. Horizons \subseteq Nat /\ n \in Nat
  BY AuditAssumption
<1>3. \E x \in Horizons : \A y \in Horizons : x >= y
  BY <1>1, <1>2
<1>4. Audit!Max(Horizons) \in Horizons /\ \A y \in Horizons : Audit!Max(Horizons) >= y
  BY <1>3 DEF Audit!Max
<1>5. Audit!Start = 1
  BY DEF Audit!Start
<1>6. Audit!Samples = 1 .. 1 + 2 * Audit!Max(Horizons)
  BY <1>5 DEF Audit!Samples
<1>7. PICK m \in Horizons : m = Audit!Max(Horizons)
  BY <1>4
<1>8. \E k \in Horizons : Audit!Samples = 1 .. 1 + 2 * k /\ \A h \in Horizons : h <= k
  BY <1>2, <1>4, <1>6, <1>7
<1>9. /\ MaxGap \in Nat /\ Grace \in Nat /\ Lease \in Nat /\ Retention \in Nat /\ Backoff \in Nat
      /\ AuditTime \in Nat /\ MaxAttempts \in Nat /\ None \notin Collectors
  BY AuditAssumption
<1>10. \A h \in Horizons : Audit!FirstDue(h) = 1 + h + Grace /\ Audit!FirstDue(h) <= AuditTime
  BY <1>2, <1>5, <1>9, AuditAssumption DEF Audit!FirstDue
<1> QED
  BY <1>2, <1>5, <1>8, <1>9, <1>10

\* The fields of a rewritten row.
LEMMA RowExcept ==
    ASSUME NEW S1, NEW S2, NEW S3, NEW S4, NEW S5, NEW S6, NEW S7,
           NEW w \in [status : S1, due : S2, lock : S3, lease : S4, attempts : S5, end : S6,
                      entered : S7],
           NEW s \in S1, NEW d \in S2, NEW k \in S3, NEW c \in S4, NEW a \in S5, NEW e \in S6,
           NEW b \in S7
    PROVE  LET claimed == [w EXCEPT !.lock = k, !.lease = c, !.attempts = a]
               written == [w EXCEPT !.status = s, !.due = d, !.lock = k, !.lease = c, !.end = e,
                                    !.entered = b, !.attempts = a]
               failed  == [w EXCEPT !.status = s, !.due = d, !.lock = k, !.lease = c]
               swept   == [w EXCEPT !.status = s, !.lock = k, !.lease = c]
               rowset == [status : S1, due : S2, lock : S3, lease : S4, attempts : S5, end : S6,
                      entered : S7]
           IN  /\ claimed \in rowset
               /\ claimed.status = w.status /\ claimed.due = w.due /\ claimed.lease = c
               /\ claimed.attempts = a /\ claimed.end = w.end /\ claimed.entered = w.entered
               /\ written \in rowset
               /\ written.status = s /\ written.due = d /\ written.lease = c
               /\ written.attempts = a /\ written.end = e /\ written.entered = b
               /\ failed \in rowset
               /\ failed.status = s /\ failed.due = d /\ failed.lease = c
               /\ failed.attempts = w.attempts /\ failed.end = w.end /\ failed.entered = w.entered
               /\ swept \in rowset
               /\ swept.status = s /\ swept.due = w.due /\ swept.lease = c
               /\ swept.attempts = w.attempts /\ swept.end = w.end /\ swept.entered = w.entered
  OBVIOUS

LEMMA NewRecord ==
    ASSUME NEW S1, NEW S2, NEW S3, NEW S4, NEW S5, NEW S6, NEW S7,
           NEW s \in S1, NEW d \in S2, NEW k \in S3, NEW c \in S4, NEW a \in S5, NEW e \in S6,
           NEW b \in S7
    PROVE  [status |-> s, due |-> d, lock |-> k, lease |-> c, attempts |-> a, end |-> e,
            entered |-> b] \in [status : S1, due : S2, lock : S3, lease : S4, attempts : S5,
                                end : S6, entered : S7]
  OBVIOUS

LEMMA AuditStarts ==
    ASSUME part = "audit", Init
    PROVE  AuditInv
<1>1. Audit!Init
  BY DEF Init
<1> USE AuditNumbers
<1>2. /\ now = 1 /\ stored = {1} /\ pc = [c \in Collectors |-> "idle"]
      /\ sampled = [t \in Audit!Samples |-> IF t = 1 THEN "away" ELSE "none"]
      /\ job = [c \in Collectors |-> {}] /\ at = [c \in Collectors |-> 0]
      /\ outcome = [c \in Collectors |-> None] /\ wasted = [h \in Horizons |-> 0]
  BY <1>1 DEF Audit!Init
<1>3. \A h \in Horizons : rows[h] = [status |-> "PENDING", due |-> Audit!FirstDue(h), lock |-> 0,
                            lease |-> None, attempts |-> 0, end |-> 0, entered |-> FALSE]
  BY <1>1 DEF Audit!Init
<1>4. \A h \in Horizons : rows[h] \in Row
  <2> TAKE h \in Horizons
  <2>1. Audit!FirstDue(h) \in Nat
    OBVIOUS
  <2>2. "PENDING" \in Statuses /\ 0 \in Nat /\ FALSE \in BOOLEAN
    BY DEF Statuses
  <2>3. [status |-> "PENDING", due |-> Audit!FirstDue(h), lock |-> 0, lease |-> None,
         attempts |-> 0, end |-> 0, entered |-> FALSE] \in Row
    BY <2>1, <2>2, NewRecord, None \in Collectors \cup {None}, Zenon DEF Row
  <2> QED
    BY <1>3, <2>3
<1>13. \A h \in Horizons : /\ rows[h].status = "PENDING" /\ rows[h].due = Audit!FirstDue(h)
                           /\ rows[h].lease = None /\ rows[h].attempts = 0
  <2> TAKE h \in Horizons
  <2> DEFINE r == [status |-> "PENDING", due |-> Audit!FirstDue(h), lock |-> 0,
                            lease |-> None, attempts |-> 0, end |-> 0, entered |-> FALSE]
  <2>1. r.status = "PENDING" /\ r.due = Audit!FirstDue(h) /\ r.lease = None /\ r.attempts = 0
    BY Zenon
  <2>2. rows[h] = r
    BY <1>3
  <2> QED
    BY <2>1, <2>2, Zenon
<1>5. rows \in [Horizons -> Row \cup {None}]
  BY <1>1, <1>3, <1>4 DEF Audit!Init
<1>6. 1 \in Audit!Samples
  OBVIOUS
<1>7. AuditTypes
  BY <1>2, <1>5, <1>6 DEF AuditTypes
<1>8. SamplesKept
  BY <1>2 DEF SamplesKept
<1>9. DueAfterGrace
  BY <1>2, <1>13 DEF DueAfterGrace
<1>10. RowsTrue
  BY <1>13 DEF RowsTrue, VerdictTrue, Audit!Verdicts
<1>11. OutcomesTrue
  BY <1>2 DEF OutcomesTrue
<1>12. AttemptsTried
  <2> SUFFICES ASSUME NEW h \in Horizons
               PROVE  /\ rows[h].status = "PENDING"
                      /\ rows[h].attempts <= wasted[h] + 1 /\ rows[h].attempts <= wasted[h]
    BY DEF AttemptsTried
  <2>1. rows[h].attempts = 0 /\ wasted[h] = 0
    BY <1>2, <1>13
  <2> QED
    BY <1>13, <2>1
<1> QED
  BY <1>7, <1>8, <1>9, <1>10, <1>11, <1>12 DEF AuditInv

\* Row by row, what the statements of evaluateDue leave.
Claimed(w, k, c) == [w EXCEPT !.lock = k, !.lease = c, !.attempts = @ + 1]
Written(w, s, e, b, a) ==
    [w EXCEPT !.status = s, !.due = e, !.lock = 0, !.lease = None, !.end = e, !.entered = b,
              !.attempts = a]
Failed(w, s, d) == [w EXCEPT !.status = s, !.due = d, !.lock = 0, !.lease = None]
Swept(w) == [w EXCEPT !.status = "FAILED", !.lock = 0, !.lease = None]

LEMMA ClaimedRow ==
    ASSUME NEW w \in Row, NEW k \in Nat, NEW c \in Collectors
    PROVE  LET n == Claimed(w, k, c)
           IN  /\ n \in Row /\ n.status = w.status /\ n.due = w.due /\ n.lease = c
               /\ n.attempts = w.attempts + 1 /\ n.end = w.end /\ n.entered = w.entered
<1>1. w.attempts + 1 \in Nat /\ c \in Collectors \cup {None}
  BY DEF Row
<1> QED
  BY <1>1, RowExcept, Zenon DEF Row, Claimed

LEMMA WrittenRow ==
    ASSUME NEW w \in Row, NEW s \in Statuses, NEW e \in Nat, NEW b \in BOOLEAN, NEW a \in Nat
    PROVE  LET n == Written(w, s, e, b, a)
           IN  /\ n \in Row /\ n.status = s /\ n.due = e /\ n.lease = None
               /\ n.attempts = a /\ n.end = e /\ n.entered = b
<1>1. 0 \in Nat /\ None \in Collectors \cup {None}
  OBVIOUS
<1> QED
  BY <1>1, RowExcept, Zenon DEF Row, Written

LEMMA FailedRow ==
    ASSUME NEW w \in Row, NEW s \in Statuses, NEW d \in Nat
    PROVE  LET n == Failed(w, s, d)
           IN  /\ n \in Row /\ n.status = s /\ n.due = d /\ n.lease = None
               /\ n.attempts = w.attempts /\ n.end = w.end /\ n.entered = w.entered
<1>1. 0 \in Nat /\ None \in Collectors \cup {None}
  OBVIOUS
<1> QED
  BY <1>1, RowExcept, Zenon DEF Row, Failed

LEMMA SweptRow ==
    ASSUME NEW w \in Row
    PROVE  LET n == Swept(w)
           IN  /\ n \in Row /\ n.status = "FAILED" /\ n.due = w.due /\ n.lease = None
               /\ n.attempts = w.attempts /\ n.end = w.end /\ n.entered = w.entered
<1>1. 0 \in Nat /\ None \in Collectors \cup {None} /\ "FAILED" \in Statuses
  BY DEF Statuses
<1> QED
  BY <1>1, RowExcept, Zenon DEF Row, Swept

LEMMA RowTyped ==
    ASSUME AuditTypes, NEW h \in Horizons, ~Audit!Deleted(h)
    PROVE  /\ rows[h] \in Row /\ rows[h].status \in Statuses /\ rows[h].due \in Nat
           /\ rows[h].lease \in Collectors \cup {None} /\ rows[h].attempts \in Nat
           /\ rows[h].end \in Nat
  BY DEF AuditTypes, Audit!Deleted, Row

LEMMA VerdictStays ==
    ASSUME now' = now, sampled' = sampled, NEW h, NEW r, VerdictTrue(h, r)
    PROVE  VerdictTrue(h, r)'
  BY DEF VerdictTrue, Judged, Audit!TrueContacts, Audit!Verdicts, Audit!Samples, Audit!Start

LEMMA RowStays ==
    ASSUME now' = now, sampled' = sampled, RowsTrue,
           NEW h \in Horizons, ~Audit!Deleted(h)', rows'[h] = rows[h]
    PROVE  /\ rows'[h].status # "PENDING" => rows'[h].lease = None
           /\ VerdictTrue(h, rows[h])'
<1>1. ~Audit!Deleted(h)
  BY DEF Audit!Deleted
<1>2. PICK r : r = rows[h]
  OBVIOUS
<1>3. VerdictTrue(h, r) /\ (r.status # "PENDING" => r.lease = None)
  BY <1>1, <1>2 DEF RowsTrue
<1>4. VerdictTrue(h, r)'
  BY <1>3, VerdictStays
<1> QED
  BY <1>2, <1>3, <1>4

LEMMA OutcomesStay ==
    ASSUME now' = now, sampled' = sampled, OutcomesTrue, job \in [Collectors -> SUBSET Horizons],
           \A h \in Horizons : ~Audit!Deleted(h)' => ~Audit!Deleted(h),
           \A d \in Collectors : pc'[d] = "write" =>
               pc[d] = "write" /\ job'[d] = job[d] /\ outcome'[d] = outcome[d]
    PROVE  OutcomesTrue'
<1> SUFFICES ASSUME NEW d \in Collectors, pc'[d] = "write"
             PROVE  /\ outcome'[d] \in Outcome /\ outcome'[d].row \in job'[d]
                    /\ OutcomeTrue(outcome[d].row, outcome[d].result)'
  BY DEF OutcomesTrue, Outcome, Result, Statuses
<1>1. PICK o : o = outcome[d]
  OBVIOUS
<1>2. /\ o \in Outcome /\ o.row \in job[d] /\ o.row \in Horizons
      /\ OutcomeTrue(o.row, o.result)
  BY <1>1 DEF OutcomesTrue
<1>3. OutcomeTrue(o.row, o.result)'
  <2>1. PICK h, r : h = o.row /\ r = o.result
    OBVIOUS
  <2>2. ~Audit!Deleted(h)' => VerdictTrue(h, r)'
    BY <1>2, <2>1, VerdictStays DEF OutcomeTrue
  <2>3. OutcomeTrue(h, r)'
    BY <1>2, <2>1, <2>2 DEF OutcomeTrue, Audit!FirstDue, Audit!Start
  <2> QED
    BY <2>1, <2>3
<1> QED
  BY <1>1, <1>2, <1>3

\* Rows that stay, or change nothing that VerdictTrue and the rest look at.
LEMMA ClaimKeeps ==
    ASSUME AuditInv, NEW c \in Collectors, Audit!Claim(c)
    PROVE  AuditInv'
<1> USE DEF AuditInv
<1>1. PICK taken \in SUBSET Horizons :
        /\ \A h \in taken : Audit!Due(h)
        /\ pc' = [pc EXCEPT ![c] = IF taken = {} THEN "sweep" ELSE "evaluate"]
        /\ job' = [job EXCEPT ![c] = taken]
        /\ at' = [at EXCEPT ![c] = now]
        /\ rows' = [h \in Horizons |-> IF h \in taken
                       THEN [rows[h] EXCEPT !.lock = now + Lease, !.lease = c, !.attempts = @ + 1]
                       ELSE rows[h]]
        /\ wasted' = [h \in Horizons |-> IF h \in taken /\ rows[h].lease # None
                                         THEN wasted[h] + 1 ELSE wasted[h]]
  BY Zenon DEF Audit!Claim
<1>2. UNCHANGED <<now, sampled, stored, outcome, faults>> /\ pc[c] = "idle"
  BY DEF Audit!Claim
<1>3. \A h \in taken : /\ rows[h] \in Row /\ rows[h].status = "PENDING" /\ ~Audit!Deleted(h)
                       /\ Audit!Passed(rows[h].due, now)
  BY <1>1, RowTyped DEF Audit!Due
<1>4. PICK k \in Nat : k = now + Lease
  BY AuditNumbers DEF AuditTypes
<1>5. \A h \in taken : LET n == rows'[h]
                       IN  /\ n \in Row /\ n.status = rows[h].status /\ n.due = rows[h].due
                           /\ n.lease = c /\ n.attempts = rows[h].attempts + 1
                           /\ n.end = rows[h].end /\ n.entered = rows[h].entered
  <2> TAKE h \in taken
  <2>1. rows'[h] = Claimed(rows[h], k, c)
    BY <1>1, <1>4 DEF Claimed
  <2> QED
    BY <1>3, <1>4, <2>1, ClaimedRow
<1>6. \A h \in Horizons \ taken : rows'[h] = rows[h] /\ wasted'[h] = wasted[h]
  BY <1>1
<1>7. AuditTypes'
  <2>1. rows' \in [Horizons -> Row \cup {None}]
    BY <1>1, <1>5, <1>6 DEF AuditTypes
  <2>2. wasted' \in [Horizons -> Nat]
    <3>1. \A h \in Horizons : wasted[h] \in Nat /\ wasted[h] + 1 \in Nat
      BY DEF AuditTypes
    <3> QED
      BY <1>1, <3>1
  <2>3. /\ pc' \in [Collectors -> {"idle", "evaluate", "write", "sweep", "cleanup"}]
        /\ job' \in [Collectors -> SUBSET Horizons] /\ at' \in [Collectors -> Nat]
    BY <1>1 DEF AuditTypes
  <2> QED
    BY <1>2, <2>1, <2>2, <2>3 DEF AuditTypes, Audit!Samples, Audit!Start
<1>8. \A h \in Horizons : ~Audit!Deleted(h)' => ~Audit!Deleted(h)
  BY <1>3, <1>6 DEF Audit!Deleted
<1>9. SamplesKept'
  BY <1>2, <1>8 DEF SamplesKept, Audit!Samples, Audit!Start
<1>10. \A h \in taken : now >= Audit!FirstDue(h)
  <2> TAKE h \in taken
  <2>1. rows[h].due >= Audit!FirstDue(h) /\ rows[h].due \in Nat /\ now \in Nat
    BY <1>3, RowTyped DEF DueAfterGrace, AuditTypes
  <2>2. CASE rows[h].due <= now
    <3>1. Audit!FirstDue(h) \in Nat
      BY AuditNumbers
    <3> QED
      BY <2>1, <2>2, <3>1
  <2>3. CASE now = AuditTime
    BY <2>3, AuditNumbers
  <2> QED
    BY <1>3, <2>2, <2>3 DEF Audit!Passed
<1>11. DueAfterGrace'
  <2>1. ASSUME NEW h \in Horizons, ~Audit!Deleted(h)', rows'[h].status = "PENDING"
        PROVE  rows'[h].due >= Audit!FirstDue(h)
    BY <2>1, <1>3, <1>5, <1>6, <1>8 DEF DueAfterGrace
  <2>2. ASSUME NEW d \in Collectors
        PROVE  /\ pc'[d] \notin {"evaluate", "write"} => job'[d] = {}
               /\ at'[d] <= now' /\ \A h \in job'[d] : at'[d] >= Audit!FirstDue(h)
    <3>1. CASE d = c
      <4>1. /\ pc'[d] = IF taken = {} THEN "sweep" ELSE "evaluate"
            /\ job'[d] = taken /\ at'[d] = now /\ now' = now
        BY <3>1, <1>1, <1>2 DEF AuditTypes
      <4>2. now <= now
        BY DEF AuditTypes
      <4> QED
        BY <4>1, <4>2, <1>10
    <3>2. CASE d # c
      BY <3>2, <1>1, <1>2 DEF AuditTypes, DueAfterGrace
    <3> QED
      BY <3>1, <3>2
  <2> QED
    BY <2>1, <2>2 DEF DueAfterGrace, Audit!FirstDue, Audit!Start
<1>12. RowsTrue'
  <2> SUFFICES ASSUME NEW h \in Horizons, ~Audit!Deleted(h)'
               PROVE  /\ rows'[h].status # "PENDING" => rows'[h].lease = None
                      /\ VerdictTrue(h, rows[h])'
    BY DEF RowsTrue
  <2>1. CASE h \in taken
    <3>1. rows'[h].status = "PENDING"
      BY <2>1, <1>3, <1>5
    <3> QED
      BY <3>1 DEF VerdictTrue, Audit!Verdicts
  <2>2. CASE h \notin taken
    BY <2>2, <1>2, <1>6, RowStays
  <2> QED
    BY <2>1, <2>2
<1>13. OutcomesTrue'
  <2>1. \A d \in Collectors : pc'[d] = "write" => d # c /\ pc[d] = "write" /\ job'[d] = job[d]
    BY <1>1, <1>2 DEF AuditTypes
  <2> QED
    BY <2>1, <1>2, <1>8, OutcomesStay DEF AuditTypes
<1>14. AttemptsTried'
  <2> SUFFICES ASSUME NEW h \in Horizons, ~Audit!Deleted(h)'
               PROVE  /\ rows'[h].status = "PENDING" =>
                             /\ rows'[h].attempts <= wasted'[h] + 1
                             /\ rows'[h].lease = None => rows'[h].attempts <= wasted'[h]
                      /\ rows'[h].status = "FAILED" => wasted'[h] >= MaxAttempts
    BY DEF AttemptsTried
  <2>1. CASE h \in taken
    <3>1. /\ rows'[h].lease = c /\ c # None /\ rows'[h].attempts = rows[h].attempts + 1
          /\ rows'[h].status = "PENDING"
          /\ wasted'[h] = IF rows[h].lease # None THEN wasted[h] + 1 ELSE wasted[h]
      BY <1>1, <1>3, <1>5, <2>1, AuditNumbers
    <3>2. /\ rows[h].attempts <= wasted[h] + 1
          /\ rows[h].lease = None => rows[h].attempts <= wasted[h]
          /\ rows[h].attempts \in Nat /\ wasted[h] \in Nat
      BY <1>3, <2>1, RowTyped DEF AttemptsTried, AuditTypes
    <3> QED
      BY <3>1, <3>2
  <2>2. CASE h \notin taken
    BY <2>2, <1>6, <1>8 DEF AttemptsTried
  <2> QED
    BY <2>1, <2>2
<1> QED
  BY <1>7, <1>9, <1>11, <1>12, <1>13, <1>14

\* The other steps of a collector leave a row as it was or make it right.
RowGood(h) ==
    /\ rows[h].status = "PENDING" => rows[h].due >= Audit!FirstDue(h)
    /\ rows[h].status # "PENDING" => rows[h].lease = None
    /\ VerdictTrue(h, rows[h])
    /\ rows[h].status = "PENDING" =>
           /\ rows[h].attempts <= wasted[h] + 1
           /\ rows[h].lease = None => rows[h].attempts <= wasted[h]
    /\ rows[h].status = "FAILED" => wasted[h] >= MaxAttempts

LEMMA CollectorStepKeeps ==
    ASSUME AuditInv, UNCHANGED <<now, sampled, stored>>,
           rows' \in [Horizons -> Row \cup {None}],
           pc' \in [Collectors -> {"idle", "evaluate", "write", "sweep", "cleanup"}],
           job' \in [Collectors -> SUBSET Horizons], at' \in [Collectors -> Nat],
           outcome' \in [Collectors -> Outcome \cup {None}], wasted' \in [Horizons -> Nat],
           \A h \in Horizons : ~Audit!Deleted(h)' =>
               /\ ~Audit!Deleted(h)
               /\ (rows'[h] = rows[h] /\ wasted'[h] = wasted[h]) \/ RowGood(h)',
           \A d \in Collectors :
               /\ pc'[d] = "write" => pc[d] = "write" /\ job'[d] = job[d] /\ outcome'[d] = outcome[d]
               /\ pc'[d] \notin {"evaluate", "write"} => job'[d] = {}
               /\ at'[d] = at[d] \/ at'[d] = 0
               /\ job'[d] = {} \/ (job'[d] \subseteq job[d] /\ at'[d] = at[d])
    PROVE  AuditInv'
<1> USE AuditNumbers DEF AuditInv
<1>1. AuditTypes'
  BY DEF AuditTypes, Audit!Samples, Audit!Start
<1>2. SamplesKept'
  BY DEF SamplesKept, Audit!Samples, Audit!Start
<1>3. DueAfterGrace'
  <2>1. ASSUME NEW h \in Horizons, ~Audit!Deleted(h)', rows'[h].status = "PENDING"
        PROVE  rows'[h].due >= Audit!FirstDue(h)
    BY <2>1 DEF DueAfterGrace, RowGood, Audit!FirstDue, Audit!Start
  <2>2. ASSUME NEW d \in Collectors
        PROVE  /\ pc'[d] \notin {"evaluate", "write"} => job'[d] = {}
               /\ at'[d] <= now' /\ \A h \in job'[d] : at'[d] >= Audit!FirstDue(h)
    <3>1. \A h \in job[d] : at[d] >= Audit!FirstDue(h)
      BY DEF DueAfterGrace
    <3>2. \A h \in job'[d] : at'[d] >= Audit!FirstDue(h)
      BY <3>1
    <3>3. at'[d] <= now'
      BY DEF AuditTypes, DueAfterGrace
    <3> QED
      BY <3>2, <3>3
  <2> QED
    BY <2>1, <2>2 DEF DueAfterGrace, Audit!FirstDue, Audit!Start
<1>4. RowsTrue'
  <2> SUFFICES ASSUME NEW h \in Horizons, ~Audit!Deleted(h)'
               PROVE  /\ rows'[h].status # "PENDING" => rows'[h].lease = None
                      /\ VerdictTrue(h, rows[h])'
    BY DEF RowsTrue
  <2>1. CASE rows'[h] = rows[h]
    BY <2>1, RowStays
  <2>2. CASE RowGood(h)'
    BY <2>2 DEF RowGood
  <2> QED
    BY <2>1, <2>2
<1>5. OutcomesTrue'
  BY OutcomesStay DEF AuditTypes
<1>6. AttemptsTried'
  <2> SUFFICES ASSUME NEW h \in Horizons, ~Audit!Deleted(h)'
               PROVE  /\ rows'[h].status = "PENDING" =>
                             /\ rows'[h].attempts <= wasted'[h] + 1
                             /\ rows'[h].lease = None => rows'[h].attempts <= wasted'[h]
                      /\ rows'[h].status = "FAILED" => wasted'[h] >= MaxAttempts
    BY DEF AttemptsTried
  <2>1. CASE rows'[h] = rows[h] /\ wasted'[h] = wasted[h]
    BY <2>1 DEF AttemptsTried
  <2>2. CASE RowGood(h)'
    BY <2>2 DEF RowGood
  <2> QED
    BY <2>1, <2>2
<1> QED
  BY <1>1, <1>2, <1>3, <1>4, <1>5, <1>6

\* What AfterRow does to the collector's own variables.
LEMMA AfterRowSteps ==
    ASSUME AuditInv, NEW c \in Collectors, NEW h \in job[c], Audit!AfterRow(c, h), at' = at
    PROVE  /\ pc' \in [Collectors -> {"idle", "evaluate", "write", "sweep", "cleanup"}]
           /\ job' \in [Collectors -> SUBSET Horizons] /\ at' \in [Collectors -> Nat]
           /\ outcome' \in [Collectors -> Outcome \cup {None}]
           /\ \A d \in Collectors :
                 /\ pc'[d] = "write" => pc[d] = "write" /\ job'[d] = job[d] /\ outcome'[d] = outcome[d]
                 /\ pc'[d] \notin {"evaluate", "write"} => job'[d] = {}
                 /\ at'[d] = at[d] \/ at'[d] = 0
                 /\ job'[d] = {} \/ (job'[d] \subseteq job[d] /\ at'[d] = at[d])
<1> USE DEF AuditInv, AuditTypes, Audit!AfterRow
<1>1. /\ pc' \in [Collectors -> {"idle", "evaluate", "write", "sweep", "cleanup"}]
      /\ job' \in [Collectors -> SUBSET Horizons] /\ at' \in [Collectors -> Nat]
      /\ outcome' \in [Collectors -> Outcome \cup {None}]
  OBVIOUS
<1>2. ASSUME NEW d \in Collectors
      PROVE  /\ pc'[d] = "write" => pc[d] = "write" /\ job'[d] = job[d] /\ outcome'[d] = outcome[d]
             /\ pc'[d] \notin {"evaluate", "write"} => job'[d] = {}
             /\ at'[d] = at[d] \/ at'[d] = 0
             /\ job'[d] = {} \/ (job'[d] \subseteq job[d] /\ at'[d] = at[d])
  <2>1. CASE d = c
    BY <2>1
  <2>2. CASE d # c
    BY <2>2 DEF DueAfterGrace
  <2> QED
    BY <2>1, <2>2
<1> QED
  BY <1>1, <1>2

LEMMA WriteOutcomeKeeps ==
    ASSUME AuditInv, NEW c \in Collectors, Audit!WriteOutcome(c)
    PROVE  AuditInv'
<1>1. PICK h, r : h = outcome[c].row /\ r = outcome[c].result
  OBVIOUS
<1>2. /\ pc[c] = "write" /\ UNCHANGED <<now, sampled, stored, at, wasted>>
      /\ Audit!AfterRow(c, h)
      /\ rows' = IF Audit!Holds(c, h)
                 THEN [rows EXCEPT ![h] = [rows[h] EXCEPT !.status = r.status, !.due = r.end,
                         !.lock = 0, !.lease = None, !.end = r.end, !.entered = r.entered,
                         !.attempts = Audit!AttemptsAfter(rows[h], r.status)]]
                 ELSE rows
  BY <1>1, Zenon DEF Audit!WriteOutcome
<1>3. /\ outcome[c] \in Outcome /\ h \in job[c] /\ h \in Horizons
      /\ r \in Result /\ OutcomeTrue(h, r)
  BY <1>1, <1>2 DEF AuditInv, OutcomesTrue, Outcome, AuditTypes
<1>4. /\ r.status \in Statuses /\ r.status # "FAILED" /\ r.end \in Nat /\ r.entered \in BOOLEAN
  BY <1>3 DEF Result
<1>5. CASE ~Audit!Holds(c, h)
  <2>1. rows' = rows
    BY <1>2, <1>5
  <2> QED
    BY <2>1, <1>2, <1>3, AfterRowSteps, CollectorStepKeeps DEF AuditInv, AuditTypes, Audit!Deleted
<1>6. CASE Audit!Holds(c, h)
  <2> DEFINE a == Audit!AttemptsAfter(rows[h], r.status)
  <2>1. ~Audit!Deleted(h) /\ rows[h].lease = c /\ rows[h] \in Row /\ rows[h].status = "PENDING"
    BY <1>3, <1>6, RowTyped, AuditNumbers DEF Audit!Holds, AuditInv, RowsTrue
  <2>2. a \in Nat /\ (r.status = "PENDING" => rows[h].attempts <= wasted[h] + 1 /\ a <= wasted[h])
    <3>1. /\ rows[h].attempts \in Nat /\ wasted[h] \in Nat /\ rows[h].attempts <= wasted[h] + 1
      BY <1>3, <2>1, RowTyped DEF AuditInv, AttemptsTried, AuditTypes
    <3>2. a = IF r.status = "PENDING" /\ rows[h].attempts > 0 THEN rows[h].attempts - 1
              ELSE rows[h].attempts
      BY DEF Audit!AttemptsAfter
    <3> QED
      BY <3>1, <3>2
  <2> HIDE DEF a
  <2>3. PICK n : n = Written(rows[h], r.status, r.end, r.entered, a)
    OBVIOUS
  <2>4. rows' = [rows EXCEPT ![h] = n]
    BY <1>2, <1>6, <2>3 DEF a, Written
  <2>6. /\ n \in Row /\ n.status = r.status /\ n.due = r.end /\ n.lease = None
        /\ n.attempts = a /\ n.end = r.end /\ n.entered = r.entered
    BY <1>4, <2>1, <2>2, <2>3, WrittenRow
  <2>7. rows' \in [Horizons -> Row \cup {None}] /\ rows'[h] = n
        /\ \A g \in Horizons \ {h} : rows'[g] = rows[g]
    BY <1>3, <2>4, <2>6 DEF AuditInv, AuditTypes
  <2>8. RowGood(h)'
    <3>1. VerdictTrue(h, r)'
      BY <1>2, <1>3, <2>1, VerdictStays DEF OutcomeTrue
    <3>2. VerdictTrue(h, n)'
      BY <3>1, <2>6 DEF VerdictTrue
    <3>3. wasted' = wasted /\ wasted[h] \in Nat
      BY <1>2, <1>3 DEF AuditInv, AuditTypes
    <3>4. n.status = "PENDING" => n.due >= Audit!FirstDue(h)
      BY <1>3, <2>6 DEF OutcomeTrue
    <3>5. n.status = "PENDING" => n.attempts <= wasted[h] + 1 /\ n.attempts <= wasted[h]
      BY <2>2, <2>6, <3>3
    <3>6. n.status # "FAILED" /\ n.lease = None
      BY <1>4, <2>6
    <3> QED
      BY <2>7, <3>2, <3>3, <3>4, <3>5, <3>6 DEF RowGood, Audit!FirstDue, Audit!Start
  <2>9. \A g \in Horizons : ~Audit!Deleted(g)' =>
               /\ ~Audit!Deleted(g)
               /\ (rows'[g] = rows[g] /\ wasted'[g] = wasted[g]) \/ RowGood(g)'
    BY <1>2, <2>1, <2>7, <2>8 DEF Audit!Deleted
  <2> QED
    BY <2>7, <2>9, <1>2, <1>3, AfterRowSteps, CollectorStepKeeps DEF AuditInv, AuditTypes
<1> QED
  BY <1>5, <1>6


\* A failed evaluation: the row is put off, or given up after the last attempt.
LEMMA FailsKeeps ==
    ASSUME AuditInv, NEW c \in Collectors, NEW h \in Horizons, h \in job[c], Audit!Fails(c, h)
    PROVE  AuditInv'
<1>1. UNCHANGED <<now, sampled, stored, at>> /\ Audit!AfterRow(c, h)
  BY DEF Audit!Fails
<1>2. CASE ~Audit!Holds(c, h)
  <2>1. rows' = rows /\ wasted' = wasted
    BY <1>2 DEF Audit!Fails
  <2> QED
    BY <2>1, <1>1, AfterRowSteps, CollectorStepKeeps DEF AuditInv, AuditTypes, Audit!Deleted
<1>3. CASE Audit!Holds(c, h)
  <2>1. ~Audit!Deleted(h) /\ rows[h].lease = c /\ rows[h] \in Row /\ rows[h].status = "PENDING"
    BY <1>3, RowTyped, AuditNumbers DEF Audit!Holds, AuditInv, RowsTrue
  <2>2. PICK s : s = IF rows[h].attempts >= MaxAttempts THEN "FAILED" ELSE "PENDING"
    OBVIOUS
  <2>3. PICK d \in Nat : d = at[c] + Backoff
    BY AuditNumbers DEF AuditInv, AuditTypes
  <2>4. s \in Statuses
    BY <2>2 DEF Statuses
  <2>5. PICK n : n = Failed(rows[h], s, d)
    OBVIOUS
  <2>6. rows' = [rows EXCEPT ![h] = n] /\ wasted' = [wasted EXCEPT ![h] = @ + 1]
    BY <1>3, <2>2, <2>3, <2>5 DEF Audit!Fails, Failed
  <2>7. /\ n \in Row /\ n.status = s /\ n.due = d /\ n.lease = None
        /\ n.attempts = rows[h].attempts
    BY <2>1, <2>3, <2>4, <2>5, FailedRow
  <2>8. /\ rows' \in [Horizons -> Row \cup {None}] /\ rows'[h] = n
        /\ \A g \in Horizons \ {h} : rows'[g] = rows[g] /\ wasted'[g] = wasted[g]
    BY <2>6, <2>7 DEF AuditInv, AuditTypes
  <2>9. wasted[h] \in Nat /\ wasted' \in [Horizons -> Nat] /\ wasted'[h] = wasted[h] + 1
    <3>1. wasted[h] \in Nat /\ wasted[h] + 1 \in Nat /\ wasted \in [Horizons -> Nat]
      BY DEF AuditInv, AuditTypes
    <3> QED
      BY <2>6, <3>1
  <2>10. rows[h].attempts \in Nat /\ rows[h].attempts <= wasted[h] + 1
    BY <2>1, RowTyped DEF AuditInv, AttemptsTried
  <2>11. RowGood(h)'
    <3>1. n.due >= Audit!FirstDue(h)
      <4>1. at[c] \in Nat /\ at[c] >= Audit!FirstDue(h)
        BY DEF AuditInv, AuditTypes, DueAfterGrace
      <4> QED
        BY <2>3, <2>7, <4>1, AuditNumbers
    <3>2. VerdictTrue(h, n)'
      BY <2>2, <2>7 DEF VerdictTrue, Audit!Verdicts
    <3>3. /\ n.status = "PENDING" => n.attempts <= wasted'[h] + 1 /\ n.attempts <= wasted'[h]
          /\ n.status = "FAILED" => wasted'[h] >= MaxAttempts
      BY <2>2, <2>7, <2>9, <2>10, AuditNumbers
    <3> QED
      BY <2>7, <2>8, <3>1, <3>2, <3>3 DEF RowGood, Audit!FirstDue, Audit!Start
  <2>12. \A g \in Horizons : ~Audit!Deleted(g)' =>
               /\ ~Audit!Deleted(g)
               /\ (rows'[g] = rows[g] /\ wasted'[g] = wasted[g]) \/ RowGood(g)'
    BY <2>1, <2>8, <2>11 DEF Audit!Deleted
  <2> QED
    BY <2>8, <2>9, <2>12, <1>1, AfterRowSteps, CollectorStepKeeps
<1> QED
  BY <1>2, <1>3

LEMMA SweepKeeps ==
    ASSUME AuditInv, NEW c \in Collectors, Audit!Sweep(c)
    PROVE  AuditInv'
<1>1. /\ pc[c] = "sweep" /\ pc' = [pc EXCEPT ![c] = "cleanup"] /\ at' = [at EXCEPT ![c] = 0]
      /\ UNCHANGED <<now, sampled, stored, job, outcome>>
      /\ rows' = [h \in Horizons |-> IF h \in Audit!Lost(at[c]) THEN Swept(rows[h]) ELSE rows[h]]
      /\ wasted' = [h \in Horizons |-> IF h \in Audit!Lost(at[c]) THEN wasted[h] + 1 ELSE wasted[h]]
  BY DEF Audit!Sweep, Swept
<1>2. \A h \in Audit!Lost(at[c]) :
        /\ h \in Horizons /\ ~Audit!Deleted(h) /\ rows[h] \in Row /\ rows[h].status = "PENDING"
        /\ rows[h].attempts \in Nat /\ rows[h].attempts >= MaxAttempts
  BY RowTyped DEF Audit!Lost, AuditInv
<1>3. \A h \in Audit!Lost(at[c]) :
        rows'[h] \in Row /\ rows'[h].status = "FAILED" /\ rows'[h].lease = None
  BY <1>1, <1>2, SweptRow
<1>4. rows' \in [Horizons -> Row \cup {None}]
  BY <1>1, <1>3 DEF AuditInv, AuditTypes
<1>5. wasted' \in [Horizons -> Nat]
  <2>1. \A h \in Horizons : wasted[h] \in Nat /\ wasted[h] + 1 \in Nat
    BY DEF AuditInv, AuditTypes
  <2> QED
    BY <1>1, <2>1
<1>6. ASSUME NEW h \in Horizons, ~Audit!Deleted(h)'
      PROVE  /\ ~Audit!Deleted(h)
             /\ (rows'[h] = rows[h] /\ wasted'[h] = wasted[h]) \/ RowGood(h)'
  <2>1. CASE h \notin Audit!Lost(at[c])
    BY <1>1, <1>6, <2>1 DEF Audit!Deleted
  <2>2. CASE h \in Audit!Lost(at[c])
    <3>1. wasted'[h] >= MaxAttempts
      <4>1. wasted'[h] = wasted[h] + 1 /\ wasted[h] \in Nat /\ rows[h].attempts <= wasted[h] + 1
        BY <1>1, <1>2, <2>2 DEF AuditInv, AuditTypes, AttemptsTried
      <4>2. MaxAttempts \in Nat
        BY AuditNumbers
      <4> QED
        BY <1>2, <2>2, <4>1, <4>2
    <3>2. VerdictTrue(h, rows[h])'
      BY <1>3, <2>2 DEF VerdictTrue, Audit!Verdicts
    <3> QED
      BY <1>2, <1>3, <2>2, <3>1, <3>2 DEF RowGood
  <2> QED
    BY <2>1, <2>2
<1>7. /\ pc' \in [Collectors -> {"idle", "evaluate", "write", "sweep", "cleanup"}]
      /\ job' \in [Collectors -> SUBSET Horizons] /\ at' \in [Collectors -> Nat]
      /\ outcome' \in [Collectors -> Outcome \cup {None}]
  BY <1>1 DEF AuditInv, AuditTypes
<1>8. ASSUME NEW d \in Collectors
      PROVE  /\ pc'[d] = "write" => pc[d] = "write" /\ job'[d] = job[d] /\ outcome'[d] = outcome[d]
             /\ pc'[d] \notin {"evaluate", "write"} => job'[d] = {}
             /\ at'[d] = at[d] \/ at'[d] = 0
             /\ job'[d] = {} \/ (job'[d] \subseteq job[d] /\ at'[d] = at[d])
  <2>1. CASE d = c
    BY <1>1, <2>1 DEF AuditInv, AuditTypes, DueAfterGrace
  <2>2. CASE d # c
    BY <1>1, <2>2 DEF AuditInv, AuditTypes, DueAfterGrace
  <2> QED
    BY <2>1, <2>2
<1> QED
  BY <1>1, <1>4, <1>5, <1>6, <1>7, <1>8, CollectorStepKeeps

\* A process that dies leaves its rows as they are.
LEMMA CrashKeeps ==
    ASSUME AuditInv, NEW c \in Collectors, Audit!Crash(c) \/ Audit!CleanupNotDue(c)
    PROVE  AuditInv'
<1>1. /\ UNCHANGED <<now, sampled, stored, rows, wasted>> /\ pc' = [pc EXCEPT ![c] = "idle"]
      /\ \/ pc[c] = "cleanup" /\ job' = job /\ outcome' = outcome /\ at' = at
         \/ /\ job' = [job EXCEPT ![c] = {}] /\ outcome' = [outcome EXCEPT ![c] = None]
            /\ at' = [at EXCEPT ![c] = 0]
  BY DEF Audit!Crash, Audit!CleanupNotDue
<1>2. /\ pc' \in [Collectors -> {"idle", "evaluate", "write", "sweep", "cleanup"}]
      /\ job' \in [Collectors -> SUBSET Horizons] /\ at' \in [Collectors -> Nat]
      /\ outcome' \in [Collectors -> Outcome \cup {None}]
  BY <1>1 DEF AuditInv, AuditTypes
<1>3. ASSUME NEW d \in Collectors
      PROVE  /\ pc'[d] = "write" => pc[d] = "write" /\ job'[d] = job[d] /\ outcome'[d] = outcome[d]
             /\ pc'[d] \notin {"evaluate", "write"} => job'[d] = {}
             /\ at'[d] = at[d] \/ at'[d] = 0
             /\ job'[d] = {} \/ (job'[d] \subseteq job[d] /\ at'[d] = at[d])
  <2>1. CASE d = c
    BY <1>1, <2>1 DEF AuditInv, AuditTypes, DueAfterGrace
  <2>2. CASE d # c
    BY <1>1, <2>2 DEF AuditInv, AuditTypes, DueAfterGrace
  <2> QED
    BY <2>1, <2>2
<1> QED
  BY <1>1, <1>2, <1>3, CollectorStepKeeps DEF AuditInv, AuditTypes, Audit!Deleted

\* A signal goes with its outcomes, before any of its samples.
LEMMA CleanupKeeps ==
    ASSUME AuditInv, NEW c \in Collectors, Audit!Cleanup(c)
    PROVE  AuditInv'
<1>1. /\ UNCHANGED <<now, sampled, job, at, outcome, wasted>>
      /\ pc[c] = "cleanup" /\ pc' = [pc EXCEPT ![c] = "idle"]
      /\ stored' = {t \in stored : ~(now > t + Retention)}
      /\ rows' = [h \in Horizons |-> IF now > 1 + Retention THEN None ELSE rows[h]]
  BY AuditNumbers DEF Audit!Cleanup
<1>2. CASE now > 1 + Retention
  <2>1. /\ rows' \in [Horizons -> Row \cup {None}] /\ \A h \in Horizons : Audit!Deleted(h)'
        /\ pc' \in [Collectors -> {"idle", "evaluate", "write", "sweep", "cleanup"}]
        /\ stored' \subseteq stored
    BY <1>1, <1>2 DEF AuditInv, AuditTypes, Audit!Deleted
  <2>2. AuditTypes'
    BY <1>1, <2>1 DEF AuditInv, AuditTypes, Audit!Samples, Audit!Start
  <2>3. SamplesKept' /\ RowsTrue' /\ AttemptsTried'
    BY <2>1 DEF SamplesKept, RowsTrue, AttemptsTried
  <2>4. DueAfterGrace'
    <3>1. \A d \in Collectors : /\ pc'[d] \notin {"evaluate", "write"} => job'[d] = {}
                                /\ at'[d] <= now'
                                /\ \A h \in job'[d] : at'[d] >= Audit!FirstDue(h)
      BY <1>1 DEF AuditInv, AuditTypes, DueAfterGrace
    <3> QED
      BY <2>1, <3>1 DEF DueAfterGrace, Audit!FirstDue, Audit!Start
  <2>5. OutcomesTrue'
    BY <1>1, <2>1, OutcomesStay DEF AuditInv, AuditTypes
  <2> QED
    BY <2>2, <2>3, <2>4, <2>5 DEF AuditInv
<1>3. CASE ~(now > 1 + Retention)
  <2>1. \A t \in stored : ~(now > t + Retention)
    <3>1. now \in Nat /\ stored \subseteq Nat /\ \A t \in stored : t >= 1
      BY AuditNumbers DEF AuditInv, AuditTypes
    <3> QED
      BY <1>3, <3>1, AuditNumbers
  <2>2. rows' = rows
    BY <1>1, <1>3 DEF AuditInv, AuditTypes
  <2>5. stored' = stored
    BY <1>1, <2>1
  <2>3. pc' \in [Collectors -> {"idle", "evaluate", "write", "sweep", "cleanup"}]
    BY <1>1 DEF AuditInv, AuditTypes
  <2>4. ASSUME NEW d \in Collectors
        PROVE  /\ pc'[d] = "write" => pc[d] = "write"
               /\ pc'[d] \notin {"evaluate", "write"} => job'[d] = {}
    BY <1>1 DEF AuditInv, AuditTypes, DueAfterGrace
  <2> QED
    BY <1>1, <2>5, <2>2, <2>3, <2>4, CollectorStepKeeps DEF AuditInv, AuditTypes, Audit!Deleted
<1> QED
  BY <1>2, <1>3

-----------------------------------------------------------------------------
(* An evaluation knows every contact that there was, and its window is right. *)

LEMMA WindowIsTrue ==
    ASSUME AuditInv, NEW h \in Horizons,
           NEW end, end = IF Audit!TrueContacts(h) = {} THEN 1 + h
                          ELSE Audit!Min(Audit!TrueContacts(h)) + h
    PROVE  end \in Nat /\ end >= 1 + h
<1>1. h \in Nat /\ Audit!TrueContacts(h) \subseteq Nat /\ \A t \in Audit!TrueContacts(h) : t >= 1
  BY AuditNumbers DEF Audit!TrueContacts
<1>2. CASE Audit!TrueContacts(h) = {}
  BY <1>1, <1>2
<1>3. CASE Audit!TrueContacts(h) # {}
  <2>1. \E x \in Audit!TrueContacts(h) : \A y \in Audit!TrueContacts(h) : x <= y
    BY <1>1, <1>3, Smallest
  <2>2. Audit!Min(Audit!TrueContacts(h)) \in Audit!TrueContacts(h)
    BY <2>1 DEF Audit!Min
  <2>3. end = Audit!Min(Audit!TrueContacts(h)) + h
    BY <1>3
  <2> QED
    BY <1>1, <2>2, <2>3
<1> QED
  BY <1>2, <1>3

LEMMA ContactsKnown ==
    ASSUME AuditInv, NEW h \in Horizons, ~Audit!Deleted(h), NEW time \in Nat,
           Audit!FirstDue(h) <= time, time <= now
    PROVE  {t \in {u \in stored : sampled[u] # "none" /\ u <= Audit!Start + 2 * h} :
                sampled[t] = "inside" /\ t <= time /\ t <= Audit!Start + h} = Audit!TrueContacts(h)
<1>1. h \in Nat /\ now \in Nat /\ Audit!Samples \subseteq Nat /\ stored \subseteq Audit!Samples
  BY AuditNumbers DEF AuditInv, AuditTypes
<1>2. 1 + h + Grace <= time /\ Grace \in Nat
  BY AuditNumbers
<1>3. ASSUME NEW t \in Audit!Samples, sampled[t] = "inside", t <= 1 + h
      PROVE  t \in stored /\ t <= time /\ t <= 1 + 2 * h
  <2>1. t \notin stored => now < t + Grace
    BY <1>3 DEF AuditInv, SamplesKept
  <2> QED
    BY <1>1, <1>2, <1>3, <2>1
<1>4. Audit!Start = 1
  BY AuditNumbers
<1> QED
  BY <1>1, <1>3, <1>4 DEF Audit!TrueContacts

\* In a covered window no stretch longer than MaxGap is without a sample.
LEMMA CoveredHasNoGap ==
    ASSUME NEW points \in SUBSET Nat, NEW end \in Nat, Audit!Covered(points, end),
           NEW t \in Nat, 1 <= t, t <= end - MaxGap - 1
    PROVE  \E s \in points : s >= t + 1 /\ s <= t + MaxGap
<1>1. MaxGap \in Nat /\ Audit!Start = 1
  BY AuditNumbers
<1> DEFINE later == {s \in points \cup {end} : t < s}
<1>9. t < end
  BY <1>1
<1>2. end \in later /\ later \in SUBSET Nat
  BY <1>9
<1>3. PICK x \in later : \A y \in later : x <= y
  BY <1>2, Smallest
<1>4. x \in Nat /\ x > t /\ x \in (points \cup {end}) \ {1}
  BY <1>3
<1>5. PICK s \in points \cup {1} : s < x /\ x - s <= MaxGap
  BY <1>1, <1>4 DEF Audit!Covered
<1>6. s \in Nat /\ s <= t
  BY <1>3, <1>4, <1>5
<1>7. x <= t + MaxGap
  BY <1>1, <1>4, <1>5, <1>6
<1>8. x # end
  BY <1>1, <1>7
<1> QED
  BY <1>4, <1>7, <1>8

\* calculateOutcome says nothing that is not so.
LEMMA OutcomeIsTrue ==
    ASSUME AuditInv, NEW h \in Horizons, ~Audit!Deleted(h), NEW time \in Nat,
           Audit!FirstDue(h) <= time, time <= now
    PROVE  LET r == Audit!CalculateOutcome(h, time)
           IN  r \in Result /\ OutcomeTrue(h, r)
<1> DEFINE seen     == {t \in stored : sampled[t] # "none" /\ t <= Audit!Start + 2 * h}
           contacts == {t \in seen : sampled[t] = "inside" /\ t <= time /\ t <= Audit!Start + h}
           end      == Audit!WindowEnd(h, contacts)
           points   == {t \in seen : t <= time /\ t <= end}
           status   == IF time < end THEN "PENDING"
                       ELSE IF Audit!Covered(points, end) THEN "COMPLETE"
                       ELSE "INCOMPLETE_DATA"
           r        == [status |-> status, end |-> end,
                        entered |-> status = "COMPLETE" /\ contacts # {}]
<1>1. Audit!CalculateOutcome(h, time) = r
  BY Zenon DEF Audit!CalculateOutcome
<1>2. contacts = Audit!TrueContacts(h)
  BY ContactsKnown, Zenon
<1>3. points \subseteq {t \in Audit!Samples : sampled[t] # "none"} /\ Audit!Samples \subseteq Nat
  <2> HIDE DEF contacts, end, status
  <2>1. points \subseteq stored
    OBVIOUS
  <2>2. Audit!Samples \subseteq Nat
    BY AuditNumbers
  <2> HIDE DEF points
  <2>3. stored \subseteq {t \in Audit!Samples : sampled[t] # "none"}
    BY DEF AuditInv, AuditTypes
  <2> QED
    BY <2>1, <2>2, <2>3
<1>4. end = IF Audit!TrueContacts(h) = {} THEN 1 + h ELSE Audit!Min(Audit!TrueContacts(h)) + h
  BY <1>2, AuditNumbers DEF Audit!WindowEnd
<1> HIDE DEF contacts, points, end
<1>5. end \in Nat /\ end >= 1 + h
  BY <1>4, WindowIsTrue
<1>6. status \in Statuses \ {"FAILED"}
  BY DEF Statuses
<1>7. /\ status = "PENDING" => time < end
      /\ status \in Audit!Verdicts => end <= time
      /\ status = "COMPLETE" => Audit!Covered(points, end)
  BY <1>5 DEF Audit!Verdicts
<1> HIDE DEF status
<1>8. r.status = status /\ r.end = end /\ r.entered = (status = "COMPLETE" /\ contacts # {})
  BY Zenon
<1>9. r \in Result
  BY <1>5, <1>6 DEF Result
<1> HIDE DEF r
<1>10. h \in Nat /\ now \in Nat /\ Grace \in Nat /\ MaxGap \in Nat
       /\ Audit!FirstDue(h) = 1 + h + Grace
  BY AuditNumbers DEF AuditInv, AuditTypes
<1>11. r.status = "PENDING" => r.end >= Audit!FirstDue(h)
  BY <1>5, <1>7, <1>8, <1>10
<1>12. r.status \in Audit!Verdicts => Judged(h, r.end)
  BY <1>4, <1>8, <1>10 DEF Judged
<1>13. ASSUME r.status = "COMPLETE"
       PROVE  /\ \A t \in 1 .. r.end - MaxGap - 1 :
                     \E s \in t + 1 .. t + MaxGap + 1 : s \in Audit!Samples /\ sampled[s] # "none"
              /\ r.entered <=> Audit!TrueContacts(h) # {}
  <2>1. Audit!Covered(points, end)
    BY <1>7, <1>8, <1>13
  <2>2. ASSUME NEW t \in 1 .. end - MaxGap - 1
        PROVE  \E s \in t + 1 .. t + MaxGap + 1 : s \in Audit!Samples /\ sampled[s] # "none"
    <3>1. t \in Nat /\ 1 <= t /\ t <= end - MaxGap - 1
      BY <1>5, <1>10
    <3>2. PICK s \in points : s >= t + 1 /\ s <= t + MaxGap
      BY <1>3, <1>5, <2>1, <3>1, CoveredHasNoGap
    <3> QED
      BY <1>3, <1>10, <3>1, <3>2
  <2>3. r.entered <=> Audit!TrueContacts(h) # {}
    BY <1>2, <1>8, <1>13
  <2> QED
    BY <1>8, <2>2, <2>3
<1>14. OutcomeTrue(h, r)
  BY <1>11, <1>12, <1>13 DEF OutcomeTrue, VerdictTrue
<1> QED
  BY <1>1, <1>9, <1>14

LEMMA EvaluateKeeps ==
    ASSUME AuditInv, NEW c \in Collectors, NEW h \in Horizons, Audit!Evaluate(c, h)
    PROVE  AuditInv'
<1>1. PICK r : r = Audit!CalculateOutcome(h, at[c])
  OBVIOUS
<1>2. /\ pc[c] = "evaluate" /\ h \in job[c] /\ ~Audit!Deleted(h)
      /\ outcome' = [outcome EXCEPT ![c] = [row |-> h, result |-> r]]
      /\ pc' = [pc EXCEPT ![c] = "write"]
      /\ UNCHANGED <<now, sampled, stored, rows, job, at, wasted>>
  BY <1>1 DEF Audit!Evaluate
<1>3. at[c] \in Nat /\ Audit!FirstDue(h) <= at[c] /\ at[c] <= now
  <2>1. at[c] \in Nat /\ at[c] >= Audit!FirstDue(h) /\ at[c] <= now
    BY <1>2 DEF AuditInv, AuditTypes, DueAfterGrace
  <2>2. Audit!FirstDue(h) \in Nat
    BY AuditNumbers
  <2> QED
    BY <2>1, <2>2
<1>4. r \in Result /\ OutcomeTrue(h, r)
  BY <1>1, <1>2, <1>3, OutcomeIsTrue
<1>5. OutcomeTrue(h, r)'
  <2>1. ~Audit!Deleted(h)' => VerdictTrue(h, r)'
    BY <1>2, <1>4, VerdictStays DEF OutcomeTrue
  <2> QED
    BY <1>4, <2>1 DEF OutcomeTrue, Audit!FirstDue, Audit!Start
<1>6. PICK o : o = [row |-> h, result |-> r]
  OBVIOUS
<1>7. o \in Outcome /\ o.row = h /\ o.result = r
  BY <1>4, <1>6 DEF Outcome
<1>8. /\ outcome' \in [Collectors -> Outcome \cup {None}] /\ outcome'[c] = o
      /\ \A d \in Collectors \ {c} : outcome'[d] = outcome[d] /\ pc'[d] = pc[d]
      /\ pc' \in [Collectors -> {"idle", "evaluate", "write", "sweep", "cleanup"}]
  BY <1>2, <1>6, <1>7 DEF AuditInv, AuditTypes
<1>9. AuditTypes'
  BY <1>2, <1>8 DEF AuditInv, AuditTypes, Audit!Samples, Audit!Start
<1>10. SamplesKept' /\ AttemptsTried'
  BY <1>2 DEF AuditInv, SamplesKept, AttemptsTried, Audit!Deleted, Audit!Samples, Audit!Start
<1>11. DueAfterGrace'
  <2>1. \A d \in Collectors : pc'[d] \notin {"evaluate", "write"} => job'[d] = {}
    BY <1>2, <1>8 DEF AuditInv, AuditTypes, DueAfterGrace
  <2> QED
    BY <1>2, <2>1 DEF AuditInv, DueAfterGrace, Audit!Deleted, Audit!FirstDue, Audit!Start
<1>12. RowsTrue'
  <2> SUFFICES ASSUME NEW g \in Horizons, ~Audit!Deleted(g)'
               PROVE  /\ rows'[g].status # "PENDING" => rows'[g].lease = None
                      /\ VerdictTrue(g, rows[g])'
    BY DEF RowsTrue
  <2> QED
    BY <1>2, RowStays DEF AuditInv
<1>13. OutcomesTrue'
  <2> SUFFICES ASSUME NEW d \in Collectors, pc'[d] = "write"
               PROVE  /\ outcome'[d] \in Outcome /\ outcome'[d].row \in job'[d]
                      /\ OutcomeTrue(outcome[d].row, outcome[d].result)'
    BY DEF OutcomesTrue, Outcome, Result, Statuses
  <2>1. CASE d = c
    BY <1>2, <1>5, <1>7, <1>8, <2>1
  <2>2. CASE d # c
    <3>1. PICK u : u = outcome[d]
      OBVIOUS
    <3>2. /\ u \in Outcome /\ u.row \in job[d] /\ u.row \in Horizons
          /\ OutcomeTrue(u.row, u.result)
      BY <1>8, <2>2, <3>1 DEF AuditInv, OutcomesTrue, AuditTypes
    <3>3. PICK g, s : g = u.row /\ s = u.result
      OBVIOUS
    <3>4. ~Audit!Deleted(g)' => VerdictTrue(g, s)'
      BY <1>2, <3>2, <3>3, VerdictStays DEF OutcomeTrue, Audit!Deleted
    <3>5. OutcomeTrue(g, s)'
      BY <3>2, <3>3, <3>4 DEF OutcomeTrue, Audit!FirstDue, Audit!Start
    <3> QED
      BY <1>2, <1>8, <2>2, <3>1, <3>2, <3>3, <3>5
  <2> QED
    BY <2>1, <2>2
<1> QED
  BY <1>9, <1>10, <1>11, <1>12, <1>13 DEF AuditInv

-----------------------------------------------------------------------------
(* Time and samples *)

LEMMA StoreKeeps ==
    ASSUME AuditInv, NEW t \in Audit!Samples, Audit!Store(t)
    PROVE  AuditInv'
<1>1. /\ UNCHANGED <<now, sampled, rows, pc, job, at, outcome, wasted>>
      /\ sampled[t] # "none" /\ stored' = stored \cup {t}
  BY DEF Audit!Store, Audit!Unstored
<1>2. AuditTypes'
  BY <1>1 DEF AuditInv, AuditTypes, Audit!Samples, Audit!Start
<1>3. SamplesKept'
  BY <1>1 DEF AuditInv, SamplesKept, Audit!Deleted, Audit!Samples, Audit!Start
<1>4. DueAfterGrace' /\ AttemptsTried'
  BY <1>1 DEF AuditInv, DueAfterGrace, AttemptsTried, Audit!Deleted, Audit!FirstDue, Audit!Start
<1>5. RowsTrue'
  <2> SUFFICES ASSUME NEW g \in Horizons, ~Audit!Deleted(g)'
               PROVE  /\ rows'[g].status # "PENDING" => rows'[g].lease = None
                      /\ VerdictTrue(g, rows[g])'
    BY DEF RowsTrue
  <2> QED
    BY <1>1, RowStays DEF AuditInv
<1>6. OutcomesTrue'
  BY <1>1, OutcomesStay DEF AuditInv, AuditTypes, Audit!Deleted
<1> QED
  BY <1>2, <1>3, <1>4, <1>5, <1>6 DEF AuditInv

\* Contacts after the horizon are none, so a later sample changes no verdict.
LEMMA VerdictOutlivesTick ==
    ASSUME AuditInv, Audit!Tick, NEW h \in Horizons, NEW r, VerdictTrue(h, r)
    PROVE  VerdictTrue(h, r)'
<1>1. /\ now' = now + 1 /\ now \in Nat /\ h \in Nat /\ sampled \in [Audit!Samples -> {"away", "inside", "none"}]
      /\ \A s \in Audit!Samples : s # now' => sampled'[s] = sampled[s]
      /\ \A s \in Audit!Samples : sampled[s] # "none" => s <= now
      /\ Audit!Samples \subseteq Nat
  BY AuditNumbers DEF AuditInv, AuditTypes, Audit!Tick
<1>2. Audit!Samples' = Audit!Samples /\ Audit!Start = 1 /\ Audit!Start' = 1
  BY AuditNumbers DEF Audit!Samples, Audit!Start
<1>3. ASSUME now >= 1 + h PROVE Audit!TrueContacts(h)' = Audit!TrueContacts(h)
  <2>1. \A t \in Audit!Samples : t <= 1 + h => sampled'[t] = sampled[t]
    BY <1>1, <1>3
  <2> QED
    BY <1>2, <2>1 DEF Audit!TrueContacts
<1>4. ASSUME r.status \in Audit!Verdicts
      PROVE  /\ Judged(h, r.end)' /\ Audit!TrueContacts(h)' = Audit!TrueContacts(h)
  <2>1. now >= 1 + h /\ now' >= 1 + h
    BY <1>1, <1>4 DEF VerdictTrue, Judged
  <2>2. Audit!TrueContacts(h)' = Audit!TrueContacts(h)
    BY <1>3, <2>1
  <2> QED
    BY <1>4, <2>1, <2>2 DEF VerdictTrue, Judged
<1>5. ASSUME r.status = "COMPLETE", NEW t \in 1 .. r.end - MaxGap - 1
      PROVE  \E s \in t + 1 .. t + MaxGap + 1 : s \in Audit!Samples /\ sampled'[s] # "none"
  <2>1. PICK s \in t + 1 .. t + MaxGap + 1 : s \in Audit!Samples /\ sampled[s] # "none"
    BY <1>5 DEF VerdictTrue
  <2>2. sampled'[s] # "none"
    BY <1>1, <2>1
  <2> QED
    BY <2>1, <2>2
<1>6. r.status = "COMPLETE" => (r.entered <=> Audit!TrueContacts(h)' # {})
  BY <1>4 DEF VerdictTrue, Audit!Verdicts
<1> QED
  BY <1>2, <1>4, <1>5, <1>6 DEF VerdictTrue, Audit!Verdicts

LEMMA TickKeeps ==
    ASSUME AuditInv, Audit!Tick
    PROVE  AuditInv'
<1>1. /\ now' = now + 1 /\ now \in Nat
      /\ \A s \in Audit!Samples : s # now' => sampled'[s] = sampled[s]
      /\ UNCHANGED <<stored, rows, pc, job, at, outcome, wasted>>
      /\ \A s \in Audit!Samples : sampled[s] # "none" => s <= now
      /\ Audit!Samples \subseteq Nat
  BY AuditNumbers DEF AuditInv, AuditTypes, Audit!Tick
<1>2. sampled' \in [Audit!Samples -> {"away", "inside", "none"}]
  BY DEF AuditInv, AuditTypes, Audit!Tick
<1>3. AuditTypes'
  <2>1. Audit!Samples' = Audit!Samples
    BY DEF Audit!Samples, Audit!Start
  <2>2. \A s \in Audit!Samples : sampled'[s] # "none" => s <= now'
    BY <1>1
  <2>3. \A s \in stored : s \in Audit!Samples /\ sampled'[s] # "none"
    <3>1. \A s \in stored : s \in Audit!Samples /\ sampled[s] # "none"
      BY DEF AuditInv, AuditTypes
    <3>2. \A s \in stored : s # now'
      BY <1>1, <3>1
    <3> QED
      BY <1>1, <3>1, <3>2
  <2>4. now' \in Nat /\ now' >= 1
    BY <1>1 DEF AuditInv, AuditTypes
  <2> QED
    BY <1>1, <1>2, <2>1, <2>2, <2>3, <2>4 DEF AuditInv, AuditTypes
<1>4. SamplesKept'
  <2> SUFFICES ASSUME NEW h \in Horizons, ~Audit!Deleted(h)', NEW t \in Audit!Samples,
                      sampled'[t] # "none", t \notin stored
               PROVE  now' < t + Grace
    BY <1>1 DEF SamplesKept, Audit!Samples, Audit!Start
  <2>1. ~Audit!Deleted(h) /\ t \in Nat /\ Grace \in Nat /\ Retention \in Nat
        /\ 1 <= Grace /\ Grace <= Retention
    BY <1>1, AuditNumbers, AuditAssumption DEF Audit!Deleted
  <2>2. CASE t = now'
    BY <1>1, <2>1, <2>2
  <2>3. CASE t # now'
    <3>1. sampled[t] # "none" /\ now < t + Grace
      BY <1>1, <2>1, <2>3 DEF AuditInv, SamplesKept
    <3>2. t + Retention >= now
      BY <1>1, <2>1, <3>1
    <3>3. t \in Audit!Unstored
      BY <3>1, <3>2 DEF Audit!Unstored
    <3> QED
      BY <1>1, <3>3 DEF Audit!Tick
  <2> QED
    BY <2>2, <2>3
<1>5. DueAfterGrace'
  <2>1. \A d \in Collectors : at'[d] <= now'
    BY <1>1 DEF AuditInv, AuditTypes, DueAfterGrace
  <2>2. \A d \in Collectors : /\ pc'[d] \notin {"evaluate", "write"} => job'[d] = {}
                              /\ \A h \in job'[d] : at'[d] >= Audit!FirstDue(h)
    BY <1>1 DEF AuditInv, DueAfterGrace
  <2>3. \A h \in Horizons : ~Audit!Deleted(h)' /\ rows'[h].status = "PENDING" =>
           rows'[h].due >= Audit!FirstDue(h)
    BY <1>1 DEF AuditInv, DueAfterGrace, Audit!Deleted
  <2> QED
    BY <2>1, <2>2, <2>3 DEF DueAfterGrace, Audit!FirstDue, Audit!Start
<1>6. RowsTrue'
  <2> SUFFICES ASSUME NEW h \in Horizons, ~Audit!Deleted(h)'
               PROVE  /\ rows'[h].status # "PENDING" => rows'[h].lease = None
                      /\ VerdictTrue(h, rows[h])'
    BY DEF RowsTrue
  <2>1. PICK r : r = rows[h]
    OBVIOUS
  <2>2. VerdictTrue(h, r) /\ (r.status # "PENDING" => r.lease = None)
    BY <1>1, <2>1 DEF AuditInv, RowsTrue, Audit!Deleted
  <2>3. VerdictTrue(h, r)'
    BY <2>2, VerdictOutlivesTick
  <2> QED
    BY <1>1, <2>1, <2>2, <2>3
<1>7. OutcomesTrue'
  <2> SUFFICES ASSUME NEW d \in Collectors, pc'[d] = "write"
               PROVE  /\ outcome'[d] \in Outcome /\ outcome'[d].row \in job'[d]
                      /\ OutcomeTrue(outcome[d].row, outcome[d].result)'
    BY DEF OutcomesTrue, Outcome, Result, Statuses
  <2>1. PICK h, r : h = outcome[d].row /\ r = outcome[d].result
    OBVIOUS
  <2>2. outcome[d] \in Outcome /\ h \in job[d] /\ h \in Horizons /\ OutcomeTrue(h, r)
    BY <1>1, <2>1 DEF AuditInv, AuditTypes, OutcomesTrue
  <2>3. ~Audit!Deleted(h)' => VerdictTrue(h, r)'
    BY <1>1, <2>2, VerdictOutlivesTick DEF OutcomeTrue, Audit!Deleted
  <2>4. OutcomeTrue(h, r)'
    BY <2>2, <2>3 DEF OutcomeTrue, Audit!FirstDue, Audit!Start
  <2> QED
    BY <1>1, <2>1, <2>2, <2>4
<1>8. AttemptsTried'
  BY <1>1 DEF AuditInv, AttemptsTried, Audit!Deleted
<1> QED
  BY <1>3, <1>4, <1>5, <1>6, <1>7, <1>8 DEF AuditInv

LEMMA AuditStutters ==
    ASSUME AuditInv, UNCHANGED <<now, auditVars>>
    PROVE  AuditInv'
<1>1. UNCHANGED <<now, sampled, stored, rows, pc, job, at, outcome, wasted>>
  BY DEF auditVars
<1>2. \A d \in Collectors : pc[d] \notin {"evaluate", "write"} => job[d] = {}
  BY DEF AuditInv, DueAfterGrace
<1> QED
  BY <1>1, <1>2, CollectorStepKeeps DEF AuditInv, AuditTypes, Audit!Deleted

LEMMA AuditStepKeeps ==
    ASSUME AuditInv, Audit!Next
    PROVE  AuditInv'
<1>1. ASSUME NEW c \in Collectors, Audit!Maintain(c) \/ Audit!Crash(c)
      PROVE  AuditInv'
  <2>1. ASSUME NEW h \in Horizons, Audit!SourceGone(c, h)
        PROVE  AuditInv'
    BY <2>1, FailsKeeps DEF Audit!SourceGone
  <2>2. CASE Audit!Maintain(c)
    BY <2>1, <2>2, ClaimKeeps, EvaluateKeeps, WriteOutcomeKeeps, SweepKeeps, CleanupKeeps, CrashKeeps
       DEF Audit!Maintain
  <2>3. CASE Audit!Crash(c)
    BY <2>3, CrashKeeps
  <2> QED
    BY <1>1, <2>2, <2>3
<1>2. ASSUME NEW c \in Collectors, NEW h \in Horizons, Audit!EvaluationFails(c, h)
      PROVE  AuditInv'
  BY <1>2, FailsKeeps DEF Audit!EvaluationFails
<1> QED
  BY <1>1, <1>2, StoreKeeps, TickKeeps DEF Audit!Next

-----------------------------------------------------------------------------
(* The theorems about RadarAudit *)

LEMMA AuditRuns == Spec => [](part = "audit" => AuditInv)
<1>1. Init => (part = "audit" => AuditInv)
  BY AuditStarts
<1>2. (part = "audit" => AuditInv) /\ [Next]_vars => (part = "audit" => AuditInv)'
  <2> SUFFICES ASSUME part = "audit" => AuditInv, [Next]_vars, part' = "audit"
               PROVE  AuditInv'
    OBVIOUS
  <2>1. CASE Next
    <3>1. part = "audit" /\ Audit!Next
      BY <2>1 DEF Next, RecorderNext, AuditNext, EngineNext, CollectorNext, RecorderStep, AuditStep,
                  EngineStep, CollectorStep
    <3> QED
      BY <3>1, AuditStepKeeps
  <2>2. CASE UNCHANGED vars
    <3>1. part = "audit" /\ AuditInv /\ UNCHANGED <<now, auditVars>>
      BY <2>2 DEF vars
    <3> QED
      BY <3>1, AuditStutters
  <2> QED
    BY <2>1, <2>2
<1> QED
  BY <1>1, <1>2, PTL DEF Spec

\* A verdict is given over a full horizon after the first contact, however late
\* the contact, its sample or the evaluation was.
THEOREM VerdictIsTrue == Spec => []VerdictCoversWindow
<1>1. (part = "audit" => AuditInv) => VerdictCoversWindow
  <2> SUFFICES ASSUME part = "audit", AuditInv, NEW h \in Horizons, ~Audit!Deleted(h),
                      rows[h].status \in Audit!Verdicts
               PROVE  IF Audit!TrueContacts(h) = {} THEN rows[h].end = Audit!Start + h
                      ELSE rows[h].end = Audit!Min(Audit!TrueContacts(h)) + h
    BY Zenon DEF VerdictCoversWindow, Audit!VerdictCoversWindow
  <2> QED
    BY AuditNumbers DEF AuditInv, RowsTrue, VerdictTrue, Judged
<1> QED
  BY <1>1, AuditRuns, PTL

\* A COMPLETE outcome has no gap in its window and says truly whether the zone
\* was reached.
THEOREM CompleteIsTrue == Spec => []CompleteIsCovered
<1>1. (part = "audit" => AuditInv) => CompleteIsCovered
  <2> SUFFICES ASSUME part = "audit", AuditInv, NEW h \in Horizons, ~Audit!Deleted(h),
                      rows[h].status = "COMPLETE"
               PROVE  /\ \A t \in Audit!Start .. rows[h].end - MaxGap - 1 :
                             \E s \in t + 1 .. t + MaxGap + 1 : sampled[s] # "none"
                      /\ rows[h].entered <=> Audit!TrueContacts(h) # {}
    BY Zenon DEF CompleteIsCovered, Audit!CompleteIsCovered
  <2>1. VerdictTrue(h, rows[h])
    BY DEF AuditInv, RowsTrue
  <2>2. Audit!Start = 1
    BY AuditNumbers
  <2> QED
    BY <2>1, <2>2 DEF VerdictTrue
<1> QED
  BY <1>1, AuditRuns, PTL

\* A failed row was claimed in vain as often as the code promises to try.
THEOREM FailureIsEarned == Spec => []FailedWasTried
<1>1. (part = "audit" => AuditInv) => FailedWasTried
  BY DEF FailedWasTried, Audit!FailedWasTried, AuditInv, AttemptsTried
<1> QED
  BY <1>1, AuditRuns, PTL

LEMMA VerdictsKept ==
    ASSUME AuditInv, Audit!Next
    PROVE  Audit!VerdictKept
<1> SUFFICES ASSUME NEW h \in Horizons, ~Audit!Deleted(h), rows[h].status # "PENDING"
             PROVE  rows'[h] = None \/ rows'[h] = rows[h]
  BY DEF Audit!VerdictKept
<1>1. rows[h].lease = None /\ rows \in [Horizons -> Row \cup {None}]
  BY DEF AuditInv, AuditTypes, RowsTrue
<1>2. \A c \in Collectors : ~Audit!Holds(c, h)
  BY <1>1, AuditNumbers DEF Audit!Holds
<1>3. ASSUME NEW c \in Collectors, Audit!Claim(c)
      PROVE  rows'[h] = rows[h]
  <2>1. ~Audit!Due(h)
    BY DEF Audit!Due
  <2> QED
    BY <1>3, <2>1 DEF Audit!Claim
<1>4. ASSUME NEW c \in Collectors, Audit!WriteOutcome(c)
      PROVE  rows'[h] = rows[h]
  <2>1. PICK g, r : g = outcome[c].row /\ r = outcome[c].result
    OBVIOUS
  <2>2. rows' = IF Audit!Holds(c, g)
                 THEN [rows EXCEPT ![g] = [rows[g] EXCEPT !.status = r.status, !.due = r.end,
                         !.lock = 0, !.lease = None, !.end = r.end, !.entered = r.entered,
                         !.attempts = Audit!AttemptsAfter(rows[g], r.status)]]
                 ELSE rows
    BY <1>4, <2>1, Zenon DEF Audit!WriteOutcome
  <2> QED
    BY <1>1, <1>2, <2>2
<1>5. ASSUME NEW c \in Collectors, NEW g \in Horizons, Audit!Fails(c, g)
      PROVE  rows'[h] = rows[h]
  BY <1>1, <1>2, <1>5 DEF Audit!Fails
<1>6. ASSUME NEW c \in Collectors, Audit!Sweep(c)
      PROVE  rows'[h] = rows[h]
  BY <1>6 DEF Audit!Sweep, Audit!Lost
<1>7. ASSUME NEW c \in Collectors, Audit!Cleanup(c)
      PROVE  rows'[h] = None \/ rows'[h] = rows[h]
  BY <1>7 DEF Audit!Cleanup
<1> QED
  BY <1>3, <1>4, <1>5, <1>6, <1>7
     DEF Audit!Next, Audit!Maintain, Audit!Crash, Audit!CleanupNotDue, Audit!Evaluate,
         Audit!SourceGone, Audit!EvaluationFails, Audit!Store, Audit!Tick

\* No step takes a verdict back: no second evaluation of a row that was leased
\* twice, and no failure.
THEOREM VerdictsAreFinal == Spec => VerdictIsFinal
<1>1. (part = "audit" => AuditInv) /\ [Next]_vars => [part = "audit" => Audit!VerdictKept]_vars
  <2> SUFFICES ASSUME part = "audit", AuditInv, Next
               PROVE  Audit!VerdictKept
    OBVIOUS
  <2>1. Audit!Next
    BY DEF Next, RecorderNext, AuditNext, EngineNext, CollectorNext, RecorderStep, AuditStep,
           EngineStep, CollectorStep
  <2> QED
    BY <2>1, VerdictsKept
<1> QED
  BY <1>1, AuditRuns, PTL DEF Spec, VerdictIsFinal

-----------------------------------------------------------------------------
(* RadarRecorder: the queue *)

Record == [pair : Pairs, calc : Nat, at : Int, shape : Shapes, strength : 0 .. 2,
           covered : BOOLEAN, live : BOOLEAN]
Snap == {s \in Record : /\ s.calc >= Interval + Stale
                        /\ s.covered => s.live
                        /\ s.live => s.calc - Stale <= s.at /\ s.at <= s.calc}

Waits(p) == \E i \in DOMAIN pending : pending[i].pair = p

QueueTypes ==
    /\ now \in Nat /\ now >= Interval + Stale
    /\ pending \in Seq(Snap) /\ saving \in Snap \cup {None}
    /\ accepted \in [Pairs -> Nat] /\ \A p \in Pairs : accepted[p] <= now
    /\ settled \in [Pairs -> Nat]

\* One snapshot of a pair waits at most, its newest; the one being saved is
\* the newest or at least an interval older than the one that waits.
QueueOrder ==
    /\ \A i, j \in DOMAIN pending : pending[i].pair = pending[j].pair => i = j
    /\ \A i \in DOMAIN pending : pending[i].calc = accepted[pending[i].pair]
    /\ saving # None =>
           /\ saving.calc <= accepted[saving.pair]
           /\ ~Waits(saving.pair) => saving.calc = accepted[saving.pair]
           /\ \A i \in DOMAIN pending : pending[i].pair = saving.pair =>
                                            saving.calc + Interval <= pending[i].calc
    /\ \A p \in Pairs : ~Waits(p) /\ (saving = None \/ saving.pair # p) => accepted[p] = settled[p]

QueueInv == QueueTypes /\ QueueOrder

LEMMA RecorderNumbers == Interval \in Nat /\ Interval >= 1 /\ Stale \in Nat
  BY RecorderAssumption

LEMMA NoneIsNoSnapshot == None \notin Snap
<1>1. None \notin Record
  BY RecorderAssumption, Zenon DEF Record
<1> QED
  BY <1>1 DEF Snap

LEMMA SnapFields ==
    ASSUME NEW s \in Snap
    PROVE  /\ s.pair \in Pairs /\ s.calc \in Nat /\ s.at \in Int /\ s.shape \in Shapes
           /\ s.strength \in 0 .. 2 /\ s.covered \in BOOLEAN /\ s.live \in BOOLEAN
           /\ s.calc >= Interval + Stale /\ (s.covered => s.live)
           /\ s.live => s.calc - Stale <= s.at /\ s.at <= s.calc
  BY DEF Snap, Record

LEMMA RecordOf ==
    ASSUME NEW S1, NEW S2, NEW S3, NEW S4, NEW S5, NEW S6, NEW S7,
           NEW p \in S1, NEW c \in S2, NEW a \in S3, NEW h \in S4, NEW g \in S5, NEW k \in S6,
           NEW l \in S7
    PROVE  LET s == [pair |-> p, calc |-> c, at |-> a, shape |-> h, strength |-> g, covered |-> k,
                     live |-> l]
           IN  /\ s \in [pair : S1, calc : S2, at : S3, shape : S4, strength : S5, covered : S6,
                         live : S7]
               /\ s.pair = p /\ s.calc = c /\ s.at = a /\ s.shape = h /\ s.strength = g
               /\ s.covered = k /\ s.live = l
  OBVIOUS

\* A calculation is of its own time and of an observation that is not stale.
LEMMA SnapshotSound ==
    ASSUME QueueTypes, NEW p \in Pairs, NEW view \in Recorder!AllViews, Recorder!Possible(view),
           NEW old \in 0 .. Stale
    PROVE  LET s == Recorder!Snapshot(p, view, now - old)
           IN  s \in Snap /\ s.pair = p /\ s.calc = now
<1>1. /\ view.shape \in Shapes /\ view.strength \in 0 .. 2 /\ view.covered \in BOOLEAN
      /\ view.live \in BOOLEAN /\ (view.covered => view.live)
  BY DEF Recorder!AllViews, Recorder!Possible, Recorder!Live, Shapes
<1>2. now \in Nat /\ now >= Interval + Stale /\ old \in Nat /\ old <= Stale
  BY RecorderNumbers DEF QueueTypes
<1>3. PICK a \in Int : /\ a = IF view.live THEN now - old ELSE 0
                       /\ view.live => now - Stale <= a /\ a <= now
  <2>1. now - old \in Int /\ now - Stale <= now - old /\ now - old <= now
    BY <1>2, RecorderNumbers
  <2>2. CASE view.live
    BY <2>1, <2>2
  <2>3. CASE ~view.live
    BY <2>3
  <2> QED
    BY <2>2, <2>3
<1>4. PICK s : s = Recorder!Snapshot(p, view, now - old)
  OBVIOUS
<1>5. s = [pair |-> p, calc |-> now, at |-> a, shape |-> view.shape, strength |-> view.strength,
           covered |-> view.covered, live |-> view.live]
  BY <1>3, <1>4, Zenon DEF Recorder!Snapshot
<1>6. PICK h \in Shapes, g \in 0 .. 2, k \in BOOLEAN, l \in BOOLEAN, n \in Nat :
        h = view.shape /\ g = view.strength /\ k = view.covered /\ l = view.live /\ n = now
  BY <1>1, <1>2
<1>7. s \in Record /\ s.pair = p /\ s.calc = now /\ s.at = a /\ s.covered = view.covered
      /\ s.live = view.live
  <2>1. s = [pair |-> p, calc |-> n, at |-> a, shape |-> h, strength |-> g, covered |-> k,
             live |-> l]
    BY <1>5, <1>6, Zenon
  <2>2. s \in Record /\ s.pair = p /\ s.calc = n /\ s.at = a /\ s.covered = k /\ s.live = l
    BY <2>1, RecordOf, Zenon DEF Record
  <2> QED
    BY <1>6, <2>2, Zenon
<1> QED
  BY <1>1, <1>2, <1>3, <1>4, <1>7 DEF Snap

LEMMA QueueStarts ==
    ASSUME Recorder!Init
    PROVE  QueueInv
<1>1. /\ now = Interval + Stale /\ pending = <<>> /\ saving = None
      /\ accepted = [p \in Pairs |-> 0] /\ settled = [p \in Pairs |-> 0]
  BY DEF Recorder!Init
<1> QED
  BY <1>1, RecorderNumbers DEF QueueInv, QueueTypes, QueueOrder, Waits

\* What offer does to the map of waiting snapshots.
LEMMA EnqueuedSnapshots ==
    ASSUME QueueInv, NEW s \in Snap, pending' = Recorder!Enqueued(s)
    PROVE  /\ pending' \in Seq(Snap)
           /\ \E i \in DOMAIN pending' : pending'[i] = s
           /\ \A i \in DOMAIN pending' :
                 \/ pending'[i] = s
                 \/ i \in DOMAIN pending /\ pending'[i] = pending[i] /\ pending[i].pair # s.pair
           /\ \A i \in DOMAIN pending : i \in DOMAIN pending' /\ pending'[i].pair = pending[i].pair
           /\ \A i, j \in DOMAIN pending' : pending'[i].pair = pending'[j].pair => i = j
<1>1. /\ pending \in Seq(Snap) /\ DOMAIN pending = 1 .. Len(pending) /\ Len(pending) \in Nat
      /\ \A i, j \in DOMAIN pending : pending[i].pair = pending[j].pair => i = j
  BY DEF QueueInv, QueueTypes, QueueOrder
<1>2. CASE Recorder!Queued(s.pair) = {}
  <2>1. pending' = Append(pending, s) /\ \A i \in DOMAIN pending : pending[i].pair # s.pair
    BY <1>2 DEF Recorder!Enqueued, Recorder!Queued
  <2>2. /\ pending' \in Seq(Snap) /\ DOMAIN pending' = 1 .. Len(pending) + 1
        /\ pending'[Len(pending) + 1] = s
        /\ \A i \in 1 .. Len(pending) : pending'[i] = pending[i]
    BY <1>1, <2>1
  <2>3. \A i \in DOMAIN pending' : i = Len(pending) + 1 \/ i \in DOMAIN pending
    BY <1>1, <2>2
  <2>4. \A i, j \in DOMAIN pending' : pending'[i].pair = pending'[j].pair => i = j
    BY <1>1, <2>1, <2>2, <2>3
  <2> QED
    BY <1>1, <2>1, <2>2, <2>3, <2>4
<1>3. CASE Recorder!Queued(s.pair) # {}
  <2>1. /\ pending' = [i \in DOMAIN pending |-> IF i \in Recorder!Queued(s.pair) THEN s
                                                ELSE pending[i]]
        /\ \A i \in DOMAIN pending : i \in Recorder!Queued(s.pair) <=> pending[i].pair = s.pair
        /\ \E i \in DOMAIN pending : pending[i].pair = s.pair
    BY <1>3 DEF Recorder!Enqueued, Recorder!Queued
  <2>2. \A i \in DOMAIN pending : pending'[i] \in Snap /\ pending'[i].pair = pending[i].pair
    BY <1>1, <2>1
  <2>3. pending' \in Seq(Snap) /\ DOMAIN pending' = DOMAIN pending
    BY <1>1, <2>1, <2>2
  <2> QED
    BY <1>1, <2>1, <2>2, <2>3
<1> QED
  BY <1>2, <1>3

LEMMA OfferKeeps ==
    ASSUME QueueInv, NEW p \in Pairs, NEW view \in Recorder!AllViews, NEW old \in 0 .. Stale,
           Recorder!Offer(p, view, now - old)
    PROVE  QueueInv'
<1>1. PICK s : s = Recorder!Snapshot(p, view, now - old)
  OBVIOUS
<1>2. s \in Snap /\ s.pair = p /\ s.calc = now
  BY <1>1, SnapshotSound DEF Recorder!Offer, QueueInv
<1>3. /\ now - accepted[p] >= Interval /\ accepted' = [accepted EXCEPT ![p] = now]
      /\ pending' = Recorder!Enqueued(s) /\ UNCHANGED <<now, saving, settled>>
  BY <1>1 DEF Recorder!Offer
<1>4. /\ pending' \in Seq(Snap)
      /\ \E i \in DOMAIN pending' : pending'[i] = s
      /\ \A i \in DOMAIN pending' :
             \/ pending'[i] = s
             \/ i \in DOMAIN pending /\ pending'[i] = pending[i] /\ pending[i].pair # s.pair
      /\ \A i \in DOMAIN pending : i \in DOMAIN pending' /\ pending'[i].pair = pending[i].pair
      /\ \A i, j \in DOMAIN pending' : pending'[i].pair = pending'[j].pair => i = j
  BY <1>2, <1>3, EnqueuedSnapshots
<1>5. /\ now \in Nat /\ accepted \in [Pairs -> Nat] /\ accepted[p] \in Nat
      /\ accepted' \in [Pairs -> Nat] /\ accepted'[p] = now
      /\ \A q \in Pairs : q # p => accepted'[q] = accepted[q]
  BY <1>3 DEF QueueInv, QueueTypes
<1>6. QueueTypes'
  BY <1>3, <1>4, <1>5 DEF QueueInv, QueueTypes
<1>7. \A i \in DOMAIN pending' : pending'[i].calc = accepted'[pending'[i].pair]
  <2> TAKE i \in DOMAIN pending'
  <2>1. CASE pending'[i] = s
    BY <2>1, <1>2, <1>5
  <2>2. CASE pending'[i] # s
    <3>1. i \in DOMAIN pending /\ pending'[i] = pending[i] /\ pending[i].pair # p
      BY <2>2, <1>2, <1>4
    <3>2. pending[i] \in Snap /\ pending[i].pair \in Pairs
      BY <3>1, SnapFields DEF QueueInv, QueueTypes
    <3> QED
      BY <3>1, <3>2, <1>5 DEF QueueInv, QueueOrder
  <2> QED
    BY <2>1, <2>2
<1>8. ASSUME saving # None
      PROVE  /\ saving.calc <= accepted'[saving.pair]
             /\ ~Waits(saving.pair)' => saving.calc = accepted'[saving.pair]
             /\ \A i \in DOMAIN pending' : pending'[i].pair = saving.pair =>
                                              saving.calc + Interval <= pending'[i].calc
  <2>1. saving \in Snap /\ saving.pair \in Pairs /\ saving.calc \in Nat
        /\ saving.calc <= accepted[saving.pair]
    BY <1>8, SnapFields DEF QueueInv, QueueTypes, QueueOrder
  <2>2. CASE saving.pair = p
    <3>1. saving.calc + Interval <= now
      BY <1>3, <1>5, <2>1, <2>2, RecorderNumbers
    <3>2. \A i \in DOMAIN pending' : pending'[i].pair = p => pending'[i] = s
      BY <1>2, <1>4
    <3>3. Waits(p)'
      BY <1>2, <1>4 DEF Waits
    <3>4. saving.calc <= now
      BY <3>1, <2>1, <1>5, RecorderNumbers
    <3> QED
      BY <1>2, <1>3, <1>5, <2>2, <3>1, <3>2, <3>3, <3>4
  <2>3. CASE saving.pair # p
    <3>1. \A i \in DOMAIN pending' : pending'[i].pair = saving.pair =>
             i \in DOMAIN pending /\ pending'[i] = pending[i]
      BY <1>2, <1>4, <2>3
    <3>2. Waits(saving.pair)' = Waits(saving.pair)
      BY <1>3, <1>4, <3>1 DEF Waits
    <3>3. accepted'[saving.pair] = accepted[saving.pair]
      BY <1>5, <2>1, <2>3
    <3> QED
      BY <1>8, <3>1, <3>2, <3>3 DEF QueueInv, QueueOrder
  <2> QED
    BY <2>2, <2>3
<1>9. ASSUME NEW q \in Pairs, ~Waits(q)', saving = None \/ saving.pair # q
      PROVE  accepted'[q] = settled[q]
  <2>1. q # p /\ ~Waits(q)
    BY <1>2, <1>4, <1>9 DEF Waits
  <2> QED
    BY <1>5, <1>9, <2>1 DEF QueueInv, QueueOrder
<1>10. QueueOrder'
  BY <1>3, <1>4, <1>7, <1>8, <1>9 DEF QueueOrder
<1> QED
  BY <1>6, <1>10 DEF QueueInv

LEMMA TakeKeeps ==
    ASSUME QueueInv, Recorder!Take
    PROVE  /\ QueueInv' /\ saving' \in Snap
           /\ 1 \in DOMAIN pending /\ saving' = pending[1]
           /\ \A i \in DOMAIN pending' : /\ i + 1 \in DOMAIN pending
                                         /\ pending'[i] = pending[i + 1]
                                         /\ pending'[i].pair # saving'.pair
<1>1. /\ saving = None /\ pending # <<>> /\ saving' = Head(pending) /\ pending' = Tail(pending)
      /\ UNCHANGED <<now, accepted, settled>>
  BY DEF Recorder!Take
<1>2. pending \in Seq(Snap) /\ pending # <<>>
  BY <1>1 DEF QueueInv, QueueTypes
<1>3. /\ DOMAIN pending = 1 .. Len(pending) /\ Len(pending) \in Nat /\ Len(pending) >= 1
      /\ saving' = pending[1] /\ saving' \in Snap /\ pending' \in Seq(Snap)
      /\ DOMAIN pending' = 1 .. Len(pending) - 1
      /\ \A i \in 1 .. Len(pending) - 1 : pending'[i] = pending[i + 1]
  BY <1>1, <1>2
<1>4. \A i \in DOMAIN pending' : i \in Nat /\ i + 1 \in DOMAIN pending /\ i + 1 # 1
                                /\ pending'[i] = pending[i + 1]
  BY <1>3
<1>5. /\ \A i, j \in DOMAIN pending : pending[i].pair = pending[j].pair => i = j
      /\ \A i \in DOMAIN pending : pending[i].calc = accepted[pending[i].pair]
      /\ \A p \in Pairs : ~Waits(p) => accepted[p] = settled[p]
  BY <1>1 DEF QueueInv, QueueOrder
<1>6. 1 \in DOMAIN pending
  BY <1>3
<1>7. \A i \in DOMAIN pending' : pending'[i].pair # saving'.pair
  BY <1>3, <1>4, <1>5, <1>6
<1>8. \A i, j \in DOMAIN pending' : pending'[i].pair = pending'[j].pair => i = j
  BY <1>4, <1>5
<1>9. /\ \A i \in DOMAIN pending' : pending'[i].calc = accepted[pending'[i].pair]
      /\ saving'.calc = accepted[saving'.pair] /\ saving'.pair \in Pairs
  BY <1>3, <1>4, <1>5, <1>6, SnapFields
<1>10. ASSUME NEW p \in Pairs, ~Waits(p)', saving'.pair # p
       PROVE  accepted[p] = settled[p]
  <2>1. ASSUME NEW i \in DOMAIN pending PROVE pending[i].pair # p
    <3>1. CASE i = 1
      BY <3>1, <1>3, <1>10
    <3>2. CASE i # 1
      <4>1. i - 1 \in DOMAIN pending' /\ pending'[i - 1] = pending[(i - 1) + 1] /\ (i - 1) + 1 = i
        BY <3>2, <1>3
      <4> QED
        BY <4>1, <1>10 DEF Waits
    <3> QED
      BY <3>1, <3>2
  <2> QED
    BY <2>1, <1>5 DEF Waits
<1>11. saving'.calc <= accepted[saving'.pair]
  BY <1>3, <1>9, SnapFields
<1>12. QueueOrder'
  <2>1. saving' # None
    BY <1>3, NoneIsNoSnapshot
  <2> QED
    BY <2>1, <1>1, <1>7, <1>8, <1>9, <1>10, <1>11 DEF QueueOrder
<1>13. QueueTypes'
  BY <1>1, <1>3 DEF QueueInv, QueueTypes
<1> QED
  BY <1>3, <1>4, <1>6, <1>7, <1>12, <1>13 DEF QueueInv

\* The save of a snapshot ends.
LEMMA EndedKeeps ==
    ASSUME QueueInv, saving # None, Recorder!Ended, UNCHANGED <<now, pending, accepted>>
    PROVE  QueueInv'
<1>1. saving \in Snap /\ saving.pair \in Pairs /\ saving.calc \in Nat
  BY SnapFields DEF QueueInv, QueueTypes
<1>2. saving' = None /\ settled' = [settled EXCEPT ![saving.pair] = saving.calc]
  BY DEF Recorder!Ended
<1>3. /\ settled' \in [Pairs -> Nat] /\ settled'[saving.pair] = saving.calc
      /\ \A p \in Pairs : p # saving.pair => settled'[p] = settled[p]
  BY <1>1, <1>2 DEF QueueInv, QueueTypes
<1>4. \A p : Waits(p)' = Waits(p)
  BY DEF Waits
<1>5. \A p \in Pairs : ~Waits(p) => accepted[p] = settled'[p]
  BY <1>3 DEF QueueInv, QueueOrder
<1> QED
  BY <1>2, <1>3, <1>4, <1>5 DEF QueueInv, QueueTypes, QueueOrder

LEMMA FreshKeeps ==
    ASSUME QueueInv, Recorder!Fresh
    PROVE  QueueInv'
<1>1. /\ pending' = <<>> /\ saving' = None /\ accepted' = [p \in Pairs |-> 0]
      /\ settled' = [p \in Pairs |-> 0] /\ now' = now + Interval + Stale /\ now \in Nat
      /\ now >= Interval + Stale
  BY DEF Recorder!Fresh, QueueInv, QueueTypes
<1>2. now' \in Nat /\ now' >= Interval + Stale
  BY <1>1, RecorderNumbers
<1> QED
  BY <1>1, <1>2 DEF QueueInv, QueueTypes, QueueOrder, Waits

LEMMA QueueStays ==
    ASSUME QueueInv, UNCHANGED <<pending, saving, accepted, settled>>, now' \in Nat, now' >= now
    PROVE  QueueInv'
<1>1. now' >= Interval + Stale /\ \A p \in Pairs : accepted[p] <= now'
  BY RecorderNumbers DEF QueueInv, QueueTypes
<1> QED
  BY <1>1 DEF QueueInv, QueueTypes, QueueOrder, Waits

LEMMA QueueStep ==
    ASSUME QueueInv, Recorder!Next
    PROVE  QueueInv'
<1>1. ASSUME Recorder!Stop \/ Recorder!Tick
      PROVE  QueueInv'
  <2>1. UNCHANGED <<pending, saving, accepted, settled>> /\ (now' = now \/ now' = now + 1)
    BY <1>1 DEF Recorder!Stop, Recorder!Tick, Recorder!memory
  <2> QED
    BY <2>1, QueueStays DEF QueueInv, QueueTypes
<1>2. ASSUME Recorder!Commit \/ Recorder!SaveFails \/ Recorder!CommitUnacknowledged
      PROVE  QueueInv'
  BY <1>2, EndedKeeps DEF Recorder!Commit, Recorder!SaveFails, Recorder!CommitUnacknowledged
<1>3. ASSUME Recorder!Exit \/ Recorder!Crash
      PROVE  QueueInv'
  BY <1>3, FreshKeeps DEF Recorder!Exit, Recorder!Crash
<1>4. ASSUME NEW p \in Pairs, NEW old \in 0 .. Stale, NEW view \in Views(p),
             Recorder!Offer(p, view, now - old)
      PROVE  QueueInv'
  <2>1. view \in Recorder!AllViews
    BY <1>4 DEF Recorder!Offer
  <2> QED
    BY <1>4, <2>1, OfferKeeps
<1> QED
  BY <1>1, <1>2, <1>3, <1>4, TakeKeeps DEF Recorder!Next

LEMMA RecorderStutters ==
    ASSUME UNCHANGED <<now, recorderVars>>
    PROVE  /\ UNCHANGED <<now, pending, saving, accepted, settled, db, last, material, trail, blurred>>
           /\ QueueInv => QueueInv'
<1>1. UNCHANGED <<now, pending, saving, accepted, settled, db, last, material, trail, blurred>>
  BY DEF recorderVars
<1> QED
  BY <1>1 DEF QueueInv, QueueTypes, QueueOrder, Waits

LEMMA QueueRuns == Spec => [](part = "recorder" => QueueInv)
<1>1. Init => (part = "recorder" => QueueInv)
  BY QueueStarts DEF Init
<1>2. (part = "recorder" => QueueInv) /\ [Next]_vars => (part = "recorder" => QueueInv)'
  <2> SUFFICES ASSUME part = "recorder" => QueueInv, [Next]_vars, part' = "recorder"
               PROVE  QueueInv'
    OBVIOUS
  <2>1. CASE Next
    <3>1. part = "recorder" /\ Recorder!Next
      BY <2>1 DEF Next, RecorderNext, AuditNext, EngineNext, CollectorNext, RecorderStep, AuditStep,
                  EngineStep, CollectorStep
    <3> QED
      BY <3>1, QueueStep
  <2>2. CASE UNCHANGED vars
    <3>1. part = "recorder" /\ QueueInv /\ UNCHANGED <<now, recorderVars>>
      BY <2>2 DEF vars
    <3> QED
      BY <3>1, RecorderStutters
  <2> QED
    BY <2>1, <2>2
<1> QED
  BY <1>1, <1>2, PTL DEF Spec

\* Whatever a full queue, failed saves and restarts drop, the newest snapshot
\* of a pair that offer accepted waits, is being saved or its save has ended.
THEOREM NewestIsKept == Spec => []NewestSurvives
<1>1. (part = "recorder" => QueueInv) => NewestSurvives
  <2> SUFFICES ASSUME QueueInv, NEW p \in Pairs
               PROVE  \/ accepted[p] = settled[p]
                      \/ saving # None /\ saving.pair = p /\ saving.calc = accepted[p]
                      \/ \E i \in Recorder!Queued(p) : pending[i].calc = accepted[p]
    BY DEF NewestSurvives, Recorder!NewestSurvives
  <2>1. CASE Waits(p)
    BY <2>1 DEF Waits, QueueInv, QueueOrder, Recorder!Queued
  <2>2. CASE ~Waits(p)
    BY <2>2 DEF QueueInv, QueueOrder
  <2> QED
    BY <2>1, <2>2
<1> QED
  BY <1>1, QueueRuns, PTL

-----------------------------------------------------------------------------
(* RadarRecorder: what is remembered of the last snapshots *)

Shown == [shape : Shapes, strength : 0 .. 2, covered : BOOLEAN, at : Int]

\* RadarStore.last is the last snapshot whose commit was answered.
BreakInv ==
    /\ last \in [Pairs -> Snap \cup {None}] /\ trail \in [Pairs -> Shown \X Shown]
    /\ \A p \in Pairs :
          /\ last[p] = None => trail[p][2].shape = "NONE"
          /\ last[p] # None => trail[p][2].shape = last[p].shape
          /\ trail[p][2].covered /\ trail[p][2].shape = "BROKEN"
                /\ trail[p][1].shape \notin {"NONE", "BROKEN"}
             => [pair |-> p, type |-> "BROKEN", at |-> trail[p][2].at] \in db.events

LEMMA BlankShown ==
    /\ Recorder!Blank \in Shown /\ Recorder!Blank.shape = "NONE" /\ Recorder!Blank.covered = FALSE
  BY DEF Recorder!Blank, Shown, Shapes

LEMMA BlankTrail ==
    ASSUME NEW t, t = [p \in Pairs |-> <<Recorder!Blank, Recorder!Blank>>]
    PROVE  /\ t \in [Pairs -> Shown \X Shown]
           /\ \A p \in Pairs : t[p][2].shape = "NONE" /\ t[p][2].covered = FALSE
  BY BlankShown

LEMMA BreakStarts ==
    ASSUME Recorder!Init
    PROVE  BreakInv
<1>1. /\ last = [p \in Pairs |-> None]
      /\ trail = [p \in Pairs |-> <<Recorder!Blank, Recorder!Blank>>]
  BY DEF Recorder!Init
<1> QED
  BY <1>1, BlankTrail DEF BreakInv

\* The trail after a commit.
LEMMA TrailAfter ==
    ASSUME QueueInv, BreakInv, saving # None, Recorder!Commit, NEW p, p = saving.pair
    PROVE  /\ p \in Pairs /\ trail' \in [Pairs -> Shown \X Shown]
           /\ \A q \in Pairs : q # p => trail'[q] = trail[q] /\ last'[q] = last[q]
           /\ trail'[p][1] = trail[p][2]
           /\ trail'[p][2].shape = saving.shape /\ trail'[p][2].strength = saving.strength
           /\ trail'[p][2].covered = saving.covered /\ trail'[p][2].at = saving.at
           /\ last' \in [Pairs -> Snap \cup {None}] /\ last'[p] = saving
<1>1. saving \in Snap /\ p \in Pairs
  BY SnapFields DEF QueueInv, QueueTypes
<1>2. PICK h \in Shapes, g \in 0 .. 2, k \in BOOLEAN, a \in Int :
        h = saving.shape /\ g = saving.strength /\ k = saving.covered /\ a = saving.at
  BY <1>1, SnapFields
<1>3. PICK n : n = [shape |-> h, strength |-> g, covered |-> k, at |-> a]
  OBVIOUS
<1>4. n \in Shown /\ n.shape = h /\ n.strength = g /\ n.covered = k /\ n.at = a
  BY <1>2, <1>3 DEF Shown
<1>5. /\ trail' = [trail EXCEPT ![p] = <<trail[p][2], n>>]
      /\ last' = [last EXCEPT ![p] = saving]
  BY <1>2, <1>3 DEF Recorder!Commit
<1>6. trail \in [Pairs -> Shown \X Shown] /\ last \in [Pairs -> Snap \cup {None}]
  BY DEF BreakInv
<1>7. trail[p][2] \in Shown
  BY <1>1, <1>6
<1>8. /\ trail' \in [Pairs -> Shown \X Shown] /\ trail'[p] = <<trail[p][2], n>>
      /\ \A q \in Pairs : q # p => trail'[q] = trail[q]
  BY <1>1, <1>4, <1>5, <1>6, <1>7
<1>9. /\ last' \in [Pairs -> Snap \cup {None}] /\ last'[p] = saving
      /\ \A q \in Pairs : q # p => last'[q] = last[q]
  BY <1>1, <1>5, <1>6
<1>10. trail'[p][1] = trail[p][2] /\ trail'[p][2] = n
  BY <1>8
<1> QED
  BY <1>1, <1>2, <1>4, <1>8, <1>9, <1>10

LEMMA CommitTellsBreak ==
    ASSUME QueueInv, BreakInv, Recorder!Commit
    PROVE  BreakInv'
<1>1. PICK p : p = saving.pair
  OBVIOUS
<1>2. saving # None /\ db' = Recorder!Written(saving) /\ saving \in Snap
  BY DEF Recorder!Commit, QueueInv, QueueTypes
<1>3. /\ p \in Pairs /\ trail' \in [Pairs -> Shown \X Shown]
      /\ \A q \in Pairs : q # p => trail'[q] = trail[q] /\ last'[q] = last[q]
      /\ trail'[p][1] = trail[p][2]
      /\ trail'[p][2].shape = saving.shape /\ trail'[p][2].strength = saving.strength
      /\ trail'[p][2].covered = saving.covered /\ trail'[p][2].at = saving.at
      /\ last' \in [Pairs -> Snap \cup {None}] /\ last'[p] = saving
  BY <1>1, <1>2, TrailAfter
<1>4. db'.events = db.events \cup Recorder!DetectEvents(last[p], saving)
  BY <1>1, <1>2 DEF Recorder!Written
<1>5. ASSUME saving.covered, saving.shape = "BROKEN", trail[p][2].shape \notin {"NONE", "BROKEN"}
      PROVE  [pair |-> p, type |-> "BROKEN", at |-> saving.at] \in db'.events
  <2>1. last[p] # None /\ last[p].shape = trail[p][2].shape
    BY <1>3, <1>5 DEF BreakInv
  <2>2. saving.live
    BY <1>2, <1>5, SnapFields
  <2>3. [pair |-> p, type |-> "BROKEN", at |-> saving.at] \in Recorder!DetectEvents(last[p], saving)
    <3>1. PICK b : b = last[p]
      OBVIOUS
    <3>2. b # None /\ b.shape # "NONE" /\ b.shape # "BROKEN"
      BY <1>5, <2>1, <3>1
    <3>3. [pair |-> saving.pair, type |-> "BROKEN", at |-> saving.at] \in Recorder!DetectEvents(b, saving)
      BY <1>5, <2>2, <3>2 DEF Recorder!DetectEvents
    <3> QED
      BY <1>1, <3>1, <3>3
  <2> QED
    BY <1>4, <2>3
<1>6. ASSUME NEW q \in Pairs
      PROVE  /\ last'[q] = None => trail'[q][2].shape = "NONE"
             /\ last'[q] # None => trail'[q][2].shape = last'[q].shape
             /\ trail'[q][2].covered /\ trail'[q][2].shape = "BROKEN"
                   /\ trail'[q][1].shape \notin {"NONE", "BROKEN"}
                => [pair |-> q, type |-> "BROKEN", at |-> trail'[q][2].at] \in db'.events
  <2>1. CASE q = p
    BY <1>2, <1>3, <1>5, <2>1
  <2>2. CASE q # p
    BY <1>3, <1>4, <2>2 DEF BreakInv
  <2> QED
    BY <2>1, <2>2
<1> QED
  BY <1>3, <1>6 DEF BreakInv

LEMMA BreakStep ==
    ASSUME QueueInv, BreakInv, Recorder!Next
    PROVE  BreakInv'
<1>1. ASSUME UNCHANGED <<last, trail>>, db.events \subseteq db'.events
      PROVE  BreakInv'
  BY <1>1 DEF BreakInv
<1>2. ASSUME Recorder!CommitUnacknowledged
      PROVE  BreakInv'
  <2>1. UNCHANGED <<last, trail>> /\ db' = Recorder!Written(saving)
    BY <1>2 DEF Recorder!CommitUnacknowledged
  <2>2. db.events \subseteq db'.events
    BY <2>1 DEF Recorder!Written
  <2> QED
    BY <1>1, <2>1, <2>2
<1>3. ASSUME Recorder!Fresh
      PROVE  BreakInv'
  <2>1. /\ last' = [p \in Pairs |-> None]
        /\ trail' = [p \in Pairs |-> <<Recorder!Blank, Recorder!Blank>>]
    BY <1>3 DEF Recorder!Fresh
  <2> QED
    BY <2>1, BlankTrail DEF BreakInv
<1>4. ASSUME \/ \E p \in Pairs, old \in 0 .. Stale : \E view \in Views(p) :
                    Recorder!Offer(p, view, now - old)
             \/ Recorder!Take \/ Recorder!SaveFails \/ Recorder!Stop \/ Recorder!Tick
      PROVE  BreakInv'
  <2>1. UNCHANGED <<last, trail, db>>
    BY <1>4 DEF Recorder!Offer, Recorder!Take, Recorder!SaveFails, Recorder!Stop, Recorder!Tick,
                Recorder!memory
  <2> QED
    BY <1>1, <2>1
<1> QED
  BY <1>2, <1>3, <1>4, CommitTellsBreak DEF Recorder!Next, Recorder!Exit, Recorder!Crash

LEMMA BreakRuns == Spec => [](part = "recorder" => BreakInv)
<1>1. Init => (part = "recorder" => BreakInv)
  BY BreakStarts DEF Init
<1>2. (part = "recorder" => QueueInv) /\ (part = "recorder" => BreakInv) /\ [Next]_vars
        => (part = "recorder" => BreakInv)'
  <2> SUFFICES ASSUME part = "recorder" => QueueInv, part = "recorder" => BreakInv, [Next]_vars,
                      part' = "recorder"
               PROVE  BreakInv'
    OBVIOUS
  <2>1. CASE Next
    <3>1. part = "recorder" /\ Recorder!Next
      BY <2>1 DEF Next, RecorderNext, AuditNext, EngineNext, CollectorNext, RecorderStep, AuditStep,
                  EngineStep, CollectorStep
    <3> QED
      BY <3>1, BreakStep
  <2>2. CASE UNCHANGED vars
    <3>1. part = "recorder" /\ BreakInv /\ UNCHANGED <<now, recorderVars>>
      BY <2>2 DEF vars
    <3> QED
      BY <3>1, RecorderStutters DEF BreakInv
  <2> QED
    BY <2>1, <2>2
<1> QED
  BY <1>1, <1>2, QueueRuns, PTL DEF Spec

\* A zone that is broken in a saved snapshot and was not in the one saved
\* before it is announced, whatever was dropped or failed in between.
THEOREM BreaksAreTold == Spec => []BreakIsAnnounced
<1>1. (part = "recorder" => BreakInv) => BreakIsAnnounced
  BY DEF BreakIsAnnounced, Recorder!BreakIsAnnounced, BreakInv
<1> QED
  BY <1>1, BreakRuns, PTL

-----------------------------------------------------------------------------
(* RadarRecorder: the signals                                              *)

Signal == [pair : Pairs, at : Nat, shape : Shapes, strength : 0 .. 2]
State == [shape : Shapes, strength : 0 .. 2]

RowsOf(p) == {s \in db.signals : s.pair = p}

SignalTypes ==
    /\ db.signals \subseteq Signal
    /\ material \in [Pairs -> State \cup {None}]

SignalsBounded == \A r \in db.signals : r.at <= now

\* The cache is the newest signal, where the process knows it.
Cached ==
    \A p \in Pairs : material[p] # None /\ p \notin blurred =>
        /\ RowsOf(p) # {}
        /\ material[p].shape = Recorder!Newest(RowsOf(p)).shape
        /\ material[p].strength = Recorder!Newest(RowsOf(p)).strength

ShownIsRecorded(p) ==
    LET kept == trail[p][2]
    IN  kept.covered /\ kept.shape \in Recorder!Live \ {"FORMING"} /\ p \notin blurred
          => RowsOf(p) # {} /\ Recorder!Close(Recorder!Newest(RowsOf(p)), kept)

SignalInv == SignalTypes /\ SignalsBounded /\ Cached /\ \A p \in Pairs : ShownIsRecorded(p)

\* A signal that is added differs from the newest one before.
Differs(n) ==
    LET earlier == RowsOf(n.pair)
    IN  earlier = {} \/ n.pair \in blurred \/ ~Recorder!Close(Recorder!Newest(earlier), n)
NewDiffer == \A n \in db'.signals \ db.signals : Differs(n)

LEMMA NewestIsNew ==
    ASSUME NEW R \in SUBSET Signal, NEW n \in Signal, \A r \in R : r.at < n.at
    PROVE  Recorder!Newest(R \cup {n}) = n
<1>1. /\ n.at \in Nat /\ n.at <= n.at /\ \A r \in R : r.at \in Nat /\ r.at <= n.at
      /\ \A r \in R : ~(n.at <= r.at)
  BY DEF Signal
<1>2. /\ n \in R \cup {n} /\ \A q \in R \cup {n} : q.at <= n.at
      /\ \A r \in R \cup {n} : (\A q \in R \cup {n} : q.at <= r.at) => r = n
  BY <1>1
<1> QED
  BY <1>2, Zenon DEF Recorder!Newest

LEMMA NewestIsOne ==
    ASSUME NEW R \in SUBSET Signal, R # {}, NEW top \in Nat, \A r \in R : r.at <= top
    PROVE  Recorder!Newest(R) \in R
<1> DEFINE T == {r.at : r \in R}
<1>1. T \in SUBSET Nat /\ T # {} /\ \A y \in T : y <= top
  BY DEF Signal
<1>2. PICK x \in T : \A y \in T : x >= y
  BY <1>1, Greatest, Zenon
<1>3. PICK r \in R : \A q \in R : q.at <= r.at
  BY <1>2 DEF Signal
<1> QED
  BY <1>3, Zenon DEF Recorder!Newest

\* RadarStore.observe compares with the newest signal of the pair, cached or not.
LEMMA RecordedIsNewest ==
    ASSUME QueueInv, SignalInv, NEW p \in Pairs, p \notin blurred
    PROVE  /\ RowsOf(p) = {} => Recorder!Recorded(p) = None
           /\ RowsOf(p) # {} =>
                  /\ Recorder!Recorded(p) # None
                  /\ Recorder!Recorded(p).shape = Recorder!Newest(RowsOf(p)).shape
                  /\ Recorder!Recorded(p).strength = Recorder!Newest(RowsOf(p)).strength
<1>1. Recorder!Recorded(p) =
        IF material[p] # None THEN material[p]
        ELSE IF RowsOf(p) = {} THEN None
        ELSE [shape |-> Recorder!Newest(RowsOf(p)).shape,
              strength |-> Recorder!Newest(RowsOf(p)).strength]
  BY Zenon DEF Recorder!Recorded, RowsOf
<1>2. CASE material[p] # None
  BY <1>1, <1>2 DEF SignalInv, Cached
<1>3. CASE material[p] = None
  <2>1. CASE RowsOf(p) = {}
    BY <1>1, <1>3, <2>1
  <2>2. CASE RowsOf(p) # {}
    <3>1. PICK n : n = Recorder!Newest(RowsOf(p))
      OBVIOUS
    <3>2. n \in Signal
      <4>1. RowsOf(p) \in SUBSET Signal /\ now \in Nat /\ \A r \in RowsOf(p) : r.at <= now
        BY DEF RowsOf, SignalInv, SignalTypes, SignalsBounded, QueueInv, QueueTypes
      <4> QED
        BY <2>2, <3>1, <4>1, NewestIsOne
    <3>3. PICK h \in Shapes, g \in 0 .. 2 : h = n.shape /\ g = n.strength
      BY <3>2 DEF Signal
    <3>4. Recorder!Recorded(p) = [shape |-> h, strength |-> g]
      BY <1>1, <1>3, <2>2, <3>1, <3>3
    <3>5. [shape |-> h, strength |-> g] \in State
      BY <3>3 DEF State
    <3>6. [shape |-> h, strength |-> g] # None
      BY <3>5, RecorderAssumption, Zenon DEF State
    <3> QED
      BY <2>2, <3>1, <3>3, <3>4, <3>6
  <2> QED
    BY <2>1, <2>2
<1> QED
  BY <1>2, <1>3

\* The statements of the transaction add at most the signal of the snapshot,
\* which becomes the newest one if the snapshot was observed later.
LEMMA SignalWritten ==
    ASSUME NEW p, NEW s, p = saving.pair, s = saving,
           QueueInv, SignalInv, saving # None, db' = Recorder!Written(saving)
    PROVE  /\ db'.signals \subseteq Signal
           /\ \A r \in db'.signals : r.at <= now
           /\ NewDiffer
           /\ \A q : q # p => RowsOf(q)' = RowsOf(q)
           /\ Recorder!NewSignal(saving) = {} => db'.signals = db.signals
           /\ ~Recorder!Significant(saving) => Recorder!NewSignal(saving) = {}
           /\ Recorder!Significant(saving) /\ Recorder!Later(saving) =>
                  /\ RowsOf(p)' # {}
                  /\ LET new == Recorder!Newest(RowsOf(p)')
                     IN  new.shape = s.shape /\ new.strength = s.strength
<1>1. /\ s \in Snap /\ p \in Pairs /\ s.pair = p
      /\ s.shape \in Shapes /\ s.strength \in 0 .. 2 /\ s.calc \in Nat /\ s.calc <= now
      /\ now \in Nat
  <2>1. s \in Snap
    BY DEF QueueInv, QueueTypes
  <2>2. /\ p \in Pairs /\ s.shape \in Shapes /\ s.strength \in 0 .. 2 /\ s.calc \in Nat
    BY <2>1, SnapFields
  <2>3. s.calc <= accepted[p] /\ accepted[p] \in Nat /\ accepted[p] <= now /\ now \in Nat
    BY <2>2 DEF QueueInv, QueueTypes, QueueOrder
  <2> QED
    BY <2>1, <2>2, <2>3
<1>2. db'.signals = db.signals \cup Recorder!NewSignal(saving)
  BY DEF Recorder!Written
<1>3. db.signals \in SUBSET Signal /\ \A r \in db.signals : r.at <= now
  BY DEF SignalInv, SignalTypes, SignalsBounded
<1>4. CASE Recorder!NewSignal(saving) = {}
  <2>1. db'.signals = db.signals
    BY <1>2, <1>4
  <2>2. \A q : RowsOf(q)' = RowsOf(q)
    BY <2>1 DEF RowsOf
  <2>3. NewDiffer
    BY <2>1 DEF NewDiffer
  <2>4. ~(Recorder!Significant(saving) /\ Recorder!Later(saving))
    <3> SUFFICES ASSUME Recorder!Significant(saving), Recorder!Later(saving) PROVE FALSE
      OBVIOUS
    <3>1. PICK row \in db.signals : row.pair = saving.pair /\ row.at = saving.at
      BY <1>4 DEF Recorder!NewSignal
    <3>2. row.at < saving.at /\ row.at \in Nat
      BY <1>3, <3>1 DEF Recorder!Later, Signal
    <3> QED
      BY <3>1, <3>2
  <2> QED
    BY <1>3, <1>4, <2>1, <2>2, <2>3, <2>4
<1>5. CASE Recorder!NewSignal(saving) # {}
  <2>1. Recorder!Significant(saving)
    BY <1>5 DEF Recorder!NewSignal
  <2>2. s.at \in Nat /\ s.at <= s.calc
    <3>1. s.live
      BY <1>1, <2>1, SnapFields DEF Recorder!Significant
    <3>2. s.at \in Int /\ s.calc >= Interval + Stale /\ s.calc - Stale <= s.at /\ s.at <= s.calc
      BY <1>1, <3>1, SnapFields
    <3> QED
      BY <1>1, <3>2, RecorderNumbers
  <2>3. PICK a \in Nat, h \in Shapes, g \in 0 .. 2 : a = s.at /\ h = s.shape /\ g = s.strength
    BY <1>1, <2>2
  <2>4. PICK n : n = [pair |-> p, at |-> a, shape |-> h, strength |-> g]
    OBVIOUS
  <2>5. n \in Signal /\ n.pair = p /\ n.at = a /\ n.shape = h /\ n.strength = g
    BY <1>1, <2>3, <2>4 DEF Signal
  <2>6. Recorder!NewSignal(saving) = {n}
    BY <1>5, <2>3, <2>4, Zenon DEF Recorder!NewSignal
  <2>7. db'.signals = db.signals \cup {n}
    BY <1>2, <2>6
  <2>8. /\ \A q : q # p => RowsOf(q)' = RowsOf(q)
        /\ RowsOf(p)' = RowsOf(p) \cup {n}
    <3>1. \A q : q # p => RowsOf(q)' = RowsOf(q)
      BY <2>5, <2>7 DEF RowsOf
    <3>2. RowsOf(p)' = RowsOf(p) \cup {n}
      BY <2>5, <2>7 DEF RowsOf
    <3> QED
      BY <3>1, <3>2
  <2>9. Differs(n)
    <3> SUFFICES ASSUME RowsOf(p) # {}, p \notin blurred
                 PROVE  ~Recorder!Close(Recorder!Newest(RowsOf(p)), n)
      BY <2>5 DEF Differs
    <3>1. /\ Recorder!Recorded(p) # None
          /\ Recorder!Recorded(p).shape = Recorder!Newest(RowsOf(p)).shape
          /\ Recorder!Recorded(p).strength = Recorder!Newest(RowsOf(p)).strength
      BY <1>1, RecordedIsNewest
    <3>2. ~Recorder!Close(Recorder!Recorded(p), s)
      BY <2>1, <3>1 DEF Recorder!Significant
    <3> QED
      BY <2>3, <2>5, <3>1, <3>2 DEF Recorder!Close
  <2>10. NewDiffer
    BY <2>7, <2>9 DEF NewDiffer
  <2>11. ASSUME Recorder!Later(saving)
         PROVE  Recorder!Newest(RowsOf(p)') = n
    <3>1. \A r \in RowsOf(p) : r.at < n.at
      BY <1>1, <2>3, <2>5, <2>11 DEF Recorder!Later, RowsOf
    <3>2. RowsOf(p) \in SUBSET Signal
      BY <1>3 DEF RowsOf
    <3>3. Recorder!Newest(RowsOf(p) \cup {n}) = n
      BY <2>5, <3>1, <3>2, NewestIsNew
    <3> QED
      BY <2>8, <3>3
  <2>12. \A r \in db'.signals : r.at <= now
    BY <1>1, <1>3, <2>2, <2>3, <2>5, <2>7
  <2>13. db'.signals \subseteq Signal
    BY <1>3, <2>5, <2>7
  <2>14. RowsOf(p)' # {}
    BY <2>8
  <2> QED
    BY <1>5, <2>1, <2>3, <2>5, <2>8, <2>10, <2>11, <2>12, <2>13, <2>14
<1> QED
  BY <1>4, <1>5

\* What a step of the process leaves alone.
LEMMA SignalsStay ==
    ASSUME QueueInv, SignalInv, UNCHANGED <<db, trail, material, blurred>>,
           now' = now \/ now' = now + 1
    PROVE  SignalInv' /\ NewDiffer
<1>1. SignalTypes' /\ Cached' /\ NewDiffer
  BY DEF SignalInv, SignalTypes, Cached, RowsOf, NewDiffer
<1>2. \A p \in Pairs : ShownIsRecorded(p)'
  BY DEF SignalInv, ShownIsRecorded, RowsOf
<1>3. SignalsBounded'
  <2>1. now \in Nat /\ \A r \in db.signals : r.at \in Nat
    BY DEF QueueInv, QueueTypes, SignalInv, SignalTypes, Signal
  <2> QED
    BY <2>1 DEF SignalInv, SignalsBounded
<1> QED
  BY <1>1, <1>2, <1>3 DEF SignalInv

LEMMA SignalsStart ==
    ASSUME Recorder!Init, BreakInv
    PROVE  SignalInv
<1>1. /\ db.signals = {} /\ material = [p \in Pairs |-> None]
      /\ trail = [p \in Pairs |-> <<Recorder!Blank, Recorder!Blank>>]
  BY DEF Recorder!Init
<1>2. \A p \in Pairs : trail[p][2].covered = FALSE
  BY <1>1, BlankTrail
<1> QED
  BY <1>1, <1>2 DEF SignalInv, SignalTypes, SignalsBounded, Cached, ShownIsRecorded

LEMMA CommitRecords ==
    ASSUME QueueInv, BreakInv, SignalInv, Recorder!Commit
    PROVE  SignalInv' /\ NewDiffer
<1>1. PICK p, s : p = saving.pair /\ s = saving
  OBVIOUS
<1>2. /\ saving # None /\ db' = Recorder!Written(saving) /\ now' = now
      /\ blurred' = Recorder!Blurred(saving)
      /\ s \in Snap /\ p \in Pairs
  BY <1>1, SnapFields DEF Recorder!Commit, QueueInv, QueueTypes
<1>3. /\ db'.signals \subseteq Signal
      /\ \A r \in db'.signals : r.at <= now
      /\ NewDiffer
      /\ \A q : q # p => RowsOf(q)' = RowsOf(q)
      /\ Recorder!NewSignal(saving) = {} => db'.signals = db.signals
      /\ ~Recorder!Significant(saving) => Recorder!NewSignal(saving) = {}
      /\ Recorder!Significant(saving) /\ Recorder!Later(saving) =>
             /\ RowsOf(p)' # {}
             /\ LET new == Recorder!Newest(RowsOf(p)')
                IN  new.shape = s.shape /\ new.strength = s.strength
  BY <1>1, <1>2, SignalWritten
<1>4. /\ \A q \in Pairs : q # p => trail'[q] = trail[q]
      /\ trail'[p][2].shape = s.shape /\ trail'[p][2].strength = s.strength
      /\ trail'[p][2].covered = s.covered
  BY <1>1, <1>2, TrailAfter
<1>5. s.shape \in Shapes /\ s.strength \in 0 .. 2
  BY <1>2, SnapFields
<1>6. /\ material' \in [Pairs -> State \cup {None}]
      /\ \A q \in Pairs : q # p => material'[q] = material[q]
      /\ ~Recorder!Significant(saving) => material'[p] = material[p]
      /\ Recorder!Significant(saving) =>
             material'[p].shape = s.shape /\ material'[p].strength = s.strength
  <2>1. material \in [Pairs -> State \cup {None}]
    BY DEF SignalInv, SignalTypes
  <2>2. PICK h \in Shapes, g \in 0 .. 2 : h = s.shape /\ g = s.strength
    BY <1>5
  <2>3. [shape |-> h, strength |-> g] \in State
    BY <2>2 DEF State
  <2>4. material' = IF Recorder!Significant(saving)
                    THEN [material EXCEPT ![p] = [shape |-> h, strength |-> g]] ELSE material
    BY <1>1, <2>2 DEF Recorder!Commit, Recorder!Remember
  <2> QED
    BY <1>2, <2>1, <2>2, <2>3, <2>4
\* A pair the process knows the newest signal of: it did before, or has just
\* added it.
<1>7. ASSUME NEW q \in Pairs, q \notin blurred'
      PROVE  \/ q # p /\ q \notin blurred
             \/ q = p /\ Recorder!Significant(saving) /\ Recorder!Later(saving)
             \/ q = p /\ ~Recorder!Significant(saving) /\ q \notin blurred
  BY <1>1, <1>2, <1>7 DEF Recorder!Blurred
<1>8. ~Recorder!Significant(saving) => RowsOf(p)' = RowsOf(p)
  BY <1>3 DEF RowsOf
<1>9. Cached'
  <2> SUFFICES ASSUME NEW q \in Pairs, material'[q] # None, q \notin blurred'
               PROVE  /\ RowsOf(q)' # {}
                      /\ material'[q].shape = Recorder!Newest(RowsOf(q)').shape
                      /\ material'[q].strength = Recorder!Newest(RowsOf(q)').strength
    BY <1>2 DEF Cached, RowsOf, Recorder!Newest
  <2>1. CASE q = p /\ Recorder!Significant(saving) /\ Recorder!Later(saving)
    BY <1>3, <1>6, <2>1
  <2>2. CASE q \notin blurred /\ (q # p \/ ~Recorder!Significant(saving))
    <3>1. RowsOf(q)' = RowsOf(q) /\ material'[q] = material[q]
      BY <1>3, <1>6, <1>8, <2>2
    <3> QED
      BY <2>2, <3>1 DEF SignalInv, Cached
  <2> QED
    BY <1>7, <2>1, <2>2
<1>10. ASSUME NEW q \in Pairs, q \notin blurred', trail'[q][2].covered,
              trail'[q][2].shape \in Recorder!Live \ {"FORMING"}
       PROVE  RowsOf(q)' # {} /\ Recorder!Close(Recorder!Newest(RowsOf(q)'), trail'[q][2])
  <2>1. CASE q # p /\ q \notin blurred
    BY <1>3, <1>4, <1>10, <2>1 DEF SignalInv, ShownIsRecorded
  <2>2. CASE q = p /\ Recorder!Significant(saving) /\ Recorder!Later(saving)
    <3>1. PICK new : new = Recorder!Newest(RowsOf(p)')
      OBVIOUS
    <3>2. RowsOf(p)' # {} /\ new.shape = s.shape /\ new.strength = s.strength
      BY <1>3, <2>2, <3>1
    <3> QED
      BY <1>4, <1>5, <2>2, <3>1, <3>2 DEF Recorder!Close
  <2>3. CASE q = p /\ ~Recorder!Significant(saving) /\ q \notin blurred
    <3>1. Recorder!Recorded(p) # None /\ Recorder!Close(Recorder!Recorded(p), s)
      BY <1>1, <1>4, <1>10, <2>3 DEF Recorder!Significant
    <3>2. /\ RowsOf(p) # {}
          /\ Recorder!Recorded(p).shape = Recorder!Newest(RowsOf(p)).shape
          /\ Recorder!Recorded(p).strength = Recorder!Newest(RowsOf(p)).strength
      BY <1>2, <2>3, <3>1, RecordedIsNewest
    <3> QED
      BY <1>4, <1>8, <2>3, <3>1, <3>2 DEF Recorder!Close
  <2> QED
    BY <1>7, <1>10, <2>1, <2>2, <2>3
<1>11. \A q \in Pairs : ShownIsRecorded(q)'
  BY <1>2, <1>10 DEF ShownIsRecorded, RowsOf, Recorder!Newest, Recorder!Close, Recorder!Live
<1>12. SignalsBounded'
  BY <1>2, <1>3 DEF SignalsBounded
<1> QED
  BY <1>3, <1>6, <1>9, <1>11, <1>12 DEF SignalInv, SignalTypes

LEMMA UnacknowledgedRecords ==
    ASSUME QueueInv, SignalInv, Recorder!CommitUnacknowledged
    PROVE  SignalInv' /\ NewDiffer
<1>1. PICK p, s : p = saving.pair /\ s = saving
  OBVIOUS
<1>2. /\ saving # None /\ db' = Recorder!Written(saving)
      /\ UNCHANGED <<now, material, trail>>
      /\ blurred' = IF Recorder!NewSignal(saving) = {} THEN blurred ELSE blurred \cup {p}
  BY <1>1 DEF Recorder!CommitUnacknowledged
<1>3. /\ db'.signals \subseteq Signal
      /\ \A r \in db'.signals : r.at <= now
      /\ NewDiffer
      /\ \A q : q # p => RowsOf(q)' = RowsOf(q)
      /\ Recorder!NewSignal(saving) = {} => db'.signals = db.signals
  BY <1>1, <1>2, SignalWritten
<1>4. \A q : q \notin blurred' => RowsOf(q)' = RowsOf(q) /\ q \notin blurred
  BY <1>2, <1>3 DEF RowsOf
<1>5. Cached'
  BY <1>2, <1>4 DEF SignalInv, Cached
<1>6. \A q \in Pairs : ShownIsRecorded(q)'
  BY <1>2, <1>4 DEF SignalInv, ShownIsRecorded
<1> QED
  BY <1>2, <1>3, <1>5, <1>6 DEF SignalInv, SignalTypes, SignalsBounded

\* A new process reads the newest signal from the table.
LEMMA FreshReads ==
    ASSUME QueueInv, SignalInv, Recorder!Fresh
    PROVE  SignalInv' /\ NewDiffer
<1>1. /\ material' = [p \in Pairs |-> None]
      /\ trail' = [p \in Pairs |-> <<Recorder!Blank, Recorder!Blank>>]
      /\ now' = now + Interval + Stale /\ UNCHANGED db
  BY DEF Recorder!Fresh
<1>2. \A p \in Pairs : trail'[p][2].covered = FALSE
  BY <1>1, BlankTrail
<1>3. SignalsBounded'
  <2>1. now \in Nat /\ \A r \in db.signals : r.at \in Nat /\ r.at <= now
    BY DEF QueueInv, QueueTypes, SignalInv, SignalTypes, SignalsBounded, Signal
  <2> QED
    BY <1>1, <2>1, RecorderNumbers DEF SignalsBounded
<1>4. Cached'
  BY <1>1 DEF Cached
<1>5. \A p \in Pairs : ShownIsRecorded(p)'
  BY <1>2 DEF ShownIsRecorded
<1> QED
  BY <1>1, <1>3, <1>4, <1>5 DEF SignalInv, SignalTypes, NewDiffer

LEMMA SignalStep ==
    ASSUME QueueInv, BreakInv, SignalInv, Recorder!Next
    PROVE  SignalInv' /\ NewDiffer
<1>1. ASSUME Recorder!Stop \/ Recorder!Tick \/ Recorder!SaveFails \/ Recorder!Take
      PROVE  SignalInv' /\ NewDiffer
  <2>1. UNCHANGED <<db, trail, material, blurred>> /\ (now' = now \/ now' = now + 1)
    BY <1>1 DEF Recorder!Stop, Recorder!Tick, Recorder!memory, Recorder!SaveFails, Recorder!Take
  <2> QED
    BY <2>1, SignalsStay
<1>2. ASSUME NEW p \in Pairs, NEW old \in 0 .. Stale, NEW view \in Views(p),
             Recorder!Offer(p, view, now - old)
      PROVE  SignalInv' /\ NewDiffer
  <2>1. UNCHANGED <<db, trail, material, blurred, now>>
    BY <1>2 DEF Recorder!Offer
  <2> QED
    BY <2>1, SignalsStay
<1> QED
  BY <1>1, <1>2, CommitRecords, UnacknowledgedRecords, FreshReads
     DEF Recorder!Next, Recorder!Exit, Recorder!Crash

LEMMA SignalNext ==
    ASSUME part = "recorder" => QueueInv /\ BreakInv /\ SignalInv, [Next]_vars, part' = "recorder"
    PROVE  SignalInv' /\ (Next => NewDiffer)
<1>1. CASE Next
  <2>1. part = "recorder" /\ Recorder!Next
    BY <1>1 DEF Next, RecorderNext, AuditNext, EngineNext, CollectorNext, RecorderStep, AuditStep,
                EngineStep, CollectorStep
  <2> QED
    BY <2>1, SignalStep
<1>2. CASE UNCHANGED vars
  <2>1. part = "recorder" /\ UNCHANGED <<now, recorderVars>>
    BY <1>2 DEF vars
  <2>2. UNCHANGED <<now, pending, saving, accepted, db, material, trail, blurred>>
    BY <2>1, RecorderStutters
  <2> QED
    BY <2>1, <2>2, SignalsStay
<1> QED
  BY <1>1, <1>2

LEMMA SignalRuns == Spec => [](part = "recorder" => SignalInv)
<1>1. Init => (part = "recorder" => SignalInv)
  BY BreakStarts, SignalsStart DEF Init
<1>2. (part = "recorder" => QueueInv) /\ (part = "recorder" => BreakInv)
        /\ (part = "recorder" => SignalInv) /\ [Next]_vars
        => (part = "recorder" => SignalInv)'
  BY SignalNext
<1> QED
  BY <1>1, <1>2, QueueRuns, BreakRuns, PTL DEF Spec

LEMMA SignalsAreShown == ASSUME SignalInv PROVE Recorder!ChangeIsRecorded
BY DEF Recorder!ChangeIsRecorded, Recorder!Shown, Recorder!IsRecorded, SignalInv, ShownIsRecorded,
       RowsOf

\* The newest signal of a pair shows what was last saved of it, up to a change
\* that is not material: failed saves, restarts and drifts in small steps lose
\* none, whatever the age of the books, as long as changes are observed one
\* after another and their commits acknowledged.  No signal repeats the newest
\* one, after a restart neither.
THEOREM ChangesAreRecordedOnce == Spec => ChangeIsRecordedOnce
<1> DEFINE Once == part = "recorder" => Recorder!ChangeIsRecorded' /\ Recorder!NewSignalDiffers
<1>1. (part = "recorder" => QueueInv) /\ (part = "recorder" => BreakInv)
        /\ (part = "recorder" => SignalInv) /\ [Next]_vars
        => [Once]_vars
  <2> SUFFICES ASSUME part = "recorder", QueueInv, BreakInv, SignalInv, Next
               PROVE  Recorder!ChangeIsRecorded' /\ Recorder!NewSignalDiffers
    OBVIOUS
  <2>1. Recorder!Next
    BY DEF Next, RecorderNext, AuditNext, EngineNext, CollectorNext, RecorderStep, AuditStep,
           EngineStep, CollectorStep
  <2>2. SignalInv' /\ NewDiffer
    BY <2>1, SignalStep
  <2>3. Recorder!NewSignalDiffers
    BY <2>2 DEF NewDiffer, Differs, RowsOf, Recorder!NewSignalDiffers
  <2>4. SignalInv' => Recorder!ChangeIsRecorded'
    BY SignalsAreShown, PTL
  <2> QED
    BY <2>2, <2>3, <2>4
<1> QED
  BY <1>1, SignalRuns, QueueRuns, BreakRuns, PTL DEF Spec, ChangeIsRecordedOnce

-----------------------------------------------------------------------------
(* RadarEngine *)

WallRecord == [firstAt : Nat, lastAt : Nat, notional : Nat, peak : Nat, cancellations : Nat,
               concentrated : BOOLEAN]

EngineTypes ==
    /\ now \in Nat /\ lastAt \in Nat /\ lastAt <= now
    /\ book \in [Engine!Places -> Nat]
    /\ walls \in [Engine!Places -> WallRecord \cup {None}]
    /\ run \in [Engine!Places -> Nat \cup {None}]
    /\ \A x \in Engine!Places : run[x] # None => run[x] <= lastAt
    /\ \A x \in Engine!Places : Engine!Remembered(x) =>
           walls[x].firstAt <= lastAt /\ walls[x].lastAt <= lastAt

\* A wall that may go on standing was there at the last calculation, and is
\* said to be no older than it is; or it was seen too long ago to go on.
Observed(x) ==
    Engine!Standing(x) /\ walls[x].notional > 0 =>
        \/ walls[x].lastAt = lastAt /\ run[x] # None /\ walls[x].firstAt >= run[x]
        \/ lastAt - walls[x].lastAt > Gap

EngineInv ==
    /\ EngineTypes
    /\ \A x \in Engine!Places : Observed(x)
    /\ Engine!PersistenceIsObserved

LEMMA EngineNumbers ==
    /\ Bands \subseteq Nat /\ Gap \in Nat /\ MaxSuspicion \in Nat /\ None \notin Nat
    /\ \E n \in Nat : Bands = 1 .. n
    /\ Engine!Thin = 1 /\ Engine!Wall = 4 /\ Engine!Places = Exchanges \X Bands
  BY EngineAssumption DEF Engine!Thin, Engine!Wall, Engine!Places

\* Bands are merged two by two from the lowest one: the recursion is sound.
Merged(f, n, S) == f = [b \in 1 .. n |-> b \in S /\ ~(b > 1 /\ f[b - 1])]

LEMMA MergeExists ==
    ASSUME NEW S, NEW n \in Nat
    PROVE  \E f : Merged(f, n, S)
<1> DEFINE T == {k \in Nat : ~\E f : Merged(f, k, S)}
<1> SUFFICES ASSUME T # {} PROVE FALSE
  OBVIOUS
<1>1. PICK m \in T : \A k \in T : m <= k
  BY Smallest
<1>2. m # 0
  <2> SUFFICES ASSUME m = 0 PROVE FALSE
    OBVIOUS
  <2> DEFINE f == [b \in 1 .. 0 |-> TRUE]
  <2>1. Merged(f, 0, S)
    BY DEF Merged
  <2> QED
    BY <2>1, <1>1
<1>3. m \in Nat /\ m - 1 \in Nat
  BY <1>1, <1>2
<1>4. m - 1 \notin T
  BY <1>1, <1>3
<1>5. PICK f : Merged(f, m - 1, S)
  BY <1>3, <1>4
<1> DEFINE top == m \in S /\ ~(m > 1 /\ f[m - 1])
           g == [b \in 1 .. m |-> IF b < m THEN f[b] ELSE top]
<1>6. ASSUME NEW b \in 1 .. m
      PROVE  g[b] = (b \in S /\ ~(b > 1 /\ g[b - 1]))
  <2>1. CASE b < m
    <3>1. b \in 1 .. m - 1 /\ g[b] = f[b] /\ (b > 1 => b - 1 \in 1 .. m /\ g[b - 1] = f[b - 1])
      BY <1>3, <2>1
    <3>2. f[b] = (b \in S /\ ~(b > 1 /\ f[b - 1]))
      BY <1>5, <3>1 DEF Merged
    <3> QED
      BY <3>1, <3>2
  <2>2. CASE b = m
    <3>1. g[b] = top /\ (b > 1 => b - 1 \in 1 .. m /\ g[b - 1] = f[b - 1])
      BY <1>3, <2>2
    <3> QED
      BY <2>2, <3>1
  <2> QED
    BY <1>3, <2>1, <2>2
<1>7. Merged(g, m, S)
  BY <1>6 DEF Merged
<1>8. m \notin T
  BY <1>3, <1>7
<1> QED
  BY <1>1, <1>8

LEMMA AnchorIsHeld ==
    ASSUME NEW b \in Bands, Engine!Anchor[b]
    PROVE  Engine!Held(b)
<1>1. PICK n \in Nat : Bands = 1 .. n
  BY EngineNumbers
<1> DEFINE S == {c \in Bands : Engine!Held(c)}
<1>2. \A c \in Bands : c \in S <=> Engine!Held(c)
  OBVIOUS
<1> HIDE DEF S
<1>3. PICK f : Merged(f, n, S)
  BY <1>1, MergeExists
<1>4. f = [c \in Bands |-> Engine!Held(c) /\ ~(c > 1 /\ f[c - 1])]
  BY <1>1, <1>2, <1>3 DEF Merged
<1>5. Engine!Anchor = [c \in Bands |-> Engine!Held(c) /\ ~(c > 1 /\ Engine!Anchor[c - 1])]
  BY <1>4, Zenon DEF Engine!Anchor
<1> QED
  BY <1>5

LEMMA WallFields ==
    ASSUME NEW w \in WallRecord
    PROVE  /\ w.firstAt \in Nat /\ w.lastAt \in Nat /\ w.notional \in Nat /\ w.peak \in Nat
           /\ w.cancellations \in Nat /\ w.concentrated \in BOOLEAN
  BY DEF WallRecord

LEMMA WallOf ==
    ASSUME NEW S1, NEW S2, NEW S3, NEW S4, NEW S5, NEW S6, NEW a \in S1, NEW b \in S2,
           NEW c \in S3, NEW d \in S4, NEW e \in S5, NEW f \in S6
    PROVE  LET w == [firstAt |-> a, lastAt |-> b, notional |-> c, peak |-> d,
                     cancellations |-> e, concentrated |-> f]
           IN  /\ w \in [firstAt : S1, lastAt : S2, notional : S3, peak : S4,
                         cancellations : S5, concentrated : S6]
               /\ w.firstAt = a /\ w.lastAt = b /\ w.notional = c /\ w.concentrated = f
  OBVIOUS

\* A wall that went: its notional, its concentration and its cancellations.
LEMMA WallGone ==
    ASSUME NEW S1, NEW S2, NEW S3, NEW S4, NEW S5, NEW S6,
           NEW w \in [firstAt : S1, lastAt : S2, notional : S3, peak : S4, cancellations : S5,
                      concentrated : S6],
           NEW c \in S3, NEW e \in S5, NEW f \in S6
    PROVE  LET u == [w EXCEPT !.notional = c, !.concentrated = f, !.cancellations = e]
           IN  /\ u \in [firstAt : S1, lastAt : S2, notional : S3, peak : S4,
                         cancellations : S5, concentrated : S6]
               /\ u.firstAt = w.firstAt /\ u.lastAt = w.lastAt /\ u.notional = c
               /\ u.concentrated = f
  OBVIOUS

LEMMA SmallestOfTwo ==
    ASSUME NEW a \in Nat, NEW b \in Nat
    PROVE  Engine!Min({a, b}) \in Nat
<1>1. \E x \in {a, b} : \A y \in {a, b} : x <= y
  BY Smallest
<1>2. Engine!Min({a, b}) \in {a, b}
  BY <1>1, Zenon DEF Engine!Min
<1> QED
  BY <1>2

LEMMA GreatestOfTwo ==
    ASSUME NEW a \in Nat, NEW b \in Nat
    PROVE  Engine!Max({a, b}) \in Nat
<1>1. \E x \in {a, b} : \A y \in {a, b} : x >= y
  <2>1. CASE a <= b
    BY <2>1
  <2>2. CASE ~(a <= b)
    BY <2>2
  <2> QED
    BY <2>1, <2>2
<1>2. Engine!Max({a, b}) \in {a, b}
  BY <1>1, Zenon DEF Engine!Max
<1> QED
  BY <1>2

LEMMA GreatestOf ==
    ASSUME NEW T \in SUBSET Nat, NEW x \in T, NEW top \in Nat, \A y \in T : y <= top
    PROVE  Engine!Max(T) \in T /\ \A y \in T : y <= Engine!Max(T)
<1>1. \E y \in T : \A z \in T : y >= z
  BY Greatest
<1>2. Engine!Max(T) \in T /\ \A z \in T : Engine!Max(T) >= z
  BY <1>1, Zenon DEF Engine!Max
<1> QED
  BY <1>2

LEMMA UpdatedWallIs ==
    ASSUME EngineTypes, NEW x \in Engine!Places
    PROVE  LET u == Engine!UpdatedWall(x)
           IN  /\ u \in WallRecord /\ u.lastAt = now /\ u.notional = book[x]
               /\ u.concentrated = (book[x] = Engine!Wall)
               /\ u.firstAt = IF Engine!Continuous(x) THEN walls[x].firstAt ELSE now
<1>1. now \in Nat /\ book[x] \in Nat /\ walls[x] \in WallRecord \cup {None}
  BY DEF EngineTypes
<1>2. Engine!Remembered(x) => walls[x] \in WallRecord
  BY <1>1 DEF Engine!Remembered
<1>3. Engine!Continuous(x) => walls[x].firstAt \in Nat
  BY <1>2, WallFields DEF Engine!Continuous, Engine!Standing
<1>4. PICK first \in Nat : first = IF Engine!Continuous(x) THEN walls[x].firstAt ELSE now
  BY <1>1, <1>3
<1>5. PICK peak \in Nat : peak = IF Engine!Remembered(x) THEN Engine!Max({walls[x].peak, book[x]})
                                                         ELSE book[x]
  BY <1>1, <1>2, WallFields, GreatestOfTwo
<1>6. PICK before \in Nat :
          before = IF Engine!Remembered(x) THEN walls[x].cancellations ELSE 0
  BY <1>2, WallFields
<1>7. PICK moved \in Nat : moved = IF Engine!Moved(x) THEN 2 ELSE 0
  OBVIOUS
<1>8. PICK shrunk \in Nat :
          shrunk = IF Engine!Remembered(x) /\ Engine!Shrunk(x) THEN 1 ELSE 0
  OBVIOUS
<1>9. before + moved + shrunk \in Nat
  BY <1>6, <1>7, <1>8
<1>10. PICK c \in Nat : c = Engine!Suspicion(before + moved + shrunk)
  BY <1>9, SmallestOfTwo, EngineNumbers DEF Engine!Suspicion
<1>11. PICK f \in BOOLEAN : f = (book[x] = Engine!Wall)
  OBVIOUS
<1>12. Engine!UpdatedWall(x) =
           [firstAt |-> first, lastAt |-> now, notional |-> book[x], peak |-> peak,
            cancellations |-> c, concentrated |-> f]
  BY <1>4, <1>5, <1>6, <1>7, <1>8, <1>10, <1>11, Zenon DEF Engine!UpdatedWall
<1>13. book[x] \in Nat /\ now \in Nat
  BY <1>1
<1>14. LET u == [firstAt |-> first, lastAt |-> now, notional |-> book[x], peak |-> peak,
                 cancellations |-> c, concentrated |-> f]
       IN  /\ u \in WallRecord
           /\ u.firstAt = first /\ u.lastAt = now /\ u.notional = book[x] /\ u.concentrated = f
  BY <1>4, <1>5, <1>10, <1>11, <1>13, WallOf, Zenon DEF WallRecord
<1> QED
  BY <1>4, <1>11, <1>12, <1>14

\* What is left of a wall that is not there: it stands no more, unless it was
\* seen too long ago to go on.
LEMMA AbsentWallIs ==
    ASSUME EngineTypes, NEW x \in Engine!Places, Engine!Remembered(x)
    PROVE  LET u == Engine!AbsentWall(x)
           IN  /\ u \in WallRecord \cup {None}
               /\ u # None => u.firstAt = walls[x].firstAt /\ u.lastAt = walls[x].lastAt
               /\ u # None /\ u.concentrated /\ u.notional > 0 => now - u.lastAt > Gap
<1>1. walls[x] \in WallRecord
  BY DEF EngineTypes, Engine!Remembered
<1>2. PICK w \in WallRecord : w = walls[x]
  BY <1>1
<1>3. /\ w.lastAt \in Nat /\ w.notional \in Nat /\ w.cancellations \in Nat /\ w.lastAt <= now
      /\ now \in Nat /\ Gap \in Nat
  BY <1>2, WallFields, EngineNumbers DEF EngineTypes
<1>4. CASE now - w.lastAt > History
  BY <1>2, <1>4 DEF Engine!AbsentWall
<1>5. CASE ~(now - w.lastAt > History) /\ now - w.lastAt <= Gap /\ w.notional > 0
  <2>1. w.cancellations + 1 \in Nat
    BY <1>3
  <2>2. PICK c \in Nat :
            c = IF Engine!Executed(x) THEN w.cancellations ELSE Engine!Suspicion(w.cancellations + 1)
    BY <1>3, <2>1, SmallestOfTwo, EngineNumbers DEF Engine!Suspicion
  <2>3. Engine!AbsentWall(x) =
            [w EXCEPT !.notional = 0, !.concentrated = FALSE, !.cancellations = c]
    <3>1. Engine!AbsentWall(x) =
              [w EXCEPT !.notional = 0, !.concentrated = FALSE,
                        !.cancellations = IF Engine!Executed(x) THEN @ ELSE Engine!Suspicion(@ + 1)]
      BY <1>2, <1>5 DEF Engine!AbsentWall
    <3> QED
      BY <2>2, <3>1
  <2>4. 0 \in Nat /\ FALSE \in BOOLEAN
    OBVIOUS
  <2>5. LET u == [w EXCEPT !.notional = 0, !.concentrated = FALSE, !.cancellations = c]
        IN  /\ u \in WallRecord /\ u.firstAt = w.firstAt /\ u.lastAt = w.lastAt
            /\ u.notional = 0 /\ u.concentrated = FALSE
    BY <2>2, <2>4, WallGone, Zenon DEF WallRecord
  <2> QED
    BY <1>2, <2>3, <2>5
<1>6. CASE ~(now - w.lastAt > History) /\ ~(now - w.lastAt <= Gap /\ w.notional > 0)
  <2>1. Engine!AbsentWall(x) = w
    BY <1>2, <1>6 DEF Engine!AbsentWall
  <2> QED
    BY <1>2, <1>3, <1>6, <2>1
<1> QED
  BY <1>4, <1>5, <1>6

\* A wall that goes on without a break was there at every calculation since.
LEMMA ContinuousIsObserved ==
    ASSUME EngineInv, NEW x \in Engine!Places, Engine!Continuous(x), now > lastAt
    PROVE  /\ run[x] # None /\ run[x] \in Nat /\ walls[x].firstAt >= run[x]
           /\ walls[x].firstAt \in Nat /\ walls[x].firstAt <= lastAt /\ now - lastAt <= Gap
<1>1. Engine!Remembered(x) /\ Engine!Standing(x) /\ walls[x].notional > 0
  BY DEF Engine!Continuous, Engine!Standing
<1>2. walls[x] \in WallRecord
  BY <1>1 DEF EngineInv, EngineTypes, Engine!Remembered
<1>3. /\ walls[x].lastAt \in Nat /\ walls[x].firstAt \in Nat /\ now \in Nat /\ lastAt \in Nat
      /\ Gap \in Nat /\ walls[x].firstAt <= lastAt
  BY <1>1, <1>2, WallFields, EngineNumbers DEF EngineInv, EngineTypes
<1>4. now - walls[x].lastAt <= Gap
  BY DEF Engine!Continuous
<1>5. ~(lastAt - walls[x].lastAt > Gap)
  BY <1>3, <1>4
<1>6. walls[x].lastAt = lastAt /\ run[x] # None /\ walls[x].firstAt >= run[x]
  BY <1>1, <1>5 DEF EngineInv, Observed
<1>7. run[x] \in Nat
  BY <1>6 DEF EngineInv, EngineTypes
<1> QED
  BY <1>3, <1>4, <1>6, <1>7

LEMMA PlacesHaveBands ==
    ASSUME NEW x \in Engine!Places
    PROVE  x[2] \in Bands /\ x[2] \in Nat
<1>1. x \in Exchanges \X Bands
  BY DEF Engine!Places
<1> QED
  BY <1>1, EngineNumbers

LEMMA CalculateKeeps ==
    ASSUME EngineInv, Engine!Calculate
    PROVE  EngineInv'
<1>1. /\ now \in Nat /\ lastAt \in Nat /\ now > lastAt /\ Gap \in Nat
      /\ book \in [Engine!Places -> Nat]
  BY EngineNumbers DEF EngineInv, EngineTypes, Engine!Calculate
<1>2. /\ lastAt' = now /\ now' = now /\ book' = book /\ walls' = Engine!NextWalls
      /\ DOMAIN walls' = Engine!Places
  BY DEF Engine!Calculate, Engine!NextWalls
<1>3. run' = [x \in Engine!Places |-> IF ~Engine!Concentrated(x) THEN None
                                      ELSE IF run[x] # None /\ now - lastAt <= Gap THEN run[x]
                                      ELSE now]
  BY DEF Engine!Calculate
<1>4. ASSUME NEW x \in Engine!Places
      PROVE  /\ run'[x] \in Nat \cup {None} /\ (run'[x] # None => run'[x] <= now)
             /\ (run'[x] # None <=> Engine!Concentrated(x))
             /\ run'[x] # None /\ run'[x] # now => run'[x] = run[x]
             /\ Engine!Concentrated(x) /\ run[x] # None /\ now - lastAt <= Gap => run'[x] = run[x]
  <2>1. run[x] \in Nat \cup {None} /\ (run[x] # None => run[x] <= lastAt)
    BY DEF EngineInv, EngineTypes
  <2> QED
    BY <1>1, <1>3, <2>1, EngineNumbers
<1>5. ASSUME NEW x \in Engine!Places, Engine!Seen(x)
      PROVE  /\ walls'[x] = Engine!UpdatedWall(x)
             /\ walls'[x] \in WallRecord /\ walls'[x].lastAt = now /\ walls'[x].firstAt <= now
             /\ walls'[x].concentrated => Engine!Concentrated(x)
             /\ Engine!Concentrated(x) => walls'[x].firstAt >= run'[x]
  <2>1. walls'[x] = Engine!UpdatedWall(x)
    BY <1>2, <1>5 DEF Engine!NextWalls
  <2> DEFINE u == Engine!UpdatedWall(x)
  <2>2. /\ u \in WallRecord /\ u.lastAt = now
        /\ u.concentrated = (book[x] = Engine!Wall)
        /\ u.firstAt = IF Engine!Continuous(x) THEN walls[x].firstAt ELSE now
    BY UpdatedWallIs DEF EngineInv
  <2> HIDE DEF u
  <2>3. u.concentrated => Engine!Concentrated(x)
    BY <1>5, <2>2 DEF Engine!Concentrated
  <2>4. CASE Engine!Continuous(x)
    <3>1. /\ run[x] # None /\ run[x] \in Nat /\ walls[x].firstAt >= run[x]
          /\ walls[x].firstAt \in Nat /\ walls[x].firstAt <= lastAt /\ now - lastAt <= Gap
      BY <1>1, <2>4, ContinuousIsObserved
    <3>2. u.firstAt = walls[x].firstAt
      BY <2>2, <2>4
    <3>3. Engine!Concentrated(x) => run'[x] = run[x]
      BY <1>4, <3>1
    <3>4. u.firstAt <= now /\ (Engine!Concentrated(x) => u.firstAt >= run'[x])
      BY <1>1, <3>1, <3>2, <3>3
    <3> QED
      BY <2>1, <2>2, <2>3, <3>4 DEF u
  <2>5. CASE ~Engine!Continuous(x)
    <3>1. u.firstAt = now
      BY <2>2, <2>5
    <3>2. Engine!Concentrated(x) => run'[x] \in Nat /\ run'[x] <= now
      BY <1>4
    <3>3. u.firstAt <= now /\ (Engine!Concentrated(x) => u.firstAt >= run'[x])
      BY <1>1, <3>1, <3>2
    <3> QED
      BY <2>1, <2>2, <2>3, <3>3 DEF u
  <2> QED
    BY <2>4, <2>5
<1>6. ASSUME NEW x \in Engine!Places, ~Engine!Seen(x)
      PROVE  /\ walls'[x] \in WallRecord \cup {None}
             /\ walls'[x] # None =>
                    walls'[x].firstAt <= now /\ walls'[x].lastAt <= now
             /\ walls'[x] # None /\ walls'[x].concentrated /\ walls'[x].notional > 0 =>
                    now - walls'[x].lastAt > Gap
  <2>1. walls'[x] = IF Engine!Remembered(x) THEN Engine!AbsentWall(x) ELSE None
    BY <1>2, <1>6 DEF Engine!NextWalls
  <2>2. CASE Engine!Remembered(x)
    <3> DEFINE u == Engine!AbsentWall(x)
    <3>1. /\ u \in WallRecord \cup {None}
          /\ u # None => u.firstAt = walls[x].firstAt /\ u.lastAt = walls[x].lastAt
          /\ u # None /\ u.concentrated /\ u.notional > 0 => now - u.lastAt > Gap
      BY <2>2, AbsentWallIs DEF EngineInv
    <3> HIDE DEF u
    <3>2. walls'[x] = u
      BY <2>1, <2>2 DEF u
    <3>3. walls[x] \in WallRecord /\ walls[x].firstAt <= lastAt /\ walls[x].lastAt <= lastAt
      BY <2>2 DEF EngineInv, EngineTypes, Engine!Remembered
    <3>4. walls[x].firstAt <= now /\ walls[x].lastAt <= now
      BY <1>1, <3>3, WallFields
    <3> QED
      BY <3>1, <3>2, <3>4
  <2>3. CASE ~Engine!Remembered(x)
    BY <2>1, <2>3
  <2> QED
    BY <2>2, <2>3
<1>7. EngineTypes'
  <2>1. walls' \in [Engine!Places -> WallRecord \cup {None}]
    <3>1. \A x \in Engine!Places : walls'[x] \in WallRecord \cup {None}
      BY <1>5, <1>6
    <3>2. walls' = [x \in Engine!Places |-> walls'[x]]
      BY <1>2 DEF Engine!NextWalls
    <3> QED
      BY <3>1, <3>2
  <2>2. run' \in [Engine!Places -> Nat \cup {None}]
    BY <1>3, <1>4
  <2>3. ASSUME NEW x \in Engine!Places, walls'[x] # None
        PROVE  walls'[x].firstAt <= now /\ walls'[x].lastAt <= now
    BY <1>1, <1>5, <1>6, <2>3
  <2>4. now' \in Nat /\ lastAt' \in Nat /\ lastAt' <= now' /\ book' \in [Engine!Places -> Nat]
    BY <1>1, <1>2
  <2>5. \A x \in Engine!Places : run'[x] # None => run'[x] <= lastAt'
    BY <1>2, <1>4
  <2>6. \A x \in Engine!Places : Engine!Remembered(x)' =>
            walls'[x].firstAt <= lastAt' /\ walls'[x].lastAt <= lastAt'
    BY <1>2, <2>3 DEF Engine!Remembered
  <2> QED
    BY <2>1, <2>2, <2>4, <2>5, <2>6 DEF EngineTypes, WallRecord, Engine!Places
<1>8. ASSUME NEW x \in Engine!Places
      PROVE  Observed(x)'
  <2>1. CASE Engine!Seen(x)
    <3>1. walls'[x].lastAt = lastAt'
      BY <1>2, <1>5, <2>1
    <3>2. walls'[x].concentrated => run'[x] # None /\ walls'[x].firstAt >= run'[x]
      BY <1>4, <1>5, <2>1
    <3> QED
      BY <3>1, <3>2 DEF Observed, Engine!Standing
  <2>2. CASE ~Engine!Seen(x)
    <3>1. walls'[x] # None /\ walls'[x].concentrated /\ walls'[x].notional > 0 =>
              lastAt' - walls'[x].lastAt > Gap
      BY <1>2, <1>6, <2>2
    <3> QED
      BY <3>1 DEF Observed, Engine!Standing, Engine!Remembered
  <2> QED
    BY <2>1, <2>2
<1>9. Engine!PersistenceIsObserved'
  <2>1. SUFFICES ASSUME NEW b \in shown', NEW x \in Engine!Places, run'[x] # None,
                        x[2] \in b .. zones'[b].top
                 PROVE  zones'[b].firstAt >= run'[x]
    BY DEF Engine!PersistenceIsObserved, Engine!Places
  <2>2. b \in Bands /\ Engine!Anchor[b] /\ zones'[b] = Engine!Zone(b)
    BY <2>1 DEF Engine!Calculate, Engine!NextZones
  <2>3. b \in Nat
    BY <2>2, EngineNumbers
  <2> DEFINE M == Engine!Members(b)
             tops == {y[2] : y \in M}
             firsts == {Engine!NextWalls[y].firstAt : y \in M}
  <2>4. \A y \in M : y \in Engine!Places /\ Engine!Concentrated(y) /\ y[2] \in {b, b + 1}
    BY DEF Engine!Members
  <2>5. PICK v \in Exchanges : Engine!Concentrated(<<v, b>>)
    BY <2>2, AnchorIsHeld DEF Engine!Held
  <2>6. <<v, b>> \in M
    BY <2>2, <2>5 DEF Engine!Members, Engine!Places
  <2>7. zones'[b].top = Engine!Max(tops) /\ zones'[b].firstAt = Engine!Max(firsts)
    <3>1. zones'[b] = Engine!Zone(b)
      BY <2>2
    <3>2. /\ Engine!Zone(b).top = Engine!Max({y[2] : y \in Engine!Members(b)})
          /\ Engine!Zone(b).firstAt =
                 Engine!Max({Engine!NextWalls[y].firstAt : y \in Engine!Members(b)})
      BY DEF Engine!Zone
    <3> QED
      BY <3>1, <3>2
  <2>8. Engine!Max(tops) <= b + 1
    <3>1. tops \in SUBSET Nat /\ (\A t \in tops : t <= b + 1) /\ b + 1 \in Nat
      BY <2>3, <2>4
    <3>2. b \in tops
      BY <2>6
    <3> HIDE DEF tops
    <3> QED
      BY <3>1, <3>2, GreatestOf
  <2>9. x \in M
    <3>1. x[2] \in Nat
      BY PlacesHaveBands
    <3>2. Engine!Max(tops) \in Nat
      <4>1. tops \in SUBSET Nat /\ (\A t \in tops : t <= b + 1) /\ b + 1 \in Nat
        BY <2>3, <2>4
      <4>2. b \in tops
        BY <2>6
      <4> HIDE DEF tops
      <4> QED
        BY <4>1, <4>2, GreatestOf
    <3>3. x[2] \in {b, b + 1}
      <4> HIDE DEF tops
      <4> QED
        BY <2>1, <2>3, <2>7, <2>8, <3>1, <3>2
    <3> QED
      BY <1>4, <2>1, <3>3 DEF Engine!Members
  <2>10. ASSUME NEW y \in M
         PROVE  Engine!NextWalls[y].firstAt \in Nat /\ Engine!NextWalls[y].firstAt <= now
    <3>1. y \in Engine!Places /\ Engine!Seen(y)
      BY <2>4 DEF Engine!Concentrated
    <3> QED
      BY <1>2, <1>5, <3>1, WallFields
  <2>11. Engine!NextWalls[x].firstAt \in firsts
    BY <2>9
  <2>12. Engine!NextWalls[x].firstAt <= Engine!Max(firsts) /\ Engine!Max(firsts) \in Nat
    <3>1. firsts \in SUBSET Nat /\ \A t \in firsts : t <= now
      BY <2>10
    <3> HIDE DEF firsts
    <3> QED
      BY <1>1, <2>11, <3>1, GreatestOf
  <2>13. Engine!NextWalls[x].firstAt >= run'[x]
    <3>1. Engine!Concentrated(x) /\ Engine!Seen(x)
      BY <2>4, <2>9 DEF Engine!Concentrated
    <3> QED
      BY <1>2, <1>5, <3>1
  <2>14. run'[x] \in Nat /\ Engine!NextWalls[x].firstAt \in Nat
    BY <1>4, <2>1, <2>9, <2>10
  <2> QED
    <3> HIDE DEF firsts
    <3> QED
      BY <2>7, <2>12, <2>13, <2>14
<1> QED
  BY <1>7, <1>8, <1>9 DEF EngineInv, Engine!Places

LEMMA EngineStarts ==
    ASSUME Engine!Init
    PROVE  EngineInv
<1>1. /\ now = 1 /\ lastAt = 0 /\ shown = {}
      /\ book = [x \in Engine!Places |-> Engine!Thin]
      /\ walls = [x \in Engine!Places |-> None] /\ run = [x \in Engine!Places |-> None]
  BY DEF Engine!Init
<1>2. EngineTypes
  BY <1>1, EngineNumbers DEF EngineTypes, Engine!Remembered
<1>3. \A x \in Engine!Places : Observed(x)
  BY <1>1 DEF Observed, Engine!Standing, Engine!Remembered
<1> QED
  BY <1>1, <1>2, <1>3 DEF EngineInv, Engine!PersistenceIsObserved

\* Between calculations only the clock and the books change.
LEMMA EngineStays ==
    ASSUME EngineInv, UNCHANGED Engine!engine, now' \in Nat, now' >= now,
           book' \in [Engine!Places -> Nat]
    PROVE  EngineInv'
<1>1. /\ lastAt' = lastAt /\ walls' = walls /\ run' = run /\ shown' = shown /\ zones' = zones
  BY DEF Engine!engine
<1>2. EngineTypes'
  <2>1. lastAt <= now' /\ lastAt \in Nat
    BY DEF EngineInv, EngineTypes
  <2> QED
    BY <1>1, <2>1 DEF EngineInv, EngineTypes, WallRecord, Engine!Places, Engine!Remembered
<1>3. ASSUME NEW x \in Engine!Places
      PROVE  Observed(x)'
  <2>1. Observed(x)
    BY DEF EngineInv
  <2> QED
    BY <1>1, <2>1 DEF Observed, Engine!Standing, Engine!Remembered
<1>4. Engine!PersistenceIsObserved'
  BY <1>1 DEF EngineInv, Engine!PersistenceIsObserved, Engine!Places
<1> QED
  BY <1>2, <1>3, <1>4 DEF EngineInv, Engine!Places

LEMMA EngineMoves ==
    ASSUME EngineInv, Engine!Next
    PROVE  EngineInv'
<1>1. now \in Nat /\ now + 1 \in Nat /\ now + 1 >= now /\ book \in [Engine!Places -> Nat]
  BY DEF EngineInv, EngineTypes
<1>2. CASE Engine!Calculate
  BY <1>2, CalculateKeeps
<1>3. CASE Engine!Tick
  BY <1>1, <1>3, EngineStays DEF Engine!Tick, Engine!market
<1>4. CASE Engine!Receive
  <2>1. PICK n \in Nat : n = Engine!Min({book[flying.place], Engine!Thin}) \/
                         flying.place \notin Engine!Places
    BY <1>1, EngineNumbers, SmallestOfTwo
  <2>2. book' \in [Engine!Places -> Nat]
    BY <1>1, <1>4, <2>1 DEF Engine!Receive
  <2> QED
    BY <1>1, <1>4, <2>2, EngineStays DEF Engine!Receive
<1>5. ASSUME NEW x \in Engine!Places, NEW level \in {0, Engine!Thin, Engine!Wall},
             Engine!Requote(x, level)
      PROVE  EngineInv'
  <2>1. level \in Nat
    BY EngineNumbers
  <2>2. book' \in [Engine!Places -> Nat]
    BY <1>1, <1>5, <2>1 DEF Engine!Requote
  <2> QED
    BY <1>1, <1>5, <2>2, EngineStays DEF Engine!Requote
<1>6. ASSUME NEW p \in Bands, Engine!PriceMoves(p)
      PROVE  EngineInv'
  <2>1. book' \in [Engine!Places -> Nat]
    BY <1>1, <1>6 DEF Engine!PriceMoves
  <2> QED
    BY <1>1, <1>6, <2>1, EngineStays DEF Engine!PriceMoves
<1>7. ASSUME NEW v \in Exchanges, Engine!HealthChanges(v)
      PROVE  EngineInv'
  BY <1>1, <1>7, EngineStays DEF Engine!HealthChanges
<1>8. ASSUME NEW x \in Engine!Places, Engine!Execute(x)
      PROVE  EngineInv'
  BY <1>1, <1>8, EngineStays DEF Engine!Execute
<1> QED
  BY <1>2, <1>3, <1>4, <1>5, <1>6, <1>7, <1>8 DEF Engine!Next

LEMMA EngineRuns == Spec => [](part = "engine" => EngineInv)
<1>1. Init => (part = "engine" => EngineInv)
  BY EngineStarts DEF Init
<1>2. (part = "engine" => EngineInv) /\ [Next]_vars => (part = "engine" => EngineInv)'
  <2> SUFFICES ASSUME part = "engine" => EngineInv, [Next]_vars, part' = "engine"
               PROVE  EngineInv'
    OBVIOUS
  <2>1. CASE Next
    <3>1. part = "engine" /\ Engine!Next
      BY <2>1 DEF Next, RecorderNext, AuditNext, EngineNext, CollectorNext, RecorderStep, AuditStep,
                  EngineStep, CollectorStep
    <3> QED
      BY <3>1, EngineMoves
  <2>2. CASE UNCHANGED vars
    <3>1. part = "engine" /\ EngineInv /\ UNCHANGED <<now, engineVars>>
      BY <2>2 DEF vars
    <3>2. /\ UNCHANGED Engine!engine /\ now' \in Nat /\ now' >= now
          /\ book' \in [Engine!Places -> Nat]
      BY <3>1 DEF engineVars, Engine!engine, EngineInv, EngineTypes
    <3> QED
      BY <3>1, <3>2, EngineStays
  <2> QED
    BY <2>1, <2>2
<1> QED
  BY <1>1, <1>2, PTL DEF Spec

\* No zone is said to be older than the shortest time for which each of its
\* walls stood at every calculation: absences, falls below the threshold,
\* outages of a venue and pauses of the collector all start the age anew, for
\* any venues, bands and gap.
THEOREM AgesAreObserved == Spec => []PersistenceIsObserved
<1>1. (part = "engine" => EngineInv) => PersistenceIsObserved
  BY DEF PersistenceIsObserved, EngineInv
<1> QED
  BY <1>1, EngineRuns, PTL

-----------------------------------------------------------------------------
(* RadarCollector: the first members of an ordered set *)

IsOrder(R, S) ==
    /\ \A x \in S : <<x, x>> \notin R
    /\ \A x, y, z \in S : <<x, y>> \in R /\ <<y, z>> \in R => <<x, z>> \in R
    /\ \A x, y \in S : x # y => <<x, y>> \in R \/ <<y, x>> \in R

Below(x, S, R) == {y \in S : <<y, x>> \in R}
FirstOf(n, S, R) == {x \in S : Cardinality(Below(x, S, R)) < n}

LEMMA BelowIsFinite ==
    ASSUME NEW S, IsFiniteSet(S), NEW R, NEW x
    PROVE  /\ Below(x, S, R) \subseteq S
           /\ IsFiniteSet(Below(x, S, R)) /\ Cardinality(Below(x, S, R)) \in Nat
  BY FS_Subset, FS_CardinalityType DEF Below

LEMMA StrictSubset ==
    ASSUME NEW S, NEW T, NEW x \in T, IsFiniteSet(T), S \subseteq T, x \notin S
    PROVE  Cardinality(S) < Cardinality(T)
<1>1. /\ IsFiniteSet(S) /\ Cardinality(S) <= Cardinality(T)
      /\ Cardinality(S) = Cardinality(T) => S = T
  BY FS_Subset
<1>2. Cardinality(S) \in Nat /\ Cardinality(T) \in Nat
  BY <1>1, FS_CardinalityType
<1> QED
  BY <1>1, <1>2

LEMMA RanksGrow ==
    ASSUME NEW S, IsFiniteSet(S), NEW R, IsOrder(R, S), NEW x \in S, NEW y \in S, <<x, y>> \in R
    PROVE  Cardinality(Below(x, S, R)) < Cardinality(Below(y, S, R))
<1>1. Below(x, S, R) \subseteq Below(y, S, R) /\ x \in Below(y, S, R) /\ x \notin Below(x, S, R)
  BY DEF Below, IsOrder
<1>2. IsFiniteSet(Below(y, S, R))
  BY BelowIsFinite
<1> QED
  BY <1>1, <1>2, StrictSubset

\* One member at most has a given rank.
LEMMA RanksDiffer ==
    ASSUME NEW S, IsFiniteSet(S), NEW R, IsOrder(R, S), NEW x \in S, NEW y \in S,
           Cardinality(Below(x, S, R)) = Cardinality(Below(y, S, R))
    PROVE  x = y
<1> SUFFICES ASSUME x # y PROVE FALSE
  OBVIOUS
<1>1. <<x, y>> \in R \/ <<y, x>> \in R
  BY DEF IsOrder
<1>2. Cardinality(Below(x, S, R)) \in Nat /\ Cardinality(Below(y, S, R)) \in Nat
  BY BelowIsFinite
<1>3. CASE <<x, y>> \in R
  <2>1. Cardinality(Below(x, S, R)) < Cardinality(Below(y, S, R))
    BY <1>3, RanksGrow
  <2> QED
    BY <1>2, <2>1
<1>4. CASE <<y, x>> \in R
  <2>1. Cardinality(Below(y, S, R)) < Cardinality(Below(x, S, R))
    BY <1>4, RanksGrow
  <2> QED
    BY <1>2, <2>1
<1> QED
  BY <1>1, <1>3, <1>4

LEMMA FirstIsFinite ==
    ASSUME NEW S, IsFiniteSet(S), NEW R, NEW n
    PROVE  /\ FirstOf(n, S, R) \in SUBSET S
           /\ IsFiniteSet(FirstOf(n, S, R)) /\ Cardinality(FirstOf(n, S, R)) \in Nat
  BY FS_Subset, FS_CardinalityType DEF FirstOf

\* When fewer than all are taken, one member is the next one.
LEMMA NextExists ==
    ASSUME NEW S, IsFiniteSet(S), NEW R, IsOrder(R, S), NEW n \in Nat,
           Cardinality(FirstOf(n, S, R)) = n, n < Cardinality(S)
    PROVE  \E x \in S : Cardinality(Below(x, S, R)) = n
<1> DEFINE F == FirstOf(n, S, R)
           ranks == {Cardinality(Below(x, S, R)) : x \in S \ F}
<1>1. F \in SUBSET S /\ IsFiniteSet(F)
  BY FirstIsFinite
<1>2. F # S
  OBVIOUS
<1>3. S \ F # {}
  BY <1>1, <1>2
<1>4. ranks \in SUBSET Nat /\ ranks # {}
  BY <1>3, BelowIsFinite
<1>5. PICK r \in ranks : \A k \in ranks : r <= k
  BY <1>4, Smallest
<1>6. PICK x \in S \ F : r = Cardinality(Below(x, S, R))
  BY <1>5
<1>7. r \in Nat /\ ~(r < n)
  BY <1>4, <1>5, <1>6 DEF FirstOf
<1>8. ASSUME NEW y \in Below(x, S, R)
      PROVE  y \in F
  <2>1. y \in S /\ <<y, x>> \in R
    BY DEF Below
  <2>2. Cardinality(Below(y, S, R)) < r /\ Cardinality(Below(y, S, R)) \in Nat
    BY <1>6, <2>1, RanksGrow, BelowIsFinite
  <2>3. Cardinality(Below(y, S, R)) \notin ranks
    BY <1>5, <1>7, <2>2
  <2> QED
    BY <2>1, <2>3
<1>9. r <= n
  <2>1. Below(x, S, R) \in SUBSET F
    BY <1>8
  <2> QED
    BY <1>1, <1>6, <2>1, FS_Subset
<1> QED
  BY <1>6, <1>7, <1>9

LEMMA FirstSize ==
    ASSUME NEW S, IsFiniteSet(S), NEW R, IsOrder(R, S)
    PROVE  \A n \in Nat : /\ Cardinality(FirstOf(n, S, R)) <= n
                          /\ n <= Cardinality(S) => Cardinality(FirstOf(n, S, R)) = n
<1> DEFINE C(n) == Cardinality(FirstOf(n, S, R))
           Good(n) == C(n) <= n /\ (n <= Cardinality(S) => C(n) = n)
           T == {n \in Nat : ~Good(n)}
<1> SUFFICES ASSUME T # {} PROVE FALSE
  OBVIOUS
<1>1. PICK m \in T : \A n \in T : m <= n
  BY Smallest
<1>2. m \in Nat /\ ~Good(m)
  OBVIOUS
<1>3. m # 0
  <2>1. FirstOf(0, S, R) = {}
    <3>1. \A x \in S : Cardinality(Below(x, S, R)) \in Nat
      BY BelowIsFinite
    <3> QED
      BY <3>1 DEF FirstOf
  <2>2. C(0) = 0
    BY <2>1, FS_EmptySet
  <2>3. Good(0)
    BY <2>2
  <2> QED
    BY <1>2, <2>3
<1>4. m - 1 \in Nat
  BY <1>2, <1>3
<1>5. Good(m - 1)
  BY <1>1, <1>2, <1>4
<1> DEFINE F == FirstOf(m - 1, S, R)
           N == {x \in S : Cardinality(Below(x, S, R)) = m - 1}
<1>6. FirstOf(m, S, R) = F \cup N /\ F \cap N = {}
  <2>1. \A x \in S : LET k == Cardinality(Below(x, S, R))
                     IN  k \in Nat /\ (k < m <=> k < m - 1 \/ k = m - 1) /\ ~(k < m - 1 /\ k = m - 1)
    BY <1>2, BelowIsFinite
  <2> QED
    BY <2>1 DEF FirstOf
<1>7. IsFiniteSet(F) /\ C(m - 1) \in Nat /\ Cardinality(S) \in Nat
  BY FirstIsFinite, FS_CardinalityType
<1>8. CASE N = {}
  <2>1. C(m) = C(m - 1)
    BY <1>6, <1>8
  <2>2. ~(m - 1 < Cardinality(S))
    <3> SUFFICES ASSUME m - 1 < Cardinality(S) PROVE FALSE
      OBVIOUS
    <3>1. C(m - 1) = m - 1
      BY <1>4, <1>5, <1>7
    <3> QED
      BY <1>4, <1>8, <3>1, NextExists
  <2>3. Good(m)
    BY <1>2, <1>5, <1>7, <2>1, <2>2
  <2> QED
    BY <1>2, <2>3
<1>9. CASE N # {}
  <2>1. PICK x \in N : TRUE
    BY <1>9
  <2>2. N = {x}
    BY <2>1, RanksDiffer
  <2>3. C(m) = C(m - 1) + 1
    <3>1. x \notin F /\ FirstOf(m, S, R) = F \cup {x}
      BY <1>6, <2>2
    <3> HIDE DEF F
    <3>2. Cardinality(F \cup {x}) = Cardinality(F) + 1
      BY <1>7, <3>1, FS_AddElement
    <3> QED
      BY <3>1, <3>2 DEF F
  <2>4. Good(m)
    BY <1>2, <1>5, <1>7, <2>3
  <2> QED
    BY <1>2, <2>4
<1> QED
  BY <1>8, <1>9

-----------------------------------------------------------------------------
(* RadarCollector: the budgets *)

\* As many entries as the budget of on-demand markets allows; and the budgets
\* of the feeds and of the promises.
WithinOnDemand(entries) ==
    /\ entries \in [Markets -> Nat]
    /\ Cardinality(Collector!Watched(entries)) <= OnDemand

CollectorInv ==
    /\ WithinOnDemand(watched)
    /\ watches \in [Markets -> Nat] /\ alerts \subseteq Markets
    /\ found \in Seq({found[i] : i \in DOMAIN found})
    /\ Collector!BudgetsHold

LEMMA CollectorNumbers ==
    /\ Markets \subseteq Nat /\ IsFiniteSet(Markets) /\ VenueOrder \in Seq(STRING)
    /\ MinVenues \in Nat /\ VenuesPerMarket \in Nat /\ ContinuousMarkets \in Nat /\ OnDemand \in Nat
    /\ Ttl \in Nat /\ Limit \in Nat /\ WatchTtl \in Nat
  BY CollectorAssumption

LEMMA SameCardinality ==
    ASSUME NEW S
    PROVE  Collector!Cardinality(S) = Cardinality(S)
  BY Zenon DEF Collector!Cardinality, Cardinality

LEMMA MarketsAreFinite ==
    ASSUME NEW S \in SUBSET Markets
    PROVE  IsFiniteSet(S) /\ Cardinality(S) \in Nat
  BY CollectorNumbers, FS_Subset, FS_CardinalityType

LEMMA WatchedMarkets ==
    ASSUME NEW entries
    PROVE  /\ Collector!Watched(entries) \in SUBSET Markets
           /\ IsFiniteSet(Collector!Watched(entries))
           /\ Cardinality(Collector!Watched(entries)) \in Nat
<1>1. Collector!Watched(entries) \in SUBSET Markets
  BY DEF Collector!Watched
<1> QED
  BY <1>1, MarketsAreFinite

\* A market more is watched only while there is room.
LEMMA WatchKeeps ==
    ASSUME NEW entries, WithinOnDemand(entries), NEW p
    PROVE  WithinOnDemand(Collector!Watch(entries, p))
<1> DEFINE W == Collector!Watched(entries)
           e == [entries EXCEPT ![p] = Ttl]
           U == Collector!Watched(e)
<1>1. CASE Collector!Watch(entries, p) = entries
  BY <1>1
<1>2. CASE Collector!Watch(entries, p) # entries
  <2>1. /\ p \in Collector!Qualified /\ Collector!Watch(entries, p) = e
        /\ p \in W \/ ~(Collector!Cardinality(W) >= OnDemand)
    BY <1>2 DEF Collector!Watch
  <2>2. p \in Markets
    BY <2>1 DEF Collector!Qualified
  <2>3. e \in [Markets -> Nat]
    BY <2>2, CollectorNumbers DEF WithinOnDemand
  <2>4. U \in SUBSET (W \cup {p})
    BY <2>2 DEF Collector!Watched, WithinOnDemand
  <2>5. IsFiniteSet(W) /\ Cardinality(W) \in Nat /\ Cardinality(W) <= OnDemand /\ OnDemand \in Nat
    BY WatchedMarkets, CollectorNumbers DEF WithinOnDemand
  <2> HIDE DEF W, U
  <2>6. /\ IsFiniteSet(W \cup {p})
        /\ Cardinality(W \cup {p}) = IF p \in W THEN Cardinality(W) ELSE Cardinality(W) + 1
    BY <2>5, FS_AddElement
  <2>7. Cardinality(W \cup {p}) <= OnDemand
    BY <2>1, <2>5, <2>6, SameCardinality
  <2>8. Cardinality(U) <= Cardinality(W \cup {p}) /\ IsFiniteSet(U)
    BY <2>4, <2>6, FS_Subset
  <2>9. Cardinality(U) \in Nat /\ Cardinality(W \cup {p}) \in Nat
    BY <2>6, <2>8, FS_CardinalityType
  <2>10. Cardinality(U) <= OnDemand
    BY <2>5, <2>7, <2>8, <2>9
  <2> QED
    BY <2>1, <2>3, <2>10 DEF WithinOnDemand, U
<1> QED
  BY <1>1, <1>2

\* Row after row is watched: the recursion is sound.
AfterRows(f, n) == f = [i \in 0 .. n |-> IF i = 0 THEN watched ELSE Collector!Watch(f[i - 1], found[i])]

LEMMA AfterRowsExists ==
    ASSUME NEW n \in Nat
    PROVE  \E f : AfterRows(f, n)
<1> DEFINE T == {k \in Nat : ~\E f : AfterRows(f, k)}
<1> SUFFICES ASSUME T # {} PROVE FALSE
  OBVIOUS
<1>1. PICK m \in T : \A k \in T : m <= k
  BY Smallest
<1>2. m # 0
  <2> SUFFICES ASSUME m = 0 PROVE FALSE
    OBVIOUS
  <2> DEFINE f == [i \in 0 .. 0 |-> watched]
  <2>1. AfterRows(f, 0)
    BY DEF AfterRows
  <2> QED
    BY <2>1, <1>1
<1>3. m \in Nat /\ m - 1 \in Nat
  BY <1>1, <1>2
<1>4. m - 1 \notin T
  BY <1>1, <1>3
<1>5. PICK f : AfterRows(f, m - 1)
  BY <1>3, <1>4
<1> DEFINE top == Collector!Watch(f[m - 1], found[m])
           g == [i \in 0 .. m |-> IF i < m THEN f[i] ELSE top]
<1>6. ASSUME NEW i \in 0 .. m
      PROVE  g[i] = IF i = 0 THEN watched ELSE Collector!Watch(g[i - 1], found[i])
  <2>1. CASE i < m
    <3>1. i \in 0 .. m - 1 /\ g[i] = f[i] /\ (i # 0 => i - 1 \in 0 .. m /\ g[i - 1] = f[i - 1])
      BY <1>3, <2>1
    <3>2. f[i] = IF i = 0 THEN watched ELSE Collector!Watch(f[i - 1], found[i])
      BY <1>5, <3>1 DEF AfterRows
    <3> QED
      BY <3>1, <3>2
  <2>2. CASE i = m
    <3>1. g[i] = top /\ i # 0 /\ i - 1 \in 0 .. m /\ g[i - 1] = f[m - 1]
      BY <1>2, <1>3, <2>2
    <3> QED
      BY <2>2, <3>1
  <2> QED
    BY <1>3, <2>1, <2>2
<1>7. AfterRows(g, m)
  BY <1>6 DEF AfterRows
<1>8. m \notin T
  BY <1>3, <1>7
<1> QED
  BY <1>1, <1>8

LEMMA AfterRowsKeeps ==
    ASSUME NEW n \in Nat, NEW f, AfterRows(f, n), WithinOnDemand(watched)
    PROVE  WithinOnDemand(f[n])
<1> DEFINE T == {k \in 0 .. n : ~WithinOnDemand(f[k])}
<1> SUFFICES ASSUME T # {} PROVE FALSE
  OBVIOUS
<1>1. PICK m \in T : \A k \in T : m <= k
  <2>1. T \in SUBSET Nat
    OBVIOUS
  <2> QED
    BY <2>1, Smallest
<1>2. m \in 0 .. n /\ ~WithinOnDemand(f[m])
  BY <1>1
<1>3. f[m] = IF m = 0 THEN watched ELSE Collector!Watch(f[m - 1], found[m])
  BY <1>2 DEF AfterRows
<1>4. CASE m = 0
  BY <1>2, <1>3, <1>4
<1>5. CASE m # 0
  <2>1. m - 1 \in 0 .. n /\ ~(m <= m - 1)
    BY <1>2, <1>5
  <2>2. WithinOnDemand(f[m - 1])
    BY <1>1, <2>1
  <2> QED
    BY <1>2, <1>3, <1>5, <2>2, WatchKeeps
<1> QED
  BY <1>4, <1>5

LEMMA WatchedAfterKeeps ==
    ASSUME CollectorInv
    PROVE  WithinOnDemand(Collector!WatchedAfter[Len(found)])
<1>1. Len(found) \in Nat
  BY DEF CollectorInv
<1>2. PICK f : AfterRows(f, Len(found))
  BY <1>1, AfterRowsExists
<1>3. f = [i \in 0 .. Len(found) |->
              IF i = 0 THEN watched ELSE Collector!Watch(f[i - 1], found[i])]
  BY <1>2, Zenon DEF AfterRows
<1>4. Collector!WatchedAfter =
          [i \in 0 .. Len(found) |->
              IF i = 0 THEN watched ELSE Collector!Watch(Collector!WatchedAfter[i - 1], found[i])]
  BY <1>3, Zenon DEF Collector!WatchedAfter
<1>5. AfterRows(Collector!WatchedAfter, Len(found))
  BY <1>4, Zenon DEF AfterRows
<1> QED
  BY <1>1, <1>5, AfterRowsKeeps DEF CollectorInv

-----------------------------------------------------------------------------
(* RadarCollector: what is subscribed *)

VenueNames == {VenueOrder[i] : i \in DOMAIN VenueOrder}

LEMMA VenuesAreFinite ==
    /\ Collector!Venues = VenueNames /\ IsFiniteSet(VenueNames)
    /\ \A p : Collector!Group(p) \in SUBSET VenueNames /\ IsFiniteSet(Collector!Group(p))
                 /\ Cardinality(Collector!Group(p)) \in Nat
<1>1. Collector!Venues = VenueNames
  BY Zenon DEF Collector!Venues, Collector!ToSet, VenueNames
<1>2. DOMAIN VenueOrder = 1 .. Len(VenueOrder) /\ Len(VenueOrder) \in Nat
  BY CollectorNumbers
<1>3. IsFiniteSet(DOMAIN VenueOrder)
  BY <1>2, FS_Interval
<1>4. VenueOrder \in Surjection(DOMAIN VenueOrder, VenueNames)
  <2>1. VenueOrder \in [DOMAIN VenueOrder -> VenueNames]
    BY CollectorNumbers DEF VenueNames
  <2> QED
    BY <2>1 DEF Surjection, VenueNames
<1>5. IsFiniteSet(VenueNames)
  BY <1>3, <1>4, FS_Surjection
<1>6. \A p : Collector!Group(p) \in SUBSET VenueNames
  BY <1>1 DEF Collector!Group
<1> QED
  BY <1>1, <1>5, <1>6, FS_Subset, FS_CardinalityType

LiquidityOrder == {x \in Markets \X Markets : Collector!MoreLiquid(x[1], x[2])}

LEMMA LiquidityIsOrder == IsOrder(LiquidityOrder, Markets)
<1>1. \A r \in Markets : r \in Nat /\ r * Collector!Cardinality(Collector!Group(r)) \in Nat
  <2> TAKE r \in Markets
  <2>1. r \in Nat /\ Collector!Cardinality(Collector!Group(r)) \in Nat
    BY CollectorNumbers, VenuesAreFinite, SameCardinality
  <2> QED
    BY <2>1
<1>2. PICK w \in [Markets -> Nat] :
          \A r \in Markets : w[r] = r * Collector!Cardinality(Collector!Group(r))
  <2>1. [r \in Markets |-> r * Collector!Cardinality(Collector!Group(r))] \in [Markets -> Nat]
    BY <1>1
  <2> QED
    BY <2>1
<1>3. \A p, q \in Markets :
          Collector!MoreLiquid(p, q) <=> w[p] > w[q] \/ (w[p] = w[q] /\ p > q)
  BY <1>2 DEF Collector!MoreLiquid
<1>4. \A p, q \in Markets : <<p, q>> \in LiquidityOrder <=> w[p] > w[q] \/ (w[p] = w[q] /\ p > q)
  BY <1>3 DEF LiquidityOrder
<1> QED
  BY <1>1, <1>2, <1>4 DEF IsOrder

\* The permanent markets are within their budget.
LEMMA PermanentSize ==
    /\ Collector!Permanent \in SUBSET Collector!Qualified
    /\ IsFiniteSet(Collector!Permanent) /\ Cardinality(Collector!Permanent) \in Nat
    /\ Cardinality(Collector!Permanent) <= ContinuousMarkets
<1> DEFINE Q == Collector!Qualified
<1>1. Q \in SUBSET Markets /\ IsFiniteSet(Q)
  BY MarketsAreFinite DEF Collector!Qualified
<1> HIDE DEF Q
<1>2. IsOrder(LiquidityOrder, Q)
  BY <1>1, LiquidityIsOrder DEF IsOrder
<1>3. \A p \in Q : {q \in Q : Collector!MoreLiquid(q, p)} = Below(p, Q, LiquidityOrder)
  BY <1>1 DEF Below, LiquidityOrder
<1>4. Collector!Permanent = {p \in Q : Cardinality({q \in Q : Collector!MoreLiquid(q, p)}) < ContinuousMarkets}
  BY SameCardinality DEF Collector!Permanent, Collector!First, Collector!Rank, Q
<1>5. Collector!Permanent = FirstOf(ContinuousMarkets, Q, LiquidityOrder)
  BY <1>3, <1>4 DEF FirstOf
<1>6. /\ FirstOf(ContinuousMarkets, Q, LiquidityOrder) \in SUBSET Q
      /\ IsFiniteSet(FirstOf(ContinuousMarkets, Q, LiquidityOrder))
      /\ Cardinality(FirstOf(ContinuousMarkets, Q, LiquidityOrder)) \in Nat
  BY <1>1, FirstIsFinite
<1>7. ContinuousMarkets \in Nat
  BY CollectorNumbers
<1>8. Cardinality(FirstOf(ContinuousMarkets, Q, LiquidityOrder)) <= ContinuousMarkets
  BY <1>1, <1>2, <1>7, FirstSize
<1> QED
  BY <1>5, <1>6, <1>8 DEF Q

RankOrder == {x \in VenueNames \X VenueNames : Collector!VenueRank(x[1]) < Collector!VenueRank(x[2])}

LEMMA RankIsOrder == IsOrder(RankOrder, VenueNames)
<1>1. ASSUME NEW v \in VenueNames
      PROVE  Collector!VenueRank(v) \in Nat /\ VenueOrder[Collector!VenueRank(v)] = v
  <2>1. \E i \in DOMAIN VenueOrder : VenueOrder[i] = v
    BY DEF VenueNames
  <2>2. Collector!VenueRank(v) \in DOMAIN VenueOrder /\ VenueOrder[Collector!VenueRank(v)] = v
    BY <2>1 DEF Collector!VenueRank
  <2>3. DOMAIN VenueOrder = 1 .. Len(VenueOrder) /\ Len(VenueOrder) \in Nat
    BY CollectorNumbers
  <2> QED
    BY <2>2, <2>3
<1>2. PICK r \in [VenueNames -> Nat] : \A v \in VenueNames : r[v] = Collector!VenueRank(v)
  <2>1. [v \in VenueNames |-> Collector!VenueRank(v)] \in [VenueNames -> Nat]
    BY <1>1
  <2> QED
    BY <2>1
<1>3. \A v, w \in VenueNames : <<v, w>> \in RankOrder <=> r[v] < r[w]
  BY <1>2 DEF RankOrder
<1>4. \A v, w \in VenueNames : r[v] = r[w] => v = w
  BY <1>1, <1>2
<1> QED
  BY <1>2, <1>3, <1>4 DEF IsOrder

\* The venues on which a qualified pair is subscribed.
Chosen(p) ==
    Collector!First(VenuesPerMarket, Collector!Group(p),
                    LAMBDA a, b : Collector!VenueRank(a) < Collector!VenueRank(b))

LEMMA ChosenSize ==
    ASSUME MinVenues <= VenuesPerMarket, NEW p \in Collector!Qualified
    PROVE  IsFiniteSet(Chosen(p)) /\ Cardinality(Chosen(p)) \in MinVenues .. VenuesPerMarket
<1> DEFINE G == Collector!Group(p)
<1>1. G \in SUBSET VenueNames /\ IsFiniteSet(G) /\ Cardinality(G) \in Nat
  BY VenuesAreFinite
<1>2. Cardinality(G) >= MinVenues
  BY SameCardinality DEF Collector!Qualified
<1> HIDE DEF G
<1>3. IsOrder(RankOrder, G)
  BY <1>1, RankIsOrder DEF IsOrder
<1>4. \A v \in G : {w \in G : Collector!VenueRank(w) < Collector!VenueRank(v)} = Below(v, G, RankOrder)
  BY <1>1 DEF Below, RankOrder
<1>5. Chosen(p) = {v \in G : Cardinality({w \in G : Collector!VenueRank(w) < Collector!VenueRank(v)})
                                 < VenuesPerMarket}
  BY SameCardinality DEF Chosen, Collector!First, Collector!Rank, G
<1>6. Chosen(p) = FirstOf(VenuesPerMarket, G, RankOrder)
  BY <1>4, <1>5 DEF FirstOf
<1>7. MinVenues \in Nat /\ VenuesPerMarket \in Nat
  BY CollectorNumbers
<1>8. IsFiniteSet(Chosen(p)) /\ Cardinality(Chosen(p)) \in Nat
  BY <1>1, <1>6, FirstIsFinite
<1>9. Cardinality(Chosen(p)) <= VenuesPerMarket
  BY <1>1, <1>3, <1>6, <1>7, FirstSize
<1>10. Cardinality(Chosen(p)) >= MinVenues
  <2>1. CASE VenuesPerMarket <= Cardinality(G)
    <3>1. Cardinality(Chosen(p)) = VenuesPerMarket
      BY <1>1, <1>3, <1>6, <1>7, <2>1, FirstSize
    <3> QED
      BY <1>7, <3>1
  <2>2. CASE ~(VenuesPerMarket <= Cardinality(G))
    <3>1. \A v \in G : Cardinality(Below(v, G, RankOrder)) < VenuesPerMarket
      <4> TAKE v \in G
      <4>1. /\ Cardinality(Below(v, G, RankOrder)) <= Cardinality(G)
            /\ Cardinality(Below(v, G, RankOrder)) \in Nat
        BY <1>1, BelowIsFinite, FS_Subset
      <4> QED
        BY <1>1, <1>7, <2>2, <4>1
    <3>2. Chosen(p) = G
      BY <1>6, <3>1 DEF FirstOf
    <3> QED
      BY <1>2, <3>2
  <2> QED
    BY <2>1, <2>2
<1> QED
  BY <1>7, <1>8, <1>9, <1>10

\* What is subscribed is within the budget of the feeds.
LEMMA SubscriptionsWithinBudget ==
    ASSUME MinVenues <= VenuesPerMarket, CollectorInv, NEW F, F = Collector!Subscriptions
    PROVE  /\ Cardinality({f[2] : f \in F}) <= ContinuousMarkets + OnDemand
           /\ \A p \in {f[2] : f \in F} :
                  Cardinality({f \in F : f[2] = p}) \in MinVenues .. VenuesPerMarket
<1>1. F = UNION {{<<v, p>> : v \in Chosen(p)} : p \in Collector!Planned}
  BY DEF Collector!Subscriptions, Chosen
<1>2. Collector!Planned \in SUBSET Collector!Qualified
  BY PermanentSize DEF Collector!Planned
<1> DEFINE E == {f[2] : f \in F}
           W == Collector!Watched(watched)
<1>3. E \in SUBSET Collector!Planned
  BY <1>1
<1>4. Cardinality(E) <= ContinuousMarkets + OnDemand
  <2>1. E \in SUBSET (Collector!Permanent \cup W)
    BY <1>3 DEF Collector!Planned
  <2>2. IsFiniteSet(W) /\ Cardinality(W) \in Nat /\ Cardinality(W) <= OnDemand
    BY WatchedMarkets DEF CollectorInv, WithinOnDemand
  <2>3. /\ IsFiniteSet(Collector!Permanent) /\ Cardinality(Collector!Permanent) \in Nat
        /\ Cardinality(Collector!Permanent) <= ContinuousMarkets
        /\ ContinuousMarkets \in Nat /\ OnDemand \in Nat
    BY PermanentSize, CollectorNumbers
  <2> HIDE DEF E, W
  <2> DEFINE P == Collector!Permanent
  <2>4. /\ IsFiniteSet(P \cup W)
        /\ Cardinality(P \cup W) = Cardinality(P) + Cardinality(W) - Cardinality(P \cap W)
    BY <2>2, <2>3, FS_Union
  <2>5. Cardinality(P \cap W) \in Nat
    BY <2>3, FS_Intersection, FS_CardinalityType
  <2>6. Cardinality(E) <= Cardinality(P \cup W) /\ Cardinality(E) \in Nat
    BY <2>1, <2>4, FS_Subset, FS_CardinalityType
  <2> HIDE DEF P
  <2> QED
    BY <2>2, <2>3, <2>4, <2>5, <2>6 DEF P
<1>5. ASSUME NEW p \in E
      PROVE  Cardinality({f \in F : f[2] = p}) \in MinVenues .. VenuesPerMarket
  <2>1. p \in Collector!Planned
    BY <1>3
  <2>2. p \in Collector!Qualified
    BY <1>2, <2>1
  <2> DEFINE L == {f \in F : f[2] = p}
  <2>3. L = {<<v, p>> : v \in Chosen(p)}
    BY <1>1, <2>1
  <2>4. IsFiniteSet(Chosen(p)) /\ Cardinality(Chosen(p)) \in MinVenues .. VenuesPerMarket
    BY <2>2, ChosenSize
  <2>5. [v \in Chosen(p) |-> <<v, p>>] \in Bijection(Chosen(p), L)
    BY <2>3 DEF Bijection, Injection, Surjection, IsInjective
  <2>6. ExistsBijection(Chosen(p), L)
    BY <2>5 DEF ExistsBijection
  <2>7. Cardinality(L) = Cardinality(Chosen(p))
    BY <2>4, <2>6, FS_Bijection
  <2> QED
    BY <2>4, <2>7
<1> QED
  BY <1>4, <1>5

LEMMA ComputeKeeps ==
    ASSUME MinVenues <= VenuesPerMarket, CollectorInv, Collector!Tick
    PROVE  CollectorInv'
<1>1. /\ feeds' = Collector!Subscriptions
      /\ UNCHANGED <<watched, watches, alerts, found>>
  BY DEF Collector!Tick, Collector!databaseVars
<1>2. PICK F : F = Collector!Subscriptions
  OBVIOUS
<1>3. /\ Cardinality({f[2] : f \in F}) <= ContinuousMarkets + OnDemand
      /\ \A p \in {f[2] : f \in F} :
             Cardinality({f \in F : f[2] = p}) \in MinVenues .. VenuesPerMarket
  BY <1>2, SubscriptionsWithinBudget
<1>4. feeds' = F
  BY <1>1, <1>2
<1>5. Collector!FeedsWithinBudget'
  BY <1>3, <1>4, SameCardinality DEF Collector!FeedsWithinBudget, Collector!Engines
<1>6. WithinOnDemand(watched)'
  BY <1>1 DEF CollectorInv, WithinOnDemand, Collector!Watched
<1>7. Collector!PromisesWithinLimit'
  BY <1>1 DEF CollectorInv, Collector!BudgetsHold, Collector!PromisesWithinLimit,
              Collector!Active, Collector!Watched
<1> QED
  BY <1>1, <1>5, <1>6, <1>7 DEF CollectorInv, Collector!BudgetsHold

\* A step that leaves the feeds alone keeps their budget.
LEMMA CollectorKeeps ==
    ASSUME CollectorInv, feeds' = feeds, WithinOnDemand(watched)',
           watches' \in [Markets -> Nat], alerts' \in SUBSET Markets,
           Cardinality(alerts' \cup Collector!Watched(watches')) <= Limit,
           found' \in Seq({found'[i] : i \in DOMAIN found'})
    PROVE  CollectorInv'
<1>1. Collector!FeedsWithinBudget'
  BY DEF CollectorInv, Collector!BudgetsHold, Collector!FeedsWithinBudget, Collector!Engines
<1>2. Collector!PromisesWithinLimit'
  BY SameCardinality DEF Collector!PromisesWithinLimit, Collector!Active, Collector!Watched
<1> QED
  BY <1>1, <1>2 DEF CollectorInv, Collector!BudgetsHold

LEMMA PromisesNow ==
    ASSUME CollectorInv
    PROVE  /\ alerts \cup Collector!Watched(watches) \in SUBSET Markets
           /\ Cardinality(alerts \cup Collector!Watched(watches)) <= Limit
  BY SameCardinality DEF CollectorInv, Collector!BudgetsHold, Collector!PromisesWithinLimit,
         Collector!Active, Collector!Watched

\* Fewer promises are within the limit as well.
LEMMA FewerPromises ==
    ASSUME CollectorInv, NEW S, S \in SUBSET (alerts \cup Collector!Watched(watches))
    PROVE  Cardinality(S) <= Limit
<1> DEFINE T == alerts \cup Collector!Watched(watches)
<1>1. T \in SUBSET Markets /\ Cardinality(T) <= Limit
  BY PromisesNow
<1>2. S \in SUBSET Markets
  BY <1>1
<1> HIDE DEF T
<1>3. /\ IsFiniteSet(T) /\ Cardinality(T) \in Nat /\ Cardinality(S) \in Nat /\ Limit \in Nat
  BY <1>1, <1>2, MarketsAreFinite, CollectorNumbers
<1>4. Cardinality(S) <= Cardinality(T)
  BY <1>3, FS_Subset DEF T
<1> QED
  BY <1>1, <1>3, <1>4

LEMMA ReserveKeeps ==
    ASSUME CollectorInv, NEW p \in Markets, NEW alert \in BOOLEAN, Collector!Reserve(p, alert)
    PROVE  CollectorInv'
<1>1. /\ watches' = [watches EXCEPT ![p] = WatchTtl]
      /\ alerts' = IF alert THEN alerts \cup {p} ELSE alerts
      /\ UNCHANGED <<feeds, watched, found>>
      /\ Collector!Cardinality(Collector!Active \ {p}) < Limit
  BY DEF Collector!Reserve, Collector!Reservable, Collector!collectorVars, Collector!timerVars
<1> DEFINE A == (alerts \cup Collector!Watched(watches)) \ {p}
           B == alerts' \cup Collector!Watched(watches')
<1>2. watches' \in [Markets -> Nat] /\ alerts' \in SUBSET Markets
  BY <1>1, CollectorNumbers DEF CollectorInv
<1>3. B \in SUBSET (A \cup {p}) /\ A \in SUBSET Markets
  BY <1>1 DEF CollectorInv, Collector!Watched
<1>4. Cardinality(A) < Limit
  BY <1>1, SameCardinality DEF Collector!Active
<1> HIDE DEF A, B
<1>5. IsFiniteSet(A) /\ Cardinality(A) \in Nat /\ Limit \in Nat
  BY <1>3, MarketsAreFinite, CollectorNumbers
<1>6. /\ IsFiniteSet(A \cup {p}) /\ Cardinality(A \cup {p}) <= Cardinality(A) + 1
  BY <1>5, FS_AddElement
<1>7. Cardinality(B) <= Cardinality(A \cup {p}) /\ Cardinality(B) \in Nat
      /\ Cardinality(A \cup {p}) \in Nat
  BY <1>3, <1>6, FS_Subset, FS_CardinalityType
<1>8. Cardinality(B) <= Limit
  BY <1>4, <1>5, <1>6, <1>7
<1>9. WithinOnDemand(watched)'
  BY <1>1 DEF CollectorInv, WithinOnDemand, Collector!Watched
<1> QED
  BY <1>1, <1>2, <1>8, <1>9, CollectorKeeps DEF B, CollectorInv

LEMMA CollectorStarts ==
    ASSUME Collector!Init
    PROVE  CollectorInv
<1>1. /\ watched = [p \in Markets |-> 0] /\ watches = [p \in Markets |-> 0]
      /\ alerts = {} /\ feeds = {} /\ found = <<>>
  BY DEF Collector!Init
<1>2. Collector!Watched(watched) = {} /\ Collector!Watched(watches) = {}
  BY <1>1 DEF Collector!Watched
<1>3. Cardinality({}) = 0 /\ OnDemand \in Nat /\ Limit \in Nat /\ ContinuousMarkets \in Nat
  BY FS_EmptySet, CollectorNumbers
<1>4. WithinOnDemand(watched)
  <2>1. Cardinality(Collector!Watched(watched)) <= OnDemand
    <3>1. Cardinality(Collector!Watched(watched)) = 0
      BY <1>2, <1>3, Zenon
    <3> QED
      BY <1>3, <3>1
  <2>2. watched \in [Markets -> Nat]
    BY <1>1
  <2> QED
    BY <2>1, <2>2 DEF WithinOnDemand
<1>5. Collector!PromisesWithinLimit
  <2>1. Collector!Active = {}
    BY <1>1, <1>2 DEF Collector!Active
  <2>2. Collector!Cardinality(Collector!Active) = 0
    BY <1>3, <2>1, SameCardinality, Zenon
  <2> QED
    BY <1>3, <2>2 DEF Collector!PromisesWithinLimit
<1>6. Collector!Engines = {}
  BY <1>1 DEF Collector!Engines
<1>7. Collector!FeedsWithinBudget
  BY <1>3, <1>6, SameCardinality DEF Collector!FeedsWithinBudget
<1> QED
  BY <1>1, <1>4, <1>5, <1>7 DEF CollectorInv, Collector!BudgetsHold

LEMMA InOrderIsSequence ==
    ASSUME NEW S \in SUBSET Markets, NEW f,
           f = Collector!InOrder(S, Collector!Earlier)
    PROVE  f \in Seq({f[i] : i \in DOMAIN f})
<1>1. IsFiniteSet(S) /\ Cardinality(S) \in Nat
  BY MarketsAreFinite
<1>2. f = [i \in 1 .. Cardinality(S) |-> f[i]]
  BY SameCardinality DEF Collector!InOrder
<1> QED
  BY <1>1, <1>2

LEMMA ElapseKeeps ==
    ASSUME CollectorInv, Collector!Elapse
    PROVE  CollectorInv'
<1>1. /\ watched' = Collector!Expired(watched)
      /\ watches' = [p \in Markets |-> Collector!Less(watches[p])]
      /\ UNCHANGED <<feeds, alerts, found>>
  BY DEF Collector!Elapse
<1>2. ASSUME NEW n \in Nat
      PROVE  Collector!Less(n) \in Nat /\ (Collector!Less(n) > 0 => n > 0)
  BY DEF Collector!Less
<1>3. watches' \in [Markets -> Nat]
  BY <1>1, <1>2 DEF CollectorInv
<1>4. watched' \in [Markets -> Nat]
  BY <1>1, <1>2 DEF CollectorInv, WithinOnDemand, Collector!Expired
<1>5. Collector!Watched(watches') \in SUBSET Collector!Watched(watches)
  BY <1>1, <1>2 DEF CollectorInv, Collector!Watched
<1>6. Collector!Watched(watched') \in SUBSET Collector!Watched(watched)
  BY <1>1, <1>2 DEF CollectorInv, WithinOnDemand, Collector!Watched, Collector!Expired
<1>7. Cardinality(Collector!Watched(watched')) <= OnDemand
  <2> DEFINE U == Collector!Watched(watched')
             W == Collector!Watched(watched)
  <2>1. /\ U \in SUBSET W /\ IsFiniteSet(W) /\ Cardinality(W) \in Nat /\ Cardinality(U) \in Nat
        /\ Cardinality(W) <= OnDemand /\ OnDemand \in Nat
    BY <1>6, WatchedMarkets, CollectorNumbers DEF CollectorInv, WithinOnDemand
  <2> HIDE DEF U, W
  <2>2. Cardinality(U) <= Cardinality(W)
    BY <2>1, FS_Subset
  <2>3. Cardinality(U) <= OnDemand
    BY <2>1, <2>2
  <2> QED
    BY <2>3 DEF U
<1>8. WithinOnDemand(watched)'
  BY <1>4, <1>7 DEF WithinOnDemand, Collector!Watched
<1>9. Cardinality(alerts' \cup Collector!Watched(watches')) <= Limit
  <2>1. alerts' \cup Collector!Watched(watches') \in SUBSET (alerts \cup Collector!Watched(watches))
    BY <1>1, <1>5
  <2> QED
    BY <2>1, FewerPromises
<1> QED
  BY <1>1, <1>3, <1>8, <1>9, CollectorKeeps DEF CollectorInv

LEMMA CollectorMoves ==
    ASSUME MinVenues <= VenuesPerMarket, CollectorInv, Collector!Next
    PROVE  CollectorInv'
<1>1. /\ WithinOnDemand(watched) /\ watches \in [Markets -> Nat] /\ alerts \in SUBSET Markets
      /\ found \in Seq({found[i] : i \in DOMAIN found})
      /\ Cardinality(alerts \cup Collector!Watched(watches)) <= Limit
  BY PromisesNow DEF CollectorInv
<1>2. ASSUME UNCHANGED <<feeds, watches, alerts>>, WithinOnDemand(watched)',
             found' \in Seq({found'[i] : i \in DOMAIN found'})
      PROVE  CollectorInv'
  BY <1>1, <1>2, CollectorKeeps
<1>3. ASSUME UNCHANGED watched
      PROVE  WithinOnDemand(watched)'
  BY <1>1, <1>3 DEF WithinOnDemand, Collector!Watched
<1>4. CASE Collector!Tick
  BY <1>4, ComputeKeeps
<1>5. CASE \/ Collector!Discovery \/ \E v \in Collector!Venues : Collector!DiscoveryFails(v)
           \/ Collector!MaintainFails
  <2>1. UNCHANGED <<feeds, watches, alerts, watched, found>>
    BY <1>5 DEF Collector!Discovery, Collector!Discovered, Collector!DiscoveryEnds,
                Collector!DiscoveryFails, Collector!MaintainFails, Collector!collectorVars,
                Collector!databaseVars, Collector!timerVars
  <2> QED
    BY <1>1, <1>2, <1>3, <2>1
<1>6. CASE Collector!MaintainRead
  <2>1. /\ UNCHANGED <<feeds, watches, alerts, watched>>
        /\ found' = Collector!InOrder(Collector!First(OnDemand,
                        alerts \cup Collector!Watched(watches), Collector!Earlier), Collector!Earlier)
    BY <1>6 DEF Collector!MaintainRead, Collector!collectorVars, Collector!databaseVars
  <2>2. Collector!First(OnDemand, alerts \cup Collector!Watched(watches), Collector!Earlier)
            \in SUBSET Markets
    BY PromisesNow DEF Collector!First
  <2>3. found' \in Seq({found'[i] : i \in DOMAIN found'})
    BY <2>1, <2>2, InOrderIsSequence
  <2> QED
    BY <1>2, <1>3, <2>1, <2>3
<1>7. CASE Collector!MaintainWatch
  <2>1. /\ UNCHANGED <<feeds, watches, alerts>>
        /\ found' = <<>> /\ watched' = Collector!WatchedAfter[Len(found)]
    BY <1>7 DEF Collector!MaintainWatch, Collector!databaseVars
  <2>2. WithinOnDemand(watched)'
    BY <2>1, WatchedAfterKeeps DEF WithinOnDemand, Collector!Watched
  <2>3. found' \in Seq({found'[i] : i \in DOMAIN found'})
    BY <2>1
  <2> QED
    BY <1>2, <2>1, <2>2, <2>3
<1>8. ASSUME NEW p \in Markets, Collector!Request(p)
      PROVE  CollectorInv'
  <2>1. UNCHANGED <<feeds, watches, alerts, found>> /\ watched' = Collector!Watch(watched, p)
    BY <1>8 DEF Collector!Request, Collector!databaseVars, Collector!timerVars
  <2>2. WithinOnDemand(watched)'
    BY <1>1, <2>1, WatchKeeps DEF WithinOnDemand, Collector!Watched
  <2> QED
    BY <1>1, <1>2, <2>1, <2>2
<1>9. ASSUME NEW p \in Markets, Collector!DeleteAlert(p)
      PROVE  CollectorInv'
  <2>1. UNCHANGED <<feeds, watched, watches, found>> /\ alerts' = alerts \ {p}
    BY <1>9 DEF Collector!DeleteAlert, Collector!collectorVars, Collector!timerVars
  <2>2. alerts' \cup Collector!Watched(watches') \in SUBSET (alerts \cup Collector!Watched(watches))
    BY <2>1
  <2>3. Cardinality(alerts' \cup Collector!Watched(watches')) <= Limit
    BY <2>2, FewerPromises
  <2> QED
    BY <1>1, <1>3, <2>1, <2>3, CollectorKeeps
<1>10. ASSUME NEW p \in Markets, NEW alert \in BOOLEAN, Collector!Reserve(p, alert)
       PROVE  CollectorInv'
  BY <1>10, ReserveKeeps
<1>11. CASE Collector!Elapse
  BY <1>11, ElapseKeeps
<1>12. CASE Collector!Restart
  <2>1. /\ watched' = [p \in Markets |-> 0] /\ feeds' = {} /\ found' = <<>>
        /\ UNCHANGED <<watches, alerts>>
    BY <1>12 DEF Collector!Restart, Collector!databaseVars
  <2>2. Collector!Watched(watched') = {}
    BY <2>1 DEF Collector!Watched
  <2>3. Cardinality({}) = 0 /\ OnDemand \in Nat /\ ContinuousMarkets \in Nat
    BY FS_EmptySet, CollectorNumbers
  <2>4. WithinOnDemand(watched)'
    <3>1. Cardinality(Collector!Watched(watched')) = 0
      BY <2>2, <2>3, Zenon
    <3>2. Cardinality(Collector!Watched(watched')) <= OnDemand /\ watched' \in [Markets -> Nat]
      BY <2>1, <2>3, <3>1
    <3> QED
      BY <3>2 DEF WithinOnDemand, Collector!Watched
  <2>5. {f[2] : f \in feeds'} = {}
    BY <2>1
  <2>6. Collector!FeedsWithinBudget'
    <3>1. Collector!Cardinality({f[2] : f \in feeds'}) = 0
      BY <2>3, <2>5, SameCardinality, Zenon
    <3>2. Collector!Cardinality({f[2] : f \in feeds'}) <= ContinuousMarkets + OnDemand
      BY <2>3, <3>1
    <3> QED
      BY <2>5, <3>2 DEF Collector!FeedsWithinBudget, Collector!Engines
  <2>7. Collector!PromisesWithinLimit'
    BY <1>1, <2>1, SameCardinality DEF Collector!PromisesWithinLimit, Collector!Active,
                                       Collector!Watched
  <2> QED
    BY <1>1, <2>1, <2>4, <2>6, <2>7 DEF CollectorInv, Collector!BudgetsHold
<1> QED
  BY <1>4, <1>5, <1>6, <1>7, <1>8, <1>9, <1>10, <1>11, <1>12
  DEF Collector!Next, Collector!Maintenance

LEMMA CollectorRuns ==
    ASSUME MinVenues <= VenuesPerMarket
    PROVE  Spec => [](part = "collector" => CollectorInv)
<1>1. Init => (part = "collector" => CollectorInv)
  BY CollectorStarts DEF Init
<1>2. (part = "collector" => CollectorInv) /\ [Next]_vars => (part = "collector" => CollectorInv)'
  <2> SUFFICES ASSUME part = "collector" => CollectorInv, [Next]_vars, part' = "collector"
               PROVE  CollectorInv'
    OBVIOUS
  <2>1. CASE Next
    <3>1. part = "collector" /\ Collector!Next
      BY <2>1 DEF Next, RecorderNext, AuditNext, EngineNext, CollectorNext, RecorderStep, AuditStep,
                  EngineStep, CollectorStep
    <3> QED
      BY <3>1, CollectorMoves
  <2>2. CASE UNCHANGED vars
    <3>1. part = "collector" /\ CollectorInv /\ UNCHANGED <<feeds, watched, watches, alerts, found>>
      BY <2>2 DEF vars, collectorVars
    <3>2. WithinOnDemand(watched)'
      BY <3>1 DEF CollectorInv, WithinOnDemand, Collector!Watched
    <3> QED
      BY <3>1, <3>2, PromisesNow, CollectorKeeps DEF CollectorInv
  <2> QED
    BY <2>1, <2>2
<1> QED
  BY <1>1, <1>2, PTL DEF Spec

\* The feeds stay within the budgets of markets and of venues per market, with
\* at least the venues a market needs, and the promises within their limit,
\* however reads, alert rules, discoveries, expiries and restarts interleave,
\* for any venues, listings and budgets.  That a market needs no more venues
\* than it may have (RADAR_MINIMUM_VENUES and RADAR_VENUES_PER_MARKET) is
\* assumed: radarConfig does not check it.
THEOREM BudgetsAreKept ==
    ASSUME MinVenues <= VenuesPerMarket
    PROVE  Spec => []BudgetsHold
<1>1. (part = "collector" => CollectorInv) => BudgetsHold
  BY DEF BudgetsHold, CollectorInv
<1> QED
  BY <1>1, CollectorRuns, PTL
=============================================================================
