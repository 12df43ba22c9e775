-------------------------- MODULE MarketFeed_proofs --------------------------
(***************************************************************************)
(* The book a feed shows is the exchange's own, for any number of levels,  *)
(* messages, requests, faults and reconnections: what is buffered, repeated *)
(* or late never mixes two versions of it.                                 *)
(***************************************************************************)
EXTENDS MarketFeed, FiniteSetTheorems, WellFoundedInduction, TLAPS

-----------------------------------------------------------------------------
(* Naturals, maxima and recursive functions *)

LEMMA Smallest ==
    ASSUME NEW T \in SUBSET Nat, T # {}
    PROVE  \E x \in T : \A y \in T : x <= y
<1>1. PICK x \in T : \A y \in T : ~(<<y, x>> \in OpToRel(<, Nat))
  BY WFMin, NatLessThanWellFounded
<1>2. \A y \in T : ~(y < x)
  BY <1>1 DEF OpToRel
<1> QED
  BY <1>2

\* Versions between which nothing changes at l agree at l.
LEMMA Agreement ==
    ASSUME NEW h, NEW a \in Nat, NEW b \in Nat, a <= b, NEW l,
           \A v \in a + 1 .. b : (l \in h[v]) <=> (l \in h[v - 1])
    PROVE  (l \in h[a]) <=> (l \in h[b])
<1> DEFINE D == {n \in a .. b : ~((l \in h[n]) <=> (l \in h[a]))}
<1>1. D = {}
  <2> SUFFICES ASSUME D # {} PROVE FALSE
    OBVIOUS
  <2>0. D \in SUBSET Nat
    OBVIOUS
  <2>1. PICK n \in D : \A m \in D : n <= m
    <3> HIDE DEF D
    <3> QED
      BY <2>0, Smallest
  <2>2. n \in a + 1 .. b
    BY <2>1
  <2>3. n - 1 \in a .. b /\ n - 1 \notin D
    BY <2>1, <2>2
  <2>4. (l \in h[n - 1]) <=> (l \in h[a])
    BY <2>3
  <2> QED
    BY <2>1, <2>2, <2>4
<1>2. b \notin D
  BY <1>1
<1> QED
  BY <1>2

\* The best levels have a last one.
LEMMA MaxOf ==
    ASSUME NEW S \in SUBSET Levels, S # {}
    PROVE  Max(S) \in S /\ \A y \in S : y <= Max(S)
<1>1. PICK top \in Nat : Levels \subseteq 1 .. top
  BY LevelsAssumption
<1> DEFINE B == {n \in Nat : \A y \in S : y <= n}
<1>2. top \in B
  BY <1>1
<1>3. PICK m \in B : \A n \in B : m <= n
  BY <1>2, Smallest
<1>4. m \in S
  <2> SUFFICES ASSUME m \notin S PROVE FALSE
    OBVIOUS
  <2>1. \A y \in S : y \in Nat /\ y >= 1 /\ y <= m
    BY <1>1, <1>3
  <2>2. m >= 1 /\ \A y \in S : y <= m - 1
    BY <2>1, <1>3
  <2>3. m - 1 \in B
    BY <2>2, <1>3
  <2> QED
    BY <2>3, <1>3
<1>5. \E x \in S : \A y \in S : x >= y
  BY <1>1, <1>3, <1>4
<1>6. /\ Max(S) \in S
      /\ \A y \in S : Max(S) >= y
  BY <1>5 DEF Max
<1> QED
  BY <1>1, <1>6

LEMMA LevelsFinite == IsFiniteSet(Levels)
<1>1. PICK top \in Nat : Levels \subseteq 1 .. top
  BY LevelsAssumption
<1>2. IsFiniteSet(1 .. top)
  BY <1>1, FS_Interval
<1> QED
  BY <1>1, <1>2, FS_Subset

\* What a delta after another comes to: the definition of Replayed is one.
Replay(b) ==
    CHOOSE after : after = [n \in 0 .. Len(buffered) |->
                               IF n = 0 THEN b ELSE Apply(after[n - 1], buffered[n])]

LEMMA ReplayedIsReplay == ASSUME NEW b PROVE Replayed(b) = Replay(b)[Len(buffered)]
BY DEF Replayed, Replay

\* There is a replay up to every n.
LEMMA ReplayUpTo ==
    ASSUME NEW b, NEW n \in Nat
    PROVE  \E g : g = [k \in 0 .. n |-> IF k = 0 THEN b ELSE Apply(g[k - 1], buffered[k])]
<1> DEFINE Has(m) == \E g : g = [k \in 0 .. m |-> IF k = 0 THEN b ELSE Apply(g[k - 1], buffered[k])]
           Missing == {m \in Nat : ~Has(m)}
<1>1. Missing = {}
  <2> SUFFICES ASSUME Missing # {} PROVE FALSE
    OBVIOUS
  <2>1. PICK m \in Missing : \A k \in Missing : m <= k
    <3>1. Missing \in SUBSET Nat
      OBVIOUS
    <3> HIDE DEF Missing
    <3> QED
      BY <3>1, Smallest
  <2>2. m \in Nat /\ ~Has(m)
    BY <2>1
  <2>3. CASE m = 0
    <3> DEFINE g == [k \in 0 .. m |-> b]
    <3>1. g = [k \in 0 .. m |-> IF k = 0 THEN b ELSE Apply(g[k - 1], buffered[k])]
      BY <2>3
    <3> QED
      BY <2>2, <3>1
  <2>4. CASE m # 0
    <3>1. m - 1 \in Nat /\ Has(m - 1)
      BY <2>1, <2>4
    <3>2. PICK h : h = [k \in 0 .. m - 1 |-> IF k = 0 THEN b ELSE Apply(h[k - 1], buffered[k])]
      BY <3>1
    <3> DEFINE g == [k \in 0 .. m |-> IF k = m THEN Apply(h[m - 1], buffered[m]) ELSE h[k]]
    <3>3. g = [k \in 0 .. m |-> IF k = 0 THEN b ELSE Apply(g[k - 1], buffered[k])]
      <4>1. ASSUME NEW k \in 0 .. m
            PROVE  g[k] = IF k = 0 THEN b ELSE Apply(g[k - 1], buffered[k])
        <5>1. CASE k = m
          <6>1. m - 1 \in 0 .. m /\ m - 1 # m
            BY <3>1
          <6>2. g[m - 1] = h[m - 1] /\ g[m] = Apply(h[m - 1], buffered[m])
            BY <6>1, <2>2
          <6> QED
            BY <2>4, <5>1, <6>2
        <5>2. CASE k # m
          <6>1. k \in 0 .. m - 1 /\ (k # 0 => k - 1 \in 0 .. m /\ k - 1 # m)
            BY <2>2, <5>2
          <6>2. g[k] = h[k] /\ (k # 0 => g[k - 1] = h[k - 1])
            BY <5>2, <6>1
          <6>3. h[k] = IF k = 0 THEN b ELSE Apply(h[k - 1], buffered[k])
            BY <3>2, <6>1
          <6> QED
            BY <6>2, <6>3
        <5> QED
          BY <5>1, <5>2
      <4> HIDE DEF g
      <4>2. g = [k \in 0 .. m |-> g[k]]
        BY DEF g
      <4> QED
        BY <4>1, <4>2
    <3> QED
      BY <2>2, <3>3
  <2> QED
    BY <2>3, <2>4
<1> QED
  BY <1>1

LEMMA ReplayUnrolls ==
    ASSUME NEW b, Len(buffered) \in Nat
    PROVE  Replay(b) = [n \in 0 .. Len(buffered) |->
                           IF n = 0 THEN b ELSE Apply(Replay(b)[n - 1], buffered[n])]
<1>1. \E g : g = [n \in 0 .. Len(buffered) |-> IF n = 0 THEN b ELSE Apply(g[n - 1], buffered[n])]
  BY ReplayUpTo
<1> QED
  BY <1>1 DEF Replay

-----------------------------------------------------------------------------
(* The inductive invariant *)

Books == [ready : BOOLEAN, levels : SUBSET Levels, seq : Nat, boundary : Nat]
Messages == [kind : {"delta", "snapshot", "alive"}, from : Nat, to : Nat]
RestRequests == [mine : BOOLEAN, v : Nat]

HistOK == venue \in {"binance", "okx", "bybit"} /\ hist \in Seq(SUBSET Levels) /\ Len(hist) >= 1

\* A message carries versions the exchange has had.
MsgOK(m) ==
    /\ m \in Messages /\ 1 <= m.from /\ m.from <= m.to /\ m.to <= Latest
    /\ m.kind = "snapshot" => venue # "binance"
    /\ m.kind = "alive" => venue = "okx"

\* A book that is ready is the exchange's at its version, where it is known.
Exact(b) ==
    /\ b \in Books
    /\ b.ready => /\ b.seq \in 1 .. Latest
                  /\ venue # "bybit" => b.levels = hist[b.seq] \cap Known(b)

\* A snapshot is okx' first message.
WireOK ==
    /\ wire \in Seq(Messages)
    /\ \A i \in 1 .. Len(wire) :
        /\ MsgOK(wire[i])
        /\ venue = "okx" /\ wire[i].kind = "snapshot" => i = 1 /\ ~book.ready

BufferOK == buffered \in Seq(Messages) /\ \A i \in 1 .. Len(buffered) : MsgOK(buffered[i])

RestOK(q) == q \in Seq(RestRequests) /\ \A i \in 1 .. Len(q) : q[i].v <= Latest
NoneMine(q) == \A i \in 1 .. Len(q) : ~q[i].mine
OneMine(q) == \A i \in 1 .. Len(q), j \in 1 .. Len(q) : q[i].mine /\ q[j].mine => i = j

\* The book waits for the one request of this socket.
SyncOK ==
    /\ syncing \in BOOLEAN
    /\ syncing => conn = "open" /\ ~book.ready /\ venue = "binance"
    /\ conn # "open" => ~book.ready
    /\ OneMine(rest) /\ (~syncing => NoneMine(rest))

FeedInv ==
    /\ HistOK /\ cursor \in 0 .. Latest
    /\ Exact(book) /\ WireOK /\ BufferOK /\ RestOK(rest) /\ SyncOK

-----------------------------------------------------------------------------
(* One message *)

LEMMA NoBookExact == Exact(NoBook) /\ ~NoBook.ready
BY DEF Exact, NoBook, Books

LEMMA SnapshotExact ==
    ASSUME HistOK, NEW b, NEW m, MsgOK(m), m.kind = "snapshot"
    PROVE  Exact(Updated(b, m)) /\ Updated(b, m).seq = m.to
<1>1. hist[m.to] \in SUBSET Levels
  BY DEF HistOK, MsgOK, Messages, Latest
<1>2. Updated(b, m) = [ready |-> TRUE, levels |-> hist[m.to], seq |-> m.to, boundary |-> 0]
  BY DEF Updated
<1>3. m.to \in 1 .. Latest /\ m.to \in Nat
  BY DEF MsgOK, Messages, Latest, HistOK
<1>4. Updated(b, m) \in Books /\ Updated(b, m).seq = m.to /\ Updated(b, m).levels = hist[m.to]
  BY <1>1, <1>2, <1>3 DEF Books
<1>5. venue # "bybit" => Known(Updated(b, m)) = Levels
  BY DEF MsgOK, HistOK, Known
<1>6. venue # "bybit" => hist[m.to] = hist[m.to] \cap Known(Updated(b, m))
  BY <1>1, <1>5
<1> HIDE DEF Updated
<1> QED
  BY <1>3, <1>4, <1>6 DEF Exact

\* A delta that fits names every level that changed since the book's version.
LEMMA DeltaExact ==
    ASSUME HistOK, NEW b, Exact(b), b.ready, NEW m, MsgOK(m), m.kind # "snapshot",
           venue # "bybit" => m.from <= b.seq + 1 /\ b.seq <= m.to
    PROVE  Exact(Updated(b, m)) /\ Updated(b, m).seq = m.to
<1> DEFINE named == Changed(m) \cap Known(b)
           u == [b EXCEPT !.levels = (b.levels \ named) \cup (hist[m.to] \cap named), !.seq = m.to]
<1>1. Updated(b, m) = u
  BY DEF Updated, Exact, Books
<1>2. hist[m.to] \in SUBSET Levels /\ m.to \in 1 .. Latest /\ m.to \in Nat
  BY DEF HistOK, MsgOK, Messages, Latest
<1>3. b \in Books /\ b.seq \in 1 .. Latest /\ b.levels \in SUBSET Levels
  BY DEF Exact, Books
<1>4. /\ u \in Books /\ u.seq = m.to /\ u.boundary = b.boundary
      /\ u.levels = (b.levels \ named) \cup (hist[m.to] \cap named)
  <2> HIDE DEF named
  <2>1. (b.levels \ named) \cup (hist[m.to] \cap named) \in SUBSET Levels
    BY <1>2, <1>3
  <2> QED
    BY <1>2, <1>3, <2>1 DEF Books
<1> HIDE DEF u
<1>5. Known(u) = Known(b)
  BY <1>4 DEF Known
<1>6. ASSUME venue # "bybit" PROVE u.levels = hist[m.to] \cap Known(u)
  <2>1. b.levels = hist[b.seq] \cap Known(b)
    BY <1>6 DEF Exact
  <2>2. ASSUME NEW l \in Levels, l \notin Changed(m)
        PROVE  (l \in hist[b.seq]) <=> (l \in hist[m.to])
    <3>1. \A v \in m.from .. m.to : (l \in hist[v]) <=> (l \in hist[v - 1])
      BY <2>2 DEF Changed
    <3>2. b.seq \in Nat /\ b.seq <= m.to /\ \A v \in b.seq + 1 .. m.to : v \in m.from .. m.to
      BY <1>2, <1>3, <1>6 DEF MsgOK, Messages, Latest
    <3>3. \A v \in b.seq + 1 .. m.to : (l \in hist[v]) <=> (l \in hist[v - 1])
      BY <3>1, <3>2
    <3> QED
      BY <1>2, <3>2, <3>3, Agreement
  <2>3. Known(b) \subseteq Levels
    BY DEF Known
  <2> QED
    BY <1>2, <1>4, <1>5, <2>1, <2>2, <2>3
<1> QED
  BY <1>1, <1>2, <1>4, <1>6 DEF Exact

\* Whatever a message is, the book stays exact or is given up; it moves back
\* in time only by a snapshot.
LEMMA ApplyExact ==
    ASSUME HistOK, NEW b, Exact(b), NEW m, MsgOK(m)
    PROVE  /\ Exact(Apply(b, m))
           /\ b.ready /\ Apply(b, m).ready /\ venue # "bybit" /\ m.kind # "snapshot"
                => Apply(b, m).seq >= b.seq
<1>0. b.seq \in Nat /\ m.from \in Nat /\ m.to \in Nat /\ m.from <= m.to
  BY DEF Exact, Books, MsgOK, Messages
<1>1. CASE Duplicate(b, m)
  BY <1>0, <1>1 DEF Apply
<1>2. CASE ~Duplicate(b, m) /\ (OutOfSequence(b, m) \/ Unusable(Updated(b, m)))
  BY <1>2, NoBookExact DEF Apply
<1>3. CASE ~Duplicate(b, m) /\ ~OutOfSequence(b, m) /\ ~Unusable(Updated(b, m))
  <2>1. Apply(b, m) = Updated(b, m)
    BY <1>3 DEF Apply
  <2>2. CASE m.kind = "snapshot"
    BY <2>1, <2>2, SnapshotExact
  <2>3. CASE m.kind # "snapshot"
    <3>1. b.ready
      BY <1>3, <2>3 DEF OutOfSequence
    <3>2. venue = "binance" => m.from <= b.seq + 1 /\ b.seq < m.to
      BY <1>0, <1>3, <2>3, <3>1 DEF OutOfSequence, Duplicate
    <3>3. venue = "okx" => m.from - 1 = b.seq
      BY <1>3, <2>3, <3>1 DEF OutOfSequence
    <3>4. venue # "bybit" => m.from <= b.seq + 1 /\ b.seq <= m.to
      BY <1>0, <3>2, <3>3 DEF HistOK
    <3> QED
      BY <1>0, <2>1, <2>3, <3>1, <3>4, DeltaExact
  <2> QED
    BY <2>2, <2>3
<1> QED
  BY <1>1, <1>2, <1>3

-----------------------------------------------------------------------------
(* A REST answer, and the deltas that waited for it *)

\* The best levels are all the exchange has up to the last of them.
LEMMA RestBookExact ==
    ASSUME HistOK, venue = "binance", NEW v \in 1 .. Latest
    PROVE  Exact(RestBook(v))
<1> DEFINE below(l) == {k \in hist[v] : k <= l}
           best == {l \in hist[v] : Cardinality(below(l)) <= SnapshotLevels}
           b == [ready |-> TRUE, levels |-> best, seq |-> v, boundary |-> Max(best)]
<1>1. RestBook(v) = IF Unusable(b) THEN NoBook ELSE b
  BY DEF RestBook
<1>2. CASE Unusable(b)
  BY <1>1, <1>2, NoBookExact
<1>3. CASE ~Unusable(b)
  <2>1. hist[v] \in SUBSET Levels /\ v \in Nat
    BY DEF HistOK, Latest
  <2>2. best \in SUBSET Levels /\ best # {}
    BY <1>3, <2>1 DEF Unusable
  <2>3. Levels \subseteq Nat
    BY LevelsAssumption
  <2> DEFINE top == Max(best)
  <2>4. top \in best /\ (\A y \in best : y <= top) /\ top \in Nat
    <3> HIDE DEF best
    <3> QED
      BY <2>2, <2>3, MaxOf
  <2>5. ASSUME NEW l \in hist[v], l <= top PROVE l \in best
    <3>1. l \in Nat /\ below(l) \subseteq below(top)
      <4> HIDE DEF best, top
      <4>1. l \in Nat /\ \A k \in hist[v] : k \in Nat
        BY <2>1, <2>3
      <4>2. \A k \in hist[v] : k <= l => k <= top
        BY <2>4, <2>5, <4>1
      <4> QED
        BY <4>1, <4>2
    <3>2. IsFiniteSet(below(top))
      <4>1. below(top) \in SUBSET Levels
        BY <2>1
      <4> QED
        BY <4>1, LevelsFinite, FS_Subset
    <3>3. /\ IsFiniteSet(below(l)) /\ Cardinality(below(l)) <= Cardinality(below(top))
      <4> HIDE DEF below
      <4> QED
        BY <3>1, <3>2, FS_Subset
    <3>4. Cardinality(below(l)) \in Nat /\ Cardinality(below(top)) \in Nat
      <4> HIDE DEF below
      <4> QED
        BY <3>2, <3>3, FS_CardinalityType
    <3>5. Cardinality(below(top)) <= SnapshotLevels
      BY <2>4
    <3>6. Cardinality(below(l)) <= SnapshotLevels
      <4> HIDE DEF below
      <4> QED
        BY <3>3, <3>4, <3>5, ConstantsAssumption
    <3> QED
      BY <3>6
  <2>6. best = hist[v] \cap {l \in Levels : l <= top}
    BY <2>1, <2>4, <2>5
  <2> HIDE DEF best, top
  <2>7. /\ b \in Books /\ b.ready /\ b.seq = v /\ b.levels = best /\ b.boundary = top
    BY <2>1, <2>2, <2>4 DEF Books, top
  <2>8. best = hist[v] \cap Known(b)
    BY <2>6, <2>7 DEF Known
  <2> HIDE DEF b
  <2> QED
    BY <1>1, <1>3, <2>7, <2>8 DEF Exact
<1> QED
  BY <1>2, <1>3

\* The deltas kept while the answer was awaited are applied one by one.
LEMMA ReplayedExact ==
    ASSUME HistOK, BufferOK, NEW b, Exact(b)
    PROVE  Exact(Replayed(b))
<1> DEFINE top == Len(buffered)
           Wrong == {n \in 0 .. top : ~Exact(Replay(b)[n])}
<1>1. top \in Nat /\ \A i \in 1 .. top : MsgOK(buffered[i])
  BY DEF BufferOK
<1>2. Replay(b) = [n \in 0 .. top |->
                      IF n = 0 THEN b ELSE Apply(Replay(b)[n - 1], buffered[n])]
  BY <1>1, ReplayUnrolls
<1> HIDE DEF top
<1>3. \A n \in 0 .. top :
         Replay(b)[n] = IF n = 0 THEN b ELSE Apply(Replay(b)[n - 1], buffered[n])
  <2> DEFINE f == Replay(b)
  <2>1. f = [n \in 0 .. top |-> IF n = 0 THEN b ELSE Apply(f[n - 1], buffered[n])]
    BY <1>2
  <2> HIDE DEF f
  <2>2. \A n \in 0 .. top : f[n] = IF n = 0 THEN b ELSE Apply(f[n - 1], buffered[n])
    BY <2>1
  <2> QED
    BY <2>2 DEF f
<1>4. Wrong = {}
  <2> SUFFICES ASSUME Wrong # {} PROVE FALSE
    OBVIOUS
  <2>0. Wrong \in SUBSET Nat
    OBVIOUS
  <2>1. PICK n \in Wrong : \A k \in Wrong : n <= k
    <3> HIDE DEF Wrong
    <3> QED
      BY <2>0, Smallest
  <2>2. n \in 0 .. top /\ ~Exact(Replay(b)[n])
    BY <2>1
  <2>3. CASE n = 0
    BY <1>3, <2>2, <2>3
  <2>4. CASE n # 0
    <3>1. n - 1 \in 0 .. top /\ n \in 1 .. top /\ ~(n <= n - 1)
      BY <1>1, <2>2, <2>4
    <3>2. Exact(Replay(b)[n - 1])
      BY <2>1, <3>1
    <3>3. Exact(Apply(Replay(b)[n - 1], buffered[n]))
      BY <1>1, <3>1, <3>2, ApplyExact
    <3> QED
      BY <1>3, <2>2, <2>4, <3>3
  <2> QED
    BY <2>3, <2>4
<1>5. top \in 0 .. top
  BY <1>1
<1>6. Exact(Replay(b)[top])
  BY <1>4, <1>5
<1> QED
  BY <1>6, ReplayedIsReplay DEF top

-----------------------------------------------------------------------------
(* Steps *)

LEMMA Disowned ==
    ASSUME NEW q, RestOK(q)
    PROVE  RestOK(Disown(q)) /\ NoneMine(Disown(q))
<1>1. q \in Seq(RestRequests) /\ Len(q) \in Nat /\ DOMAIN q = 1 .. Len(q)
  BY DEF RestOK
<1>2. \A i \in 1 .. Len(q) : q[i] \in RestRequests /\ q[i].v <= Latest
  BY <1>1 DEF RestOK
<1>3. ASSUME NEW r \in RestRequests
      PROVE  /\ [r EXCEPT !.mine = FALSE] \in RestRequests
             /\ [r EXCEPT !.mine = FALSE].v = r.v
             /\ [r EXCEPT !.mine = FALSE].mine = FALSE
  BY DEF RestRequests
<1>4. Disown(q) = [i \in 1 .. Len(q) |-> [q[i] EXCEPT !.mine = FALSE]]
  BY <1>1 DEF Disown
<1>5. \A i \in 1 .. Len(q) : /\ Disown(q)[i] \in RestRequests
                             /\ Disown(q)[i].v <= Latest
                             /\ ~Disown(q)[i].mine
  BY <1>2, <1>3, <1>4
<1> HIDE DEF Disown
<1>6. Disown(q) \in Seq(RestRequests) /\ Len(Disown(q)) = Len(q)
  BY <1>1, <1>4, <1>5
<1> QED
  BY <1>5, <1>6 DEF RestOK, NoneMine

\* Nothing this feed's truth depends on has moved.
LEMMA Elsewhere ==
    ASSUME FeedInv, UNCHANGED <<venue, hist, conn, wire, cursor, book, syncing, buffered, rest>>
    PROVE  FeedInv'
BY DEF FeedInv, HistOK, Exact, Known, WireOK, BufferOK, MsgOK, RestOK, SyncOK, OneMine, NoneMine,
       Latest

\* The socket is given up with everything it brought.
LEMMA Disconnected ==
    ASSUME FeedInv, UNCHANGED <<venue, hist>>, Disconnect,
           NEW q, RestOK(q), rest' = Disown(q)
    PROVE  FeedInv'
<1>1. HistOK' /\ (cursor \in 0 .. Latest)'
  BY DEF FeedInv, HistOK, Disconnect, Latest
<1>2. Exact(book)' /\ ~book'.ready
  BY DEF Disconnect, Exact, NoBook, Books
<1>3. WireOK' /\ BufferOK'
  BY DEF Disconnect, WireOK, BufferOK
<1>4. RestOK(rest)' /\ NoneMine(rest)'
  <2>1. RestOK(Disown(q)) /\ NoneMine(Disown(q))
    BY Disowned
  <2> HIDE DEF Disown
  <2> QED
    BY <2>1 DEF RestOK, NoneMine, Latest
<1>5. SyncOK'
  BY <1>2, <1>4 DEF Disconnect, SyncOK, NoneMine, OneMine
<1> QED
  BY <1>1, <1>2, <1>3, <1>4, <1>5 DEF FeedInv

\* The exchange sends one message more; only bybit sends a snapshot unasked.
LEMMA Pushed ==
    ASSUME FeedInv, UNCHANGED <<venue, hist, conn, book, syncing, buffered, rest>>,
           NEW m, MsgOK(m), m.kind = "snapshot" => venue = "bybit",
           wire' = Append(wire, m), cursor' \in 0 .. Latest
    PROVE  FeedInv'
<1>1. HistOK' /\ (cursor \in 0 .. Latest)' /\ Exact(book)' /\ BufferOK' /\ RestOK(rest)' /\ SyncOK'
  BY DEF FeedInv, HistOK, Latest, Exact, Known, BufferOK, MsgOK, RestOK, SyncOK, OneMine, NoneMine
<1>2. WireOK'
  <2>1. m \in Messages /\ wire \in Seq(Messages)
    BY DEF MsgOK, FeedInv, WireOK
  <2>2. wire' \in Seq(Messages)
    BY <2>1
  <2>3. \A i \in 1 .. Len(wire') : MsgOK(wire'[i])
    <3>1. \A i \in 1 .. Len(wire') : (i \in 1 .. Len(wire) /\ wire'[i] = wire[i]) \/ wire'[i] = m
      BY <2>1
    <3> QED
      BY <3>1 DEF FeedInv, WireOK
  <2>4. \A i \in 1 .. Len(wire') : venue = "okx" /\ wire'[i].kind = "snapshot" => i = 1 /\ ~book.ready
    <3>1. \A i \in 1 .. Len(wire') : (i \in 1 .. Len(wire) /\ wire'[i] = wire[i]) \/ wire'[i] = m
      BY <2>1
    <3> QED
      BY <3>1 DEF FeedInv, WireOK
  <2>5. \A i \in 1 .. Len(wire') : MsgOK(wire[i])'
    BY <2>3 DEF MsgOK, Latest
  <2> QED
    BY <2>2, <2>4, <2>5 DEF WireOK
<1> QED
  BY <1>1, <1>2 DEF FeedInv

\* A request leaves the queue, or is answered.
LEMMA Dequeued ==
    ASSUME RestOK(rest), OneMine(rest), rest # <<>>
    PROVE  /\ RestOK(Tail(rest)) /\ OneMine(Tail(rest))
           /\ NoneMine(rest) => NoneMine(Tail(rest))
           /\ Head(rest).mine => NoneMine(Tail(rest))
           /\ Head(rest) \in RestRequests /\ Head(rest).v <= Latest
<1>1. rest \in Seq(RestRequests) /\ Len(rest) \in Nat /\ Len(rest) >= 1
  BY DEF RestOK
<1>2. Head(rest) = rest[1] /\ 1 \in 1 .. Len(rest)
  BY <1>1
<1>3. /\ Tail(rest) \in Seq(RestRequests) /\ Len(Tail(rest)) = Len(rest) - 1
      /\ \A i \in 1 .. Len(rest) - 1 : Tail(rest)[i] = rest[i + 1] /\ i + 1 \in 1 .. Len(rest)
                                      /\ i + 1 # 1
  BY <1>1
<1>4. RestOK(Tail(rest))
  BY <1>3 DEF RestOK
<1>5. OneMine(Tail(rest))
  <2> SUFFICES ASSUME NEW i \in 1 .. Len(rest) - 1, NEW j \in 1 .. Len(rest) - 1,
                      Tail(rest)[i].mine, Tail(rest)[j].mine
               PROVE  i = j
    BY <1>3 DEF OneMine
  <2>1. i + 1 = j + 1
    BY <1>3 DEF OneMine
  <2> QED
    BY <1>1, <2>1
<1>6. NoneMine(rest) => NoneMine(Tail(rest))
  BY <1>3 DEF NoneMine
<1>7. Head(rest).mine => NoneMine(Tail(rest))
  BY <1>2, <1>3 DEF NoneMine, OneMine
<1>8. Head(rest) \in RestRequests /\ Head(rest).v <= Latest
  BY <1>1, <1>2 DEF RestOK
<1> QED
  BY <1>4, <1>5, <1>6, <1>7, <1>8

LEMMA OpenStep == ASSUME FeedInv, Open PROVE FeedInv'
<1>1. /\ UNCHANGED <<venue, hist, wire, cursor, book, syncing, buffered>>
      /\ conn = "none" /\ conn' = "connecting" /\ rest' = Disown(rest)
  BY DEF Open
<1>2. HistOK' /\ (cursor \in 0 .. Latest)' /\ Exact(book)' /\ BufferOK' /\ WireOK'
  BY <1>1 DEF FeedInv, HistOK, Latest, Exact, Known, BufferOK, MsgOK, WireOK
<1>3. RestOK(rest)' /\ NoneMine(rest)'
  <2>1. RestOK(Disown(rest)) /\ NoneMine(Disown(rest))
    BY Disowned DEF FeedInv
  <2> HIDE DEF Disown
  <2> QED
    BY <1>1, <2>1 DEF RestOK, NoneMine, Latest
<1>4. SyncOK'
  BY <1>1, <1>3 DEF FeedInv, SyncOK, NoneMine, OneMine
<1> QED
  BY <1>2, <1>3, <1>4 DEF FeedInv

LEMMA SocketOpenStep == ASSUME FeedInv, SocketOpen PROVE FeedInv'
<1>1. /\ UNCHANGED <<venue, hist, book, buffered>>
      /\ conn = "connecting" /\ conn' = "open" /\ cursor' = Latest /\ wire' = FirstPush
  BY DEF SocketOpen
<1>2. ~book.ready /\ ~syncing /\ NoneMine(rest) /\ RestOK(rest) /\ HistOK
  BY <1>1 DEF FeedInv, SyncOK
<1>3. HistOK' /\ (cursor \in 0 .. Latest)' /\ Exact(book)' /\ BufferOK'
  BY <1>1 DEF FeedInv, HistOK, Latest, Exact, Known, BufferOK, MsgOK
<1>4. WireOK'
  <2>1. CASE venue = "binance"
    BY <1>1, <2>1 DEF FirstPush, WireOK
  <2>2. CASE venue # "binance"
    <3> DEFINE m == Message("snapshot", Latest, Latest)
    <3>1. Latest \in Nat /\ Latest >= 1
      BY <1>2 DEF HistOK, Latest
    <3>2. m \in Messages /\ m.kind = "snapshot" /\ m.from = Latest /\ m.to = Latest
      BY <3>1 DEF Message, Messages
    <3> HIDE DEF m
    <3>3. wire' = <<m>>
      BY <1>1, <2>2 DEF FirstPush, m
    <3>4. wire' \in Seq(Messages) /\ Len(wire') = 1 /\ wire'[1] = m
      BY <3>2, <3>3
    <3>5. MsgOK(wire[1])'
      BY <1>1, <2>2, <3>1, <3>2, <3>4 DEF MsgOK, Latest
    <3> QED
      BY <1>1, <1>2, <3>4, <3>5 DEF WireOK
  <2> QED
    BY <2>1, <2>2
<1>5. CASE UNCHANGED <<rest, syncing>>
  <2>1. RestOK(rest)' /\ SyncOK'
    BY <1>1, <1>2, <1>5 DEF FeedInv, RestOK, SyncOK, OneMine, NoneMine, Latest
  <2> QED
    BY <1>3, <1>4, <2>1 DEF FeedInv
<1>6. CASE venue = "binance" /\ syncing' = TRUE /\ rest' = Append(rest, [mine |-> TRUE, v |-> 0])
  <2> DEFINE r == [mine |-> TRUE, v |-> 0]
  <2>1. r \in RestRequests /\ r.v = 0
    BY DEF RestRequests
  <2> HIDE DEF r
  <2>2. rest \in Seq(RestRequests) /\ rest' = Append(rest, r) /\ Len(rest) \in Nat
    BY <1>2, <1>6 DEF r, RestOK
  <2>3. /\ rest' \in Seq(RestRequests) /\ Len(rest') = Len(rest) + 1 /\ rest'[Len(rest')] = r
        /\ \A i \in 1 .. Len(rest') : i # Len(rest') => i \in 1 .. Len(rest) /\ rest'[i] = rest[i]
    BY <2>1, <2>2
  <2>4. Latest \in Nat
    BY <1>2 DEF HistOK, Latest
  <2>5. \A i \in 1 .. Len(rest') : rest'[i].v <= Latest
    BY <1>2, <2>1, <2>3, <2>4 DEF RestOK
  <2>6. RestOK(rest)'
    BY <1>1, <2>3, <2>5 DEF RestOK, Latest
  <2>7. OneMine(rest)'
    BY <1>2, <2>3 DEF OneMine, NoneMine
  <2>8. SyncOK'
    BY <1>1, <1>2, <1>6, <2>7 DEF SyncOK
  <2> QED
    BY <1>3, <1>4, <2>6, <2>8 DEF FeedInv
<1> QED
  BY <1>5, <1>6 DEF SocketOpen

LEMMA FirstMessage ==
    ASSUME HistOK, WireOK, wire # <<>>
    PROVE  /\ MsgOK(Head(wire))
           /\ venue = "okx" /\ Head(wire).kind = "snapshot" => ~book.ready
           /\ Tail(wire) \in Seq(Messages)
           /\ \A i \in 1 .. Len(Tail(wire)) :
                  MsgOK(Tail(wire)[i]) /\ ~(venue = "okx" /\ Tail(wire)[i].kind = "snapshot")
<1>1. wire \in Seq(Messages) /\ Len(wire) \in Nat /\ Len(wire) >= 1
  BY DEF WireOK
<1>2. Head(wire) = wire[1] /\ 1 \in 1 .. Len(wire)
  BY <1>1
<1>3. /\ Tail(wire) \in Seq(Messages) /\ Len(Tail(wire)) = Len(wire) - 1
      /\ \A i \in 1 .. Len(wire) - 1 : Tail(wire)[i] = wire[i + 1] /\ i + 1 \in 1 .. Len(wire)
                                      /\ i + 1 # 1
  BY <1>1
<1> QED
  BY <1>2, <1>3 DEF WireOK

\* A message that the book accepts, or that the buffer takes.
LEMMA Received ==
    ASSUME FeedInv, Receive, ~Disconnect
    PROVE  /\ FeedInv'
           /\ ~syncing /\ book.ready /\ book'.ready /\ venue # "bybit" => book'.seq >= book.seq
<1> DEFINE m == Head(wire)
           buffer == syncing /\ m.kind = "delta"
           next == Apply(book, m)
<1>1. /\ conn = "open" /\ wire # <<>> /\ wire' = Tail(wire)
      /\ book' = (IF buffer THEN book ELSE next)
      /\ buffered' = (IF buffer THEN Append(buffered, m) ELSE buffered)
      /\ UNCHANGED <<conn, cursor, syncing, rest, venue, hist>>
      /\ ~buffer => next.ready
  BY DEF Receive, Fail
<1>2. /\ HistOK /\ MsgOK(m) /\ Tail(wire) \in Seq(Messages)
      /\ venue = "okx" /\ m.kind = "snapshot" => ~book.ready
      /\ \A i \in 1 .. Len(Tail(wire)) :
             MsgOK(Tail(wire)[i]) /\ ~(venue = "okx" /\ Tail(wire)[i].kind = "snapshot")
  BY <1>1, FirstMessage DEF FeedInv
<1>3. Exact(next) /\ (book.ready /\ next.ready /\ venue # "bybit" /\ m.kind # "snapshot"
                        => next.seq >= book.seq)
  BY <1>2, ApplyExact DEF FeedInv
<1>4. m \in Messages
  BY <1>2 DEF MsgOK
<1>5. syncing => buffer /\ venue = "binance"
  BY <1>2, <1>4 DEF FeedInv, SyncOK, MsgOK, Messages
<1>6. book' = IF syncing THEN book ELSE next
  BY <1>1, <1>5
<1>7. buffered' = buffered \/ buffered' = Append(buffered, m)
  BY <1>1
<1>8. Exact(book')
  BY <1>3, <1>6 DEF FeedInv
<1> HIDE DEF m, next, buffer
<1>9. HistOK' /\ (cursor \in 0 .. Latest)' /\ Exact(book)' /\ RestOK(rest)'
  BY <1>1, <1>8 DEF FeedInv, HistOK, Latest, Exact, Known, RestOK
<1>10. WireOK'
  <2>1. \A i \in 1 .. Len(wire') : MsgOK(wire[i])' /\ ~(venue' = "okx" /\ wire'[i].kind = "snapshot")
    BY <1>1, <1>2 DEF MsgOK, Latest
  <2> QED
    BY <1>1, <1>2, <2>1 DEF WireOK
<1>11. BufferOK'
  <2>1. buffered' \in Seq(Messages)
    BY <1>4, <1>7 DEF FeedInv, BufferOK
  <2>2. \A i \in 1 .. Len(buffered') : MsgOK(buffered'[i])
    <3>1. \A i \in 1 .. Len(buffered') :
             (i \in 1 .. Len(buffered) /\ buffered'[i] = buffered[i]) \/ buffered'[i] = m
      BY <1>4, <1>7 DEF FeedInv, BufferOK
    <3> QED
      BY <1>2, <3>1 DEF FeedInv, BufferOK
  <2>3. \A i \in 1 .. Len(buffered') : MsgOK(buffered[i])'
    BY <1>1, <2>2 DEF MsgOK, Latest
  <2> QED
    BY <2>1, <2>3 DEF BufferOK
<1>12. SyncOK'
  BY <1>1, <1>6 DEF FeedInv, SyncOK, OneMine, NoneMine
<1>13. ~syncing /\ book.ready /\ book'.ready /\ venue # "bybit" => book'.seq >= book.seq
  BY <1>2, <1>3, <1>4, <1>6 DEF MsgOK, HistOK
<1> QED
  BY <1>9, <1>10, <1>11, <1>12, <1>13 DEF FeedInv

LEMMA ReceiveStep == ASSUME FeedInv, Receive PROVE FeedInv'
<1>1. CASE Disconnect
  <2>1. conn = "open" /\ conn' # conn
    BY <1>1 DEF Receive, Disconnect
  <2>2. rest' = Disown(rest) /\ UNCHANGED <<venue, hist>>
    <3> HIDE DEF Disown
    <3> QED
      BY <2>1 DEF Receive
  <2> QED
    BY <1>1, <2>2, Disconnected DEF FeedInv
<1>2. CASE ~Disconnect
  BY <1>2, Received
<1> QED
  BY <1>1, <1>2

\* An answer that fits what has been buffered makes the book ready.
LEMMA Synced ==
    ASSUME FeedInv, rest # <<>>, Head(rest).v > 0, Head(rest).mine,
           UNCHANGED <<venue, hist, conn, wire, cursor>>,
           book' = Replayed(RestBook(Head(rest).v)), syncing' = FALSE, buffered' = <<>>,
           rest' = Tail(rest)
    PROVE  FeedInv'
<1> DEFINE v == Head(rest).v
           synced == Replayed(RestBook(v))
<1>1. /\ RestOK(Tail(rest)) /\ NoneMine(Tail(rest))
      /\ Head(rest) \in RestRequests /\ v <= Latest
  BY Dequeued DEF FeedInv, SyncOK
<1>2. HistOK /\ Latest \in Nat
  BY DEF FeedInv, HistOK, Latest
<1>3. v \in 1 .. Latest
  <2>1. v \in Nat
    BY <1>1 DEF RestRequests
  <2> HIDE DEF v
  <2>2. v > 0
    BY DEF v
  <2> QED
    BY <1>1, <1>2, <2>1, <2>2
<1>4. syncing
  <2>1. rest \in Seq(RestRequests) /\ Len(rest) \in Nat
    BY DEF FeedInv, RestOK
  <2>2. Head(rest) = rest[1] /\ 1 \in 1 .. Len(rest)
    BY <2>1
  <2> QED
    BY <2>2 DEF FeedInv, SyncOK, NoneMine
<1>5. venue = "binance" /\ conn = "open"
  BY <1>4 DEF FeedInv, SyncOK
<1> HIDE DEF v
<1>6. Exact(RestBook(v))
  BY <1>2, <1>3, <1>5, RestBookExact
<1>7. Exact(synced)
  BY <1>2, <1>6, ReplayedExact DEF FeedInv
<1>8. book' = synced
  BY DEF v
<1> HIDE DEF synced
<1>9. HistOK' /\ (cursor \in 0 .. Latest)' /\ Exact(book)'
  BY <1>7, <1>8 DEF FeedInv, HistOK, Latest, Exact, Known
<1>10. WireOK' /\ BufferOK'
  BY <1>5 DEF FeedInv, WireOK, BufferOK, MsgOK, Latest
<1>11. RestOK(rest)' /\ NoneMine(rest)'
  BY <1>1 DEF RestOK, NoneMine, Latest
<1>12. SyncOK'
  BY <1>5, <1>11 DEF SyncOK, OneMine, NoneMine
<1> QED
  BY <1>9, <1>10, <1>11, <1>12 DEF FeedInv

\* An answer to an earlier socket's request changes nothing but the queue.
LEMMA Ignored ==
    ASSUME FeedInv, rest # <<>>, ~Head(rest).mine, UNCHANGED <<feedVars, venue, hist>>,
           rest' = Tail(rest)
    PROVE  FeedInv'
<1>1. /\ RestOK(Tail(rest)) /\ OneMine(Tail(rest))
      /\ NoneMine(rest) => NoneMine(Tail(rest))
  BY Dequeued DEF FeedInv, SyncOK
<1>2. RestOK(rest)' /\ OneMine(rest)' /\ (NoneMine(rest) => NoneMine(rest)')
  BY <1>1 DEF RestOK, OneMine, NoneMine, Latest
<1>3. SyncOK'
  BY <1>2 DEF FeedInv, SyncOK, feedVars
<1> QED
  BY <1>2, <1>3 DEF FeedInv, feedVars, HistOK, Exact, Known, WireOK, BufferOK, MsgOK, Latest

LEMMA DequeuedRestOK == ASSUME FeedInv, rest # <<>> PROVE RestOK(Tail(rest))
BY Dequeued DEF FeedInv, SyncOK

LEMMA SnapshotArrivesStep == ASSUME FeedInv, SnapshotArrives PROVE FeedInv'
<1>1. CASE ~Head(rest).mine
  BY <1>1, Ignored DEF SnapshotArrives
<1>2. CASE Head(rest).mine /\ Fail
  <2>1. rest # <<>> /\ UNCHANGED <<venue, hist>> /\ Disconnect
    BY <1>2 DEF SnapshotArrives, Fail
  <2>2. conn = "open"
    <3>1. rest \in Seq(RestRequests) /\ Len(rest) \in Nat
      BY DEF FeedInv, RestOK
    <3>2. Head(rest) = rest[1] /\ 1 \in 1 .. Len(rest)
      BY <2>1, <3>1
    <3> QED
      BY <1>2, <3>2 DEF FeedInv, SyncOK, NoneMine
  <2>3. rest' = Disown(Tail(rest))
    <3> HIDE DEF Disown
    <3>1. conn' # conn
      BY <2>1, <2>2 DEF Disconnect
    <3> QED
      BY <1>2, <3>1 DEF SnapshotArrives
  <2> QED
    BY <2>1, <2>3, DequeuedRestOK, Disconnected
<1>3. CASE Head(rest).mine /\ ~Fail
  BY <1>3, Synced DEF SnapshotArrives
<1> QED
  BY <1>1, <1>2, <1>3

LEMMA SnapshotFailsStep ==
    ASSUME FeedInv, NEW limited, rest # <<>>, SnapshotFails(limited)
    PROVE  FeedInv'
<1>1. CASE Head(rest).mine
  <2>1. Disconnect /\ rest' = Disown(Tail(rest)) /\ UNCHANGED <<venue, hist>>
    BY <1>1 DEF SnapshotFails, Fail
  <2> QED
    BY <2>1, DequeuedRestOK, Disconnected
<1>2. CASE ~Head(rest).mine
  BY <1>2, Ignored DEF SnapshotFails
<1> QED
  BY <1>1, <1>2

LEMMA TradeStep == ASSUME FeedInv, NEW l \in Levels, Trade(l) PROVE FeedInv'
<1>1. /\ UNCHANGED <<venue, rest, conn, wire, cursor, book, syncing, buffered>>
      /\ \E new \in SUBSET Levels : hist' = Append(hist, new)
  <2>1. hist[Latest] \in SUBSET Levels
    BY DEF FeedInv, HistOK, Latest
  <2> QED
    BY <2>1 DEF Trade, feedVars
<1>2. /\ HistOK' /\ Latest' = Latest + 1 /\ Latest \in Nat
      /\ \A v \in 1 .. Latest : hist'[v] = hist[v]
  BY <1>1 DEF FeedInv, HistOK, Latest
<1> HIDE DEF Latest
<1>3. (cursor \in 0 .. Latest)'
  BY <1>1, <1>2 DEF FeedInv
<1>4. Exact(book)'
  <2>1. Known(book)' = Known(book)
    BY <1>1 DEF Known
  <2>2. book' = book /\ book \in Books /\ venue' = venue
    BY <1>1 DEF FeedInv, Exact
  <2>3. ASSUME book.ready
        PROVE  book.seq \in 1 .. Latest' /\ hist'[book.seq] = hist[book.seq]
    <3>1. book.seq \in 1 .. Latest
      BY <2>3 DEF FeedInv, Exact
    <3> QED
      BY <1>2, <3>1
  <2>4. book.ready /\ venue # "bybit" => book.levels = hist[book.seq] \cap Known(book)
    BY DEF FeedInv, Exact
  <2> HIDE DEF Known
  <2> QED
    BY <2>1, <2>2, <2>3, <2>4 DEF Exact
<1>5. ASSUME NEW m, MsgOK(m) PROVE MsgOK(m)'
  BY <1>1, <1>2, <1>5 DEF MsgOK, Messages
<1>6. WireOK' /\ BufferOK'
  <2>1. \A i \in 1 .. Len(wire) : MsgOK(wire[i])'
    <3>1. ASSUME NEW i \in 1 .. Len(wire) PROVE MsgOK(wire[i])'
      BY <1>1, <1>2 DEF FeedInv, WireOK, MsgOK, Messages
    <3> QED
      BY <1>1, <3>1
  <2>2. \A i \in 1 .. Len(buffered) : MsgOK(buffered[i])'
    <3>1. ASSUME NEW i \in 1 .. Len(buffered) PROVE MsgOK(buffered[i])'
      BY <1>1, <1>2 DEF FeedInv, BufferOK, MsgOK, Messages
    <3> QED
      BY <1>1, <3>1
  <2> QED
    BY <1>1, <2>1, <2>2 DEF FeedInv, WireOK, BufferOK
<1>7. RestOK(rest)'
  <2>1. rest' = rest /\ rest \in Seq(RestRequests)
    BY <1>1 DEF FeedInv, RestOK
  <2>2. ASSUME NEW i \in 1 .. Len(rest) PROVE rest[i].v <= Latest'
    <3>1. rest[i] \in RestRequests /\ rest[i].v <= Latest
      BY <2>1 DEF FeedInv, RestOK
    <3>2. rest[i].v \in Nat
      BY <3>1 DEF RestRequests
    <3> QED
      BY <1>2, <3>1, <3>2
  <2> QED
    BY <2>1, <2>2 DEF RestOK
<1>8. SyncOK'
  BY <1>1 DEF FeedInv, SyncOK, OneMine, NoneMine
<1> QED
  BY <1>2, <1>3, <1>4, <1>6, <1>7, <1>8 DEF FeedInv

LEMMA RestServedStep == ASSUME FeedInv, NEW v \in DOMAIN hist, RestServed(v) PROVE FeedInv'
<1>1. /\ UNCHANGED <<feedVars, venue, hist>> /\ rest # <<>>
      /\ rest' = [rest EXCEPT ![1].v = v]
  BY DEF RestServed
<1>2. rest \in Seq(RestRequests) /\ Len(rest) \in Nat /\ 1 \in 1 .. Len(rest)
  BY <1>1 DEF FeedInv, RestOK
<1>3. v \in Nat /\ v <= Latest
  BY DEF FeedInv, HistOK, Latest
<1>4. ASSUME NEW r \in RestRequests
      PROVE  /\ [r EXCEPT !.v = v] \in RestRequests
             /\ [r EXCEPT !.v = v].v = v /\ [r EXCEPT !.v = v].mine = r.mine
  BY <1>3 DEF RestRequests
<1>5. /\ rest' \in Seq(RestRequests) /\ Len(rest') = Len(rest)
      /\ \A i \in 1 .. Len(rest) : /\ rest'[i].mine = rest[i].mine
                                   /\ rest'[i].v = rest[i].v \/ rest'[i].v = v
  <2>1. rest' = [i \in 1 .. Len(rest) |-> IF i = 1 THEN [rest[1] EXCEPT !.v = v] ELSE rest[i]]
    <3>1. DOMAIN rest = 1 .. Len(rest)
      BY <1>2
    <3>2. rest' = [i \in DOMAIN rest |-> IF i = 1 THEN [rest[1] EXCEPT !.v = v] ELSE rest[i]]
      BY <1>1, Zenon
    <3> QED
      BY <3>1, <3>2, Zenon
  <2>2. \A i \in 1 .. Len(rest) : rest[i] \in RestRequests
    BY <1>2
  <2>3. \A i \in 1 .. Len(rest) : /\ rest'[i] \in RestRequests
                                  /\ rest'[i].mine = rest[i].mine
                                  /\ rest'[i].v = rest[i].v \/ rest'[i].v = v
    BY <1>2, <1>4, <2>1, <2>2
  <2>4. rest' \in Seq(RestRequests) /\ Len(rest') = Len(rest)
    BY <1>2, <2>1, <2>3
  <2> QED
    BY <2>3, <2>4
<1>6. RestOK(rest)'
  BY <1>1, <1>3, <1>5 DEF FeedInv, RestOK, Latest
<1>7. SyncOK'
  BY <1>1, <1>5 DEF FeedInv, SyncOK, OneMine, NoneMine, feedVars
<1> QED
  BY <1>1, <1>6, <1>7 DEF FeedInv, feedVars, HistOK, Exact, Known, WireOK, BufferOK, MsgOK, Latest

LEMMA PushStep ==
    ASSUME FeedInv, NEW from \in Nat, NEW to \in Nat, 1 <= from, from <= to, to <= Latest,
           Push(from, to)
    PROVE  FeedInv'
<1> DEFINE m == Message("delta", from, to)
<1>1. MsgOK(m) /\ m.kind = "delta"
  BY DEF Message, MsgOK, Messages
<1> HIDE DEF m
<1>2. /\ UNCHANGED <<venue, hist, conn, book, syncing, buffered, rest>>
      /\ wire' = Append(wire, m) /\ cursor' = to
  BY DEF Push, m
<1>3. cursor' \in 0 .. Latest
  BY <1>2 DEF FeedInv, HistOK, Latest
<1> QED
  BY <1>1, <1>2, <1>3, Pushed

LEMMA ResendStep == ASSUME FeedInv, Resend PROVE FeedInv'
<1> DEFINE kind == IF venue = "binance" THEN "delta" ELSE IF venue = "okx" THEN "alive" ELSE "snapshot"
           m == Message(kind, cursor, cursor)
<1>1. /\ UNCHANGED <<venue, hist, conn, cursor, book, syncing, buffered, rest>>
      /\ wire' = Append(wire, m) /\ cursor > 1
  BY DEF Resend
<1>2. cursor \in Nat /\ cursor <= Latest /\ HistOK
  BY DEF FeedInv, HistOK, Latest
<1>3. m.kind = kind /\ m.from = cursor /\ m.to = cursor /\ m \in Messages
  BY <1>2 DEF Message, Messages
<1>4. MsgOK(m) /\ (m.kind = "snapshot" => venue = "bybit")
  <2> HIDE DEF m
  <2> QED
    BY <1>1, <1>2, <1>3 DEF MsgOK, HistOK
<1> HIDE DEF m
<1>5. cursor' \in 0 .. Latest
  BY <1>1 DEF FeedInv
<1> QED
  BY <1>1, <1>4, <1>5, Pushed

LEMMA LosePushStep == ASSUME FeedInv, LosePush PROVE FeedInv'
<1>1. /\ UNCHANGED <<venue, hist, conn, wire, book, syncing, buffered, rest>>
      /\ cursor' = cursor + 1 /\ cursor < Latest
  BY DEF LosePush
<1>2. (cursor \in 0 .. Latest)'
  BY <1>1 DEF FeedInv, HistOK, Latest
<1> QED
  BY <1>1, <1>2 DEF FeedInv, HistOK, Exact, Known, WireOK, BufferOK, MsgOK, RestOK, SyncOK, OneMine,
                    NoneMine, Latest

LEMMA InitFeed == Init => FeedInv
<1> SUFFICES ASSUME Init PROVE FeedInv
  OBVIOUS
<1>1. hist = <<{l \in Levels : l <= SnapshotLevels}>>
  BY DEF Init
<1>2. HistOK /\ Latest = 1
  <2>1. {l \in Levels : l <= SnapshotLevels} \in SUBSET Levels
    OBVIOUS
  <2>2. hist \in Seq(SUBSET Levels) /\ Len(hist) = 1
    BY <1>1, <2>1
  <2> QED
    BY <2>2, ConstantsAssumption DEF Init, HistOK, Latest
<1>3. Exact(book) /\ ~book.ready
  BY NoBookExact DEF Init
<1>4. cursor = 0 /\ wire = <<>> /\ buffered = <<>> /\ rest = <<>> /\ syncing = FALSE /\ conn = "none"
  BY DEF Init
<1>5. WireOK /\ BufferOK /\ RestOK(rest)
  BY <1>4 DEF WireOK, BufferOK, RestOK
<1>6. SyncOK
  <2>1. OneMine(rest) /\ NoneMine(rest)
    <3>1. 1 .. Len(rest) = {}
      BY <1>4
    <3> QED
      BY <3>1 DEF OneMine, NoneMine
  <2> QED
    BY <1>3, <1>4, <2>1 DEF SyncOK
<1> QED
  BY <1>2, <1>3, <1>4, <1>5, <1>6 DEF FeedInv

LEMMA FeedStep == FeedInv /\ [Next]_vars => FeedInv'
<1> SUFFICES ASSUME FeedInv, [Next]_vars PROVE FeedInv'
  OBVIOUS
<1>0. RestOK(rest) /\ HistOK
  BY DEF FeedInv
<1>1. ASSUME Start PROVE FeedInv'
  BY <1>1, Elsewhere DEF Start, feedVars
<1>2. ASSUME Stop PROVE FeedInv'
  BY <1>0, <1>2, Disconnected DEF Stop
<1>3. ASSUME Open PROVE FeedInv'
  BY <1>3, OpenStep
<1>4. ASSUME TickStale PROVE FeedInv'
  BY <1>0, <1>4, Disconnected DEF TickStale, Fail
<1>5. ASSUME TickRefresh PROVE FeedInv'
  BY <1>0, <1>5, Disconnected DEF TickRefresh, Fail
<1>6. ASSUME SocketOpen PROVE FeedInv'
  BY <1>6, SocketOpenStep
<1>7. ASSUME RestQueueFull PROVE FeedInv'
  BY <1>0, <1>7, Disconnected DEF RestQueueFull, Fail
<1>8. ASSUME Receive PROVE FeedInv'
  BY <1>8, ReceiveStep
<1>9. ASSUME Heartbeat PROVE FeedInv'
  BY <1>9, Elsewhere DEF Heartbeat
<1>10. ASSUME SnapshotArrives PROVE FeedInv'
  BY <1>10, SnapshotArrivesStep
<1>11. ASSUME RestInCooldown PROVE FeedInv'
  BY <1>11, SnapshotFailsStep DEF RestInCooldown
<1>12. ASSUME SocketLost PROVE FeedInv'
  BY <1>0, <1>12, Disconnected DEF SocketLost, Fail
<1>13. ASSUME NEW l \in Levels, Trade(l) PROVE FeedInv'
  BY <1>13, TradeStep
<1>14. ASSUME PushNext PROVE FeedInv'
  <2>1. cursor + 1 \in Nat /\ 1 <= cursor + 1 /\ cursor + 1 <= Latest /\ Push(cursor + 1, cursor + 1)
    BY <1>0, <1>14 DEF FeedInv, PushNext, HistOK, Latest
  <2> QED
    BY <2>1, PushStep
<1>15. ASSUME PushAll PROVE FeedInv'
  <2>1. cursor + 1 \in Nat /\ Latest \in Nat /\ 1 <= cursor + 1 /\ cursor + 1 <= Latest /\ Latest <= Latest
        /\ Push(cursor + 1, Latest)
    BY <1>0, <1>15 DEF FeedInv, PushAll, HistOK, Latest
  <2> QED
    BY <2>1, PushStep
<1>16. ASSUME Resend PROVE FeedInv'
  BY <1>16, ResendStep
<1>17. ASSUME LosePush PROVE FeedInv'
  BY <1>17, LosePushStep
<1>18. ASSUME NEW v \in DOMAIN hist, RestServed(v) PROVE FeedInv'
  BY <1>18, RestServedStep
<1>19. ASSUME NEW limited \in BOOLEAN, RestRefused(limited) PROVE FeedInv'
  BY <1>19, SnapshotFailsStep DEF RestRefused
<1>20. ASSUME NEW all \in BOOLEAN, GoQuiet(all) PROVE FeedInv'
  BY <1>20, Elsewhere DEF GoQuiet
<1>21. ASSUME Age PROVE FeedInv'
  BY <1>21, Elsewhere DEF Age
<1>22. ASSUME RetryDue PROVE FeedInv'
  BY <1>22, Elsewhere DEF RetryDue
<1>23. ASSUME CooldownEnds PROVE FeedInv'
  BY <1>23, Elsewhere DEF CooldownEnds, feedVars
<1>24. ASSUME AttemptExpires PROVE FeedInv'
  BY <1>24, Elsewhere DEF AttemptExpires, feedVars
<1>25. ASSUME UNCHANGED vars PROVE FeedInv'
  BY <1>25, Elsewhere DEF vars
<1> QED
  BY <1>1, <1>2, <1>3, <1>4, <1>5, <1>6, <1>7, <1>8, <1>9, <1>10, <1>11, <1>12, <1>13, <1>14, <1>15,
     <1>16, <1>17, <1>18, <1>19, <1>20, <1>21, <1>22, <1>23, <1>24, <1>25 DEF Next

LEMMA FeedAlways == Spec => []FeedInv
<1>1. Init => FeedInv
  BY InitFeed
<1>2. FeedInv /\ [Next]_vars => FeedInv'
  BY FeedStep
<1> QED
  BY <1>1, <1>2, PTL DEF Spec

-----------------------------------------------------------------------------
(* Theorems *)

\* The depth an okx or binance feed shows as healthy is the exchange's book at
\* one version wherever the feed claims to know it (transport.ts and book.ts),
\* however pushes, snapshots, faults and reconnections interleave.
THEOREM BookIsTheExchanges == Spec => []HealthyBookIsExact
<1>1. FeedInv => HealthyBookIsExact
  BY DEF FeedInv, Exact, HealthyBookIsExact, Healthy
<1> QED
  BY <1>1, FeedAlways, PTL

\* While such a feed stays healthy its book never goes back to an older
\* version: only a snapshot does that, and it finds the book given up.
THEOREM BookMovesForward == Spec => ShownBookMovesForward
<1> DEFINE Forward == Healthy /\ Healthy' /\ venue # "bybit" => book'.seq >= book.seq
<1>1. FeedInv /\ [Next]_vars => [Forward]_vars
  <2> SUFFICES ASSUME FeedInv, [Next]_vars, Healthy, Healthy', venue # "bybit"
               PROVE  book'.seq >= book.seq
    OBVIOUS
  <2>1. book.ready /\ book'.ready /\ ~syncing /\ book.seq \in Nat
    BY DEF Healthy, FeedInv, Exact, Books
  <2>2. CASE book' = book
    BY <2>1, <2>2
  <2>3. CASE Disconnect
    BY <2>1, <2>3 DEF Disconnect, NoBook
  <2>4. CASE Receive /\ ~Disconnect
    BY <2>1, <2>4, Received
  <2>5. CASE SnapshotArrives
    <3>1. rest # <<>>
      BY <2>5 DEF SnapshotArrives
    <3>2. ~Head(rest).mine
      <4>1. rest \in Seq(RestRequests) /\ Len(rest) \in Nat /\ NoneMine(rest)
        BY <2>1 DEF FeedInv, RestOK, SyncOK
      <4>2. Head(rest) = rest[1] /\ 1 \in 1 .. Len(rest)
        BY <3>1, <4>1
      <4> QED
        BY <4>1, <4>2 DEF NoneMine
    <3>3. book' = book
      BY <2>5, <3>2 DEF SnapshotArrives, feedVars
    <3> QED
      BY <2>1, <3>3
  <2>6. book' = book \/ Disconnect \/ Receive \/ SnapshotArrives
    <3>1. \/ Start \/ Heartbeat \/ Open \/ SocketOpen
          \/ (\E l \in Levels : Trade(l)) \/ PushNext \/ PushAll \/ Resend \/ LosePush
          \/ (\E v \in DOMAIN hist : RestServed(v))
          \/ (\E all \in BOOLEAN : GoQuiet(all))
          \/ Age \/ RetryDue \/ CooldownEnds \/ AttemptExpires \/ UNCHANGED vars
          => book' = book
      BY DEF Start, Heartbeat, Open, SocketOpen, Trade, PushNext, PushAll, Push, Resend, LosePush,
             RestServed, GoQuiet, Age, RetryDue, CooldownEnds, AttemptExpires, vars, feedVars
    <3>2. Stop \/ TickStale \/ TickRefresh \/ RestQueueFull \/ SocketLost => Disconnect
      BY DEF Stop, TickStale, TickRefresh, RestQueueFull, SocketLost, Fail
    <3>3. RestInCooldown \/ (\E limited \in BOOLEAN : RestRefused(limited))
          => book' = book \/ Disconnect
      BY DEF RestInCooldown, RestRefused, SnapshotFails, Fail, feedVars
    <3> QED
      BY <3>1, <3>2, <3>3 DEF Next
  <2> QED
    BY <2>2, <2>3, <2>4, <2>5, <2>6
<1>2. Spec => [][Next]_vars
  BY PTL DEF Spec
<1> QED
  BY <1>1, <1>2, FeedAlways, PTL DEF ShownBookMovesForward

=============================================================================
