----------------------------- MODULE RadarEngine -----------------------------
(***************************************************************************)
(* How the radar turns order books into zones: StructuralEngine.calculate  *)
(* (src/src/market-radar/engine.ts) on its supply side; the demand side    *)
(* mirrors it.                                                             *)
(*                                                                         *)
(* Prices are counted in bands.  A band of a venue's book holds nothing,   *)
(* thin liquidity or a wall, which is wallRatio times the median and more  *)
(* than three times the thin one.  The score of a zone is arithmetic over  *)
(* what is modelled and is left out, and with it the lifecycles that only  *)
(* a change of the score brings.  Time is counted in computing intervals.  *)
(***************************************************************************)
EXTENDS Naturals, FiniteSetsExt

CONSTANTS
    Venues, None,
    Bands,         \* bound: the bands looked at, 1 .. n
    MinVenues,     \* RADAR_MINIMUM_VENUES
    MinHistory,    \* RADAR_MINIMUM_HISTORY_MS
    Gap,           \* computeEveryMs * 3
    History,       \* RADAR_HISTORY_MS
    MaxTime,       \* bound: the clock
    MaxChanges,    \* bound: what the markets do
    MaxSuspicion   \* cancellations after which the reliability is 0

VARIABLES
    now,
    price,       \* the reference price, as a band
    book,        \* what the feed of a venue shows in a band
    healthy,     \* the venues that qualify
    flying,      \* an execution at a venue the collector has not heard of yet
    fills,       \* exchange times of the taker trades received, per venue and band
    lastAt,      \* StructuralEngine.lastAt
    lastPrice,   \* StructuralEngine.lastPrice
    walls,       \* StructuralEngine.walls
    zones,       \* StructuralEngine.previous: by the lowest band
    shown,       \* the supply zones of the last snapshot
    run,         \* ghost: since when a wall was there at every calculation
    heard,       \* ghost: walls whose executions arrived since the last one
    changes

market == <<price, book, healthy, flying, fills, heard>>
engine == <<lastAt, lastPrice, walls, zones, shown, run>>
vars == <<now, market, engine, changes>>

Thin == 1
Wall == 4
Places == Venues \X Bands

Init ==
    /\ now = 1 /\ price = 1
    /\ book = [x \in Places |-> Thin] /\ healthy = Venues
    /\ flying = None /\ fills = [x \in Places |-> {}] /\ heard = {}
    /\ lastAt = 0 /\ lastPrice = None
    /\ walls = [x \in Places |-> None] /\ zones = [b \in Bands |-> None] /\ shown = {}
    /\ run = [x \in Places |-> None]
    /\ changes = 0

-----------------------------------------------------------------------------
(* One calculation *)

Price == IF healthy = {} THEN None ELSE price
Executed(x) == x[1] \in healthy /\ \E t \in fills[x] : t > lastAt
Remembered(x) == walls[x] # None
Standing(x) == Remembered(x) /\ walls[x].concentrated

\* A range the price has left below is no supply; one it has entered is only
\* an existing zone under test.
Seen(x) ==
    /\ x[1] \in healthy /\ book[x] > 0
    /\ x[2] > price \/ (x[2] = price /\ Standing(x))
    /\ book[x] = Wall \/ Remembered(x)

Concentrated(x) == Seen(x) /\ book[x] = Wall

Continuous(x) ==
    /\ Standing(x) /\ book[x] = Wall
    /\ walls[x].notional > 0 /\ now - walls[x].lastAt <= Gap

\* A wall of a similar size has gone from a lower range as the price rose.
Moved(x) ==
    /\ ~Continuous(x) /\ lastPrice # None /\ Price > lastPrice
    /\ \E y \in Places :
           /\ y[1] = x[1] /\ y[2] < x[2] /\ x[2] <= y[2] + 4 /\ Remembered(y)
           /\ 3 * (now - walls[y].lastAt) <= 2 * Gap
           /\ 5 * book[y] < walls[y].peak
           /\ walls[y].peak < 2 * book[x] /\ 2 * walls[y].peak > book[x]

Suspicion(n) == Min({n, MaxSuspicion})

Shrunk(x) == walls[x].notional > 3 * book[x] /\ ~Executed(x)

UpdatedWall(x) ==
    LET before == IF Remembered(x) THEN walls[x].cancellations ELSE 0
        moved  == IF Moved(x) THEN 2 ELSE 0
        shrunk == IF Remembered(x) /\ Shrunk(x) THEN 1 ELSE 0
    IN  [firstAt |-> IF Continuous(x) THEN walls[x].firstAt ELSE now,
         lastAt |-> now, notional |-> book[x],
         peak |-> IF Remembered(x) THEN Max({walls[x].peak, book[x]}) ELSE book[x],
         cancellations |-> Suspicion(before + moved + shrunk),
         concentrated |-> book[x] = Wall]

\* Mutant: an absent wall is left as it was.
AbsentForgiven(x) == IF now - walls[x].lastAt > History THEN None ELSE walls[x]

\* A wall that is not there any more was cancelled, unless trades ate it.
AbsentWall(x) ==
    LET w == walls[x]
    IN  IF now - w.lastAt > History THEN None
        ELSE IF now - w.lastAt <= Gap /\ w.notional > 0
        THEN [w EXCEPT !.notional = 0, !.concentrated = FALSE,
                       !.cancellations = IF Executed(x) THEN @ ELSE Suspicion(@ + 1)]
        ELSE w

NextWalls ==
    [x \in Places |-> IF Seen(x) THEN UpdatedWall(x)
                      ELSE IF Remembered(x) THEN AbsentWall(x) ELSE None]

Enough == Cardinality(healthy) >= MinVenues /\ now > MinHistory

\* Neighbouring bands are merged two by two, from the lowest one.
Held(b) == \E v \in Venues : Concentrated(<<v, b>>)
Anchor[b \in Bands] == Held(b) /\ ~(b > 1 /\ Anchor[b - 1])
Members(b) == {x \in Places : Concentrated(x) /\ x[2] \in {b, b + 1}}

Zone(b) ==
    LET first == Max({NextWalls[x].firstAt : x \in Members(b)})
    IN  [top |-> Max({x[2] : x \in Members(b)}), firstAt |-> first, at |-> now,
         lifecycle |-> IF b <= price + 1 THEN "UNDER_TEST"
                       ELSE IF now - first < MinHistory THEN "FORMING" ELSE "ACTIVE"]

\* A zone that is no longer current is shown as a previous one for a while.
PreviousZone(b) ==
    [zones[b] EXCEPT !.lifecycle = IF Price # None /\ price > zones[b].top THEN "BROKEN"
                                   ELSE IF ~Enough THEN "STALE" ELSE "WEAKENING"]

NextZones(current) ==
    [b \in Bands |-> IF b \in current THEN Zone(b)
                     ELSE IF zones[b] = None \/ now - zones[b].at > History THEN None
                     ELSE PreviousZone(b)]

Calculate ==
    LET current == {b \in Bands : Enough /\ Anchor[b]}
    IN  /\ now > lastAt
        /\ walls' = NextWalls
        /\ zones' = NextZones(current) /\ shown' = current
        /\ lastAt' = now /\ lastPrice' = Price
        /\ run' = [x \in Places |-> IF ~Concentrated(x) THEN None
                                    ELSE IF run[x] # None /\ now - lastAt <= Gap THEN run[x]
                                    ELSE now]
        /\ heard' = {}
        /\ UNCHANGED <<now, price, book, healthy, flying, fills, changes>>

-----------------------------------------------------------------------------
(* The markets *)

Change == changes < MaxChanges /\ changes' = changes + 1

Requote(x, level) ==
    /\ Change /\ x[2] >= price /\ level # book[x]
    /\ book' = [book EXCEPT ![x] = level]
    /\ UNCHANGED <<now, price, healthy, flying, fills, heard, engine>>

\* The asks the price has passed are gone.
PriceMoves(p) ==
    /\ Change /\ p # price
    /\ price' = p
    /\ book' = [x \in Places |-> IF x[2] < p THEN 0 ELSE book[x]]
    /\ UNCHANGED <<now, healthy, flying, fills, heard, engine>>

HealthChanges(v) ==
    /\ Change
    /\ healthy' = IF v \in healthy THEN healthy \ {v} ELSE healthy \cup {v}
    /\ UNCHANGED <<now, price, book, flying, fills, heard, engine>>

\* Takers buy a wall up; the trades and the new book are under way.
Execute(x) ==
    /\ Change /\ flying = None /\ book[x] = Wall
    /\ flying' = [place |-> x, at |-> now]
    /\ UNCHANGED <<now, price, book, healthy, fills, heard, engine>>

Receive ==
    /\ flying # None
    /\ flying' = None
    /\ book' = [book EXCEPT ![flying.place] = Min({@, Thin})]
    /\ fills' = [fills EXCEPT ![flying.place] = @ \cup {flying.at}]
    /\ heard' = heard \cup {flying.place}
    /\ UNCHANGED <<now, price, healthy, engine, changes>>

Tick ==
    /\ now < MaxTime
    /\ now' = now + 1
    /\ UNCHANGED <<market, engine, changes>>

Next ==
    \/ Calculate \/ Tick \/ Receive
    \/ \E x \in Places, level \in {0, Thin, Wall} : Requote(x, level)
    \/ \E p \in Bands : PriceMoves(p)
    \/ \E v \in Venues : HealthChanges(v)
    \/ \E x \in Places : Execute(x)

Spec == Init /\ [][Next]_vars

-----------------------------------------------------------------------------
(* Properties *)

TypeOK ==
    /\ now \in 1 .. MaxTime /\ lastAt \in 0 .. now /\ price \in Bands
    /\ book \in [Places -> {0, Thin, Wall}] /\ healthy \subseteq Venues
    /\ \A x \in Places : Remembered(x) =>
           walls[x].firstAt <= walls[x].lastAt /\ walls[x].cancellations \in 0 .. MaxSuspicion
    /\ shown \subseteq Bands /\ \A b \in shown : zones[b] # None

\* A zone is never said to be older than the shortest time for which every
\* wall in it stood at each calculation: falling below the threshold, an
\* absence, an outage of the venue and a pause of the collector all count.
PersistenceIsObserved ==
    \A b \in shown : \A x \in Places :
        run[x] # None /\ x[2] \in b .. zones[b].top => zones[b].firstAt >= run[x]

\* A wall that takers bought up since the last calculation is not counted as
\* cancelled: "Executed consumption is not penalized as cancellation".
ConsumptionIsNotPenalised ==
    [][\A x \in heard : Remembered(x) /\ walls'[x] # None /\ ~Moved(x) =>
           walls'[x].cancellations <= walls[x].cancellations]_vars
=============================================================================
