---------------------------- MODULE RadarCollector ----------------------------
(***************************************************************************)
(* Which markets the radar watches: MarketCollector and its                *)
(* SubscriptionPlanner (src/src/market-radar/collector.ts,                 *)
(* subscriptions.ts), discovery (adapters.ts), the maintenance timer of    *)
(* main.ts, the HTTP reads (http-server.ts) and the watch list they share  *)
(* with the backend (MarketRadarWatchBudget.java) in the database.         *)
(*                                                                         *)
(* A pair is a number; a larger one trades more.  Volumes and spreads      *)
(* appear as the pairs a venue "lists", those above the configured         *)
(* minimum.  Time is counted in maintenance periods of ten seconds, and a  *)
(* discovery falls due in each of them.  What a feed and an engine do is   *)
(* in MarketFeed and RadarEngine.                                          *)
(***************************************************************************)
EXTENDS Naturals, Sequences, FiniteSetsExt, SequencesExt

CONSTANTS
    Pairs,
    VenueOrder,       \* the permitted venues, the one with more volume first
    Listings(_),      \* bound: what a venue may answer, sets of pairs
    MinVenues,        \* RADAR_MINIMUM_VENUES
    VenuesPerMarket,  \* RADAR_VENUES_PER_MARKET
    Continuous,       \* RADAR_CONTINUOUS_MARKETS
    OnDemand,         \* RADAR_ON_DEMAND_MARKETS
    Ttl,              \* RADAR_INACTIVE_TTL_MS
    Lapse,            \* discoveryEveryMs * 2
    Limit,            \* wallet.market-radar.maximum-watched-pairs
    WatchTtl,         \* expires_at of a reservation
    MaxReads,         \* bound: accepted HTTP reads of a snapshot
    MaxFaults         \* bound: failed reads, evaluations, calculations

VARIABLES
    listed,      \* MarketCollector.catalog: the usable pairs of each venue
    age,         \* periods since each venue's part was discovered
    asking,      \* discover(): the venues still to ask, then "save"
    discoveryDue,\* now >= nextDiscovery
    watched,     \* SubscriptionPlanner.watched: periods left, 0 when absent
    feeds,       \* MarketCollector.feeds: venue and pair
    alerts,      \* market_radar.alert_rules: the pairs with a rule
    watches,     \* market_radar.watches: periods left, 0 when expired
    maintaining, \* the timer has read the pairs and not watched them yet
    rows,        \* the pairs it has read from the database
    ran,         \* which of the timers "compute" and "maintain" has fired in this period
    reads,       \* HTTP reads so far
    faults

collectorVars == <<listed, age, asking, discoveryDue, watched, feeds>>
databaseVars == <<alerts, watches>>
timerVars == <<maintaining, rows, ran>>
vars == <<collectorVars, databaseVars, timerVars, reads, faults>>

Venues == ToSet(VenueOrder)
Down == Lapse + 1    \* the age of a part never discovered, or too long ago

Init ==
    /\ listed = [v \in Venues |-> {}] /\ age = [v \in Venues |-> Down]
    /\ asking = <<>> /\ discoveryDue = TRUE
    /\ watched = [p \in Pairs |-> 0]
    /\ feeds = {}
    /\ alerts = {} /\ watches = [p \in Pairs |-> 0]
    /\ maintaining = FALSE /\ rows = <<>> /\ ran = {}
    /\ reads = 0 /\ faults = 0

Fault == faults < MaxFaults /\ faults' = faults + 1

-----------------------------------------------------------------------------
(* SubscriptionPlanner *)

\* The venues on which a pair can be watched now.
Group(p) == {v \in Venues : age[v] <= Lapse /\ p \in listed[v]}

Qualified == {p \in Pairs : Cardinality(Group(p)) >= MinVenues}

\* The first N members of a set in the given order.
Rank(x, S, Before(_, _)) == Cardinality({y \in S : Before(y, x)})
First(N, S, Before(_, _)) == {x \in S : Rank(x, S, Before) < N}
InOrder(S, Before(_, _)) ==
    [i \in 1 .. Cardinality(S) |-> CHOOSE x \in S : Rank(x, S, Before) = i - 1]

MoreLiquid(p, q) ==
    LET weight(r) == r * Cardinality(Group(r))
    IN  weight(p) > weight(q) \/ (weight(p) = weight(q) /\ p > q)

Permanent == First(Continuous, Qualified, MoreLiquid)

Watched(entries) == {p \in Pairs : entries[p] > 0}

\* watch(): a pair that is not watched permanently takes or keeps an entry.
Watch(entries, p) ==
    IF \/ p \notin Qualified \/ p \in Permanent
       \/ p \notin Watched(entries) /\ Cardinality(Watched(entries)) >= OnDemand
    THEN entries
    ELSE [entries EXCEPT ![p] = Ttl]

Planned == Permanent \cup (Watched(watched) \cap Qualified)

VenueRank(v) == CHOOSE i \in DOMAIN VenueOrder : VenueOrder[i] = v

Subscriptions ==
    UNION {{<<v, p>> : v \in First(VenuesPerMarket, Group(p),
                                   LAMBDA a, b : VenueRank(a) < VenueRank(b))} : p \in Planned}

-----------------------------------------------------------------------------
(* MarketCollector *)

Engines == {feed[2] : feed \in feeds}

\* tick(): a discovery is started when it is due; feeds are stopped and
\* started as planned.  The engines and snapshots are those of the same pairs.
Tick ==
    /\ ran' = ran \cup {"compute"}
    /\ UNCHANGED <<listed, age, watched, databaseVars, maintaining, rows, reads, faults>>
    /\ IF discoveryDue /\ asking = <<>>
       THEN asking' = Append(VenueOrder, "save") /\ discoveryDue' = FALSE
       ELSE UNCHANGED <<asking, discoveryDue>>
    /\ feeds' = Subscriptions

\* Both answers of a venue are in: its part of the catalog is replaced.
Discovered(v, pairs) ==
    /\ asking # <<>> /\ Head(asking) = v
    /\ asking' = Tail(asking)
    /\ listed' = [listed EXCEPT ![v] = pairs] /\ age' = [age EXCEPT ![v] = 0]
    /\ UNCHANGED <<discoveryDue, watched, feeds, databaseVars, timerVars,
                   reads, faults>>

\* Mutant: an error ends the discovery and discoveryPending stays.
DiscoveryHangs(v) ==
    /\ asking # <<>> /\ Head(asking) = v
    /\ asking' = <<"hung">>
    /\ Fault
    /\ UNCHANGED <<listed, age, discoveryDue, watched, feeds, databaseVars, timerVars, reads>>

\* A request fails or an answer cannot be read: the venue's part stays.
DiscoveryFails(v) ==
    /\ asking # <<>> /\ Head(asking) = v
    /\ asking' = Tail(asking)
    /\ Fault
    /\ UNCHANGED <<listed, age, discoveryDue, watched, feeds,
                   databaseVars, timerVars, reads>>

\* onCatalog() has saved the markets or failed; discoveryPending is reset.
DiscoveryEnds ==
    /\ asking = <<"save">>
    /\ asking' = <<>>
    /\ UNCHANGED <<listed, age, discoveryDue, watched, feeds,
                   databaseVars, timerVars, reads, faults>>

-----------------------------------------------------------------------------
(* The maintenance timer of main.ts *)

\* evaluateDue is done and the rows are read: pairs with an alert rule come
\* before pairs that a reader watches.
Earlier(p, q) == (p \in alerts /\ q \notin alerts) \/ ((p \in alerts <=> q \in alerts) /\ p < q)

MaintainRead ==
    /\ ~maintaining /\ "maintain" \notin ran
    /\ maintaining' = TRUE /\ ran' = ran \cup {"maintain"}
    /\ rows' = InOrder(First(OnDemand, alerts \cup Watched(watches), Earlier), Earlier)
    /\ UNCHANGED <<collectorVars, databaseVars, reads, faults>>

\* A query fails: the rest of the run is skipped.
MaintainFails ==
    /\ "maintain" \notin ran /\ Fault
    /\ ran' = ran \cup {"maintain"}
    /\ UNCHANGED <<collectorVars, databaseVars, maintaining, rows, reads>>

\* The entries after the first i rows.
WatchedAfter[i \in 0 .. Len(rows)] ==
    IF i = 0 THEN watched ELSE Watch(WatchedAfter[i - 1], rows[i])

\* watch() is called for one row after the other without a pause.
MaintainWatch ==
    /\ maintaining
    /\ maintaining' = FALSE /\ rows' = <<>>
    /\ watched' = WatchedAfter[Len(rows)]
    /\ UNCHANGED <<listed, age, asking, discoveryDue, feeds, databaseVars,
                   ran, reads, faults>>

-----------------------------------------------------------------------------
(* HTTP reads and the backend *)

\* GET /snapshot watches the pair it is asked for, whether it can serve it or not.
Request(p) ==
    /\ reads < MaxReads /\ reads' = reads + 1
    /\ watched' = Watch(watched, p)
    /\ UNCHANGED <<listed, age, asking, discoveryDue, feeds,
                   databaseVars, timerVars, faults>>

Active == alerts \cup Watched(watches)

\* Mutant: readers do not count the pairs with an alert rule.
ReservableBesideAlerts(p) == Cardinality({q \in Pairs \ {p} : watches[q] > 0}) < Limit

\* MarketRadarWatchBudget.reserve: counted and inserted under one lock.
Reservable(p) == Cardinality(Active \ {p}) < Limit

Reserve(p, alert) ==
    /\ Reservable(p)
    /\ watches' = [watches EXCEPT ![p] = WatchTtl]
    /\ alerts' = IF alert THEN alerts \cup {p} ELSE alerts
    /\ UNCHANGED <<collectorVars, timerVars, reads, faults>>

DeleteAlert(p) ==
    /\ p \in alerts
    /\ alerts' = alerts \ {p}
    /\ UNCHANGED <<collectorVars, watches, timerVars, reads, faults>>

-----------------------------------------------------------------------------
(* Time *)

Less(n) == IF n > 0 THEN n - 1 ELSE 0

\* Mutant: entries do not expire.
EntriesKept(entries) == entries

\* expire(): plan() and watch() drop the entries whose time has come.
Expired(entries) == [p \in Pairs |-> Less(entries[p])]

\* A period passes.  Both timers have fired in it and their work is done.
Elapse ==
    /\ ran = {"compute", "maintain"} /\ ~maintaining
    /\ ran' = {} /\ discoveryDue' = TRUE
    /\ watched' = Expired(watched)
    /\ watches' = [p \in Pairs |-> Less(watches[p])]
    /\ age' = [v \in Venues |-> Min({age[v] + 1, Down})]
    /\ UNCHANGED <<listed, asking, feeds, alerts, maintaining, rows, reads, faults>>

\* SIGTERM or a crash, and a new process: the database is what stays.
Restart ==
    /\ Fault
    /\ listed' = [v \in Venues |-> {}] /\ age' = [v \in Venues |-> Down]
    /\ asking' = <<>> /\ discoveryDue' = TRUE
    /\ watched' = [p \in Pairs |-> 0]
    /\ feeds' = {}
    /\ maintaining' = FALSE /\ rows' = <<>> /\ ran' = {}
    /\ UNCHANGED <<databaseVars, reads>>

Discovery ==
    \/ \E v \in Venues : \E pairs \in Listings(v) : Discovered(v, pairs)
    \/ DiscoveryEnds

Maintenance == MaintainRead \/ MaintainWatch

Next ==
    \/ Tick \/ Discovery \/ \E v \in Venues : DiscoveryFails(v)
    \/ Maintenance \/ MaintainFails
    \/ \E p \in Pairs : Request(p) \/ DeleteAlert(p)
    \/ \E p \in Pairs, alert \in BOOLEAN : Reserve(p, alert)
    \/ Elapse \/ Restart

FirstTick == "compute" \notin ran /\ Tick

\* The two timers fire in every period and what they await is answered; nobody
\* has to read.
Fairness == WF_vars(FirstTick) /\ WF_vars(Discovery) /\ WF_vars(Maintenance) /\ WF_vars(Elapse)

Spec == Init /\ [][Next]_vars /\ Fairness

-----------------------------------------------------------------------------
(* Properties *)

TypeOK ==
    /\ \A v \in Venues : listed[v] \subseteq Pairs /\ age[v] \in 0 .. Down
    /\ feeds \subseteq Venues \X Pairs
    /\ watched \in [Pairs -> 0 .. Ttl] /\ watches \in [Pairs -> 0 .. WatchTtl]
    /\ maintaining \in BOOLEAN /\ ran \subseteq {"compute", "maintain"} /\ ToSet(rows) \subseteq Pairs
    /\ reads \in 0 .. MaxReads /\ faults \in 0 .. MaxFaults

\* However reads, alert rules, discoveries and expiries interleave, the feeds
\* stay within the configured number of markets and of venues per market.
FeedsWithinBudget ==
    /\ Cardinality(Engines) <= Continuous + OnDemand
    /\ \A p \in Engines : Cardinality({f \in feeds : f[2] = p}) \in MinVenues .. VenuesPerMarket

\* The pairs promised to readers and to alert rules never exceed the limit.
PromisesWithinLimit == Cardinality(Active) <= Limit

\* Both budgets of the radar hold: the collector's feeds and the backend's promises.
BudgetsHold == FeedsWithinBudget /\ PromisesWithinLimit

\* A pair with an alert rule is watched by feeds again and again as long as
\* the rule stands and the market qualifies: neither readers that came first
\* nor a restart keep it out for ever.
AlertIsWatched ==
    \A p \in Pairs : <>[](p \in alerts /\ p \in Qualified) => []<>(p \in Engines)

\* Failed discoveries and restarts do not leave a venue out for ever.
CatalogRecovers == \A v \in Venues : []<>(age[v] <= Lapse)
=============================================================================
