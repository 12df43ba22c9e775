----------------------------- MODULE MarketFeed -----------------------------
(***************************************************************************)
(* One market feed of the radar (src/src/market-radar/transport.ts), the   *)
(* order book it rebuilds (book.ts), the messages it reads (adapters.ts)   *)
(* and the exchange at the other end of its socket.                        *)
(*                                                                         *)
(* One side of the book is modelled, bids and asks are handled alike: a    *)
(* content is the set of price levels that hold a quantity, 1 the best.    *)
(* Versions of the exchange's book are numbered, and a delta is the range  *)
(* of versions it carries.  Clocks are flags: "silent" (no message for     *)
(* staleMs), "old" (the newest book time is older than staleMs), "aged"    *)
(* (the socket is older than a refresh period), "waiting" (the reconnect   *)
(* delay runs), "blocked" (the REST cooldown runs).  The generation number *)
(* only tells the present socket's snapshot request from earlier ones, so  *)
(* a request carries "mine", cleared when the generation moves on.         *)
(***************************************************************************)
EXTENDS Naturals, Sequences, FiniteSetsExt

CONSTANTS
    Venues,          \* the exchanges a feed may belong to
    Levels,          \* price levels, 1..n, 1 the best
    SnapshotLevels,  \* levels a REST snapshot carries (limit=1000 in the code)
    MaxBuffered,     \* config.maxBufferedDeltas
    MaxPending,      \* the REST queue's limit (64 in the code)
    PerMinute,       \* config.reconnectPerMinute
    MaxUpdates,      \* bound: changes of the exchange's book
    MaxFaults        \* bound: lost pushes, refusals, lags, silences

ASSUME ConstantsAssumption == Venues \subseteq {"binance", "okx", "bybit"} /\ SnapshotLevels \in Nat

\* There is a highest level.
ASSUME LevelsAssumption == \E n \in Levels : n \in Nat /\ Levels \subseteq 1 .. n

VARIABLES
    venue,      \* this.instrument.venue
    hist,       \* contents of the exchange's book, one per version
    conn,       \* "none", "connecting" or "open": this.socket
    wire,       \* messages under way to the socket, in order
    cursor,     \* last version the exchange has put on this socket
    running,    \* start() was called and stop() was not
    waiting,    \* now < retryAt
    silent,     \* now - lastMessage > staleMs
    old,        \* now - (newest book time) > staleMs
    aged,       \* now - openedAt > 300000
    book,       \* this.book
    syncing,    \* this.syncing
    buffered,   \* this.buffered
    rest,       \* VenueRequestBudget.chain: requests, the first one under way
    blocked,    \* now < blockedUntil
    tries,      \* connection attempts of the last minute
    faults      \* faults so far (bound)

feedVars == <<conn, wire, cursor, waiting, silent, old, aged, book, syncing, buffered>>
vars == <<venue, hist, conn, wire, cursor, running, waiting, silent, old, aged,
          book, syncing, buffered, rest, blocked, tries, faults>>

Latest == Len(hist)
NoBook == [ready |-> FALSE, levels |-> {}, seq |-> 0, boundary |-> 0]

\* Versions from..to as one push; a snapshot carries the content of "to", an
\* okx keep-alive repeats the last version and carries nothing.
Message(kind, from, to) == [kind |-> kind, from |-> from, to |-> to]

-----------------------------------------------------------------------------
(* book.ts *)

Changed(m) == {l \in Levels : \E v \in m.from .. m.to :
                   (l \in hist[v]) # (l \in hist[v - 1])}

\* Binance levels beyond the first snapshot's last level are not known.
Known(b) == IF venue = "binance" THEN {l \in Levels : l <= b.boundary} ELSE Levels

Duplicate(b, m) ==
    /\ b.ready /\ m.kind # "snapshot"
    /\ CASE venue = "binance" -> m.to <= b.seq
         [] venue = "okx"     -> m.kind = "alive" /\ b.seq = m.to
         [] OTHER             -> m.to = b.seq

\* Mutant: the binance check of the first update id dropped.
OutOfSequenceUnchecked(b, m) ==
    m.kind # "snapshot" /\ ~Duplicate(b, m) /\ (~b.ready \/ (venue = "bybit" /\ m.to < b.seq))

OutOfSequence(b, m) ==
    /\ m.kind # "snapshot" /\ ~Duplicate(b, m)
    /\ \/ ~b.ready
       \/ venue = "binance" /\ m.from > b.seq + 1
       \/ venue = "okx" /\ (m.kind = "alive" \/ m.from - 1 # b.seq)
       \/ venue = "bybit" /\ m.to < b.seq

\* A snapshot replaces the book, a delta changes the levels it names.
Updated(b, m) ==
    IF m.kind = "snapshot"
    THEN [ready |-> TRUE, levels |-> hist[m.to], seq |-> m.to, boundary |-> 0]
    ELSE LET named == Changed(m) \cap Known(b)
         IN  [b EXCEPT !.levels = (@ \ named) \cup (hist[m.to] \cap named), !.seq = m.to]

\* Nothing left, or for binance the best level has reached the boundary.
Unusable(b) ==
    \/ b.levels = {}
    \/ venue = "binance" /\ \A l \in b.levels : l >= b.boundary

Apply(b, m) ==
    IF Duplicate(b, m) THEN b
    ELSE IF OutOfSequence(b, m) \/ Unusable(Updated(b, m)) THEN NoBook
    ELSE Updated(b, m)

\* The REST answer at version v: the best SnapshotLevels levels and no more.
RestBook(v) ==
    LET best == {l \in hist[v] : Cardinality({k \in hist[v] : k <= l}) <= SnapshotLevels}
        b    == [ready |-> TRUE, levels |-> best, seq |-> v, boundary |-> Max(best)]
    IN  IF Unusable(b) THEN NoBook ELSE b

\* for (const delta of this.buffered) this.book.apply(delta)
Replayed(b) ==
    LET after[n \in 0 .. Len(buffered)] ==
            IF n = 0 THEN b ELSE Apply(after[n - 1], buffered[n])
    IN  after[Len(buffered)]

-----------------------------------------------------------------------------
(* The feed *)

Init ==
    /\ venue \in Venues
    /\ hist = <<{l \in Levels : l <= SnapshotLevels}>>
    /\ conn = "none" /\ wire = <<>> /\ cursor = 0
    /\ running = FALSE /\ waiting = FALSE
    /\ silent = FALSE /\ old = FALSE /\ aged = FALSE
    /\ book = NoBook /\ syncing = FALSE /\ buffered = <<>>
    /\ rest = <<>> /\ blocked = FALSE /\ tries = 0 /\ faults = 0

\* The generation moves on: the requests under way are no longer this socket's.
Disown(queue) == [i \in DOMAIN queue |-> [queue[i] EXCEPT !.mine = FALSE]]

\* Without a socket the clocks of the last one mean nothing.
Disconnect ==
    /\ conn' = "none" /\ wire' = <<>> /\ cursor' = 0
    /\ aged' = FALSE /\ silent' = FALSE /\ old' = FALSE
    /\ book' = NoBook /\ syncing' = FALSE /\ buffered' = <<>>

\* fail(): disconnect and wait before the next attempt.
Fail == Disconnect /\ waiting' = TRUE

Start ==
    /\ ~running
    /\ running' = TRUE
    /\ UNCHANGED <<feedVars, venue, hist, rest, blocked, tries, faults>>

Stop ==
    /\ running
    /\ running' = FALSE
    /\ Disconnect
    /\ rest' = Disown(rest)
    /\ UNCHANGED <<venue, hist, waiting, blocked, tries, faults>>

\* tick() without a socket: budget.reserve, then open().
Open ==
    /\ running /\ conn = "none" /\ ~waiting /\ tries < PerMinute
    /\ tries' = tries + 1
    /\ conn' = "connecting"
    /\ silent' = FALSE /\ aged' = FALSE
    /\ rest' = Disown(rest)
    /\ UNCHANGED <<venue, hist, wire, cursor, running, waiting, old, book, syncing,
                   buffered, blocked, faults>>

TickStale ==
    /\ running /\ conn # "none"
    /\ silent \/ (book.ready /\ old)
    /\ Fail
    /\ rest' = Disown(rest)
    /\ UNCHANGED <<venue, hist, running, blocked, tries, faults>>

\* Undetectable discontinuities of bybit are bounded by a fresh snapshot.
TickRefresh ==
    /\ running /\ conn # "none" /\ venue = "bybit" /\ aged
    /\ ~(silent \/ (book.ready /\ old))
    /\ Fail
    /\ rest' = Disown(rest)
    /\ UNCHANGED <<venue, hist, running, blocked, tries, faults>>

\* What the subscription makes the exchange send first: binance has only the
\* changes, the other two begin with a snapshot.
FirstPush == IF venue = "binance" THEN <<>> ELSE <<Message("snapshot", Latest, Latest)>>

\* socket.on("open"): subscribe; binance also asks for a snapshot over REST,
\* which is refused at once when the queue is full.
SocketOpen ==
    /\ conn = "connecting"
    /\ conn' = "open" /\ cursor' = Latest /\ wire' = FirstPush
    /\ \/ venue # "binance" /\ UNCHANGED <<rest, syncing>>
       \/ /\ venue = "binance" /\ Len(rest) < MaxPending
          /\ syncing' = TRUE
          /\ rest' = Append(rest, [mine |-> TRUE, v |-> 0])
    /\ UNCHANGED <<venue, hist, running, waiting, silent, old, aged, book, buffered, blocked,
                   tries, faults>>

RestQueueFull ==
    /\ conn = "connecting" /\ venue = "binance" /\ Len(rest) >= MaxPending
    /\ Fail
    /\ rest' = Disown(rest)
    /\ UNCHANGED <<venue, hist, running, blocked, tries, faults>>

\* socket.on("message").  A book message that is late, that does not fit the
\* buffer or that the book rejects ends the connection.
Receive ==
    /\ conn = "open" /\ wire # <<>>
    /\ LET m      == Head(wire)
           buffer == syncing /\ m.kind = "delta"
           next   == Apply(book, m)
       IN  IF IF buffer THEN Len(buffered) >= MaxBuffered ELSE ~next.ready
           THEN Fail /\ rest' = Disown(rest)
           ELSE /\ wire' = Tail(wire)
                /\ silent' = FALSE
                /\ book' = IF buffer THEN book ELSE next
                /\ buffered' = IF buffer THEN Append(buffered, m) ELSE buffered
                /\ old' = IF ~buffer /\ Duplicate(book, m) /\ m.kind # "alive"
                          THEN old ELSE FALSE
                /\ UNCHANGED <<conn, cursor, waiting, aged, syncing, rest>>
    /\ UNCHANGED <<venue, hist, running, blocked, tries, faults>>

\* A ping, a trade or an acknowledgement: only lastMessage moves.
Heartbeat ==
    /\ conn = "open" /\ silent
    /\ silent' = FALSE
    /\ UNCHANGED <<conn, wire, cursor, waiting, old, aged, book, syncing, buffered, venue,
                   hist, running, rest, blocked, tries, faults>>

\* Mutant: the generation is not compared.
SnapshotOfAnySocket ==
    /\ rest # <<>> /\ Head(rest).v > 0
    /\ LET synced == Replayed(RestBook(Head(rest).v))
       IN  /\ book' = synced /\ syncing' = FALSE /\ buffered' = <<>>
           /\ old' = (old /\ synced.seq > Head(rest).v)
    /\ rest' = Tail(rest)
    /\ UNCHANGED <<conn, wire, cursor, waiting, aged, venue, hist, running, silent, blocked,
                   tries, faults>>

\* then() of the snapshot request: ignored unless the generation is the same.
SnapshotArrives ==
    /\ rest # <<>> /\ Head(rest).v > 0
    /\ LET request == Head(rest)
           synced  == Replayed(RestBook(request.v))
       IN  IF ~request.mine
           THEN rest' = Tail(rest) /\ UNCHANGED feedVars
           ELSE IF ~synced.ready
           THEN Fail /\ rest' = Disown(Tail(rest))
           ELSE /\ book' = synced /\ syncing' = FALSE /\ buffered' = <<>>
                /\ rest' = Tail(rest)
                /\ old' = (old /\ synced.seq > request.v)
                /\ UNCHANGED <<conn, wire, cursor, waiting, silent, aged>>
    /\ UNCHANGED <<venue, hist, running, blocked, tries, faults>>

\* catch() of the snapshot request: a refusal, a time-out or a bad answer.
SnapshotFails(limited) ==
    /\ blocked' = (blocked \/ limited)
    /\ IF Head(rest).mine
       THEN Fail /\ rest' = Disown(Tail(rest))
       ELSE rest' = Tail(rest) /\ UNCHANGED feedVars
    /\ UNCHANGED <<venue, hist, running, tries>>

\* Mutant: the refusal in the cooldown is not handled.
RestForgotten ==
    /\ rest # <<>> /\ Head(rest).v = 0 /\ blocked
    /\ rest' = Tail(rest)
    /\ UNCHANGED <<feedVars, venue, hist, running, blocked, tries, faults>>

RestInCooldown ==
    /\ rest # <<>> /\ Head(rest).v = 0 /\ blocked
    /\ SnapshotFails(FALSE)
    /\ UNCHANGED faults

\* The socket fails or closes: on("error"), on("close") and connect() throwing.
SocketLost ==
    /\ conn # "none" /\ faults < MaxFaults
    /\ faults' = faults + 1
    /\ Fail
    /\ rest' = Disown(rest)
    /\ UNCHANGED <<venue, hist, running, blocked, tries>>

-----------------------------------------------------------------------------
(* The exchange and the clocks *)

\* A level appears or disappears; a traded market keeps two levels at least.
Trade(l) ==
    /\ Latest <= MaxUpdates
    /\ LET now == hist[Latest]
           new == IF l \in now THEN now \ {l} ELSE now \cup {l}
       IN  Cardinality(new) >= 2 /\ hist' = Append(hist, new)
    /\ UNCHANGED <<feedVars, venue, running, rest, blocked, tries, faults>>

Subscribed == conn = "open" /\ Len(wire) < 2

\* The next push covers one version or, on binance, all that are due.
Push(from, to) ==
    /\ Subscribed /\ cursor < to
    /\ wire' = Append(wire, Message("delta", from, to))
    /\ cursor' = to
    /\ UNCHANGED <<venue, hist, conn, running, waiting, silent, old, aged, book, syncing,
                   buffered, rest, blocked, tries, faults>>

PushNext == Push(cursor + 1, cursor + 1) /\ cursor < Latest
PushAll == venue = "binance" /\ cursor + 1 < Latest /\ Push(cursor + 1, Latest)

\* Binance may send a push that overlaps what the snapshot already holds;
\* okx sends keep-alives; bybit may send a whole snapshot at any time.
Resend ==
    /\ Subscribed /\ cursor > 1 /\ cursor = Latest /\ faults < MaxFaults
    /\ faults' = faults + 1
    /\ wire' = Append(wire,
         CASE venue = "binance" -> Message("delta", cursor, cursor)
           [] venue = "okx"     -> Message("alive", cursor, cursor)
           [] OTHER             -> Message("snapshot", cursor, cursor))
    /\ UNCHANGED <<venue, hist, conn, cursor, running, waiting, silent, old, aged, book,
                   syncing, buffered, rest, blocked, tries>>

\* A push is lost before it reaches the socket.
LosePush ==
    /\ conn = "open" /\ cursor < Latest /\ faults < MaxFaults
    /\ faults' = faults + 1
    /\ cursor' = cursor + 1
    /\ UNCHANGED <<venue, hist, conn, wire, running, waiting, silent, old, aged, book,
                   syncing, buffered, rest, blocked, tries>>

\* The exchange answers the request under way with its book at version v; an
\* answer may lag behind the stream.
RestServed(v) ==
    /\ rest # <<>> /\ Head(rest).v = 0 /\ ~blocked
    /\ v = Latest \/ (v < Latest /\ faults < MaxFaults)
    /\ faults' = IF v < Latest THEN faults + 1 ELSE faults
    /\ rest' = [rest EXCEPT ![1].v = v]
    /\ UNCHANGED <<feedVars, venue, hist, running, blocked, tries>>

RestRefused(limited) ==
    /\ rest # <<>> /\ Head(rest).v = 0 /\ ~blocked /\ faults < MaxFaults
    /\ faults' = faults + 1
    /\ SnapshotFails(limited)

\* Nothing is due on this socket and no answer is awaited.
Idle == /\ conn = "open" /\ wire = <<>> /\ cursor = Latest
        /\ \A i \in DOMAIN rest : ~rest[i].mine

\* staleMs pass without a message (or with pings and trades only).  While
\* something is due this is a delay of the network and counts as a fault.
GoQuiet(all) ==
    /\ conn # "none" /\ (~old \/ (all /\ ~silent))
    /\ Idle \/ faults < MaxFaults
    /\ faults' = IF Idle THEN faults ELSE faults + 1
    /\ old' = TRUE
    /\ silent' = (silent \/ all)
    /\ UNCHANGED <<conn, wire, cursor, waiting, aged, book, syncing, buffered, venue, hist,
                   running, rest, blocked, tries>>

Age ==
    /\ venue = "bybit" /\ Idle /\ ~aged
    /\ aged' = TRUE
    /\ UNCHANGED <<venue, hist, conn, wire, cursor, running, waiting, silent, old, book,
                   syncing, buffered, rest, blocked, tries, faults>>

RetryDue ==
    /\ waiting
    /\ waiting' = FALSE
    /\ UNCHANGED <<venue, hist, conn, wire, cursor, running, silent, old, aged, book,
                   syncing, buffered, rest, blocked, tries, faults>>

CooldownEnds ==
    /\ blocked
    /\ blocked' = FALSE
    /\ UNCHANGED <<feedVars, venue, hist, running, rest, tries, faults>>

\* The oldest attempt is more than a minute ago.
AttemptExpires ==
    /\ tries > 0
    /\ tries' = tries - 1
    /\ UNCHANGED <<feedVars, venue, hist, running, rest, blocked, faults>>

Next ==
    \/ Start \/ Stop \/ Open \/ TickStale \/ TickRefresh
    \/ SocketOpen \/ RestQueueFull \/ Receive \/ Heartbeat
    \/ SnapshotArrives \/ RestInCooldown \/ SocketLost
    \/ \E l \in Levels : Trade(l)
    \/ PushNext \/ PushAll \/ Resend \/ LosePush
    \/ \E v \in DOMAIN hist : RestServed(v)
    \/ \E limited \in BOOLEAN : RestRefused(limited)
    \/ \E all \in BOOLEAN : GoQuiet(all)
    \/ Age \/ RetryDue \/ CooldownEnds \/ AttemptExpires

Timer == Open \/ TickStale \/ TickRefresh
SocketEvent == SocketOpen \/ RestQueueFull \/ Receive
RestChain == SnapshotArrives \/ RestInCooldown \/ RestServed(Latest)

\* The feed's one-second timer, its socket and its request chain keep running,
\* time passes and the exchange sends and answers what is due.
Fairness ==
    /\ WF_vars(Timer) /\ WF_vars(SocketEvent) /\ WF_vars(RestChain) /\ WF_vars(PushNext)
    /\ WF_vars(Age) /\ WF_vars(RetryDue) /\ WF_vars(CooldownEnds) /\ WF_vars(AttemptExpires)

Spec == Init /\ [][Next]_vars /\ Fairness

-----------------------------------------------------------------------------
(* Properties *)

\* state().healthy
Healthy == book.ready /\ ~syncing /\ ~old

Versions == 1 .. MaxUpdates + 1
TypeOK ==
    /\ venue \in Venues
    /\ \A v \in DOMAIN hist : hist[v] \subseteq Levels
    /\ conn \in {"none", "connecting", "open"}
    /\ \A i \in DOMAIN wire :
           wire[i] \in [kind : {"delta", "snapshot", "alive"}, from : Versions, to : Versions]
    /\ cursor \in 0 .. MaxUpdates + 1
    /\ {running, waiting, silent, old, aged, syncing, blocked} \subseteq BOOLEAN
    /\ book \in [ready : BOOLEAN, levels : SUBSET Levels, seq : 0 .. MaxUpdates + 1,
                 boundary : Levels \cup {0}]
    /\ Len(buffered) <= MaxBuffered
    /\ Len(rest) <= MaxPending
    /\ tries \in 0 .. PerMinute /\ faults \in 0 .. MaxFaults

\* The depth the engine is shown as healthy is the exchange's own book at one
\* version, level by level, wherever the feed claims to know it: lost,
\* repeated and buffered pushes, late REST answers and answers to an earlier
\* socket's request never mix two versions (binance and okx, whose continuity
\* is VERIFIED).
HealthyBookIsExact ==
    Healthy /\ venue # "bybit" =>
        book.levels = hist[book.seq] \cap Known(book)

\* A book never moves back in time while it is shown: going back takes an
\* interval in which the venue is reported as not synchronized.
ShownBookMovesForward ==
    [][Healthy /\ Healthy' /\ venue # "bybit" => book'.seq >= book.seq]_vars

\* However connections, snapshots and pushes fail, a running feed shows a
\* healthy book again and again once the faults stop.
FeedRecovers == []<>(~running \/ Healthy)

\* Bybit gives no gap detection.  A gap makes the book wrong, the periodic
\* snapshot makes the error end.
BybitErrorEnds ==
    venue = "bybit" => []<>(~running \/ ~Healthy \/ book.levels = hist[book.seq])

\* Whatever is lost, a running feed comes to show a book again, and a right one.
FeedComesRight == FeedRecovers /\ BybitErrorEnds
=============================================================================
