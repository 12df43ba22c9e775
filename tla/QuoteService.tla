---------------------------- MODULE QuoteService ----------------------------
(***************************************************************************)
(* The server side of the web application: app/api/quote, app/api/token    *)
(* and app/api/tokens with lib/server/rateLimit.ts, tokenRegistry.ts,      *)
(* multiQuoteProvider.ts, the provider clients, revenueEvidence.ts and     *)
(* cache.ts.                                                               *)
(*                                                                         *)
(* A request runs to its next await in one step.  The requests share the   *)
(* counters of the limiter, the token caches and the loads that fill them, *)
(* the quote cache and the LI.FI request budget; Redis, the token sources, *)
(* the providers and the revenue backend answer, refuse or fail.           *)
(***************************************************************************)
EXTENDS Naturals, Sequences, SequencesExt, FiniteSets

CONSTANTS
    None,
    Requests,
    Wants,                 \* what a request may ask: kind, taker, owner, to, token, cross, fault
    Curated, Uniswap,      \* the tokens built in, those of the Uniswap list
    Lifi,                  \* the tokens LI.FI lists
    Existing,              \* the tokens LI.FI finds by address
    RateMax, BudgetMax,    \* RATE_LIMIT_MAX, LIFI_REQUEST_BUDGET_MAX
    RedisConfigured, RedisRequired, FailOpen,
    MaxFaults,             \* bound: commands Redis fails
    MaxExpiries            \* bound: windows, lists, lookups and quotes that expire

ASSUME WantsAssumption == \A w \in Wants : w.kind \in {"quote", "tokens", "token"}
ASSUME BudgetAssumption == BudgetMax \in Nat \ {0}

VARIABLES
    req,           \* the state of each request
    redis, memory, \* the requests counted for each key in its window there
    early,         \* the keys whose window in memory began before Redis's, if any
    calls,         \* requests sent to LI.FI in the budget's window of each
    list, load,    \* tokenCache and tokenLoads of the chain
    resolution, lookup,  \* tokenResolutionCache and tokenResolutionLoads
    cache,         \* quoteCache
    evidence,      \* the quotes the revenue backend has recorded, with their owners
    faults, expiries

counters == <<redis, memory, early>>
limiterVars == <<counters, faults>>
tokenVars == <<list, load, resolution, lookup>>
vars == <<req, limiterVars, calls, tokenVars, cache, evidence, expiries>>

Budget == <<"provider-budget", "lifi">>
Tokens == Curated \cup Uniswap \cup Lifi \cup Existing \cup {w.token : w \in Wants}

\* The keys a route counts a request under, in order.
LimitKeys(w) ==
    CASE w.kind = "quote" -> <<<<"quote-ip", "ip">>, <<"quote-wallet", w.taker>>>>
      [] w.kind = "tokens" -> <<<<"tokens", "ip">>>>
      [] w.kind = "token" -> <<<<"token-address-ip", "ip">>, <<"token-address", w.token>>>>

Keys == (UNION {ToSet(LimitKeys(w)) : w \in Wants}) \cup {Budget}

\* createEnabledClients: 0x quotes within one chain.
Candidates(w) == IF w.cross THEN {"lifi"} ELSE {"0x", "lifi"}

Empty == [stage |-> "new", want |-> None, routes |-> <<>>, status |-> 0, quote |-> None]

Init ==
    /\ req = [r \in Requests |-> Empty]
    /\ redis = [k \in Keys |-> 0] /\ memory = redis /\ early = {}
    /\ calls = [redis |-> 0, memory |-> 0]
    /\ list = [tokens |-> {}, fresh |-> FALSE] /\ load = [uniswap |-> "none", lifi |-> "none"]
    /\ resolution = [t \in Tokens |-> "none"] /\ lookup = resolution
    /\ cache = {} /\ evidence = {}
    /\ faults = 0 /\ expiries = 0

-----------------------------------------------------------------------------
(* rateLimitMany *)

\* The first n keys have requests left.
Pass(count, keys, n, max) == \A i \in 1 .. n : count[keys[i]] < max

\* Each key counts the request if the keys up to it, or before it, pass.
Counted(count, keys, max, itself) ==
    [k \in Keys |-> IF \E i \in 1 .. Len(keys) : keys[i] = k /\ Pass(count, keys, IF itself THEN i ELSE i - 1, max)
                    THEN count[k] + 1 ELSE count[k]]

Decision(count, keys, max) == IF Pass(count, keys, Len(keys), max) THEN "allowed" ELSE "limited"

\* The script counts the request for the key that blocks it, memory does not.
RedisCounts(keys, max) == redis' = Counted(redis, keys, max, FALSE)

MemoryLimits(keys, max, decision) ==
    decision = Decision(memory, keys, max) /\ memory' = Counted(memory, keys, max, TRUE)

\* A window begins with the first request counted, each counter's its own.
InOrder == early' = {k \in Keys : memory'[k] > 0 /\ (k \in early \/ redis'[k] = 0)}

Decides(keys, max, decision) ==
    \/ /\ RedisConfigured
       /\ decision = Decision(redis, keys, max)
       /\ RedisCounts(keys, max)
       /\ UNCHANGED <<memory, faults>>
    \/ /\ RedisConfigured
       /\ faults < MaxFaults /\ faults' = faults + 1
       /\ RedisCounts(keys, max) \/ UNCHANGED redis
       /\ IF FailOpen THEN MemoryLimits(keys, max, decision)
          ELSE decision = "unavailable" /\ UNCHANGED memory
    \/ /\ ~RedisConfigured
       /\ IF RedisRequired THEN decision = "unavailable" /\ UNCHANGED memory
          ELSE MemoryLimits(keys, max, decision)
       /\ UNCHANGED <<redis, faults>>

rateLimitMany(keys, max, decision) == Decides(keys, max, decision) /\ InOrder

Decisions == {"allowed", "limited", "unavailable"}

\* Mutant: the call past the budget is still sent.
OneCallMore(decision) ==
    /\ rateLimitMany(<<Budget>>, BudgetMax + 1, decision)
    /\ calls' = IF decision # "allowed" THEN calls
                ELSE [redis |-> IF redis'[Budget] > 0 THEN calls.redis + 1 ELSE 0,
                      memory |-> IF memory'[Budget] > 0 THEN calls.memory + 1 ELSE 0]

\* acquireLifiRequestBudget; the call is sent as soon as it is granted, in
\* the windows that are open then.
acquireLifiRequestBudget(decision) ==
    /\ rateLimitMany(<<Budget>>, BudgetMax, decision)
    /\ calls' = IF decision # "allowed" THEN calls
                ELSE [redis |-> IF redis'[Budget] > 0 THEN calls.redis + 1 ELSE 0,
                      memory |-> IF memory'[Budget] > 0 THEN calls.memory + 1 ELSE 0]

-----------------------------------------------------------------------------
(* A request, up to its next await *)

Answered(q, status) == [Empty EXCEPT !.stage = "done", !.want = q.want, !.status = status]

\* Mutant: the receiver is left out of the key.
CacheKeyWithoutReceiver(w) == [w EXCEPT !.to = ""]

CacheKey(w) == w

Served(q, quote) == [Answered(q, 200) EXCEPT !.quote = quote]

\* A cached quote is served; else every candidate is asked at once.
Quoting(q) ==
    LET hits == {e \in cache : e.key = CacheKey(q.want)}
    IN IF hits # {} THEN Served(q, (CHOOSE e \in hits : TRUE).quote)
       ELSE [q EXCEPT !.stage = "quoting",
                      !.routes = [p \in Candidates(q.want) |-> IF p = "lifi" THEN "started" ELSE "sent"]]

\* The token is known, by its address or from a list.
Known(q) == IF q.want.kind = "token" THEN Answered(q, 200) ELSE Quoting(q)

Unknown(q) == Answered(q, IF q.want.kind = "token" THEN 404 ELSE 400)

\* resolveTokenForChain; an expired list is still looked into.
Resolving(q, tokens) ==
    IF q.want.token \in tokens \cup Curated THEN Known(q)
    ELSE CASE resolution[q.want.token] = "found" -> Known(q)
           [] resolution[q.want.token] = "absent" -> Unknown(q)
           [] OTHER -> [q EXCEPT !.stage = "resolving"]

\* What a request does with the list of the chain.
Listing(q, tokens) == IF q.want.kind = "tokens" THEN Answered(q, 200) ELSE Resolving(q, tokens)

\* What an admitted request does: the token route looks the address up.
Admitted(q) ==
    CASE q.want.fault = "input" -> Answered(q, 400)
      [] q.want.kind = "token" -> Resolving(q, list.tokens)
      [] list.fresh -> Listing(q, list.tokens)
      [] OTHER -> [q EXCEPT !.stage = "listing"]

\* The loads that wait for nobody are started by the first request that waits.
Waiting(stage, after) == {r \in Requests : after[r].stage = stage}
ListLoad(after) ==
    IF Waiting("listing", after) # {} /\ load.uniswap = "none"
    THEN [uniswap |-> "sent", lifi |-> "started"] ELSE load
Lookups(after, before) ==
    [t \in Tokens |-> IF before[t] = "none" /\ \E r \in Waiting("resolving", after) : after[r].want.token = t
                      THEN "started" ELSE before[t]]

\* Requests go on, and the loads they wait for are under way.
GoesOn(after) == req' = after /\ load' = ListLoad(after) /\ lookup' = Lookups(after, lookup)
One(r, q) == [req EXCEPT ![r] = q]

\* A request arrives; one of a foreign site, or for no token, is refused at once.
Arrives(r, w) ==
    /\ req[r].stage = "new" /\ \A s \in Requests : s < r => req[s].stage # "new"
    /\ LET q == [Empty EXCEPT !.want = w]
       IN req' = One(r, CASE w.fault = "origin" -> Answered(q, 403)
                          [] w.fault = "input" /\ w.kind = "token" -> Answered(q, 400)
                          [] OTHER -> [q EXCEPT !.stage = "limiting"])
    /\ UNCHANGED <<limiterVars, calls, tokenVars, cache, evidence, expiries>>

IsLimited(r) ==
    /\ req[r].stage = "limiting"
    /\ \E decision \in Decisions :
        /\ rateLimitMany(LimitKeys(req[r].want), RateMax, decision)
        /\ GoesOn(One(r, CASE decision = "allowed" -> Admitted(req[r])
                           [] decision = "limited" -> Answered(req[r], 429)
                           [] decision = "unavailable" -> Answered(req[r], 503)))
    /\ UNCHANGED <<calls, list, resolution, cache, evidence, expiries>>

-----------------------------------------------------------------------------
(* The token registry *)

\* refreshTokensForChain has what both sources gave; the requests go on.
Refreshed(l) ==
    IF {l.uniswap, l.lifi} \cap {"started", "sent"} # {} THEN UNCHANGED <<req, list, lookup>> /\ load' = l
    ELSE LET tokens == Curated \cup (IF l.uniswap = "ok" THEN Uniswap ELSE {}) \cup (IF l.lifi = "ok" THEN Lifi ELSE {})
             after == [r \in Requests |-> IF req[r].stage = "listing" THEN Listing(req[r], tokens) ELSE req[r]]
         IN /\ list' = [tokens |-> tokens, fresh |-> TRUE]
            /\ load' = [uniswap |-> "none", lifi |-> "none"]
            /\ req' = after /\ lookup' = Lookups(after, lookup)

ListPays ==
    /\ load.lifi = "started"
    /\ \E decision \in Decisions :
        /\ acquireLifiRequestBudget(decision)
        /\ Refreshed([load EXCEPT !.lifi = IF decision = "allowed" THEN "sent" ELSE "failed"])
    /\ UNCHANGED <<resolution, cache, evidence, expiries>>

\* A source answers, or fails or is given up after TOKEN_REQUEST_TIMEOUT_MS.
ListAnswers(source) ==
    /\ load[source] = "sent"
    /\ \E outcome \in {"ok", "failed"} : Refreshed([load EXCEPT ![source] = outcome])
    /\ UNCHANGED <<limiterVars, calls, resolution, cache, evidence, expiries>>

LookupEnd(q, end) ==
    CASE end = "found" -> Known(q)
      [] end = "absent" -> Unknown(q)
      [] end = "limited" -> Answered(q, 429)
      [] end = "unavailable" -> Answered(q, 503)

Awaited(t, end) ==
    [r \in Requests |-> IF req[r].stage = "resolving" /\ req[r].want.token = t THEN LookupEnd(req[r], end) ELSE req[r]]

\* A lookup has ended: the requests that wait for it go on.
LookedUp(t, end) == req' = Awaited(t, end) /\ lookup' = [lookup EXCEPT ![t] = "none"] /\ UNCHANGED <<list, load>>

LookupPays(t) ==
    /\ lookup[t] = "started"
    /\ \E decision \in Decisions :
        /\ acquireLifiRequestBudget(decision)
        /\ IF decision = "allowed" THEN lookup' = [lookup EXCEPT ![t] = "sent"] /\ UNCHANGED <<req, list, load>>
           ELSE LookedUp(t, decision)
    /\ UNCHANGED <<resolution, cache, evidence, expiries>>

\* Mutant: a failure is kept as a token that does not exist.
KeptAsAbsent(t) == resolution' = [resolution EXCEPT ![t] = "absent"]

\* A failure is not cached.
LookupFailed(t) == UNCHANGED resolution

LookupAnswers(t) ==
    /\ lookup[t] = "sent"
    /\ \/ \E end \in {"found", "absent"} :
            /\ end = "found" <=> t \in Existing
            /\ LookedUp(t, end) /\ resolution' = [resolution EXCEPT ![t] = end]
       \/ LookedUp(t, "unavailable") /\ LookupFailed(t)
    /\ UNCHANGED <<limiterVars, calls, cache, evidence, expiries>>

-----------------------------------------------------------------------------
(* The providers *)

Pending == {"started", "sent"}
Quoted == {"quoted", "split"}
Offered(q) == {p \in DOMAIN q.routes : q.routes[p] \in Quoted}

\* The answer when no provider quoted.
Status(q) ==
    LET outcomes == Range(q.routes)
    IN IF "busy" \in outcomes THEN 429 ELSE IF outcomes = {"refused"} THEN 422 ELSE 503

\* buildRevenueSnapshot throws for a quote whose platform fee is not one
\* line, and with it the request for all of its quotes.
Unaccountable(q) == q.want.owner # "" /\ \E p \in Offered(q) : q.routes[p] = "split"

\* Promise.allSettled: once every candidate has answered the quotes are recorded.
Settled(q) ==
    IF Range(q.routes) \cap Pending # {} THEN q
    ELSE IF Unaccountable(q) THEN Answered(q, 503)
    ELSE [q EXCEPT !.stage = "recording"]

ProviderEnds(r, p, outcome) ==
    /\ req' = One(r, Settled([req[r] EXCEPT !.routes[p] = outcome]))
    /\ UNCHANGED <<tokenVars, cache, evidence, expiries>>

LifiPays(r) ==
    /\ req[r].stage = "quoting" /\ "lifi" \in DOMAIN req[r].routes /\ req[r].routes["lifi"] = "started"
    /\ \E decision \in Decisions :
        /\ acquireLifiRequestBudget(decision)
        /\ ProviderEnds(r, "lifi", CASE decision = "allowed" -> "sent"
                                     [] decision = "limited" -> "busy"
                                     [] decision = "unavailable" -> "failed")

Asked(r, p) == req[r].stage = "quoting" /\ p \in DOMAIN req[r].routes /\ req[r].routes[p] = "sent"

\* What the body of a provider's answer comes to: 0x must charge the service
\* fee once, LI.FI may spread it over several costs.
ZeroXChecked(fee) == IF fee = "once" THEN "quoted" ELSE "failed"

LifiChecked(fee) == CASE fee = "once" -> "quoted" [] fee = "spread" -> "split" [] fee = "missing" -> "failed"

Checked(p, fee) == IF p = "0x" THEN ZeroXChecked(fee) ELSE LifiChecked(fee)

\* assertExecutableQuote
Normalized(outcome, executable) == IF executable THEN outcome ELSE "failed"

ProviderAnswers(r, p) ==
    /\ Asked(r, p)
    /\ \E fee \in {"once", "spread", "missing"}, executable \in BOOLEAN :
        ProviderEnds(r, p, Normalized(Checked(p, fee), executable))
    /\ UNCHANGED <<limiterVars, calls>>

\* An error status: no route, too many requests, or any other.
ProviderRefuses(r, p) ==
    /\ Asked(r, p)
    /\ \E outcome \in {"refused", "busy", "failed"} : ProviderEnds(r, p, outcome)
    /\ UNCHANGED <<limiterVars, calls>>

\* No answer within PROVIDER_TIMEOUT_MS.
ProviderTakesTooLong(r, p) == Asked(r, p) /\ ProviderEnds(r, p, "failed") /\ UNCHANGED <<limiterVars, calls>>

-----------------------------------------------------------------------------
(* captureRevenueEvidence, and the answer *)

Quote(r) == [by |-> r, want |-> req[r].want]
Owned(w) == w.owner # ""

\* Without an EVM owner there is no snapshot, and the quotes leave no evidence.
Recorded(r) == IF Offered(req[r]) # {} /\ Owned(req[r].want) THEN {<<r, req[r].want.owner>>} ELSE {}

Delivered(r) ==
    IF Offered(req[r]) = {} THEN req' = One(r, Answered(req[r], Status(req[r]))) /\ UNCHANGED cache
    ELSE /\ req' = One(r, Served(req[r], Quote(r)))
         /\ cache' = {e \in cache : e.key # CacheKey(req[r].want)}
                     \cup {[key |-> CacheKey(req[r].want), quote |-> Quote(r)]}

\* Mutant: a quote is kept before its evidence is.
KeptUnrecorded(r) ==
    /\ req' = One(r, Answered(req[r], 503))
    /\ cache' = cache \cup {[key |-> CacheKey(req[r].want), quote |-> Quote(r)]}

NotDelivered(r) == req' = One(r, Answered(req[r], 503)) /\ UNCHANGED cache

\* The backend stores the evidence, or not; its answer may be lost.
Records(r) ==
    /\ req[r].stage = "recording"
    /\ \/ evidence' = evidence \cup Recorded(r) /\ (Delivered(r) \/ NotDelivered(r))
       \/ UNCHANGED evidence /\ NotDelivered(r)
    /\ UNCHANGED <<limiterVars, calls, tokenVars, expiries>>

-----------------------------------------------------------------------------
(* Time *)

Expires == expiries < MaxExpiries /\ expiries' = expiries + 1 /\ UNCHANGED <<req, faults, load, lookup, evidence>>

\* Redis and memory count a key in windows of their own, which are as long:
\* the one that began first ends first.
RedisWindowEnds(k) ==
    /\ Expires
    /\ redis[k] > 0 /\ k \notin early
    /\ redis' = [redis EXCEPT ![k] = 0] /\ UNCHANGED memory /\ InOrder
    /\ calls' = IF k = Budget THEN [calls EXCEPT !.redis = 0] ELSE calls
    /\ UNCHANGED <<list, resolution, cache>>

MemoryWindowEnds(k) ==
    /\ Expires
    /\ k \in early
    /\ memory' = [memory EXCEPT ![k] = 0] /\ UNCHANGED redis /\ InOrder
    /\ calls' = IF k = Budget THEN [calls EXCEPT !.memory = 0] ELSE calls
    /\ UNCHANGED <<list, resolution, cache>>

ListExpires ==
    /\ Expires
    /\ list.fresh /\ list' = [list EXCEPT !.fresh = FALSE]
    /\ UNCHANGED <<counters, calls, resolution, cache>>

LookupExpires(t) ==
    /\ Expires
    /\ resolution[t] # "none" /\ resolution' = [resolution EXCEPT ![t] = "none"]
    /\ UNCHANGED <<counters, calls, list, cache>>

\* A quote is past QUOTE_CACHE_TTL_MS, or pruned.
QuoteExpires(e) ==
    /\ Expires
    /\ cache' = cache \ {e}
    /\ UNCHANGED <<counters, calls, list, resolution>>

Next ==
    \/ \E r \in Requests :
        \/ \E w \in Wants : Arrives(r, w)
        \/ IsLimited(r) \/ LifiPays(r) \/ Records(r)
        \/ \E p \in {"0x", "lifi"} : ProviderAnswers(r, p) \/ ProviderRefuses(r, p) \/ ProviderTakesTooLong(r, p)
    \/ ListPays \/ \E source \in {"uniswap", "lifi"} : ListAnswers(source)
    \/ \E t \in Tokens : LookupPays(t) \/ LookupAnswers(t) \/ LookupExpires(t)
    \/ \E k \in Keys : RedisWindowEnds(k) \/ MemoryWindowEnds(k)
    \/ ListExpires
    \/ \E e \in cache : QuoteExpires(e)

Spec == Init /\ [][Next]_vars

-----------------------------------------------------------------------------
Stages == {"new", "limiting", "listing", "resolving", "quoting", "recording", "done"}
Outcomes == Pending \cup Quoted \cup {"refused", "busy", "failed"}

\* The state's types; a lookup or a list load is under way exactly while a
\* request waits for it.
TypeOK ==
    /\ \A r \in Requests :
        /\ req[r].stage \in Stages
        /\ Range(req[r].routes) \subseteq Outcomes
        /\ req[r].stage = "done" <=> req[r].status \in {200, 400, 403, 404, 422, 429, 503}
    /\ load.uniswap \in {"none", "sent", "ok", "failed"} /\ load.lifi \in {"none", "started", "sent", "ok", "failed"}
    /\ \A t \in Tokens : lookup[t] \in {"none", "started", "sent"} /\ resolution[t] \in {"none", "found", "absent"}
    /\ (load.uniswap # "none") <=> Waiting("listing", req) # {}
    /\ \A t \in Tokens : lookup[t] # "none" <=> \E r \in Waiting("resolving", req) : req[r].want.token = t

Delivering(r) == req[r].stage = "done" /\ req[r].quote # None

\* "Keep destination addresses in the quote cache key so one user's executable
\* quote cannot be reused for another Bitcoin address" (docs/prompt12_f.md): a
\* quote that is served was made for this wallet, receiver and owner.
QuoteIsTheRequests == \A r \in Requests : Delivering(r) => req[r].quote.want = req[r].want

\* "Enabled mode fails closed when quote evidence cannot be stored"
\* (docs/commercial/revenue-accounting.md): a quote that is served to an EVM
\* owner, from the cache too, has its evidence recorded for that owner.
ServedIsRecorded ==
    \A r \in Requests :
        Delivering(r) /\ Owned(req[r].want) => <<req[r].quote.by, req[r].want.owner>> \in evidence

\* The same of every quote: without an EVM owner it does not hold.
EveryServedIsRecorded == \A r \in Requests : Delivering(r) => <<req[r].quote.by, req[r].want.owner>> \in evidence

\* However the requests, the token lists and the lookups interleave, LI.FI is
\* sent no more than its budget while a window of the limiter lasts.  Where
\* memory stands in for a Redis that fails, a window of the one sees the
\* budget of two windows of the other, less the request that began the first.
WithinBudget ==
    \A counter \in {"redis", "memory"} :
        calls[counter] <= IF RedisConfigured /\ FailOpen THEN 3 * BudgetMax - 1 ELSE BudgetMax

\* An answer that a token or a route does not exist is never the mistake of a
\* source that failed.
TokenAbsent(q) == q.status = 404 \/ (q.status = 400 /\ q.want.fault = "")
AbsenceIsTrue ==
    [][\A r \in Requests : req[r].stage # "done" /\ req'[r].stage = "done" =>
        /\ TokenAbsent(req'[r]) => req'[r].want.token \notin Existing
        /\ req'[r].status = 422 => Range(req[r].routes) = {"refused"}]_vars

\* "Isolate provider failures and rate limits so another approved provider can
\* still return a quote" (docs/prompt42_f.md): a request for which a provider
\* has quoted a route that can be accounted for goes on to record and serve it.
FailuresAreIsolated ==
    [][\A r \in Requests : req[r].stage = "quoting" /\ req'[r].stage = "done"
                            => "quoted" \notin Range(req[r].routes)]_vars
=============================================================================
