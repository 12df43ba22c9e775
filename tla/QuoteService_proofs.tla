------------------------- MODULE QuoteService_proofs -------------------------
(***************************************************************************)
(* What the web application's server side promises of its answers, for any *)
(* number of requests, tokens, budgets, faults and expiries: a quote that  *)
(* is served is the asker's and recorded, and an answer that something     *)
(* does not exist is never the mistake of a source that failed.            *)
(***************************************************************************)
EXTENDS QuoteService, TLAPS

-----------------------------------------------------------------------------
(* One request *)

IsRequest(q) == q \in [stage : {q.stage}, want : {q.want}, routes : {q.routes},
                       status : {q.status}, quote : {q.quote}]

\* A quote made for what is wanted, and recorded in E for its owner, if any.
Accounted(quote, want, E) == quote.want = want /\ (Owned(want) => <<quote.by, want.owner>> \in E)

Truthful(q, E) ==
    q.stage = "done" =>
        /\ q.quote # None => Accounted(q.quote, q.want, E)
        /\ TokenAbsent(q) => q.want.token \notin Existing

\* Every provider said it has no route.
Refused(q) == Range(q.routes) = {"refused"}

\* What a request that goes on from q comes to.
GoodStep(q, n, E) ==
    /\ IsRequest(n) /\ n.want = q.want /\ n.stage # "new" /\ Truthful(n, E)
    /\ n.stage = "done" /\ n.status = 422 => Refused(q)

CacheOK == \A e \in cache : Accounted(e.quote, e.key, evidence)
LookupsOK ==
    /\ resolution = [t \in Tokens |-> resolution[t]]
    /\ \A t \in Tokens : resolution[t] = "absent" => t \notin Existing

RequestsOK ==
    /\ req = [r \in Requests |-> req[r]]
    /\ \A r \in Requests : /\ IsRequest(req[r])
                           /\ req[r].stage # "new" => req[r].want \in Wants
                           /\ Truthful(req[r], evidence)

AnswersInv == CacheOK /\ LookupsOK /\ RequestsOK

LEMMA EmptyIsRequest == IsRequest(Empty) /\ Empty.stage = "new"
BY DEF IsRequest, Empty

LEMMA AnsweredFields ==
    ASSUME NEW q, NEW status
    PROVE  /\ IsRequest(Answered(q, status)) /\ Answered(q, status).stage = "done"
           /\ Answered(q, status).want = q.want
           /\ Answered(q, status).status = status /\ Answered(q, status).quote = None
BY DEF Answered, Empty, IsRequest

LEMMA ServedFields ==
    ASSUME NEW q, NEW quote
    PROVE  /\ IsRequest(Served(q, quote)) /\ Served(q, quote).stage = "done"
           /\ Served(q, quote).want = q.want /\ Served(q, quote).quote = quote
BY DEF Served, Answered, Empty, IsRequest

LEMMA ServedStatus ==
    ASSUME NEW q, NEW quote
    PROVE  Served(q, quote).status = 200
BY DEF Served, Answered, Empty

LEMMA RecordExcept ==
    ASSUME NEW S, NEW W, NEW R, NEW T, NEW Q,
           NEW q \in [stage : S, want : W, routes : R, status : T, quote : Q],
           NEW x, NEW y
    PROVE  LET n == [q EXCEPT !.stage = x, !.routes = y]
               m == [q EXCEPT !.stage = x]
               k == [q EXCEPT !.routes = y]
           IN  /\ n.stage = x /\ n.want = q.want /\ n.quote = q.quote /\ n.routes = y
               /\ n \in [stage : S \cup {x}, want : W, routes : R \cup {y}, status : T, quote : Q]
               /\ m.stage = x /\ m.want = q.want /\ m.quote = q.quote /\ m.routes = q.routes
               /\ m \in [stage : S \cup {x}, want : W, routes : R, status : T, quote : Q]
               /\ k.stage = q.stage /\ k.want = q.want /\ k.routes = y
               /\ k \in [stage : S, want : W, routes : R \cup {y}, status : T, quote : Q]
OBVIOUS

LEMMA RequestExcept ==
    ASSUME NEW q, IsRequest(q), NEW x, NEW y
    PROVE  /\ IsRequest([q EXCEPT !.stage = x, !.routes = y])
           /\ [q EXCEPT !.stage = x, !.routes = y].stage = x
           /\ [q EXCEPT !.stage = x, !.routes = y].want = q.want
           /\ IsRequest([q EXCEPT !.stage = x])
           /\ [q EXCEPT !.stage = x].stage = x
           /\ [q EXCEPT !.stage = x].want = q.want
           /\ IsRequest([q EXCEPT !.routes = y])
           /\ [q EXCEPT !.routes = y].stage = q.stage
           /\ [q EXCEPT !.routes = y].want = q.want
           /\ [q EXCEPT !.routes = y].routes = y
<1> DEFINE n == [q EXCEPT !.stage = x, !.routes = y]
           m == [q EXCEPT !.stage = x]
           k == [q EXCEPT !.routes = y]
<1>1. /\ n.stage = x /\ n.want = q.want
      /\ n \in [stage : {q.stage} \cup {x}, want : {q.want}, routes : {q.routes} \cup {y},
                status : {q.status}, quote : {q.quote}]
      /\ m.stage = x /\ m.want = q.want
      /\ m \in [stage : {q.stage} \cup {x}, want : {q.want}, routes : {q.routes},
                status : {q.status}, quote : {q.quote}]
      /\ k.stage = q.stage /\ k.want = q.want /\ k.routes = y
      /\ k \in [stage : {q.stage}, want : {q.want}, routes : {q.routes} \cup {y},
                status : {q.status}, quote : {q.quote}]
  BY RecordExcept, Zenon DEF IsRequest
<1> HIDE DEF n, m, k
<1>2. IsRequest(n) /\ IsRequest(m) /\ IsRequest(k)
  BY <1>1 DEF IsRequest
<1>3. /\ IsRequest(n) /\ n.stage = x /\ n.want = q.want
      /\ IsRequest(m) /\ m.stage = x /\ m.want = q.want
      /\ IsRequest(k) /\ k.stage = q.stage /\ k.want = q.want /\ k.routes = y
  BY <1>1, <1>2
<1> QED
  BY <1>3, Zenon DEF n, m, k

-----------------------------------------------------------------------------
(* The stretches between two awaits *)

\* A status that says the token does not exist, in answer to q.
Absent(q, status) == status = 404 \/ (status = 400 /\ q.want.fault = "")

\* An answer without a quote; one of absence for a token that does not exist.
LEMMA AnsweredGood ==
    ASSUME NEW q, NEW E, NEW status,
           Absent(q, status) => q.want.token \notin Existing,
           status = 422 => Refused(q)
    PROVE  GoodStep(q, Answered(q, status), E)
<1> DEFINE n == Answered(q, status)
<1>1. /\ IsRequest(n) /\ n.stage = "done" /\ n.want = q.want
      /\ n.status = status /\ n.quote = None
  BY AnsweredFields, Zenon
<1> HIDE DEF n
<1>2. ASSUME TokenAbsent(n) PROVE q.want.token \notin Existing
  <2>1. n.status = 404 \/ (n.status = 400 /\ n.want.fault = "")
    BY <1>2, Zenon DEF TokenAbsent
  <2>2. Absent(q, status)
    BY ONLY <1>1, <2>1, Zenon DEF Absent
  <2> QED
    BY <2>2
<1>3. n.status = 422 => Refused(q)
  BY <1>1, Zenon
<1>4. Truthful(n, E)
  BY <1>1, <1>2, Zenon DEF Truthful
<1>5. n.stage # "new"
  BY <1>1
<1>6. GoodStep(q, n, E)
  BY <1>1, <1>3, <1>4, <1>5, Zenon DEF GoodStep
<1> QED
  BY <1>6 DEF n

\* An answer that says nothing of existence.
LEMMA NeutralGood ==
    ASSUME NEW q, NEW E, NEW status \in Nat \ {400, 404, 422}
    PROVE  GoodStep(q, Answered(q, status), E)
<1>1. ~Absent(q, status) /\ status # 422
  BY DEF Absent
<1> QED
  BY <1>1, AnsweredGood, Zenon

\* An answer that the token does not exist, of a token that does not.
LEMMA AbsentGood ==
    ASSUME NEW q, NEW E, q.want.token \notin Existing, NEW status \in Nat \ {422}
    PROVE  GoodStep(q, Answered(q, status), E)
<1>1. status # 422
  OBVIOUS
<1> QED
  BY <1>1, AnsweredGood, Zenon

\* The refusal of an input at fault.
LEMMA FaultStatus == 400 # 404 /\ 400 # 422
OBVIOUS

LEMMA FaultGood ==
    ASSUME NEW q, NEW E, q.want.fault # ""
    PROVE  GoodStep(q, Answered(q, 400), E)
<1> DEFINE status == 400
<1>1. status # 404 /\ status # 422
  BY FaultStatus
<1> HIDE DEF status
<1>2. ~Absent(q, status)
  BY <1>1, Zenon DEF Absent
<1>3. GoodStep(q, Answered(q, status), E)
  BY <1>1, <1>2, AnsweredGood, Zenon
<1> QED
  BY <1>3 DEF status

LEMMA ServedGood ==
    ASSUME NEW q, NEW quote, NEW E, Accounted(quote, q.want, E)
    PROVE  GoodStep(q, Served(q, quote), E)
<1> DEFINE n == Served(q, quote)
<1>1. /\ IsRequest(n) /\ n.stage = "done" /\ n.want = q.want /\ n.quote = quote
  BY ServedFields, Zenon
<1>2. n.status = 200
  BY ServedStatus
<1> HIDE DEF n
<1>3. n.status # 422 /\ ~TokenAbsent(n)
  BY ONLY <1>2 DEF TokenAbsent
<1>4. Truthful(n, E)
  BY <1>1, <1>3, Zenon DEF Truthful
<1>5. GoodStep(q, n, E)
  BY <1>1, <1>3, <1>4, Zenon DEF GoodStep
<1> QED
  BY <1>5 DEF n

\* A request that waits has said nothing.
LEMMA WaitingGood ==
    ASSUME NEW q, IsRequest(q), NEW E, NEW stage, stage \notin {"new", "done"}, NEW routes
    PROVE  /\ GoodStep(q, [q EXCEPT !.stage = stage], E)
           /\ GoodStep(q, [q EXCEPT !.stage = stage, !.routes = routes], E)
<1> DEFINE n == [q EXCEPT !.stage = stage, !.routes = routes]
           m == [q EXCEPT !.stage = stage]
<1>1. /\ IsRequest(n) /\ n.stage = stage /\ n.want = q.want
      /\ IsRequest(m) /\ m.stage = stage /\ m.want = q.want
  <2>1. n.stage = stage /\ m.stage = stage
    BY RecordExcept, Zenon DEF IsRequest
  <2>2. n.want = q.want /\ m.want = q.want
    BY RecordExcept, Zenon DEF IsRequest
  <2>3. IsRequest(n)
    BY RequestExcept
  <2>4. IsRequest(m)
    BY RequestExcept
  <2> QED
    BY <2>1, <2>2, <2>3, <2>4
<1> HIDE DEF n, m
<1>2. GoodStep(q, n, E) /\ GoodStep(q, m, E)
  BY <1>1 DEF GoodStep, Truthful
<1> QED
  BY <1>2 DEF n, m

LEMMA QuotingGood ==
    ASSUME NEW q, IsRequest(q), CacheOK
    PROVE  GoodStep(q, Quoting(q), evidence)
<1> DEFINE hits == {e \in cache : e.key = CacheKey(q.want)}
           hit == CHOOSE e \in hits : TRUE
<1>1. CASE hits # {}
  <2>1. hit \in cache /\ hit.key = q.want
    BY <1>1 DEF CacheKey
  <2>2. Accounted(hit.quote, q.want, evidence)
    BY <2>1 DEF CacheOK
  <2>3. Quoting(q) = Served(q, hit.quote)
    BY <1>1 DEF Quoting
  <2>4. GoodStep(q, Served(q, hit.quote), evidence)
    BY <2>2, ServedGood, Zenon
  <2> QED
    BY <2>3, <2>4
<1>2. CASE hits = {}
  <2> DEFINE routes == [p \in Candidates(q.want) |-> IF p = "lifi" THEN "started" ELSE "sent"]
  <2>1. Quoting(q) = [q EXCEPT !.stage = "quoting", !.routes = routes]
    BY <1>2 DEF Quoting
  <2>2. GoodStep(q, [q EXCEPT !.stage = "quoting", !.routes = routes], evidence)
    BY WaitingGood, Zenon
  <2> QED
    BY <2>1, <2>2
<1> QED
  BY <1>1, <1>2

LEMMA KnownGood ==
    ASSUME NEW q, IsRequest(q), CacheOK
    PROVE  GoodStep(q, Known(q), evidence)
<1>1. GoodStep(q, Answered(q, 200), evidence)
  BY NeutralGood
<1> QED
  BY <1>1, QuotingGood DEF Known

LEMMA UnknownGood ==
    ASSUME NEW q, q.want.token \notin Existing
    PROVE  GoodStep(q, Unknown(q), evidence)
<1>1. GoodStep(q, Answered(q, 404), evidence) /\ GoodStep(q, Answered(q, 400), evidence)
  BY AbsentGood
<1> QED
  BY <1>1 DEF Unknown

LEMMA ResolvingGood ==
    ASSUME NEW q, IsRequest(q), q.want \in Wants, NEW tokens, CacheOK, LookupsOK
    PROVE  GoodStep(q, Resolving(q, tokens), evidence)
<1>1. q.want.token \in Tokens
  BY DEF Tokens
<1>2. GoodStep(q, Known(q), evidence)
  BY KnownGood
<1>3. resolution[q.want.token] = "absent" => GoodStep(q, Unknown(q), evidence)
  BY <1>1, UnknownGood DEF LookupsOK
<1>4. GoodStep(q, [q EXCEPT !.stage = "resolving"], evidence)
  BY WaitingGood
<1> QED
  BY <1>2, <1>3, <1>4 DEF Resolving

LEMMA ListingGood ==
    ASSUME NEW q, IsRequest(q), q.want \in Wants, NEW tokens, CacheOK, LookupsOK
    PROVE  GoodStep(q, Listing(q, tokens), evidence)
<1>1. GoodStep(q, Answered(q, 200), evidence)
  BY NeutralGood
<1> QED
  BY <1>1, ResolvingGood DEF Listing

LEMMA AdmittedGood ==
    ASSUME NEW q, IsRequest(q), q.want \in Wants, CacheOK, LookupsOK
    PROVE  GoodStep(q, Admitted(q), evidence)
<1>1. ASSUME q.want.fault = "input" PROVE GoodStep(q, Answered(q, 400), evidence)
  BY <1>1, FaultGood, Zenon
<1>2. GoodStep(q, Resolving(q, list.tokens), evidence) /\ GoodStep(q, Listing(q, list.tokens), evidence)
  BY ResolvingGood, ListingGood
<1>3. GoodStep(q, [q EXCEPT !.stage = "listing"], evidence)
  BY WaitingGood
<1> QED
  BY <1>1, <1>2, <1>3 DEF Admitted

LEMMA LookupEndGood ==
    ASSUME NEW q, IsRequest(q), CacheOK,
           NEW end \in {"found", "absent", "limited", "unavailable"},
           end = "absent" => q.want.token \notin Existing
    PROVE  GoodStep(q, LookupEnd(q, end), evidence)
<1>1. GoodStep(q, Answered(q, 429), evidence) /\ GoodStep(q, Answered(q, 503), evidence)
  BY NeutralGood
<1>2. GoodStep(q, Known(q), evidence)
  BY KnownGood
<1>3. end = "absent" => GoodStep(q, Unknown(q), evidence)
  BY UnknownGood
<1> QED
  BY <1>1, <1>2, <1>3 DEF LookupEnd

\* A request k at the providers, which came of q, stays there, is refused or
\* goes to recording.
LEMMA SettledGood ==
    ASSUME NEW q, NEW k, IsRequest(k), k.stage = "quoting", k.want = q.want, NEW E
    PROVE  GoodStep(q, Settled(k), E)
<1>1. GoodStep(q, k, E)
  BY DEF GoodStep, Truthful
<1>2. GoodStep(q, Answered(k, 503), E)
  <2>1. Answered(k, 503) = Answered(q, 503)
    BY DEF Answered
  <2>2. GoodStep(q, Answered(q, 503), E)
    BY NeutralGood
  <2> QED
    BY <2>1, <2>2
<1>3. GoodStep(q, [k EXCEPT !.stage = "recording"], E)
  <2> DEFINE n == [k EXCEPT !.stage = "recording"]
  <2>1. n.stage = "recording" /\ n.want = k.want
    BY RecordExcept, Zenon DEF IsRequest
  <2>2. IsRequest(n)
    BY RequestExcept
  <2> HIDE DEF n
  <2>3. GoodStep(q, n, E)
    BY <2>1, <2>2 DEF GoodStep, Truthful
  <2> QED
    BY <2>3 DEF n
<1> QED
  BY <1>1, <1>2, <1>3 DEF Settled

\* The answer when no provider quoted.
LEMMA StatusGood ==
    ASSUME NEW q, NEW E
    PROVE  GoodStep(q, Answered(q, Status(q)), E)
<1>1. CASE Status(q) = 422 /\ Refused(q)
  <2>1. Status(q) # 404 /\ Status(q) # 400
    BY ONLY <1>1
  <2>2. ~Absent(q, Status(q))
    BY <1>1, <2>1, Zenon DEF Absent
  <2> QED
    BY <1>1, <2>2, AnsweredGood, Zenon
<1>2. CASE Status(q) \in {429, 503}
  <2>1. Status(q) \in Nat \ {400, 404, 422}
    BY ONLY <1>2
  <2> QED
    BY <2>1, NeutralGood, Zenon
<1> QED
  BY <1>1, <1>2 DEF Status, Refused

-----------------------------------------------------------------------------
(* Steps *)

\* A request is refused as one without a route because every provider said so.
Refusals ==
    \A r \in Requests :
        req[r].stage # "done" /\ req'[r].stage = "done" /\ req'[r].status = 422 => Refused(req[r])

\* n is a good state for request r after the step.
GoodNext(r, n) ==
    /\ IsRequest(n) /\ n.want \in Wants /\ Truthful(n, evidence')
    /\ n.stage = "done" /\ n.status = 422 => Refused(req[r])

LEMMA TruthLasts ==
    ASSUME NEW q, NEW E, NEW F, E \subseteq F, Truthful(q, E)
    PROVE  Truthful(q, F)
BY DEF Truthful, Accounted

\* Some requests go on, each of them well; the others stay as they are.
LEMMA RequestsGoOn ==
    ASSUME RequestsOK, evidence \subseteq evidence', NEW after,
           req' = [r \in Requests |-> after[r]],
           \A r \in Requests : after[r] = req[r] \/ GoodNext(r, after[r])
    PROVE  RequestsOK' /\ Refusals
<1>0. ASSUME NEW r \in Requests
      PROVE  /\ IsRequest(req'[r])
             /\ req'[r].stage # "new" => req'[r].want \in Wants
             /\ Truthful(req'[r], evidence')
             /\ req[r].stage # "done" /\ req'[r].stage = "done" /\ req'[r].status = 422 => Refused(req[r])
  <2>1. req'[r] = after[r]
    OBVIOUS
  <2>2. CASE after[r] = req[r]
    BY <2>1, <2>2, TruthLasts DEF RequestsOK
  <2>3. CASE GoodNext(r, after[r])
    BY <2>1, <2>3, Zenon DEF GoodNext
  <2> QED
    BY <2>2, <2>3
<1> QED
  BY <1>0 DEF RequestsOK, Refusals

LEMMA GoodStepNext ==
    ASSUME RequestsOK, NEW r \in Requests, NEW n, req[r].stage # "new", GoodStep(req[r], n, evidence')
    PROVE  GoodNext(r, n)
BY Zenon DEF GoodStep, GoodNext, RequestsOK

LEMMA OneGoesOn ==
    ASSUME RequestsOK, evidence \subseteq evidence', NEW r \in Requests, NEW n,
           req' = One(r, n), GoodNext(r, n)
    PROVE  RequestsOK' /\ Refusals
<1> DEFINE after == [x \in Requests |-> IF x = r THEN n ELSE req[x]]
<1>1. req' = after /\ after = [x \in Requests |-> after[x]]
  BY DEF One, RequestsOK
<1>2. \A x \in Requests : after[x] = req[x] \/ GoodNext(x, after[x])
  OBVIOUS
<1> HIDE DEF after
<1> QED
  BY <1>1, <1>2, RequestsGoOn, Zenon

\* What a step that makes no quote and ends no lookup leaves alone.
LEMMA Frame ==
    ASSUME AnswersInv, evidence' = evidence, cache' \subseteq cache, UNCHANGED resolution
    PROVE  CacheOK' /\ LookupsOK' /\ evidence \subseteq evidence'
BY DEF AnswersInv, CacheOK, LookupsOK, Accounted

LEMMA NoRefusals == UNCHANGED req => Refusals
BY DEF Refusals

LEMMA Stays ==
    ASSUME AnswersInv, UNCHANGED <<req, evidence, resolution>>, cache' \subseteq cache
    PROVE  AnswersInv' /\ Refusals
BY Frame, NoRefusals DEF AnswersInv, RequestsOK

LEMMA AnswersInit == Init => AnswersInv
<1> SUFFICES ASSUME Init PROVE AnswersInv
  OBVIOUS
<1>1. \A r \in Requests : req[r] = Empty
  BY DEF Init
<1>2. RequestsOK
  BY <1>1, EmptyIsRequest DEF Init, RequestsOK, Truthful
<1> QED
  BY <1>2 DEF Init, AnswersInv, CacheOK, LookupsOK

-----------------------------------------------------------------------------
(* The requests' own steps *)

LEMMA ArrivesStep ==
    ASSUME AnswersInv, NEW r \in Requests, NEW w \in Wants, Arrives(r, w)
    PROVE  AnswersInv' /\ Refusals
<1> DEFINE q == [Empty EXCEPT !.want = w]
           n == CASE w.fault = "origin" -> Answered(q, 403)
                  [] w.fault = "input" /\ w.kind = "token" -> Answered(q, 400)
                  [] OTHER -> [q EXCEPT !.stage = "limiting"]
<1>1. IsRequest(q) /\ q.want = w
  BY DEF Empty, IsRequest
<1>2. ~Refused(q)
  BY DEF Empty, Refused, Range
<1>3. req' = One(r, n)
  BY DEF Arrives
<1> HIDE DEF q
<1>4. GoodStep(q, Answered(q, 403), evidence)
  BY NeutralGood
<1>5. w.fault = "input" => GoodStep(q, Answered(q, 400), evidence)
  BY <1>1, FaultGood, Zenon
<1>6. GoodStep(q, [q EXCEPT !.stage = "limiting"], evidence)
  BY <1>1, WaitingGood
<1>7. GoodStep(q, n, evidence)
  BY <1>4, <1>5, <1>6
<1> HIDE DEF n
<1>8. UNCHANGED <<evidence, cache, resolution>>
  BY DEF Arrives, tokenVars
<1>9. GoodNext(r, n)
  BY <1>1, <1>2, <1>7, <1>8 DEF GoodStep, GoodNext
<1>10. CacheOK' /\ LookupsOK' /\ evidence \subseteq evidence'
  BY <1>8, Frame
<1> QED
  BY <1>3, <1>9, <1>10, OneGoesOn DEF AnswersInv

LEMMA IsLimitedStep ==
    ASSUME AnswersInv, NEW r \in Requests, IsLimited(r)
    PROVE  AnswersInv' /\ Refusals
<1>1. PICK decision \in Decisions :
        req' = One(r, CASE decision = "allowed" -> Admitted(req[r])
                        [] decision = "limited" -> Answered(req[r], 429)
                        [] decision = "unavailable" -> Answered(req[r], 503))
  BY DEF IsLimited, GoesOn
<1>2. UNCHANGED <<evidence, cache, resolution>> /\ req[r].stage = "limiting"
  BY DEF IsLimited
<1>3. req[r].stage # "new" /\ IsRequest(req[r]) /\ req[r].want \in Wants
  BY <1>2 DEF AnswersInv, RequestsOK
<1>4. CacheOK' /\ LookupsOK' /\ evidence \subseteq evidence'
  BY <1>2, Frame
<1>5. GoodStep(req[r], Admitted(req[r]), evidence)
  BY <1>3, AdmittedGood DEF AnswersInv
<1>6. GoodStep(req[r], Answered(req[r], 429), evidence) /\ GoodStep(req[r], Answered(req[r], 503), evidence)
  BY NeutralGood
<1>7. PICK n : req' = One(r, n) /\ GoodStep(req[r], n, evidence')
  BY <1>1, <1>2, <1>5, <1>6 DEF Decisions
<1>8. GoodNext(r, n)
  BY <1>3, <1>7, GoodStepNext DEF AnswersInv
<1> QED
  BY <1>4, <1>7, <1>8, OneGoesOn DEF AnswersInv

\* A provider ends, in any way.
LEMMA ProviderStep ==
    ASSUME AnswersInv, NEW r \in Requests, req[r].stage = "quoting", NEW p, NEW outcome,
           ProviderEnds(r, p, outcome)
    PROVE  AnswersInv' /\ Refusals
<1> DEFINE k == [req[r] EXCEPT !.routes[p] = outcome]
<1>1. IsRequest(req[r]) /\ req[r].stage # "new"
  BY DEF AnswersInv, RequestsOK
<1>2. k = [req[r] EXCEPT !.routes = [req[r].routes EXCEPT ![p] = outcome]]
  BY <1>1 DEF IsRequest
<1>3. k.stage = req[r].stage /\ k.want = req[r].want
  BY <1>1, <1>2, RecordExcept, Zenon DEF IsRequest
<1>4. IsRequest(k)
  BY <1>1, <1>2, RequestExcept
<1>5. req' = One(r, Settled(k)) /\ UNCHANGED <<evidence, cache, resolution>>
  BY DEF ProviderEnds, tokenVars
<1> HIDE DEF k
<1>6. GoodStep(req[r], Settled(k), evidence')
  BY <1>3, <1>4, SettledGood
<1>7. GoodNext(r, Settled(k))
  BY <1>1, <1>6, GoodStepNext DEF AnswersInv
<1>8. CacheOK' /\ LookupsOK' /\ evidence \subseteq evidence'
  BY <1>5, Frame
<1> QED
  BY <1>5, <1>7, <1>8, OneGoesOn DEF AnswersInv

LEMMA RecordsStep ==
    ASSUME AnswersInv, NEW r \in Requests, Records(r)
    PROVE  AnswersInv' /\ Refusals
<1>1. IsRequest(req[r]) /\ req[r].stage # "new"
  BY DEF AnswersInv, RequestsOK, Records
<1>2. LookupsOK' /\ evidence \subseteq evidence'
  BY DEF AnswersInv, LookupsOK, Records, tokenVars
<1>3. CASE NotDelivered(r)
  <2>1. GoodStep(req[r], Answered(req[r], 503), evidence')
    BY NeutralGood
  <2>2. GoodNext(r, Answered(req[r], 503))
    BY <1>1, <2>1, GoodStepNext DEF AnswersInv
  <2>3. CacheOK'
    BY <1>2, <1>3 DEF NotDelivered, AnswersInv, CacheOK, Accounted
  <2> QED
    BY <1>2, <1>3, <2>2, <2>3, OneGoesOn DEF AnswersInv, NotDelivered
<1>4. CASE Offered(req[r]) = {} /\ Delivered(r)
  <2>1. GoodStep(req[r], Answered(req[r], Status(req[r])), evidence')
    BY StatusGood
  <2>2. GoodNext(r, Answered(req[r], Status(req[r])))
    BY <1>1, <2>1, GoodStepNext DEF AnswersInv
  <2>3. CacheOK'
    BY <1>2, <1>4 DEF Delivered, AnswersInv, CacheOK, Accounted
  <2> QED
    BY <1>2, <1>4, <2>2, <2>3, OneGoesOn DEF AnswersInv, Delivered
<1>5. CASE Offered(req[r]) # {} /\ Delivered(r) /\ evidence' = evidence \cup Recorded(r)
  <2>1. Accounted(Quote(r), req[r].want, evidence')
    BY <1>5 DEF Accounted, Quote, Recorded
  <2>2. GoodStep(req[r], Served(req[r], Quote(r)), evidence')
    BY <2>1, ServedGood, Zenon
  <2>3. GoodNext(r, Served(req[r], Quote(r)))
    BY <1>1, <2>2, GoodStepNext DEF AnswersInv
  <2>4. CacheOK'
    <3> SUFFICES ASSUME NEW e \in cache' PROVE Accounted(e.quote, e.key, evidence')
      BY DEF CacheOK
    <3>1. CASE e \in cache
      BY <1>2, <3>1 DEF AnswersInv, CacheOK, Accounted
    <3>2. CASE e = [key |-> CacheKey(req[r].want), quote |-> Quote(r)]
      BY <2>1, <3>2 DEF CacheKey
    <3> QED
      BY <1>5, <3>1, <3>2 DEF Delivered
  <2> QED
    BY <1>2, <1>5, <2>3, <2>4, OneGoesOn DEF AnswersInv, Delivered
<1> QED
  BY <1>3, <1>4, <1>5 DEF Records

-----------------------------------------------------------------------------
(* The registry's steps *)

LEMMA RefreshedStep ==
    ASSUME AnswersInv, UNCHANGED <<evidence, cache, resolution>>, NEW l, Refreshed(l)
    PROVE  AnswersInv' /\ Refusals
<1>1. CacheOK' /\ LookupsOK' /\ evidence \subseteq evidence'
  BY Frame
<1>2. CASE UNCHANGED req
  BY <1>2, Stays
<1>3. CASE ~UNCHANGED req
  <2>1. PICK tokens :
          req' = [r \in Requests |-> IF req[r].stage = "listing" THEN Listing(req[r], tokens) ELSE req[r]]
    BY <1>3 DEF Refreshed
  <2> DEFINE after == [r \in Requests |-> IF req[r].stage = "listing" THEN Listing(req[r], tokens) ELSE req[r]]
  <2>2. ASSUME NEW r \in Requests, req[r].stage = "listing"
        PROVE  GoodNext(r, Listing(req[r], tokens))
    <3>1. req[r].stage # "new" /\ IsRequest(req[r]) /\ req[r].want \in Wants
      BY <2>2 DEF AnswersInv, RequestsOK
    <3>2. GoodStep(req[r], Listing(req[r], tokens), evidence)
      BY <3>1, ListingGood DEF AnswersInv
    <3> QED
      BY <3>1, <3>2, GoodStepNext DEF AnswersInv
  <2>3. req' = after /\ after = [r \in Requests |-> after[r]]
    BY <2>1
  <2>4. \A r \in Requests : after[r] = req[r] \/ GoodNext(r, after[r])
    BY <2>2
  <2> HIDE DEF after
  <2>5. RequestsOK' /\ Refusals
    BY <1>1, <2>3, <2>4, RequestsGoOn DEF AnswersInv
  <2> QED
    BY <1>1, <2>5 DEF AnswersInv
<1> QED
  BY <1>2, <1>3

LEMMA LookedUpStep ==
    ASSUME AnswersInv, UNCHANGED <<evidence, cache>>, LookupsOK',
           NEW t, NEW end \in {"found", "absent", "limited", "unavailable"},
           end = "absent" => t \notin Existing, LookedUp(t, end)
    PROVE  AnswersInv' /\ Refusals
<1> DEFINE after == Awaited(t, end)
<1>1. CacheOK' /\ evidence \subseteq evidence'
  BY DEF AnswersInv, CacheOK
<1>2. ASSUME NEW r \in Requests, req[r].stage = "resolving", req[r].want.token = t
      PROVE  GoodNext(r, LookupEnd(req[r], end))
  <2>1. req[r].stage # "new" /\ IsRequest(req[r])
    BY <1>2 DEF AnswersInv, RequestsOK
  <2>2. end = "absent" => req[r].want.token \notin Existing
    BY <1>2
  <2>3. GoodStep(req[r], LookupEnd(req[r], end), evidence)
    BY <2>1, <2>2, LookupEndGood DEF AnswersInv
  <2> QED
    BY <2>1, <2>3, GoodStepNext DEF AnswersInv
<1>3. req' = after /\ after = [r \in Requests |-> after[r]]
  BY DEF LookedUp, Awaited
<1>4. \A r \in Requests : after[r] = req[r] \/ GoodNext(r, after[r])
  BY <1>2 DEF Awaited
<1> HIDE DEF after
<1>5. RequestsOK' /\ Refusals
  BY <1>1, <1>3, <1>4, RequestsGoOn DEF AnswersInv
<1> QED
  BY <1>1, <1>5 DEF AnswersInv

LEMMA ListPaysStep == ASSUME AnswersInv, ListPays PROVE AnswersInv' /\ Refusals
<1>1. UNCHANGED <<evidence, cache, resolution>> /\ \E l : Refreshed(l)
  BY DEF ListPays
<1> QED
  BY <1>1, RefreshedStep

LEMMA ListAnswersStep ==
    ASSUME AnswersInv, NEW source, ListAnswers(source) PROVE AnswersInv' /\ Refusals
<1>1. UNCHANGED <<evidence, cache, resolution>> /\ \E l : Refreshed(l)
  BY DEF ListAnswers
<1> QED
  BY <1>1, RefreshedStep

LEMMA LookupPaysStep ==
    ASSUME AnswersInv, NEW t, LookupPays(t) PROVE AnswersInv' /\ Refusals
<1>1. UNCHANGED <<evidence, cache, resolution>>
  BY DEF LookupPays
<1>2. LookupsOK'
  BY <1>1, Frame
<1>3. UNCHANGED req \/ \E end \in {"limited", "unavailable"} : LookedUp(t, end)
  BY DEF LookupPays, Decisions
<1>4. CASE UNCHANGED req
  BY <1>1, <1>4, Stays
<1>5. CASE \E end \in {"limited", "unavailable"} : LookedUp(t, end)
  <2>1. PICK end \in {"limited", "unavailable"} : LookedUp(t, end)
    BY <1>5
  <2>2. end # "absent" /\ end \in {"found", "absent", "limited", "unavailable"}
    OBVIOUS
  <2> QED
    BY <1>1, <1>2, <2>1, <2>2, LookedUpStep
<1> QED
  BY <1>3, <1>4, <1>5

LEMMA LookupAnswersStep ==
    ASSUME AnswersInv, NEW t \in Tokens, LookupAnswers(t) PROVE AnswersInv' /\ Refusals
<1>1. UNCHANGED <<evidence, cache>>
  BY DEF LookupAnswers
<1>2. PICK end \in {"found", "absent", "unavailable"} :
        /\ LookedUp(t, end)
        /\ end = "absent" => t \notin Existing
        /\ resolution' = [resolution EXCEPT ![t] = end] \/ (end = "unavailable" /\ UNCHANGED resolution)
  BY DEF LookupAnswers, LookupFailed
<1>3. LookupsOK'
  BY <1>2 DEF AnswersInv, LookupsOK
<1>4. end \in {"found", "absent", "limited", "unavailable"}
  OBVIOUS
<1> QED
  BY <1>1, <1>2, <1>3, <1>4, LookedUpStep

LEMMA LookupExpiresStep ==
    ASSUME AnswersInv, NEW t \in Tokens, LookupExpires(t) PROVE AnswersInv' /\ Refusals
<1>1. LookupsOK' /\ CacheOK'
  BY DEF AnswersInv, LookupsOK, CacheOK, LookupExpires, Expires
<1>2. UNCHANGED <<req, evidence>>
  BY DEF LookupExpires, Expires
<1> QED
  BY <1>1, <1>2, NoRefusals DEF AnswersInv, RequestsOK

LEMMA AnswersNext == AnswersInv /\ [Next]_vars => AnswersInv' /\ (Refusals \/ UNCHANGED vars)
<1> SUFFICES ASSUME AnswersInv, [Next]_vars PROVE AnswersInv' /\ Refusals
  OBVIOUS
<1>1. ASSUME NEW r \in Requests, NEW w \in Wants, Arrives(r, w) PROVE AnswersInv' /\ Refusals
  BY <1>1, ArrivesStep
<1>2. ASSUME NEW r \in Requests, IsLimited(r) PROVE AnswersInv' /\ Refusals
  BY <1>2, IsLimitedStep
<1>3. ASSUME NEW r \in Requests, LifiPays(r) PROVE AnswersInv' /\ Refusals
  BY <1>3, ProviderStep DEF LifiPays
<1>4. ASSUME NEW r \in Requests, Records(r) PROVE AnswersInv' /\ Refusals
  BY <1>4, RecordsStep
<1>5. ASSUME NEW r \in Requests, NEW p,
             ProviderAnswers(r, p) \/ ProviderRefuses(r, p) \/ ProviderTakesTooLong(r, p)
      PROVE  AnswersInv' /\ Refusals
  <2>1. req[r].stage = "quoting" /\ \E outcome : ProviderEnds(r, p, outcome)
    BY <1>5 DEF ProviderAnswers, ProviderRefuses, ProviderTakesTooLong, Asked
  <2> QED
    BY <2>1, ProviderStep
<1>6. CASE ListPays
  BY <1>6, ListPaysStep
<1>7. ASSUME NEW source, ListAnswers(source) PROVE AnswersInv' /\ Refusals
  BY <1>7, ListAnswersStep
<1>8. ASSUME NEW t \in Tokens, LookupPays(t) \/ LookupAnswers(t) \/ LookupExpires(t)
      PROVE  AnswersInv' /\ Refusals
  BY <1>8, LookupPaysStep, LookupAnswersStep, LookupExpiresStep
<1>9. CASE \/ \E k \in Keys : RedisWindowEnds(k) \/ MemoryWindowEnds(k)
           \/ ListExpires \/ (\E e \in cache : QuoteExpires(e)) \/ UNCHANGED vars
  <2>1. UNCHANGED <<req, evidence, resolution>> /\ cache' \subseteq cache
    BY <1>9 DEF RedisWindowEnds, MemoryWindowEnds, ListExpires, QuoteExpires, Expires, vars, tokenVars
  <2> QED
    BY <2>1, Stays
<1> QED
  BY <1>1, <1>2, <1>3, <1>4, <1>5, <1>6, <1>7, <1>8, <1>9 DEF Next

LEMMA AnswersAlways == Spec => []AnswersInv
BY AnswersInit, AnswersNext, PTL DEF Spec

-----------------------------------------------------------------------------
(* The promises *)

\* A quote that is served was made for this wallet, receiver and owner
\* (QuoteIsTheRequests of QuoteService, cacheKey of lib/server/cache.ts).
THEOREM QuotesAreTheAskers == Spec => []QuoteIsTheRequests
<1>1. AnswersInv => QuoteIsTheRequests
  BY DEF AnswersInv, RequestsOK, Truthful, Accounted, QuoteIsTheRequests, Delivering
<1> QED
  BY <1>1, AnswersAlways, PTL

\* A quote that is served to an EVM owner, from the cache too, has its
\* evidence recorded for that owner (ServedIsRecorded, captureRevenueEvidence).
THEOREM QuotesAreRecorded == Spec => []ServedIsRecorded
<1>1. AnswersInv => ServedIsRecorded
  BY DEF AnswersInv, RequestsOK, Truthful, Accounted, ServedIsRecorded, Delivering
<1> QED
  BY <1>1, AnswersAlways, PTL

\* "Not found", "unsupported" and "no route" are never the mistake of a source
\* that failed (AbsenceIsTrue, getTokenByAddress and providerErrorResponse).
THEOREM AbsencesAreTrue == Spec => AbsenceIsTrue
<1> DEFINE Told == \A r \in Requests : req[r].stage # "done" /\ req'[r].stage = "done" =>
                     /\ TokenAbsent(req'[r]) => req'[r].want.token \notin Existing
                     /\ req'[r].status = 422 => Range(req[r].routes) = {"refused"}
<1>1. AnswersInv /\ [Next]_vars => [Told]_vars
  <2> SUFFICES ASSUME AnswersInv', Refusals PROVE Told
    BY AnswersNext
  <2> QED
    BY Zenon DEF AnswersInv, RequestsOK, Truthful, Refusals, Refused
<1> QED
  BY <1>1, AnswersAlways, PTL DEF Spec, AbsenceIsTrue

-----------------------------------------------------------------------------
(* The LI.FI budget *)

\* What Redis has let through in its window, what memory has.
Through == IF redis[Budget] <= BudgetMax THEN redis[Budget] ELSE BudgetMax
InMemory == memory[Budget]

\* What the other counter may have let through in a window that has ended.
Before == IF RedisConfigured /\ FailOpen THEN BudgetMax - 1 ELSE 0

\* The calls of a window: its own counter's, and those of the other counter's
\* windows that it overlaps, one that began earlier and one that began later.
CallsBounded ==
    /\ redis[Budget] > 0 => calls.redis <= Through + IF Budget \in early THEN InMemory - 1 ELSE Before + InMemory
    /\ memory[Budget] > 0 => calls.memory <= InMemory + IF Budget \in early THEN Before + Through ELSE Through - 1
    /\ redis[Budget] = 0 => calls.redis = 0
    /\ memory[Budget] = 0 => calls.memory = 0

\* Memory counts at most the budget, and only where it stands in for Redis.
BudgetInv ==
    /\ redis \in [Keys -> Nat] /\ memory \in [Keys -> Nat]
    /\ calls \in [redis : Nat, memory : Nat]
    /\ memory[Budget] <= BudgetMax
    /\ Budget \in early => memory[Budget] > 0
    /\ memory[Budget] > 0 /\ redis[Budget] = 0 => Budget \in early
    /\ RedisConfigured /\ ~FailOpen => memory[Budget] = 0
    /\ ~RedisConfigured => redis[Budget] = 0
    /\ CallsBounded

LEMMA BudgetIsKey == Budget \in Keys
BY DEF Keys

\* A route's keys do not touch the budget.
LEMMA LimitKeysAreOthers ==
    ASSUME NEW w \in Wants, NEW i \in 1 .. Len(LimitKeys(w))
    PROVE  LimitKeys(w)[i] # Budget
<1>1. CASE w.kind = "quote"
  <2>1. LimitKeys(w) = <<<<"quote-ip", "ip">>, <<"quote-wallet", w.taker>>>>
    BY <1>1 DEF LimitKeys
  <2>2. i \in {1, 2}
    BY <2>1
  <2> QED
    BY <2>1, <2>2 DEF Budget
<1>2. CASE w.kind = "tokens"
  <2>1. LimitKeys(w) = <<<<"tokens", "ip">>>>
    BY <1>2 DEF LimitKeys
  <2>2. i = 1
    BY <2>1
  <2> QED
    BY <2>1, <2>2 DEF Budget
<1>3. CASE w.kind = "token"
  <2>1. LimitKeys(w) = <<<<"token-address-ip", "ip">>, <<"token-address", w.token>>>>
    BY <1>3 DEF LimitKeys
  <2>2. i \in {1, 2}
    BY <2>1
  <2> QED
    BY <2>1, <2>2 DEF Budget
<1> QED
  BY <1>1, <1>2, <1>3, WantsAssumption

\* Requests are counted in naturals, one at a time.
LEMMA CountedType ==
    ASSUME NEW count \in [Keys -> Nat], NEW keys, NEW max, NEW itself
    PROVE  Counted(count, keys, max, itself) \in [Keys -> Nat]
BY DEF Counted

LEMMA CountedOthers ==
    ASSUME NEW count \in [Keys -> Nat], NEW w \in Wants, NEW max
    PROVE  /\ Counted(count, LimitKeys(w), max, FALSE)[Budget] = count[Budget]
           /\ Counted(count, LimitKeys(w), max, TRUE)[Budget] = count[Budget]
BY BudgetIsKey, LimitKeysAreOthers DEF Counted

LEMMA CountedBudget ==
    ASSUME NEW count \in [Keys -> Nat]
    PROVE  /\ Counted(count, <<Budget>>, BudgetMax, FALSE)[Budget] = count[Budget] + 1
           /\ Counted(count, <<Budget>>, BudgetMax, TRUE)[Budget]
                = IF count[Budget] < BudgetMax THEN count[Budget] + 1 ELSE count[Budget]
           /\ Decision(count, <<Budget>>, BudgetMax) = "allowed" <=> count[Budget] < BudgetMax
<1> DEFINE keys == <<Budget>>
<1>1. Len(keys) = 1 /\ keys[1] = Budget
  OBVIOUS
<1> HIDE DEF keys
<1>2. /\ Pass(count, keys, 1, BudgetMax) <=> count[Budget] < BudgetMax
      /\ Pass(count, keys, 1 - 1, BudgetMax)
  BY <1>1 DEF Pass
<1>3. /\ Counted(count, keys, BudgetMax, FALSE)[Budget] = count[Budget] + 1
      /\ Counted(count, keys, BudgetMax, TRUE)[Budget]
           = IF count[Budget] < BudgetMax THEN count[Budget] + 1 ELSE count[Budget]
  BY <1>1, <1>2, BudgetIsKey DEF Counted
<1>4. Decision(count, keys, BudgetMax) = "allowed" <=> count[Budget] < BudgetMax
  BY <1>1, <1>2 DEF Decision
<1> QED
  BY <1>3, <1>4 DEF keys

\* The windows stay in order.
LEMMA OrderStep ==
    ASSUME redis' \in [Keys -> Nat], memory' \in [Keys -> Nat], InOrder
    PROVE  /\ Budget \in early' <=> memory'[Budget] > 0 /\ (Budget \in early \/ redis'[Budget] = 0)
           /\ Budget \in early' => memory'[Budget] > 0
           /\ memory'[Budget] > 0 /\ redis'[Budget] = 0 => Budget \in early'
BY BudgetIsKey DEF InOrder

\* A call that is sent was let through by one of the counters.
LEMMA BudgetStep ==
    ASSUME BudgetInv, NEW decision, acquireLifiRequestBudget(decision)
    PROVE  BudgetInv'
<1> DEFINE sent == decision = "allowed"
<1>1. /\ redis' = redis \/ redis' = Counted(redis, <<Budget>>, BudgetMax, FALSE)
      /\ memory' = memory \/ memory' = Counted(memory, <<Budget>>, BudgetMax, TRUE)
      /\ InOrder
  BY DEF acquireLifiRequestBudget, rateLimitMany, Decides, RedisCounts, MemoryLimits
<1>2. redis' \in [Keys -> Nat] /\ memory' \in [Keys -> Nat]
  <2>1. Counted(redis, <<Budget>>, BudgetMax, FALSE) \in [Keys -> Nat]
    BY CountedType, Zenon DEF BudgetInv
  <2>2. Counted(memory, <<Budget>>, BudgetMax, TRUE) \in [Keys -> Nat]
    BY CountedType, Zenon DEF BudgetInv
  <2> QED
    BY <1>1, <2>1, <2>2, Zenon DEF BudgetInv
<1>3. redis[Budget] \in Nat /\ memory[Budget] \in Nat /\ calls.redis \in Nat /\ calls.memory \in Nat
  BY BudgetIsKey DEF BudgetInv
<1>4. redis'[Budget] = redis[Budget] \/ redis'[Budget] = redis[Budget] + 1
  BY <1>1, CountedBudget DEF BudgetInv
<1>5. memory'[Budget] = memory[Budget] \/ (memory[Budget] < BudgetMax /\ memory'[Budget] = memory[Budget] + 1)
  BY <1>1, <1>3, CountedBudget, BudgetAssumption DEF BudgetInv
<1>6. sent => \/ redis[Budget] < BudgetMax /\ redis'[Budget] = redis[Budget] + 1
              \/ memory'[Budget] = memory[Budget] + 1
  <2>1. SUFFICES ASSUME decision = "allowed", Decides(<<Budget>>, BudgetMax, decision)
                 PROVE  \/ redis[Budget] < BudgetMax /\ redis'[Budget] = redis[Budget] + 1
                        \/ memory'[Budget] = memory[Budget] + 1
    BY DEF acquireLifiRequestBudget, rateLimitMany
  <2>2. CASE decision = Decision(redis, <<Budget>>, BudgetMax) /\ RedisCounts(<<Budget>>, BudgetMax)
    BY <2>1, <2>2, CountedBudget DEF BudgetInv, RedisCounts
  <2>3. CASE MemoryLimits(<<Budget>>, BudgetMax, decision)
    BY <2>1, <2>3, CountedBudget DEF BudgetInv, MemoryLimits
  <2> QED
    BY <2>1, <2>2, <2>3 DEF Decides
<1>7. calls' = IF sent THEN [redis |-> IF redis'[Budget] > 0 THEN calls.redis + 1 ELSE 0,
                             memory |-> IF memory'[Budget] > 0 THEN calls.memory + 1 ELSE 0]
               ELSE calls
  BY DEF acquireLifiRequestBudget
<1> HIDE DEF sent
<1>8. /\ calls'.redis = IF sent THEN (IF redis'[Budget] > 0 THEN calls.redis + 1 ELSE 0) ELSE calls.redis
      /\ calls'.memory = IF sent THEN (IF memory'[Budget] > 0 THEN calls.memory + 1 ELSE 0) ELSE calls.memory
      /\ calls' \in [redis : Nat, memory : Nat]
  BY <1>3, <1>7 DEF BudgetInv
<1>9. /\ Budget \in early' <=> memory'[Budget] > 0 /\ (Budget \in early \/ redis'[Budget] = 0)
      /\ Budget \in early' => memory'[Budget] > 0
      /\ memory'[Budget] > 0 /\ redis'[Budget] = 0 => Budget \in early'
  BY <1>1, <1>2, OrderStep
<1>10. memory'[Budget] <= BudgetMax
  BY <1>3, <1>5, BudgetAssumption DEF BudgetInv
<1>11. RedisConfigured /\ ~FailOpen => UNCHANGED memory
  BY DEF acquireLifiRequestBudget, rateLimitMany, Decides
<1>12. ~RedisConfigured => UNCHANGED redis
  BY DEF acquireLifiRequestBudget, rateLimitMany, Decides
<1>13. CallsBounded'
  <2>1. /\ Before \in Nat /\ BudgetMax \in Nat /\ BudgetMax > 0
        /\ redis[Budget] > 0 /\ memory[Budget] > 0 => RedisConfigured /\ FailOpen
    BY BudgetAssumption, <1>3 DEF Before, BudgetInv
  <2>2. /\ Before \in Nat
        /\ redis[Budget] > 0 => calls.redis <= Through + IF Budget \in early THEN InMemory - 1 ELSE Before + InMemory
        /\ memory[Budget] > 0 => calls.memory <= InMemory + IF Budget \in early THEN Before + Through ELSE Through - 1
        /\ redis[Budget] = 0 => calls.redis = 0
        /\ memory[Budget] = 0 => calls.memory = 0
        /\ memory[Budget] > 0 /\ redis[Budget] = 0 => Budget \in early
        /\ Budget \in early => memory[Budget] > 0
    BY <2>1 DEF BudgetInv, CallsBounded
  <2>3. redis'[Budget] > 0 => calls'.redis <= Through' + IF Budget \in early' THEN InMemory' - 1 ELSE Before + InMemory'
    <3>1. CASE redis[Budget] = 0
      BY <1>3, <1>4, <1>5, <1>6, <1>8, <1>9, <2>1, <2>2, <3>1 DEF Through, InMemory
    <3>2. CASE redis[Budget] > 0
      <4>1. Budget \in early' <=> Budget \in early
        BY <1>3, <1>4, <1>5, <1>9, <2>2, <3>2
      <4> QED
        BY <1>3, <1>4, <1>5, <1>6, <1>8, <2>1, <2>2, <3>2, <4>1 DEF Through, InMemory
    <3> QED
      BY <1>3, <3>1, <3>2
  <2>4. memory'[Budget] > 0 => calls'.memory <= InMemory' + IF Budget \in early' THEN Before + Through' ELSE Through' - 1
    <3>1. CASE memory[Budget] = 0
      BY <1>3, <1>4, <1>5, <1>6, <1>8, <1>9, <2>1, <2>2, <3>1 DEF Through, InMemory
    <3>2. CASE memory[Budget] > 0
      <4>1. Budget \in early' <=> Budget \in early
        BY <1>3, <1>4, <1>5, <1>9, <2>2, <3>2
      <4> QED
        BY <1>3, <1>4, <1>5, <1>6, <1>8, <2>1, <2>2, <3>2, <4>1 DEF Through, InMemory
    <3> QED
      BY <1>3, <3>1, <3>2
  <2>5. /\ redis'[Budget] = 0 => calls'.redis = 0
        /\ memory'[Budget] = 0 => calls'.memory = 0
    BY <1>3, <1>4, <1>5, <1>8, <2>2
  <2> QED
    BY <2>3, <2>4, <2>5 DEF CallsBounded, Before
<1> QED
  BY <1>2, <1>8, <1>9, <1>10, <1>11, <1>12, <1>13 DEF BudgetInv

\* Nothing that is counted for other keys matters.
LEMMA BudgetFrame ==
    ASSUME BudgetInv, redis' \in [Keys -> Nat], memory' \in [Keys -> Nat], InOrder, UNCHANGED calls,
           redis'[Budget] = redis[Budget], memory'[Budget] = memory[Budget]
    PROVE  BudgetInv'
<1>1. /\ Budget \in early' <=> memory[Budget] > 0 /\ (Budget \in early \/ redis[Budget] = 0)
  BY OrderStep
<1>2. Budget \in early' <=> Budget \in early
  BY <1>1 DEF BudgetInv
<1>3. CallsBounded'
  BY <1>2 DEF BudgetInv, CallsBounded, Through, InMemory
<1> QED
  BY <1>2, <1>3 DEF BudgetInv

\* A request of a route leaves the budget alone.
LEMMA LimitStep ==
    ASSUME BudgetInv, UNCHANGED calls, NEW w \in Wants, NEW decision,
           rateLimitMany(LimitKeys(w), RateMax, decision)
    PROVE  BudgetInv'
<1>1. /\ redis' = redis \/ redis' = Counted(redis, LimitKeys(w), RateMax, FALSE)
      /\ memory' = memory \/ memory' = Counted(memory, LimitKeys(w), RateMax, TRUE)
      /\ InOrder
  BY DEF rateLimitMany, Decides, RedisCounts, MemoryLimits
<1> DEFINE r == Counted(redis, LimitKeys(w), RateMax, FALSE)
           m == Counted(memory, LimitKeys(w), RateMax, TRUE)
<1>2. r \in [Keys -> Nat] /\ m \in [Keys -> Nat]
  BY CountedType, Zenon DEF BudgetInv
<1>3. r[Budget] = redis[Budget] /\ m[Budget] = memory[Budget]
  <2>1. redis \in [Keys -> Nat] /\ memory \in [Keys -> Nat]
    BY DEF BudgetInv
  <2>2. r[Budget] = redis[Budget]
    BY <2>1, CountedOthers
  <2>3. m[Budget] = memory[Budget]
    BY <2>1, CountedOthers
  <2> QED
    BY <2>2, <2>3
<1> HIDE DEF r, m
<1>4. redis' \in [Keys -> Nat] /\ redis'[Budget] = redis[Budget]
  BY <1>1, <1>2, <1>3, Zenon DEF r, m, BudgetInv
<1>5. memory' \in [Keys -> Nat] /\ memory'[Budget] = memory[Budget]
  BY <1>1, <1>2, <1>3, Zenon DEF r, m, BudgetInv
<1> QED
  BY <1>1, <1>4, <1>5, BudgetFrame

\* A window of the budget ends before those that began after it.
LEMMA WindowStep ==
    ASSUME BudgetInv, NEW k \in Keys, RedisWindowEnds(k) \/ MemoryWindowEnds(k)
    PROVE  BudgetInv'
<1>1. redis' \in [Keys -> Nat] /\ memory' \in [Keys -> Nat] /\ InOrder
  BY DEF RedisWindowEnds, MemoryWindowEnds, BudgetInv
<1>2. CASE k # Budget
  BY <1>1, <1>2, BudgetIsKey, BudgetFrame DEF RedisWindowEnds, MemoryWindowEnds, BudgetInv
<1>3. /\ Budget \in early' <=> memory'[Budget] > 0 /\ (Budget \in early \/ redis'[Budget] = 0)
      /\ Budget \in early' => memory'[Budget] > 0
      /\ memory'[Budget] > 0 /\ redis'[Budget] = 0 => Budget \in early'
  BY <1>1, OrderStep
<1>4. redis[Budget] \in Nat /\ memory[Budget] \in Nat /\ calls.redis \in Nat /\ calls.memory \in Nat
  BY BudgetIsKey DEF BudgetInv
<1>5. /\ Before \in Nat /\ BudgetMax \in Nat /\ BudgetMax > 0
      /\ redis[Budget] > 0 /\ memory[Budget] > 0 => Before = BudgetMax - 1
  BY BudgetAssumption, <1>4 DEF Before, BudgetInv
<1>6. CASE k = Budget /\ RedisWindowEnds(k)
  <2>1. /\ redis[Budget] > 0 /\ Budget \notin early
        /\ redis'[Budget] = 0 /\ memory' = memory
        /\ calls' \in [redis : Nat, memory : Nat] /\ calls'.redis = 0 /\ calls'.memory = calls.memory
    BY <1>6, BudgetIsKey DEF RedisWindowEnds, BudgetInv
  <2>2. CallsBounded'
    BY <1>3, <1>4, <1>5, <2>1 DEF BudgetInv, CallsBounded, Through, InMemory
  <2> QED
    BY <1>1, <1>3, <2>1, <2>2 DEF BudgetInv
<1>7. CASE k = Budget /\ MemoryWindowEnds(k)
  <2>1. /\ Budget \in early
        /\ memory'[Budget] = 0 /\ redis' = redis
        /\ calls' \in [redis : Nat, memory : Nat] /\ calls'.memory = 0 /\ calls'.redis = calls.redis
    BY <1>7, BudgetIsKey DEF MemoryWindowEnds, BudgetInv
  <2>2. CallsBounded'
    BY <1>3, <1>4, <1>5, <2>1 DEF BudgetInv, CallsBounded, Through, InMemory
  <2> QED
    BY <1>1, <1>3, <1>4, <1>5, <2>1, <2>2 DEF BudgetInv
<1> QED
  BY <1>2, <1>6, <1>7

LEMMA BudgetNext == RequestsOK /\ BudgetInv /\ [Next]_vars => BudgetInv'
<1> SUFFICES ASSUME RequestsOK, BudgetInv, [Next]_vars PROVE BudgetInv'
  OBVIOUS
<1>1. CASE UNCHANGED <<counters, calls>>
  BY <1>1 DEF counters, BudgetInv, CallsBounded, Through, InMemory
<1>2. CASE \E decision \in Decisions : acquireLifiRequestBudget(decision)
  BY <1>2, BudgetStep
<1>3. ASSUME NEW r \in Requests, IsLimited(r) PROVE BudgetInv'
  <2>1. req[r].want \in Wants
    BY <1>3 DEF IsLimited, RequestsOK
  <2> QED
    BY <1>3, <2>1, LimitStep DEF IsLimited
<1>4. ASSUME NEW k \in Keys, RedisWindowEnds(k) \/ MemoryWindowEnds(k) PROVE BudgetInv'
  BY <1>4, WindowStep
<1>5. ASSUME NEW r \in Requests, NEW w \in Wants, Arrives(r, w) PROVE BudgetInv'
  BY <1>1, <1>5 DEF Arrives, limiterVars
<1>6. ASSUME NEW r \in Requests, LifiPays(r) PROVE BudgetInv'
  BY <1>2, <1>6 DEF LifiPays
<1>7. ASSUME NEW r \in Requests, Records(r) PROVE BudgetInv'
  BY <1>1, <1>7 DEF Records, limiterVars
<1>8. ASSUME NEW r \in Requests, NEW p,
             ProviderAnswers(r, p) \/ ProviderRefuses(r, p) \/ ProviderTakesTooLong(r, p)
      PROVE  BudgetInv'
  BY <1>1, <1>8 DEF ProviderAnswers, ProviderRefuses, ProviderTakesTooLong, limiterVars
<1>9. CASE ListPays
  BY <1>2, <1>9 DEF ListPays
<1>10. ASSUME NEW source, ListAnswers(source) PROVE BudgetInv'
  BY <1>1, <1>10 DEF ListAnswers, limiterVars
<1>11. ASSUME NEW t \in Tokens, LookupPays(t) PROVE BudgetInv'
  BY <1>2, <1>11 DEF LookupPays
<1>12. ASSUME NEW t \in Tokens, LookupAnswers(t) \/ LookupExpires(t) PROVE BudgetInv'
  BY <1>1, <1>12 DEF LookupAnswers, LookupExpires, limiterVars
<1>13. CASE ListExpires \/ (\E e \in cache : QuoteExpires(e)) \/ UNCHANGED vars
  BY <1>1, <1>13 DEF ListExpires, QuoteExpires, vars, limiterVars
<1> QED
  BY <1>3, <1>4, <1>5, <1>6, <1>7, <1>8, <1>9, <1>10, <1>11, <1>12, <1>13 DEF Next

\* LI.FI is sent no more than its budget while a window of the limiter lasts,
\* and, where memory stands in for a Redis that fails, less than three times
\* the budget (WithinBudget, acquireLifiRequestBudget).
THEOREM BudgetIsKept == Spec => []WithinBudget
<1>1. Init => BudgetInv
  BY BudgetIsKey, BudgetAssumption DEF Init, BudgetInv, CallsBounded
<1>2. BudgetInv => WithinBudget
  <2> SUFFICES ASSUME BudgetInv PROVE WithinBudget
    OBVIOUS
  <2>1. redis[Budget] \in Nat /\ memory[Budget] \in Nat /\ calls.redis \in Nat /\ calls.memory \in Nat
    BY BudgetIsKey DEF BudgetInv
  <2>2. /\ calls.redis <= IF RedisConfigured /\ FailOpen THEN 3 * BudgetMax - 1 ELSE BudgetMax
        /\ calls.memory <= IF RedisConfigured /\ FailOpen THEN 3 * BudgetMax - 1 ELSE BudgetMax
    BY <2>1, BudgetAssumption DEF BudgetInv, CallsBounded, Through, InMemory, Before
  <2>3. calls["redis"] = calls.redis /\ calls["memory"] = calls.memory
    BY DEF BudgetInv
  <2> QED
    BY <2>2, <2>3 DEF WithinBudget
<1>3. AnswersInv => RequestsOK
  BY DEF AnswersInv
<1> QED
  BY <1>1, <1>2, <1>3, AnswersAlways, BudgetNext, PTL DEF Spec

=============================================================================
