--------------------------- MODULE MCQuoteService ---------------------------
(* A page that asks for tokens and quotes, and a route that only LI.FI has.  *)
(* "all": two requests of any kind, one fault of Redis and one expiry.        *)
(* "budget": two requests for the rare token one after the other, with as     *)
(* many faults and expiries as it takes to spend the budget in both counters. *)
EXTENDS QuoteService
CONSTANT MaxFaultsAll, MaxExpiriesAll    \* the bounds of "all"
VARIABLE mode
Want(kind, taker, to, token, cross, fault) ==
    [kind |-> kind, taker |-> taker, owner |-> IF taker = "evm" THEN taker ELSE "", to |-> to, token |-> token,
     cross |-> cross, fault |-> fault]
TwoRequests == {1, 2}
Rare == Want("quote", "sol", "x", "rare", TRUE, "")
AskedFor ==
    {Want("quote", "evm", to, "listed", FALSE, "") : to \in {"x", "y"}}
    \cup {Rare,
          Want("quote", "evm", "x", "listed", FALSE, "input"), Want("quote", "evm", "x", "listed", FALSE, "origin"),
          Want("tokens", "", "", "", FALSE, ""), Want("token", "", "", "rare", FALSE, ""),
          Want("token", "", "", "none", FALSE, ""), Want("token", "", "", "bad", FALSE, "input")}

\* A window need not end before somebody is about to be counted under its key.
Due(k) ==
    \/ \E r \in Requests : req[r].stage = "limiting" /\ k \in ToSet(LimitKeys(req[r].want))
    \/ /\ k = Budget
       /\ \/ load.lifi = "started" \/ \E t \in Tokens : lookup[t] = "started"
          \/ \E r \in Requests : "started" \in Range(req[r].routes)
InTime == \A k \in Keys : redis'[k] < redis[k] \/ memory'[k] < memory[k] => Due(k)

OneByOne ==
    \/ \E r \in Requests : (\A s \in Requests : s < r => req[s].stage = "done") /\ Arrives(r, Rare)
    \/ \E r \in Requests : IsLimited(r) \/ LifiPays(r) \/ ProviderTakesTooLong(r, "lifi") \/ Records(r)
    \/ ListPays \/ \E source \in {"uniswap", "lifi"} : ListAnswers(source)
    \/ LookupPays("rare") \/ LookupExpires("rare")
    \/ LookupAnswers("rare") /\ resolution'["rare"] = "found"
    \/ RedisWindowEnds(Budget) \/ MemoryWindowEnds(Budget) \/ ListExpires

\* The receivers are alike: the first quote is for x.  A request that is at
\* fault, and leaves only its count, comes second.
XFirst == req'[1].want # None => req'[1].want.to # "y" /\ req'[1].want.fault = ""

AllNext == Next /\ faults' <= MaxFaultsAll /\ expiries' <= MaxExpiriesAll /\ XFirst

MCInit == Init /\ mode \in {"all", "budget"}
MCNext == mode' = mode /\ (IF mode = "all" THEN AllNext ELSE OneByOne) /\ InTime
MCSpec == MCInit /\ [][MCNext]_<<vars, mode>>
=============================================================================
