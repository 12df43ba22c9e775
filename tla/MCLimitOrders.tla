---------------------------- MODULE MCLimitOrders ----------------------------
(* Two instances of LimitOrder at once, as "part" says.                       *)
(* "pair": two CoW orders that need the same approval and two submitting      *)
(* threads; nobody cancels, the feature flag, which only ever forbids steps,  *)
(* stays on, and 1inch is not switched, which is nothing to CoW orders.       *)
(* "single": one 1inch order, submitted by two threads, checked and cancelled *)
(* at once, while deployments switch 1inch off and on.                        *)
EXTENDS LimitOrder, TLC

CONSTANTS o1, o2, o3, w

VARIABLE part

PairOrders == {o1, o2}
Orders == {o1, o2, o3}
OneWallet == {w}
OwnerOfEach == [o \in Orders |-> w]
ScopeOfEach == [o \in Orders |-> IF o = o3 THEN "1inch" ELSE "cow"]
OneInchMayGo == {{"submission", "oneinch"}, {"submission"}}

\* Nothing happens to these orders: they are never saved and the world leaves them alone.
LeftAlone(S) ==
    \A o \in S : /\ orders'[o] = orders[o] /\ expired'[o] = expired[o] /\ book'[o] = book[o]
                 /\ inFlight'[o] = inFlight[o] /\ cancelAsked'[o] = cancelAsked[o]
                 /\ doubt'[o] = doubt[o]

MCInit == Init /\ "oneinch" \in config /\ part \in {"pair", "single"}

\* The status worker of the pair neither fails nor dies.
Reconciling(c) ==
    \/ \E o \in PairOrders : ClaimStatusCheck(c, o)
    \/ CheckAnswered(c) \/ CompleteStatusCheck(c)

PairNext ==
    /\ part = "pair"
    /\ \/ \E s \in Submitter : Submission(s)
       \/ \E c \in Checker : Reconciling(c)
       \/ \E o \in PairOrders : Environment(o) /\ ~CheckLeaseLapses(o)
       \/ MarkExpiredPending
    /\ LeftAlone({o3})
    /\ UNCHANGED <<can, enabled, config, part>>

SingleNext == part = "single" /\ Next /\ LeftAlone(PairOrders) /\ UNCHANGED part

MCSpec == MCInit /\ [][PairNext \/ SingleNext]_<<vars, part>>

Symmetric == Permutations(PairOrders) \cup Permutations(Submitter)
=============================================================================
