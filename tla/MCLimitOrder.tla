---------------------------- MODULE MCLimitOrder ----------------------------
(* Instances of LimitOrder for TLC.  Every order belongs to one wallet and    *)
(* one allowance scope, so that a second order must wait for the first.       *)
EXTENDS LimitOrder, TLC

MCOwnerOf == [o \in Order |-> CHOOSE w \in Wallet : TRUE]
MCScopeOf == [o \in Order |-> "usdc"]

\* All is switched on, and the two configurations between which a
\* deployment moves when 1inch is switched off.
EverythingOn == {{"submission", "oneinch"}}
OneInchMayGo == {{"submission", "oneinch"}, {"submission"}}
NoOrders == {}
AllOrders == Order

Symmetric == Permutations(Order) \cup Permutations(Submitter)

\* Next without what happens to 1inch orders alone, and without deployments, which
\* change nothing where there is one configuration: MCLimitOrders has both.
CowNext ==
    \/ \E s \in Submitter :
        \/ \E o \in Order : SaveNew(s, o) \/ SaveAgain(s, o) \/ ClaimDue(s, o)
        \/ ClaimById(s)
        \/ PostAccepted(s) \/ PostUnavailable(s) \/ PostRefused(s)
        \/ CompleteSubmission(s) \/ CrashSubmitter(s)
    \/ \E c \in Checker : Reconciliation(c)
    \/ \E k \in Canceller : Cancellation(k)
    \/ \E o \in Order :
        \/ Deadline(o) \/ LatePostLands(o) \/ Fill(o) \/ CancellationLands(o)
        \/ SubmissionLeaseLapses(o) \/ CheckLeaseLapses(o)
    \/ MarkExpiredPending \/ ToggleFlag

CowSpec == Init /\ [][CowNext]_vars /\ Fairness
=============================================================================
