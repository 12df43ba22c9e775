------------------------ MODULE AllowanceReservation ------------------------
(***************************************************************************)
(* What a saved limit order is promised, seen from the wallet: the token   *)
(* approval of one (wallet, chain, sell token, provider) is reserved for   *)
(* one order at a time, an order executes only while it holds the          *)
(* reservation, at most once, and an order that gave its reservation back  *)
(* never gets it again.  The one exception is an order the backend has     *)
(* judged wrongly: it wrote down that the provider would not have it while *)
(* an earlier attempt was unanswered, and such an order may still execute. *)
(***************************************************************************)
CONSTANTS Order, ScopeOf

VARIABLES
    reserved,   \* the orders that hold the approval of their scope
    released,   \* the orders that have given it back
    overruled,  \* the orders whose unanswered attempt a later answer overruled
    executed    \* the orders a solver or a taker has filled

vars == <<reserved, released, overruled, executed>>

Init == reserved = {} /\ released = {} /\ overruled = {} /\ executed = {}

Reserve(o) ==
    /\ o \notin reserved \cup released
    /\ \A p \in reserved : ScopeOf[p] # ScopeOf[o]
    /\ reserved' = reserved \cup {o}
    /\ UNCHANGED <<released, overruled, executed>>

Execute(o) ==
    /\ o \in (reserved \cup overruled) \ executed
    /\ executed' = executed \cup {o}
    /\ UNCHANGED <<reserved, released, overruled>>

GiveBack(S) ==
    /\ reserved' = reserved \ S
    /\ released' = released \cup S

Release(S) ==
    /\ S # {} /\ S \subseteq reserved
    /\ GiveBack(S)
    /\ UNCHANGED <<overruled, executed>>

Overrule(o) ==
    /\ o \in reserved
    /\ overruled' = overruled \cup {o}
    /\ GiveBack({o}) \/ UNCHANGED <<reserved, released>>
    /\ UNCHANGED executed

Reinstate(o) ==
    /\ o \in reserved \cap overruled
    /\ overruled' = overruled \ {o}
    /\ UNCHANGED <<reserved, released, executed>>

Next ==
    \/ \E o \in Order : Reserve(o) \/ Execute(o) \/ Overrule(o) \/ Reinstate(o)
    \/ \E S \in SUBSET Order : Release(S)

Spec == Init /\ [][Next]_vars
=============================================================================
