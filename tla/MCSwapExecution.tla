--------------------------- MODULE MCSwapExecution ---------------------------
(* Two accounts, two networks, a route of each kind. *)
EXTENDS SwapExecution
CONSTANTS A, B
TwoAccounts == {A, B}
TwoNets == {1, 56}
FourRoutes == {"same", "cross", "bitcoin", "solana"}
=============================================================================
