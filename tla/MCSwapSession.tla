---------------------------- MODULE MCSwapSession ----------------------------
(* Two wallets; the handlers of a wallet's alerts are those of its favorites. *)
EXTENDS SwapSession
CONSTANTS A, B
TwoWallets == {A, B}
Use(p, n) == [panel |-> p, handlers |-> n]
Together == {Use("history", 2), Use("preferences", 2), Use("favorites", 2), Use("alerts", 1)}
=============================================================================
