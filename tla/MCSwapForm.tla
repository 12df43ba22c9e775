----------------------------- MODULE MCSwapForm -----------------------------
(* An EVM network and Bitcoin, which has one token.  A wallet may be on a     *)
(* network the page does not offer; an alert link sells bitcoin for a token   *)
(* that only the server's list has, or stays on the EVM network.              *)
EXTENDS SwapForm
TwoChains == {1, Bitcoin}
PopularLists == (1 :> <<"eth">>) @@ (Bitcoin :> <<"btc">>)
FullLists == (1 :> <<"eth", "usdc">>) @@ (Bitcoin :> <<"btc">>)
Link(from, sell, to, buy, amount) ==
    [sellNet |-> from, sell |-> sell, buyNet |-> to, buy |-> buy, amount |-> amount, auto |-> amount # ""]
OpenedLinks == {Link(Bitcoin, "btc", 1, "usdc", "linked"), Link(1, "usdc", 1, "eth", "linked"),
                Link(7, "eth", 1, "eth", "linked")}
BitcoinLinks == {Link(Bitcoin, "btc", 1, "usdc", "linked")}
FavoritePairs == {Link(1, "eth", 1, "usdc", "")}
OneWallet == {"w1"}
TwoNets == {1, 7}
GivenAddresses == {"x", "bx"}
=============================================================================
