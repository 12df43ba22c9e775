--------------------------- MODULE MCMarketFeed ---------------------------
(* A small instance of MarketFeed: four price levels, three in a snapshot. *)
EXTENDS MarketFeed
AllVenues == {"binance", "okx", "bybit"}
FourLevels == 1 .. 4
===========================================================================
