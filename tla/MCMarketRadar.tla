---------------------------- MODULE MCMarketRadar ----------------------------
(* Engine: two venues and three bands.  Recorder: two pairs and a queue of   *)
(* one; only btc has a zone, eth takes room.  Audit: two collectors and one  *)
(* horizon.  Collector: three markets; one venue lists them all, the other   *)
(* one the second.                                                           *)
EXTENDS MarketRadar

CONSTANTS btc, eth, c1, c2, v1, v2

TwoPairs == {btc, eth}
View(shape, strength, covered, live) ==
    [shape |-> shape, strength |-> strength, covered |-> covered, live |-> live]
ZoneOfBtc(p) ==
    IF p = eth THEN {View("NONE", 0, TRUE, TRUE)}
    ELSE {View("FORMING", 0, TRUE, TRUE), View("ACTIVE", 0, TRUE, TRUE),
          View("ACTIVE", 1, TRUE, TRUE), View("ACTIVE", 2, TRUE, TRUE),
          View("UNDER_TEST", 1, TRUE, TRUE), View("BROKEN", 1, TRUE, TRUE),
          View("BROKEN", 1, FALSE, TRUE), View("STALE", 1, FALSE, FALSE)}
TwoCollectors == {c1, c2}
OneHorizon == {2}
EngineVenues == {v1, v2}
OneVenue == {v1}
ThreeBands == 1 .. 3
TwoVenues == <<"binance", "okx">>
ThreeMarkets == 1 .. 3
Answers(v) == IF v = "binance" THEN {ThreeMarkets} ELSE {{2}}
StoreAndEngine == {"recorder", "audit", "engine"}
OnlyRecorder == {"recorder"}
OnlyEngine == {"engine"}
OnlyCollector == {"collector"}
=============================================================================
