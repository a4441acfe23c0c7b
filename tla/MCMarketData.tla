----------------------------- MODULE MCMarketData -----------------------------
EXTENDS MarketData

H(remaining, reset, retry) == [remaining |-> remaining, reset |-> reset, retry |-> retry]
MCGroups == {"market", "market_info"}
MCCandidates == {1}
MCConfigs == {{"calendar", "universe"}, {"watchlist"}}
MCStaleConfigs == {{"watchlist"}}
MCHeaders == {H(None, None, None), H(0, 1, 2)}
MCSymbols == {1, 2}
MCListed == [s \in MCSymbols |-> s - 1]
=============================================================================
