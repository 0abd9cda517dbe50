---------------------------- MODULE MCMarketData ----------------------------
EXTENDS MarketData, TLC

Symmetry == Permutations(Requests)
=============================================================================
