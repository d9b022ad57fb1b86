--------------------------- MODULE MCMarketFeed ---------------------------
EXTENDS MarketFeed
=============================================================================
