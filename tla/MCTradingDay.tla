---------------------------- MODULE MCTradingDay ----------------------------
EXTENDS TradingDay
\* Day 1 is a holiday.
MCSessions == {0, 2, 3}
=============================================================================
