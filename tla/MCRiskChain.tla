---------------------------- MODULE MCRiskChain ----------------------------
EXTENDS RiskChain

HoldsBoth == [s \in Symbols |-> 1]
Entry(s, side, limit, method, value, stop) ==
  [symbol |-> s, side |-> side, limit |-> limit, method |-> method, value |-> value, stop |-> stop]
\* Adding to a holding at a limit, reversing it at the market, and an entry sized
\* by what its stop would lose.
ThreeEntries ==
  {Entry("a", 1, 1, "equity_pct", 30, 0), Entry("a", -1, 0, "fixed_notional", 3, 0),
   Entry("b", 1, 0, "risk_pct", 40, 2)}
=============================================================================
