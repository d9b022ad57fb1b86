--------------------------- MODULE MCStrategyRun ---------------------------
EXTENDS StrategyRun

Levels(o, h, l, c, cap) ==
  [open |-> o * Unit, high |-> h * Unit, low |-> l * Unit, close |-> c * Unit, cap |-> cap]

\* A rise, a gap down through any level, a wide bar that spans both levels, and
\* a thin fall that fills one share.
SomeBars == {Levels(4, 5, 4, 5, 9), Levels(2, 2, 1, 1, 9),
             Levels(3, 5, 2, 3, 9), Levels(3, 3, 2, 2, 1)}

Price(field, back) == [kind |-> "price", name |-> field, period |-> 0, offset |-> back, value |-> 0]
Indicator(name, p, back) == [kind |-> "indicator", name |-> name, period |-> p, offset |-> back, value |-> 0]
Constant(v) == [kind |-> "constant", name |-> "", period |-> 0, offset |-> 0, value |-> v]
When(l, op, r) == [op |-> op, left |-> l, right |-> r]
Group(op, children) == [op |-> op, of |-> children]

\* A crossing with a cool-down; a nested group over a past value with an age
\* limit; and one that goes both ways with a stop's ATR.
SomeRules ==
  {[name |-> "cross", long |-> When(Price("close", 0), "crosses_above", Indicator("sma", 2, 0)),
    short |-> Absent, exit |-> When(Price("close", 0), "crosses_below", Indicator("sma", 2, 0)),
    limit |-> Never, cooldown |-> 2, atr |-> {}],
   [name |-> "nested", long |-> Group("any", <<When(Price("close", 0), ">", Price("open", 1)),
        Group("none", <<When(Indicator("rsi", 1, 0), ">", Constant(50))>>)>>),
    short |-> Absent, exit |-> Absent, limit |-> 2, cooldown |-> 2, atr |-> {}],
   [name |-> "both", long |-> Group("all", <<When(Price("close", 0), ">=", Price("open", 0))>>),
    short |-> Group("all", <<When(Price("close", 0), "<", Indicator("ema", 1, 1)),
                             When(Indicator("atr", 1, 0), ">=", Constant(Unit))>>),
    exit |-> When(Price("close", 1), "!=", Price("close", 0)), limit |-> 1, cooldown |-> 0, atr |-> {1}]}
=============================================================================
