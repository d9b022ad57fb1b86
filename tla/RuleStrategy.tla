---------------------------- MODULE RuleStrategy ----------------------------
(***************************************************************************)
(* A declarative rule set run as a strategy (strategy/rules.py): the       *)
(* three-valued evaluation of its condition trees over a window of bars,   *)
(* the warmup it asks for, and the counters from which it times exits and  *)
(* re-entries.  The indicators are those a rule may name                   *)
(* (indicators/dispatch.py, indicators/ta.py), in integers.                *)
(*                                                                         *)
(* One symbol, which leaves max_concurrent_positions without effect.  The  *)
(* strategy sees bars and whether it holds a position, never the clock.    *)
(***************************************************************************)
EXTENDS Integers, Sequences, SequencesExt, FiniteSetsExt

CONSTANT Rules        \* the rule sets tried

Never == -1
Unknown == -1         \* no value yet: prices and indicators are not negative
Absent == [op |-> "absent"]
Open == [name |-> "open"]      \* a strategy about which nothing is assumed

VARIABLES
  rules,    \* the rule set of the run, or Open
  memory,   \* _seen, _entered_at, _exited_at
  history   \* the bars the context shows

ruleVars == <<rules, memory, history>>

\* on_start.
RuleInit ==
  /\ rules \in Rules \cup {Open}
  /\ memory = [seen |-> 0, entered |-> Never, exited |-> Never]
  /\ history = <<>>

-----------------------------------------------------------------------------
(* Indicators over a window: Unknown if it is too short (_require_length). *)

Closes(w) == [i \in DOMAIN w |-> w[i].close]
Total(s) == FoldLeft(LAMBDA a, x : a + x, 0, s)
Mean(s) == Total(s) \div Len(s)
LastOf(s, n) == SubSeq(s, Len(s) - n + 1, Len(s))
After(s, n) == SubSeq(s, n + 1, Len(s))

\* Both smoothings are seeded with the mean of the first period's values.
Ema(s, p) == FoldLeft(LAMBDA a, x : (2 * x + (p - 1) * a) \div (p + 1), Mean(SubSeq(s, 1, p)), After(s, p))
WilderSmooth(s, p) == FoldLeft(LAMBDA a, x : (a * (p - 1) + x) \div p, Mean(SubSeq(s, 1, p)), After(s, p))

Rsi(s, p) ==
  LET gain == WilderSmooth([i \in 1..(Len(s) - 1) |-> Max({s[i + 1] - s[i], 0})], p)
      loss == WilderSmooth([i \in 1..(Len(s) - 1) |-> Max({s[i] - s[i + 1], 0})], p)
  IN IF loss = 0 THEN 100 ELSE (100 * gain) \div (gain + loss)

\* What a gap adds to a bar's range counts, so the first bar has none.
TrueRange(w) ==
  [i \in 1..(Len(w) - 1) |->
     Max({w[i + 1].high, w[i].close}) - Min({w[i + 1].low, w[i].close})]

\* ta.py: what each indicator demands of its input.
TooShort(name, w, p) == Len(w) < (IF name \in {"rsi", "atr"} THEN p + 1 ELSE p)

Compute(name, w, p) ==
  IF TooShort(name, w, p) THEN Unknown
  ELSE CASE name = "sma" -> Mean(LastOf(Closes(w), p))
         [] name = "ema" -> Ema(Closes(w), p)
         [] name = "rsi" -> Rsi(Closes(w), p)
         [] name = "atr" -> WilderSmooth(TrueRange(w), p)

-----------------------------------------------------------------------------
(* How much history a rule set needs: min_bars, _bars_needed. *)

Crossings == {"crosses_above", "crosses_below"}
Groups == {"all", "any", "none"}

MinBars(name, p) == IF name \in {"rsi", "atr"} THEN p + 1 ELSE p

OperandBars(o) ==
  CASE o.kind = "indicator" -> MinBars(o.name, o.period) + o.offset
    [] o.kind = "price" -> o.offset + 1
    [] o.kind = "constant" -> 0

\* A fault: a crossing is taken to read one bar.
RECURSIVE BarsNeededNow(_)
BarsNeededNow(node) ==
  IF node.op \in Groups THEN Max({0} \cup {BarsNeededNow(child) : child \in Range(node.of)})
  ELSE Max({OperandBars(node.left), OperandBars(node.right)})

\* A crossing reads the bar before as well.
RECURSIVE BarsNeeded(_)
BarsNeeded(node) ==
  IF node.op \in Groups THEN Max({0} \cup {BarsNeeded(child) : child \in Range(node.of)})
  ELSE Max({OperandBars(node.left), OperandBars(node.right)})
       + IF node.op \in Crossings THEN 1 ELSE 0

Trees(r) == {r.long, r.short, r.exit} \ {Absent}

\* required_warmup: the trees, and the ATR a stop of the rule set reads.
RequiredWarmup(r) ==
  Max({0} \cup {BarsNeeded(t) : t \in Trees(r)} \cup {MinBars("atr", p) : p \in r.atr})

Window(r) == Max({RequiredWarmup(r), 1})

-----------------------------------------------------------------------------
(* _Evaluation. *)

\* bars[: len - n]: an n past the first bar counts from the end once more.
WithoutLast(w, n) == SubSeq(w, 1, IF n <= Len(w) THEN Len(w) - n ELSE 2 * Len(w) - n)

Value(w, o, back) ==
  LET past == WithoutLast(w, o.offset + back)
  IN CASE o.kind = "constant" -> o.value
       [] o.kind # "constant" /\ past = <<>> -> Unknown
       [] o.kind = "price" /\ past # <<>> -> past[Len(past)][o.name]
       [] o.kind = "indicator" /\ past # <<>> -> Compute(o.name, past, o.period)

Holds(op, l, r) ==
  CASE op = "<" -> l < r [] op = "<=" -> l <= r [] op = ">" -> l > r
    [] op = ">=" -> l >= r [] op = "==" -> l = r [] op = "!=" -> l # r

Truth(b) == IF b THEN "true" ELSE "false"

Compare(w, c) ==
  LET l == Value(w, c.left, 0)      r == Value(w, c.right, 0)
      wasL == Value(w, c.left, 1)   wasR == Value(w, c.right, 1)
  IN IF Unknown \in {l, r} \/ (c.op \in Crossings /\ Unknown \in {wasL, wasR}) THEN "unknown"
     ELSE Truth(CASE c.op = "crosses_above" -> wasL <= wasR /\ l > r
                  [] c.op = "crosses_below" -> wasL >= wasR /\ l < r
                  [] OTHER -> Holds(c.op, l, r))

\* One definite member settles a group; otherwise an unknown one leaves it open.
GroupVerdict(op, verdicts) ==
  CASE op = "all" /\ "false" \in verdicts -> "false"
    [] op = "any" /\ "true" \in verdicts -> "true"
    [] op = "none" /\ "true" \in verdicts -> "false"
    [] OTHER -> IF "unknown" \in verdicts THEN "unknown" ELSE Truth(op \in {"all", "none"})

RECURSIVE Verdict(_, _)
Verdict(w, node) ==
  IF node.op \in Groups THEN GroupVerdict(node.op, {Verdict(w, child) : child \in Range(node.of)})
  ELSE Compare(w, node)

-----------------------------------------------------------------------------
(* on_bar: a signal is a request, so ages are counted from what is held. *)

\* A fault: every bar of a position is taken for its first.
TrackAgain(m, flat) ==
  LET i == m.seen + 1
  IN IF flat THEN [seen |-> i, entered |-> Never, exited |-> IF m.entered = Never THEN m.exited ELSE i]
     ELSE [m EXCEPT !.seen = i, !.entered = i]

Track(m, flat) ==
  LET i == m.seen + 1
  IN IF flat THEN [seen |-> i, entered |-> Never, exited |-> IF m.entered = Never THEN m.exited ELSE i]
     ELSE [m EXCEPT !.seen = i, !.entered = IF @ = Never THEN i ELSE @]

\* A tree that is left out never fires.
Fires(tree, w) == tree # Absent /\ Verdict(w, tree) = "true"

ExitDue(r, m, w) ==
  \/ r.limit # Never /\ m.seen - m.entered >= r.limit
  \/ Fires(r.exit, w)

CoolingDown(r, m) == m.exited # Never /\ m.seen - m.exited < r.cooldown

EntrySide(r, w) ==
  IF Fires(r.long, w) THEN "long" ELSE IF Fires(r.short, w) THEN "short" ELSE "nothing"

\* The signal of a bar; m has tracked it.
OnBar(r, m, bars, flat) ==
  LET w == LastOf(bars, Window(r))
  IN IF Len(bars) < Window(r) THEN "nothing"
     ELSE IF ~flat THEN IF ExitDue(r, m, w) THEN "exit" ELSE "nothing"
     ELSE IF CoolingDown(r, m) THEN "nothing" ELSE EntrySide(r, w)

-----------------------------------------------------------------------------
\* A rule that has the bars it asked for is decided: the warmup and the window
\* cut from it cover every operand's period, offset and crossing, so no verdict
\* stays unknown for a whole run (required_warmup, min_bars, _Evaluation).
VerdictsAreDecided ==
  rules # Open /\ Len(history) >= Window(rules) =>
    \A t \in Trees(rules) : Verdict(LastOf(history, Window(rules)), t) # "unknown"

=============================================================================
