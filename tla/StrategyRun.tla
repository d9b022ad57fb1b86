----------------------------- MODULE StrategyRun ----------------------------
(***************************************************************************)
(* A strategy in the backtest and on paper: the engine calls it once a bar, *)
(* with what the bars so far show.  It is one of the rule sets, or leaves  *)
(* its signals open.                                                       *)
(***************************************************************************)
EXTENDS PaperRun, RuleStrategy

CONSTANT OpenBars    \* bars of a run whose strategy is left open

runVars == <<stop_type, now, bar, book, pending, sent, venue, rules, memory, history>>

RunInit == PaperInit /\ RuleInit

\* The strategy has been called for every bar.
Asked == rules = Open \/ memory.seen = now

RunBar(b) ==
  /\ Asked /\ (rules = Open => now < OpenBars)
  /\ PaperBar(b)
  /\ history' = IF rules = Open THEN history ELSE Append(history, b)
  /\ UNCHANGED <<rules, memory>>

OpenSignal == rules = Open /\ now < OpenBars /\ PaperSignal /\ UNCHANGED ruleVars

\* The strategy asks to enter; the risk chain or the sizer may refuse.
RuleEntry(side) ==
  \/ Queue(side, Qty, None, EntryLevels(side, <<>>), "entry")
  \/ UNCHANGED <<book, pending>>

\* The engine calls the rule set's on_bar; signals of the warmup are dropped.
RuleSignal ==
  /\ ~Asked
  /\ memory' = Track(memory, book.pos.qty = 0)
  /\ \E signal \in {OnBar(rules, memory', history, book.pos.qty = 0)} :
       IF signal = "nothing" \/ now <= RequiredWarmup(rules) THEN UNCHANGED <<book, pending>>
       ELSE IF signal = "exit" THEN Queue(-Sign(book.pos.qty), Abs(book.pos.qty), None, <<>>, "exit")
       ELSE RuleEntry(IF signal = "long" THEN 1 ELSE -1)
  /\ SendQueued
  /\ UNCHANGED <<stop_type, now, bar, sent, rules, history>>

RunNext == (\E b \in Bars : RunBar(b)) \/ OpenSignal \/ RuleSignal

RunSpec == RunInit /\ [][RunNext]_runVars

-----------------------------------------------------------------------------
(* Properties. *)

\* What a rule set counts is what the book shows, although it sees neither fills
\* nor stops: a position as old as max_holding_bars is on its way out, and no
\* entry waits while the book has been flat for less than the cool-down
\* (_track, _exit_signals, _entry_signals).
CountsMatchTheBook ==
  rules # Open /\ Asked =>
    /\ rules.limit # Never /\ book.held >= rules.limit
         => \E i \in Range(pending) : book.orders[i].side = -Sign(book.pos.qty)
    /\ \A i \in Range(pending), j \in DOMAIN book.orders :
         book.orders[i].purpose = "entry" /\ book.orders[j].fill # NoFill
           => now - book.orders[j].fill.ts >= rules.cooldown

=============================================================================
