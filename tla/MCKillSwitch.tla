---------------------------- MODULE MCKillSwitch ----------------------------
(***************************************************************************)
(* KillSwitch for TLC: two engagers, an operator and the rollover meet on  *)
(* the global key.  The daily-loss rule asks for a halt about no symbol, a *)
(* person adds evidence to it under the same reason (halt.py --unproven),  *)
(* and the reconciler adds evidence under its own.                         *)
(***************************************************************************)
EXTENDS KillSwitch

GlobalKey == {"global"}

Ask(reason, by, symbols) == [key |-> "global", reason |-> reason,
                             by |-> by, symbols |-> symbols]

RacingRequests ==
  {Ask("daily_loss_limit", DailyLossRule, {}),
   Ask("daily_loss_limit", "human", {"SPY"}),
   Ask("reconciliation_mismatch", "automation", {"QQQ"})}
=============================================================================
