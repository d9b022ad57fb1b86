---------------------------- MODULE MCOrderSync -----------------------------
(***************************************************************************)
(* Instances of OrderSync for TLC.                                         *)
(***************************************************************************)
EXTENDS OrderSync

\* The invariants say nothing once two readings have overlapped, and nothing
\* undoes that: what lies behind it need not be searched.
Apart == ~overlapped

\* The last upset meets an order with one unit filled; up to it, with all three.
Bounded == upsets = MaxUpsets => \A o \in Orders : venue[o].filled <= 1
=============================================================================
