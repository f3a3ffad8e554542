---------------------------- MODULE MCLoopTimers ----------------------------
(***************************************************************************)
(* A small instance of LoopTimers: a single shot and an interval.          *)
(***************************************************************************)
EXTENDS LoopTimers, TLC

CONSTANTS once, every

MCTimers   == {once, every}
MCFlag     == (once :> "Timeout") @@ (every :> "Interval")
MCTimeouts == {1, 5}
MCExec     == {-1, 1, 4}
=============================================================================
