------------------------------- MODULE MCLoop -------------------------------
(***************************************************************************)
(* Small instances of Loop for TLC.                                        *)
(***************************************************************************)
EXTENDS Loop

CONSTANTS t1, t2, e1, e2, e3

MCThreads2 == {t1, t2}
MCEvents3  == {e1, e2, e3}
MCStatuses == {1, 2}
=============================================================================
