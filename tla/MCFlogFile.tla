----------------------------- MODULE MCFlogFile -----------------------------
(* A file of small sectors for TLC: every kind of sector, with all the     *)
(* rules of use or with all but one.                                       *)
EXTENDS FlogFile

AllRules == Rules
NotClosing == Rules \ { "close_flushes" }

=============================================================================
