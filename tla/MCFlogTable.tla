---------------------------- MODULE MCFlogTable ----------------------------
(* Blocks of two pages have two pairs of sectors for entries, so that a    *)
(* third and a fifth entry need a second and a third inode block.  There   *)
(* is one listing: listings do not touch each other.                       *)
EXTENDS FlogTable

StopFirst == { "stop_before_growth" }
NoRules   == {}

=============================================================================
