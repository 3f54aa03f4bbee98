--------------------------- MODULE MCFlogPrealloc ---------------------------
(* The preallocation lists on their own, under any sequence of calls their *)
(* assertions allow.                                                       *)
EXTENDS FlogPrealloc

=============================================================================
