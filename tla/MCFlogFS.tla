------------------------------ MODULE MCFlogFS ------------------------------
(* A small flash for TLC: an inode block and a few others.  Block 0 is the *)
(* inode block, as on an erase-to-ones flash whose first block is good.    *)
EXTENDS FlogFS, TLC

CONSTANTS b0, b1, b2, b3

\* The other blocks are interchangeable, and so are names and handles.
Symmetric ==
  Permutations(Block \ { Inode0 }) \cup Permutations(Name) \cup Permutations(Handle)

Flash4 == { b0, b1, b2, b3 }

\* What a careful application does.
Careful == { "single_writer", "close_before_rm", "close_flushes" }
CarefulQuiet == Careful \cup { "quiet_reboot" }

=============================================================================
