------------------------------ MODULE FlogLog ------------------------------
(***************************************************************************)
(* What a file of FLogFS promises to the application that writes it and to *)
(* the one that reads it: an append-only log.  A byte is represented by    *)
(* its place in the file, so the log is always 1, 2, 3 ...                 *)
(*                                                                         *)
(* Bytes that were accepted are either stored, and then they are there for *)
(* readers, or kept in the writer's buffer.  A read hands out the bytes    *)
(* behind the reader's position, in order, and stops short only at the end *)
(* of what is stored.                                                      *)
(***************************************************************************)
EXTENDS SequencesExt, Naturals

VARIABLES
  stored,   \* the bytes in flash
  kept,     \* the bytes accepted by flogfs_write and not yet in flash
  at,       \* the reader's position
  want,     \* what the read in progress is still asked for, 0 if none is
  got       \* what the read has handed out

vars == << stored, kept, at, want, got >>
reader == << at, want, got >>
writer == << stored, kept >>

Init ==
  /\ stored = << >> /\ kept = << >>
  /\ at = 0 /\ want = 0 /\ got = << >>

\* Bytes are accepted, or stored, or both; nothing stored ever changes.
Write ==
  /\ want = 0 /\ UNCHANGED reader
  /\ IsPrefix(stored, stored')
  /\ LET all == stored' \o kept' IN
     /\ IsPrefix(stored \o kept, all)
     /\ all = [ i \in 1 .. Len(all) |-> i ]

\* A reader is opened, or put somewhere else in the file.
Seek ==
  /\ want = 0 /\ want' = 0
  /\ at' \in 0 .. Len(stored)
  /\ got' = << >>
  /\ UNCHANGED writer

Ask ==
  /\ want = 0 /\ want' # 0
  /\ got' = << >>
  /\ UNCHANGED << writer, at >>

Deliver ==
  /\ \E k \in 1 .. want :
       /\ at + k <= Len(stored)
       /\ got' = got \o SubSeq(stored, at + 1, at + k)
       /\ at' = at + k /\ want' = want - k
  /\ UNCHANGED writer

End ==
  /\ want # 0 /\ want' = 0
  /\ at = Len(stored)
  /\ UNCHANGED << writer, at, got >>

Next == Write \/ Seek \/ Ask \/ Deliver \/ End

Spec == Init /\ [][Next]_vars

=============================================================================
