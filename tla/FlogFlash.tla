----------------------------- MODULE FlogFlash -----------------------------
(***************************************************************************)
(* What the file system takes the flash below it for: blocks of sectors,   *)
(* each sector programmed in a first part and a rest, with a spare beside  *)
(* it.  A part is programmed once between erases, programming one part     *)
(* leaves the others alone, an erase takes one block and only that block,  *)
(* and one that fails takes a part of it.  Nothing changes that was not    *)
(* asked for.  A request to program is carried out: this is what the file  *)
(* system relies on, not having a result of it to look at.  When that is   *)
(* not so, or a read was misled, nothing is promised until a new format.   *)
(*                                                                         *)
(* The requests are those of flogfs_conf_implement.h, with the block the   *)
(* file system means: there, a page is opened first, and what follows is   *)
(* about the open page.                                                    *)
(***************************************************************************)
VARIABLES
  held,   \* what is programmed: block, sector, part and a tag for the content
  req,    \* the request at hand
  on,     \* there is power
  lost    \* a request was not carried out, and nobody was told

flashVars == << held, req, on, lost >>

Cell(x) == [ b |-> x.b, s |-> x.s, part |-> x.part ]

Programs == req.op \in { "write", "spare" }

Program ==
  /\ Programs
  /\ \A x \in held : Cell(x) # Cell(req)
  /\ held' = held \cup { [ b |-> req.b, s |-> req.s, part |-> req.part, tag |-> req.tag ] }

Erase  == req.op = "erase" /\ held' = { x \in held : x.b # req.b }

EraseFails ==
  /\ req.op = "erase"
  /\ held' \subseteq held
  /\ \A x \in held : x.b # req.b => x \in held'

Other  == ~ Programs /\ req.op # "erase" /\ held' = held
Cut    == on' = FALSE /\ held' = held
Broken == lost' = TRUE

Init == held = {} /\ ~ lost /\ req.op = "none"
Next == Program \/ Erase \/ EraseFails \/ Other \/ Cut \/ Broken
Spec == Init /\ [][Next]_flashVars

=============================================================================
