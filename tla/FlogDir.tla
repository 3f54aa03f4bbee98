------------------------------ MODULE FlogDir ------------------------------
(***************************************************************************)
(* What the inode table of FLogFS promises to the application: a directory *)
(* in the order of creation.  An entry is named once, may be removed once, *)
(* and its place is never given to another.  A listing moves through the   *)
(* entries in that order, tells the names that are live when it comes to   *)
(* them, and ends behind the last one; calls that create and remove files  *)
(* may come between its steps.                                             *)
(***************************************************************************)
EXTENDS Naturals, Sequences

CONSTANTS
  Name,     \* file names
  Lister    \* the listings of the application

VARIABLES
  dir,      \* the entries: a name, and whether the file is still there
  at,       \* how many entries a listing has passed
  told      \* the entries a listing has told, by their places

dirVars == << dir, at, told >>

Live(i)    == i \in 1 .. Len(dir) /\ dir[i].live
Exists(nm) == \E i \in 1 .. Len(dir) : Live(i) /\ dir[i].name = nm

Init ==
  /\ dir = << >>
  /\ at = [ l \in Lister |-> 0 ]
  /\ told = [ l \in Lister |-> << >> ]

Create(nm) ==
  /\ ~ Exists(nm)
  /\ dir' = Append(dir, [ name |-> nm, live |-> TRUE ])
  /\ UNCHANGED << at, told >>

Remove(nm) ==
  \E i \in 1 .. Len(dir) :
    /\ Live(i) /\ dir[i].name = nm
    /\ dir' = [ dir EXCEPT ![i].live = FALSE ]
    /\ UNCHANGED << at, told >>

StartList(l) ==
  /\ at' = [ at EXCEPT ![l] = 0 ]
  /\ told' = [ told EXCEPT ![l] = << >> ]
  /\ UNCHANGED dir

\* The next live entry is told.
Tell(l) ==
  \E i \in at[l] + 1 .. Len(dir) :
    /\ Live(i) /\ \A j \in at[l] + 1 .. i - 1 : ~ Live(j)
    /\ at' = [ at EXCEPT ![l] = i ]
    /\ told' = [ told EXCEPT ![l] = Append(@, i) ]
    /\ UNCHANGED dir

\* There is none: the listing is at its end, until files are created.
EndList(l) ==
  /\ \A j \in at[l] + 1 .. Len(dir) : ~ Live(j)
  /\ at' = [ at EXCEPT ![l] = Len(dir) ]
  /\ UNCHANGED << dir, told >>

Next ==
  \/ \E nm \in Name : Create(nm) \/ Remove(nm)
  \/ \E l \in Lister : StartList(l) \/ Tell(l) \/ EndList(l)

Spec == Init /\ [][Next]_dirVars

=============================================================================
