----------------------------- MODULE FlogTable -----------------------------
(***************************************************************************)
(* The inode table of src/src/flogfs.c as it lies in flash: inode blocks   *)
(* linked by their tail sectors, entries in pairs of sectors behind the    *)
(* first page, one sector for the allocation and one for the invalidation; *)
(* and the iterator that every search, listing and mount walks it with.    *)
(*                                                                         *)
(* Calls are atomic, as each of them runs from its first line to its last, *)
(* but a listing is many calls: the iterator is kept by the application,   *)
(* and files come and go between two calls of flogfs_ls_iterate.           *)
(***************************************************************************)
EXTENDS Integers, Sequences, FiniteSets

CONSTANTS
  Blocks,        \* params.number_of_blocks: the blocks are 0 .. Blocks - 1
  Inode0,        \* flogfs.inode0
  PagesPerBlock, \* params.pages_per_block
  EraseZero,     \* built with FLOGFS_ERASE_ZERO
  Name,          \* file names
  Lister,        \* the iterators the application lists with
  MaxFiles,      \* bound: entries ever written
  TableRules,    \* what the application is trusted to do, see below
  NoName         \* the name in an erased sector

Block == 0 .. Blocks - 1
SectorsPerPage == 4
LastSector    == PagesPerBlock * SectorsPerPage - 1
FirstEntry    == 4                                 \* FLOG_INODE_FIRST_ENTRY_SECTOR
EntrySector   == { s \in FirstEntry .. LastSector : s % 2 = 0 }
Invalid       == -1                                \* FLOG_BLOCK_IDX_INVALID
ErasedIdx     == IF EraseZero THEN 0 ELSE Invalid  \* FLOG_BLOCK_IDX_ERASED

ASSUME TableAssumption ==
  /\ Blocks \in Nat /\ Inode0 \in Block /\ (EraseZero => Inode0 # 0)
  /\ PagesPerBlock \in Nat /\ PagesPerBlock > 1
  /\ EraseZero \in BOOLEAN /\ MaxFiles \in Nat /\ NoName \notin Name

(***************************************************************************)
(* Rules of use.                                                           *)
(*   stop_before_growth   no file is created that needs another inode      *)
(*                        block while a listing is going on                *)
(***************************************************************************)
ASSUME TableRulesAssumption == TableRules \subseteq { "stop_before_growth" }

VARIABLES
  flash,   \* the inode blocks
  maxId,   \* flogfs.max_file_id
  full,    \* nothing is left to allocate
  ls,      \* the iterators: flogfs_ls_iterator_t, and whether one is in use
  told,    \* what each listing told, by file id
  due,     \* files each listing owes: live at its start, and ever since
  ended,   \* the listing has returned 0
  panic    \* an assertion has failed

lists == << ls, told, due, ended >>
vars  == << flash, maxId, full, lists, panic >>

-----------------------------------------------------------------------------
(* Flash.                                                                  *)

ErasedEntry == [ id |-> 0, name |-> NoName, dead |-> FALSE ]
ErasedBlock == [ inode |-> FALSE, index |-> 0, next |-> ErasedIdx,
                 pair |-> [ s \in EntrySector |-> ErasedEntry ] ]
InodeBlock(k) == [ ErasedBlock EXCEPT !.inode = TRUE, !.index = k ]

Entry(it)  == flash[it.block].pair[it.sector]
Unused(it) == Entry(it).id = 0       \* invalid_inode_file_allocation_header
Gone(it)   == Entry(it).dead         \* the invalidation sector is written

-----------------------------------------------------------------------------
(* The iterator.                                                           *)

\* flog_inode_iterator_initialize: next_block is taken as it is in flash.
IterStart ==
  [ block |-> Inode0, next |-> flash[Inode0].next, sector |-> FirstEntry,
    blockIdx |-> flash[Inode0].index, idx |-> 0 ]

\* flog_universal_get_next_block
NextBlock(b) ==
  IF flash[b].next = ErasedIdx THEN Invalid ELSE flash[b].next

\* The iterator after the assertion of flogfs.c:1826.
Stuck(it)   == [ it EXCEPT !.block = Invalid ]
IsStuck(it) == it.block = Invalid

\* flog_inode_iterator_next: the next pair, in the next block if need be.
IterNext(it) ==
  IF it.sector + 2 <= LastSector
    THEN [ it EXCEPT !.sector = @ + 2, !.idx = @ + 1 ]
    ELSE IF it.next # Invalid
      THEN [ it EXCEPT !.block = it.next, !.next = NextBlock(it.next),
                       !.sector = FirstEntry, !.idx = @ + 1 ]
      ELSE Stuck(it)

Iterator == [ block : Block \cup { Invalid }, next : Block \cup { Invalid },
              sector : EntrySector, blockIdx : Nat, idx : Nat ]

\* Where a loop over the table that begins at start is left: where its test
\* holds, or where the iterator fails.
FirstIn(start, Stops(_)) ==
  LET from[it \in Iterator] ==
        IF IsStuck(it) \/ Stops(it) THEN it ELSE from[IterNext(it)]
  IN from[start]

\* Deliberately wrong: a removed file is found again.
FindRemoved(nm) ==
  FirstIn(IterStart, LAMBDA it : Unused(it) \/ Entry(it).name = nm)

\* flog_find_file: stops at the live entry of nm, else at the first unused one.
Find(nm) ==
  FirstIn(IterStart,
          LAMBDA it : Unused(it) \/ (Entry(it).name = nm /\ ~ Gone(it)))

Found(it) == ~ IsStuck(it) /\ ~ Unused(it)

-----------------------------------------------------------------------------
(* Calls that change the table.                                            *)

\* Deliberately wrong: the block is appended when the last pair is passed.
NeedsBlockLate(it) == it.sector = LastSector + 1

\* flog_inode_prepare_new: before the last entry of a block is written.
NeedsBlock(it) == it.sector = LastSector - 1

\* Deliberately wrong: the new block is linked before it is an inode block.
AppendWithoutInit(it, b) == [ flash EXCEPT ![it.block].next = b ]

\* Deliberately wrong: the tail is written into the first inode block.
AppendToFirst(it, b) ==
  [ flash EXCEPT ![Inode0].next = b, ![b] = InodeBlock(it.blockIdx + 1) ]

\* flog_inode_prepare_new: the tail of the last block, and the new block.  The
\* iterator counts blocks from the first one's index and not beyond it.
AppendBlock(it, b) ==
  [ flash EXCEPT ![it.block].next = b, ![b] = InodeBlock(it.blockIdx + 1) ]

\* A block flog_allocate_block may return for the table.
Allocatable(b) == b # 0 /\ ~ flash[b].inode

WriteEntry(f, it, nm) ==
  [ f EXCEPT ![it.block].pair[it.sector] =
      [ id |-> maxId + 1, name |-> nm, dead |-> FALSE ] ]

Listing == \E l \in Lister : ls[l].on

\* flogfs_open_write for a name that has no file.  A list of blocks that ran
\* empty stays so until the next mount: from then on no call gets a block.
Create(nm) ==
  LET it == Find(nm) IN
  /\ ~ Found(it)
  /\ IF IsStuck(it)
       THEN panic' = TRUE /\ UNCHANGED << flash, maxId, full >>
       ELSE /\ ~ full /\ maxId < MaxFiles
            /\ NeedsBlock(it) /\ "stop_before_growth" \in TableRules => ~ Listing
            /\ \E f \in IF NeedsBlock(it)
                          THEN { AppendBlock(it, b) : b \in { c \in Block : Allocatable(c) } }
                          ELSE { flash } :
                 \/ /\ flash' = WriteEntry(f, it, nm)
                    /\ maxId' = maxId + 1 /\ full' \in BOOLEAN
                 \/ flash' = f /\ full' = TRUE /\ UNCHANGED maxId
            /\ UNCHANGED panic
  /\ UNCHANGED lists

\* flogfs_rm: the invalidation; what happens to the file's blocks is FlogFS's.
Remove(nm) ==
  LET it == Find(nm) IN
  /\ Found(it)
  /\ flash' = [ flash EXCEPT ![it.block].pair[it.sector].dead = TRUE ]
  /\ due' = [ l \in Lister |-> due[l] \ { Entry(it).id } ]
  /\ UNCHANGED << maxId, full, ls, told, ended, panic >>

-----------------------------------------------------------------------------
(* Listings.                                                               *)

LiveIds == { id \in 1 .. MaxFiles : \E b \in Block, s \in EntrySector :
               flash[b].pair[s].id = id /\ ~ flash[b].pair[s].dead }

NotListing == [ on |-> FALSE, it |-> Stuck([ block |-> Invalid, next |-> Invalid,
                  sector |-> FirstEntry, blockIdx |-> 0, idx |-> 0 ]) ]

\* flogfs_start_ls
StartLs(l) ==
  /\ ls' = [ ls EXCEPT ![l] = [ on |-> TRUE, it |-> IterStart ] ]
  /\ told' = [ told EXCEPT ![l] = << >> ]
  /\ due' = [ due EXCEPT ![l] = LiveIds ]
  /\ ended' = [ ended EXCEPT ![l] = FALSE ]
  /\ UNCHANGED << flash, maxId, full, panic >>

\* Deliberately wrong: a removed entry ends the listing.
NextToTellStops(it) ==
  IF Gone(it) THEN FirstIn(it, LAMBDA i : Unused(i)) ELSE it

\* flogfs_ls_iterate, its loop: to the next live entry or the end.
NextToTell(it) == FirstIn(it, LAMBDA i : Unused(i) \/ ~ Gone(i))

\* What the call does at the entry it stops at: having told a name it moves
\* on to the next entry before it returns.
Outcome(it) ==
  IF IsStuck(it) THEN "assert"
  ELSE IF Unused(it) THEN "end"
  ELSE IF IsStuck(IterNext(it)) THEN "assert" ELSE "name"

LsIterate(l) ==
  LET it == NextToTell(ls[l].it) IN
  /\ ls[l].on
  /\ \/ /\ Outcome(it) = "assert"
        /\ panic' = TRUE
        /\ UNCHANGED lists
     \/ /\ Outcome(it) = "end"
        /\ ls' = [ ls EXCEPT ![l].it = it ]
        /\ ended' = [ ended EXCEPT ![l] = TRUE ]
        /\ UNCHANGED << told, due, panic >>
     \/ /\ Outcome(it) = "name"
        /\ ls' = [ ls EXCEPT ![l].it = IterNext(it) ]
        /\ told' = [ told EXCEPT ![l] = Append(@, Entry(it).id) ]
        /\ ended' = [ ended EXCEPT ![l] = FALSE ]
        /\ UNCHANGED << due, panic >>
  /\ UNCHANGED << flash, maxId, full >>

\* flogfs_stop_ls does nothing: the application forgets the iterator.
StopLs(l) ==
  /\ ls[l].on
  /\ ls' = [ ls EXCEPT ![l] = NotListing ]
  /\ told' = [ told EXCEPT ![l] = << >> ]
  /\ due' = [ due EXCEPT ![l] = {} ]
  /\ ended' = [ ended EXCEPT ![l] = FALSE ]
  /\ UNCHANGED << flash, maxId, full, panic >>

-----------------------------------------------------------------------------

\* As flogfs_format and flogfs_mount leave the table.
Init ==
  /\ flash = [ b \in Block |-> IF b = Inode0 THEN InodeBlock(0) ELSE ErasedBlock ]
  /\ maxId = 0 /\ full = FALSE
  /\ ls = [ l \in Lister |-> NotListing ]
  /\ told = [ l \in Lister |-> << >> ]
  /\ due = [ l \in Lister |-> {} ]
  /\ ended = [ l \in Lister |-> FALSE ]
  /\ panic = FALSE

Next ==
  /\ ~ panic
  /\ \/ \E nm \in Name : Create(nm) \/ Remove(nm)
     \/ \E l \in Lister : StartLs(l) \/ LsIterate(l) \/ StopLs(l)

Spec == Init /\ [][Next]_vars

-----------------------------------------------------------------------------
(* flog_walk: every block in the order of numbers, and of an inode block   *)
(* every pair of sectors, used or not, without regard to the chain.        *)

WalkedEntries ==
  (UNION { { flash[b].pair[s] : s \in EntrySector } :
           b \in { c \in Block : flash[c].inode } }) \ { ErasedEntry }

\* flogfs_check_exists
CheckExists(nm) == Found(Find(nm))

-----------------------------------------------------------------------------
(* Properties.                                                             *)

TableTypeOK ==
  /\ \A b \in Block :
       /\ flash[b].inode \in BOOLEAN /\ flash[b].index \in 0 .. Blocks
       /\ flash[b].next \in Block \cup { Invalid }
       /\ \A s \in EntrySector :
            flash[b].pair[s] \in [ id : 0 .. MaxFiles, name : Name \cup { NoName },
                                  dead : BOOLEAN ]
       /\ flash[b].inode /\ NextBlock(b) # Invalid => flash[NextBlock(b)].inode
  /\ maxId \in 0 .. MaxFiles
  /\ full \in BOOLEAN /\ panic \in BOOLEAN
  /\ \A l \in Lister :
       /\ ls[l].on \in BOOLEAN /\ ls[l].it \in Iterator
       /\ told[l] \in Seq(1 .. MaxFiles) /\ due[l] \subseteq 1 .. MaxFiles
       /\ ended[l] \in BOOLEAN

(***************************************************************************)
(* The iterator never runs off its end (the assertion of flogfs.c:1826).   *)
(* flogfs.h:106 gives the sector number at the end of a block a meaning of *)
(* its own, and flogfs.c:1803 says that the iterator then waits for a new  *)
(* block; the code stops instead.  An application listing files comes to   *)
(* that line with an iterator that looked up the next block too early.     *)
(***************************************************************************)
IteratorStays == ~ panic

(***************************************************************************)
(* A listing that came to its end told every file that was there when it   *)
(* began and still is, whatever was created and removed in between         *)
(* (flogfs_ls_iterate, flogfs.c:1356-1385), and told no file twice.        *)
(***************************************************************************)
ListingComplete ==
  \A l \in Lister :
    /\ ended[l] => due[l] \subseteq { told[l][i] : i \in 1 .. Len(told[l]) }
    /\ \A i, j \in 1 .. Len(told[l]) : i < j => told[l][i] < told[l][j]

(***************************************************************************)
(* flogfs_check_exists, which follows the chain of inode blocks and stops  *)
(* at the first unused entry, and flog_walk, which looks at every block by *)
(* number (flogfs.c:762-775, 1493-1616), agree about which files exist and *)
(* that no name has two of them.                                           *)
(***************************************************************************)
ViewsAgree ==
  \A nm \in Name :
    LET there == { e \in WalkedEntries : e.name = nm /\ ~ e.dead } IN
    /\ CheckExists(nm) <=> there # {}
    /\ Cardinality(there) <= 1

(***************************************************************************)
(* The table is a directory (FlogDir): whatever blocks and pairs of        *)
(* sectors the entries are spread over, each call does to the directory    *)
(* what its name says, and a listing with its cached next block moves as   *)
(* one that counts entries (flogfs.c:1310-1388, 1777-1876, 2001-2034).     *)
(* The i-th entry is the one an iterator stands at when it has passed the  *)
(* i - 1 before it, and there are as many as ids were given out.           *)
(***************************************************************************)
EntryAt(n) == Entry(FirstIn(IterStart, LAMBDA it : it.idx = n))

Entries ==
  [ i \in 1 .. maxId |-> [ name |-> EntryAt(i - 1).name, live |-> ~ EntryAt(i - 1).dead ] ]

Dir == INSTANCE FlogDir WITH
         dir <- Entries, at <- [ l \in Lister |-> ls[l].it.idx ]
ImplementsDir == Dir!Spec

=============================================================================
