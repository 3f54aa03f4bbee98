------------------------------- MODULE FlogFS -------------------------------
(***************************************************************************)
(* The block life cycle of src/src/flogfs.c: how blocks of flash move from *)
(* the preallocation lists into the inode chain and the chains of files,   *)
(* and back, while files are opened, written, closed, removed and opened   *)
(* for reading, and while the power may be cut between any two flash       *)
(* operations.                                                             *)
(*                                                                         *)
(* The file system is sequential: every call holds flogfs.lock and the     *)
(* flash lock from its first line to its last, so at most one call is in   *)
(* progress.  A call is split into steps at every flash_commit and         *)
(* flash_erase_block, which is where a crash can leave it half done: pc    *)
(* says which step comes next and op holds the call's local variables.     *)
(*                                                                         *)
(* Sectors of a block are counted by their place in the order the code     *)
(* writes them, flog_increment_sector: 0 is FLOG_INIT_SECTOR and LastPos   *)
(* is FLOG_TAIL_SECTOR, which is written last.  Bytes are left out; what   *)
(* is kept of the offset in a sector is what flogfs_close_write tests.     *)
(***************************************************************************)
EXTENDS FlogPrealloc

CONSTANTS
  Zero,             \* block 0, which flog_prealloc_prime never takes
  Inode0,           \* the first inode block, as flogfs_format left it
  Name,             \* file names
  Handle,           \* flog_write_file_t structures of the application
  LastPos,          \* position of the tail sector of a block
  EntriesPerBlock,  \* inode entries in an inode block
  MaxFiles,         \* bound: entries ever written to the inode table
  MaxCrashes,       \* bound: crashes and reboots
  ClientRules,      \* what the application is trusted to do, see below
  None              \* FLOG_BLOCK_IDX_INVALID, a null pointer

ASSUME FlogAssumption ==
  /\ Zero \in Block /\ Inode0 \in Block
  /\ None \notin Block \cup Name \cup Handle
  /\ LastPos \in Nat \ {0}
  /\ EntriesPerBlock \in Nat \ {0}
  /\ MaxFiles \in Nat /\ MaxCrashes \in Nat

VARIABLES
  flash,    \* what the blocks hold; survives a crash
  table,    \* the inode entries, in the order they were written; survives
  ichain,   \* the inode blocks, linked by their tail sectors; survives
  maxId,    \* flogfs.max_file_id
  dirty,    \* flogfs.dirty_block
  w,        \* the contents of the write handles
  wopen,    \* flogfs.write_head: the open write handles, head first
  pc, op,   \* the call in progress
  panic,    \* the assertion that stopped the program, or "no"
  crashes   \* bound counter

durable == << flash, table, ichain >>
vars == << pre, durable, maxId, dirty, w, wopen, pc, op, panic, crashes >>

(***************************************************************************)
(* Rules of use the code states no check for.                              *)
(*   single_writer    no file is opened for writing twice (flogfs.c:1162,  *)
(*                    "TODO: Make sure file isn't already open")           *)
(*   close_before_rm  a file open for writing is not removed               *)
(*   close_flushes    a handle is closed only when that leaves no block    *)
(*                    dirty behind it                                      *)
(*   quiet_reboot     power is cut only with no call running, no block     *)
(*                    dirty, and no inode block added ahead of its entry   *)
(***************************************************************************)
Rules == { "single_writer", "close_before_rm", "close_flushes", "quiet_reboot" }

ASSUME RulesAssumption == ClientRules \subseteq Rules

-----------------------------------------------------------------------------
(* Flash blocks.                                                           *)

ErasedBlock(k) ==
  [ key |-> k, type |-> "erased", owner |-> 0, sec |-> {}, next |-> None ]

Blocks == [ key : BOOLEAN, type : { "erased", "inode", "file" }, owner : Nat,
            sec : SUBSET (0 .. LastPos), next : Block \cup { None } ]

HandleStates == [ id : Nat, blk : Block \cup { None }, pos : 0 .. LastPos,
                  off : { "zero", "header", "sixteen", "part" }, hdr : BOOLEAN ]

CallStates ==
  [ for : { "none", "mount", "open", "inode", "file", "tail", "rm", "read" },
    h : Handle \cup { None }, name : Name \cup { None },
    blk : Block \cup { None }, idx : Nat ]

NoCall == [ for |-> "none", h |-> None, name |-> None, blk |-> None, idx |-> 0 ]
Clean  == [ block |-> None, file |-> None ]
Closed == [ id |-> 0, blk |-> None, pos |-> 0, off |-> "zero", hdr |-> FALSE ]

Open == { wopen[i] : i \in 1 .. Len(wopen) }

\* flog_find_file: the entries of nm that are not invalidated.
LiveEntries(nm) ==
  { i \in 1 .. Len(table) : table[i].name = nm /\ ~ table[i].dead }

\* Deliberately wrong: a file whose first block is not written is not found.
FoundWritten(nm) ==
  \E i \in LiveEntries(nm) : flash[table[i].first].type = "file"

Found(nm) == LiveEntries(nm) # {}
IsEntryOf(i, nm) == i \in LiveEntries(nm) /\ \A j \in LiveEntries(nm) : i <= j

\* The file of entry i is open for writing.
BeingWritten(i) == \E g \in Open : w[g].id = table[i].id

\* Offset of a handle that has come to sector p of a block with no data to
\* write; in a new block it is behind the header of the init sector instead.
FreshOffset(p) ==
  IF p = LastPos THEN "sixteen"   \* sizeof(flog_file_tail_sector_header_t)
                 ELSE "zero"

(***************************************************************************)
(* Programming sectors.  A sector is programmed once between erases, which *)
(* is what the linux backend asserts (flogfs_linux_mmap.cpp:150-158).      *)
(***************************************************************************)
Programmed(b, p) == p \in flash[b].sec
Program(b, p, t, o, nx) ==
  [ flash EXCEPT ![b] = [ key |-> @.key, type |-> t, owner |-> o,
                          sec |-> @.sec \cup { p }, next |-> nx ] ]
PanicIfProgrammed(b, p) ==
  panic' = IF Programmed(b, p) THEN "unerased" ELSE panic

-----------------------------------------------------------------------------
(* flog_commit_file_sector, for every sector but the tail: handle h writes *)
(* its buffer and moves to the next sector.  A handle that reopened a file *)
(* whose first sector was never written has left no room for the header,   *)
(* so data lies where the file id is read and may look like any id.        *)

\* Deliberately wrong: a committed block stays dirty.
DirtyUnchanged(h) == dirty

DirtyAfterCommit(h) == IF dirty.file = h THEN Clean ELSE dirty

(***************************************************************************)
(* A handle can only be led into an inode block by a chain that a crash    *)
(* left dangling.  Where entries may lie in its sectors is not modelled:   *)
(* the run stops there, as "wild".                                         *)
(***************************************************************************)
PanicOnHandleWrite(b, p) ==
  panic' = IF Programmed(b, p) THEN "unerased"
           ELSE IF flash[b].type = "inode" THEN "wild" ELSE panic

CommitSector(h) ==
  LET b == w[h].blk  p == w[h].pos IN
  /\ RemovePending(b)
  /\ \E o \in IF p > 0 THEN { flash[b].owner }
              ELSE IF w[h].hdr THEN { w[h].id } ELSE 0 .. MaxFiles :
       flash' = Program(b, p, IF p = 0 THEN "file" ELSE flash[b].type, o,
                        flash[b].next)
  /\ PanicOnHandleWrite(b, p)
  /\ w' = [ w EXCEPT ![h] = [ id |-> @.id, blk |-> @.blk, pos |-> p + 1,
                              off |-> FreshOffset(p + 1), hdr |-> @.hdr ] ]
  /\ dirty' = DirtyAfterCommit(h)

(***************************************************************************)
(* flog_flush_dirty_block: the file with the dirty block commits what it   *)
(* holds, so that there is never a second dirty block.  If the handle has  *)
(* come to stand on a tail sector, committing it allocates, which flushes  *)
(* the dirty block, which commits it ... until the stack overflows.        *)
(***************************************************************************)
FlushDirty ==
  /\ pc = "flush"
  /\ pc' = "alloc"
  /\ IF dirty.block = None
       THEN UNCHANGED << pre, flash, w, dirty, panic >>
       ELSE IF w[dirty.file].pos = LastPos
         THEN panic' = "recursion" /\ UNCHANGED << pre, flash, w, dirty >>
         ELSE CommitSector(dirty.file)
  /\ UNCHANGED << table, ichain, maxId, wopen, op, crashes >>

(***************************************************************************)
(* flog_allocate_block: with nothing on the list the call fails at once;   *)
(* otherwise the head is taken, and the list is refilled if that emptied   *)
(* it, before the block is used.                                           *)
(***************************************************************************)
AllocateFails ==
  /\ pc = "alloc" /\ IsEmpty
  /\ pc' = "idle" /\ op' = NoCall
  /\ UNCHANGED << pre, durable, maxId, dirty, w, wopen, panic, crashes >>

Allocate ==
  /\ pc = "alloc" /\ ~ IsEmpty
  /\ Pop
  /\ op' = [ op EXCEPT !.blk = Head(available) ]
  /\ pc' = IF n' = 0 THEN "prime" ELSE "link"
  /\ UNCHANGED << durable, maxId, dirty, w, wopen, panic, crashes >>

(***************************************************************************)
(* flog_prealloc_prime.  Up to 63 blocks are drawn at random; a block that *)
(* does not carry a valid key is erased and given one, a block whose init  *)
(* sector was never written is taken as it is, and any other is left.  The *)
(* draws may miss every free block, so the loop may end at any moment.     *)
(***************************************************************************)

\* Deliberately wrong: the type of a block with a valid key is not looked at.
TakeableOfAnyType(b) == b # Zero /\ ~ Contains(b)

\* Deliberately wrong: blocks already on a list may be drawn again.
TakeableTwice(b) ==
  b # Zero /\ ( ~ flash[b].key \/ flash[b].type = "erased" )

Takeable(b) ==
  /\ b # Zero /\ ~ Contains(b)
  /\ ~ flash[b].key \/ flash[b].type = "erased"

Prime(b) ==
  /\ pc = "prime" /\ ~ IsFull /\ Takeable(b)
  /\ flash' = [ flash EXCEPT ![b] = IF @.key THEN @ ELSE ErasedBlock(TRUE) ]
  /\ Push(b)
  /\ UNCHANGED << table, ichain, maxId, dirty, w, wopen, pc, op, panic, crashes >>

\* Whoever primed goes on: flogfs_mount returns, an allocation is put to use.
PrimeDone ==
  /\ pc = "prime"
  /\ pc' = IF op.for = "mount" THEN "idle" ELSE "link"
  /\ op' = IF op.for = "mount" THEN NoCall ELSE op
  /\ UNCHANGED << pre, durable, maxId, dirty, w, wopen, panic, crashes >>

-----------------------------------------------------------------------------
(* flogfs_mount: the largest file id in the table is found again, nothing  *)
(* is dirty, no file is open and the preallocation lists are built anew.   *)

Ids == { table[i].id : i \in 1 .. Len(table) }

\* Deliberately wrong: the entries of removed files are not counted.
IsLargestLiveId(m) ==
  LET LiveIds == { table[i].id : i \in { j \in 1 .. Len(table) : ~ table[j].dead } } IN
  m \in { 0 } \cup LiveIds /\ \A x \in LiveIds : x <= m

\* flogfs_inspect
IsLargestId(m) == m \in { 0 } \cup Ids /\ \A x \in Ids : x <= m

Mount ==
  /\ pc = "down"
  /\ \E m \in { 0 } \cup Ids : IsLargestId(m) /\ maxId' = m
  /\ dirty' = Clean /\ wopen' = << >>
  /\ Reinitialize
  /\ pc' = "prime" /\ op' = [ NoCall EXCEPT !.for = "mount" ]
  /\ UNCHANGED << durable, w, panic, crashes >>

-----------------------------------------------------------------------------
(* flogfs_open_write on a file that exists: walk to its last block, and    *)
(* there to the first sector not yet written.                              *)

OpenExisting(h, nm) ==
  /\ pc = "idle" /\ h \notin Open
  /\ \E i \in LiveEntries(nm) :
       /\ IsEntryOf(i, nm)
       /\ "single_writer" \in ClientRules => ~ BeingWritten(i)
       /\ op' = [ for |-> "open", h |-> h, name |-> nm,
                  blk |-> table[i].first, idx |-> i ]
  /\ pc' = "open.walk"
  /\ UNCHANGED << pre, durable, maxId, dirty, w, wopen, panic, crashes >>

\* Deliberately wrong: the walk along a chain does not advance.
NextBlockStands(b) == b

\* The block the tail sector of b leads to.
NextBlock(b) == flash[b].next

\* Deliberately wrong: the scan stops at the last sector written.
LastWritten(b, p) ==
  Programmed(b, p) /\ \A q \in p + 1 .. LastPos : ~ Programmed(b, q)

FirstFree(b, p) ==
  ~ Programmed(b, p) /\ \A q \in 0 .. p - 1 : Programmed(b, q)

OpenWalk ==
  /\ pc = "open.walk"
  /\ RemovePending(op.blk)
  /\ Programmed(op.blk, LastPos)
  /\ op' = [ op EXCEPT !.blk = NextBlock(op.blk) ]
  /\ UNCHANGED << durable, maxId, dirty, w, wopen, pc, panic, crashes >>

OpenScan ==
  /\ pc = "open.walk"
  /\ RemovePending(op.blk)
  /\ ~ Programmed(op.blk, LastPos)
  /\ \E p \in 0 .. LastPos :
       /\ FirstFree(op.blk, p)
       /\ w' = [ w EXCEPT ![op.h] =
            [ id  |-> table[op.idx].id, blk |-> op.blk, pos |-> p, hdr |-> p # 0,
              off |-> FreshOffset(p) ] ]
  /\ wopen' = Append(wopen, op.h)
  /\ pc' = "idle" /\ op' = NoCall
  /\ UNCHANGED << durable, maxId, dirty, panic, crashes >>

-----------------------------------------------------------------------------
(* flogfs_open_write on a new file.  When the entry to write is the last   *)
(* of its inode block, flog_inode_prepare_new first appends an inode block.*)

\* Deliberately wrong: the inode block is only missed when it is needed.
NeedsInodeBlockLate == Len(table) > 0 /\ Len(table) % EntriesPerBlock = 0

NeedsInodeBlock == (Len(table) + 1) % EntriesPerBlock = 0
EntryBlock(i) == ichain[((i - 1) \div EntriesPerBlock) + 1]

OpenNew(h, nm) ==
  /\ pc = "idle" /\ h \notin Open /\ ~ Found(nm)
  /\ Len(table) < MaxFiles
  /\ pc' = "flush"
  /\ op' = [ NoCall EXCEPT !.for = IF NeedsInodeBlock THEN "inode" ELSE "file",
                           !.h = h, !.name = nm ]
  /\ UNCHANGED << pre, durable, maxId, dirty, w, wopen, panic, crashes >>

\* The tail of the last inode block is made to point to the new one ...
InodeTail ==
  LET last == EntryBlock(Len(table) + 1) IN
  /\ pc = "link" /\ op.for = "inode"
  /\ RemovePending(last)
  /\ flash' = Program(last, LastPos, flash[last].type, flash[last].owner, op.blk)
  /\ PanicIfProgrammed(last, LastPos)
  /\ ichain' = Append(ichain, op.blk)
  /\ pc' = "init"
  /\ UNCHANGED << table, maxId, dirty, w, wopen, op, crashes >>

\* ... and then the new one is marked as an inode block.
InodeInit ==
  /\ pc = "init"
  /\ RemovePending(op.blk)
  /\ flash' = Program(op.blk, 0, "inode", flash[op.blk].owner, flash[op.blk].next)
  /\ PanicIfProgrammed(op.blk, 0)
  /\ pc' = "flush"
  /\ op' = [ op EXCEPT !.for = "file", !.blk = None ]
  /\ UNCHANGED << table, ichain, maxId, dirty, w, wopen, crashes >>

\* Deliberately wrong: a new block is not recorded as dirty.
NeverDirty(b, h) == dirty

MadeDirty(b, h) == [ block |-> b, file |-> h ]

\* The entry is written; the first block of the file stays dirty until its
\* init sector is committed.
FileEntry ==
  /\ pc = "link" /\ op.for = "file"
  /\ RemovePending(EntryBlock(Len(table) + 1))
  /\ dirty' = MadeDirty(op.blk, op.h)
  /\ maxId' = maxId + 1
  /\ table' = Append(table, [ name |-> op.name, id |-> maxId + 1,
                              first |-> op.blk, dead |-> FALSE ])
  /\ w' = [ w EXCEPT ![op.h] = [ id |-> maxId + 1, blk |-> op.blk, pos |-> 0,
                                 off |-> "header", hdr |-> TRUE ] ]
  /\ wopen' = Append(wopen, op.h)
  /\ pc' = "idle" /\ op' = NoCall
  /\ UNCHANGED << flash, ichain, panic, crashes >>

-----------------------------------------------------------------------------
(* flogfs_write: data that does not fill the sector is buffered, data that *)
(* does is committed, and committing a tail sector first claims the next   *)
(* block of the file, which stays dirty until its init sector is written.  *)

Buffer(h) ==
  /\ pc = "idle"
  /\ w[h].off # "part"
  /\ \E o \in { "sixteen", "part" } :
       /\ w[h].pos = LastPos => o = "part"
       /\ w' = [ w EXCEPT ![h].off = o ]
  /\ UNCHANGED << pre, durable, maxId, dirty, wopen, pc, op, panic, crashes >>

WriteSector(h) ==
  /\ pc = "idle" /\ w[h].pos < LastPos
  /\ CommitSector(h)
  /\ UNCHANGED << table, ichain, maxId, wopen, pc, op, crashes >>

WriteTail(h) ==
  /\ pc = "idle" /\ w[h].pos = LastPos
  /\ pc' = "flush"
  /\ op' = [ NoCall EXCEPT !.for = "tail", !.h = h ]
  /\ UNCHANGED << pre, durable, maxId, dirty, w, wopen, panic, crashes >>

TailLink ==
  LET b == w[op.h].blk IN
  /\ pc = "link" /\ op.for = "tail"
  /\ RemovePending(b)
  /\ dirty' = MadeDirty(op.blk, op.h)
  /\ flash' = Program(b, LastPos, flash[b].type, flash[b].owner, op.blk)
  /\ PanicOnHandleWrite(b, LastPos)
  /\ w' = [ w EXCEPT ![op.h] = [ id |-> @.id, blk |-> op.blk, pos |-> 0,
                                 off |-> "header", hdr |-> TRUE ] ]
  /\ pc' = "idle" /\ op' = NoCall
  /\ UNCHANGED << table, ichain, maxId, wopen, crashes >>

-----------------------------------------------------------------------------
(* flogfs_close_write.  Only the handle at the head of the list is looked  *)
(* at; one further down is unlinked and nothing of it is flushed.          *)

Flushes(i) ==
  LET h == wopen[i] IN
  i = 1 /\ w[h].off \notin { "zero", "sixteen" } /\ w[h].pos # LastPos

\* The handle at place i of the list is closed.  What it holds is only ever
\* read again through the dirty block.
Close(i) ==
  LET h == wopen[i] IN
  /\ pc = "idle"
  /\ "close_flushes" \in ClientRules => dirty.file # h \/ Flushes(i)
  /\ wopen' = SubSeq(wopen, 1, i - 1) \o SubSeq(wopen, i + 1, Len(wopen))
  /\ UNCHANGED << table, ichain, maxId, pc, op, crashes >>
  /\ \/ ~ Flushes(i) /\ UNCHANGED << pre, flash, w, dirty, panic >>
     \/ Flushes(i) /\ CommitSector(h)

-----------------------------------------------------------------------------
(* flogfs_rm: find the end of the chain, write the invalidation next to    *)
(* the entry, then erase the blocks one by one (flog_invalidate_chain).    *)

RmStart(nm) ==
  /\ pc = "idle"
  /\ \E i \in LiveEntries(nm) :
       /\ IsEntryOf(i, nm)
       /\ "close_before_rm" \in ClientRules => ~ BeingWritten(i)
       /\ op' = [ for |-> "rm", h |-> None, name |-> nm,
                  blk |-> table[i].first, idx |-> i ]
  /\ pc' = "rm.find"
  /\ UNCHANGED << pre, durable, maxId, dirty, w, wopen, panic, crashes >>

RmFind ==
  /\ pc = "rm.find"
  /\ RemovePending(op.blk)
  /\ flash[op.blk].next # None
  /\ op' = [ op EXCEPT !.blk = NextBlock(op.blk) ]
  /\ UNCHANGED << durable, maxId, dirty, w, wopen, pc, panic, crashes >>

\* Deliberately wrong: erasing starts where the search for the end stopped.
ErasedFirstIsLast == op.blk

ErasedFirst == table[op.idx].first

RmInvalidate ==
  /\ pc = "rm.find"
  /\ RemovePending(op.blk)
  /\ flash[op.blk].next = None
  /\ table' = [ table EXCEPT ![op.idx].dead = TRUE ]
  /\ pc' = "rm.erase"
  /\ op' = [ op EXCEPT !.blk = ErasedFirst ]
  /\ UNCHANGED << flash, ichain, maxId, dirty, w, wopen, panic, crashes >>

\* The statistics written back carry a key that was never initialised,
\* and the chain is followed by the tail sector read before the erase.
RmErase ==
  /\ pc = "rm.erase" /\ op.blk # None
  /\ flash[op.blk].type = "file" /\ flash[op.blk].owner = table[op.idx].id
  /\ RemovePending(op.blk)
  /\ \E k \in BOOLEAN : flash' = [ flash EXCEPT ![op.blk] = ErasedBlock(k) ]
  /\ op' = [ op EXCEPT !.blk = NextBlock(op.blk) ]
  /\ UNCHANGED << table, ichain, maxId, dirty, w, wopen, pc, panic, crashes >>

\* assert(false) on a block of another file, assert(0) on an inode block.
RmWrongBlock ==
  /\ pc = "rm.erase" /\ op.blk # None
  /\ flash[op.blk].type # "erased"
  /\ flash[op.blk].type = "file" => flash[op.blk].owner # table[op.idx].id
  /\ RemovePending(op.blk)
  /\ panic' = "chain"
  /\ UNCHANGED << durable, maxId, dirty, w, wopen, pc, op, crashes >>

\* The chain ends, or reaches a block that was never committed.
RmDone ==
  /\ pc = "rm.erase"
  /\ \/ op.blk = None /\ UNCHANGED pre
     \/ op.blk # None /\ flash[op.blk].type = "erased" /\ RemovePending(op.blk)
  /\ pc' = "idle" /\ op' = NoCall
  /\ UNCHANGED << durable, maxId, dirty, w, wopen, panic, crashes >>

-----------------------------------------------------------------------------
(* flogfs_open_read: the size is computed by walking the chain, and every  *)
(* page it opens takes the block off the pending list.                     *)

OpenRead(nm) ==
  /\ pc = "idle"
  /\ \E i \in LiveEntries(nm) :
       /\ IsEntryOf(i, nm)
       /\ op' = [ for |-> "read", h |-> None, name |-> nm,
                  blk |-> table[i].first, idx |-> i ]
  /\ pc' = "read.walk"
  /\ UNCHANGED << pre, durable, maxId, dirty, w, wopen, panic, crashes >>

ReadWalk ==
  /\ pc = "read.walk"
  /\ RemovePending(op.blk)
  /\ IF Programmed(op.blk, LastPos) /\ flash[op.blk].next # op.blk
       THEN /\ op' = [ op EXCEPT !.blk = NextBlock(op.blk) ]
            /\ UNCHANGED pc
       ELSE pc' = "idle" /\ op' = NoCall
  /\ UNCHANGED << durable, maxId, dirty, w, wopen, panic, crashes >>

-----------------------------------------------------------------------------
(* Power is cut: memory is lost, flash stays.  The preallocation lists are *)
(* given their initial value at once, as flogfs_mount does before anything *)
(* reads them.                                                             *)

InodeSettled == NeedsInodeBlock => Len(ichain) = (Len(table) + 1) \div EntriesPerBlock

Crash ==
  /\ crashes < MaxCrashes /\ pc # "down"
  /\ "quiet_reboot" \in ClientRules =>
       pc = "idle" /\ dirty.block = None /\ InodeSettled
  /\ crashes' = crashes + 1
  /\ pc' = "down" /\ op' = NoCall
  /\ Reinitialize
  /\ maxId' = 0 /\ dirty' = Clean /\ wopen' = << >>
  /\ w' = [ h \in Handle |-> Closed ]
  /\ UNCHANGED << durable, panic >>

-----------------------------------------------------------------------------
(* flogfs_format leaves one inode block; no other block carries a key.     *)

FormattedInode ==
  [ key |-> TRUE, type |-> "inode", owner |-> 0, sec |-> { 0 }, next |-> None ]

Init ==
  /\ PreInit
  /\ flash = [ b \in Block |->
       IF b = Inode0 THEN FormattedInode ELSE ErasedBlock(FALSE) ]
  /\ table = << >> /\ ichain = << Inode0 >>
  /\ maxId = 0 /\ dirty = Clean
  /\ w = [ h \in Handle |-> Closed ] /\ wopen = << >>
  /\ pc = "down" /\ op = NoCall
  /\ panic = "no" /\ crashes = 0

\* Calls of the application.
Calls ==
  \/ Mount
  \/ \E h \in Handle, nm \in Name : OpenExisting(h, nm) \/ OpenNew(h, nm)
  \/ \E h \in Open : Buffer(h) \/ WriteSector(h) \/ WriteTail(h)
  \/ \E i \in 1 .. Len(wopen) : Close(i)
  \/ \E nm \in Name : RmStart(nm) \/ OpenRead(nm)

\* Steps of the call in progress.
Steps ==
  \/ FlushDirty \/ AllocateFails \/ Allocate
  \/ \E b \in Block : Prime(b)
  \/ PrimeDone
  \/ OpenWalk \/ OpenScan
  \/ InodeTail \/ InodeInit \/ FileEntry \/ TailLink
  \/ RmFind \/ RmInvalidate \/ RmErase \/ RmWrongBlock \/ RmDone
  \/ ReadWalk

Next == panic = "no" /\ (Calls \/ Steps \/ Crash)

Spec == Init /\ [][Next]_vars

(***************************************************************************)
(* A call that has started runs on: nothing in it waits for another call,  *)
(* so each of its steps happens eventually unless power is cut.            *)
(***************************************************************************)
Running == panic = "no" /\ Steps
FairSpec == Spec /\ WF_vars(Running)

-----------------------------------------------------------------------------
(* Properties.                                                             *)

FlogTypeOK ==
  /\ flash \in [ Block -> Blocks ]
  /\ table \in Seq([ name : Name, id : Nat, first : Block, dead : BOOLEAN ])
  /\ ichain \in Seq(Block)
  /\ maxId \in Nat
  /\ dirty \in [ block : Block \cup { None }, file : Handle \cup { None } ]
  /\ w \in [ Handle -> HandleStates ]
  /\ wopen \in Seq(Handle)
  /\ pc \in { "down", "idle", "prime", "flush", "alloc", "link", "init",
              "open.walk", "rm.find", "rm.erase", "read.walk" }
  /\ op \in CallStates
  /\ panic \in { "no", "unerased", "recursion", "chain", "wild" }
  /\ crashes \in 0 .. MaxCrashes

TypeOK == PreTypeOK /\ FlogTypeOK

Live == { i \in 1 .. Len(table) : ~ table[i].dead }

\* The block an allocation in progress holds and nothing points to yet.
InHand(b) == pc \in { "prime", "link" } /\ op.for # "mount" /\ op.blk = b

\* Everything that lays claim to block b.
Claims(b) ==
  { << "entry", i >> : i \in { j \in Live : table[j].first = b } }
  \cup { << "tail", c >> : c \in { d \in Block : flash[d].next = b } }
  \cup { << "slot", i >> : i \in { j \in 1 .. Len(available) : available[j] = b } }
  \cup { << x, 0 >> : x \in { y \in { "inode0", "alloc", "rm" } :
           \/ y = "inode0" /\ b = Inode0
           \/ y = "alloc" /\ InHand(b)
           \/ y = "rm" /\ pc = "rm.erase" /\ op.blk = b } }

(***************************************************************************)
(* No block is given out twice: at most one inode entry, tail sector,      *)
(* preallocation slot or call in progress lays claim to a block.  What     *)
(* decides whether a block is free is its type in flash and the lists in   *)
(* memory (flogfs.c:498-547), while claims are laid by open, write and rm; *)
(* a block that is claimed but has no init sector yet is told from a free  *)
(* one by nothing but the order in which blocks are flushed and drawn.     *)
(***************************************************************************)
NoSharedBlock == \A b \in Block : Cardinality(Claims(b)) <= 1

(***************************************************************************)
(* A listed block is ready to be written: erased, with a valid key.        *)
(* flog_allocate_block hands it out without another look at it             *)
(* (flogfs.c:1966-1988).                                                   *)
(***************************************************************************)
ListedBlocksAreErased ==
  \A i \in 1 .. Len(available) : flash[available[i]] = ErasedBlock(TRUE)

(***************************************************************************)
(* There is one dirty block: a block that a file owns but whose init       *)
(* sector is not written looks free to flog_prealloc_prime and to          *)
(* flog_invalidate_chain, and is always the one flogfs.dirty_block names   *)
(* (flogfs.c:100-140, 2036-2043).                                          *)
(***************************************************************************)
UncommittedIsDirty ==
  \A b \in Block :
    /\ flash[b].type = "erased"
    /\ \/ \E i \in Live : table[i].first = b
       \/ \E c \in Block : flash[c].type = "file" /\ flash[c].next = b
    => dirty.block = b

(***************************************************************************)
(* The chain of a file is its own: the first block and every block the     *)
(* tails lead to carry the id of the entry, so that flog_invalidate_chain  *)
(* never reaches its assertions (flogfs.c:1933, 1938).                     *)
(***************************************************************************)
ChainCarriesId ==
  /\ \A i \in Live : LET b == table[i].first IN
       flash[b].type # "erased" =>
         flash[b].type = "file" /\ flash[b].owner = table[i].id
  /\ \A b \in Block : flash[b].type = "file" /\ flash[b].next # None =>
       LET c == flash[b].next IN
       flash[c].type # "erased" =>
         flash[c].type = "file" /\ flash[c].owner = flash[b].owner

(***************************************************************************)
(* A write handle stands on the first sector not yet written of the last   *)
(* block of its file, whatever other handles, flushes and reboots did in   *)
(* between (flogfs.c:1166-1201, 1390-1491).                                *)
(***************************************************************************)
WriterAtEnd ==
  \A h \in Open :
    /\ flash[w[h].blk].sec = 0 .. w[h].pos - 1
    /\ flash[w[h].blk].next = None

(***************************************************************************)
(* Removing a file gives back all of its blocks: between calls, a block    *)
(* with data belongs to a file that exists (flogfs.c:1333-1345).           *)
(***************************************************************************)
NoLeak ==
  pc = "idle" => \A b \in Block : flash[b].type = "file" =>
                   \E i \in Live : table[i].id = flash[b].owner

(***************************************************************************)
(* No assertion of the code or of the linux backend fails: no sector is    *)
(* programmed twice, no chain leads into a foreign block, flushing does    *)
(* not recurse (flogfs.c:1933, 1938, flogfs_linux_mmap.cpp:150-158).       *)
(***************************************************************************)
NoPanic == panic = "no"

(***************************************************************************)
(* The scan of the inode table never runs off its last block, which is the *)
(* assert(false) of flog_inode_iterator_next (flogfs.c:1826): there is     *)
(* always a free entry behind the last one, in a block of the chain.       *)
(***************************************************************************)
InodeRoom == Len(table) < EntriesPerBlock * Len(ichain)

(***************************************************************************)
(* File ids are never reused: the entries are numbered in order, and the   *)
(* counter mount recomputes from the table (flogfs.c:603-620) stands on    *)
(* the last id handed out, removed files included.  flog_invalidate_chain  *)
(* and flogfs_read tell the blocks of a new file from those of an old one  *)
(* by nothing else (flogfs.c:809, 1912).                                   *)
(***************************************************************************)
IdsInOrder ==
  /\ \A i \in 1 .. Len(table) : table[i].id = i
  /\ pc # "down" => maxId = Len(table)

\* At most one entry of a name is live: flogfs_open_write creates a second
\* one only if flog_find_file found none (flogfs.c:1153-1160).
OneLiveEntryPerName == \A nm \in Name : Cardinality(LiveEntries(nm)) <= 1

(***************************************************************************)
(* The data of a file stays until the file is removed: neither a draw for  *)
(* free blocks (flogfs.c:526-541), nor removing another file, nor a new    *)
(* inode block erases or converts a committed block.                       *)
(***************************************************************************)
DataStays ==
  [][ \A b \in Block : flash[b].type = "file" /\ flash'[b].type # "file" =>
        \E i \in 1 .. Len(table) : table[i].id = flash[b].owner /\ table[i].dead ]_vars

(***************************************************************************)
(* The calls use the preallocation lists within the contract their         *)
(* assertions state (flogfs.c:1707-1708, 1730).                            *)
(***************************************************************************)
UsesPrealloc == PreSpec

(***************************************************************************)
(* A call that was started returns: no walk along a chain or through the   *)
(* lists goes on for ever.                                                 *)
(***************************************************************************)
Busy == pc \notin { "down", "idle" }
CallsReturn == Busy ~> ~ Busy

=============================================================================
