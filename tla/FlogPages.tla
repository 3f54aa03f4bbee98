----------------------------- MODULE FlogPages -----------------------------
(***************************************************************************)
(* From the file system down to the memory: the calls of src/src/flogfs.c  *)
(* as the page operations they issue, cache_status, and the backends       *)
(* linux-mmap and arduino-sd with the page they hold open.                 *)
(*                                                                         *)
(* The file system names a block and a sector; the flash interface has an  *)
(* open page instead, and cache_status remembers which one it is, so that  *)
(* it is not opened again.  Some calls open pages without telling          *)
(* cache_status.  The SD backend, besides, writes less carefully into the  *)
(* block it erased last.  Whether the right bytes end up in the right      *)
(* place depends on the order of operations of different calls.            *)
(*                                                                         *)
(* A call is a plan, the parts of the call still to come, and a script,    *)
(* the page operations of the part at hand, which are executed one by one. *)
(* What a part does next depends on what it read; scripts are made from    *)
(* what the flash holds, and PageMeant says that this is what was read.    *)
(*                                                                         *)
(* On the SD card erases, writes and reads fail, at any time, MaxFaults    *)
(* times.  A failing erase may have erased a part of the block.  A failing *)
(* write leaves the card as it was and nobody is told: flogfs_arduino_sd   *)
(* drops the result (125, 132).  A failing read leaves the buffer as it    *)
(* was, and is modelled where calls decide by it what to erase and what to *)
(* mount: in priming (523, 1888) and in the search of mount (584).         *)
(***************************************************************************)
EXTENDS FlogPrealloc

CONSTANTS
  Blocks,        \* params.number_of_blocks
  First,         \* FS_FIRST_BLOCK
  Inode0Max,     \* FS_INODE0_MAX_BLOCK
  PagesPerBlock, \* params.pages_per_block
  Bad,           \* blocks the backend reports as bad; none in both backends
  Backends,      \* the backends that are tried
  MaxFiles,      \* bound: files created between two formats
  MaxChain,      \* bound: blocks of a file
  MaxFaults,     \* bound: operations that fail
  PageRules      \* what is trusted, see below


SectorsPerPage == 4              \* FS_SECTORS_PER_PAGE
LastSector == PagesPerBlock * SectorsPerPage - 1
STAT  == 0                       \* FLOG_BLOCK_STATISTICS_SECTOR
INIT  == 1                       \* FLOG_INIT_SECTOR
TAIL  == 3                       \* FLOG_TAIL_SECTOR
ENTRY == 4                       \* FLOG_INODE_FIRST_ENTRY_SECTOR
None  == -1                      \* FLOG_BLOCK_IDX_INVALID

ASSUME PagesAssumption ==
  /\ Blocks \in Nat /\ Block = 0 .. Blocks - 1
  /\ First \in { 0, 1 } /\ First \in Block
  /\ Inode0Max \in First + 1 .. Blocks
  /\ PagesPerBlock \in Nat /\ PagesPerBlock > 1
  /\ Bad \subseteq Block
  /\ Backends \subseteq { "mmap", "sd_write", "sd_erase" } /\ Backends # {}
  /\ MaxFiles \in Nat /\ MaxChain \in Nat /\ MaxFaults \in Nat

(***************************************************************************)
(* Rules of use.                                                           *)
(*   close_before_rm  a file is removed only when it was closed, and that  *)
(*                    left no block dirty                                  *)
(*   rm_erases        no erase of flogfs_rm fails: the code does not look  *)
(*                    at its result (1922)                                 *)
(*   writes_hold      no write fails: the backend drops the result of      *)
(*                    sd_raw_write_data                                    *)
(*   reads_hold       no read fails by which priming and mount decide: the *)
(*                    code does not look at the result (523, 584, 1888)    *)
(*   quiet_reboot     a format is begun, and power is cut in any other     *)
(*                    call than a format or a mount, only when nothing is  *)
(*                    dirty and no inode block is ahead of its entry, or   *)
(*                    something was lost already                           *)
(***************************************************************************)
ASSUME PageRulesAssumption ==
  PageRules \subseteq { "close_before_rm", "rm_erases", "quiet_reboot",
                        "writes_hold", "reads_hold" }

VARIABLES
  backend, \* the backend this flash is driven by
  mem,     \* its memory: what the sd blocks (512 bytes) hold
  dev,     \* the backend's open_block, open_page and last_block_erased
  cache,   \* flogfs.cache_status
  lost,    \* a write was lost or a read failed since the last format began
  state,   \* flogfs.state: "reset" or "mounted"
  inode0,  \* flogfs.inode0
  ichain,  \* the inode blocks
  files,   \* the entries of the inode table and what is known of each file
  dirty,   \* the file of flogfs.dirty_block, 0 if there is none
  plan,    \* parts of the running call that are still to come
  todo,    \* page operations of its present part
  call,    \* the running call: its name and what it works on
  whole,   \* a format reported success and none has erased anything since
  on,      \* there is power
  faults   \* operations that failed

layer  == << mem, dev, cache, lost >>
fs     == << ichain, files, dirty >>
mounts == << state, inode0, whole, on >>
vars   == << pre, backend, layer, fs, mounts, plan, todo, call, faults >>

-----------------------------------------------------------------------------
(* Where things lie.  A page is five sd blocks: four sectors, and one for  *)
(* their four spares (flogfs_linux_mmap.cpp:85-101, 167-185 and            *)
(* flogfs_arduino_sd.cpp:30-38, 104-131).                                  *)

SdBlock(b, p, i) == (b * PagesPerBlock + p) * (SectorsPerPage + 1) + i

\* The place of an operation's data when block b and page p are open.
Place(b, p, x) ==
  IF x.op = "spare" THEN [ at |-> SdBlock(b, p, SectorsPerPage), part |-> x.s % SectorsPerPage ]
  ELSE [ at |-> SdBlock(b, p, x.s % SectorsPerPage), part |-> IF x.part = "first" THEN 0 ELSE 1 ]

PlaceOf(m) == [ at |-> m.at, part |-> m.part ]

\* What a place of the memory holds, as the file system names it.
Named(m) ==
  LET i == m.at % (SectorsPerPage + 1)
      p == (m.at \div (SectorsPerPage + 1)) % PagesPerBlock IN
  [ b |-> m.at \div ((SectorsPerPage + 1) * PagesPerBlock),
    s |-> p * SectorsPerPage + (IF i = SectorsPerPage THEN m.part ELSE i),
    part |-> IF i = SectorsPerPage THEN "spare" ELSE IF m.part = 0 THEN "first" ELSE "rest",
    tag |-> m.tag ]

held == { Named(m) : m \in mem }
Holds(b, s, part, tag) == [ b |-> b, s |-> s, part |-> part, tag |-> tag ] \in held

Keyed(b)        == Holds(b, STAT, "first", "key")     \* not invalid_block
IsInode0(b)     == Holds(b, INIT, "spare", "inode0")
IsInode(b)      == IsInode0(b) \/ Holds(b, INIT, "spare", "inode")
IsFileBlock(b)  == Holds(b, INIT, "spare", "file")
Unallocated(b)  == ~ IsInode(b) /\ ~ IsFileBlock(b)

-----------------------------------------------------------------------------
(* Page operations.                                                        *)

Op(o, b, s, part, tag) == [ op |-> o, b |-> b, s |-> s, part |-> part, tag |-> tag ]

Open(b, s)       == << Op("open", b, s, "", "") >>        \* flog_open_sector
See(b, s)        == << Op("see", b, s, "", "") >>         \* and a read of it
Raw(b)           == << Op("raw", b, 0, "", "") >>         \* flash_open_page
Probe(b)         == << Op("probe", b, 0, "", "") >>       \* all of these, of page 0
Close            == << Op("close", None, 0, "", "") >>    \* flog_close_sector
Erase(b)         == << Op("erase", b, 0, "", "") >>       \* flash_erase_block
Write(b, s, part, t) == << Op("write", b, s, part, t) >>  \* flash_write_sector
Spare(b, s, t)   == << Op("spare", b, s, "spare", t) >>   \* flash_write_spare
Listed(b)        == << Op("push", b, 0, "", "") >>        \* flog_prealloc_push
ListsAnew        == << Op("lists", None, 0, "", "") >>    \* flog_prealloc_initialize
Nothing          == Op("none", None, 0, "", "")

\* flog_block_statistics_write
Statistics(b, key) == Open(b, STAT) \o Write(b, STAT, "first", key)

Sd == backend # "mmap"

\* Deliberately wrong: the backend goes on taking the block for erased.
DevOpenedErased(b, p) == [ dev EXCEPT !.block = b, !.page = p ]

\* flash_open_page
DevOpened(b, p) ==
  [ block |-> b, page |-> p,
    erased |-> IF Sd /\ dev.erased # b THEN None ELSE dev.erased ]

Cached(b, s) ==
  cache.open /\ cache.block = b /\ cache.page = s \div SectorsPerPage

\* Deliberately wrong: cache_status compares the block and not the page.
OpenPageOfBlock(b, s) ==
  IF cache.open /\ cache.block = b THEN UNCHANGED << pre, dev, cache >>
  ELSE /\ dev' = DevOpened(b, s \div SectorsPerPage)
       /\ cache' = [ open |-> TRUE, block |-> b, page |-> s \div SectorsPerPage ]
       /\ RemovePending(b)

\* Deliberately wrong: a block stays pending when it is opened.
OpenPageKeepsPending(b, s) ==
  IF Cached(b, s) THEN UNCHANGED << pre, dev, cache >>
  ELSE /\ dev' = DevOpened(b, s \div SectorsPerPage)
       /\ cache' = [ open |-> TRUE, block |-> b, page |-> s \div SectorsPerPage ]
       /\ UNCHANGED pre

\* flog_open_page
OpenPage(b, s) ==
  IF Cached(b, s) THEN UNCHANGED << pre, dev, cache >>
  ELSE /\ dev' = DevOpened(b, s \div SectorsPerPage)
       /\ cache' = [ open |-> TRUE, block |-> b, page |-> s \div SectorsPerPage ]
       /\ RemovePending(b)

(***************************************************************************)
(* How mounting, priming and walking look at a block: page 0 is opened by  *)
(* flash_open_page, without telling cache_status; reading the statistics   *)
(* and the spare of the init sector tells it, and flog_close_sector makes  *)
(* it forget (513-524, 575-585, 1512-1523).                                *)
(***************************************************************************)
ProbePage(b) ==
  /\ dev' = DevOpened(b, 0)
  /\ cache' = [ open |-> FALSE, block |-> b, page |-> 0 ]
  /\ IF Cached(b, STAT) THEN UNCHANGED pre ELSE RemovePending(b)

(***************************************************************************)
(* flash_erase_block.  The SD backend passes the first sd block of the     *)
(* next block as the end of the range.  The loop of sd_raw_erase that      *)
(* writes block by block stops before it; the card's own erase command     *)
(* takes the end to be the last block erased.                              *)
(***************************************************************************)
ErasedRange(b) ==
  SdBlock(b, 0, 0) ..
    (IF backend = "sd_erase" THEN SdBlock(b + 1, 0, 0) ELSE SdBlock(b + 1, 0, 0) - 1)

MemErased(b) == { m \in mem : m.at \notin ErasedRange(b) }

(***************************************************************************)
(* flash_write_sector, flash_write_spare.  The SD backend writes whole     *)
(* 512 bytes: it reads them first, except those of a sector in the block   *)
(* it erased last.  The other backend asserts that nothing is there.       *)
(***************************************************************************)
Preserves(x) == x.op = "spare" \/ dev.erased # dev.block

MemWritten(x) ==
  LET at == Place(dev.block, dev.page, x) IN
  { m \in mem : m.at # at.at \/ (PlaceOf(m) # at /\ (~ Sd \/ Preserves(x))) }
    \cup { [ at |-> at.at, part |-> at.part, tag |-> x.tag ] }

-----------------------------------------------------------------------------
(* One page operation after the other.                                     *)

Goto(p, t) == plan' = p /\ todo' = t

Aside == UNCHANGED << backend, fs, mounts, call, faults >>

Access(x) ==
  /\ \/ x.op \in { "open", "see" } /\ OpenPage(x.b, x.s)
     \/ x.op = "raw" /\ dev' = DevOpened(x.b, 0) /\ UNCHANGED << pre, cache >>
     \/ x.op = "probe" /\ ProbePage(x.b)
     \/ x.op = "close" /\ cache' = [ cache EXCEPT !.open = FALSE ] /\ UNCHANGED << pre, dev >>
  /\ Goto(plan, Tail(todo))
  /\ UNCHANGED << mem, lost >> /\ Aside

\* The last write of a format makes block b the inode table.
FormatDone(x) ==
  IF call.for = "format" /\ x.op = "spare"
    THEN whole' = TRUE /\ ichain' = << x.b >>
    ELSE UNCHANGED << whole, ichain >>

Program(x) ==
  /\ x.op \in { "write", "spare" }
  /\ mem' = MemWritten(x)
  /\ FormatDone(x)
  /\ Goto(plan, Tail(todo))
  /\ UNCHANGED << pre, backend, dev, cache, lost, files, dirty, state, inode0, on, call, faults >>

(***************************************************************************)
(* A write that programs nothing: reading the rest of the 512 bytes or     *)
(* writing them fails.  The call goes on as if it had written; one that    *)
(* fails after programming is Program.  Of a flash with a lost write the   *)
(* running call, power, format and the search of mount are modelled: a     *)
(* bound.                                                                  *)
(***************************************************************************)
MayFail(rule) == Sd /\ faults < MaxFaults /\ rule \notin PageRules

WriteFails(x) ==
  /\ x.op \in { "write", "spare" } /\ MayFail("writes_hold")
  /\ lost' = TRUE /\ faults' = faults + 1
  /\ FormatDone(x)
  /\ Goto(plan, Tail(todo))
  /\ UNCHANGED << pre, backend, mem, dev, cache, files, dirty, state, inode0, on, call >>

Lists(x) ==
  /\ \/ x.op = "push" /\ Push(x.b)
     \/ x.op = "lists" /\ Reinitialize
  /\ Goto(plan, Tail(todo))
  /\ UNCHANGED layer /\ Aside

\* The first erase of a format makes an end of what was there.
FormatBegun ==
  IF call.for = "format"
    THEN whole' = FALSE /\ lost' = FALSE /\ files' = << >> /\ ichain' = << >> /\ dirty' = 0
    ELSE UNCHANGED << whole, lost, fs >>

DoErase(x) ==
  /\ x.op = "erase"
  /\ mem' = MemErased(x.b)
  /\ dev' = [ dev EXCEPT !.erased = IF Sd THEN x.b ELSE @ ]
  /\ FormatBegun
  /\ Goto(plan, Tail(todo))
  /\ UNCHANGED << pre, backend, cache, state, inode0, on, call, faults >>

(***************************************************************************)
(* An erase fails, which only the SD backend reports: format, mount and    *)
(* priming give up there.  Priming that fails does not make an allocation  *)
(* fail; flogfs_rm goes on as if the block were erased.  Block by block,   *)
(* sd blocks from the first one on may be erased; the card's own erase is  *)
(* done or not, perhaps after the call gave it up: a busy card serves      *)
(* nothing before.                                                         *)
(***************************************************************************)
EraseStops(b) ==
  IF backend = "sd_erase" THEN { SdBlock(b, 0, 0), SdBlock(b + 1, 0, 0) + 1 }
  ELSE SdBlock(b, 0, 0) .. SdBlock(b + 1, 0, 0)

MemHalfErased(b, stop) == { m \in mem : m.at \notin SdBlock(b, 0, 0) .. stop - 1 }

EraseFails(x) ==
  /\ x.op = "erase" /\ Sd /\ faults < MaxFaults
  /\ call.for = "rm" => "rm_erases" \notin PageRules
  /\ \E stop \in EraseStops(x.b) : mem' = MemHalfErased(x.b, stop)
  /\ IF mem' = mem THEN UNCHANGED << whole, lost, fs >> ELSE FormatBegun
  /\ faults' = faults + 1
  /\ dev' = [ dev EXCEPT !.erased = x.b ]
  /\ CASE call.for \in { "format", "mount" } -> Goto(<< >>, << >>)
       [] call.for = "rm"                    -> Goto(plan, Tail(todo))
       [] OTHER                              -> Goto(Tail(plan), << >>)
  /\ UNCHANGED << pre, backend, cache, state, inode0, on, call >>

Step ==
  /\ on /\ todo # << >>
  /\ LET x == Head(todo) IN
       Access(x) \/ Program(x) \/ WriteFails(x) \/ Lists(x) \/ DoErase(x) \/ EraseFails(x)

-----------------------------------------------------------------------------
(* The inode table, as the calls walk it (1777-1876, 2001-2034).           *)

EntriesPerBlock == (LastSector - ENTRY + 1) \div 2
EntryBlock(k)   == ichain[((k - 1) \div EntriesPerBlock) + 1]
EntrySector(k)  == ENTRY + 2 * ((k - 1) % EntriesPerBlock)
Newest          == Len(files) + 1            \* the first unused entry
NeedsBlock      == Newest % EntriesPerBlock = 0

Flat(ss) == LET cat[i \in 0 .. Len(ss)] ==
                  IF i = 0 THEN << >> ELSE cat[i - 1] \o ss[i]
            IN cat[Len(ss)]

\* flog_inode_iterator_initialize
IterStart == See(inode0, TAIL) \o See(inode0, INIT)

\* flog_inode_iterator_next: the tail of an inode block is read on entering it.
IterAt(k) ==
  IF k > 1 /\ EntrySector(k) = ENTRY THEN See(EntryBlock(k), TAIL) ELSE << >>

\* flog_find_file for the file of entry k, or for a new name.
Find(k) ==
  IterStart \o Flat([ j \in 1 .. k |-> IterAt(j) \o See(EntryBlock(j), EntrySector(j)) ])
    \o (IF k = Newest THEN << >> ELSE See(EntryBlock(k), EntrySector(k) + 1))

-----------------------------------------------------------------------------
(* Parts of calls.                                                         *)

Idle == on /\ ~ lost /\ state = "mounted" /\ plan = << >> /\ todo = << >>
NextPart(part) == on /\ todo = << >> /\ plan # << >> /\ Head(plan) = part

\* Deliberately wrong: the tail sector is not come to after the last one.
NextSectorPastEnd(s) == IF s = 2 THEN 4 ELSE s + 1

\* flog_increment_sector
NextSector(s) == CASE s = LastSector -> TAIL [] s = 2 -> 4 [] OTHER -> s + 1

LastBlock(f) == files[f].chain[Len(files[f].chain)]

\* flog_commit_file_sector, its writes: what is in the buffer, the header
\* perhaps, and then the data of the call, unless it is a flush.
Sector(b, s, t, both) ==
  Open(b, s) \o Write(b, s, "first", t)
    \o (IF both THEN Write(b, s, "rest", t) ELSE << >>) \o Spare(b, s, t)

Committed(f) == [ files EXCEPT ![f].sector = NextSector(@) ]

\* flog_flush_dirty_block
Flush ==
  /\ NextPart("flush")
  /\ IF dirty = 0
       THEN Goto(Tail(plan), << >>) /\ UNCHANGED << files, dirty >>
       ELSE /\ Goto(Tail(plan), Sector(LastBlock(dirty), files[dirty].sector, "file", FALSE))
            /\ files' = Committed(dirty) /\ dirty' = 0
  /\ UNCHANGED << pre, backend, layer, ichain, mounts, call, faults >>

\* flog_allocate_block; without a block the call gives up.
Allocate ==
  /\ NextPart("allocate")
  /\ IF IsEmpty
       THEN Goto(<< >>, << >>) /\ UNCHANGED << pre, call >>
       ELSE /\ Pop
            /\ call' = [ call EXCEPT !.b = Head(available) ]
            /\ Goto(IF n' = 0 THEN << "prime" >> \o Tail(plan) ELSE Tail(plan), << >>)
  /\ UNCHANGED << backend, layer, fs, mounts, faults >>

(***************************************************************************)
(* flog_prealloc_prime: a draw looks at a block and, if the block has no   *)
(* valid key, erases it and writes its statistics.  A block reported bad   *)
(* is left at once.                                                        *)
(***************************************************************************)

Drawable(b) == b # 0 /\ ~ Contains(b)

\* What is done with a drawn block that is seen to be keyed, and to be free.
Drawn(b, keyed, free) ==
  IF b \in Bad THEN Raw(b)
  ELSE IF ~ keyed THEN Probe(b) \o Erase(b) \o Statistics(b, "key") \o Listed(b)
  ELSE IF free THEN Probe(b) \o Listed(b) ELSE Probe(b)

Draw(b) ==
  /\ NextPart("prime") /\ ~ IsFull /\ Drawable(b)
  /\ Goto(plan, Drawn(b, Keyed(b), Unallocated(b)))
  /\ UNCHANGED << pre, backend, layer, fs, mounts, call, faults >>

Misread == MayFail("reads_hold") /\ lost' = TRUE /\ faults' = faults + 1

\* A read fails, and priming goes by what is left in its buffer.
MisDraw(b) ==
  /\ NextPart("prime") /\ ~ IsFull /\ Drawable(b)
  /\ Misread
  /\ \E keyed, free \in BOOLEAN : Goto(plan, Drawn(b, keyed, free))
  /\ UNCHANGED << pre, backend, mem, dev, cache, fs, mounts, call >>

\* The list is full, or the draws are used up.
PrimeEnds ==
  /\ NextPart("prime")
  /\ Goto(Tail(plan), << >>)
  /\ state' = IF call.for = "mount" THEN "mounted" ELSE state
  /\ UNCHANGED << pre, backend, layer, fs, inode0, whole, on, call, faults >>

-----------------------------------------------------------------------------
(* Calls on a mounted file system.                                         *)

Begin(for, f, p, t) ==
  /\ Goto(p, t)
  /\ call' = [ for |-> for, f |-> f, b |-> None ]
  /\ UNCHANGED << pre, backend, layer, mounts, faults >>

\* flogfs_open_write for a new name
Create ==
  /\ Idle /\ Len(files) < MaxFiles
  /\ Begin("create", Newest,
           (IF NeedsBlock THEN << "flush", "allocate", "inode" >> ELSE << >>)
             \o << "flush", "allocate", "entry" >>, Find(Newest))
  /\ UNCHANGED fs

InodeHead(b) == Write(b, INIT, "first", "inode") \o Spare(b, INIT, "inode")

\* flog_inode_prepare_new
AppendInode ==
  /\ NextPart("inode")
  /\ Goto(Tail(plan), Open(EntryBlock(Newest), TAIL)
            \o Write(EntryBlock(Newest), TAIL, "first", "tail")
            \o Open(call.b, INIT) \o InodeHead(call.b))
  /\ ichain' = Append(ichain, call.b)
  /\ UNCHANGED << pre, backend, layer, files, dirty, mounts, call, faults >>

WriteEntry ==
  /\ NextPart("entry")
  /\ Goto(Tail(plan), Open(EntryBlock(Newest), EntrySector(Newest))
            \o Write(EntryBlock(Newest), EntrySector(Newest), "first", "entry"))
  /\ dirty' = call.f
  /\ files' = Append(files, [ chain |-> << call.b >>, sector |-> INIT,
                              dead |-> FALSE, open |-> TRUE ])
  /\ UNCHANGED << pre, backend, layer, ichain, mounts, call, faults >>

(***************************************************************************)
(* flogfs_write fills sectors, in its loop: one of the first page, or all  *)
(* of the pages behind it (a bound on the amounts of data).                *)
(***************************************************************************)
Fill(s) == IF s < ENTRY THEN << s >> ELSE [ i \in 1 .. LastSector - s + 1 |-> s + i - 1 ]

Commit(f) ==
  /\ Idle /\ files[f].open /\ files[f].sector # TAIL
  /\ LET ss == Fill(files[f].sector) IN
     /\ Begin("write", f, << >>,
              Flat([ i \in DOMAIN ss |-> Sector(LastBlock(f), ss[i], "file", TRUE) ]))
     /\ files' = [ files EXCEPT ![f].sector = NextSector(ss[Len(ss)]) ]
  /\ dirty' = IF dirty = f THEN 0 ELSE dirty
  /\ UNCHANGED ichain

\* flogfs_write fills a tail sector, which takes a new block first.
CommitTail(f) ==
  /\ Idle /\ files[f].open /\ files[f].sector = TAIL
  /\ Len(files[f].chain) < MaxChain
  /\ Begin("write", f, << "flush", "allocate", "tail" >>, << >>)
  /\ UNCHANGED fs

LinkTail ==
  /\ NextPart("tail")
  /\ Goto(Tail(plan), Sector(LastBlock(call.f), TAIL, "file", TRUE))
  /\ dirty' = call.f
  /\ files' = [ files EXCEPT ![call.f].chain = Append(@, call.b), ![call.f].sector = INIT ]
  /\ UNCHANGED << pre, backend, layer, ichain, mounts, call, faults >>

(***************************************************************************)
(* flogfs_rm: to the end of the chain and back to the entry, and then for  *)
(* each block what flog_invalidate_chain does.  The key it writes back was *)
(* never set and may be right or wrong.                                    *)
(***************************************************************************)
Invalidated(b, key) ==
  See(b, INIT) \o See(b, TAIL) \o Close \o Erase(b) \o Statistics(b, key)

Remove(f) ==
  /\ Idle /\ ~ files[f].dead
  /\ "close_before_rm" \in PageRules => dirty # f
  /\ LET ch == files[f].chain
         e  == EntryBlock(f)
         s  == EntrySector(f) + 1 IN
     \E key \in { "key", "nokey" } :
       Begin("rm", f, << >>,
         Find(f) \o Flat([ i \in 1 .. Len(ch) |-> See(ch[i], TAIL) ])
           \o Open(e, s) \o Write(e, s, "first", "dead")
           \o Flat([ i \in 1 .. Len(ch) |-> Invalidated(ch[i], key) ]))
  /\ files' = [ files EXCEPT ![f].dead = TRUE, ![f].open = FALSE ]
  /\ dirty' = IF dirty = f THEN 0 ELSE dirty
  /\ UNCHANGED ichain

(* Calls that read: a sector of a file (flogfs_read; a bound: one of the   *)
(* first or the last page of a block), the table with its names            *)
(* (flogfs_ls_iterate), and every block by number (flog_walk), which opens *)
(* pages as priming does.                                                  *)
Walked(b) ==
  IF ~ Keyed(b) THEN Raw(b) \o See(b, STAT)
  ELSE Probe(b) \o See(b, TAIL) \o Close
         \o (IF Unallocated(b) THEN << >> ELSE See(b, LastSector) \o Close)

Look ==
  /\ Idle
  /\ \/ \E f \in DOMAIN files : \E i \in DOMAIN files[f].chain :
        \E s \in { INIT, LastSector } :
          ~ files[f].dead /\ Begin("read", f, << >>, See(files[f].chain[i], s))
     \/ \E k \in DOMAIN files :
          Begin("ls", k, << >>, See(EntryBlock(k), EntrySector(k))
                                  \o See(EntryBlock(k), EntrySector(k) + 1))
     \/ Begin("walk", 0, << >>, Flat([ i \in 1 .. Blocks |-> Walked(i - 1) ]))
  /\ UNCHANGED fs

-----------------------------------------------------------------------------
(* Format, power and mount.                                                *)

FirstGood == CHOOSE b \in First .. Blocks - 1 :
               b \notin Bad /\ \A c \in First .. b - 1 : c \in Bad

Quiet ==
  /\ plan = << >> /\ todo = << >> /\ dirty = 0
  /\ Len(ichain) <= (Newest - 1) \div EntriesPerBlock + 1

\* Deliberately wrong: the other blocks are erased when the table is there.
FormatScriptTableFirst ==
  Open(FirstGood, STAT) \o Erase(FirstGood) \o Statistics(FirstGood, "key")
    \o Open(FirstGood, INIT) \o Write(FirstGood, INIT, "first", "inode")
    \o Spare(FirstGood, INIT, "inode0")
    \o Flat([ i \in 1 .. Blocks - First - 1 |-> Open(First + i, STAT) \o Erase(First + i) ])

FormatScript ==
  Flat([ i \in 1 .. Blocks - First |-> Open(First + i - 1, STAT) \o Erase(First + i - 1) ])
    \o Flat([ i \in 1 .. FirstGood - First |-> Open(First + i - 1, STAT) ])
    \o Open(FirstGood, STAT) \o Close \o Erase(FirstGood) \o Statistics(FirstGood, "key")
    \o Open(FirstGood, INIT) \o Write(FirstGood, INIT, "first", "inode")
    \o Spare(FirstGood, INIT, "inode0")

Format ==
  /\ on /\ plan = << >> /\ todo = << >>
  /\ "quiet_reboot" \in PageRules => Quiet \/ lost
  /\ state' = "reset"
  /\ Goto(<< >>, FormatScript)
  /\ call' = [ for |-> "format", f |-> 0, b |-> None ]
  /\ UNCHANGED << pre, backend, layer, fs, inode0, whole, on, faults >>

\* flogfs_find_first_inode
IsFirstInode(b) == b \notin Bad /\ Keyed(b) /\ IsInode0(b)

Probed(b) == IF b \in Bad THEN Raw(b) ELSE Probe(b)

Found(b) == IsFirstInode(b) /\ \A c \in First .. b - 1 : ~ IsFirstInode(c)

\* flogfs_mount: what is in memory is forgotten, inode0 looked for, the table
\* read to its end, and the lists built.
Remount(for) ==
  /\ on /\ state = "reset" /\ plan = << >> /\ todo = << >>
  /\ cache' = [ open |-> FALSE, block |-> 0, page |-> 0 ]
  /\ dirty' = 0
  /\ files' = [ f \in DOMAIN files |-> [ files[f] EXCEPT !.open = FALSE ] ]
  /\ call' = [ for |-> for, f |-> 0, b |-> None ]
  /\ UNCHANGED << pre, backend, mem, dev, ichain, state, whole, on >>

Takes(b) ==
  /\ inode0' = b
  /\ Goto(<< "inspect", "prime" >>,
          Flat([ i \in 1 .. b - First + 1 |-> Probed(First + i - 1) ]))

TakesNone ==
  /\ inode0' = None
  /\ Goto(<< >>, Flat([ i \in 1 .. Inode0Max - First |-> Probed(First + i - 1) ]))

Mount ==
  /\ Remount("mount")
  /\ \/ \E b \in First .. Inode0Max - 1 : Found(b) /\ Takes(b)
     \/ (\A b \in First .. Inode0Max - 1 : ~ Found(b)) /\ TakesNone
  /\ UNCHANGED << lost, faults >>

\* A read fails, and the search is misled: it takes or passes by a block that
\* it should not.
MisMount ==
  /\ Remount("misled") /\ Misread
  /\ (\E b \in First .. Inode0Max - 1 : b \notin Bad /\ Takes(b)) \/ TakesNone

Inspect ==
  /\ NextPart("inspect") /\ ~ lost
  /\ Goto(Tail(plan), Find(Newest) \o ListsAnew)
  /\ UNCHANGED << pre, backend, layer, fs, mounts, call, faults >>

\* Power goes, at any page operation; what was in memory starts from zero.
PowerCut ==
  /\ on
  /\ "quiet_reboot" \in PageRules => Quiet \/ lost \/ call.for \in { "format", "mount" }
  /\ on' = FALSE /\ state' = "reset" /\ inode0' = None
  /\ Goto(<< >>, << >>)
  /\ call' = [ for |-> "none", f |-> 0, b |-> None ]
  /\ UNCHANGED << pre, backend, layer, fs, whole, faults >>

PowerOn ==
  /\ ~ on /\ on' = TRUE
  /\ Reinitialize
  /\ dev' = [ block |-> None, page |-> 0, erased |-> None ]
  /\ cache' = [ open |-> FALSE, block |-> 0, page |-> 0 ]
  /\ UNCHANGED << backend, mem, lost, fs, state, inode0, whole, plan, todo, call, faults >>

Init ==
  /\ PreInit
  /\ backend \in Backends
  /\ mem = {} /\ lost = FALSE /\ ichain = << >> /\ files = << >> /\ dirty = 0
  /\ dev = [ block |-> None, page |-> 0, erased |-> None ]
  /\ cache = [ open |-> FALSE, block |-> 0, page |-> 0 ]
  /\ state = "reset" /\ inode0 = None /\ whole = FALSE /\ on = TRUE
  /\ plan = << >> /\ todo = << >> /\ faults = 0
  /\ call = [ for |-> "none", f |-> 0, b |-> None ]

Next ==
  \/ Step
  \/ Flush \/ Allocate \/ PrimeEnds
  \/ \E b \in Block : Draw(b) \/ MisDraw(b)
  \/ Create \/ AppendInode \/ WriteEntry \/ LinkTail
  \/ \E f \in DOMAIN files : Commit(f) \/ CommitTail(f) \/ Remove(f)
  \/ Look
  \/ Format \/ Mount \/ MisMount \/ Inspect
  \/ PowerCut \/ PowerOn

Spec == Init /\ [][Next]_vars

-----------------------------------------------------------------------------
(* Properties.                                                             *)

PagesTypeOK ==
  /\ backend \in Backends /\ state \in { "reset", "mounted" }
  /\ \A m \in mem : m.at \in 0 .. SdBlock(Blocks, 0, 0) - 1
  /\ dev.block \in Block \cup { None } /\ dev.erased \in Block \cup { None }
  /\ dev.page \in 0 .. PagesPerBlock - 1
  /\ inode0 \in Block \cup { None } /\ ichain \in Seq(Block)
  /\ \A f \in DOMAIN files :
       files[f].sector \in INIT .. LastSector /\ files[f].chain \in Seq(Block)
  /\ dirty \in 0 .. Len(files) /\ (dirty # 0 => files[dirty].sector = INIT)
  /\ faults \in 0 .. MaxFaults

(***************************************************************************)
(* Whatever is read or written is read or written in the page that is      *)
(* meant (flogfs.c:1742-1763): what cache_status takes to be open is open, *)
(* although mounting, priming and walking open pages behind its back       *)
(* (513, 575, 1512).                                                       *)
(***************************************************************************)
PageMeant ==
  on /\ todo # << >> =>
    LET x == Head(todo)
        here == dev.block = x.b /\ dev.page = x.s \div SectorsPerPage IN
    /\ x.op \in { "write", "spare" } => here
    /\ x.op \in { "open", "see" } /\ Cached(x.b, x.s) => here

(***************************************************************************)
(* On a formatted flash that lost nothing, a block that was put to use is  *)
(* not pending any more (flogfs.c:1752): it is taken off the list only     *)
(* when its page was not the open one.                                     *)
(***************************************************************************)
PendingIsBlank == whole /\ ~ lost => \A b \in pending : Unallocated(b)

(***************************************************************************)
(* Nothing that was stored of a file that was not removed is gone: its     *)
(* entry, and of every sector committed the first part, a header perhaps,  *)
(* and the spare.  Erasing, priming and writing of other blocks            *)
(* (flogfs.c:539, 1922, flogfs_arduino_sd.cpp:86-92, 117-122) leave them.  *)
(* Nothing is said once a write was lost (125, 132) or a read failed, and  *)
(* everything again from the next format on.                               *)
(***************************************************************************)
Before(s) == CASE s = INIT -> {}
               [] s = TAIL -> (1 .. LastSector) \ { TAIL }
               [] OTHER    -> (1 .. s - 1) \ { TAIL }

StoredSectors(f) ==
  LET ch == files[f].chain IN
  { << ch[i], s >> : i \in 1 .. Len(ch) - 1, s \in 1 .. LastSector }
    \cup { << ch[Len(ch)], s >> : s \in Before(files[f].sector) }

FilesKept ==
  todo = << >> /\ ~ lost =>
    \A f \in DOMAIN files : ~ files[f].dead =>
      /\ Holds(EntryBlock(f), EntrySector(f), "first", "entry")
      /\ \A p \in StoredSectors(f) :
           Holds(p[1], p[2], "first", "file") /\ Holds(p[1], p[2], "spare", "file")

(***************************************************************************)
(* A mount whose own reads hold finds an inode table only when a format    *)
(* came to its end and no other has erased anything since, and it finds    *)
(* that one; and it does find it unless a write was lost or priming was    *)
(* misled before (flogfs.c:382-468, 569-601).  A format that was cut       *)
(* short, gave up or erased half a block leaves a flash that does not      *)
(* mount, and not one that mounts with half of its blocks.                 *)
(***************************************************************************)
MountFindsFormat ==
  call.for = "mount" =>
    /\ inode0 # None => whole /\ inode0 = ichain[1]
    /\ whole /\ ~ lost => inode0 # None

(***************************************************************************)
(* Through cache_status, the backend's open page and its shortcut for the  *)
(* block erased last, the memory does what the file system asks of the     *)
(* blocks it names, and nothing else (FlogFlash), as long as no write is   *)
(* lost and no read misleads it.                                           *)
(***************************************************************************)
Flash == INSTANCE FlogFlash WITH
           req <- IF todo = << >> THEN Nothing ELSE Head(todo)
ImplementsFlash == Flash!Spec

=============================================================================
