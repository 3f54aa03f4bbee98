# A verification project for FLogFS

FLogFS is a log-structured file system for raw NAND flash: files are appended
to, read and removed, never overwritten. It is about two thousand lines of C,
nearly all of them in `src/src/flogfs.c`, on top of a small flash interface
with two backends (a memory-mapped file, an SD card with a driver of its own).

This directory holds TLA+ modules that model it, TLC configurations that check
them on small instances, and proofs that TLAPS checks. Line numbers
without a file name are lines of `src/src/flogfs.c`.

    tlc   -config MCFlogFS_careful.cfg MCFlogFS.tla      one run
    tlapm FlogFSProofs.tla                               the proofs

| file | what it is |
| --- | --- |
| `FlogPrealloc.tla` | the preallocation lists, and the contract their assertions state |
| `FlogPreallocProofs.tla` | proofs about the lists |
| `FlogFS.tla` | the life of blocks: allocate, write, link, remove, crash, mount |
| `FlogFSProofs.tla` | proofs about it: for every application, and for one that keeps the rules of use |
| `FlogLog.tla` | what a file promises: an append-only log with a reader |
| `FlogFile.tla` | the bytes of one file: write, commit, reopen, read, seek, sizes |
| `FlogFileProofs.tla` | proofs about a file: its structure and types, its counts, its bytes and the log |
| `FlogDir.tla` | what the inode table promises: a directory in the order of creation |
| `FlogTable.tla` | the inode table in flash, its iterator, and listings that calls interleave with |
| `FlogTableProofs.tla` | proofs about the table, the listings and the directory |
| `FlogFlash.tla` | what the file system takes the flash below it for |
| `FlogPages.tla` | calls as page operations: `cache_status`, the backends' open page, format, mount |
| `FlogPagesProofs.tla` | proofs about them that need no rule of use, or only `reads_hold` |
| `FlogPagesKept.tla` | proofs about what the flash holds, and the refinement of `FlogFlash` |
| `FlogSD.tla` | the SD card driver and a card at the other end of the bus |
| `FlogSDProofs.tla` | proofs about them |
| `Induction.tla` | lemmas: induction over numbers, sums, concatenations and loops |
| `MCFlogPrealloc.tla`, `.cfg` | the lists on their own, for TLC |
| `MCFlogFS.tla`, `MCFlogFS_*.cfg` | a small flash for TLC, four runs |
| `MCFlogFile.tla`, `MCFlogFile_*.cfg` | a file of small sectors for TLC, two runs |
| `MCFlogTable.tla`, `MCFlogTable*.cfg` | a table of small blocks for TLC, two runs |
| `MCFlogPages.tla`, `MCFlogPages*.cfg` | a flash of small blocks down to sd blocks, two runs |
| `MCFlogSD.tla`, `.cfg` | cards of three kinds with two blocks |
| `PROJECT.json` | components, runs, mutants, source map, findings, hazards, theorems |

## 1. Inventory

### The parts of the system

| part | state | operations | where |
| --- | --- | --- | --- |
| flash layout | per block: statistics with a key, init, tail and data sectors, a spare per sector | program, erase, read | `FlogFS`, at the grain of sectors; `FlogPages`, at that of writes |
| preallocation lists | `prealloc.{free, available, pending, n}` | push, pop, remove pending, contains (1636-1740) | `FlogPrealloc` |
| block allocation | the lists, `dirty_block` | allocate, prime, flush (487-567, 1966-1988, 2036-2043) | `FlogFS`; with failing erases, writes and reads and bad blocks in `FlogPages` |
| inode table | entries in pairs of sectors, inode blocks linked by tails, `max_file_id`, the iterator | find, prepare new, write entry, invalidate (1777-1876, 2001-2034) | `FlogTable`; between crashes in `FlogFS` |
| listing, walking | the application's iterator | `flogfs_ls_iterate`, `flogfs_check_exists`, `flog_walk` (762-775, 1352-1388, 1493-1616) | `FlogTable`; the pages they open in `FlogPages` |
| write files | `write_head`, `flog_write_file_t` | open, write, commit, close (878-910, 1137-1308, 1390-1491) | `FlogFS` over the flash, `FlogFile` over one file's bytes |
| removal | nothing of its own | `flogfs_rm`, `flog_invalidate_chain` (1310-1350, 1891-1945) | `FlogFS`, `FlogPages` |
| mount, format | everything in memory | `flogfs_mount`, `flogfs_inspect`, `flogfs_format` (382-468, 569-663) | `FlogPages`; what mount rebuilds, in `FlogFS` |
| read files | `read_head`, `flog_read_file_t` | open, read, seek, tell (680-876, 979-1135) | `FlogFile`, without the list and `read_head`; the walk of open in `FlogFS` too |
| sector order | none | `flog_increment_sector` (1990-1999) | part of `FlogFile` and `FlogPages`; `FlogFS` takes it as given |
| page cache | `cache_status` | open page, open sector, close sector (1742-1763) | `FlogPages` |
| linux backend | a mapped file, the open page | open, erase, read, write, with an assertion that a sector is programmed once (122-186) | `FlogPages`; the assertion also in `FlogFS` |
| SD backend | the open page, `last_block_erased` | open, erase, write with or without a read before it | `FlogPages` |
| SD card driver | `sd_raw_t`, the chip select pin | initialize, read, write, erase, read the size (`sd_raw.cpp`) | `FlogSD` |
| locks | three locks of `flogfs`, one of the flash | lock, unlock: empty in both backends | not modelled |
| ages, timestamps | `t`, `allocate_head`, age of a block | written, never read to decide | not modelled |

### How they interact

Every public call takes `flogfs.lock` and the flash lock at its first line and
gives them back at its last: the system is sequential, and all of its
interaction is through state. A listing is the exception, being many calls. Six
pieces of state tie the parts together:

* **A block's type on flash.** Priming takes a block for free when its init
  sector was never written (545); removal stops at such a block (1904). But a
  block that was handed out and not yet committed looks exactly the same.
* **`dirty_block`.** It names the one block that is handed out and not
  committed. Before an allocation the dirty block is flushed, so that there is
  never a second one; the flush goes through a pointer to an application's
  handle.
* **The preallocation lists.** Draws at random fill them; allocation empties
  them, head first; a block handed out stays `pending` until one of its pages
  is opened, so that a draw in between does not take it again.
* **The chains.** Tail sectors link the blocks of a file and the inode blocks.
  `flogfs_rm` follows them with an erase per block.
* **The open page.** The flash interface reads and writes in the page opened
  last. `cache_status` remembers it so as not to open it again, but mounting,
  priming and walking open pages without telling it.
* **The iterator of a listing.** It is kept by the application, with a block and
  the one behind it, while entries and inode blocks are added to the table.

Below that, `flash_erase_block` and the writes of the SD backend are calls of a
driver that polls a card with timeouts; the card may be busy for longer.

### What is hard

* *Crashes.* Power can go between any two flash operations. Creating a file
  takes up to four (tail of the inode block, new inode block, entry, first
  sector), extending it two, removing it one plus two per block. Mount looks at
  the inode table and at the types of the blocks it draws, and at nothing else.
* *State that outlives its meaning.* `dirty_block.file` after a close, a handle
  opened twice, a file removed while it is open.
* *Limits.* The list runs empty, the last entry of an inode block, the last
  sector of a block.
* *Randomness.* Priming gives up after 63 draws.
* *Hardware that fails.* A card is silent, slow, rejects data, or carries out
  what the driver has given up. An erase that fails may have erased a part of the
  block; a write that fails is not noticed by anybody, and most reads neither.

`PROJECT.json` lists each hazard at its line with the properties that watch it.

### What makes each part correct

* Lists: no entry is lost or forged, no block is listed twice, listed blocks
  are ready to be written.
* Allocation: no block has two owners; what is handed out and not committed is
  always the dirty block.
* Inode table: there is always room for the scan to stop, ids are never reused,
  a name has one live entry.
* Write files: a handle stands on the first unwritten sector of the end of its
  file; closing leaves nothing uncommitted; committed data stays.
* Files as bytes: what is read is what was written, in order, without a gap and
  without headers; the sizes kept in handles, spares and tails agree.
* Table: the ways to look at it agree; a listing tells each file that stays, once,
  whatever is created and removed meanwhile.
* Pages: what is read and written is in the page that is meant; an erase and a
  write touch nothing else; a flash mounts exactly if its format was completed and
  written.
* SD driver: every call returns with the card deselected, and blocks hold what
  the calls have told.
* Removal: every block of the file comes back, no block of another file goes.
* Everything: no assertion fails, every call returns.

## 2. How the model follows the code

### FlogPrealloc

The three linked lists become what the code uses of them: the length of the
free list, a sequence for `available` (FIFO), a set for `pending` (only ever
searched). `n` is kept beside them because the code decides by `n` whether it is
out of space and by the free list whether to go on priming. `Push`, `Pop`,
`RemovePending`, `Contains`, `IsEmpty`, `IsFull`, `Reinitialize` are the C
functions. `PreSpec` lets them be called in any order that the assertions of
1707, 1708 and 1730 allow: it is the abstract specification of the lists, and
`FlogFS` is shown to implement it (`UsesPrealloc`).

### FlogFS

| variable | in the code |
| --- | --- |
| `flash[b]` | the key of the statistics sector, the type and owner in the init sector, the sectors programmed, the tail's next block |
| `table`, `ichain` | the inode entries in order, with their invalidations; the inode blocks in order |
| `maxId`, `dirty` | `flogfs.max_file_id`, `flogfs.dirty_block` |
| `w[h]`, `wopen` | the `flog_write_file_t` structures, the list `write_head` |
| `pc`, `op` | the call in progress: the next step, and its local variables |
| `panic` | the assertion that stopped the program |

A call is cut into steps at each flash commit and erase, since that is where a
crash tells the difference; everything between two of them is one step. A walk
along a chain takes a step per block. What the reader should know about the
details:

* *Sectors* are counted in the order the code writes them, so that "the next
  sector" is `p + 1` and the tail sector is last. Of the offset in a sector only
  the cases that `flogfs_close_write` distinguishes are kept: 0, 16, behind the
  header, anything else.
* *`flogfs_write`* is a loop that buffers or commits; each turn is an action, so
  one call with much data is a sequence of the model's calls with less.
* *Uninitialised data.* `flog_invalidate_chain` writes back a statistics record
  whose key was never set, so whether the erased block carries a valid key is a
  free choice (`RmErase`). A handle that reopened a file whose first sector was
  never written leaves no room for the header, so the owner read there later may
  be any id (`CommitSector`).
* *Priming* erases a block without a key, writes its statistics and pushes it,
  in one step: a crash in between leaves a block without a key, which is what it
  was before. The loop may end at any time, since draws may miss.
* *Pages and pending.* `flog_open_page` takes a block off the pending list when
  it opens a page that is not the open one. The model does so at each use of a
  block; the two agree, because between a block becoming pending and its first
  use another page was always opened.
* *Asserts* set `panic`, and nothing happens after that: `unerased` is the
  linux backend's assertion, `chain` those of 1933 and 1938, `recursion` the
  unbounded recursion when flushing needs an allocation. `wild` is not an
  assertion: a handle was led into an inode block, whose sectors the model does
  not keep, and the run stops.
* *Crash* forgets the memory. `Mount` rebuilds it from flash.
* `Zero`, which priming skips (504), and `Inode0` are parameters: on a flash
  that erases to ones, the first inode block is block 0 if that block is good.

Left out here: bytes, sizes, counts and read positions, which are `FlogFile`'s;
erases that fail, bad blocks and the page cache, which are `FlogPages`'; the
sectors of the inode table, which are `FlogTable`'s and represented by `table`;
ages and timestamps. Flash versions are left out everywhere: all blocks carry
one version, since `flogfs_format` erases the versions it would compare with
(403, before 415).

### FlogLog and FlogFile

`FlogLog` is the promise: accepted bytes are `stored` or `kept`, what is stored
never changes and grows in the order of writing, a read hands out what lies
behind the reader's position and stops short only at the end. `FlogFile` is one
file as the code lays it out, with one writer and one reader:

| variable | in the code |
| --- | --- |
| `chain` | the blocks of the file: per sector the bytes programmed and `nbytes` of the spare, and `bytes_in_block` of the tail |
| `wr`, `isOpen` | the `flog_write_file_t`, and whether it is on the list; `buf` is `sector_buffer` up to `offset`, `room` is `sector_remaining_bytes` |
| `dirty` | `dirty_block` is the last block of this file |
| `rd`, `want` | the `flog_read_file_t`; `nbytes` of the read in progress |
| `written`, `pos`, `got` | no code: what the application wrote, where it believes it reads, what the read put into its buffer |

A byte of data is represented by its place in what was written, and 0 stands
for a byte that is not data, of a header or of erased flash. That is all the
properties need: the data is never looked at by the code. `Stored` puts the
payloads of the sectors in a row and is what `stored` of `FlogLog` is mapped to.

`flogfs_read` takes a step for each half of its loop's body (`Advance`, `Take`),
so that its turns map to `Deliver`; no other call runs in between. Writing is
modelled as in `FlogFS`, a turn of the loop per action. `ForeignFlush` is the
flush that another file's allocation causes. The walks of `flogfs_read_seek` and
of the sizes only read, and are operators: `Landing(p)` is the set that holds
the first sector whose end is not before `p`, as `file_seek_walk` counts.
The count in the tail is what lets it pass over a block.

A file gets another block whenever it needs one, up to `MaxBlocks`; at that
bound `flogfs_write` accepts nothing, as it does in the code when an allocation
fails. Crashes are left to `FlogFS`. A seek that fails stores an offset and a
count that were never set (1123-1124): the model closes the reader then.
`NextSector` is `flog_increment_sector`: sectors are filled in the order 1, 2,
4 .. last, 3, with the tail last although it is the fourth of its page.

### FlogDir and FlogTable

`FlogDir` is the promise: entries in the order of creation, each with a name and
a mark for removed ones; a listing passes over them in that order, tells the
ones that are live when it gets there, and is at its end behind the last.
`FlogTable` is the table in flash:

| variable | in the code |
| --- | --- |
| `flash[b]` | an inode block: its mark and `inode_index`, the next block in its tail, its pairs of sectors for entries |
| `maxId`, `full` | `max_file_id`; the preallocation list has run empty |
| `ls[l]` | the `flogfs_ls_iterator_t`, and whether the application uses it |
| `told`, `due`, `ended` | no code: what a listing has told, what it owes, whether it has returned 0 |
| `panic` | the assertion of 1826 |

Calls are atomic, a listing is a call per name. The loops over the table
(`flog_find_file`, `flogfs_inspect`, `flogfs_ls_iterate`) are `FirstIn` from an
iterator, which stops where their test holds; `IterStart` and `IterNext` are
`flog_inode_iterator_initialize` and `_next`, with the next block looked up on
entering a block. A creation takes any block for the table, may find the list of
blocks empty before or after the inode block was appended, and a list that was
empty stays so (1969). Removal is the invalidation; what becomes of the blocks
is in `FlogFS`. `Erased` values follow the build: with `FLOGFS_ERASE_ZERO` the
erased index is 0 and a listing starts with `next_block` as it is in flash (1784; 1794:
"TODO: Coerce"). `previous_block` and the timestamps are never read. The code
counts inode blocks from the index of the first one and not beyond (1789, 1868),
so that every further block gets `inode_index` 1; nothing reads it but the test
for 0. `Dir` maps the table to `FlogDir`: the pairs in the order of the chain are
the entries, and `idx` of an iterator is the place of a listing.

### FlogFlash and FlogPages

`FlogFlash` is what the file system takes the flash for: sectors programmed in a
first part and a rest, with a spare; each programmed once between erases;
an erase takes one block and only that, and one that fails a part of it. What is
asked to be programmed is programmed, as the file system has no result to look
at; once that was not so, or a read misled it, nothing is promised until the next
format (`Broken`). `FlogPages` carries the calls down to the memory:

| variable | in the code |
| --- | --- |
| `mem` | the memory: of each 512 bytes which parts are programmed, and with what |
| `dev` | `open_block`, `open_page`, and `last_block_erased` of the SD backend |
| `cache` | `cache_status` |
| `state`, `inode0`, `dirty`, `pre` | the members of `flogfs`; `dirty` is the file, 0 for none |
| `ichain`, `files` | the inode blocks; the entries, with the chain and the next sector of each file |
| `plan`, `todo`, `call` | the running call: its parts to come, and the page operations of the present part |
| `backend` | `mmap`, or `sd_write` and `sd_erase` for the two variants of `sd_raw_erase` |
| `whole`, `on`, `faults` | a format has reported success; there is power; operations that failed |
| `lost` | no code: a write was lost, or a read failed, since the last format began |

A call is a *plan* of parts whose outcome decides what comes next (flush,
allocate, prime, append an inode block, write the entry), and each part is a
*script* of page operations: `open` (`flog_open_sector`), `see` (that and a
read), `raw` and `probe` (`flash_open_page` without `cache_status`, the latter
with what follows of it in 513-524), `close`, `erase`, `write`, `spare`, and the
pushes on the preallocation list. One step is one page operation. Places are
computed as the backends do, five sd blocks to a page, the last for the spares;
the SD backend replaces the whole sd block, with what it has read or, in the
block erased last, with erased bytes. What the reader should know:

* Scripts are made from what the flash holds when the part begins, while the code
  decides by what it reads as it goes. `PageMeant` says that reads are of the
  page that is meant, which is what justifies it.
* A commit writes the first part of a sector (a header and what was buffered),
  then the rest (the data of the call), then the spare; a flush has no rest
  (1466-1476). `Fill` bounds the amounts: one call fills one sector of the first
  page, or all sectors behind it. Reads and the walk look at one sector of a page
  for all of them.
* Draws of priming are actions (`Draw`), with any block not listed; `PrimeEnds`
  may come at any time. `flog_invalidate_chain` writes back a key that was never
  set: `Remove` chooses whether it is right.
* An erase may fail (SD only): format and mount give up, priming returns to a
  caller that does not look, `flogfs_rm` goes on (1922). The variant that writes
  block by block may have erased any number of sd blocks from the first one on
  (`sd_raw.cpp:395-399`); the card's own erase is done or not, and may be done
  after the call gave it up (417-418). The model does that at once: a busy card
  serves no command before, as `FlogSD` has it.
* A write may fail (SD only): the read of the rest of the 512 bytes or the write
  itself (`sd_raw.cpp:331-351`). `flogfs_arduino_sd.cpp` drops the result (125,
  132) and the call goes on, a format reports success. The step is `WriteFails`; a
  write that fails after the card has programmed is `Program`.
* A read may fail (SD only), and the code goes on with what is in its buffer. This
  is modelled where it decides what is erased and what is mounted: in a draw of
  priming (`MisDraw`; 523, 1888) and in the search of a mount (`MisMount`, a call
  named `misled`; 584), with any outcome that the buffer may lead to.
* After a lost write or a failed read (`lost`) the running call goes on to its end, and
  power cuts, formats and the searches of mounts happen; other calls, which would walk a
  table or a chain that is not as the model takes it to be, are not begun: a bound.
  `FilesKept`, `PendingIsBlank` and `ImplementsFlash` say nothing while `lost` is
  true, and everything again when a format has begun; `PageMeant` and the range of
  everything hold throughout, `MountFindsFormat` for each mount that is not itself
  misled. What is lost otherwise is in section 4.
* Power is cut between two page operations. A mount that fails leaves the system
  as it was.
* Blocks reported bad are in the model (`Bad`), and the runs leave the set empty
  as both backends do. With a bad block `PageMeant` does not hold: 518 leaves the
  loop without `flog_close_sector`, and `cache_status` goes on naming a page that
  is not open.
* The linux backend's assertion is a step `FlogFlash` does not have: programming
  a part again.

### FlogSD

The driver is a program counter (`at`: a command, a wait, or `none`), the
variables of its loops, `sd->type`, the level of chip select, and the running
call; the card is a record with its kind, its mode, what it is serving and the
job it is busy with. A command is `sd_raw_command`: select, `sd_raw_flush` for up
to 300 ms, send, and take the first byte with a clear top bit. Each of
`sd_raw_initialize`, `sd_raw_read_data`, `sd_raw_write_block` and `sd_raw_erase`
is a sequence of commands and waits, with every error return; `sd_raw_card_size`
follows initialization as in `flogfs_arduino_sd_open`, which succeeds with 0
blocks if that fails (`RegisterFailed`).

* The card answers, or is silent (the command or the answer is lost), or is busy
  and holds the bus at zero, which the driver reads as `R1_READY_STATE`. Losses,
  wrong tokens, rejected data and failed programming count against `MaxFaults`.
* A job ends when the card likes (`CardDone`), also after the driver gave it up,
  and after the processor was reset.
* Time passes as the driver polls in vain. `millis()` wraps at `Period`, and the
  timeouts are small numbers in the order of the real ones, except that those for
  initialization and for a write are equal here (2000 and 600 ms in the code): no
  call waits for both. `Starts` has the
  values at which a call begins: far from the wrap, and just before it.
* `may[b]` is what block `b` may hold by what the calls have returned: after a
  failed write, what it may have held before or the data.
* A card of high capacity gets ready only for a host that has told it that it
  knows them (0x40000000 of 135), as the SD specification has it.
* The variant of `sd_raw_erase` that writes block by block is a sequence of
  `sd_raw_write_block`, which the model has as a call.
* `sd_raw_read_end` does nothing where `sd_raw_command` calls it, since partial
  reads are switched off (209): `inBlock` is false between calls.

### Rules of use

Some properties need an application, or hardware, that keeps to rules the code
does not check. They are values of a constant, each a guard on the action it
restricts, so that a run says which ones it assumes. Of `FlogFS`
(`ClientRules`):

| rule | meaning |
| --- | --- |
| `single_writer` | no file is opened for writing twice (the TODO of 1162) |
| `close_before_rm` | a file open for writing is not removed |
| `close_flushes` | a handle is closed only when that leaves no dirty block |
| `quiet_reboot` | power goes only between calls, with nothing dirty and no inode block appended ahead of its entry |

Of `FlogFile` (`ClientRules`):

| rule | meaning |
| --- | --- |
| `close_flushes` | a file is closed only when that leaves no byte and no block behind |
| `data_first` | no first sector of a block is flushed with no data in it |
| `same_handle` | a file is reopened with the `bytes_in_block` it was closed with |
| `read_written` | a file is opened for reading only when its first sector is stored |
| `seek_data` | a reader seeks only into sectors without a header |

Of `FlogTable` (`TableRules`), `FlogPages` (`PageRules`) and `FlogSD`
(`CardRules`):

| rule | meaning |
| --- | --- |
| `stop_before_growth` | no file is created that needs another inode block while a listing is going on |
| `close_before_rm` | a file is removed only when it was closed, and that left no block dirty |
| `rm_erases` | no erase of `flogfs_rm` fails |
| `writes_hold` | no write fails (of the proofs) |
| `reads_hold` | no read fails by which priming or mount decides (of the proofs) |
| `quiet_reboot` | a format begins, and power goes in any other call than a format or a mount, only with nothing dirty and no inode block ahead of its entry, or after something was lost |
| `erases_hold` | the card carries out every erase it has begun |

The theorems say which rules they need; section 5 lists them.

Without `erases_hold`, `HoldsWhatWasTold` does not hold: after a write the driver
asks for the card's status (321), after an erase it does not.

## 3. Runs

The runs of `FlogFS` use a flash of four blocks, one of them the inode block;
two preallocation slots, so that the list can be empty, partly pending and
full; blocks of three sectors, so that there is a first, a middle and a tail
sector; inode blocks of two entries, so that the second entry appends an inode
block; two names and, except in `returns`, two handles. Three entries mean two
inode blocks; with blocks, names and handles fully used, every hazard of the
list occurs, as the mutants and the violations show. The blocks other than the
inode block, the names and the handles are interchangeable, and the safety runs
use that symmetry; the liveness run does not. `MaxFiles` (entries ever written)
and `MaxCrashes` bound the state space.

The runs of `FlogFile` use sectors of 3 bytes with headers of 1 and 2, and
blocks of four sectors (1, 2, 4 and the tail 3), which hold 9 bytes when full;
so the 12 bytes of `log` fill a block and start another, or, with sectors flushed
early, fill up to two blocks and start a third. Reads ask for up to 3 bytes,
which may end within, at the end of, or behind a sector. `Garbage` is what
`bytes_in_block` may hold besides what the handle had; it matters only without
`same_handle`. Real headers are 12 and 16 bytes: the model's tail header is as
long as the offset that `flogfs_close_write` tests, as in the code.

The runs of `FlogTable` use blocks of two pages, which have two pairs of sectors
for entries, so that the five entries they may write take three inode blocks:
every second one appends a block, and a listing has blocks behind it, before it
and ahead of it. Two names let a name be removed and used again; one listing is
enough, as listings do not touch each other. `table` is the build that erases to
zeros, with block 0 unused; `v_list` the one that erases to ones.

`pages` has three blocks of two pages: one inode block with two entries, so that
the second one takes another inode block, and one block for a file. Three entries,
removal and files of two blocks all occur in it (each was confirmed to be
reachable), in different behaviours of the one flash; so do a failing erase at each
place, half done at each sd block, and power cut at every page operation of a format
or a mount; so does a lost write at each place of each call, and a misled draw or
mount, with a new format after it. One operation fails in a behaviour. Both backends
start from an unformatted flash; writes and reads are not trusted (neither
`writes_hold` nor `reads_hold`). `v_erase` is the same flash with the other variant of
`sd_raw_erase`.

`sd` has two blocks, so that a range has a first and a last and a read may meet
another block's job; two values; three kinds of card, one of which cannot erase
single blocks; a clock of six ticks; two faults and one reset.

Deadlock is not checked in the runs of `FlogFS`, `FlogFile` and `FlogTable` since
the system does stop there: on a panic, and when the bounds are used up. In
`prealloc`, `pages` and `sd` it is.

| run | properties | what it shows |
| --- | --- | --- |
| `prealloc` | `PreTypeOK` `SlotsConserved` `ListedOnce` | five blocks, four slots, any allowed sequence of calls |
| `careful` | `NoSharedBlock` `ListedBlocksAreErased` `UncommittedIsDirty` `ChainCarriesId` `WriterAtEnd` `NoLeak` `NoPanic` `DataStays` | with the rules kept and one quiet reboot, nothing is shared, lost or leaked and no assertion fails |
| `crash` | `TypeOK` `InodeRoom` `IdsInOrder` `OneLiveEntryPerName` `UsesPrealloc` | what holds when power goes at any step |
| `returns` | `CallsReturn` | a call that started returns |
| `log` | `FileTypeOK` `TailsCount` `WriterSize` `ReaderSize` `ImplementsLog` | with the rules kept, a file is an append-only log, and its sizes are right |
| `table` | `TableTypeOK` `IteratorStays` `ListingComplete` `ViewsAgree` `ImplementsDir` | the table is a directory, for every call and for listings that calls interleave with |
| `pages` | `PagesTypeOK` `PageMeant` `PendingIsBlank` `FilesKept` `MountFindsFormat` `ImplementsFlash` | the bytes meant end up in the place meant, what is stored stays, and what fails or is lost does no more than it must |
| `sd` | `SdTypeOK` `Deselected` `AddressAgrees` `HoldsWhatWasTold` `NoHastyTimeout` `CallReturns` | blocks hold what the calls told, and calls return |
| `v_crash` `v_lost` `v_list` `v_erase` | one each | the findings below |

**Fairness.** `CallsReturn` is checked under `WF_vars(Running)`: while a call is
in progress some step of it happens. The code justifies it: a call holds the
locks, waits for no one and its steps are straight-line code. Nothing is assumed
about the application or about crashes. Priming is a loop of at most 63 draws;
in the model each draw that counts takes a free slot and the loop may end at any
time, so weak fairness of the whole is enough.

`CallReturns` of the driver is checked under `WF_vars(Driver)`: the one thread
that polls goes on polling. It is never blocked, for every loop of `sd_raw.cpp`
reads the bus and the clock and nothing else. The card owes nothing: it may stay
busy, or silent, for ever.

Each property of a passing run has a mutant in `PROJECT.json`: a plausible bug,
written as an operator marked "Deliberately wrong" in the modules, under which
TLC finds the property violated.

## 4. Findings

1. **Blocks are handed out twice after a power cut** (`v_crash`). An entry or a
   tail points to a block that was not committed when power went. Mount does not
   look at entries or tails, so priming takes the block for free. The README
   promises that interrupted operations are cleaned up at mount.
2. **Close may lose data** (`v_lost`): with exactly 16 bytes behind the start of
   the sector, header included (a new file of 4 bytes), on a tail sector, or
   when the handle is not the head of the list (1293 leaves first), nothing is
   flushed. The block then stays dirty too.
3. **A listing runs off the table** (`v_list`). The iterator looks up the next
   block when it enters one. If files are created while a listing stands in the
   last block, the table goes on in a block the iterator does not know of, and
   past the last pair it meets `assert(false)` (1826). The comment above it (1803)
   describes an iterator that waits there, and `flogfs.h:270` a listing that locks
   the table. A search never gets there: an inode block is appended before the
   last pair is used (1840), which is what `IteratorStays` shows of the rest.
4. **An erase takes the first sector of the next block** (`v_erase`), when
   `sd_raw_erase` is compiled with the card's erase command, as it is unless
   `SD_RAW_WRITE_BLOCK_ERASE` is defined, which no file does.
   `flash_erase_block` passes the end of the range as excluded (92), the card
   takes it as included. What is lost is the statistics sector with the key of
   block b + 1; the priming that next draws that block erases it, with the file
   that is in it. For the last block of the card the range ends behind it.

Rules of use stand for behaviour of the code as well:

* `single_writer`, `close_flushes`: a dirty block left by a close is later
  flushed through the closed handle (2040); if its file was reopened meanwhile, a
  sector is programmed twice.
* `quiet_reboot`: besides finding 1, a power cut during `flogfs_rm` leaves blocks
  of no file that are never freed (the entry is invalidated first, and nobody
  resumes the erasing); and if an inode block was appended and the file itself
  got no block (1204), the next attempt after a reboot programs the same tail
  sector again.
* `data_first`: behind a first sector with no data, written when another file's
  allocation flushes it, a reader skips a sector (817-821).
* `seek_data`: a seek into a first or tail sector, to 0 for instance, hands out
  the header (1088), as the offset is not moved behind it.
* `read_written`: a file opened for reading before its first sector is stored
  reads as 65535 bytes of erased flash (709).
* `same_handle`: a reopened file counts its block on from what the handle's memory
  held (1161-1201), and the sum goes to the tail, from which sizes are computed
  and by which seeks pass over blocks.
* `rm_erases`: `flogfs_rm` writes a key over the data of a block that was not
  erased, or was erased by half (1922).
* `writes_hold`: on the SD card a write that fails is dropped
  (`flogfs_arduino_sd.cpp:125`, `132`). A sector that `flogfs_write` or `flogfs_close_write`
  has committed may then be absent, with or without its spare; an entry, a tail or a key
  may be; and a format whose last writes failed reports success and does not mount.
* `reads_hold`: a read that fails is not noticed either (523, 584, 1888). Priming may then
  take a block in use for one without a key, and erase it, or for a free one, and
  list it; a mount may pass by the inode table, or take another block for it.

Outside the models: `flog_allocate_block` does not search when the list is empty,
as its comment (179-180) says, so that allocations fail until the next mount
whatever is removed meanwhile (1969; all models follow the code).
`flogfs_read_seek` leaves `read_head` as it was, so that `flogfs_read_tell` then
tells something else than the position. `flogfs_arduino_sd_open` succeeds with a
card whose size it could not read. In a build with `FLOGFS_ERASE_ZERO` a listing
that starts in a table of one full block goes to block 0, which that build never
uses (1784, 1812), where it finds no entry and ends.

## 5. Proofs

The theorems hold for every value of the constants: any number of blocks, slots,
names, handles, sectors, bytes, entries and listings, cards of any size, any
number of crashes, faults and resets. Some need rules of use, as hypotheses on
the constant that holds the rules:

| theorem | property | rules it needs |
| --- | --- | --- |
| `PreTypeCorrect`, `PreallocCorrect` | `PreTypeOK`, `SlotsConserved`, `ListedOnce` | |
| `TypeCorrect` | `TypeOK` | none |
| `PreallocKept`, `PreallocContract` | `SlotsConserved`, `ListedOnce`, `UsesPrealloc` | none |
| `InodeRoomKept` | `InodeRoom` | none |
| `IdsNeverReused`, `NamesUnique` | `IdsInOrder`, `OneLiveEntryPerName` | none |
| `NothingShared`, `NothingLeaks` | `NoSharedBlock`, `NoLeak` | all of `FlogFS` |
| `ListedErased`, `OneDirtyBlock` | `ListedBlocksAreErased`, `UncommittedIsDirty` | all of `FlogFS` |
| `ChainsCarryIds`, `WritersStayAtEnd` | `ChainCarriesId`, `WriterAtEnd` | all of `FlogFS` |
| `NothingPanics`, `DataStaysTheorem` | `NoPanic`, `DataStays` | all of `FlogFS` |
| `FileTypeCorrect` | `FileTypeOK` | none |
| `TailsCountTheorem` | `TailsCount` | `close_flushes`, `data_first`, `same_handle` |
| `WriterSizeTheorem`, `ReaderSizeTheorem` | `WriterSize`, `ReaderSize` | the same three |
| `FileImplementsLog` | `ImplementsLog` | all of `FlogFile` |
| `TableTypeCorrect`, `ViewsAgreeTheorem` | `TableTypeOK`, `ViewsAgree` | none |
| `IteratorStaysTheorem`, `ListingCompleteTheorem` | `IteratorStays`, `ListingComplete` | `stop_before_growth` |
| `TableImplementsDir` | `ImplementsDir` | `stop_before_growth` |
| `SdTypeCorrect`, `AlwaysDeselected` | `SdTypeOK`, `Deselected` | none |
| `AddressesAgree`, `TimeoutsNotHasty` | `AddressAgrees`, `NoHastyTimeout` | none |
| `DataHeld` | `HoldsWhatWasTold` | `erases_hold` |
| `PagesAreMeant` | `PageMeant` | none, with `Bad = {}` |
| `PagesTyped`, `MountsFindFormat` | `PagesTypeOK`, `MountFindsFormat` | `reads_hold`, with `Bad = {}` |
| `PendingStaysBlank`, `FilesStayKept` | `PendingIsBlank`, `FilesKept` | all of `FlogPages`, with `Bad = {}` and no `sd_erase` |
| `FlashIsImplemented` | `ImplementsFlash` | the same |

Besides these they rest on the named assumptions on the constants and on nothing
else: `SlotsAssumption` (there is a slot), `FlogAssumption` and
`RulesAssumption`; `FileAssumption` (a header is shorter than a sector, a sector
fits the 16 bits of `nbytes`, four sectors to a page and more than one page to a
block, as the numbers of `flogfs.h` have it); `TableAssumption` (more than one
page to a block, and block 0 is not used where the build erases to zeros);
`SDAssumption` (a card's blocks are numbered from 0, and `millis()` runs for
longer than the timeouts before it wraps); `PagesAssumption` (blocks are numbered
from 0, the first block used is 0 or 1 as in `flogfs_private.h:115` and `124`,
the search for the inode table starts below its end and stays on the flash, and
a block has more than one page). TLC evaluates each of them in the runs.

Every inductive invariant below was given to TLC as an invariant of the runs
before it was proved. In each proof every action has a lemma or a step of its
own, and under it a step for each conjunct the action can disturb.

### The lists and the file system, whatever the application does

`FlogPreallocProofs`: the invariant is the conjunction of `SlotsConserved`,
`ListedOnce` and the types: the count of free slots needs the blocks of
`available` and `pending` to be disjoint, for otherwise moving the head to
`pending` would lose a slot. One lemma per operation says that it preserves the
invariant; the file system's proofs cite the same lemmas.

`FlogFSProofs`: the inductive invariant is `TypeInv`, the conjunction of

* `PreInv`, the invariant of the lists;
* `FlogTypeOK`, the types of everything else;
* `TailInv`: a block whose tail sector is written has a next block, so that a
  walk that follows tails stays on blocks;
* `HandleInv`: an open handle stands on a block, and what is dirty has both a
  block and a handle. `CommitSector` through a handle without a block would
  leave the type;
* `CallInv`: what `op` holds at each value of `pc`, such as a handle and a name
  while a file is opened, a block when one is to be linked, and an entry of the
  table while a chain is removed;
* `RoomInv`: the inode chain has room for the entry that is about to be written.
  It is what makes `InodeRoom` inductive: the entry is written several steps
  after the room was made, and the table must not have grown in between.

`PreallocContract` is the refinement of `PreSpec`: every step of the file system
is a call the contract allows, or leaves the lists alone. `IdsNeverReused` uses
that the entry written next carries `maxId + 1` and that `maxId` is the table's
length whenever a system is up; across a crash, that the largest of the ids
`1 .. n` is `n`. `NamesUnique` carries the search result through the steps of a
creation: while an entry is under way the name it is for has no live entry.

### The file system with a careful application

The second part of `FlogFSProofs` keeps `TypeInv` and adds `CareInv`, which follows a block
through its life: erased and listed, in the hand of a call, dirty, in a chain,
and erased again. It speaks of single blocks and of the links into them, never
of whole chains, so that a step disturbs it only at the blocks it touches:

* `BlockInv`: what a block holds goes with its type, the sectors of a file are
  written from the first one on, and a file's block belongs to a live file or to
  the one under removal;
* `FreshInv`: blocks listed, in hand and dirty are erased, have their key, and
  are three different kinds of blocks;
* `DirtyInv`: the dirty block belongs to an open handle at its beginning, and
  there is none while a block is being taken;
* `LinkInv`, `OneLinkInv`, `LinkedInv`: a link leads to a block of the same
  chain, or to the one block of it that is not written yet; one link leads to a
  block; every block of a file is linked to;
* `InodeInv`, `GrowthInv`: the last inode block has room for a link, and the
  inode chain is as long as the entries need, or one block ahead of them while
  an entry is under way or when it got no block;
* `WriterInv`, `WalkInv`: a handle stands behind what is written of the last
  block of its file, no two stand there, and a call that walks along a chain
  stays in it.

`DirtyInv` is why the flush of 2038 finds the right handle, and `FreshInv` with
`OneLinkInv` why an allocation cannot hand out what somebody has. The rules are
used where the code relies on them: `close_flushes` for `DirtyInv` in a close,
`close_before_rm` for `WalkInv`, `single_writer` for `WriterInv`, and
`quiet_reboot` for `LinkInv` and `GrowthInv` when a crash forgets the dirty block.

That no chain is a cycle does not follow from these. It is `RankInv`: the blocks
can be numbered so that every link leads upwards. A step that adds a link
into a block without one gives that block a number above that of its source
(`RankOfLink`). It is what removal needs (`NoneLeft`): when
`flog_invalidate_chain` has come to the end of a chain, and a block of the file
were left, the lowest one of those in the ranking would be linked to by one below
it. So the file is gone to its last block (`NoLeak`), for chains of any length.

### A file

`FlogFileProofs` proves `Laid` for every application: `Typed`; `FillInv`, that the
handle is at the first sector of the last block that is not written, with every
sector before it programmed once and none behind it; and `ReaderInv`, that a
reader at a tail has a block to go on to. The lemma `Ordered` is about
`flog_increment_sector`: for every size of block it visits every sector once, in
the order `Order`, with the tail last. `Total` sums the counts of sectors without
recursion; `SumToIs`, `FileSizeIs`, `CountAtIs` and `LandingIs` connect it with what
the walks of the code compute.

Under three of the rules it has, besides, `Counting`: the spare of a
written sector counts its bytes without the header, a first sector has data
(`SpareInv`), a tail counts its block (`TailInv`), and `bytes_in_block` and
`file_size` of the handle are the sums up to it (`HandleInv`). From it follow
`TailsCount`, `WriterSize` and `ReaderSize`. `DataInv` says which byte of what was
written each place of a sector holds. With all of the rules, `PosInv` says that
an open reader stands in a written sector, at the byte the application believes
it does. The state of the log is then given in closed form (`LogIs`): `Stored` is
the bytes up to the end of the last written sector, `Kept` those in the buffer.
With that, each step is one of `FlogLog`: a write that commits stores what was
kept and the new bytes, `Take` is a `Deliver`, `Advance` and the turns that only
move are stutters, a seek is a seek.

### The table

`FlogTableProofs` names the chain of inode blocks `c` (there is exactly one:
`Chained`) and counts the pairs of sectors along it: the n-th pair is in block
`Turn(n)` at sector `Sector(n)`. `Filled` says that pair n holds the entry with id
n + 1 up to `maxId` and is erased behind it, and that the chain is no longer than
that unless the list ran empty. An iterator is then one number: `Pos(c, n)` with
what it has looked up. `PosNext` shows that `flog_inode_iterator_next` goes from n
to n + 1, `LoopStops` that each loop over the table ends, from any iterator the
program can have, and `FindIs`, `NextToTellIs` where. `TableTypeOK` and `ViewsAgree`
need no rule of use. With `stop_before_growth` each listing stands at some
n (`Stands`), what it told lies before n in growing order, and what it owes and
has passed is told (`ListInv`); a listing that has ended stands behind the last
entry. `EntriesHold` maps the pairs to the entries of `FlogDir`, and each call is a
step of it.

### The driver

`FlogSDProofs`: `Control` says which call may be at which command or wait and
that `waited` is the time since `t0` modulo the period, the fact behind
`NoHastyTimeout`; it also has the level of chip select between calls. `CardInv` is
what the card serves at each of these: that driver and card know each other's way
of addressing once the card is open, and that the blocks of a running command are
those of the call. `HeldInv` adds the data: each block, and each block of a job
the card is still busy with, is what the calls have told, also if the running
call failed now. Jobs that outlive their call are in it, and are why
`erases_hold` is needed.

### Pages

`FlogPagesProofs` takes any of the backends, the wide erase included, and any number
of erases and writes that fail; it assumes `Bad = {}`, which is what both backends
report, since `PageMeant` is false otherwise (section 2). For `PageMeant` it assumes no
rule of use: the parts `Steady`, `CacheTrue` and `Standing` below are an invariant by
themselves, whatever was read or written. The rest needs the reads of priming and mount
to hold (`reads_hold`) and no other rule. The invariant `SystemInv` speaks of scripts as
a whole, because what makes an operation safe is several operations ahead of it:

* `Steady`: which operation may follow which. What programs comes after an open
  of its own sector or another write there, an erase after an open or a look at
  its block or a close right behind one, and an unguarded `flash_open_page` is
  followed by a look at page 0 of the block. The lemmas `Starts`, `Then` and
  `Joined` build the scripts of the calls from their pieces, `FlatWhole` those
  that are as long as a table, a chain or the flash.
* `CacheTrue`: `cache_status` tells the truth, unless the very next operation is
  a look at the page that was opened behind its back. `Standing`: what is
  programmed or erased next has its page or block open. With `Steady` these are
  `DeviceInv`, inductive under each page operation, a failing erase or write and a power
  cut; `PageMeant` follows at once.
* `FilesFit` and `PlanFit`: what the calls have for plans, part by part, and that
  the inode table has a place for the entry that is to be written.
* `ScriptFit`: the operations a part of a call may hold. No call but a format
  erases or lists a block that is not handed out, or writes the statistics or the
  mark of the first inode block; a format ends in eight known operations, and is
  not `whole` from the first erase on until the last of them.
* `TableFit` and `MountFit`: as long as a format is `whole`, no block but its first one
  has the mark of an inode table, and that block has it, with its key, unless a write
  was lost; a mount that has begun has found it, or nothing in that case;
  `DeviceFit` has the ranges of everything else.

`MountsFindFormat` holds for the wide erase as well, though that takes the key of
the block behind the one erased: block 0 is never handed out (504), so nothing
is erased before the first inode block but by a format. The run checks it, besides,
without `reads_hold`; and the proofs allow any number of faults, a write lost in one
format and an erase failing in the next for instance, where the run has one.

`FlogPagesKept` is about what is where. It assumes `Trusted`: no bad blocks, the
five rules of use, and of the SD card the erase of the range that is meant. With
`writes_hold` and `reads_hold` nothing is ever `lost` (`NotLost`), while erases still
fail by half. The wide erase (section 4) takes sectors of the next block, which may
be a file's.
The difficulty is that `files` and `ichain` change when a part of a call begins,
as the variables of the code do, and the flash one page operation at a time. So
the invariant `Kept` speaks of the *future*: `Future` is what the flash will hold
when the running script is through, and a page operation leaves it as it is
(`StepAfter`); an erase that fails takes only parts of its own block and, with
`rm_erases`, ends its script: in a draw of priming that is a block nobody owns, and
a format has given up all files by then (`FailedStep`). `FilesKept` is then `StoredFit`
at an empty script.
The parts of `Kept` are

* `ScriptKept`, about the script and the flash as they are: what a script programs
  is not programmed before unless it erases the block first, and never again by
  itself (`OnceFit`, `Apart`); the second half of a sector goes to a block that was
  not the one erased last (`RestFit`, `ErasedFit`), because there the SD backend
  fills what it does not write with erased bytes
  (`flogfs_arduino_sd.cpp:86-92`), and would overwrite the first half;
* `ContentKept`, about the future: a block nobody owns has nothing but its
  statistics (`CleanFit`), no block has two owners and each has its key
  (`OwnedFit`), the entries and sectors of every live file are there
  (`StoredFit`), behind the place of a writer there is nothing (`WriterFit`), a
  file without its init sector is the dirty one (`DirtyFit`), and the inode blocks
  hold entries, their marks and their tails (`EntriesFit`, `RoomFit`);
* `PhaseFit`, `TakenFit`, `DrawFit` and `FutureFit`, about the call in progress: what
  its plan implies about the state it began in, that the block it was given is
  erased, clean, owned by nobody and not the one erased last, that priming erases
  and lists what belongs to nobody, and that a format leaves nothing but the key
  and the mark of the first inode block;
* `ListFit` and `AwayFit`, about what is listed: no file owns it, and a call on
  a mounted system ends with an open page that is not in a listed block, so that
  the first open of a block that was popped misses `cache_status` and takes the
  block off `pending` (1752). This is what `PendingIsBlank` rests on.

The lemmas `DoesConcat`, `DoesAfter` and `DoesFlat` build the effect of a script
from those of its pieces. Each action that begins or continues a call has a
lemma of its own; the page operations share `StepHeld`, `StepAfter` and `KeptStep`.
The rules are used where the code relies on them: `close_before_rm` keeps a writer
from standing in a removed chain, `rm_erases` is why no sector of a removed file
stays in a block that goes back to the list, and `quiet_reboot` lets a mount find no
dirty block and no inode block ahead of its entry. With that, `FlashNext` maps each
page operation to the step of `FlogFlash` of that name, and all else to a power cut
or to a step that changes nothing the flash can tell.

### Induction

The provers take no operator as a parameter, so that the library's induction
theorems cannot be used. `Induction` proves the same for sets: `MinNat` (each set
of numbers has a least one) from the theorem of `FiniteSetTheorems` that strict
inclusion is well founded on finite sets, and from it induction for a set of
numbers (`NatInd`, `UpTo`), the existence and the equations of sums (`Total`) and
concatenations (`Cat`), and of loops (`LoopExists`, `LoopEnds`): a function that
calls itself until a test holds has a value where the steps reach the test. What
the recursive functions of the models compute is proved by these.

### What proving changed

The proofs found no error in the code beyond the findings. They asked for these
changes of the models:

* the blocks of a card are numbered from 0 without gaps, which the erase of a
  range relies on;
* alternatives that overlapped in a `CASE` (in `FlogFS`, `FlogSD`, `FlogTable` and
  `FlogPages`) were made disjoint, as the order of tests in the code has them;
* a sector's size is a 16 bit number (`UInt16`), without which `nbytes` in the
  spare would not be the number of its bytes;
* the entries of a table and the ids that are live are defined without recursion.

### Only model-checked

* `CallsReturn` and `CallReturns`: liveness is beyond the prover.
* `MountFindsFormat` after a draw of priming was misled; and `FilesKept`,
  `PendingIsBlank` and `ImplementsFlash` on a flash that was formatted anew after a
  write was lost or a read failed: their theorems assume `writes_hold` and `reads_hold`.
* What the runs with a violation show.

Every safety property and every refinement that a passing run checks is proved, with
the rules the table names.

## 6. Plan

Done: all modules of the plan, and proofs of every safety property and refinement
of `FlogPrealloc`, `FlogFS`, `FlogFile`, `FlogTable`, `FlogPages` and `FlogSD` that a
run checks. Left, by weight for the system:

1. `FlogPreallocList`: the lists with pointers, implementing `FlogPrealloc`.
2. Crashes of a file with buffered bytes, and the list of readers.
3. Calls on a flash on which a write was lost, and failing reads in the walks of
   tables and chains.

## 7. Not modelled

* *Locks.* Both backends leave them empty and the code is called by one thread;
  the order in which they are taken (393 takes them the other way round) has no
  effect.
* *Ages, timestamps, `base_threshold`.* Written, and never read to decide
  anything: `flog_prealloc_pop` ignores its threshold.
* *Failing reads* of the SD card outside priming and the search of mount, in the walks
  of tables and chains for instance: the code goes on there with what is in its buffer
  (`flogfs_arduino_sd.cpp:108-118`). And calls on a mounted flash after a write was lost.
* *Wrapping of counters:* 32 bits of file ids, 16 of entries, 16 of block numbers.
* *The format of registers and commands of a card,* and the computing of its size.
* *Mapping files, logging, the operation log of the linux backend,* the C++
  wrapper, configurations, tests and examples.
