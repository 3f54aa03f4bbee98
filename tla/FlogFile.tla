------------------------------ MODULE FlogFile ------------------------------
(***************************************************************************)
(* The bytes of one file of src/src/flogfs.c: how a write handle lays them *)
(* out over the sectors of the file's blocks, and how a read handle finds  *)
(* them again.  FlogFS models where blocks come from; here a file simply   *)
(* gets another block when it needs one.                                   *)
(*                                                                         *)
(* A byte of data is represented by its place in what the application      *)
(* wrote, 1, 2, 3 ...; 0 is a byte that is not data: a header, or flash    *)
(* that was never written.                                                 *)
(*                                                                         *)
(* flogfs_read is a loop and each turn of it is a step; no other call runs *)
(* in between (want # 0), as the locks have it.  flogfs_write is a loop    *)
(* that buffers or commits; a call that takes several turns is the same as *)
(* several calls that take one, so each turn is a call of its own.         *)
(***************************************************************************)
EXTENDS SequencesExt, Integers

CONSTANTS
  SectorSize,       \* FS_SECTOR_SIZE
  InitHeader,       \* sizeof(flog_file_init_sector_header_t)
  TailHeader,       \* sizeof(flog_file_tail_sector_header_t), 16
  SectorsPerPage,   \* FS_SECTORS_PER_PAGE
  SectorsPerBlock,  \* pages_per_block * FS_SECTORS_PER_PAGE
  Garbage,          \* what a handle's bytes_in_block may hold before it is set
  MaxBlocks,        \* bound: blocks of the file
  MaxBytes,         \* bound: bytes written
  MaxRead,          \* bound: bytes asked for in one read
  ClientRules       \* what the application is trusted to do, see below

(* FLOG_INIT_SECTOR, FLOG_TAIL_SECTOR                                      *)
INIT == 1
TAIL == 3

\* nbytes is a uint16_t.
MaxUInt16 == 65535
UInt16 == 0 .. MaxUInt16

ASSUME FileAssumption ==
  /\ SectorSize \in UInt16
  /\ InitHeader \in Nat /\ TailHeader \in Nat
  /\ 0 < InitHeader /\ InitHeader < SectorSize
  /\ 0 < TailHeader /\ TailHeader < SectorSize
  /\ SectorsPerPage = TAIL + 1
  /\ SectorsPerBlock \in Nat /\ SectorsPerPage < SectorsPerBlock
  /\ Garbage \subseteq Nat
  /\ MaxBlocks \in Nat \ {0} /\ MaxBytes \in Nat /\ MaxRead \in Nat

(***************************************************************************)
(* Rules of use the code states no check for.                              *)
(*   close_flushes  a file is closed only when that leaves nothing behind  *)
(*   data_first     no block's first sector is flushed with no data in it  *)
(*   same_handle    a file is reopened with the bytes_in_block it was      *)
(*                  closed with                                            *)
(*   read_written   a file is opened for reading only when its first       *)
(*                  sector is in flash                                     *)
(*   seek_data      a reader seeks only into sectors without a header      *)
(***************************************************************************)
Rules == { "close_flushes", "data_first", "same_handle", "read_written", "seek_data" }

ASSUME FileRulesAssumption == ClientRules \subseteq Rules

VARIABLES
  chain,    \* the blocks of the file, in order
  wr,       \* the write handle
  isOpen,   \* it is on the list flogfs.write_head
  dirty,    \* the last block of the file is flogfs.dirty_block
  written,  \* how many bytes flogfs_write has accepted
  rd,       \* the read handle
  pos,      \* where the application believes it reads
  want,     \* nbytes of the flogfs_read in progress, 0 if there is none
  got       \* what it has put into dst

writer == << chain, wr, isOpen, dirty, written >>
reader == << rd, pos, want, got >>
vars == << writer, reader >>

-----------------------------------------------------------------------------
(* Sectors and blocks.                                                     *)

Sectors == 1 .. SectorsPerBlock - 1

\* flog_increment_sector
NextSector(s) ==
  CASE s = TAIL - 1             -> SectorsPerPage
    [] s = SectorsPerBlock - 1  -> TAIL
    [] OTHER                    -> s + 1

\* The sectors of a block in the order they are written.
Order[i \in Sectors] == IF i = 1 THEN INIT ELSE NextSector(Order[i - 1])

Header(s) == CASE s = INIT -> InitHeader [] s = TAIL -> TailHeader [] OTHER -> 0

Zeros(k) == [ i \in 1 .. k |-> 0 ]

\* A sector: the bytes programmed, and nbytes of its spare.
Erased == [ used |-> FALSE, raw |-> << >>, n |-> MaxUInt16 ]
EmptyBlock == [ sec |-> [ s \in Sectors |-> Erased ], total |-> 0 ]

\* Block b has a tail, and so another block behind it.
Ended(b) == chain[b].sec[TAIL].used

\* How many sectors of block b are written, and the nbytes of the first i.
Used(b) == Cardinality({ s \in Sectors : chain[b].sec[s].used })
SumTo(b, i) ==
  LET sum[j \in 0 .. i] == IF j = 0 THEN 0 ELSE sum[j - 1] + chain[b].sec[Order[j]].n
  IN sum[i]

\* Deliberately wrong: the sectors of a block that ended are not counted.
BytesOfOpenBlock(b) == IF Ended(b) THEN 0 ELSE SumTo(b, Used(b))

\* What walking over block b counts: the tail has the sum of its sectors.
BytesOf(b) == IF Ended(b) THEN chain[b].total ELSE SumTo(b, Used(b))
FileSize ==
  LET size[b \in 0 .. Len(chain)] == IF b = 0 THEN 0 ELSE size[b - 1] + BytesOf(b)
  IN size[Len(chain)]

-----------------------------------------------------------------------------
(* Writing.                                                                *)

NewBytes(k) == [ i \in 1 .. k |-> written + i ]
Buffered == Len(wr.buf) - Header(wr.sec)

\* The offset at which a sector that is come to is filled: behind the header
\* of a tail sector, at 0 elsewhere.
FreshBuffer(s) == IF s = TAIL THEN Zeros(TailHeader) ELSE << >>

\* Deliberately wrong: the header in the buffer takes no room.
HandleAtFull(h, b, s, buf) ==
  [ h EXCEPT !.blk = b, !.sec = s, !.buf = buf, !.room = SectorSize ]

\* A handle on block b, sector s.
HandleAt(h, b, s, buf) ==
  [ h EXCEPT !.blk = b, !.sec = s, !.buf = buf, !.room = SectorSize - Len(buf) ]

\* The header of an init sector is put over what lies in the buffer.
Stamped(data) ==
  IF wr.sec = INIT
    THEN [ i \in 1 .. Len(data) |->
             IF i <= Min({ InitHeader, Len(wr.buf) }) THEN 0 ELSE data[i] ]
    ELSE data

WithSector(b, s, data, k) ==
  [ chain EXCEPT ![b].sec[s] = [ used |-> TRUE, raw |-> data, n |-> k % (MaxUInt16 + 1) ] ]

\* Deliberately wrong: only the bytes of the block are counted.
CountedInBlock(h, k) == [ h EXCEPT !.inBlock = @ + k ]

\* k more bytes are accepted.
Counted(h, k) == [ h EXCEPT !.inBlock = @ + k, !.size = @ + k ]

\* flog_commit_file_sector, any sector but the tail, with k more bytes.
CommitSector(k) ==
  LET s == wr.sec  next == NextSector(s) IN
  /\ s # TAIL
  /\ chain' = WithSector(wr.blk, s, Stamped(wr.buf \o NewBytes(k)),
                         Len(wr.buf) + k - IF s = INIT THEN InitHeader ELSE 0)
  /\ wr' = Counted(HandleAt(wr, wr.blk, next, FreshBuffer(next)), k)
  /\ dirty' = FALSE

\* Deliberately wrong: the bytes of the tail sector itself are not counted.
TailTotalBefore(k) == wr.inBlock

TailTotal(k) == wr.inBlock + k

\* flog_commit_file_sector on the tail sector: the file gets another block.
\* If there is none the call accepts nothing, and nothing changes.
CommitTail(k) ==
  /\ wr.sec = TAIL
  /\ Len(chain) < MaxBlocks
  /\ chain' = Append(
       [ WithSector(wr.blk, TAIL, wr.buf \o NewBytes(k), Len(wr.buf) + k - TailHeader)
           EXCEPT ![wr.blk].total = TailTotal(k) ],
       EmptyBlock)
  /\ wr' = [ HandleAt(wr, wr.blk + 1, INIT, Zeros(InitHeader))
               EXCEPT !.inBlock = 0, !.size = @ + k ]
  /\ dirty' = TRUE

Write(k) ==
  /\ want = 0 /\ isOpen
  /\ written + k <= MaxBytes
  /\ \/ /\ k < wr.room
        /\ wr' = Counted([ wr EXCEPT !.buf = @ \o NewBytes(k), !.room = @ - k ], k)
        /\ UNCHANGED << chain, dirty >>
     \/ k = wr.room /\ (CommitSector(k) \/ CommitTail(k))
  /\ written' = written + k
  /\ UNCHANGED << isOpen, reader >>

FirstFlushHasData ==
  "data_first" \in ClientRules => wr.sec # INIT \/ Buffered > 0

\* Another file allocates a block while this one holds the dirty block.
ForeignFlush ==
  /\ want = 0 /\ dirty
  /\ FirstFlushHasData
  /\ CommitSector(0)
  /\ UNCHANGED << isOpen, written, reader >>

\* flogfs_close_write flushes if the handle is the head of the list of files
\* open for writing, and holds some but not 16 bytes.
Flushes(head) ==
  head /\ Len(wr.buf) # 0 /\ Len(wr.buf) # TailHeader /\ wr.sec # TAIL

Close(head) ==
  /\ want = 0 /\ isOpen
  /\ "close_flushes" \in ClientRules =>
       Flushes(head) \/ (Len(wr.buf) = Header(wr.sec) /\ ~ dirty)
  /\ \/ Flushes(head) /\ FirstFlushHasData /\ CommitSector(0)
     \/ ~ Flushes(head) /\ UNCHANGED << chain, wr, dirty >>
  /\ isOpen' = FALSE
  /\ UNCHANGED << written, reader >>

\* flogfs_open_write on a file that exists: behind its last sector.  Nothing
\* sets bytes_in_block: it is what the handle's memory held.
Reopen ==
  LET b == Len(chain)  s == Order[Used(b) + 1] IN
  /\ want = 0 /\ ~ isOpen
  /\ \E g \in Garbage \cup { wr.inBlock } :
       /\ "same_handle" \in ClientRules => g = wr.inBlock
       /\ wr' = [ HandleAt(wr, b, s, FreshBuffer(s))
                    EXCEPT !.inBlock = g, !.size = FileSize ]
  /\ isOpen' = TRUE
  /\ UNCHANGED << chain, dirty, written, reader >>

-----------------------------------------------------------------------------
(* Reading.                                                                *)

ReaderAt(b, s, o, k) ==
  [ rd EXCEPT !.blk = b, !.sec = s, !.off = o, !.room = k ]

(***************************************************************************)
(* The reader comes to the first sector of block b: if that has no bytes,  *)
(* it goes on to the next sector, and believes it to be used up.           *)
(***************************************************************************)
AtBlock(b) ==
  LET k == chain[b].sec[INIT].n IN
  IF k # 0 THEN ReaderAt(b, INIT, InitHeader, k)
           ELSE ReaderAt(b, NextSector(INIT), 0, 0)

OpenRead ==
  /\ want = 0 /\ ~ rd.open
  /\ "read_written" \in ClientRules => Used(1) > 0
  /\ rd' = [ AtBlock(1) EXCEPT !.open = TRUE ]
  /\ pos' = 0 /\ got' = << >>
  /\ UNCHANGED << writer, want >>

\* What a closed handle holds is not read again.
NoReader ==
  [ open |-> FALSE, blk |-> 1, sec |-> INIT, off |-> 0, room |-> 0 ]

NotReading == rd' = NoReader /\ pos' = 0 /\ want' = 0 /\ got' = << >>

CloseRead ==
  /\ want = 0 /\ rd.open
  /\ NotReading
  /\ UNCHANGED writer

\* flogfs_read is called for k bytes.
Read(k) ==
  /\ want = 0 /\ rd.open
  /\ want' = k /\ got' = << >>
  /\ UNCHANGED << writer, rd, pos >>

\* The init sector of block b carries the id of the file.
CarriesId(b) ==
  LET x == chain[b].sec[INIT] IN
  x.used /\ IsPrefix(Zeros(InitHeader), x.raw)

\* Deliberately wrong: a tail sector is read from its first byte.
DataOffsetZero(s) == 0

\* Where the data of a sector begins.
DataOffset(s) == Header(s)

\* The sector is used up: go on to the next one, or stop at the end of file.
Advance ==
  /\ want > 0 /\ rd.room = 0
  /\ LET s == NextSector(rd.sec) IN
     \/ /\ rd.sec = TAIL
        /\ IF CarriesId(rd.blk + 1)
             THEN rd' = AtBlock(rd.blk + 1) /\ UNCHANGED want
             ELSE want' = 0 /\ UNCHANGED rd
     \/ /\ rd.sec # TAIL
        /\ IF chain[rd.blk].sec[s].used
             THEN /\ rd' = ReaderAt(rd.blk, s, DataOffset(s), chain[rd.blk].sec[s].n)
                  /\ UNCHANGED want
             ELSE want' = 0 /\ UNCHANGED rd
  /\ UNCHANGED << writer, pos, got >>

\* What flash holds from offset o on, past the end of what was programmed too.
Bytes(b, s, o, k) ==
  LET raw == chain[b].sec[s].raw IN
  [ i \in 1 .. k |-> IF o + i <= Len(raw) THEN raw[o + i] ELSE 0 ]

Take ==
  LET k == Min({ want, rd.room }) IN
  /\ want > 0 /\ rd.room > 0
  /\ got' = got \o Bytes(rd.blk, rd.sec, rd.off, k)
  /\ rd' = [ rd EXCEPT !.off = @ + k, !.room = @ - k ]
  /\ pos' = pos + k /\ want' = want - k
  /\ UNCHANGED writer

(***************************************************************************)
(* flogfs_read_seek walks over the file and counts: whole blocks by their  *)
(* tails as long as p lies behind them, sectors by their spares otherwise. *)
(* CountAt[b] is the position at which it believes block b to begin.       *)
(***************************************************************************)
Skips(b, start, p) == Ended(b) /\ p > start + chain[b].total

CountAt(p) ==
  LET at[b \in 1 .. Len(chain)] ==
        IF b = 1 THEN 0
        ELSE at[b - 1] + IF Skips(b - 1, at[b - 1], p)
                           THEN chain[b - 1].total ELSE SumTo(b - 1, Used(b - 1))
  IN at

\* Where the walk ends: the first sector whose end is not before p.
Landing(p) ==
  LET at == CountAt(p)
      stops == { c \in (1 .. Len(chain)) \X Sectors :
                   /\ c[2] <= Used(c[1])
                   /\ ~ Skips(c[1], at[c[1]], p)
                   /\ p <= at[c[1]] + SumTo(c[1], c[2]) }
  IN { [ blk |-> c[1], sec |-> Order[c[2]],
         off |-> p - (at[c[1]] + SumTo(c[1], c[2] - 1)) ] :
       c \in { d \in stops : \A e \in stops :
                 d[1] < e[1] \/ (d[1] = e[1] /\ d[2] <= e[2]) } }

\* The offset counts from the start of the sector, header or not.
Seek(p) ==
  /\ want = 0 /\ rd.open
  /\ \E c \in Landing(p) :
       /\ "seek_data" \in ClientRules => Header(c.sec) = 0
       /\ rd' = ReaderAt(c.blk, c.sec, c.off, chain[c.blk].sec[c.sec].n - c.off)
  /\ pos' = p /\ got' = << >>
  /\ UNCHANGED << writer, want >>

(***************************************************************************)
(* A seek that fails still stores an offset and a count, which nothing has *)
(* set.  The handle is not used again.                                     *)
(***************************************************************************)
SeekFails(p) ==
  /\ want = 0 /\ rd.open
  /\ Landing(p) = {}
  /\ NotReading
  /\ UNCHANGED writer

-----------------------------------------------------------------------------
(* The file was just created, and nobody reads it.                         *)

Init ==
  /\ chain = << EmptyBlock >> /\ dirty = TRUE
  /\ wr = [ blk |-> 1, sec |-> INIT, buf |-> Zeros(InitHeader),
            room |-> SectorSize - InitHeader, inBlock |-> 0, size |-> 0 ]
  /\ isOpen = TRUE /\ written = 0
  /\ rd = NoReader
  /\ pos = 0 /\ want = 0 /\ got = << >>

Next ==
  \/ \E k \in 1 .. SectorSize : Write(k)
  \/ ForeignFlush \/ Reopen
  \/ \E head \in BOOLEAN : Close(head)
  \/ OpenRead \/ CloseRead
  \/ \E k \in 1 .. MaxRead : Read(k)
  \/ Advance \/ Take
  \/ \E p \in 0 .. MaxBytes : Seek(p) \/ SeekFails(p)

Spec == Init /\ [][Next]_vars

-----------------------------------------------------------------------------
(* Properties.                                                             *)

FileTypeOK ==
  /\ Len(chain) \in 1 .. MaxBlocks
  /\ \A b \in 1 .. Len(chain) : \A s \in Sectors :
       LET x == chain[b].sec[s] IN
       x.n \in UInt16 /\ Len(x.raw) <= SectorSize
  /\ wr.blk \in 1 .. Len(chain) /\ wr.sec \in Sectors
  /\ wr.room > 0 /\ Len(wr.buf) + wr.room = SectorSize
  /\ isOpen \in BOOLEAN /\ dirty \in BOOLEAN
  /\ written \in 0 .. MaxBytes
  /\ rd.blk \in 1 .. Len(chain) /\ rd.sec \in Sectors
  /\ want \in 0 .. MaxRead

\* The data of sector s of block b, as its spare delimits it.
Payload(b, s) ==
  LET x == chain[b].sec[s] IN
  SubSeq(x.raw, Header(s) + 1, Min({ Header(s) + x.n, Len(x.raw) }))

DataOf(b) ==
  LET data[i \in 0 .. Used(b)] ==
        IF i = 0 THEN << >> ELSE data[i - 1] \o Payload(b, Order[i])
  IN data[Used(b)]

Stored ==
  LET data[b \in 0 .. Len(chain)] == IF b = 0 THEN << >> ELSE data[b - 1] \o DataOf(b)
  IN data[Len(chain)]

Kept == SubSeq(wr.buf, Header(wr.sec) + 1, Len(wr.buf))

(***************************************************************************)
(* The file implements an append-only log: stored bytes never change,      *)
(* come in the order they were written and without a gap, and a reader     *)
(* gets them all, in order, up to the end of what is stored, wherever it   *)
(* started and whatever was appended meanwhile (flogfs.c:777-876,          *)
(* 1097-1130, 1390-1491).                                                  *)
(***************************************************************************)
Log == INSTANCE FlogLog WITH stored <- Stored, kept <- Kept, at <- pos
ImplementsLog == Log!Spec

(***************************************************************************)
(* The tail sector of a block records how many bytes the block holds; the  *)
(* size of a file and every seek past the block rely on it                 *)
(* (flogfs.c:1418-1423, 1041, 1074).                                       *)
(***************************************************************************)
TailsCount ==
  \A b \in 1 .. Len(chain) : Ended(b) => chain[b].total = SumTo(b, Used(b))

(***************************************************************************)
(* The size a writer is told, flogfs_write_file_size, counts what is       *)
(* stored and what it has buffered, and nothing else, over any number of   *)
(* flushes and reopenings (flogfs.c:900, 1180, 1199, 1440, 1488).          *)
(***************************************************************************)
WriterSize == isOpen => wr.size = Len(Stored) + Len(Kept)

(***************************************************************************)
(* The size a reader is told when it opens the file, counted from the      *)
(* tails and the spares, is what there is to read (flogfs.c:703,           *)
(* 1035-1052).                                                             *)
(***************************************************************************)
ReaderSize == FileSize = Len(Stored)

(***************************************************************************)
(* "All outstanding data must simply be flushed to flash" (flogfs.c:1270,  *)
(* of flogfs_close_write): once the file is closed, all that was accepted  *)
(* is stored.                                                              *)
(***************************************************************************)
CloseStores == ~ isOpen => Len(Stored) = written

=============================================================================
