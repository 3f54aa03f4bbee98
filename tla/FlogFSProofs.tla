---------------------------- MODULE FlogFSProofs ----------------------------
(***************************************************************************)
(* Proofs about FlogFS for every value of its constants: any flash, any    *)
(* number of files, handles and crashes.  The first part is about any      *)
(* rules of use, the second about an application that keeps all of them.   *)
(***************************************************************************)
EXTENDS FlogFS, FlogPreallocProofs, Induction

(* The file system is in the middle of claiming a block.                   *)
Claiming ==
  \/ pc \in { "flush", "alloc", "link", "init" }
  \/ pc = "prime" /\ op.for # "mount"

(* A programmed tail sector names the next block.                          *)
TailInv == \A b \in Block : LastPos \in flash[b].sec => flash[b].next \in Block

(* Every handle the code may write through stands on a block.              *)
HandleInv ==
  /\ \A h \in Open : w[h].blk \in Block
  /\ dirty.block # None => dirty.file \in Handle /\ w[dirty.file].blk \in Block

(* What the local variables of a call hold at each of its steps.           *)
CallInv ==
  /\ pc = "open.walk" => op.h \in Handle
  /\ pc \in { "open.walk", "rm.find", "rm.erase" } => op.idx \in 1 .. Len(table)
  /\ pc \in { "open.walk", "rm.find", "read.walk", "link", "init" } => op.blk \in Block
  /\ Claiming =>
       /\ op.for \in { "inode", "file", "tail" }
       /\ op.h \in Handle
       /\ op.for = "tail" => op.h \in Open
       /\ op.for # "tail" => op.name \in Name
  /\ pc = "prime" /\ op.for # "mount" => op.blk \in Block
  /\ pc = "init" => op.for = "inode"

(* There is a free inode entry, and the entry a new file is about to take  *)
(* is not the last of the last inode block.                                *)
TakesEntry == pc = "init" \/ (Claiming /\ op.for = "file")

RoomInv ==
  /\ InodeRoom
  /\ TakesEntry => Len(table) + 1 < EntriesPerBlock * Len(ichain)

StateInv == FlogTypeOK /\ TailInv /\ HandleInv /\ CallInv /\ RoomInv

TypeInv == PreInv /\ StateInv

-----------------------------------------------------------------------------
(* Arithmetic of the inode table.                                          *)

(* The entry behind a-1 others lies in one of l blocks of e entries.       *)
LEMMA DivBound ==
  ASSUME NEW a \in Nat, NEW e \in Nat \ {0}, NEW l \in Nat, a < e * l
  PROVE  a \div e \in 0 .. l - 1
<1> DEFINE q == a \div e
<1>1. q \in Int /\ e * q <= a /\ a < e * q + e
  OBVIOUS
<1>2. q >= 0
  <2>1. SUFFICES ASSUME q <= -1 PROVE FALSE
    BY <1>1
  <2>2. e * (q + 1) <= 0
    BY <1>1, <2>1
  <2> QED BY <2>2, <1>1
<1>3. q < l
  <2>1. SUFFICES ASSUME q >= l PROVE FALSE
    BY <1>1
  <2>2. e * q >= e * l
    BY <1>1, <2>1
  <2> QED BY <2>2, <1>1
<1> QED BY <1>1, <1>2, <1>3

(* An entry that is not the last of its block leaves room behind it.       *)
LEMMA NotLast ==
  ASSUME NEW a \in Nat, NEW e \in Nat \ {0}, NEW l \in Nat,
         a < e * l, (a + 1) % e # 0
  PROVE  a + 1 < e * l
<1>1. SUFFICES ASSUME a + 1 = e * l PROVE FALSE
  OBVIOUS
<1>2. (e * l) % e = 0
  OBVIOUS
<1> QED BY <1>1, <1>2

(* A block more gives room for an entry more.                              *)
LEMMA OneMoreBlock ==
  ASSUME NEW a \in Nat, NEW e \in Nat \ {0}, NEW l \in Nat, a < e * l
  PROVE  a + 1 < e * (l + 1)
<1>1. e * (l + 1) = e * l + e
  OBVIOUS
<1>2. CASE e = 1
  BY <1>2
<1>3. CASE e > 1
  BY <1>1, <1>3
<1> QED BY <1>2, <1>3

-----------------------------------------------------------------------------
(* The list of open handles.                                               *)

(* A handle is added at the end of the list.                               *)
LEMMA OpenAppend ==
  ASSUME wopen \in Seq(Handle), NEW h \in Handle, wopen' = Append(wopen, h)
  PROVE  wopen' \in Seq(Handle) /\ Open' = Open \cup { h }
<1>1. /\ wopen' \in Seq(Handle) /\ Len(wopen') = Len(wopen) + 1
      /\ Len(wopen) \in Nat
      /\ \A i \in 1 .. Len(wopen) : wopen'[i] = wopen[i]
      /\ wopen'[Len(wopen) + 1] = h
  OBVIOUS
<1>2. ASSUME NEW g \in Open' PROVE g \in Open \cup { h }
  BY <1>1 DEF Open
<1>3. ASSUME NEW g \in Open PROVE g \in Open'
  BY <1>1 DEF Open
<1>4. h \in Open'
  BY <1>1 DEF Open
<1> QED BY <1>1, <1>2, <1>3, <1>4

(* Removing the element at place i of a sequence adds none.                *)
LEMMA RemoveAtRange ==
  ASSUME NEW S, NEW q \in Seq(S), NEW i \in 1 .. Len(q)
  PROVE  LET r == SubSeq(q, 1, i - 1) \o SubSeq(q, i + 1, Len(q)) IN
         /\ r \in Seq(S)
         /\ \A j \in 1 .. Len(r) : \E k \in 1 .. Len(q) : r[j] = q[k]
<1> DEFINE s == SubSeq(q, 1, i - 1)
           t == SubSeq(q, i + 1, Len(q))
           r == s \o t
<1>0. Len(q) \in Nat /\ i \in 1 .. Len(q)
  OBVIOUS
<1>1. /\ s \in Seq(S) /\ Len(s) = i - 1
      /\ \A j \in 1 .. i - 1 : s[j] = q[j]
  OBVIOUS
<1>2. /\ t \in Seq(S) /\ Len(t) = Len(q) - i
      /\ \A j \in 1 .. Len(q) - i : t[j] = q[i + j]
  OBVIOUS
<1> HIDE DEF s, t
<1>3. /\ r \in Seq(S) /\ Len(r) = Len(s) + Len(t)
      /\ \A j \in 1 .. Len(s) + Len(t) :
           r[j] = IF j <= Len(s) THEN s[j] ELSE t[j - Len(s)]
  BY <1>1, <1>2, ConcatProperties
<1> HIDE DEF r
<1>4. ASSUME NEW j \in 1 .. Len(r) PROVE \E k \in 1 .. Len(q) : r[j] = q[k]
  <2>1. CASE j <= i - 1
    <3>1. r[j] = q[j] /\ j \in 1 .. Len(q)
      BY <2>1, <1>0, <1>1, <1>2, <1>3
    <3> QED BY <3>1
  <2>2. CASE j > i - 1
    <3>1. j - (i - 1) \in 1 .. Len(q) - i
      BY <2>2, <1>0, <1>1, <1>2, <1>3
    <3>2. r[j] = t[j - (i - 1)]
      BY <2>2, <1>0, <1>1, <1>2, <1>3
    <3>3. r[j] = q[i + (j - (i - 1))] /\ i + (j - (i - 1)) \in 1 .. Len(q)
      BY <3>1, <3>2, <1>0, <1>2
    <3> QED BY <3>3
  <2> QED BY <2>1, <2>2, <1>0, <1>1, <1>2, <1>3
<1> QED BY <1>3, <1>4 DEF r, s, t

(* Taking a handle out of the list adds none.                              *)
LEMMA OpenRemove ==
  ASSUME wopen \in Seq(Handle), NEW i \in 1 .. Len(wopen),
         wopen' = SubSeq(wopen, 1, i - 1) \o SubSeq(wopen, i + 1, Len(wopen))
  PROVE  wopen' \in Seq(Handle) /\ Open' \subseteq Open
<1>1. /\ wopen' \in Seq(Handle)
      /\ \A j \in 1 .. Len(wopen') : \E k \in 1 .. Len(wopen) : wopen'[j] = wopen[k]
  BY RemoveAtRange
<1>2. ASSUME NEW g \in Open' PROVE g \in Open
  <2>1. PICK j \in 1 .. Len(wopen') : g = wopen'[j]
    BY DEF Open
  <2>2. PICK k \in 1 .. Len(wopen) : wopen'[j] = wopen[k]
    BY <1>1
  <2> QED BY <2>1, <2>2 DEF Open
<1> QED BY <1>1, <1>2

-----------------------------------------------------------------------------
(* flog_commit_file_sector keeps everything well typed and moves no handle *)
(* to another block.                                                       *)
LEMMA CommitSectorTyped ==
  ASSUME FlogTypeOK, TailInv, NEW h \in Handle, w[h].blk \in Block,
         w[h].pos # LastPos, CommitSector(h)
  PROVE  /\ flash' \in [ Block -> Blocks ]
         /\ w' \in [ Handle -> HandleStates ]
         /\ \A g \in Handle : w'[g].blk = w[g].blk /\ w'[g].id = w[g].id
         /\ dirty' \in { dirty, Clean }
         /\ panic' \in { panic, "unerased", "wild" }
         /\ TailInv'
         /\ RemovePending(w[h].blk)
<1> DEFINE b == w[h].blk  p == w[h].pos
           t == IF p = 0 THEN "file" ELSE flash[b].type
<1>1. /\ p \in 0 .. LastPos /\ p + 1 \in 0 .. LastPos
      /\ w[h].id \in Nat /\ w[h].hdr \in BOOLEAN
  BY FlogAssumption DEF FlogTypeOK, HandleStates
<1>2. flash \in [ Block -> Blocks ] /\ flash[b] \in Blocks
  BY DEF FlogTypeOK
<1>3. /\ flash[b].owner \in Nat /\ flash[b].next \in Block \cup { None }
      /\ t \in { "erased", "inode", "file" }
  BY <1>2 DEF Blocks
<1>4. PICK o \in Nat : flash' = Program(b, p, t, o, flash[b].next)
  <2>1. \A o \in (IF p > 0 THEN { flash[b].owner }
                  ELSE IF w[h].hdr THEN { w[h].id } ELSE 0 .. MaxFiles) : o \in Nat
    BY <1>1, <1>3, FlogAssumption
  <2> QED BY <2>1 DEF CommitSector
<1>5. /\ flash' \in [ Block -> Blocks ]
      /\ flash'[b].sec = flash[b].sec \cup { p } /\ flash'[b].next = flash[b].next
      /\ \A c \in Block \ { b } : flash'[c] = flash[c]
  <2> HIDE DEF b, p, t
  <2>1. b \in Block
    BY DEF b
  <2>2. flash[b].next \in Block \cup { None }
    BY <1>3
  <2> QED BY <1>1, <1>2, <1>3, <1>4, <2>1, <2>2 DEF Program, Blocks
<1>6. TailInv'
  BY <1>1, <1>5 DEF TailInv
<1>7. w' = [ w EXCEPT ![h] = [ id |-> @.id, blk |-> @.blk, pos |-> p + 1,
                               off |-> FreshOffset(p + 1), hdr |-> @.hdr ] ]
  BY DEF CommitSector
<1>8. FreshOffset(p + 1) \in { "zero", "header", "sixteen", "part" }
  BY DEF FreshOffset
<1>9. /\ w' \in [ Handle -> HandleStates ]
      /\ \A g \in Handle : w'[g].blk = w[g].blk /\ w'[g].id = w[g].id
  BY <1>1, <1>7, <1>8 DEF FlogTypeOK, HandleStates
<1>10. dirty' \in { dirty, Clean }
  BY DEF CommitSector, DirtyAfterCommit
<1>11. panic' \in { panic, "unerased", "wild" }
  BY DEF CommitSector, PanicOnHandleWrite
<1>12. RemovePending(b)
  BY DEF CommitSector
<1> QED BY <1>5, <1>6, <1>9, <1>10, <1>11, <1>12

-----------------------------------------------------------------------------
(* The block that holds the next free entry exists.                        *)
LEMMA EntryBlockExists ==
  ASSUME FlogTypeOK, InodeRoom
  PROVE  EntryBlock(Len(table) + 1) \in Block
<1>1. Len(table) \in Nat /\ Len(ichain) \in Nat /\ ichain \in Seq(Block)
  BY DEF FlogTypeOK
<1>2. Len(table) \div EntriesPerBlock \in 0 .. Len(ichain) - 1
  BY <1>1, DivBound, FlogAssumption DEF InodeRoom
<1>3. (Len(table) \div EntriesPerBlock) + 1 \in 1 .. Len(ichain)
  BY <1>1, <1>2
<1>4. (Len(table) + 1) - 1 = Len(table)
  BY <1>1
<1> QED BY <1>1, <1>3, <1>4 DEF EntryBlock

(* Every step of the file system is one call on the preallocation lists    *)
(* that their contract allows, or leaves them alone.                       *)
LEMMA StepUsesPrealloc == TypeInv /\ [Next]_vars => [PreNext]_pre
<1> SUFFICES ASSUME TypeInv, [Next]_vars PROVE [PreNext]_pre
  OBVIOUS
<1> USE DEF TypeInv, StateInv, PreInv
<1>a. ASSUME NEW b \in Block, RemovePending(b) PROVE [PreNext]_pre
  BY <1>a DEF PreNext
<1>b. ASSUME UNCHANGED pre PROVE [PreNext]_pre
  BY <1>b
<1>c. ASSUME NEW h \in Handle, w[h].blk \in Block, CommitSector(h) PROVE [PreNext]_pre
  <2>1. RemovePending(w[h].blk)
    BY <1>c DEF CommitSector
  <2> QED BY <1>c, <2>1, <1>a
<1>d. Open \subseteq Handle
  BY ElementOfSeq DEF FlogTypeOK, Open
<1>1. CASE Mount
  BY <1>1 DEF Mount, PreNext
<1>2. ASSUME NEW h \in Handle, NEW nm \in Name, OpenExisting(h, nm) \/ OpenNew(h, nm)
      PROVE  [PreNext]_pre
  BY <1>2, <1>b DEF OpenExisting, OpenNew
<1>3. ASSUME NEW h \in Open, Buffer(h) \/ WriteTail(h) PROVE [PreNext]_pre
  BY <1>3, <1>b DEF Buffer, WriteTail
<1>4. ASSUME NEW h \in Open, WriteSector(h) PROVE [PreNext]_pre
  BY <1>4, <1>c, <1>d DEF WriteSector, HandleInv
<1>5. ASSUME NEW i \in 1 .. Len(wopen), Close(i) PROVE [PreNext]_pre
  <2>1. wopen[i] \in Open
    BY DEF Open
  <2>2. CASE CommitSector(wopen[i])
    BY <2>1, <2>2, <1>c, <1>d DEF HandleInv
  <2>3. CASE UNCHANGED pre
    BY <2>3, <1>b
  <2> QED BY <1>5, <2>2, <2>3 DEF Close
<1>6. ASSUME NEW nm \in Name, RmStart(nm) \/ OpenRead(nm) PROVE [PreNext]_pre
  BY <1>6, <1>b DEF RmStart, OpenRead
<1>7. CASE FlushDirty
  <2>1. CASE UNCHANGED pre
    BY <2>1, <1>b
  <2>2. CASE dirty.block # None /\ CommitSector(dirty.file)
    BY <2>2, <1>c DEF HandleInv
  <2> QED BY <1>7, <2>1, <2>2 DEF FlushDirty
<1>8. CASE AllocateFails \/ PrimeDone
  BY <1>8, <1>b DEF AllocateFails, PrimeDone
<1>9. CASE Allocate
  <2>1. available # << >>
    BY <1>9 DEF Allocate, IsEmpty, SlotsConserved
  <2> QED BY <1>9, <2>1 DEF Allocate, PreNext
<1>10. ASSUME NEW b \in Block, Prime(b) PROVE [PreNext]_pre
  BY <1>10 DEF Prime, Takeable, PreNext
<1>11. CASE OpenWalk
  BY <1>11, <1>a DEF OpenWalk, CallInv
<1>12. CASE OpenScan
  BY <1>12, <1>a DEF OpenScan, CallInv
<1>13. CASE InodeTail
  BY <1>13, <1>a, EntryBlockExists DEF InodeTail, RoomInv
<1>14. CASE InodeInit
  BY <1>14, <1>a DEF InodeInit, CallInv
<1>15. CASE FileEntry
  BY <1>15, <1>a, EntryBlockExists DEF FileEntry, RoomInv
<1>16. CASE TailLink
  <2>1. op.h \in Open
    BY <1>16 DEF TailLink, CallInv, Claiming
  <2> QED BY <1>16, <2>1, <1>a DEF TailLink, HandleInv
<1>17. CASE RmFind \/ RmInvalidate
  BY <1>17, <1>a DEF RmFind, RmInvalidate, CallInv
<1>18. CASE RmErase \/ RmWrongBlock
  <2>1. op.blk \in Block \cup { None } /\ op.blk # None
    BY <1>18 DEF RmErase, RmWrongBlock, FlogTypeOK, CallStates
  <2> QED BY <1>18, <2>1, <1>a DEF RmErase, RmWrongBlock
<1>19. CASE RmDone
  <2>1. CASE op.blk # None /\ RemovePending(op.blk)
    BY <2>1, <1>a DEF FlogTypeOK, CallStates
  <2> QED BY <1>19, <2>1, <1>b DEF RmDone
<1>20. CASE ReadWalk
  BY <1>20, <1>a DEF ReadWalk, CallInv
<1>21. CASE Crash
  BY <1>21 DEF Crash, PreNext
<1>22. CASE UNCHANGED vars
  BY <1>22, <1>b DEF vars, pre
<1> QED
  BY <1>1, <1>2, <1>3, <1>4, <1>5, <1>6, <1>7, <1>8, <1>9, <1>10, <1>11, <1>12,
     <1>13, <1>14, <1>15, <1>16, <1>17, <1>18, <1>19, <1>20, <1>21, <1>22
  DEF Next, Calls, Steps

-----------------------------------------------------------------------------
(* The type invariant is kept, conjunct by conjunct.                       *)

LEMMA OpenIsHandle == FlogTypeOK => Open \subseteq Handle
  BY ElementOfSeq DEF FlogTypeOK, Open

(* Handle h commits the sector it stands on.                               *)
Commits(h) ==
  h \in Handle /\ w[h].blk \in Block /\ w[h].pos # LastPos /\ CommitSector(h)

Committing ==
  \/ \E h \in Open : WriteSector(h)
  \/ \E i \in 1 .. Len(wopen) : Close(i)
  \/ FlushDirty

(* The calls that commit sectors do so through a handle on a block, or     *)
(* leave flash and the handles alone.                                      *)
LEMMA CommittingStep ==
  ASSUME FlogTypeOK, HandleInv, Committing
  PROVE  (\E h \in Handle : Commits(h)) \/ UNCHANGED << flash, w, dirty >>
<1>1. ASSUME NEW h \in Open, WriteSector(h) PROVE Commits(h)
  <2>1. w[h].pos \in 0 .. LastPos /\ w[h].pos < LastPos /\ h \in Handle
    BY <1>1, OpenIsHandle DEF WriteSector, FlogTypeOK, HandleStates
  <2> QED BY <1>1, <2>1, FlogAssumption DEF WriteSector, HandleInv, Commits
<1>2. ASSUME NEW i \in 1 .. Len(wopen), Close(i)
      PROVE  Commits(wopen[i]) \/ UNCHANGED << flash, w, dirty >>
  <2>1. wopen[i] \in Open
    BY DEF Open
  <2>2. CASE Flushes(i) /\ CommitSector(wopen[i])
    BY <2>1, <2>2, OpenIsHandle DEF Flushes, HandleInv, Commits
  <2> QED BY <1>2, <2>2 DEF Close
<1>3. ASSUME FlushDirty
      PROVE  Commits(dirty.file) \/ UNCHANGED << flash, w, dirty >>
  BY <1>3 DEF FlushDirty, HandleInv, Commits
<1> QED BY <1>1, <1>2, <1>3, OpenIsHandle DEF Committing, Commits

(* The steps that change flash.                                            *)
LEMMA FlashSteps ==
  ASSUME Next, ~ Committing, ~ \E b \in Block : Prime(b),
         ~ InodeTail, ~ InodeInit, ~ TailLink, ~ RmErase
  PROVE  UNCHANGED flash
BY DEF Next, Calls, Steps, Committing, Mount, OpenExisting, OpenNew, Buffer, WriteTail,
       RmStart, OpenRead, AllocateFails, Allocate, PrimeDone, OpenWalk, OpenScan,
       FileEntry, RmFind, RmInvalidate, RmWrongBlock, RmDone, ReadWalk, Crash, durable

LEMMA FlashInv ==
  ASSUME TypeInv, Next
  PROVE  flash' \in [ Block -> Blocks ] /\ TailInv'
<1> USE DEF TypeInv, StateInv
<1>0. flash \in [ Block -> Blocks ] /\ LastPos \in Nat \ {0} /\ None \notin Block
  BY FlogAssumption DEF FlogTypeOK
<1>1. CASE Committing
  <2>1. CASE UNCHANGED flash
    BY <2>1, <1>0 DEF TailInv
  <2>2. ASSUME NEW h \in Handle, Commits(h)
        PROVE  flash' \in [ Block -> Blocks ] /\ TailInv'
    BY <2>2, CommitSectorTyped DEF Commits
  <2> QED BY <1>1, <2>1, <2>2, CommittingStep
<1>2. ASSUME NEW b \in Block, Prime(b)
      PROVE  flash' \in [ Block -> Blocks ] /\ TailInv'
  BY <1>0, <1>2 DEF Prime, ErasedBlock, Blocks, TailInv
<1>3. CASE InodeTail
  <2> DEFINE last == EntryBlock(Len(table) + 1)
  <2>1. last \in Block /\ op.blk \in Block
    BY <1>3, EntryBlockExists DEF RoomInv, InodeTail, CallInv
  <2>2. flash' = Program(last, LastPos, flash[last].type, flash[last].owner, op.blk)
    BY <1>3 DEF InodeTail
  <2> HIDE DEF last
  <2> QED BY <1>0, <2>1, <2>2 DEF Program, Blocks, TailInv
<1>4. CASE InodeInit
  <2>1. op.blk \in Block
    BY <1>4 DEF InodeInit, CallInv
  <2>2. flash' = Program(op.blk, 0, "inode", flash[op.blk].owner, flash[op.blk].next)
    BY <1>4 DEF InodeInit
  <2>3. flash[op.blk] \in Blocks
    BY <1>0, <2>1
  <2> DEFINE b == op.blk  o == flash[b].owner  nx == flash[b].next
  <2>4. o \in Nat /\ nx \in Block \cup { None }
    BY <2>3 DEF Blocks
  <2>5. flash' = Program(b, 0, "inode", o, nx) /\ b \in Block /\ nx = flash[b].next
    BY <2>1, <2>2
  <2> HIDE DEF b, o, nx
  <2>6. flash' \in [ Block -> Blocks ]
    BY <1>0, <2>4, <2>5 DEF Program, Blocks
  <2>7. TailInv'
    BY <1>0, <2>5 DEF Program, TailInv
  <2> QED BY <2>6, <2>7
<1>5. CASE TailLink
  <2> DEFINE b == w[op.h].blk
  <2>1. b \in Block /\ op.blk \in Block
    BY <1>5 DEF TailLink, CallInv, Claiming, HandleInv
  <2>2. flash' = Program(b, LastPos, flash[b].type, flash[b].owner, op.blk)
    BY <1>5 DEF TailLink
  <2> HIDE DEF b
  <2> QED BY <1>0, <2>1, <2>2 DEF Program, Blocks, TailInv
<1>6. CASE RmErase
  <2>1. PICK k \in BOOLEAN : flash' = [ flash EXCEPT ![op.blk] = ErasedBlock(k) ]
    BY <1>6 DEF RmErase
  <2>2. ErasedBlock(k) \in Blocks /\ ErasedBlock(k).sec = {}
    BY DEF ErasedBlock, Blocks
  <2> DEFINE e == ErasedBlock(k)  b == op.blk
  <2> HIDE DEF e, b
  <2>3. /\ flash' = [ flash EXCEPT ![b] = e ] /\ e \in Blocks /\ e.sec = {}
    BY <2>1, <2>2 DEF e, b
  <2> QED BY <1>0, <2>3 DEF TailInv
<1>7. CASE UNCHANGED flash
  BY <1>0, <1>7 DEF TailInv
<1>8. UNCHANGED flash \/ Committing \/ (\E b \in Block : Prime(b))
      \/ InodeTail \/ InodeInit \/ TailLink \/ RmErase
  BY FlashSteps
<1> HIDE DEF TypeInv, StateInv
<1> QED BY <1>1, <1>2, <1>3, <1>4, <1>5, <1>6, <1>7, <1>8

(* The steps that change the handles or the dirty block.                   *)
LEMMA HandleSteps ==
  ASSUME Next, ~ Committing, ~ Mount, ~ Crash, ~ OpenScan, ~ FileEntry, ~ TailLink,
         ~ \E h \in Open : Buffer(h)
  PROVE  UNCHANGED << w, wopen, dirty >>
BY DEF Next, Calls, Steps, Committing, OpenExisting, OpenNew, WriteTail, Prime,
       RmStart, OpenRead, AllocateFails, Allocate, PrimeDone, OpenWalk, InodeTail,
       InodeInit, RmFind, RmInvalidate, RmErase, RmWrongBlock, RmDone, ReadWalk

HandlesTyped ==
  /\ w \in [ Handle -> HandleStates ]
  /\ wopen \in Seq(Handle)
  /\ dirty \in [ block : Block \cup { None }, file : Handle \cup { None } ]

(* Which handles are open only changes when a handle is opened or closed.  *)
LEMMA OpenSteps ==
  ASSUME FlogTypeOK, Committing
  PROVE  wopen' \in Seq(Handle) /\ Open' \subseteq Open
<1>1. ASSUME NEW i \in 1 .. Len(wopen), Close(i)
      PROVE  wopen' \in Seq(Handle) /\ Open' \subseteq Open
  BY <1>1, OpenRemove DEF Close, FlogTypeOK
<1>2. CASE UNCHANGED wopen
  BY <1>2 DEF FlogTypeOK, Open
<1> QED BY <1>1, <1>2 DEF Committing, WriteSector, FlushDirty

(* A handle that is put on a block and opened.                             *)
LEMMA HandleOpened ==
  ASSUME FlogTypeOK, HandleInv, NEW h \in Handle, NEW x \in HandleStates, x.blk \in Block,
         w' = [ w EXCEPT ![h] = x ], wopen' = Append(wopen, h) \/ wopen' = wopen,
         dirty' = dirty \/ dirty' = MadeDirty(x.blk, h)
  PROVE  HandlesTyped' /\ HandleInv'
<1>1. wopen' \in Seq(Handle) /\ Open' \subseteq Open \cup { h }
  <2>1. CASE wopen' = Append(wopen, h)
    BY <2>1, OpenAppend DEF FlogTypeOK
  <2>2. CASE wopen' = wopen
    BY <2>2 DEF FlogTypeOK, Open
  <2> QED BY <2>1, <2>2
<1>2. w' \in [ Handle -> HandleStates ]
  BY DEF FlogTypeOK
<1>3. w'[h] = x /\ \A g \in Handle \ { h } : w'[g] = w[g]
  BY DEF FlogTypeOK
<1>4. dirty' \in [ block : Block \cup { None }, file : Handle \cup { None } ]
  BY DEF FlogTypeOK, MadeDirty
<1>5. \A g \in Open' : w'[g].blk \in Block
  BY <1>1, <1>3, OpenIsHandle DEF HandleInv
<1>6. dirty'.block # None => dirty'.file \in Handle /\ w'[dirty'.file].blk \in Block
  BY <1>3 DEF HandleInv, MadeDirty
<1> QED BY <1>1, <1>2, <1>4, <1>5, <1>6 DEF HandlesTyped, HandleInv

(* What an entry of the inode table holds.                                 *)
LEMMA EntriesTyped ==
  ASSUME FlogTypeOK, NEW i \in 1 .. Len(table)
  PROVE  table[i].id \in Nat /\ table[i].first \in Block
<1>1. table[i] \in [ name : Name, id : Nat, first : Block, dead : BOOLEAN ]
  BY ElementOfSeq DEF FlogTypeOK
<1> QED BY <1>1

LEMMA HandleStep ==
  ASSUME TypeInv, Next
  PROVE  HandlesTyped' /\ HandleInv'
<1> USE DEF TypeInv, StateInv
<1>0. HandlesTyped /\ Open \subseteq Handle
  BY OpenIsHandle DEF FlogTypeOK, HandlesTyped
<1>1. CASE Committing
  <2>1. wopen' \in Seq(Handle) /\ Open' \subseteq Open
    BY <1>1, OpenSteps
  <2>2. CASE UNCHANGED << flash, w, dirty >>
    BY <2>1, <2>2, <1>0 DEF HandlesTyped, HandleInv
  <2>3. ASSUME NEW h \in Handle, Commits(h) PROVE HandlesTyped' /\ HandleInv'
    <3>1. /\ w' \in [ Handle -> HandleStates ]
          /\ \A g \in Handle : w'[g].blk = w[g].blk
          /\ dirty' = dirty \/ dirty' = Clean
      BY <2>3, CommitSectorTyped DEF Commits
    <3>2. dirty' \in [ block : Block \cup { None }, file : Handle \cup { None } ]
      BY <3>1, <1>0 DEF HandlesTyped, Clean
    <3>3. Clean.block = None
      BY DEF Clean
    <3>4. \A g \in Open' : w'[g].blk \in Block
      BY <3>1, <2>1, <1>0 DEF HandleInv
    <3>5. dirty'.block # None => dirty'.file \in Handle /\ w'[dirty'.file].blk \in Block
      BY <3>1, <3>3 DEF HandleInv
    <3> QED BY <2>1, <3>1, <3>2, <3>4, <3>5 DEF HandlesTyped, HandleInv
  <2> QED BY <1>1, <2>2, <2>3, CommittingStep
<1>2. CASE Mount \/ Crash
  <2>1. dirty' = Clean /\ wopen' = << >> /\ w' \in { w, [ h \in Handle |-> Closed ] }
    BY <1>2 DEF Mount, Crash
  <2>2. Closed \in HandleStates
    BY FlogAssumption DEF Closed, HandleStates
  <2>3. Open' = {}
    BY <2>1 DEF Open
  <2> QED BY <1>0, <2>1, <2>2, <2>3 DEF HandlesTyped, HandleInv, Clean
<1>3. CASE OpenScan
  <2>1. op.h \in Handle /\ op.blk \in Block /\ op.idx \in 1 .. Len(table)
    BY <1>3 DEF OpenScan, CallInv
  <2>2. table[op.idx].id \in Nat
    BY <2>1, EntriesTyped DEF TypeInv
  <2>3. PICK p \in 0 .. LastPos :
          w' = [ w EXCEPT ![op.h] =
            [ id  |-> table[op.idx].id, blk |-> op.blk, pos |-> p, hdr |-> p # 0,
              off |-> FreshOffset(p) ] ]
    BY <1>3 DEF OpenScan
  <2> DEFINE x == [ id  |-> table[op.idx].id, blk |-> op.blk, pos |-> p, hdr |-> p # 0,
                    off |-> FreshOffset(p) ]
  <2>4. x \in HandleStates /\ x.blk \in Block
    BY <2>1, <2>2 DEF HandleStates, FreshOffset
  <2> HIDE DEF x
  <2>5. w' = [ w EXCEPT ![op.h] = x ]
    BY <2>3 DEF x
  <2>6. wopen' = Append(wopen, op.h) /\ dirty' = dirty
    BY <1>3 DEF OpenScan
  <2> QED BY <2>1, <2>4, <2>5, <2>6, HandleOpened
<1>4. CASE FileEntry
  <2> DEFINE x == [ id |-> maxId + 1, blk |-> op.blk, pos |-> 0,
                    off |-> "header", hdr |-> TRUE ]
  <2>1. op.h \in Handle /\ op.blk \in Block
    BY <1>4 DEF FileEntry, CallInv, Claiming
  <2>2. x \in HandleStates /\ x.blk \in Block /\ x.blk = op.blk
    BY <2>1, FlogAssumption DEF HandleStates, FlogTypeOK
  <2>3. w' = [ w EXCEPT ![op.h] = x ] /\ wopen' = Append(wopen, op.h)
        /\ dirty' = MadeDirty(op.blk, op.h)
    BY <1>4 DEF FileEntry
  <2> HIDE DEF x
  <2> QED BY <2>1, <2>2, <2>3, HandleOpened
<1>5. CASE TailLink
  <2> DEFINE x == [ id |-> w[op.h].id, blk |-> op.blk, pos |-> 0,
                    off |-> "header", hdr |-> TRUE ]
  <2>1. op.h \in Handle /\ op.blk \in Block
    BY <1>5 DEF TailLink, CallInv, Claiming
  <2>2. x \in HandleStates /\ x.blk \in Block /\ x.blk = op.blk
    BY <2>1, FlogAssumption DEF HandleStates, FlogTypeOK
  <2>3. w' = [ w EXCEPT ![op.h] = x ] /\ wopen' = wopen
        /\ dirty' = MadeDirty(op.blk, op.h)
    BY <1>5 DEF TailLink
  <2> HIDE DEF x
  <2> QED BY <2>1, <2>2, <2>3, HandleOpened
<1>6. ASSUME NEW h \in Open, Buffer(h) PROVE HandlesTyped' /\ HandleInv'
  <2>1. PICK o \in { "sixteen", "part" } : w' = [ w EXCEPT ![h].off = o ]
    BY <1>6 DEF Buffer
  <2>2. h \in Handle /\ wopen' = wopen /\ dirty' = dirty
    BY <1>0, <1>6 DEF Buffer
  <2>3. /\ w' \in [ Handle -> HandleStates ]
        /\ \A g \in Handle : w'[g].blk = w[g].blk
    BY ZenonT(30), <1>0, <2>1, <2>2 DEF HandlesTyped, HandleStates
  <2> QED BY <1>0, <2>2, <2>3 DEF HandlesTyped, HandleInv, Open
<1>7. CASE UNCHANGED << w, wopen, dirty >>
  BY <1>0, <1>7 DEF HandlesTyped, HandleInv, Open
<1>8. \/ UNCHANGED << w, wopen, dirty >> \/ Committing \/ Mount \/ Crash
      \/ OpenScan \/ FileEntry \/ TailLink \/ \E h \in Open : Buffer(h)
  BY HandleSteps
<1> HIDE DEF TypeInv, StateInv
<1> QED BY <1>1, <1>2, <1>3, <1>4, <1>5, <1>6, <1>7, <1>8

(* A call in progress passes from one legal state of its local variables   *)
(* to the next.                                                            *)
LEMMA CallStep ==
  ASSUME TypeInv, Next
  PROVE  op' \in CallStates /\ CallInv'
<1> USE DEF TypeInv, StateInv
<1>0. /\ op \in CallStates /\ NoCall \in CallStates /\ Open \subseteq Handle
      /\ None \notin Block /\ Len(table) \in Nat /\ 0 \notin 1 .. Len(table)
  BY OpenIsHandle, FlogAssumption DEF FlogTypeOK, NoCall, CallStates
<1>1. CASE Mount \/ Crash
  BY <1>0, <1>1 DEF Mount, Crash, CallInv, Claiming, NoCall, CallStates
<1>2. ASSUME NEW h \in Handle, NEW nm \in Name, OpenExisting(h, nm)
      PROVE  op' \in CallStates /\ CallInv'
  <2>1. PICK i \in LiveEntries(nm) :
          op' = [ for |-> "open", h |-> h, name |-> nm, blk |-> table[i].first, idx |-> i ]
    BY <1>2 DEF OpenExisting
  <2>2. i \in 1 .. Len(table) /\ table[i].first \in Block
    BY EntriesTyped DEF LiveEntries
  <2> QED BY <1>0, <1>2, <2>1, <2>2
          DEF OpenExisting, durable, CallInv, Claiming, CallStates
<1>3. ASSUME NEW h \in Handle, NEW nm \in Name, OpenNew(h, nm)
      PROVE  op' \in CallStates /\ CallInv'
  BY <1>0, <1>3 DEF OpenNew, CallInv, Claiming, NoCall, CallStates
<1>4. ASSUME NEW h \in Open, WriteTail(h) PROVE op' \in CallStates /\ CallInv'
  BY <1>0, <1>4 DEF WriteTail, CallInv, Claiming, NoCall, CallStates, Open
<1>5. ASSUME NEW nm \in Name, RmStart(nm) \/ OpenRead(nm)
      PROVE  op' \in CallStates /\ CallInv'
  <2>1. PICK i \in LiveEntries(nm) :
          op' \in { [ for |-> f, h |-> None, name |-> nm, blk |-> table[i].first, idx |-> i ] :
                    f \in { "rm", "read" } }
    BY <1>5 DEF RmStart, OpenRead
  <2>2. i \in 1 .. Len(table) /\ table[i].first \in Block
    BY EntriesTyped DEF LiveEntries
  <2> QED BY <1>0, <1>5, <2>1, <2>2
          DEF RmStart, OpenRead, durable, CallInv, Claiming, CallStates
<1>6. CASE Committing
  <2>1. op' = op /\ table' = table /\ (pc' = pc \/ (pc = "flush" /\ pc' = "alloc"))
    BY <1>6 DEF Committing, WriteSector, Close, FlushDirty
  <2>2. op.for = "tail" /\ Claiming => op.h \in Open'
    <3>1. ASSUME pc \in { "idle" } PROVE ~ Claiming
      BY <3>1 DEF Claiming
    <3>2. CASE FlushDirty
      BY <3>2 DEF FlushDirty, CallInv, Open
    <3>3. CASE pc = "idle"
      BY <3>1, <3>3
    <3> QED BY <1>6, <3>2, <3>3 DEF Committing, WriteSector, Close
  <2>3. Claiming' => Claiming
    BY <2>1 DEF Claiming
  <2> QED BY <1>0, <2>1, <2>2, <2>3 DEF CallInv
<1>7. CASE AllocateFails
  BY <1>0, <1>7 DEF AllocateFails, CallInv, Claiming, NoCall
<1>8. CASE Allocate
  <2>1. Head(available) \in Block
    <3>1. available \in Seq(Block) /\ available # << >>
      BY <1>8 DEF Allocate, IsEmpty, PreInv, PreTypeOK, SlotsConserved
    <3> QED BY <3>1
  <2>2. op' = [ op EXCEPT !.blk = Head(available) ] /\ pc' \in { "prime", "link" }
        /\ Open' = Open /\ pc = "alloc"
    BY <1>8 DEF Allocate, Open
  <2>3. op' \in CallStates /\ op'.blk \in Block /\ op'.for = op.for /\ op'.h = op.h
        /\ op'.name = op.name
    BY <1>0, <2>1, <2>2 DEF CallStates
  <2> QED BY <2>2, <2>3 DEF CallInv, Claiming
<1>9. CASE (\E b \in Block : Prime(b)) \/ PrimeDone
  BY <1>0, <1>9 DEF Prime, PrimeDone, CallInv, Claiming, NoCall, Open, durable
<1>10. CASE OpenScan \/ FileEntry \/ TailLink
  BY <1>0, <1>10 DEF OpenScan, FileEntry, TailLink, CallInv, Claiming, NoCall
<1>11. CASE InodeTail
  BY <1>0, <1>11 DEF InodeTail, CallInv, Claiming, Open
<1>12. CASE InodeInit
  BY <1>0, <1>12 DEF InodeInit, CallInv, Claiming, Open, CallStates
<1>13. CASE OpenWalk \/ RmFind \/ ReadWalk
  <2>1. op.blk \in Block /\ flash[op.blk].next \in Block \cup { None }
    BY <1>13 DEF OpenWalk, RmFind, ReadWalk, CallInv, FlogTypeOK, Blocks
  <2>2. \/ op' = NoCall /\ pc' = "idle"
        \/ /\ op' = [ op EXCEPT !.blk = flash[op.blk].next ]
           /\ flash[op.blk].next \in Block /\ pc' = pc /\ table' = table
    BY <1>0, <1>13, <2>1 DEF OpenWalk, RmFind, ReadWalk, NextBlock, Programmed, TailInv, durable
  <2>3. pc \in { "open.walk", "rm.find", "read.walk" }
    BY <1>13 DEF OpenWalk, RmFind, ReadWalk
  <2> QED BY <1>0, <2>2, <2>3 DEF CallInv, Claiming, CallStates, NoCall
<1>14. CASE RmInvalidate
  <2>1. Len(table') = Len(table)
    BY <1>14 DEF RmInvalidate, FlogTypeOK
  <2>2. op.idx \in 1 .. Len(table) /\ table[op.idx].first \in Block
    BY <1>14, EntriesTyped DEF RmInvalidate, CallInv
  <2> QED BY <1>0, <1>14, <2>1, <2>2 DEF RmInvalidate, ErasedFirst, CallInv, Claiming, CallStates
<1>15. CASE RmErase
  <2>1. flash[op.blk].next \in Block \cup { None }
    BY <1>0, <1>15 DEF RmErase, CallStates, FlogTypeOK, Blocks
  <2> QED BY <1>0, <1>15, <2>1 DEF RmErase, NextBlock, CallInv, Claiming, CallStates
<1>16. CASE RmWrongBlock \/ RmDone
  BY <1>0, <1>16 DEF RmWrongBlock, RmDone, CallInv, Claiming, NoCall, durable
<1>17. ASSUME NEW h \in Open, Buffer(h) PROVE op' \in CallStates /\ CallInv'
  BY <1>0, <1>17 DEF Buffer, CallInv, Claiming, durable
<1> HIDE DEF TypeInv, StateInv
<1> QED BY <1>1, <1>2, <1>3, <1>4, <1>5, <1>6, <1>7, <1>8, <1>9, <1>10, <1>11,
           <1>12, <1>13, <1>14, <1>15, <1>16, <1>17
        DEF Next, Calls, Steps, Committing

(* The inode table only grows, and at its last block.                      *)
LEMMA TableStep ==
  ASSUME TypeInv, Next
  PROVE  /\ table' \in Seq([ name : Name, id : Nat, first : Block, dead : BOOLEAN ])
         /\ ichain' \in Seq(Block)
         /\ maxId' \in Nat
<1> USE DEF TypeInv, StateInv
<1>0. /\ table \in Seq([ name : Name, id : Nat, first : Block, dead : BOOLEAN ])
      /\ ichain \in Seq(Block) /\ maxId \in Nat
  BY DEF FlogTypeOK
<1>1. CASE Mount
  <2>1. PICK m \in { 0 } \cup Ids : maxId' = m
    BY <1>1 DEF Mount
  <2>2. m \in Nat
    BY EntriesTyped DEF Ids
  <2> QED BY <1>0, <1>1, <2>1, <2>2 DEF Mount, durable
<1>2. CASE Crash
  BY <1>0, <1>2 DEF Crash, durable
<1>3. CASE InodeTail
  <2>1. op.blk \in Block
    BY <1>3 DEF InodeTail, CallInv
  <2> QED BY <1>0, <1>3, <2>1 DEF InodeTail
<1>4. CASE FileEntry
  <2>1. op.blk \in Block /\ op.name \in Name
    BY <1>4 DEF FileEntry, CallInv, Claiming
  <2> DEFINE Entry == [ name : Name, id : Nat, first : Block, dead : BOOLEAN ]
             e == [ name |-> op.name, id |-> maxId + 1, first |-> op.blk, dead |-> FALSE ]
  <2>2. e \in Entry
    BY <1>0, <2>1
  <2>3. table \in Seq(Entry)
    BY <1>0
  <2>4. table' = Append(table, e) /\ ichain' = ichain /\ maxId' = maxId + 1
    BY <1>4 DEF FileEntry
  <2> HIDE DEF Entry, e
  <2>5. table' \in Seq(Entry) /\ ichain' \in Seq(Block) /\ maxId' \in Nat
    BY <1>0, <2>2, <2>3, <2>4
  <2> QED BY <2>5 DEF Entry
<1>5. CASE RmInvalidate
  <2> DEFINE Entry == [ name : Name, id : Nat, first : Block, dead : BOOLEAN ]
             e == [ table[op.idx] EXCEPT !.dead = TRUE ]
  <2>1. op.idx \in 1 .. Len(table)
    BY <1>5 DEF RmInvalidate, CallInv
  <2>2. table \in Seq(Entry) /\ table[op.idx] \in Entry
    BY <1>0, <2>1, ElementOfSeq
  <2>3. e \in Entry
    BY <2>2
  <2>4. table' = [ table EXCEPT ![op.idx] = e ] /\ ichain' = ichain /\ maxId' = maxId
    BY <1>5 DEF RmInvalidate
  <2> HIDE DEF Entry, e
  <2>5. table' \in Seq(Entry)
    BY <2>1, <2>2, <2>3, <2>4
  <2> QED BY <1>0, <2>4, <2>5 DEF Entry
<1>6. CASE UNCHANGED << table, ichain, maxId >>
  BY <1>0, <1>6
<1>7. \/ Mount \/ Crash \/ InodeTail \/ FileEntry \/ RmInvalidate
      \/ UNCHANGED << table, ichain, maxId >>
  BY DEF Next, Calls, Steps, OpenExisting, OpenNew, Buffer, WriteSector, WriteTail, Close,
         RmStart, OpenRead, FlushDirty, AllocateFails, Allocate, Prime, PrimeDone,
         OpenWalk, OpenScan, InodeInit, TailLink, RmFind, RmErase, RmWrongBlock,
         RmDone, ReadWalk, durable
<1> HIDE DEF TypeInv, StateInv
<1> QED BY <1>1, <1>2, <1>3, <1>4, <1>5, <1>6, <1>7

LEMMA ControlStep ==
  ASSUME TypeInv, Next
  PROVE  /\ pc' \in { "down", "idle", "prime", "flush", "alloc", "link", "init",
                      "open.walk", "rm.find", "rm.erase", "read.walk" }
         /\ panic' \in { "no", "unerased", "recursion", "chain", "wild" }
         /\ crashes' \in 0 .. MaxCrashes
<1> USE DEF TypeInv, StateInv
<1>1. pc' \in { "down", "idle", "prime", "flush", "alloc", "link", "init",
                "open.walk", "rm.find", "rm.erase", "read.walk" }
  BY DEF FlogTypeOK, Next, Calls, Steps, Mount, OpenExisting, OpenNew, Buffer, WriteSector,
         WriteTail, Close, RmStart, OpenRead, FlushDirty, AllocateFails, Allocate, Prime,
         PrimeDone, OpenWalk, OpenScan, InodeTail, InodeInit, FileEntry, TailLink, RmFind,
         RmInvalidate, RmErase, RmWrongBlock, RmDone, ReadWalk, Crash
<1>2. panic' \in { panic, "unerased", "recursion", "chain", "wild" }
  BY DEF Next, Calls, Steps, Mount, OpenExisting, OpenNew, Buffer, WriteSector,
         WriteTail, Close, RmStart, OpenRead, FlushDirty, AllocateFails, Allocate, Prime,
         PrimeDone, OpenWalk, OpenScan, InodeTail, InodeInit, FileEntry, TailLink, RmFind,
         RmInvalidate, RmErase, RmWrongBlock, RmDone, ReadWalk, Crash,
         CommitSector, PanicOnHandleWrite, PanicIfProgrammed
<1>3. crashes' = crashes \/ (crashes < MaxCrashes /\ crashes' = crashes + 1)
  BY DEF Next, Calls, Steps, Mount, OpenExisting, OpenNew, Buffer, WriteSector,
         WriteTail, Close, RmStart, OpenRead, FlushDirty, AllocateFails, Allocate, Prime,
         PrimeDone, OpenWalk, OpenScan, InodeTail, InodeInit, FileEntry, TailLink, RmFind,
         RmInvalidate, RmErase, RmWrongBlock, RmDone, ReadWalk, Crash
<1> QED BY <1>1, <1>2, <1>3, FlogAssumption DEF FlogTypeOK

(* There is always a free inode entry.  A file takes one when its creation *)
(* is over, but then the entry was not the last of its inode block, or a   *)
(* block was appended first.                                               *)
LEMMA RoomStep ==
  ASSUME TypeInv, Next
  PROVE  RoomInv'
<1> USE DEF TypeInv, StateInv
<1>0. Len(table) \in Nat /\ Len(ichain) \in Nat /\ EntriesPerBlock \in Nat \ {0}
      /\ Len(table) < EntriesPerBlock * Len(ichain)
  BY FlogAssumption DEF FlogTypeOK, RoomInv, InodeRoom
<1> HIDE DEF TypeInv, StateInv
<1>1. ASSUME Len(table') = Len(table), ichain' = ichain,
             TakesEntry' => Len(table) + 1 < EntriesPerBlock * Len(ichain)
      PROVE  RoomInv'
  BY <1>0, <1>1 DEF RoomInv, InodeRoom
<1>2. ASSUME NEW h \in Handle, NEW nm \in Name, OpenNew(h, nm) PROVE RoomInv'
  <2>1. op'.for = "file" => (Len(table) + 1) % EntriesPerBlock # 0
    BY <1>2 DEF OpenNew, NeedsInodeBlock, NoCall
  <2>2. op'.for = "file" => Len(table) + 1 < EntriesPerBlock * Len(ichain)
    BY <2>1, <1>0, NotLast
  <2> QED BY <1>1, <1>2, <2>2 DEF OpenNew, TakesEntry, durable
<1>3. CASE InodeTail
  <2>1. table' = table /\ Len(ichain') = Len(ichain) + 1
    BY <1>3 DEF InodeTail, TypeInv, StateInv, FlogTypeOK
  <2>2. Len(table) + 1 < EntriesPerBlock * (Len(ichain) + 1)
    BY <1>0, OneMoreBlock
  <2> QED BY <2>1, <2>2, <1>0 DEF RoomInv, InodeRoom
<1>4. CASE FileEntry
  <2>1. Len(table) + 1 < EntriesPerBlock * Len(ichain)
    BY <1>4 DEF FileEntry, RoomInv, TakesEntry, Claiming, TypeInv, StateInv
  <2>2. Len(table') = Len(table) + 1 /\ ichain' = ichain /\ pc' = "idle"
    BY <1>4 DEF FileEntry, TypeInv, StateInv, FlogTypeOK
  <2> QED BY <2>1, <2>2 DEF RoomInv, InodeRoom, TakesEntry, Claiming
<1>5. CASE RmInvalidate
  <2>1. Len(table') = Len(table) /\ ichain' = ichain /\ pc' = "rm.erase"
    BY <1>5 DEF RmInvalidate, TypeInv, StateInv, FlogTypeOK
  <2> QED BY <1>1, <2>1 DEF TakesEntry, Claiming
<1>6. ASSUME UNCHANGED << table, ichain >>, TakesEntry' => TakesEntry PROVE RoomInv'
  BY <1>1, <1>6 DEF TypeInv, StateInv, RoomInv
<1>7. CASE InodeInit
  <2>1. UNCHANGED << table, ichain >> /\ TakesEntry
    BY <1>7 DEF InodeInit, TakesEntry
  <2> QED BY <1>6, <2>1
<1>8. CASE Mount \/ Crash \/ AllocateFails \/ OpenScan \/ TailLink \/ RmDone \/ ReadWalk
  <2>1. UNCHANGED << table, ichain >> /\ ~ TakesEntry'
    BY <1>8 DEF Mount, Crash, AllocateFails, OpenScan, TailLink, RmDone, ReadWalk,
                durable, NoCall, TakesEntry, Claiming
  <2> QED BY <1>6, <2>1
<1>9. CASE Allocate
  <2>1. op'.for = op.for
    BY <1>9 DEF Allocate, TypeInv, StateInv, FlogTypeOK, CallStates
  <2> QED BY <1>6, <1>9, <2>1 DEF Allocate, durable, TakesEntry, Claiming
<1>10. CASE (\E b \in Block : Prime(b)) \/ PrimeDone
  <2>1. UNCHANGED << table, ichain >>
    BY <1>10 DEF Prime, PrimeDone, durable
  <2>2. TakesEntry' => TakesEntry
    BY <1>10 DEF Prime, PrimeDone, TakesEntry, Claiming, NoCall
  <2> QED BY <1>6, <2>1, <2>2
<1>11. CASE Committing
  <2>1. op' = op /\ UNCHANGED << table, ichain >>
        /\ (pc' = pc \/ (pc = "flush" /\ pc' = "alloc"))
    BY <1>11 DEF Committing, WriteSector, Close, FlushDirty
  <2> QED BY <1>6, <2>1 DEF TakesEntry, Claiming
<1>12. ASSUME NEW h \in Handle, NEW nm \in Name, OpenExisting(h, nm) PROVE RoomInv'
  BY <1>6, <1>12 DEF OpenExisting, durable, TakesEntry, Claiming
<1>13. ASSUME NEW h \in Open, WriteTail(h) \/ Buffer(h) PROVE RoomInv'
  BY <1>6, <1>13 DEF WriteTail, Buffer, durable, TakesEntry, Claiming, NoCall
<1>14. ASSUME NEW nm \in Name, RmStart(nm) \/ OpenRead(nm) PROVE RoomInv'
  BY <1>6, <1>14 DEF RmStart, OpenRead, durable, TakesEntry, Claiming
<1>15. CASE OpenWalk \/ RmFind \/ RmErase \/ RmWrongBlock
  BY <1>6, <1>15 DEF OpenWalk, RmFind, RmErase, RmWrongBlock, durable, TakesEntry, Claiming
<1> QED BY <1>2, <1>3, <1>4, <1>5, <1>7, <1>8, <1>9, <1>10, <1>11, <1>12, <1>13, <1>14,
           <1>15
        DEF Next, Calls, Steps, Committing

-----------------------------------------------------------------------------
(* TypeInv is an inductive invariant.                                      *)

LEMMA TypeInvInit == Init => TypeInv
<1> SUFFICES ASSUME Init PROVE TypeInv
  OBVIOUS
<1>1. PreInv
  BY PreInitInv DEF Init
<1>2. flash \in [ Block -> Blocks ] /\ TailInv
  <2> DEFINE e == ErasedBlock(FALSE)  i == FormattedInode
  <2>1. e \in Blocks /\ LastPos \notin e.sec
    BY DEF ErasedBlock, Blocks
  <2>2. i \in Blocks
    BY FlogAssumption DEF FormattedInode, Blocks
  <2>3. LastPos \notin i.sec
    BY FlogAssumption DEF FormattedInode
  <2>4. flash = [ b \in Block |-> IF b = Inode0 THEN i ELSE e ]
    BY DEF Init
  <2> HIDE DEF e, i
  <2> QED BY <2>1, <2>2, <2>3, <2>4 DEF TailInv
<1>3. /\ table = << >> /\ ichain = << Inode0 >> /\ maxId = 0 /\ dirty = Clean
      /\ w = [ h \in Handle |-> Closed ] /\ wopen = << >> /\ pc = "down"
      /\ op = NoCall /\ panic = "no" /\ crashes = 0
  BY DEF Init
<1>4. Closed \in HandleStates /\ NoCall \in CallStates /\ Inode0 \in Block
  BY FlogAssumption DEF Closed, HandleStates, NoCall, CallStates
<1>5. FlogTypeOK
  BY <1>2, <1>3, <1>4, FlogAssumption DEF FlogTypeOK, Clean
<1>6. HandleInv
  BY <1>3 DEF HandleInv, Open, Clean
<1>7. ~ Claiming /\ CallInv
  BY <1>3 DEF Claiming, CallInv, NoCall
<1>8. RoomInv
  BY <1>3, <1>7, FlogAssumption DEF RoomInv, InodeRoom, TakesEntry
<1> QED BY <1>1, <1>2, <1>5, <1>6, <1>7, <1>8 DEF TypeInv, StateInv

LEMMA TypeInvNext == TypeInv /\ [Next]_vars => TypeInv'
<1> SUFFICES ASSUME TypeInv, [Next]_vars PROVE TypeInv'
  OBVIOUS
<1>1. PreInv'
  BY StepUsesPrealloc, PreNextInv DEF TypeInv
<1>2. CASE Next
  <2>1. FlogTypeOK'
    BY <1>2, FlashInv, HandleStep, CallStep, TableStep, ControlStep
    DEF FlogTypeOK, HandlesTyped
  <2> QED BY <1>1, <1>2, <2>1, FlashInv, HandleStep, CallStep, RoomStep
          DEF TypeInv, StateInv
<1>3. CASE UNCHANGED vars
  BY <1>1, <1>3 DEF vars, durable, pre, TypeInv, StateInv, FlogTypeOK, TailInv, HandleInv, CallInv,
                    RoomInv, InodeRoom, TakesEntry, Claiming, Open
<1> QED BY <1>2, <1>3

(***************************************************************************)
(* Every variable keeps its type, whatever the application does, whenever  *)
(* power is cut, and however many blocks, files and handles there are.     *)
(***************************************************************************)
THEOREM TypeCorrect == Spec => []TypeOK
<1>1. TypeInv => TypeOK
  BY DEF TypeInv, StateInv, PreInv, TypeOK
<1> QED BY <1>1, TypeInvInit, TypeInvNext, PTL DEF Spec

(***************************************************************************)
(* The file system as a whole never loses or doubles an entry of the       *)
(* preallocation lists (flogfs.c:470-485, 1636-1740).                      *)
(***************************************************************************)
THEOREM PreallocKept == Spec => [](SlotsConserved /\ ListedOnce)
<1>1. TypeInv => SlotsConserved /\ ListedOnce
  BY DEF TypeInv, PreInv
<1> QED BY <1>1, TypeInvInit, TypeInvNext, PTL DEF Spec

(***************************************************************************)
(* Every step of the file system uses the preallocation lists within the   *)
(* contract their assertions state (flogfs.c:1707-1708, 1730).             *)
(***************************************************************************)
THEOREM PreallocContract == Spec => UsesPrealloc
<1>1. Init => PreInit
  BY DEF Init
<1> QED BY <1>1, TypeInvInit, TypeInvNext, StepUsesPrealloc, PTL
        DEF Spec, UsesPrealloc, PreSpec

(***************************************************************************)
(* The scan for a free inode entry always finds one, so the assert(false)  *)
(* of flog_inode_iterator_next (flogfs.c:1826) is never reached, crashes   *)
(* and failed allocations included.                                        *)
(***************************************************************************)
THEOREM InodeRoomKept == Spec => []InodeRoom
<1>1. TypeInv => InodeRoom
  BY DEF TypeInv, StateInv, RoomInv
<1> QED BY <1>1, TypeInvInit, TypeInvNext, PTL DEF Spec

-----------------------------------------------------------------------------
(* File ids.                                                               *)

(* The steps that change the table or the counter.                         *)
LEMMA IdSteps ==
  ASSUME Next, ~ Mount, ~ FileEntry, ~ RmInvalidate, ~ Crash
  PROVE  UNCHANGED << table, maxId >> /\ pc # "down"
BY DEF Next, Calls, Steps, OpenExisting, OpenNew, Buffer, WriteSector, WriteTail, Close,
       RmStart, OpenRead, FlushDirty, AllocateFails, Allocate, Prime, PrimeDone,
       OpenWalk, OpenScan, InodeTail, InodeInit, TailLink, RmFind, RmErase,
       RmWrongBlock, RmDone, ReadWalk, durable

LEMMA IdsInOrderInit == Init => IdsInOrder
  BY DEF Init, IdsInOrder

LEMMA IdsInOrderNext == TypeInv /\ IdsInOrder /\ [Next]_vars => IdsInOrder'
<1> SUFFICES ASSUME TypeInv, IdsInOrder, [Next]_vars PROVE IdsInOrder'
  OBVIOUS
<1>0. Len(table) \in Nat
  BY DEF TypeInv, StateInv, FlogTypeOK
<1>1. CASE Mount
  <2>1. PICK m \in { 0 } \cup Ids : IsLargestId(m) /\ maxId' = m
    BY <1>1 DEF Mount
  <2>2. Ids = 1 .. Len(table)
    BY DEF Ids, IdsInOrder
  <2>3. m = Len(table)
    BY <1>0, <2>1, <2>2 DEF IsLargestId
  <2> QED BY <1>1, <2>1, <2>3 DEF Mount, durable, IdsInOrder
<1>2. CASE FileEntry
  <2> DEFINE e == [ name |-> op.name, id |-> maxId + 1, first |-> op.blk, dead |-> FALSE ]
  <2>1. maxId = Len(table) /\ maxId' = maxId + 1
    BY <1>2 DEF FileEntry, IdsInOrder
  <2>2. table' = Append(table, e) /\ e.id = Len(table) + 1
    BY <1>2, <2>1 DEF FileEntry
  <2> HIDE DEF e
  <2>3. /\ Len(table') = Len(table) + 1
        /\ \A i \in 1 .. Len(table) : table'[i] = table[i]
        /\ table'[Len(table) + 1] = e
    BY <2>2 DEF TypeInv, StateInv, FlogTypeOK
  <2>4. \A i \in 1 .. Len(table') : table'[i].id = i
    BY <1>0, <2>2, <2>3 DEF IdsInOrder
  <2> QED BY <2>1, <2>3, <2>4 DEF IdsInOrder
<1>3. CASE RmInvalidate
  <2>1. /\ Len(table') = Len(table) /\ maxId' = maxId /\ pc # "down"
        /\ \A i \in 1 .. Len(table) : table'[i].id = table[i].id
    BY <1>3 DEF RmInvalidate, TypeInv, StateInv, FlogTypeOK
  <2> QED BY <2>1 DEF IdsInOrder
<1>4. CASE Crash
  BY <1>4 DEF Crash, durable, IdsInOrder
<1>5. CASE UNCHANGED << table, maxId >> /\ pc # "down"
  BY <1>5 DEF IdsInOrder
<1>6. CASE UNCHANGED vars
  BY <1>6 DEF vars, durable, IdsInOrder
<1> QED BY <1>1, <1>2, <1>3, <1>4, <1>5, <1>6, IdSteps

(***************************************************************************)
(* File ids are handed out in order and never again, over any number of    *)
(* crashes: what mount reads off the table (flogfs.c:603-620) is the last  *)
(* id given, removed files and files without data included.                *)
(***************************************************************************)
THEOREM IdsNeverReused == Spec => []IdsInOrder
<1> QED BY TypeInvInit, TypeInvNext, IdsInOrderInit, IdsInOrderNext, PTL DEF Spec

-----------------------------------------------------------------------------
(* Names.  A second live entry of a name could only come from a file being *)
(* created, so it is remembered that none was found when it was begun.     *)

OneLive == \A nm \in Name : \A i, j \in LiveEntries(nm) : i = j

NameInv ==
  /\ OneLive
  /\ Claiming /\ op.for # "tail" => LiveEntries(op.name) = {}

LEMMA NameInvNext == TypeInv /\ NameInv /\ [Next]_vars => NameInv'
<1> SUFFICES ASSUME TypeInv, NameInv, [Next]_vars PROVE NameInv'
  OBVIOUS
<1> DEFINE Creating == Claiming /\ op.for # "tail"
<1>0. Len(table) \in Nat
  BY DEF TypeInv, StateInv, FlogTypeOK
<1>1. CASE FileEntry
  <2> DEFINE e == [ name |-> op.name, id |-> maxId + 1, first |-> op.blk, dead |-> FALSE ]
  <2>1. LiveEntries(op.name) = {} /\ ~ Claiming'
    BY <1>1 DEF FileEntry, NameInv, Claiming
  <2>2. table' = Append(table, e) /\ e.name = op.name
    BY <1>1 DEF FileEntry
  <2> HIDE DEF e
  <2>3. /\ Len(table') = Len(table) + 1
        /\ \A i \in 1 .. Len(table) : table'[i] = table[i]
        /\ table'[Len(table) + 1] = e
    BY <2>2 DEF TypeInv, StateInv, FlogTypeOK
  <2>4. ASSUME NEW nm \in Name, NEW i \in LiveEntries(nm)'
        PROVE  IF nm = op.name THEN i = Len(table) + 1 ELSE i \in LiveEntries(nm)
    <3>1. i \in 1 .. Len(table) + 1 /\ table'[i].name = nm /\ ~ table'[i].dead
      BY <2>3 DEF LiveEntries
    <3>2. CASE i = Len(table) + 1
      BY <3>1, <3>2, <2>2, <2>3
    <3>3. CASE i \in 1 .. Len(table)
      <4>1. i \in LiveEntries(nm)
        BY <3>1, <3>3, <2>3 DEF LiveEntries
      <4> QED BY <4>1, <2>1
    <3> QED BY <3>1, <3>2, <3>3, <1>0
  <2>5. OneLive'
    BY <2>4 DEF OneLive, NameInv
  <2> QED BY <2>1, <2>5 DEF NameInv
<1>2. ASSUME \A nm \in Name : LiveEntries(nm)' \subseteq LiveEntries(nm), ~ Creating'
      PROVE  NameInv'
  BY <1>2 DEF NameInv, OneLive
<1>3. CASE RmInvalidate
  <2>1. /\ Len(table') = Len(table) /\ ~ Claiming'
        /\ \A i \in 1 .. Len(table) : table'[i].name = table[i].name
                                      /\ (table[i].dead => table'[i].dead)
    BY <1>3 DEF RmInvalidate, Claiming, TypeInv, StateInv, FlogTypeOK
  <2>2. \A nm \in Name : LiveEntries(nm)' \subseteq LiveEntries(nm)
    BY <2>1 DEF LiveEntries
  <2> QED BY <1>2, <2>1, <2>2
<1>4. ASSUME UNCHANGED table, ~ Creating' \/ (Creating /\ op'.name = op.name)
      PROVE  NameInv'
  BY <1>4 DEF NameInv, OneLive, LiveEntries
<1>5. ASSUME NEW h \in Handle, NEW nm \in Name, OpenNew(h, nm) PROVE NameInv'
  <2>1. UNCHANGED table /\ op'.name = nm /\ LiveEntries(nm) = {}
    BY <1>5 DEF OpenNew, durable, NoCall, Found
  <2> QED BY <2>1 DEF NameInv, OneLive, LiveEntries
<1>6. CASE FlushDirty \/ Allocate \/ (\E b \in Block : Prime(b)) \/ PrimeDone
           \/ InodeTail \/ InodeInit
  <2>1. UNCHANGED table
    BY <1>6 DEF FlushDirty, Allocate, Prime, PrimeDone, InodeTail, InodeInit, durable
  <2>2. CASE InodeTail \/ InodeInit
    <3>1. op.for = "inode"
      BY <2>2 DEF InodeTail, InodeInit, TypeInv, StateInv, CallInv
    <3> QED BY <2>2, <2>1, <3>1, <1>4 DEF InodeTail, InodeInit, Claiming,
                                         TypeInv, StateInv, FlogTypeOK, CallStates
  <2>3. CASE FlushDirty \/ Allocate \/ (\E b \in Block : Prime(b)) \/ PrimeDone
    <3>1. ~ Creating' \/ (Creating /\ op'.name = op.name)
      BY <2>3 DEF FlushDirty, Allocate, Prime, PrimeDone, Claiming, NoCall,
                  TypeInv, StateInv, FlogTypeOK, CallStates
    <3> QED BY <2>1, <3>1, <1>4
  <2> QED BY <1>6, <2>2, <2>3
<1>7. UNCHANGED table /\ ~ Creating' => NameInv'
  BY <1>4
<1>8. CASE Mount \/ Crash \/ AllocateFails \/ OpenScan \/ TailLink \/ RmDone \/ ReadWalk
  BY <1>7, <1>8 DEF Mount, Crash, AllocateFails, OpenScan, TailLink, RmDone, ReadWalk,
                    durable, Claiming, NoCall
<1>9. ASSUME NEW h \in Handle, NEW nm \in Name, OpenExisting(h, nm) PROVE NameInv'
  BY <1>7, <1>9 DEF OpenExisting, durable, Claiming
<1>10. ASSUME NEW h \in Open, WriteTail(h) \/ Buffer(h) \/ WriteSector(h) PROVE NameInv'
  BY <1>7, <1>10 DEF WriteTail, Buffer, WriteSector, durable, Claiming, NoCall
<1>11. ASSUME NEW i \in 1 .. Len(wopen), Close(i) PROVE NameInv'
  BY <1>7, <1>11 DEF Close, Claiming
<1>12. ASSUME NEW nm \in Name, RmStart(nm) \/ OpenRead(nm) PROVE NameInv'
  BY <1>7, <1>12 DEF RmStart, OpenRead, durable, Claiming
<1>13. CASE OpenWalk \/ RmFind \/ RmErase \/ RmWrongBlock
  BY <1>7, <1>13 DEF OpenWalk, RmFind, RmErase, RmWrongBlock, durable, Claiming
<1>14. CASE UNCHANGED vars
  BY <1>14 DEF vars, durable, NameInv, OneLive, LiveEntries, Claiming
<1> QED BY <1>1, <1>3, <1>5, <1>6, <1>8, <1>9, <1>10, <1>11, <1>12, <1>13, <1>14
        DEF Next, Calls, Steps

(***************************************************************************)
(* A name never has two live entries: flogfs_open_write creates one only   *)
(* if flog_find_file found none (flogfs.c:1153-1160), and nothing that     *)
(* happens until the entry is written makes one appear.                    *)
(***************************************************************************)
THEOREM NamesUnique == Spec => []OneLiveEntryPerName
<1>1. Init => NameInv
  BY DEF Init, NameInv, OneLive, LiveEntries, Claiming
<1>2. NameInv => OneLiveEntryPerName
  <2> SUFFICES ASSUME NameInv, NEW nm \in Name
               PROVE  Cardinality(LiveEntries(nm)) <= 1
    BY DEF OneLiveEntryPerName
  <2>1. CASE LiveEntries(nm) = {}
    BY <2>1, FS_EmptySet
  <2>2. CASE LiveEntries(nm) # {}
    <3>1. PICK i \in LiveEntries(nm) : TRUE
      BY <2>2
    <3>2. \A j \in LiveEntries(nm) : j = i
      BY <3>1 DEF NameInv, OneLive
    <3>3. LiveEntries(nm) = { i }
      BY <3>1, <3>2
    <3>4. Cardinality({ i }) = 1
      BY FS_Singleton
    <3> QED BY <3>3, <3>4
  <2> QED BY <2>1, <2>2
<1> QED BY <1>1, <1>2, TypeInvInit, TypeInvNext, NameInvNext, PTL DEF Spec

-----------------------------------------------------------------------------
(***************************************************************************)
(* Under the rules of use: what blocks hold, who lays claim to them, and   *)
(* where the write handles stand.                                          *)
(*                                                                         *)
(* The invariant follows a block through its life: erased and listed, in   *)
(* the hand of a call, dirty, in the chain of a file or of the inode       *)
(* table, and erased again.  It speaks of single blocks and of the links   *)
(* into them, not of whole chains; that no chain is a cycle is kept apart. *)
(***************************************************************************)

(* The application keeps to all of the rules.                              *)
KeepsRules == Rules \subseteq ClientRules

-----------------------------------------------------------------------------
(* The invariant.                                                          *)

(* Erased, keyed and not to be handed out again.                           *)
Fresh(b) == flash[b] = ErasedBlock(TRUE) /\ ~ InAvailable(b)

(* A file whose blocks may be in flash: one that exists, or that is being  *)
(* removed.                                                                *)
Removing == pc = "rm.erase"
HasOwner(b) == flash[b].owner \in Live \/ (Removing /\ flash[b].owner = op.idx)

FileBlock(b, i) == flash[b].type = "file" /\ flash[b].owner = i

(* What a block holds goes with its type; sectors of a file are written    *)
(* from the first one on.                                                  *)
BlockInv ==
  \A b \in Block :
    /\ flash[b].type = "erased" => flash[b] = ErasedBlock(flash[b].key)
    /\ flash[b].type # "erased" => flash[b].key
    /\ flash[b].next # None => LastPos \in flash[b].sec
    /\ flash[b].type = "file" =>
         /\ 0 \in flash[b].sec /\ HasOwner(b)
         /\ \A p \in flash[b].sec : \A q \in 0 .. p - 1 : q \in flash[b].sec

(* Blocks on the list, in hand and dirty are erased, and are three         *)
(* different kinds of blocks.                                              *)
InHandOrLinked ==
  pc \in { "link", "init" } \/ (pc = "prime" /\ op.for # "mount")

FreshInv ==
  /\ ListedBlocksAreErased
  /\ dirty.block # None => Fresh(dirty.block)
  /\ InHandOrLinked => Fresh(op.blk)
  /\ pc = "prime" /\ op.for # "mount" => op.blk \in pending

(* The dirty block belongs to an open handle that stands at its beginning, *)
(* and is flushed before another block is taken.                           *)
DirtyInv ==
  /\ pc \in { "down", "alloc", "prime", "link", "init" } => dirty.block = None
  /\ dirty.block # None =>
       /\ dirty.file \in Open
       /\ w[dirty.file].blk = dirty.block
       /\ w[dirty.file].pos = 0 /\ w[dirty.file].hdr

(* A link leads to a block of the same file or the same chain, or to the   *)
(* one block of it that is not written yet.                                *)
InChain(b, i) == FileBlock(b, i) \/ (b = dirty.block /\ w[dirty.file].id = i)

LinkInv ==
  /\ \A i \in Live : InChain(table[i].first, i)
  /\ \A c \in Block : flash[c].next # None =>
       /\ flash[c].type = "file" => InChain(flash[c].next, flash[c].owner)
       /\ flash[c].type = "inode" =>
            \/ flash[flash[c].next].type = "inode"
            \/ pc = "init" /\ flash[c].next = op.blk

(* There is one link into a block.                                         *)
OneLinkInv ==
  /\ \A i, j \in Live : table[i].first = table[j].first => i = j
  /\ \A c, d \in Block : flash[c].next = flash[d].next => flash[c].next = None \/ c = d
  /\ \A i \in Live : \A c \in Block : flash[c].next # table[i].first
  /\ \A c \in Block : flash[c].next # Inode0
  /\ Removing /\ op.blk # None => \A c \in Block : flash[c].next # op.blk

(* The last inode block has room for a link.                               *)
LastInode == ichain[Len(ichain)]

InodeInv ==
  /\ flash[Inode0].type = "inode"
  /\ pc = "init" => LastInode = op.blk
  /\ pc # "init" => flash[LastInode].type = "inode" /\ flash[LastInode].sec = { 0 }

(* The inode chain is as long as the entries need, or one block longer: a  *)
(* block was appended and the entry it was for is under way, or got no     *)
(* block and never will.                                                   *)
Settled == Len(ichain) = Len(table) \div EntriesPerBlock + 1
Ahead   == NeedsInodeBlock /\ Len(ichain) = Len(table) \div EntriesPerBlock + 2

Entering == pc = "init" \/ (Claiming /\ op.for = "file")

GrowthInv ==
  /\ Settled \/ Ahead
  /\ pc = "init" => Ahead
  /\ Entering /\ NeedsInodeBlock => Ahead
  /\ Claiming /\ op.for = "inode" => NeedsInodeBlock
  /\ Ahead /\ ~ Entering => n = 0 /\ pc \notin { "down", "prime", "link" }

(* A write handle stands behind what is written of the last block of its   *)
(* file, and no other handle stands there.                                 *)
WriterInv ==
  /\ WriterAtEnd
  /\ \A h \in Open :
       /\ w[h].id \in Live
       /\ \/ FileBlock(w[h].blk, w[h].id)
          \/ w[h].blk = dirty.block /\ dirty.file = h
  /\ \A g, h \in Open : w[g].id = w[h].id => g = h
  /\ Claiming /\ op.for = "tail" => w[op.h].pos = LastPos

(* A call that walks along the chain of a file stays in it, and nobody     *)
(* writes the file meanwhile.                                              *)
WalkInv ==
  /\ pc = "open.walk" => op.h \notin Open
  /\ pc \in { "open.walk", "rm.find", "rm.erase" } => \A h \in Open : w[h].id # op.idx
  /\ pc \in { "open.walk", "rm.find" } => op.idx \in Live /\ FileBlock(op.blk, op.idx)
  /\ Removing => op.idx \notin Live /\ (op.blk # None => FileBlock(op.blk, op.idx))

(* Every block of a file is linked to.                                     *)
Linked(b) ==
  \/ \E i \in Live : table[i].first = b
  \/ \E c \in Block : flash[c].type = "file" /\ flash[c].next = b
  \/ Removing /\ op.blk = b

LinkedInv == \A b \in Block : flash[b].type = "file" \/ b = dirty.block => Linked(b)

(* No chain is a cycle.                                                    *)
Ranks(rank) ==
  \A c \in Block : flash[c].next # None => rank[c] < rank[flash[c].next]

RankInv == \E rank \in [ Block -> Nat ] : Ranks(rank)

CareInv ==
  /\ BlockInv /\ FreshInv /\ DirtyInv
  /\ LinkInv /\ OneLinkInv
  /\ InodeInv /\ GrowthInv
  /\ WriterInv /\ WalkInv
  /\ LinkedInv
  /\ panic = "no"

-----------------------------------------------------------------------------
(* What the invariants say, in the form the steps use.                     *)

LEMMA RulesKept ==
  ASSUME KeepsRules
  PROVE  /\ "single_writer" \in ClientRules /\ "close_before_rm" \in ClientRules
         /\ "close_flushes" \in ClientRules /\ "quiet_reboot" \in ClientRules
BY DEF KeepsRules, Rules

LEMMA Typed ==
  ASSUME TypeInv
  PROVE  /\ flash \in [ Block -> Blocks ]
         /\ Len(table) \in Nat /\ Live \subseteq 1 .. Len(table)
         /\ \A i \in 1 .. Len(table) : table[i].first \in Block
         /\ Open \subseteq Handle
         /\ \A h \in Open : w[h].blk \in Block /\ w[h].pos \in 0 .. LastPos /\ w[h].id \in Nat
         /\ w \in [ Handle -> HandleStates ]
         /\ LastPos \in Nat \ { 0 } /\ None \notin Block /\ Inode0 \in Block
<1> USE DEF TypeInv, StateInv
<1>1. \A i \in 1 .. Len(table) : table[i].first \in Block
  BY EntriesTyped
<1>2. Open \subseteq Handle
  BY OpenIsHandle
<1>3. \A h \in Handle : w[h] \in HandleStates
  BY DEF FlogTypeOK
<1>4. \A h \in Open : w[h].blk \in Block /\ w[h].pos \in 0 .. LastPos /\ w[h].id \in Nat
  BY <1>2, <1>3 DEF HandleInv, HandleStates
<1> QED BY <1>1, <1>2, <1>4, FlogAssumption DEF FlogTypeOK, Live

LEMMA ListedTyped ==
  ASSUME TypeInv
  PROVE  available \in Seq(Block) /\ \A i \in 1 .. Len(available) : available[i] \in Block
BY ElementOfSeq DEF TypeInv, PreInv, PreTypeOK

(* The fields of a block after one of its sectors is programmed.           *)
LEMMA ProgramEffect ==
  ASSUME flash \in [ Block -> Blocks ], NEW b \in Block, NEW p, NEW t, NEW o, NEW nx,
         flash' = Program(b, p, t, o, nx)
  PROVE  /\ flash'[b].key = flash[b].key /\ flash'[b].type = t /\ flash'[b].owner = o
         /\ flash'[b].sec = flash[b].sec \cup { p } /\ flash'[b].next = nx
         /\ \A c \in Block \ { b } : flash'[c] = flash[c]
<1> DEFINE x == [ key |-> flash[b].key, type |-> t, owner |-> o,
                  sec |-> flash[b].sec \cup { p }, next |-> nx ]
<1>1. flash' = [ flash EXCEPT ![b] = x ]
  BY DEF Program
<1>2. flash'[b] = x /\ \A c \in Block \ { b } : flash'[c] = flash[c]
  <2> HIDE DEF x
  <2> QED BY <1>1
<1> QED BY <1>2

(* A fresh block has nothing written in it.                                *)
LEMMA ErasedIs ==
  ASSUME NEW b \in Block, NEW k \in BOOLEAN, flash[b] = ErasedBlock(k)
  PROVE  /\ flash[b].type = "erased" /\ flash[b].sec = {} /\ flash[b].next = None
         /\ flash[b].owner = 0 /\ flash[b].key = k
BY DEF ErasedBlock

(***************************************************************************)
(* What committing the sector of an open handle does: to a block of its    *)
(* file that has data already, or to the dirty block, which then is one.   *)
(***************************************************************************)
CommitsMore(h) ==
  LET b == w[h].blk IN
  /\ FileBlock(b, w[h].id) /\ w[h].pos # 0 /\ b # dirty.block
  /\ dirty'.block = dirty.block
  /\ dirty.block # None => dirty' = dirty /\ dirty.file # h
  /\ flash'[b].owner = flash[b].owner

CommitsFirst(h) ==
  LET b == w[h].blk IN
  /\ flash[b] = ErasedBlock(TRUE) /\ w[h].pos = 0
  /\ b = dirty.block /\ dirty.file = h /\ dirty'.block = None
  /\ flash'[b].owner = w[h].id

LEMMA CommitEffect ==
  ASSUME TypeInv, CareInv, NEW h \in Open, w[h].pos # LastPos, CommitSector(h)
  PROVE  LET b == w[h].blk  p == w[h].pos IN
         /\ CommitsMore(h) \/ CommitsFirst(h)
         /\ flash'[b].type = "file" /\ flash'[b].next = None /\ flash'[b].key
         /\ flash'[b].sec = 0 .. p /\ p \in 0 .. LastPos - 1
         /\ \A c \in Block \ { b } : flash'[c] = flash[c]
         /\ w'[h].id = w[h].id /\ w'[h].blk = b /\ w'[h].pos = p + 1 /\ w'[h].hdr = w[h].hdr
         /\ \A g \in Handle \ { h } : w'[g] = w[g]
         /\ panic' = "no" /\ available' = available /\ n' = n
<1> USE DEF CareInv
<1> DEFINE b == w[h].blk  p == w[h].pos
<1>1. /\ b \in Block /\ p \in 0 .. LastPos - 1 /\ h \in Handle /\ w[h].id \in Nat
      /\ flash \in [ Block -> Blocks ] /\ w \in [ Handle -> HandleStates ] /\ None \notin Block
  BY Typed
<1>2. /\ flash[b].sec = 0 .. p - 1 /\ flash[b].next = None
      /\ FileBlock(b, w[h].id) \/ (b = dirty.block /\ dirty.file = h)
  BY DEF WriterInv, WriterAtEnd
<1>5. /\ w'[h].id = w[h].id /\ w'[h].blk = b /\ w'[h].pos = p + 1 /\ w'[h].hdr = w[h].hdr
      /\ \A g \in Handle \ { h } : w'[g] = w[g]
      /\ available' = available /\ n' = n
  BY <1>1 DEF CommitSector, RemovePending, HandleStates
<1>3. CASE FileBlock(b, w[h].id)
  <2>1. p # 0 /\ p \notin flash[b].sec /\ flash[b].key
    BY <1>1, <1>2, <1>3 DEF BlockInv, FileBlock
  <2>2. b # dirty.block
    BY <1>1, <1>3 DEF FreshInv, Fresh, ErasedBlock, FileBlock
  <2>3. flash' = Program(b, p, "file", flash[b].owner, None)
    BY <1>1, <1>2, <1>3, <2>1 DEF CommitSector, FileBlock
  <2>4. panic' = "no"
    BY <1>3, <2>1 DEF CommitSector, PanicOnHandleWrite, Programmed, FileBlock
  <2>5. dirty'.block = dirty.block /\ (dirty.block # None => dirty' = dirty /\ dirty.file # h)
    BY <2>2 DEF CommitSector, DirtyAfterCommit, Clean, DirtyInv
  <2>6. flash[b].sec \cup { p } = 0 .. p
    BY <1>1, <1>2
  <2>7. CommitsMore(h)
    BY SMTT(30), <1>1, <1>3, <2>1, <2>2, <2>3, <2>5, ProgramEffect DEF CommitsMore
  <2>8. /\ flash'[b].key = flash[b].key /\ flash'[b].type = "file" /\ flash'[b].owner = flash[b].owner
        /\ flash'[b].sec = flash[b].sec \cup { p } /\ flash'[b].next = None
        /\ \A c \in Block \ { b } : flash'[c] = flash[c]
    <3> HIDE DEF CareInv, b, p
    <3> QED BY <1>1, <2>3, ProgramEffect
  <2> QED BY <1>1, <1>5, <2>1, <2>4, <2>6, <2>7, <2>8
<1>4. CASE b = dirty.block /\ dirty.file = h
  <2>1. /\ flash[b] = ErasedBlock(TRUE) /\ p = 0 /\ w[h].hdr
        /\ flash[b].key /\ flash[b].type = "erased" /\ flash[b].sec = {}
    BY <1>1, <1>4 DEF FreshInv, Fresh, DirtyInv, ErasedBlock
  <2>2. flash' = Program(b, p, "file", w[h].id, None)
    BY <1>1, <1>2, <2>1 DEF CommitSector
  <2>3. panic' = "no"
    BY <2>1 DEF CommitSector, PanicOnHandleWrite, Programmed
  <2>4. dirty'.block = None
    BY <1>4 DEF CommitSector, DirtyAfterCommit, Clean
  <2>5. flash[b].sec \cup { p } = 0 .. p
    <3>1. 0 .. 0 = { 0 }
      OBVIOUS
    <3> QED BY <2>1, <3>1
  <2>6. CommitsFirst(h)
    BY <1>1, <1>4, <2>1, <2>2, <2>4, ProgramEffect DEF CommitsFirst
  <2>7. /\ flash'[b].key = flash[b].key /\ flash'[b].type = "file" /\ flash'[b].owner = w[h].id
        /\ flash'[b].sec = flash[b].sec \cup { p } /\ flash'[b].next = None
        /\ \A c \in Block \ { b } : flash'[c] = flash[c]
    <3> HIDE DEF CareInv, b, p
    <3> QED BY <1>1, <2>2, ProgramEffect
  <2> QED BY <1>1, <1>5, <2>1, <2>3, <2>5, <2>6, <2>7
<1> QED BY <1>2, <1>3, <1>4

LEMMA CommitKeeps ==
  ASSUME TypeInv, CareInv, NEW h \in Open, w[h].pos # LastPos, CommitSector(h),
         UNCHANGED << table, ichain, op >>, Open' \subseteq Open,
         \/ pc = "idle" /\ pc' = "idle"
         \/ pc = "flush" /\ pc' = "alloc" /\ dirty.block # None /\ h = dirty.file,
         dirty'.block # None => dirty.file \in Open'
  PROVE  CareInv'
<1> DEFINE b == w[h].blk  p == w[h].pos
<1> USE DEF CareInv
<1>1. /\ b \in Block /\ h \in Handle /\ Open \subseteq Handle /\ None \notin Block
      /\ Live \subseteq 1 .. Len(table) /\ \A i \in 1 .. Len(table) : table[i].first \in Block
      /\ \A g \in Open : w[g].blk \in Block /\ w[g].pos \in 0 .. LastPos
  BY Typed
<1>2. /\ CommitsMore(h) \/ CommitsFirst(h)
      /\ flash'[b].type = "file" /\ flash'[b].next = None /\ flash'[b].key
      /\ flash'[b].sec = 0 .. p /\ p \in 0 .. LastPos - 1
      /\ \A c \in Block \ { b } : flash'[c] = flash[c]
      /\ w'[h].id = w[h].id /\ w'[h].blk = b /\ w'[h].pos = p + 1 /\ w'[h].hdr = w[h].hdr
      /\ \A g \in Handle \ { h } : w'[g] = w[g]
      /\ panic' = "no" /\ available' = available /\ n' = n
  BY CommitEffect
<1>3. /\ Live' = Live /\ ~ Removing /\ ~ Removing' /\ pc # "init" /\ pc' # "init"
      /\ flash[b].next = None /\ \A c \in Block : flash'[c].next = flash[c].next
  <2>1. flash[b].next = None
    BY DEF WriterInv, WriterAtEnd
  <2> QED BY <1>1, <1>2, <2>1 DEF Live, Removing
<1>4. ASSUME NEW c \in Block, flash[c].type = "file"
      PROVE  flash'[c].type = "file" /\ flash'[c].owner = flash[c].owner
  BY <1>1, <1>2, <1>4 DEF CommitsMore, CommitsFirst, ErasedBlock
<1>5. ASSUME NEW c \in Block, flash[c].type # "file", c # b
      PROVE  flash'[c] = flash[c] /\ flash'[c].type # "file"
  BY <1>2, <1>5
<1>6. ASSUME NEW c \in Block, NEW i, InChain(c, i) PROVE InChain(c, i)'
  <2>1. CASE FileBlock(c, i)
    BY <2>1, <1>4 DEF FileBlock, InChain
  <2>2. CASE c = dirty.block /\ w[dirty.file].id = i
    <3>1. dirty.file \in Open /\ dirty.block # None
      BY <1>1, <2>2 DEF DirtyInv
    <3>2. CASE CommitsMore(h)
      BY <1>1, <1>2, <2>2, <3>1, <3>2 DEF CommitsMore, InChain
    <3>3. CASE CommitsFirst(h)
      BY <1>2, <2>2, <3>3 DEF CommitsFirst, InChain, FileBlock
    <3> QED BY <1>2, <3>2, <3>3
  <2> QED BY <1>6, <2>1, <2>2 DEF InChain
<1>7. w[h].id \in Live
  BY DEF WriterInv
<1>10. BlockInv'
  <2> SUFFICES ASSUME NEW c \in Block
               PROVE  /\ flash'[c].type = "erased" => flash'[c] = ErasedBlock(flash'[c].key)
                      /\ flash'[c].type # "erased" => flash'[c].key
                      /\ flash'[c].next # None => LastPos \in flash'[c].sec
                      /\ flash'[c].type = "file" =>
                           /\ 0 \in flash'[c].sec /\ HasOwner(c)'
                           /\ \A x \in flash'[c].sec : \A y \in 0 .. x - 1 : y \in flash'[c].sec
    BY DEF BlockInv
  <2>1. CASE c # b
    BY <1>1, <1>2, <1>3, <2>1 DEF BlockInv, HasOwner
  <2>2. CASE c = b
    <3>1. HasOwner(b)'
      BY <1>1, <1>2, <1>3, <1>7 DEF BlockInv, HasOwner, CommitsMore, CommitsFirst, FileBlock
    <3>2. 0 \in 0 .. p /\ \A x \in 0 .. p : \A y \in 0 .. x - 1 : y \in 0 .. p
      BY <1>2
    <3> QED BY <1>2, <2>2, <3>1, <3>2
  <2> QED BY <2>1, <2>2
<1>11. FreshInv'
  <2>1. ~ InHandOrLinked' /\ pc' # "prime"
    BY DEF InHandOrLinked
  <2>2. ASSUME NEW c \in Block, Fresh(c), c # b PROVE Fresh(c)'
    BY <1>2, <2>2 DEF Fresh, InAvailable
  <2>3. ASSUME NEW i \in 1 .. Len(available')
        PROVE  flash'[available'[i]] = ErasedBlock(TRUE)
    <3>1. available[i] \in Block /\ flash[available[i]] = ErasedBlock(TRUE)
      BY <1>2, <2>3, ListedTyped DEF FreshInv, ListedBlocksAreErased
    <3>2. available[i] # b
      <4>1. CASE CommitsMore(h)
        BY <3>1, <4>1 DEF CommitsMore, FileBlock, ErasedBlock
      <4>2. CASE CommitsFirst(h)
        <5>1. b = dirty.block /\ dirty.block # None
          BY <1>1, <4>2 DEF CommitsFirst
        <5>2. ~ InAvailable(b)
          BY <5>1 DEF FreshInv, Fresh
        <5>3. i \in 1 .. Len(available)
          BY <1>2, <2>3
        <5> QED BY <5>2, <5>3 DEF InAvailable
      <4> QED BY <1>2, <4>1, <4>2
    <3> QED BY <1>2, <3>1, <3>2
  <2>4. dirty'.block # None => Fresh(dirty.block)'
    <3>1. SUFFICES ASSUME dirty'.block # None PROVE Fresh(dirty.block)'
      OBVIOUS
    <3>2. CommitsMore(h)
      BY <1>2, <3>1 DEF CommitsFirst
    <3>3. dirty.block \in Block /\ dirty'.block = dirty.block /\ Fresh(dirty.block) /\ dirty.block # b
      BY <1>1, <3>1, <3>2 DEF CommitsMore, FreshInv, DirtyInv
    <3> QED BY <2>2, <3>3
  <2> QED BY <2>1, <2>3, <2>4 DEF FreshInv, ListedBlocksAreErased
<1>12. DirtyInv'
  <2>1. pc' = "alloc" => dirty'.block = None
    BY <1>2 DEF CommitsMore, CommitsFirst
  <2>2. ASSUME dirty'.block # None
        PROVE  /\ dirty'.file \in Open' /\ w'[dirty'.file].blk = dirty'.block
               /\ w'[dirty'.file].pos = 0 /\ w'[dirty'.file].hdr
    <3>1. dirty' = dirty /\ dirty.file # h /\ dirty.block # None
      BY <1>2, <2>2 DEF CommitsMore, CommitsFirst
    <3>2. dirty.file \in Open /\ dirty.file \in Open'
      BY <2>2, <3>1 DEF DirtyInv
    <3> QED BY <1>1, <1>2, <3>1, <3>2 DEF DirtyInv
  <2> QED BY <2>1, <2>2 DEF DirtyInv
<1>13. LinkInv'
  <2>1. ASSUME NEW i \in Live PROVE InChain(table[i].first, i)'
    BY <1>1, <1>6, <2>1 DEF LinkInv
  <2>2. ASSUME NEW c \in Block, flash'[c].next # None
        PROVE  /\ flash'[c].type = "file" => InChain(flash[c].next, flash[c].owner)'
               /\ flash'[c].type = "inode" => flash'[flash'[c].next].type = "inode"
    <3>1. c # b /\ flash'[c] = flash[c] /\ flash[c].next # None /\ flash[c].next \in Block
      BY <1>1, <1>2, <1>3, <2>2, Typed DEF Blocks
    <3>2. flash[c].type = "inode" => flash'[flash[c].next].type = "inode"
      BY <1>2, <1>3, <3>1 DEF LinkInv, CommitsMore, CommitsFirst, FileBlock, ErasedBlock
    <3>3. flash[c].type = "file" => InChain(flash[c].next, flash[c].owner)'
      BY <1>6, <3>1 DEF LinkInv, InChain, FileBlock
    <3> QED BY <3>1, <3>2, <3>3
  <2> QED BY <1>3, <2>1, <2>2 DEF LinkInv, InChain, FileBlock
<1>14. OneLinkInv'
  BY <1>3 DEF OneLinkInv
<1>15. InodeInv'
  <2>1. b # LastInode /\ b # Inode0
    BY <1>2, <1>3 DEF InodeInv, CommitsMore, CommitsFirst, FileBlock, ErasedBlock
  <2>2. LastInode' = LastInode /\ LastInode \in Block /\ Inode0 \in Block
    <3>1. ichain \in Seq(Block) /\ Len(ichain) \in Nat /\ Len(ichain) # 0
      BY FlogAssumption DEF TypeInv, StateInv, FlogTypeOK, RoomInv, InodeRoom
    <3> QED BY <3>1, Typed, ElementOfSeq DEF LastInode
  <2> QED BY <1>2, <1>3, <2>1, <2>2 DEF InodeInv
<1>16. GrowthInv'
  BY <1>2 DEF GrowthInv, Settled, Ahead, Entering, Claiming, NeedsInodeBlock
<1>17. WriterInv'
  <2>1. ASSUME NEW g \in Open'
        PROVE  /\ flash'[w'[g].blk].sec = 0 .. w'[g].pos - 1 /\ flash'[w'[g].blk].next = None
               /\ w'[g].id \in Live
               /\ FileBlock(w[g].blk, w[g].id)' \/ (w'[g].blk = dirty'.block /\ dirty'.file = g)
    <3>1. CASE g = h
      <4>1. p + 1 - 1 = p
        BY <1>2
      <4>2. FileBlock(b, w[h].id)'
        BY <1>2 DEF FileBlock, CommitsMore, CommitsFirst
      <4> QED BY <1>2, <1>3, <1>7, <3>1, <4>1, <4>2 DEF FileBlock
    <3>2. CASE g # h
      <4>1. g \in Open /\ g \in Handle /\ w'[g] = w[g] /\ w[g].id # w[h].id
        BY <1>1, <1>2, <3>2 DEF WriterInv
      <4>2. w[g].blk # b
        BY <1>2, <3>2, <4>1 DEF WriterInv, FileBlock, CommitsMore, CommitsFirst, ErasedBlock, FreshInv, Fresh
      <4>3. flash'[w[g].blk] = flash[w[g].blk]
        BY <1>1, <1>2, <4>1, <4>2
      <4>4. CASE FileBlock(w[g].blk, w[g].id)
        BY <4>1, <4>3, <4>4 DEF WriterInv, WriterAtEnd, FileBlock
      <4>5. CASE w[g].blk = dirty.block /\ dirty.file = g
        <5>1. dirty' = dirty
          BY <1>1, <1>2, <3>2, <4>1, <4>5 DEF CommitsMore, CommitsFirst
        <5> QED BY <4>1, <4>3, <4>5, <5>1 DEF WriterInv, WriterAtEnd
      <4> QED BY <4>1, <4>4, <4>5 DEF WriterInv
    <3> QED BY <3>1, <3>2
  <2>2. \A f, g \in Open' : w'[f].id = w'[g].id => f = g
    BY <1>1, <1>2 DEF WriterInv
  <2>3. Claiming' /\ op'.for = "tail" => w'[op'.h].pos = LastPos
    <3>1. SUFFICES ASSUME Claiming', op.for = "tail" PROVE w'[op.h].pos = LastPos
      OBVIOUS
    <3>2. Claiming /\ op.h \in Open /\ w[op.h].pos = LastPos
      BY <3>1 DEF Claiming, WriterInv, TypeInv, StateInv, CallInv
    <3>3. op.h # h
      BY <3>2
    <3> QED BY <1>1, <1>2, <3>2, <3>3
  <2> QED BY <1>3, <2>1, <2>2, <2>3 DEF WriterInv, WriterAtEnd
<1>18. WalkInv'
  BY DEF WalkInv, Removing
<1>19. LinkedInv'
  <2>1. ASSUME NEW c \in Block, Linked(c) PROVE Linked(c)'
    <3>1. CASE \E i \in Live : table[i].first = c
      BY <1>3, <3>1 DEF Linked
    <3>2. ASSUME NEW d \in Block, flash[d].type = "file", flash[d].next = c PROVE Linked(c)'
      BY <1>3, <1>4, <3>2 DEF Linked
    <3> QED BY <1>3, <2>1, <3>1, <3>2 DEF Linked
  <2>2. ASSUME NEW c \in Block, flash'[c].type = "file" \/ c = dirty'.block PROVE Linked(c)
    <3>1. c = b => c = dirty.block \/ flash[c].type = "file"
      BY <1>2 DEF CommitsMore, CommitsFirst, FileBlock
    <3>2. c = dirty'.block => c = dirty.block
      BY <1>1, <1>2 DEF CommitsMore, CommitsFirst
    <3> QED BY <1>5, <2>2, <3>1, <3>2 DEF LinkedInv
  <2> QED BY <2>1, <2>2 DEF LinkedInv
<1> QED BY <1>2, <1>10, <1>11, <1>12, <1>13, <1>14, <1>15, <1>16, <1>17, <1>18, <1>19

-----------------------------------------------------------------------------
(* Steps that leave flash and the table alone, but for keys.               *)

LEMMA StillKeeps ==
  ASSUME TypeInv, CareInv, UNCHANGED << table, ichain >>, NEW KS \in SUBSET Block,
         \A c \in Block \ KS : flash'[c] = flash[c],
         \A c \in KS : flash[c].type = "erased" /\ flash'[c] = ErasedBlock(TRUE),
         ~ Removing, ~ Removing', pc # "init", pc' # "init",
         dirty'.block = dirty.block,
         dirty.block # None => w'[dirty'.file].id = w[dirty.file].id
  PROVE  BlockInv' /\ LinkInv' /\ OneLinkInv' /\ InodeInv' /\ LinkedInv'
<1> USE DEF CareInv
<1>1. Live' = Live /\ None \notin Block /\ Live \subseteq 1 .. Len(table)
      /\ (\A i \in 1 .. Len(table) : table[i].first \in Block)
      /\ flash \in [ Block -> Blocks ]
  BY Typed DEF Live
<1>0. \A c \in Block : /\ flash'[c].type = flash[c].type /\ flash'[c].owner = flash[c].owner
                       /\ flash'[c].sec = flash[c].sec /\ flash'[c].next = flash[c].next
                       /\ c \in KS => flash'[c] = ErasedBlock(flash'[c].key) /\ flash'[c].key
  <2> SUFFICES ASSUME NEW c \in Block
               PROVE  /\ flash'[c].type = flash[c].type /\ flash'[c].owner = flash[c].owner
                      /\ flash'[c].sec = flash[c].sec /\ flash'[c].next = flash[c].next
                      /\ c \in KS => flash'[c] = ErasedBlock(flash'[c].key) /\ flash'[c].key
    OBVIOUS
  <2>1. CASE c \in KS
    <3>1. flash[c] = ErasedBlock(flash[c].key) /\ flash'[c] = ErasedBlock(TRUE)
      BY <2>1 DEF BlockInv
    <3> QED BY <3>1 DEF ErasedBlock
  <2> QED BY <2>1
<1>2. ASSUME NEW c \in Block, NEW i, InChain(c, i) PROVE InChain(c, i)'
  BY <1>0, <1>1, <1>2 DEF InChain, FileBlock
<1>3. BlockInv'
  <2> SUFFICES ASSUME NEW c \in Block
               PROVE  /\ flash'[c].type = "erased" => flash'[c] = ErasedBlock(flash'[c].key)
                      /\ flash'[c].type # "erased" => flash'[c].key
                      /\ flash'[c].next # None => LastPos \in flash'[c].sec
                      /\ flash'[c].type = "file" =>
                           /\ 0 \in flash'[c].sec /\ HasOwner(c)'
                           /\ \A x \in flash'[c].sec : \A y \in 0 .. x - 1 : y \in flash'[c].sec
    BY DEF BlockInv
  <2>1. HasOwner(c) => HasOwner(c)'
    BY <1>0, <1>1 DEF HasOwner
  <2> QED BY <1>0, <2>1 DEF BlockInv
<1>4. LinkInv'
  <2>1. \A i \in Live' : InChain(table[i].first, i)'
    BY <1>1, <1>2 DEF LinkInv
  <2>2. ASSUME NEW c \in Block, flash'[c].next # None
        PROVE  /\ flash'[c].type = "file" => InChain(flash[c].next, flash[c].owner)'
               /\ flash'[c].type = "inode" => flash'[flash'[c].next].type = "inode"
    <3>1. flash[c].next \in Block
      BY <1>0, <1>1, <2>2 DEF Blocks
    <3>2. flash'[c].type = "file" => InChain(flash[c].next, flash[c].owner)
      BY <1>0, <2>2 DEF LinkInv
    <3>3. /\ flash'[c].owner = flash[c].owner /\ flash'[c].next = flash[c].next
          /\ flash'[flash[c].next].type = flash[flash[c].next].type
          /\ flash[c].type = "inode" => flash[flash[c].next].type = "inode"
      BY <1>0, <2>2, <3>1 DEF LinkInv
    <3>4. flash'[c].type = "file" => InChain(flash[c].next, flash[c].owner)'
      <4>1. ASSUME InChain(flash[c].next, flash[c].owner)
            PROVE  InChain(flash[c].next, flash[c].owner)'
        BY <1>0, <1>1, <3>1, <3>3, <4>1 DEF InChain, FileBlock
      <4> QED BY <3>2, <4>1
    <3> QED BY <1>0, <3>3, <3>4
  <2> QED BY <2>1, <2>2 DEF LinkInv, InChain, FileBlock
<1>5. OneLinkInv'
  BY <1>0, <1>1 DEF OneLinkInv
<1>6. InodeInv'
  <2>1. LastInode' = LastInode /\ LastInode \in Block /\ Inode0 \in Block
    <3>1. ichain \in Seq(Block) /\ Len(ichain) \in Nat /\ Len(ichain) # 0
      BY FlogAssumption DEF TypeInv, StateInv, FlogTypeOK, RoomInv, InodeRoom
    <3> QED BY <3>1, Typed, ElementOfSeq DEF LastInode
  <2> QED BY <1>0, <2>1 DEF InodeInv
<1>7. LinkedInv'
  BY <1>0, <1>1 DEF LinkedInv, Linked
<1> QED BY <1>3, <1>4, <1>5, <1>6, <1>7

LEMMA QuietKeeps ==
  ASSUME TypeInv, CareInv, UNCHANGED << flash, table, ichain, dirty, available, panic >>,
         ~ Removing, ~ Removing', pc # "init", pc' # "init",
         \A h \in Open : /\ w'[h].id = w[h].id /\ w'[h].blk = w[h].blk
                         /\ w'[h].pos = w[h].pos /\ w'[h].hdr = w[h].hdr,
         Open' \subseteq Open, dirty.block # None => dirty.file \in Open',
         InHandOrLinked' => InHandOrLinked /\ pc' = "link" /\ op' = op,
         pc' \in { "down", "alloc", "prime", "link" } => dirty.block = None,
         Claiming' /\ op'.for = "tail" => op'.h \in Open /\ w[op'.h].pos = LastPos,
         GrowthInv', WalkInv', pc' = "prime" => op'.for = "mount"
  PROVE  CareInv'
<1> USE DEF CareInv
<1>1. Live' = Live
  BY DEF Live
<1>2. BlockInv' /\ LinkInv' /\ OneLinkInv' /\ InodeInv' /\ LinkedInv'
  <2>1. dirty.block # None => w'[dirty'.file].id = w[dirty.file].id
    BY DEF DirtyInv
  <2>2. PICK KS \in SUBSET Block : KS = {}
    OBVIOUS
  <2>3. /\ \A c \in Block \ KS : flash'[c] = flash[c]
        /\ \A c \in KS : flash[c].type = "erased" /\ flash'[c] = ErasedBlock(TRUE)
    BY <2>2
  <2> QED BY <2>1, <2>3, StillKeeps
<1>3. FreshInv'
  BY DEF FreshInv, ListedBlocksAreErased, Fresh, InAvailable
<1>4. DirtyInv'
  BY DEF DirtyInv
<1>5. WriterInv'
  BY <1>1 DEF WriterInv, WriterAtEnd, FileBlock
<1> QED BY <1>2, <1>3, <1>4, <1>5

LEMMA OpenFileKeeps ==
  ASSUME KeepsRules, TypeInv, IdsInOrder, CareInv, NEW nm \in Name,
         (\E h \in Handle : OpenExisting(h, nm)) \/ RmStart(nm) \/ OpenRead(nm)
  PROVE  CareInv'
<1> USE DEF CareInv
<1>1. PICK i \in LiveEntries(nm) :
        /\ op'.blk = table[i].first /\ op'.idx = i
        /\ pc' \in { "open.walk", "rm.find" } => ~ BeingWritten(i)
        /\ pc' = "open.walk" => op'.h \notin Open
        /\ pc = "idle" /\ pc' \in { "open.walk", "rm.find", "read.walk" }
  BY RulesKept DEF OpenExisting, RmStart, OpenRead
<1>2. UNCHANGED << pre, flash, table, ichain, dirty, w, wopen, panic >>
  BY DEF OpenExisting, RmStart, OpenRead, durable
<1>3. i \in Live /\ table[i].first \in Block /\ table[i].id = i /\ None \notin Block
  BY Typed DEF LiveEntries, Live, IdsInOrder
<1>4. WalkInv'
  <2>1. CASE pc' = "read.walk"
    BY <2>1 DEF WalkInv, Removing
  <2>2. CASE pc' \in { "open.walk", "rm.find" }
    <3>1. \A h \in Open : w[h].id # i
      BY <1>1, <1>3, <2>2 DEF BeingWritten
    <3>2. FileBlock(table[i].first, i)
      BY <1>3, <3>1 DEF LinkInv, InChain, DirtyInv
    <3> QED BY <1>1, <1>2, <1>3, <2>2, <3>1, <3>2
            DEF WalkInv, Removing, Open, FileBlock, Live
  <2> QED BY <1>1, <2>1, <2>2
<1>5. GrowthInv'
  BY <1>1, <1>2 DEF GrowthInv, Settled, Ahead, Entering, Claiming, NeedsInodeBlock, pre
<1> QED BY <1>1, <1>2, <1>4, <1>5, QuietKeeps
        DEF pre, Removing, InHandOrLinked, Claiming, Open, DirtyInv

LEMMA OpenNewKeeps ==
  ASSUME TypeInv, CareInv, NEW h \in Handle, NEW nm \in Name, OpenNew(h, nm)
  PROVE  CareInv'
<1> USE DEF CareInv
<1>1. /\ pc = "idle" /\ pc' = "flush"
      /\ op'.for = IF NeedsInodeBlock THEN "inode" ELSE "file"
      /\ UNCHANGED << pre, flash, table, ichain, dirty, w, wopen, panic >>
  BY DEF OpenNew, durable, NoCall
<1>2. GrowthInv'
  BY <1>1 DEF GrowthInv, Settled, Ahead, Entering, Claiming, NeedsInodeBlock, pre
<1>3. WalkInv'
  BY <1>1 DEF WalkInv, Removing
<1> QED BY <1>1, <1>2, <1>3, QuietKeeps
        DEF pre, Removing, InHandOrLinked, Claiming, Open, DirtyInv

LEMMA WriteKeeps ==
  ASSUME TypeInv, CareInv, NEW h \in Open, Buffer(h) \/ WriteSector(h) \/ WriteTail(h)
  PROVE  CareInv'
<1> USE DEF CareInv
<1>0. h \in Handle /\ Open \subseteq Handle /\ w \in [ Handle -> HandleStates ]
  BY Typed
<1>1. CASE Buffer(h)
  <2>1. \A g \in Open : /\ w'[g].id = w[g].id /\ w'[g].blk = w[g].blk
                        /\ w'[g].pos = w[g].pos /\ w'[g].hdr = w[g].hdr
    BY <1>0, <1>1 DEF Buffer, HandleStates
  <2>2. /\ pc = "idle" /\ pc' = "idle"
        /\ UNCHANGED << pre, flash, table, ichain, dirty, wopen, op, panic >>
    BY <1>1 DEF Buffer, durable
  <2>3. GrowthInv' /\ WalkInv'
    BY <2>2 DEF GrowthInv, Settled, Ahead, Entering, Claiming, NeedsInodeBlock, pre,
                WalkInv, Removing
  <2> QED BY <2>1, <2>2, <2>3, QuietKeeps
          DEF pre, Removing, InHandOrLinked, Claiming, Open, DirtyInv
<1>2. CASE WriteSector(h)
  <2>1. /\ pc = "idle" /\ pc' = "idle" /\ CommitSector(h) /\ w[h].pos # LastPos
        /\ UNCHANGED << table, ichain, wopen, op >>
    BY <1>2, Typed DEF WriteSector
  <2>2. dirty'.block # None => dirty.file \in Open'
    BY <2>1 DEF CommitSector, DirtyAfterCommit, Clean, DirtyInv, Open
  <2> QED BY <2>1, <2>2, CommitKeeps DEF Open
<1>3. CASE WriteTail(h)
  <2>1. /\ pc = "idle" /\ pc' = "flush" /\ op'.for = "tail" /\ op'.h = h /\ w[h].pos = LastPos
        /\ UNCHANGED << pre, flash, table, ichain, dirty, w, wopen, panic >>
    BY <1>3 DEF WriteTail, durable, NoCall
  <2>2. GrowthInv' /\ WalkInv'
    BY <2>1 DEF GrowthInv, Settled, Ahead, Entering, Claiming, NeedsInodeBlock, pre,
                WalkInv, Removing
  <2> QED BY <2>1, <2>2, QuietKeeps
          DEF pre, Removing, InHandOrLinked, Claiming, Open, DirtyInv
<1> QED BY <1>1, <1>2, <1>3

(* Removing the element at place i of a sequence keeps the others.         *)
LEMMA RemoveAtOthers ==
  ASSUME NEW S, NEW q \in Seq(S), NEW i \in 1 .. Len(q), NEW k \in 1 .. Len(q), k # i
  PROVE  LET r == SubSeq(q, 1, i - 1) \o SubSeq(q, i + 1, Len(q)) IN
         \E j \in 1 .. Len(r) : r[j] = q[k]
<1> DEFINE s == SubSeq(q, 1, i - 1)
           t == SubSeq(q, i + 1, Len(q))
           r == s \o t
<1>0. Len(q) \in Nat /\ i \in 1 .. Len(q)
  OBVIOUS
<1>1. /\ s \in Seq(S) /\ Len(s) = i - 1
      /\ \A j \in 1 .. i - 1 : s[j] = q[j]
  OBVIOUS
<1>2. /\ t \in Seq(S) /\ Len(t) = Len(q) - i
      /\ \A j \in 1 .. Len(q) - i : t[j] = q[i + j]
  OBVIOUS
<1> HIDE DEF s, t
<1>3. /\ r \in Seq(S) /\ Len(r) = Len(s) + Len(t)
      /\ \A j \in 1 .. Len(s) + Len(t) :
           r[j] = IF j <= Len(s) THEN s[j] ELSE t[j - Len(s)]
  BY <1>1, <1>2, ConcatProperties
<1> HIDE DEF r
<1>4. CASE k < i
  <2>1. k \in 1 .. Len(r) /\ r[k] = q[k]
    BY SMTT(30), <1>0, <1>1, <1>2, <1>3, <1>4
  <2> QED BY <2>1 DEF r, s, t
<1>5. CASE k > i
  <2>1. k - i \in 1 .. Len(q) - i /\ i + (k - i) = k
    BY <1>0, <1>5
  <2>2. t[k - i] = q[k]
    BY <1>2, <2>1
  <2>3. k - 1 \in 1 .. Len(s) + Len(t) /\ ~ (k - 1 <= Len(s)) /\ (k - 1) - Len(s) = k - i
    BY <1>0, <1>1, <1>2, <1>5
  <2>4. k - 1 \in 1 .. Len(r) /\ r[k - 1] = q[k]
    BY <1>3, <2>2, <2>3
  <2> QED BY <2>4 DEF r, s, t
<1>6. k < i \/ k > i
  BY <1>0
<1> QED BY <1>4, <1>5, <1>6

(* Closing a handle takes no other one out of the list.                    *)
LEMMA OpenRemoveOthers ==
  ASSUME wopen \in Seq(Handle), NEW i \in 1 .. Len(wopen),
         wopen' = SubSeq(wopen, 1, i - 1) \o SubSeq(wopen, i + 1, Len(wopen)),
         NEW g \in Open, g # wopen[i]
  PROVE  g \in Open'
<1>1. PICK k \in 1 .. Len(wopen) : wopen[k] = g
  BY DEF Open
<1>2. PICK j \in 1 .. Len(wopen') : wopen'[j] = wopen[k]
  BY <1>1, RemoveAtOthers
<1> QED BY <1>1, <1>2 DEF Open

LEMMA CloseKeeps ==
  ASSUME KeepsRules, TypeInv, CareInv, NEW i \in 1 .. Len(wopen), Close(i)
  PROVE  CareInv'
<1> USE DEF CareInv
<1> DEFINE h == wopen[i]
<1>1. /\ pc = "idle" /\ pc' = "idle" /\ h \in Open
      /\ UNCHANGED << table, ichain, op >>
      /\ dirty.file # h \/ Flushes(i)
  BY RulesKept DEF Close, Open
<1>2. wopen \in Seq(Handle) /\ Open' \subseteq Open
  BY OpenRemove DEF Close, TypeInv, StateInv, FlogTypeOK
<1>3. \A g \in Open : g # h => g \in Open'
  BY <1>2, OpenRemoveOthers DEF Close
<1>4. CASE ~ Flushes(i) /\ UNCHANGED << pre, flash, w, dirty, panic >>
  <2>1. GrowthInv'
    BY <1>1, <1>4 DEF GrowthInv, Settled, Ahead, Entering, Claiming, NeedsInodeBlock, pre
  <2>2. WalkInv'
    BY <1>1 DEF WalkInv, Removing
  <2>3. dirty.block # None => dirty.file \in Open'
    BY <1>1, <1>3, <1>4 DEF DirtyInv
  <2> QED BY <1>1, <1>2, <1>4, <2>1, <2>2, <2>3, QuietKeeps
          DEF pre, Removing, InHandOrLinked, Claiming
<1>5. CASE Flushes(i) /\ CommitSector(h)
  <2>1. w[h].pos # LastPos
    BY <1>5 DEF Flushes
  <2>2. dirty'.block # None => dirty.file \in Open'
    BY <1>1, <1>3, <1>5 DEF CommitSector, DirtyAfterCommit, Clean, DirtyInv
  <2> QED BY <1>1, <1>2, <1>5, <2>1, <2>2, CommitKeeps
<1> QED BY <1>4, <1>5 DEF Close

LEMMA FlushKeeps ==
  ASSUME TypeInv, CareInv, FlushDirty
  PROVE  CareInv'
<1> USE DEF CareInv
<1>1. pc = "flush" /\ pc' = "alloc" /\ UNCHANGED << table, ichain, wopen, op >>
  BY DEF FlushDirty
<1>2. CASE dirty.block = None
  <2>1. UNCHANGED << pre, flash, w, dirty, panic >>
    BY <1>2 DEF FlushDirty
  <2>2. GrowthInv' /\ WalkInv'
    BY <1>1, <2>1 DEF GrowthInv, Settled, Ahead, Entering, Claiming, NeedsInodeBlock, pre,
                WalkInv, Removing
  <2>3. Claiming /\ (op.for = "tail" => op.h \in Open)
    BY <1>1 DEF Claiming, TypeInv, StateInv, CallInv
  <2> QED BY <1>1, <1>2, <2>1, <2>2, <2>3, QuietKeeps
          DEF pre, Removing, InHandOrLinked, Claiming, Open, WriterInv
<1>3. CASE dirty.block # None
  <2>1. /\ dirty.file \in Open /\ w[dirty.file].pos # LastPos
        /\ CommitSector(dirty.file)
    BY <1>3, FlogAssumption DEF FlushDirty, DirtyInv
  <2>2. dirty'.block # None => dirty.file \in Open'
    BY <1>1, <2>1 DEF Open
  <2> QED BY <1>1, <1>3, <2>1, <2>2, CommitKeeps DEF Open
<1> QED BY <1>2, <1>3

-----------------------------------------------------------------------------
(* Allocation.                                                             *)

LEMMA AllocateKeeps ==
  ASSUME TypeInv, CareInv, Allocate \/ AllocateFails
  PROVE  CareInv'
<1> USE DEF CareInv
<1>0. /\ pc = "alloc" /\ Claiming /\ dirty.block = None
      /\ op.for \in { "inode", "file", "tail" }
      /\ op.for = "tail" => op.h \in Open /\ w[op.h].pos = LastPos
      /\ op \in CallStates /\ n \in Nat /\ None \notin Block
  BY Typed DEF Allocate, AllocateFails, Claiming, DirtyInv, TypeInv, StateInv, CallInv,
         FlogTypeOK, WriterInv, PreInv, PreTypeOK
<1>1. CASE AllocateFails
  <2>1. /\ pc' = "idle" /\ n = 0 /\ op' = NoCall
        /\ UNCHANGED << pre, flash, table, ichain, dirty, w, wopen, panic >>
    BY <1>1 DEF AllocateFails, durable, IsEmpty
  <2>2. GrowthInv' /\ WalkInv'
    BY <1>0, <2>1 DEF GrowthInv, Settled, Ahead, Entering, Claiming, NeedsInodeBlock, pre,
                WalkInv, Removing
  <2> QED BY <1>0, <2>1, <2>2, QuietKeeps
          DEF pre, Removing, InHandOrLinked, Claiming, Open
<1>2. CASE Allocate
  <2>0. PICK b \in Block : b = Head(available) /\ b = available[1]
    BY <1>2, ElementOfSeq
       DEF TypeInv, PreInv, PreTypeOK, SlotsConserved, Allocate, IsEmpty
  <2>1. /\ pc' \in { "prime", "link" } /\ op'.blk = b /\ op'.for = op.for /\ op'.h = op.h
        /\ pending' = pending \cup { b } /\ available' = Tail(available)
        /\ UNCHANGED << flash, table, ichain, dirty, w, wopen, panic >>
    BY <1>0, <1>2, <2>0 DEF Allocate, Pop, durable, CallStates
  <2>2. /\ available \in Seq(Block) /\ Len(available) \in Nat \ {0} /\ n # 0
    BY <1>2 DEF TypeInv, PreInv, PreTypeOK, SlotsConserved, Allocate, IsEmpty
  <2>3. /\ Len(available') = Len(available) - 1
        /\ \A i \in 1 .. Len(available) - 1 : available'[i] = available[i + 1]
    BY <2>1, <2>2
  <2>4. Fresh(b)'
    <3>1. flash[b] = ErasedBlock(TRUE)
      <4>1. 1 \in 1 .. Len(available)
        BY <2>2
      <4> QED BY <2>0, <4>1 DEF FreshInv, ListedBlocksAreErased
    <3>2. ASSUME NEW i \in 1 .. Len(available') PROVE available'[i] # b
      <4>1. i + 1 \in 1 .. Len(available) /\ 1 \in 1 .. Len(available) /\ i + 1 # 1
        BY <2>2, <2>3
      <4> QED BY <2>0, <2>3, <4>1 DEF TypeInv, PreInv, ListedOnce
    <3> QED BY <2>1, <3>1, <3>2 DEF Fresh, InAvailable
  <2>5. ListedBlocksAreErased'
    <3> SUFFICES ASSUME NEW i \in 1 .. Len(available')
                 PROVE  flash[available'[i]] = ErasedBlock(TRUE)
      BY <2>1 DEF ListedBlocksAreErased
    <3>1. i + 1 \in 1 .. Len(available) /\ available'[i] = available[i + 1]
      BY <2>2, <2>3
    <3> QED BY <3>1 DEF FreshInv, ListedBlocksAreErased
  <2>6. BlockInv' /\ LinkInv' /\ OneLinkInv' /\ InodeInv' /\ LinkedInv'
    <3>1. PICK KS \in SUBSET Block : KS = {}
      OBVIOUS
    <3>2. /\ \A c \in Block \ KS : flash'[c] = flash[c]
          /\ \A c \in KS : flash[c].type = "erased" /\ flash'[c] = ErasedBlock(TRUE)
      BY <2>1, <3>1
    <3>3. ~ Removing /\ ~ Removing' /\ pc # "init" /\ pc' # "init"
      BY <1>0, <2>1 DEF Removing
    <3> QED BY <1>0, <2>1, <3>2, <3>3, StillKeeps
  <2>7. FreshInv'
    <3>1. op'.blk \in pending' /\ Fresh(op.blk)'
      BY <2>1, <2>4 DEF Fresh
    <3> QED BY <1>0, <2>1, <2>5, <3>1 DEF FreshInv
  <2>8. DirtyInv' /\ WalkInv'
    BY <1>0, <2>1 DEF DirtyInv, WalkInv, Removing
  <2>9. GrowthInv'
    BY <1>0, <2>1, <2>2 DEF GrowthInv, Settled, Ahead, Entering, Claiming, NeedsInodeBlock
  <2>10. WriterInv'
    <3>1. Open' = Open /\ Live' = Live
      BY <2>1 DEF Open, Live
    <3> QED BY <1>0, <2>1, <3>1 DEF WriterInv, WriterAtEnd, FileBlock
  <2> QED BY <2>1, <2>6, <2>7, <2>8, <2>9, <2>10
<1> QED BY <1>1, <1>2

LEMMA PrimeKeeps ==
  ASSUME TypeInv, CareInv, NEW b \in Block, Prime(b)
  PROVE  CareInv'
<1> USE DEF CareInv
<1>1. /\ pc = "prime" /\ pc' = "prime" /\ ~ Contains(b) /\ dirty.block = None
      /\ UNCHANGED << table, ichain, dirty, w, wopen, op, panic, pending >>
  BY DEF Prime, Takeable, Push, DirtyInv
<1>2. /\ flash \in [ Block -> Blocks ] /\ flash[b].type = "erased"
      /\ flash[b] = ErasedBlock(flash[b].key)
  BY Typed DEF BlockInv, Prime, Takeable
<1>3. flash'[b] = ErasedBlock(TRUE) /\ \A c \in Block \ { b } : flash'[c] = flash[c]
  <2> DEFINE e == ErasedBlock(TRUE)
  <2>1. flash' = [ flash EXCEPT ![b] = IF flash[b].key THEN flash[b] ELSE e ]
    BY DEF Prime
  <2>2. flash[b].key \in BOOLEAN
    BY <1>2 DEF Blocks
  <2>3. CASE flash[b].key
    BY <1>2, <2>1, <2>2, <2>3
  <2>4. CASE ~ flash[b].key
    <3> HIDE DEF e
    <3>1. flash' = [ flash EXCEPT ![b] = e ]
      BY <2>1, <2>4
    <3>2. flash'[b] = e /\ \A c \in Block \ { b } : flash'[c] = flash[c]
      BY <1>2, <3>1
    <3> QED BY <3>2 DEF e
  <2> QED BY <2>3, <2>4
<1>4. /\ Len(available) \in Nat /\ Len(available') = Len(available) + 1 /\ available \in Seq(Block)
      /\ \A i \in 1 .. Len(available) : available'[i] = available[i] /\ available[i] \in Block
      /\ available'[Len(available) + 1] = b
  <2>1. available' = Append(available, b) /\ available \in Seq(Block)
    BY DEF Prime, Push, TypeInv, PreInv, PreTypeOK
  <2> QED BY <2>1, ListedTyped
<1>5. ListedBlocksAreErased'
  <2> SUFFICES ASSUME NEW i \in 1 .. Len(available')
               PROVE  flash'[available'[i]] = ErasedBlock(TRUE)
    BY DEF ListedBlocksAreErased
  <2>1. CASE i \in 1 .. Len(available)
    <3>1. available'[i] = available[i] /\ available[i] \in Block
          /\ flash[available[i]] = ErasedBlock(TRUE)
      BY <1>4, <2>1 DEF FreshInv, ListedBlocksAreErased
    <3>2. available[i] # b
      BY <1>1, <2>1 DEF Contains, InAvailable
    <3> QED BY <1>3, <3>1, <3>2
  <2>2. CASE i = Len(available) + 1
    BY <1>3, <1>4, <2>2
  <2>3. i \in 1 .. Len(available) + 1 /\ Len(available) \in Nat
    BY <1>4
  <2>4. i \in 1 .. Len(available) \/ i = Len(available) + 1
    BY <2>3
  <2> QED BY <2>1, <2>2, <2>4
<1>6. op.for # "mount" => Fresh(op.blk)'
  <2> SUFFICES ASSUME op.for # "mount" PROVE Fresh(op.blk)'
    OBVIOUS
  <2>1. op.blk \in pending /\ op.blk \in Block /\ Fresh(op.blk)
    BY <1>1 DEF FreshInv, InHandOrLinked, TypeInv, StateInv, CallInv
  <2>2. op.blk # b
    BY <1>1, <2>1 DEF Contains
  <2>3. flash'[op.blk] = flash[op.blk]
    BY <1>3, <2>1, <2>2
  <2> QED BY <1>1, <1>4, <2>1, <2>2, <2>3 DEF Fresh, InAvailable
<1>7. BlockInv' /\ LinkInv' /\ OneLinkInv' /\ InodeInv' /\ LinkedInv'
  <2>1. PICK KS \in SUBSET Block : KS = { b }
    OBVIOUS
  <2>2. /\ \A c \in Block \ KS : flash'[c] = flash[c]
        /\ \A c \in KS : flash[c].type = "erased" /\ flash'[c] = ErasedBlock(TRUE)
    BY <1>2, <1>3, <2>1
  <2>3. ~ Removing /\ ~ Removing' /\ pc # "init" /\ pc' # "init"
    BY <1>1 DEF Removing
  <2> QED BY <1>1, <2>2, <2>3, StillKeeps
<1>8. FreshInv'
  BY <1>1, <1>5, <1>6 DEF FreshInv, InHandOrLinked
<1>9. DirtyInv' /\ WalkInv'
  BY <1>1 DEF DirtyInv, WalkInv, Removing
<1>10. GrowthInv'
  BY <1>1 DEF GrowthInv, Settled, Ahead, Entering, Claiming, NeedsInodeBlock
<1>11. WriterInv'
  <2>1. Open' = Open /\ Live' = Live
    BY <1>1 DEF Open, Live
  <2>2. ASSUME NEW h \in Open
        PROVE  FileBlock(w[h].blk, w[h].id) /\ w[h].blk \in Block /\ w[h].blk # b
    <3>1. w[h].blk \in Block
      BY Typed
    <3> QED BY <1>1, <1>2, <3>1, Typed DEF WriterInv, FileBlock
  <2>3. ASSUME NEW h \in Open PROVE flash'[w[h].blk] = flash[w[h].blk]
    BY <1>3, <2>2
  <2> QED BY <1>1, <2>1, <2>2, <2>3 DEF WriterInv, WriterAtEnd, FileBlock, Claiming
<1> QED BY <1>1, <1>7, <1>8, <1>9, <1>10, <1>11

LEMMA PrimeDoneKeeps ==
  ASSUME TypeInv, CareInv, PrimeDone
  PROVE  CareInv'
<1> USE DEF CareInv
<1>1. /\ pc = "prime" /\ dirty.block = None
      /\ IF op.for = "mount" THEN pc' = "idle" /\ op' = NoCall
                             ELSE pc' = "link" /\ op' = op
      /\ UNCHANGED << pre, flash, table, ichain, dirty, w, wopen, panic >>
  BY DEF PrimeDone, durable, DirtyInv
<1>2. GrowthInv' /\ WalkInv'
  BY <1>1 DEF GrowthInv, Settled, Ahead, Entering, Claiming, NeedsInodeBlock, pre,
              WalkInv, Removing
<1>3. op.for # "mount" => Claiming /\ (op.for = "tail" => op.h \in Open)
  BY <1>1 DEF Claiming, TypeInv, StateInv, CallInv
<1> QED BY <1>1, <1>2, <1>3, QuietKeeps
        DEF pre, Removing, InHandOrLinked, Claiming, Open, WriterInv

-----------------------------------------------------------------------------
(* Reboots.                                                                *)

(* The quotient of a division is the number it is squeezed between.        *)
LEMMA DivUnique ==
  ASSUME NEW a \in Nat, NEW e \in Nat \ {0}, NEW q \in Int, e * q <= a, a < e * q + e
  PROVE  a \div e = q
<1> DEFINE d == a \div e
<1>1. d \in Int /\ e * d <= a /\ a < e * d + e
  OBVIOUS
<1> HIDE DEF d
<1>2. ASSUME NEW x \in Int, NEW y \in Int, x < y PROVE e * x + e <= e * y
  <2>1. x + 1 <= y
    BY <1>2
  <2>2. e * (x + 1) <= e * y
    BY <2>1
  <2>3. e * (x + 1) = e * x + e
    OBVIOUS
  <2> QED BY <2>2, <2>3
<1>3. ~ (d < q)
  <2>1. SUFFICES ASSUME d < q PROVE FALSE
    OBVIOUS
  <2>2. e * d + e <= e * q
    BY <1>1, <1>2, <2>1
  <2>3. e * d \in Int /\ e * q \in Int
    BY <1>1
  <2> QED BY <1>1, <2>2, <2>3
<1>4. ~ (q < d)
  <2>1. SUFFICES ASSUME q < d PROVE FALSE
    OBVIOUS
  <2>2. e * q + e <= e * d
    BY <1>1, <1>2, <2>1
  <2>3. e * d \in Int /\ e * q \in Int
    BY <1>1
  <2> QED BY <1>1, <2>2, <2>3
<1> QED BY <1>1, <1>3, <1>4 DEF d

(* An entry is in the block of the one before it, but for the last of a    *)
(* block.                                                                  *)
LEMMA NextEntry ==
  ASSUME NEW a \in Nat, NEW e \in Nat \ {0}
  PROVE  (a + 1) \div e = IF (a + 1) % e = 0 THEN a \div e + 1 ELSE a \div e
<1> DEFINE q == (a + 1) \div e  r == (a + 1) % e
<1>1. q \in Int /\ r \in 0 .. e - 1 /\ a + 1 = e * q + r /\ e * q \in Int
  OBVIOUS
<1> HIDE DEF q, r
<1>2. CASE r = 0
  <2>1. e * (q - 1) = e * q - e
    BY <1>1
  <2>2. e * (q - 1) <= a /\ a < e * (q - 1) + e
    BY <1>1, <1>2, <2>1
  <2>3. a \div e = q - 1
    BY <1>1, <2>2, DivUnique
  <2> QED BY <1>1, <1>2, <2>3 DEF q, r
<1>3. CASE r # 0
  <2>1. e * q <= a /\ a < e * q + e
    BY <1>1, <1>3
  <2>2. a \div e = q
    BY <1>1, <2>1, DivUnique
  <2> QED BY <1>3, <2>2 DEF q, r
<1> QED BY <1>2, <1>3

LEMMA MountKeeps ==
  ASSUME TypeInv, CareInv, Mount
  PROVE  CareInv'
<1> USE DEF CareInv
<1>1. /\ pc = "down" /\ pc' = "prime" /\ op'.for = "mount"
      /\ dirty.block = None /\ dirty'.block = None /\ wopen' = << >> /\ available' = << >>
      /\ UNCHANGED << flash, table, ichain, w, panic >>
  BY DEF Mount, durable, Reinitialize, NoCall, Clean, DirtyInv
<1>2. ~ Removing /\ ~ Removing' /\ pc # "init" /\ pc' # "init" /\ ~ Claiming /\ ~ Claiming'
  BY <1>1 DEF Removing, Claiming
<1>3. BlockInv' /\ LinkInv' /\ OneLinkInv' /\ InodeInv' /\ LinkedInv'
  <2>1. PICK KS \in SUBSET Block : KS = {}
    OBVIOUS
  <2>2. /\ \A c \in Block \ KS : flash'[c] = flash[c]
        /\ \A c \in KS : flash[c].type = "erased" /\ flash'[c] = ErasedBlock(TRUE)
    BY <1>1, <2>1
  <2> QED BY <1>1, <1>2, <2>2, StillKeeps
<1>4. FreshInv' /\ DirtyInv'
  BY <1>1 DEF FreshInv, ListedBlocksAreErased, InHandOrLinked, DirtyInv
<1>5. GrowthInv'
  BY <1>1, <1>2 DEF GrowthInv, Settled, Ahead, Entering, NeedsInodeBlock
<1>6. Open' = {}
  BY <1>1 DEF Open
<1>7. WriterInv' /\ WalkInv'
  BY <1>1, <1>2, <1>6 DEF WriterInv, WriterAtEnd, WalkInv
<1> QED BY <1>1, <1>3, <1>4, <1>5, <1>7

LEMMA CrashKeeps ==
  ASSUME KeepsRules, TypeInv, CareInv, Crash
  PROVE  CareInv'
<1> USE DEF CareInv
<1>1. /\ pc = "idle" /\ pc' = "down" /\ InodeSettled
      /\ dirty.block = None /\ dirty'.block = None /\ wopen' = << >> /\ available' = << >>
      /\ UNCHANGED << flash, table, ichain, panic >>
  BY RulesKept DEF Crash, durable, Reinitialize, Clean
<1>2. ~ Removing /\ ~ Removing' /\ pc # "init" /\ pc' # "init" /\ ~ Claiming /\ ~ Claiming'
  BY <1>1 DEF Removing, Claiming
<1>3. BlockInv' /\ LinkInv' /\ OneLinkInv' /\ InodeInv' /\ LinkedInv'
  <2>1. PICK KS \in SUBSET Block : KS = {}
    OBVIOUS
  <2>2. /\ \A c \in Block \ KS : flash'[c] = flash[c]
        /\ \A c \in KS : flash[c].type = "erased" /\ flash'[c] = ErasedBlock(TRUE)
    BY <1>1, <2>1
  <2> QED BY <1>1, <1>2, <2>2, StillKeeps
<1>4. FreshInv' /\ DirtyInv'
  BY <1>1 DEF FreshInv, ListedBlocksAreErased, InHandOrLinked, DirtyInv
<1>5. Settled /\ ~ Ahead
  <2>1. Len(table) \in Nat /\ Len(ichain) \in Nat /\ EntriesPerBlock \in Nat \ {0}
        /\ Len(table) \div EntriesPerBlock \in Int
    BY FlogAssumption DEF TypeInv, StateInv, FlogTypeOK
  <2>2. NeedsInodeBlock => Len(ichain) = Len(table) \div EntriesPerBlock + 1
    BY <1>1, <2>1, NextEntry DEF InodeSettled, NeedsInodeBlock
  <2> QED BY <2>1, <2>2 DEF GrowthInv, Settled, Ahead
<1>6. GrowthInv'
  BY <1>1, <1>2, <1>5 DEF GrowthInv, Settled, Ahead, Entering, NeedsInodeBlock
<1>7. Open' = {}
  BY <1>1 DEF Open
<1>8. WriterInv' /\ WalkInv'
  BY <1>1, <1>2, <1>7 DEF WriterInv, WriterAtEnd, WalkInv
<1> QED BY <1>1, <1>3, <1>4, <1>6, <1>8

-----------------------------------------------------------------------------
(* Walks along a chain.                                                    *)

(* Behind a block of the file walked along comes another one of it.        *)
LEMMA NextInFile ==
  ASSUME TypeInv, CareInv, pc \in { "open.walk", "rm.find", "rm.erase" },
         NEW b \in Block, FileBlock(b, op.idx), flash[b].next # None
  PROVE  flash[b].next \in Block /\ FileBlock(flash[b].next, op.idx)
<1>1. flash[b].next \in Block
  BY Typed DEF Blocks
<1>2. \/ FileBlock(flash[b].next, op.idx)
      \/ flash[b].next = dirty.block /\ w[dirty.file].id = op.idx
  BY DEF CareInv, LinkInv, InChain, FileBlock
<1>3. flash[b].next = dirty.block => w[dirty.file].id # op.idx
  BY <1>1, Typed DEF CareInv, DirtyInv, WalkInv
<1> QED BY <1>1, <1>2, <1>3

LEMMA WalkKeeps ==
  ASSUME TypeInv, CareInv, OpenWalk \/ RmFind \/ ReadWalk
  PROVE  CareInv'
<1> USE DEF CareInv
<1>0. op.blk \in Block /\ op \in CallStates /\ None \notin Block
  BY Typed DEF OpenWalk, RmFind, ReadWalk, TypeInv, StateInv, CallInv, FlogTypeOK
<1>1. /\ pc \in { "open.walk", "rm.find", "read.walk" } /\ pc' \in { pc, "idle" }
      /\ UNCHANGED << available, n, flash, table, ichain, dirty, w, wopen, panic >>
  BY DEF OpenWalk, RmFind, ReadWalk, RemovePending, durable
<1>2. WalkInv'
  <2>1. CASE pc' \in { "idle", "read.walk" }
    BY <2>1 DEF WalkInv, Removing
  <2>2. CASE pc' \in { "open.walk", "rm.find" }
    <3>1. /\ pc' = pc /\ op'.blk = flash[op.blk].next /\ op'.idx = op.idx /\ op'.h = op.h
          /\ flash[op.blk].next # None
      BY <1>0, <1>1, <2>2 DEF OpenWalk, RmFind, ReadWalk, NextBlock, CallStates, Programmed,
                              TypeInv, StateInv, TailInv
    <3>2. FileBlock(flash[op.blk].next, op.idx)
      BY <1>0, <2>2, <3>1, NextInFile DEF WalkInv
    <3>3. Open' = Open /\ Live' = Live
      BY <1>1 DEF Open, Live
    <3> QED BY <1>1, <2>2, <3>1, <3>2, <3>3 DEF WalkInv, Removing, FileBlock
  <2> QED BY <1>1, <2>1, <2>2
<1>3. GrowthInv'
  BY <1>1 DEF GrowthInv, Settled, Ahead, Entering, Claiming, NeedsInodeBlock
<1>4. pc' \in { "open.walk", "rm.find", "read.walk", "idle" }
  BY <1>1
<1>5. /\ ~ Removing /\ ~ Removing' /\ pc # "init" /\ pc' # "init"
      /\ ~ InHandOrLinked' /\ ~ Claiming' /\ Open' = Open
  BY <1>1, <1>4 DEF Removing, InHandOrLinked, Claiming, Open
<1>6. dirty.block # None => dirty.file \in Open'
  BY <1>5 DEF DirtyInv
<1> QED BY <1>1, <1>2, <1>3, <1>4, <1>5, <1>6, QuietKeeps

LEMMA ScanKeeps ==
  ASSUME TypeInv, IdsInOrder, CareInv, OpenScan
  PROVE  CareInv'
<1> USE DEF CareInv
<1> DEFINE b == op.blk
<1>1. /\ pc = "open.walk" /\ pc' = "idle"
      /\ UNCHANGED << available, n, flash, table, ichain, dirty, panic >>
      /\ LastPos \notin flash[b].sec /\ wopen' = Append(wopen, op.h)
  BY DEF OpenScan, RemovePending, durable, Programmed
<1>2. /\ op.h \in Handle /\ op.h \notin Open /\ op.idx \in Live /\ table[op.idx].id = op.idx
      /\ b \in Block /\ FileBlock(b, op.idx) /\ \A h \in Open : w[h].id # op.idx
      /\ flash[b].sec \in SUBSET (0 .. LastPos) /\ flash[b].next = None
  BY <1>1, Typed DEF TypeInv, StateInv, CallInv, WalkInv, Live, IdsInOrder, BlockInv, Blocks
<1>3. /\ w \in [ Handle -> HandleStates ] /\ wopen \in Seq(Handle) /\ Open \subseteq Handle
      /\ LastPos \in Nat \ { 0 }
  BY Typed DEF TypeInv, StateInv, FlogTypeOK
<1>4. PICK p \in 0 .. LastPos :
        /\ FirstFree(b, p)
        /\ w' = [ w EXCEPT ![op.h] =
             [ id  |-> table[op.idx].id, blk |-> b, pos |-> p, hdr |-> p # 0,
               off |-> FreshOffset(p) ] ]
  BY DEF OpenScan
<1>5. /\ w'[op.h].id = op.idx /\ w'[op.h].blk = b /\ w'[op.h].pos = p
      /\ \A g \in Handle \ { op.h } : w'[g] = w[g]
  BY <1>2, <1>3, <1>4
<1>6. flash[b].sec = 0 .. p - 1
  <2>1. ASSUME NEW q \in flash[b].sec PROVE q \in 0 .. p - 1
    <3>1. q \in 0 .. LastPos /\ \A x \in 0 .. q - 1 : x \in flash[b].sec
      BY <1>2, <2>1 DEF BlockInv, FileBlock
    <3>2. p \notin flash[b].sec
      BY <1>4 DEF FirstFree, Programmed
    <3>3. q < p
      BY <1>3, <1>4, <2>1, <3>1, <3>2
    <3> QED BY <3>1, <3>3
  <2>2. \A q \in 0 .. p - 1 : q \in flash[b].sec
    BY <1>4 DEF FirstFree, Programmed
  <2> QED BY <2>1, <2>2
<1>7. Open' = Open \cup { op.h } /\ Live' = Live
  BY <1>1, <1>2, <1>3, OpenAppend DEF Live
<1>8. dirty.block # None => dirty.file \in Open /\ dirty.file # op.h /\ w'[dirty.file] = w[dirty.file]
  BY <1>2, <1>3, <1>5 DEF DirtyInv
<1>9. BlockInv' /\ LinkInv' /\ OneLinkInv' /\ InodeInv' /\ LinkedInv'
  <2>1. PICK KS \in SUBSET Block : KS = {}
    OBVIOUS
  <2>2. /\ \A c \in Block \ KS : flash'[c] = flash[c]
        /\ \A c \in KS : flash[c].type = "erased" /\ flash'[c] = ErasedBlock(TRUE)
    BY <1>1, <2>1
  <2>3. ~ Removing /\ ~ Removing' /\ pc # "init" /\ pc' # "init"
    BY <1>1 DEF Removing
  <2> QED BY <1>1, <1>8, <2>2, <2>3, StillKeeps
<1>10. FreshInv'
  BY <1>1 DEF FreshInv, ListedBlocksAreErased, Fresh, InAvailable, InHandOrLinked
<1>11. DirtyInv'
  BY <1>1, <1>7, <1>8 DEF DirtyInv
<1>12. GrowthInv'
  BY <1>1 DEF GrowthInv, Settled, Ahead, Entering, Claiming, NeedsInodeBlock
<1>13. WriterInv'
  <2>1. ASSUME NEW g \in Open'
        PROVE  /\ flash[w'[g].blk].sec = 0 .. w'[g].pos - 1 /\ flash[w'[g].blk].next = None
               /\ w'[g].id \in Live
               /\ FileBlock(w'[g].blk, w'[g].id) \/ (w'[g].blk = dirty.block /\ dirty.file = g)
    <3>1. CASE g = op.h
      BY <1>2, <1>5, <1>6, <3>1
    <3>2. CASE g # op.h
      <4>1. g \in Open /\ w'[g] = w[g]
        BY <1>3, <1>5, <1>7, <3>2
      <4> QED BY <4>1 DEF WriterInv, WriterAtEnd
    <3> QED BY <3>1, <3>2
  <2>2. \A f, g \in Open' : w'[f].id = w'[g].id => f = g
    BY <1>2, <1>3, <1>5, <1>7 DEF WriterInv
  <2>3. ~ Claiming'
    BY <1>1 DEF Claiming
  <2> QED BY <1>1, <1>7, <2>1, <2>2, <2>3 DEF WriterInv, WriterAtEnd, FileBlock
<1>14. WalkInv'
  BY <1>1 DEF WalkInv, Removing
<1> QED BY <1>1, <1>9, <1>10, <1>11, <1>12, <1>13, <1>14

-----------------------------------------------------------------------------
(* Removing a file.                                                        *)

LEMMA InvalidateKeeps ==
  ASSUME TypeInv, CareInv, RmInvalidate
  PROVE  CareInv'
<1> USE DEF CareInv
<1> DEFINE i == op.idx
<1>1. /\ pc = "rm.find" /\ pc' = "rm.erase" /\ op'.blk = table[i].first /\ op'.idx = i
      /\ UNCHANGED << available, n, flash, ichain, dirty, w, wopen, panic >>
      /\ table' = [ table EXCEPT ![i].dead = TRUE ]
  BY DEF RmInvalidate, RemovePending, ErasedFirst, TypeInv, StateInv, FlogTypeOK, CallStates
<1>2. i \in Live /\ i \in 1 .. Len(table) /\ Len(table) \in Nat /\ \A h \in Open : w[h].id # i
  BY <1>1, Typed DEF WalkInv
<1>3. /\ Len(table') = Len(table)
      /\ \A j \in 1 .. Len(table) : table'[j].first = table[j].first
      /\ table'[i].dead /\ \A j \in 1 .. Len(table) \ { i } : table'[j] = table[j]
  <2>1. /\ table \in Seq([ name : Name, id : Nat, first : Block, dead : BOOLEAN ])
        /\ table[i] \in [ name : Name, id : Nat, first : Block, dead : BOOLEAN ]
    BY <1>2, ElementOfSeq DEF TypeInv, StateInv, FlogTypeOK
  <2>2. Len(table') = Len(table) /\ \A j \in 1 .. Len(table) \ { i } : table'[j] = table[j]
    BY <1>1, <1>2, <2>1
  <2>3. table'[i].dead /\ table'[i].first = table[i].first
    BY <1>1, <1>2, <2>1
  <2> QED BY <2>2, <2>3
<1>4. Live' = Live \ { i } /\ Open' = Open
  BY <1>1, <1>2, <1>3 DEF Live, Open
<1>5. /\ ~ Removing /\ Removing' /\ ~ Claiming /\ ~ Claiming' /\ ~ InHandOrLinked'
      /\ flash \in [ Block -> Blocks ] /\ None \notin Block /\ table[i].first \in Block
  BY <1>1, <1>2, Typed DEF Removing, Claiming, InHandOrLinked
<1>6. FileBlock(table[i].first, i)
  <2>1. InChain(table[i].first, i)
    BY <1>2 DEF LinkInv
  <2>2. table[i].first = dirty.block => w[dirty.file].id # i
    BY <1>2, <1>5 DEF DirtyInv
  <2> QED BY <2>1, <2>2 DEF InChain
<1>7. BlockInv'
  <2> SUFFICES ASSUME NEW c \in Block, flash[c].type = "file" PROVE HasOwner(c)'
    BY <1>1 DEF BlockInv
  <2> QED BY <1>1, <1>4, <1>5 DEF BlockInv, HasOwner
<1>8. FreshInv' /\ DirtyInv'
  BY <1>1, <1>4, <1>5 DEF FreshInv, ListedBlocksAreErased, Fresh, InAvailable, DirtyInv
<1>9. LinkInv'
  <2>1. \A j \in Live' : InChain(table[j].first, j) /\ table'[j].first = table[j].first
    BY <1>3, <1>4, Typed DEF LinkInv
  <2>2. \A j \in Live' : InChain(table[j].first, j)'
    BY <1>1, <2>1 DEF InChain, FileBlock
  <2> QED BY <1>1, <2>2 DEF LinkInv, InChain, FileBlock
<1>10. OneLinkInv'
  <2>1. \A j \in Live' : j \in Live /\ table'[j].first = table[j].first
    BY <1>3, <1>4, Typed
  <2> QED BY <1>1, <1>2, <2>1 DEF OneLinkInv
<1>11. InodeInv'
  BY <1>1 DEF InodeInv, LastInode
<1>12. GrowthInv'
  BY <1>1, <1>3 DEF GrowthInv, Settled, Ahead, Entering, Claiming, NeedsInodeBlock
<1>13. WriterInv'
  BY <1>1, <1>2, <1>4, <1>5 DEF WriterInv, WriterAtEnd, FileBlock
<1>14. WalkInv'
  BY <1>1, <1>2, <1>4, <1>6 DEF WalkInv, FileBlock
<1>15. LinkedInv'
  <2>1. ASSUME NEW c \in Block, Linked(c) PROVE Linked(c)'
    <3>1. ASSUME NEW j \in Live, table[j].first = c PROVE Linked(c)'
      <4>1. CASE j = i
        BY <1>1, <1>5, <3>1, <4>1 DEF Linked
      <4>2. CASE j # i
        BY <1>3, <1>4, <3>1, <4>2, Typed DEF Linked
      <4> QED BY <4>1, <4>2
    <3>2. ASSUME NEW d \in Block, flash[d].type = "file", flash[d].next = c PROVE Linked(c)'
      BY <1>1, <3>2 DEF Linked
    <3> QED BY <1>5, <2>1, <3>1, <3>2 DEF Linked
  <2> QED BY <1>1, <2>1 DEF LinkedInv
<1> QED BY <1>1, <1>7, <1>8, <1>9, <1>10, <1>11, <1>12, <1>13, <1>14, <1>15

LEMMA EraseKeeps ==
  ASSUME TypeInv, CareInv, RmErase
  PROVE  CareInv'
<1> USE DEF CareInv
<1>0. PICK b \in Block : b = op.blk
  BY DEF RmErase, TypeInv, StateInv, FlogTypeOK, CallStates
<1>1. /\ pc = "rm.erase" /\ pc' = "rm.erase" /\ op'.blk = flash[b].next /\ op'.idx = op.idx
      /\ UNCHANGED << available, n, table, ichain, dirty, w, wopen, panic >>
  BY <1>0 DEF RmErase, RemovePending, NextBlock, TypeInv, StateInv, FlogTypeOK, CallStates
<1>2. /\ flash \in [ Block -> Blocks ] /\ None \notin Block
      /\ \A i \in Live : table[i].first \in Block
  BY Typed
<1>3. PICK k \in BOOLEAN : flash' = [ flash EXCEPT ![b] = ErasedBlock(k) ]
  BY <1>0 DEF RmErase
<1>4. flash'[b] = ErasedBlock(k) /\ \A c \in Block \ { b } : flash'[c] = flash[c]
  <2> DEFINE e == ErasedBlock(k)
  <2> HIDE DEF e
  <2>1. flash' = [ flash EXCEPT ![b] = e ]
    BY <1>3 DEF e
  <2>2. flash'[b] = e /\ \A c \in Block \ { b } : flash'[c] = flash[c]
    BY <1>2, <2>1
  <2> QED BY <2>2 DEF e
<1>5. /\ flash'[b].type = "erased" /\ flash'[b].next = None /\ flash'[b].key = k
      /\ flash'[b] = ErasedBlock(flash'[b].key)
  BY <1>4 DEF ErasedBlock
<1>6. /\ Removing /\ Removing' /\ ~ Claiming /\ ~ Claiming' /\ ~ InHandOrLinked'
      /\ Live' = Live /\ Open' = Open
      /\ op.idx \notin Live /\ FileBlock(b, op.idx) /\ \A h \in Open : w[h].id # op.idx
  BY <1>0, <1>1, <1>2 DEF Removing, Claiming, InHandOrLinked, Live, Open, WalkInv
(* Nothing leads to the block that is erased.                              *)
<1>7. \A c \in Block : flash[c].next # b
  BY <1>0, <1>2, <1>6 DEF OneLinkInv
<1>8. b # dirty.block /\ \A i \in Live : table[i].first # b
  <2>1. b # dirty.block
    BY <1>2, <1>6 DEF FreshInv, Fresh, ErasedBlock, FileBlock
  <2> QED BY <1>6, <2>1 DEF LinkInv, InChain, FileBlock
<1>9. ASSUME NEW c \in Block, NEW i, InChain(c, i), c # b PROVE InChain(c, i)'
  BY <1>1, <1>4, <1>9 DEF InChain, FileBlock
<1>10. BlockInv'
  <2> SUFFICES ASSUME NEW c \in Block
               PROVE  /\ flash'[c].type = "erased" => flash'[c] = ErasedBlock(flash'[c].key)
                      /\ flash'[c].type # "erased" => flash'[c].key
                      /\ flash'[c].next # None => LastPos \in flash'[c].sec
                      /\ flash'[c].type = "file" =>
                           /\ 0 \in flash'[c].sec /\ HasOwner(c)'
                           /\ \A x \in flash'[c].sec : \A y \in 0 .. x - 1 : y \in flash'[c].sec
    BY DEF BlockInv
  <2>1. CASE c = b
    BY <1>5, <2>1
  <2>2. CASE c # b
    BY <1>1, <1>4, <1>6, <2>2 DEF BlockInv, HasOwner
  <2> QED BY <2>1, <2>2
<1>11. FreshInv'
  <2>1. \A i \in 1 .. Len(available) :
          available[i] \in Block /\ available[i] # b /\ flash[available[i]] = ErasedBlock(TRUE)
    <3> SUFFICES ASSUME NEW i \in 1 .. Len(available)
                 PROVE  /\ available[i] \in Block /\ available[i] # b
                        /\ flash[available[i]] = ErasedBlock(TRUE)
      OBVIOUS
    <3>1. available[i] \in Block /\ flash[available[i]] = ErasedBlock(TRUE)
      BY ListedTyped DEF FreshInv, ListedBlocksAreErased
    <3>2. flash[b] # ErasedBlock(TRUE)
      BY <1>6 DEF FileBlock, ErasedBlock
    <3> QED BY <3>1, <3>2
  <2>2. ListedBlocksAreErased'
    BY <1>1, <1>4, <2>1 DEF ListedBlocksAreErased
  <2>3. dirty.block # None => dirty.block \in Block
    BY DEF TypeInv, StateInv, FlogTypeOK
  <2> QED BY <1>1, <1>4, <1>6, <1>8, <2>2, <2>3 DEF FreshInv, Fresh, InAvailable
<1>12. DirtyInv'
  BY <1>1, <1>6 DEF DirtyInv
<1>13. LinkInv'
  <2>1. \A i \in Live : InChain(table[i].first, i)'
    BY <1>1, <1>2, <1>8, <1>9 DEF LinkInv
  <2>2. ASSUME NEW c \in Block, flash'[c].next # None
        PROVE  /\ flash'[c].type = "file" => InChain(flash[c].next, flash[c].owner)'
               /\ flash'[c].type = "inode" => flash'[flash'[c].next].type = "inode"
    <3>1. c # b /\ flash'[c] = flash[c] /\ flash[c].next # b /\ flash[c].next \in Block
      BY <1>2, <1>4, <1>5, <1>7, <2>2 DEF Blocks
    <3>2. flash'[c].type = "file" => InChain(flash[c].next, flash[c].owner)'
      BY <1>9, <2>2, <3>1 DEF LinkInv, InChain, FileBlock
    <3>3. flash'[flash[c].next] = flash[flash[c].next]
      BY <1>4, <3>1
    <3> QED BY <1>1, <2>2, <3>1, <3>2, <3>3 DEF LinkInv
  <2> QED BY <1>1, <1>6, <2>1, <2>2 DEF LinkInv, InChain, FileBlock
<1>14. OneLinkInv'
  <2>1. \A c \in Block : flash'[c].next \in { None, flash[c].next }
    BY <1>4, <1>5
  <2>2. Removing' /\ op'.blk # None => \A c \in Block : flash'[c].next # op'.blk
    BY <1>1, <1>4, <1>5 DEF OneLinkInv
  <2>3. \A c, d \in Block : flash'[c].next = flash'[d].next => flash'[c].next = None \/ c = d
    BY <1>4, <1>5 DEF OneLinkInv
  <2>4. \A i \in Live : \A c \in Block : flash'[c].next # table[i].first
    BY <1>2, <2>1 DEF OneLinkInv
  <2>5. \A c \in Block : flash'[c].next # Inode0
    BY <1>2, <2>1, FlogAssumption DEF OneLinkInv
  <2> QED BY <1>1, <1>6, <2>2, <2>3, <2>4, <2>5 DEF OneLinkInv
<1>15. InodeInv'
  <2>1. LastInode' = LastInode /\ LastInode \in Block /\ Inode0 \in Block
    <3>1. ichain \in Seq(Block) /\ Len(ichain) \in Nat /\ Len(ichain) # 0
      BY FlogAssumption DEF TypeInv, StateInv, FlogTypeOK, RoomInv, InodeRoom
    <3> QED BY <1>1, <3>1, Typed, ElementOfSeq DEF LastInode
  <2>2. LastInode # b /\ Inode0 # b
    BY <1>1, <1>6 DEF InodeInv, FileBlock
  <2> QED BY <1>1, <1>4, <2>1, <2>2 DEF InodeInv
<1>16. GrowthInv'
  BY <1>1 DEF GrowthInv, Settled, Ahead, Entering, Claiming, NeedsInodeBlock
<1>17. WriterInv'
  <2>1. \A h \in Open : w[h].blk \in Block /\ w[h].blk # b
    BY <1>6, <1>8, Typed DEF WriterInv, FileBlock
  <2>2. \A h \in Open : flash'[w[h].blk] = flash[w[h].blk]
    BY <1>4, <2>1
  <2> QED BY <1>1, <1>6, <2>1, <2>2 DEF WriterInv, WriterAtEnd, FileBlock
<1>18. WalkInv'
  <2>1. flash[b].next # None => FileBlock(flash[b].next, op.idx) /\ flash[b].next \in Block
    BY <1>1, <1>6, NextInFile
  <2>2. flash[b].next # b
    BY <1>7
  <2>3. flash[b].next # None => flash'[flash[b].next] = flash[flash[b].next]
    BY <1>4, <2>1, <2>2
  <2> QED BY <1>1, <1>6, <2>1, <2>3 DEF WalkInv, FileBlock
<1>19. LinkedInv'
  <2>1. ASSUME NEW c \in Block, c # b, Linked(c) PROVE Linked(c)'
    <3>1. CASE \E i \in Live : table[i].first = c
      BY <1>1, <1>6, <3>1 DEF Linked
    <3>2. ASSUME NEW d \in Block, flash[d].type = "file", flash[d].next = c PROVE Linked(c)'
      <4>1. CASE d = b
        BY <1>1, <1>6, <3>2, <4>1 DEF Linked
      <4>2. CASE d # b
        BY <1>4, <3>2, <4>2 DEF Linked
      <4> QED BY <4>1, <4>2
    <3> QED BY <1>0, <2>1, <3>1, <3>2 DEF Linked
  <2>2. ASSUME NEW c \in Block, flash'[c].type = "file" \/ c = dirty'.block
        PROVE  c # b /\ Linked(c)
    BY <1>1, <1>4, <1>5, <1>8, <2>2 DEF LinkedInv
  <2> QED BY <2>1, <2>2 DEF LinkedInv
<1> QED BY <1>1, <1>10, <1>11, <1>12, <1>13, <1>14, <1>15, <1>16, <1>17, <1>18, <1>19

(***************************************************************************)
(* When flog_invalidate_chain has come to the end no block of the file is  *)
(* left: the first of those left, in the order of the chains, would be     *)
(* linked to by one before it.                                             *)
(***************************************************************************)
LEMMA NoneLeft ==
  ASSUME TypeInv, CareInv, RankInv, Removing, op.blk = None, NEW b \in Block
  PROVE  ~ FileBlock(b, op.idx)
<1> USE DEF CareInv
<1> SUFFICES ASSUME FileBlock(b, op.idx) PROVE FALSE
  OBVIOUS
<1>1. PICK rank \in [ Block -> Nat ] : Ranks(rank)
  BY DEF RankInv
<1> DEFINE T == { rank[c] : c \in { d \in Block : FileBlock(d, op.idx) } }
<1>2. T \subseteq Nat /\ T # {}
  OBVIOUS
<1> HIDE DEF T
<1>3. PICK x \in T : \A y \in T : x <= y
  BY <1>2, MinNat
<1>4. PICK c \in Block : FileBlock(c, op.idx) /\ x = rank[c]
  BY <1>3 DEF T
<1>5. Linked(c) /\ c # dirty.block /\ op.idx \notin Live
  BY <1>4, Typed DEF LinkedInv, FileBlock, FreshInv, Fresh, ErasedBlock, WalkInv
<1>6. ~ \E i \in Live : table[i].first = c
  BY <1>4, <1>5 DEF LinkInv, InChain, FileBlock
<1>7. PICK d \in Block : flash[d].type = "file" /\ flash[d].next = c
  BY <1>5, <1>6, Typed DEF Linked
<1>8. FileBlock(d, op.idx) /\ rank[d] < rank[c]
  BY <1>1, <1>4, <1>5, <1>7, Typed DEF LinkInv, InChain, FileBlock, Ranks
<1>9. rank[d] \in T
  BY <1>8 DEF T
<1> QED BY <1>1, <1>3, <1>4, <1>8, <1>9

LEMMA RmDoneKeeps ==
  ASSUME TypeInv, CareInv, RankInv, RmDone
  PROVE  CareInv'
<1> USE DEF CareInv
<1>0. op.blk = None /\ None \notin Block /\ \A i \in 1 .. Len(table) : table[i].first \in Block
  BY Typed DEF RmDone, WalkInv, Removing, FileBlock
<1>1. /\ pc = "rm.erase" /\ pc' = "idle" /\ op' = NoCall
      /\ UNCHANGED << available, n, flash, table, ichain, dirty, w, wopen, panic >>
  BY <1>0 DEF RmDone, pre, durable
<1>2. /\ Removing /\ ~ Removing' /\ ~ Claiming /\ ~ Claiming' /\ ~ InHandOrLinked'
      /\ Live' = Live /\ Open' = Open
  BY <1>1 DEF Removing, Claiming, InHandOrLinked, Live, Open
<1>3. BlockInv'
  <2> SUFFICES ASSUME NEW c \in Block, flash[c].type = "file" PROVE HasOwner(c)'
    BY <1>1 DEF BlockInv
  <2>1. flash[c].owner # op.idx
    BY <1>0, <1>2, NoneLeft DEF FileBlock
  <2> QED BY <1>1, <1>2, <2>1 DEF BlockInv, HasOwner
<1>4. FreshInv' /\ DirtyInv'
  BY <1>1, <1>2 DEF FreshInv, ListedBlocksAreErased, Fresh, InAvailable, DirtyInv
<1>5. LinkInv'
  <2>1. \A i \in Live : InChain(table[i].first, i)'
    BY <1>1 DEF LinkInv, InChain, FileBlock
  <2> QED BY <1>1, <1>2, <2>1 DEF LinkInv, InChain, FileBlock
<1>6. OneLinkInv'
  BY <1>1, <1>2 DEF OneLinkInv
<1>7. InodeInv' /\ GrowthInv'
  BY <1>1 DEF InodeInv, LastInode, GrowthInv, Settled, Ahead, Entering, Claiming, NeedsInodeBlock
<1>8. WriterInv' /\ WalkInv'
  BY <1>1, <1>2 DEF WriterInv, WriterAtEnd, FileBlock, WalkInv
<1>9. LinkedInv'
  <2>1. ASSUME NEW c \in Block, Linked(c) PROVE Linked(c)'
    BY <1>0, <1>1, <1>2, <2>1 DEF Linked
  <2> QED BY <1>1, <2>1 DEF LinkedInv
<1> QED BY <1>1, <1>3, <1>4, <1>5, <1>6, <1>7, <1>8, <1>9

(* The assertions of flog_invalidate_chain are not reached.                *)
LEMMA WrongBlockNever ==
  ASSUME TypeInv, IdsInOrder, CareInv
  PROVE  ~ RmWrongBlock
<1> SUFFICES ASSUME RmWrongBlock PROVE FALSE
  OBVIOUS
<1>1. FileBlock(op.blk, op.idx)
  BY DEF RmWrongBlock, CareInv, WalkInv, Removing
<1>2. table[op.idx].id = op.idx
  BY DEF RmWrongBlock, TypeInv, StateInv, CallInv, IdsInOrder
<1> QED BY <1>1, <1>2 DEF RmWrongBlock, FileBlock

-----------------------------------------------------------------------------
(* Putting a block to use.                                                 *)

(* Nothing leads to a block in hand, and no handle stands on it.           *)
LEMMA HandUnlinked ==
  ASSUME TypeInv, CareInv, pc \in { "link", "init" }, NEW x, x = op.blk
  PROVE  /\ x \in Block /\ flash[x] = ErasedBlock(TRUE)
         /\ flash[x].type = "erased" /\ flash[x].sec = {} /\ flash[x].next = None /\ flash[x].key
         /\ \A i \in 1 .. Len(available) : available[i] # x
         /\ dirty.block = None /\ x # Inode0
         /\ pc = "link" => \A c \in Block : flash[c].next # x
         /\ \A i \in Live : table[i].first # x /\ FileBlock(table[i].first, i)
         /\ \A h \in Open : w[h].blk # x /\ FileBlock(w[h].blk, w[h].id) /\ w[h].blk \in Block
<1> USE DEF CareInv
<1>1. /\ None \notin Block /\ \A i \in Live : table[i].first \in Block
      /\ \A h \in Open : w[h].blk \in Block
  BY Typed
<1>2. /\ x \in Block /\ flash[x] = ErasedBlock(TRUE)
      /\ \A i \in 1 .. Len(available) : available[i] # x
  BY DEF FreshInv, Fresh, InAvailable, InHandOrLinked, TypeInv, StateInv, CallInv
<1>3. /\ flash[x].type = "erased" /\ flash[x].sec = {} /\ flash[x].next = None /\ flash[x].key
  BY <1>2 DEF ErasedBlock
<1>4. dirty.block = None
  BY DEF DirtyInv
<1>5. ASSUME pc = "link", NEW c \in Block, flash[c].next = x PROVE FALSE
  <2>1. flash[c].type # "erased"
    <3>1. SUFFICES ASSUME flash[c] = ErasedBlock(flash[c].key) PROVE FALSE
      BY DEF BlockInv
    <3>2. flash[c].next = None
      BY <3>1 DEF ErasedBlock
    <3> QED BY <1>1, <1>2, <1>5, <3>2
  <2>2. flash[c].type \in { "erased", "inode", "file" }
    BY Typed DEF Blocks
  <2> QED BY <1>1, <1>2, <1>3, <1>4, <1>5, <2>1, <2>2 DEF LinkInv, InChain, FileBlock
<1>6. \A i \in Live : table[i].first # x /\ FileBlock(table[i].first, i)
  BY <1>1, <1>3, <1>4 DEF LinkInv, InChain, FileBlock
<1>7. \A h \in Open : w[h].blk # x /\ FileBlock(w[h].blk, w[h].id)
  BY <1>1, <1>3, <1>4 DEF WriterInv, FileBlock
<1>8. x # Inode0
  BY <1>3 DEF InodeInv
<1> QED BY <1>1, <1>2, <1>3, <1>4, <1>5, <1>6, <1>7, <1>8

(* The inode block that is full but for one entry is the last one.         *)
LEMMA LastIsEntryBlock ==
  ASSUME TypeInv, CareInv, pc = "link", op.for = "inode"
  PROVE  /\ EntryBlock(Len(table) + 1) = LastInode /\ LastInode \in Block
         /\ NeedsInodeBlock /\ Settled
<1>1. NeedsInodeBlock /\ Settled
  BY DEF CareInv, GrowthInv, Entering, Claiming
<1>2. /\ Len(table) \in Nat /\ Len(ichain) \in Nat /\ EntriesPerBlock \in Nat \ {0}
      /\ ichain \in Seq(Block) /\ Len(ichain) # 0
  BY FlogAssumption DEF TypeInv, StateInv, FlogTypeOK, RoomInv, InodeRoom
<1>3. (Len(table) + 1) - 1 = Len(table)
  BY <1>2
<1>4. EntryBlock(Len(table) + 1) = LastInode
  BY <1>1, <1>3 DEF EntryBlock, LastInode, Settled
<1> QED BY <1>1, <1>2, <1>4, ElementOfSeq DEF LastInode

LEMMA InodeTailKeeps ==
  ASSUME TypeInv, CareInv, InodeTail
  PROVE  CareInv'
<1> USE DEF CareInv
<1>0. PICK x \in Block : x = op.blk
  BY HandUnlinked DEF InodeTail
<1>1. /\ pc = "link" /\ pc' = "init" /\ op.for = "inode" /\ ichain' = Append(ichain, x)
      /\ UNCHANGED << available, n, table, dirty, w, wopen, op >>
  BY <1>0 DEF InodeTail, RemovePending
<1>2. PICK last \in Block : last = LastInode /\ last = EntryBlock(Len(table) + 1)
  BY <1>1, LastIsEntryBlock
<1>3. /\ flash \in [ Block -> Blocks ] /\ None \notin Block /\ Inode0 \in Block
      /\ LastPos \in Nat \ { 0 } /\ \A i \in Live : table[i].first \in Block
  BY Typed
<1>4. /\ flash[last].type = "inode" /\ flash[last].sec = { 0 } /\ flash[last].next = None
      /\ flash[last].key
  BY <1>1, <1>2, <1>3 DEF InodeInv, BlockInv
<1>5. /\ flash'[last].key /\ flash'[last].type = "inode" /\ flash'[last].next = x
      /\ LastPos \in flash'[last].sec
      /\ \A c \in Block \ { last } : flash'[c] = flash[c]
  <2>1. flash' = Program(last, LastPos, flash[last].type, flash[last].owner, x)
    BY <1>0, <1>2 DEF InodeTail
  <2> HIDE DEF CareInv
  <2> QED BY <1>3, <1>4, <2>1, ProgramEffect
<1>6. panic' = "no"
  BY <1>2, <1>3, <1>4 DEF InodeTail, PanicIfProgrammed, Programmed
<1>7. /\ flash[x] = ErasedBlock(TRUE)
      /\ flash[x].type = "erased" /\ flash[x].next = None
      /\ \A i \in 1 .. Len(available) : available[i] # x
      /\ dirty.block = None /\ x # Inode0
      /\ \A c \in Block : flash[c].next # x
      /\ \A i \in Live : table[i].first # x /\ FileBlock(table[i].first, i)
      /\ \A h \in Open : w[h].blk # x /\ FileBlock(w[h].blk, w[h].id) /\ w[h].blk \in Block
  BY <1>0, <1>1, HandUnlinked
<1>8. /\ ~ Removing /\ ~ Removing' /\ Live' = Live /\ Open' = Open
      /\ x # last /\ \A i \in Live : table[i].first # last
      /\ \A h \in Open : w[h].blk # last
  <2>1. ~ Removing /\ ~ Removing' /\ Live' = Live /\ Open' = Open
    BY <1>1 DEF Removing, Live, Open
  <2>2. x # last
    BY <1>4, <1>7
  <2>3. \A i \in Live : table[i].first # last
    BY <1>4, <1>7 DEF FileBlock
  <2>4. \A h \in Open : w[h].blk # last
    BY <1>4, <1>7 DEF FileBlock
  <2> QED BY <2>1, <2>2, <2>3, <2>4
<1>9. ASSUME NEW c \in Block, NEW i, FileBlock(c, i) PROVE FileBlock(c, i)'
  BY <1>4, <1>5, <1>9 DEF FileBlock
<1>10. BlockInv'
  <2> SUFFICES ASSUME NEW c \in Block
               PROVE  /\ flash'[c].type = "erased" => flash'[c] = ErasedBlock(flash'[c].key)
                      /\ flash'[c].type # "erased" => flash'[c].key
                      /\ flash'[c].next # None => LastPos \in flash'[c].sec
                      /\ flash'[c].type = "file" =>
                           /\ 0 \in flash'[c].sec /\ HasOwner(c)'
                           /\ \A p \in flash'[c].sec : \A q \in 0 .. p - 1 : q \in flash'[c].sec
    BY DEF BlockInv
  <2>1. CASE c = last
    BY <1>5, <2>1
  <2>2. CASE c # last
    BY <1>5, <1>8, <2>2 DEF BlockInv, HasOwner
  <2> QED BY <2>1, <2>2
<1>11. FreshInv'
  <2>1. \A i \in 1 .. Len(available) :
          available[i] \in Block /\ available[i] # last /\ flash[available[i]] = ErasedBlock(TRUE)
    <3> SUFFICES ASSUME NEW i \in 1 .. Len(available)
                 PROVE  /\ available[i] \in Block /\ available[i] # last
                        /\ flash[available[i]] = ErasedBlock(TRUE)
      OBVIOUS
    <3>1. available[i] \in Block /\ flash[available[i]] = ErasedBlock(TRUE)
      BY ListedTyped DEF FreshInv, ListedBlocksAreErased
    <3>2. flash[last] # ErasedBlock(TRUE)
      BY <1>4 DEF ErasedBlock
    <3> QED BY <3>1, <3>2
  <2>2. ListedBlocksAreErased'
    BY <1>1, <1>5, <2>1 DEF ListedBlocksAreErased
  <2> QED BY <1>0, <1>1, <1>5, <1>7, <1>8, <2>2 DEF FreshInv, Fresh, InAvailable
<1>12. DirtyInv'
  BY <1>1, <1>7 DEF DirtyInv
<1>13. LinkInv'
  <2>1. \A i \in Live : InChain(table[i].first, i)'
    BY <1>1, <1>3, <1>7, <1>9 DEF InChain, FileBlock
  <2>2. ASSUME NEW c \in Block, flash'[c].next # None
        PROVE  /\ flash'[c].type = "file" => InChain(flash[c].next, flash[c].owner)'
               /\ flash'[c].type = "inode" =>
                    flash'[flash'[c].next].type = "inode" \/ flash'[c].next = x
    <3>1. CASE c = last
      BY <1>5, <3>1
    <3>2. CASE c # last
      <4>1. flash'[c] = flash[c] /\ flash[c].next # None /\ flash[c].next \in Block
        BY <1>3, <1>5, <2>2, <3>2 DEF Blocks
      <4>2. flash[c].type = "file" => FileBlock(flash[c].next, flash[c].owner)
        BY <1>3, <1>7, <4>1 DEF LinkInv, InChain
      <4>3. flash[c].type = "inode" => flash[flash[c].next].type = "inode"
        BY <1>1, <4>1 DEF LinkInv
      <4>4. flash'[flash[c].next] = flash[flash[c].next] \/ flash[c].next = last
        BY <1>5, <4>1
      <4>5. flash[c].type = "inode" => flash'[flash[c].next].type = "inode"
        BY <1>5, <4>3, <4>4
      <4>6. flash[c].type = "file" => InChain(flash[c].next, flash[c].owner)'
        BY <1>4, <4>1, <4>2, <4>4 DEF InChain, FileBlock
      <4> QED BY <4>1, <4>5, <4>6
    <3> QED BY <3>1, <3>2
  <2> QED BY <1>0, <1>1, <1>8, <2>1, <2>2 DEF LinkInv, InChain, FileBlock
<1>14. OneLinkInv'
  <2>1. \A c \in Block : flash'[c].next = IF c = last THEN x ELSE flash[c].next
    BY <1>5
  <2>2. \A c, d \in Block : flash'[c].next = flash'[d].next => flash'[c].next = None \/ c = d
    BY <1>7, <2>1 DEF OneLinkInv
  <2>3. \A i \in Live : \A c \in Block : flash'[c].next # table[i].first
    BY <1>7, <2>1 DEF OneLinkInv
  <2>4. \A c \in Block : flash'[c].next # Inode0
    BY <1>7, <2>1 DEF OneLinkInv
  <2> QED BY <1>1, <1>8, <2>2, <2>3, <2>4 DEF OneLinkInv
<1>15. InodeInv' /\ GrowthInv'
  <2>1. ichain \in Seq(Block) /\ Len(ichain) \in Nat /\ EntriesPerBlock \in Nat \ {0}
        /\ Len(table) \in Nat /\ Len(table) \div EntriesPerBlock \in Int
    BY FlogAssumption DEF TypeInv, StateInv, FlogTypeOK
  <2>2. Len(ichain') = Len(ichain) + 1 /\ ichain'[Len(ichain) + 1] = x
    BY <1>1, <2>1
  <2>3. LastInode' = x
    BY <2>2 DEF LastInode
  <2>4. NeedsInodeBlock /\ Settled
    BY <1>1, LastIsEntryBlock
  <2>5. Ahead'
    BY <1>1, <2>1, <2>2, <2>4 DEF Settled, Ahead, NeedsInodeBlock
  <2>6. GrowthInv'
    BY <1>1, <2>5 DEF GrowthInv, Entering, Claiming, NeedsInodeBlock, Ahead
  <2>7. flash'[Inode0].type = "inode"
    BY <1>3, <1>4, <1>5 DEF InodeInv
  <2> QED BY <1>0, <1>1, <2>3, <2>6, <2>7 DEF InodeInv
<1>16. WriterInv'
  <2>1. \A h \in Open : flash'[w[h].blk] = flash[w[h].blk]
    BY <1>5, <1>7, <1>8
  <2> QED BY <1>1, <1>7, <1>8, <2>1 DEF WriterInv, WriterAtEnd, FileBlock
<1>17. WalkInv'
  BY <1>1 DEF WalkInv, Removing
<1>18. LinkedInv'
  <2>1. ASSUME NEW c \in Block, Linked(c) PROVE Linked(c)'
    <3>1. ASSUME NEW d \in Block, flash[d].type = "file", flash[d].next = c PROVE Linked(c)'
      BY <1>4, <1>5, <3>1 DEF Linked
    <3> QED BY <1>1, <1>8, <2>1, <3>1 DEF Linked
  <2>2. ASSUME NEW c \in Block, flash'[c].type = "file" \/ c = dirty'.block PROVE Linked(c)
    BY <1>1, <1>3, <1>5, <1>7, <2>2 DEF LinkedInv
  <2> QED BY <2>1, <2>2 DEF LinkedInv
<1> QED BY <1>6, <1>10, <1>11, <1>12, <1>13, <1>14, <1>15, <1>16, <1>17, <1>18

LEMMA InodeInitKeeps ==
  ASSUME TypeInv, CareInv, InodeInit
  PROVE  CareInv'
<1> USE DEF CareInv
<1>0. PICK x \in Block : x = op.blk
  BY HandUnlinked DEF InodeInit
<1>1. /\ pc = "init" /\ pc' = "flush" /\ op'.for = "file"
      /\ UNCHANGED << available, n, table, ichain, dirty, w, wopen >>
  BY <1>0 DEF InodeInit, RemovePending, TypeInv, StateInv, FlogTypeOK, CallStates
<1>2. /\ flash \in [ Block -> Blocks ] /\ None \notin Block /\ Inode0 \in Block
      /\ LastPos \in Nat \ { 0 } /\ \A i \in Live : table[i].first \in Block
  BY Typed
<1>3. /\ flash[x] = ErasedBlock(TRUE) /\ flash[x].key
      /\ flash[x].type = "erased" /\ flash[x].next = None /\ flash[x].sec = {}
      /\ \A i \in 1 .. Len(available) : available[i] # x
      /\ dirty.block = None /\ x # Inode0
      /\ \A i \in Live : table[i].first # x /\ FileBlock(table[i].first, i)
      /\ \A h \in Open : w[h].blk # x /\ FileBlock(w[h].blk, w[h].id) /\ w[h].blk \in Block
  BY <1>0, <1>1, HandUnlinked
<1>4. /\ flash'[x].key /\ flash'[x].type = "inode" /\ flash'[x].next = None
      /\ flash'[x].sec = { 0 }
      /\ \A c \in Block \ { x } : flash'[c] = flash[c]
  <2>1. flash' = Program(x, 0, "inode", flash[x].owner, flash[x].next)
    BY <1>0 DEF InodeInit
  <2>2. flash[x].sec \cup { 0 } = { 0 }
    BY <1>3
  <2>3. /\ flash'[x].key = flash[x].key /\ flash'[x].type = "inode"
        /\ flash'[x].sec = flash[x].sec \cup { 0 } /\ flash'[x].next = flash[x].next
        /\ \A c \in Block \ { x } : flash'[c] = flash[c]
    <3> HIDE DEF CareInv
    <3> QED BY <1>2, <2>1, ProgramEffect
  <2> QED BY <1>3, <2>2, <2>3
<1>5. panic' = "no"
  BY <1>0, <1>3 DEF InodeInit, PanicIfProgrammed, Programmed
<1>6. /\ ~ Removing /\ ~ Removing' /\ Live' = Live /\ Open' = Open
      /\ \A c \in Block : flash'[c].next = flash[c].next
  BY ZenonT(30), <1>1, <1>3, <1>4 DEF Removing, Live, Open
<1>7. ASSUME NEW c \in Block, NEW i, FileBlock(c, i) PROVE FileBlock(c, i)'
  BY <1>3, <1>4, <1>7 DEF FileBlock
<1>8. BlockInv'
  <2> SUFFICES ASSUME NEW c \in Block
               PROVE  /\ flash'[c].type = "erased" => flash'[c] = ErasedBlock(flash'[c].key)
                      /\ flash'[c].type # "erased" => flash'[c].key
                      /\ flash'[c].next # None => LastPos \in flash'[c].sec
                      /\ flash'[c].type = "file" =>
                           /\ 0 \in flash'[c].sec /\ HasOwner(c)'
                           /\ \A p \in flash'[c].sec : \A q \in 0 .. p - 1 : q \in flash'[c].sec
    BY DEF BlockInv
  <2>1. CASE c = x
    BY <1>4, <2>1
  <2>2. CASE c # x
    BY <1>4, <1>6, <2>2 DEF BlockInv, HasOwner
  <2> QED BY <2>1, <2>2
<1>9. FreshInv'
  <2>1. \A i \in 1 .. Len(available) :
          available[i] \in Block /\ flash[available[i]] = ErasedBlock(TRUE)
    BY ListedTyped DEF FreshInv, ListedBlocksAreErased
  <2>2. ListedBlocksAreErased'
    BY <1>1, <1>3, <1>4, <2>1 DEF ListedBlocksAreErased
  <2> QED BY <1>1, <1>3, <2>2 DEF FreshInv, InHandOrLinked
<1>10. DirtyInv'
  BY <1>1, <1>3 DEF DirtyInv
<1>11. LinkInv'
  <2>1. \A i \in Live : InChain(table[i].first, i)'
    BY <1>1, <1>2, <1>3, <1>7 DEF InChain, FileBlock
  <2>2. ASSUME NEW c \in Block, flash'[c].next # None
        PROVE  /\ flash'[c].type = "file" => InChain(flash[c].next, flash[c].owner)'
               /\ flash'[c].type = "inode" => flash'[flash'[c].next].type = "inode"
    <3>1. c # x /\ flash'[c] = flash[c] /\ flash[c].next # None /\ flash[c].next \in Block
      BY <1>2, <1>4, <2>2 DEF Blocks
    <3>2. flash[c].type = "file" => FileBlock(flash[c].next, flash[c].owner)
      BY <1>2, <1>3, <3>1 DEF LinkInv, InChain
    <3>3. flash[c].type = "inode" => flash[flash[c].next].type = "inode" \/ flash[c].next = x
      BY <1>0, <3>1 DEF LinkInv
    <3>4. flash'[flash[c].next] = flash[flash[c].next] \/ flash[c].next = x
      BY <1>4, <3>1
    <3>5. flash[c].type = "inode" => flash'[flash[c].next].type = "inode"
      BY <1>4, <3>3, <3>4
    <3>6. flash[c].type = "file" => InChain(flash[c].next, flash[c].owner)'
      BY ZenonT(30), <1>3, <3>1, <3>2, <3>4 DEF InChain, FileBlock
    <3> QED BY <3>1, <3>5, <3>6
  <2> QED BY <1>1, <1>6, <2>1, <2>2 DEF LinkInv, InChain, FileBlock
<1>12. OneLinkInv'
  BY <1>1, <1>6 DEF OneLinkInv
<1>13. InodeInv'
  <2>1. LastInode' = x
    BY <1>0, <1>1 DEF InodeInv, LastInode
  <2>2. flash'[Inode0].type = "inode"
    BY <1>2, <1>3, <1>4 DEF InodeInv
  <2> QED BY <1>1, <1>4, <2>1, <2>2 DEF InodeInv
<1>14. GrowthInv'
  BY <1>1 DEF GrowthInv, Settled, Ahead, Entering, Claiming, NeedsInodeBlock
<1>15. WriterInv'
  <2>1. \A h \in Open : flash'[w[h].blk] = flash[w[h].blk]
    BY <1>3, <1>4
  <2> QED BY <1>1, <1>3, <1>6, <2>1 DEF WriterInv, WriterAtEnd, FileBlock
<1>16. WalkInv'
  BY <1>1 DEF WalkInv, Removing
<1>17. LinkedInv'
  <2>1. ASSUME NEW c \in Block, Linked(c) PROVE Linked(c)'
    <3>1. ASSUME NEW d \in Block, flash[d].type = "file", flash[d].next = c PROVE Linked(c)'
      BY <1>3, <1>4, <3>1 DEF Linked
    <3> QED BY <1>1, <1>6, <2>1, <3>1 DEF Linked
  <2>2. ASSUME NEW c \in Block, flash'[c].type = "file" \/ c = dirty'.block PROVE Linked(c)
    BY <1>1, <1>2, <1>3, <1>4, <2>2 DEF LinkedInv
  <2> QED BY <2>1, <2>2 DEF LinkedInv
<1> QED BY <1>5, <1>8, <1>9, <1>10, <1>11, <1>12, <1>13, <1>14, <1>15, <1>16, <1>17

LEMMA FileEntryKeeps ==
  ASSUME TypeInv, IdsInOrder, CareInv, FileEntry
  PROVE  CareInv'
<1> USE DEF CareInv
<1> DEFINE new == Len(table) + 1
<1>0. PICK x \in Block : x = op.blk
  BY HandUnlinked DEF FileEntry
<1>01. PICK h \in Handle : h = op.h
  BY DEF FileEntry, TypeInv, StateInv, CallInv, Claiming
<1>02. PICK i : i = new
  OBVIOUS
<1>1. /\ pc = "link" /\ pc' = "idle" /\ op.for = "file"
      /\ dirty' = [ block |-> x, file |-> h ] /\ wopen' = Append(wopen, h)
      /\ UNCHANGED << available, n, flash, ichain, panic >>
  BY <1>0, <1>01 DEF FileEntry, RemovePending, MadeDirty
<1>2. /\ flash \in [ Block -> Blocks ] /\ None \notin Block
      /\ Live \subseteq 1 .. Len(table) /\ Len(table) \in Nat /\ i = Len(table) + 1 /\ i \in Nat
      /\ \A j \in Live : table[j].first \in Block
      /\ Open \subseteq Handle /\ w \in [ Handle -> HandleStates ]
      /\ wopen \in Seq(Handle) /\ maxId + 1 = i
  <2>1. maxId = Len(table)
    BY <1>1 DEF IdsInOrder
  <2> QED BY <1>02, <2>1, Typed DEF TypeInv, StateInv, FlogTypeOK
<1>3. /\ flash[x] = ErasedBlock(TRUE)
      /\ flash[x].next = None /\ flash[x].sec = {}
      /\ \A j \in 1 .. Len(available) : available[j] # x
      /\ dirty.block = None
      /\ \A c \in Block : flash[c].next # x
      /\ \A j \in Live : table[j].first # x /\ FileBlock(table[j].first, j)
      /\ \A g \in Open : w[g].blk # x /\ FileBlock(w[g].blk, w[g].id) /\ w[g].blk \in Block
  BY <1>0, <1>1, HandUnlinked
<1>4. /\ Len(table') = i /\ table'[i].first = x /\ ~ table'[i].dead
      /\ \A j \in 1 .. Len(table) : table'[j] = table[j]
  <2> DEFINE e == [ name |-> op.name, id |-> maxId + 1, first |-> op.blk, dead |-> FALSE ]
  <2>1. table' = Append(table, e) /\ e.first = x /\ ~ e.dead
    BY <1>0 DEF FileEntry
  <2> HIDE DEF e
  <2> QED BY <1>2, <2>1 DEF TypeInv, StateInv, FlogTypeOK
<1>5. /\ Live' = Live \cup { i } /\ i \notin Live
      /\ \A j \in Live : table'[j].first = table[j].first
  <2>1. \A j \in Live : table'[j] = table[j]
    BY <1>2, <1>4
  <2>2. ASSUME NEW j \in Live' PROVE j \in Live \cup { i }
    <3>1. j \in 1 .. i /\ ~ table'[j].dead
      BY <1>4 DEF Live
    <3>2. j = i \/ j \in 1 .. Len(table)
      BY <1>2, <3>1
    <3> QED BY <1>4, <3>1, <3>2 DEF Live
  <2>3. i \in Live' /\ \A j \in Live : j \in Live'
    <3>1. \A j \in 1 .. Len(table) : j \in 1 .. i
      BY <1>2
    <3>2. i \in 1 .. i
      BY <1>2
    <3> QED BY <1>2, <1>4, <2>1, <3>1, <3>2 DEF Live
  <2>4. i \notin Live
    BY <1>2
  <2> QED BY <2>1, <2>2, <2>3, <2>4
<1>6. /\ w'[h].id = i /\ w'[h].blk = x /\ w'[h].pos = 0 /\ w'[h].hdr
      /\ \A g \in Handle \ { h } : w'[g] = w[g]
  BY <1>0, <1>01, <1>2 DEF FileEntry
<1>7. Open' = Open \cup { h }
  BY <1>1, <1>2, OpenAppend
<1>8. /\ ~ Removing /\ ~ Removing' /\ ~ Claiming' /\ ~ InHandOrLinked'
      /\ dirty'.block = x /\ dirty'.file = h
  BY <1>1 DEF Removing, Claiming, InHandOrLinked
<1>9. BlockInv'
  <2> SUFFICES ASSUME NEW c \in Block, flash[c].type = "file" PROVE HasOwner(c)'
    BY <1>1 DEF BlockInv
  <2> QED BY <1>1, <1>5, <1>8 DEF BlockInv, HasOwner
<1>10. FreshInv'
  BY <1>1, <1>3, <1>8 DEF FreshInv, ListedBlocksAreErased, Fresh, InAvailable
<1>11. DirtyInv'
  BY <1>1, <1>6, <1>7, <1>8 DEF DirtyInv
<1>12. LinkInv'
  <2>1. \A j \in Live' : InChain(table[j].first, j)'
    <3> SUFFICES ASSUME NEW j \in Live'
                 PROVE  FileBlock(table'[j].first, j) \/ (table'[j].first = x /\ i = j)
      BY <1>1, <1>6, <1>8 DEF InChain, FileBlock
    <3> QED BY <1>3, <1>4, <1>5
  <2>2. \A c \in Block : flash[c].next # None /\ flash[c].type = "file"
                           => FileBlock(flash[c].next, flash[c].owner)
    <3> SUFFICES ASSUME NEW c \in Block, flash[c].next # None, flash[c].type = "file"
                 PROVE  FileBlock(flash[c].next, flash[c].owner)
      OBVIOUS
    <3>1. flash[c].next \in Block /\ InChain(flash[c].next, flash[c].owner)
      BY <1>2 DEF LinkInv, Blocks
    <3> QED BY <1>2, <1>3, <3>1 DEF InChain
  <2>3. \A c \in Block : flash[c].next # None /\ flash[c].type = "inode"
                           => flash[flash[c].next].type = "inode"
    BY <1>1 DEF LinkInv
  <2> QED BY <1>1, <2>1, <2>2, <2>3 DEF LinkInv, InChain, FileBlock
<1>13. OneLinkInv'
  <2>1. \A j, k \in Live' : table'[j].first = table'[k].first => j = k
    BY <1>3, <1>4, <1>5 DEF OneLinkInv
  <2>2. \A j \in Live' : \A c \in Block : flash[c].next # table'[j].first
    BY <1>3, <1>4, <1>5 DEF OneLinkInv
  <2> QED BY <1>1, <1>8, <2>1, <2>2 DEF OneLinkInv
<1>14. InodeInv'
  BY <1>1 DEF InodeInv, LastInode
<1>15. GrowthInv'
  <2>1. /\ Len(ichain) \in Nat /\ EntriesPerBlock \in Nat \ {0}
        /\ Len(table) \div EntriesPerBlock \in Int
    BY <1>2, FlogAssumption DEF TypeInv, StateInv, FlogTypeOK
  <2>2. CASE NeedsInodeBlock
    <3>1. Ahead
      BY <1>1, <2>2 DEF GrowthInv, Entering, Claiming
    <3>2. i \div EntriesPerBlock = Len(table) \div EntriesPerBlock + 1
      BY <1>2, <2>1, <2>2, NextEntry DEF NeedsInodeBlock
    <3>3. Len(ichain) = i \div EntriesPerBlock + 1
      BY <2>1, <3>1, <3>2 DEF Ahead
    <3>4. Settled' /\ ~ Ahead'
      BY <1>1, <1>4, <2>1, <3>2, <3>3 DEF Settled, Ahead
    <3> QED BY <1>1, <1>8, <3>4 DEF GrowthInv, Entering
  <2>3. CASE ~ NeedsInodeBlock
    <3>1. Settled
      BY <2>3 DEF GrowthInv, Ahead
    <3>2. i \div EntriesPerBlock = Len(table) \div EntriesPerBlock
      BY <1>2, <2>1, <2>3, NextEntry DEF NeedsInodeBlock
    <3>3. Settled' /\ ~ Ahead'
      BY <1>1, <1>4, <2>1, <3>1, <3>2 DEF Settled, Ahead
    <3> QED BY <1>1, <1>8, <3>3 DEF GrowthInv, Entering
  <2> QED BY <2>2, <2>3
<1>16. WriterInv'
  <2>1. ASSUME NEW g \in Open'
        PROVE  /\ flash[w'[g].blk].sec = 0 .. w'[g].pos - 1 /\ flash[w'[g].blk].next = None
               /\ w'[g].id \in Live'
               /\ FileBlock(w'[g].blk, w'[g].id) \/ (w'[g].blk = x /\ h = g)
    <3>1. CASE g = h
      <4>1. {} = 0 .. 0 - 1
        OBVIOUS
      <4> QED BY <1>3, <1>5, <1>6, <3>1, <4>1
    <3>2. CASE g # h
      <4>1. g \in Open /\ w'[g] = w[g]
        BY <1>2, <1>6, <1>7, <3>2
      <4> QED BY <1>3, <1>5, <4>1 DEF WriterInv, WriterAtEnd
    <3> QED BY <3>1, <3>2
  <2>2. \A f, g \in Open' : w'[f].id = w'[g].id => f = g
    <3>1. \A g \in Open' : g # h => g \in Open /\ w'[g] = w[g] /\ w[g].id # i
      BY <1>2, <1>5, <1>6, <1>7 DEF WriterInv
    <3> QED BY <1>6, <3>1 DEF WriterInv
  <2> QED BY <1>1, <1>8, <2>1, <2>2 DEF WriterInv, WriterAtEnd, FileBlock
<1>17. WalkInv'
  BY <1>1 DEF WalkInv, Removing
<1>18. LinkedInv'
  <2>1. ASSUME NEW c \in Block, Linked(c) PROVE Linked(c)'
    BY <1>1, <1>5, <1>8, <2>1 DEF Linked
  <2>2. Linked(x)'
    BY <1>4, <1>5 DEF Linked
  <2> QED BY <1>1, <1>8, <2>1, <2>2 DEF LinkedInv
<1> QED BY <1>1, <1>9, <1>10, <1>11, <1>12, <1>13, <1>14, <1>15, <1>16, <1>17, <1>18

LEMMA TailLinkKeeps ==
  ASSUME TypeInv, CareInv, TailLink
  PROVE  CareInv'
<1> USE DEF CareInv
<1>0. PICK x \in Block : x = op.blk
  BY HandUnlinked DEF TailLink
<1>01. PICK h \in Open : h = op.h
  BY DEF TailLink, TypeInv, StateInv, CallInv, Claiming
<1>02. PICK b : b = w[h].blk
  OBVIOUS
<1>03. PICK i : i = w[h].id
  OBVIOUS
<1>1. /\ pc = "link" /\ pc' = "idle" /\ op.for = "tail"
      /\ dirty'.block = x /\ dirty'.file = h
      /\ UNCHANGED << available, n, table, ichain, wopen >>
  BY <1>0, <1>01 DEF TailLink, RemovePending, MadeDirty
<1>2. /\ flash \in [ Block -> Blocks ] /\ None \notin Block /\ Inode0 \in Block
      /\ \A j \in Live : table[j].first \in Block
      /\ Open \subseteq Handle /\ w \in [ Handle -> HandleStates ] /\ h \in Handle
      /\ LastPos \in Nat \ { 0 }
  BY Typed
<1>3. /\ flash[x] = ErasedBlock(TRUE)
      /\ flash[x].type = "erased" /\ flash[x].next = None /\ flash[x].sec = {}
      /\ \A j \in 1 .. Len(available) : available[j] # x
      /\ dirty.block = None /\ x # Inode0
      /\ \A c \in Block : flash[c].next # x
      /\ \A j \in Live : table[j].first # x /\ FileBlock(table[j].first, j)
      /\ \A g \in Open : w[g].blk # x /\ FileBlock(w[g].blk, w[g].id) /\ w[g].blk \in Block
  BY <1>0, <1>1, HandUnlinked
<1>4. /\ b \in Block /\ FileBlock(b, i) /\ b # x /\ i \in Live
      /\ flash[b].sec = 0 .. LastPos - 1 /\ flash[b].next = None /\ flash[b].key
  <2>1. b \in Block /\ FileBlock(b, i) /\ b # x
    BY <1>02, <1>03, <1>3
  <2>2. w[h].pos = LastPos /\ i \in Live
    BY <1>01, <1>03, <1>1 DEF WriterInv, Claiming
  <2> QED BY <1>02, <2>1, <2>2 DEF WriterInv, WriterAtEnd, BlockInv, FileBlock
<1>5. /\ flash'[b].key /\ flash'[b].type = "file" /\ flash'[b].owner = i
      /\ flash'[b].next = x /\ flash'[b].sec = 0 .. LastPos
      /\ \A c \in Block \ { b } : flash'[c] = flash[c]
  <2>1. flash' = Program(b, LastPos, flash[b].type, flash[b].owner, x)
    BY <1>0, <1>01, <1>02 DEF TailLink
  <2>2. flash[b].sec \cup { LastPos } = 0 .. LastPos
    BY <1>2, <1>4
  <2>3. /\ flash'[b].key = flash[b].key /\ flash'[b].type = flash[b].type
        /\ flash'[b].owner = flash[b].owner /\ flash'[b].next = x
        /\ flash'[b].sec = flash[b].sec \cup { LastPos }
        /\ \A c \in Block \ { b } : flash'[c] = flash[c]
    <3> DEFINE t == flash[b].type  o == flash[b].owner
    <3>1. /\ flash' = Program(b, LastPos, t, o, x)
          /\ flash \in [ Block -> Blocks ] /\ b \in Block
      BY <1>2, <1>4, <2>1
    <3> HIDE DEF CareInv, t, o
    <3>2. /\ flash'[b].key = flash[b].key /\ flash'[b].type = t
          /\ flash'[b].owner = o /\ flash'[b].next = x
          /\ flash'[b].sec = flash[b].sec \cup { LastPos }
          /\ \A c \in Block \ { b } : flash'[c] = flash[c]
      BY <3>1, ProgramEffect
    <3> QED BY <3>2 DEF t, o
  <2> QED BY <1>4, <2>2, <2>3 DEF FileBlock
<1>6. panic' = "no"
  <2>1. LastPos \notin flash[b].sec /\ flash[b].type # "inode"
    BY <1>2, <1>4 DEF FileBlock
  <2> QED BY <1>01, <1>02, <2>1 DEF TailLink, PanicOnHandleWrite, Programmed
<1>7. /\ w'[h].id = i /\ w'[h].blk = x /\ w'[h].pos = 0 /\ w'[h].hdr
      /\ \A g \in Handle \ { h } : w'[g] = w[g]
  BY <1>0, <1>01, <1>03, <1>2 DEF TailLink
<1>8. /\ ~ Removing /\ ~ Removing' /\ ~ Claiming' /\ ~ InHandOrLinked'
      /\ Live' = Live /\ Open' = Open
  BY <1>1 DEF Removing, Claiming, InHandOrLinked, Live, Open
<1>9. ASSUME NEW c \in Block, NEW j, FileBlock(c, j) PROVE FileBlock(c, j)'
  BY <1>4, <1>5, <1>9 DEF FileBlock
<1>10. BlockInv'
  <2> SUFFICES ASSUME NEW c \in Block
               PROVE  /\ flash'[c].type = "erased" => flash'[c] = ErasedBlock(flash'[c].key)
                      /\ flash'[c].type # "erased" => flash'[c].key
                      /\ flash'[c].next # None => LastPos \in flash'[c].sec
                      /\ flash'[c].type = "file" =>
                           /\ 0 \in flash'[c].sec /\ HasOwner(c)'
                           /\ \A p \in flash'[c].sec : \A q \in 0 .. p - 1 : q \in flash'[c].sec
    BY DEF BlockInv
  <2>1. CASE c = b
    <3>1. HasOwner(c)'
      BY <1>4, <1>5, <1>8, <2>1 DEF HasOwner
    <3>2. LastPos \in 0 .. LastPos /\ 0 \in 0 .. LastPos
          /\ \A p \in 0 .. LastPos : \A q \in 0 .. p - 1 : q \in 0 .. LastPos
      BY <1>2
    <3> QED BY <1>5, <2>1, <3>1, <3>2
  <2>2. CASE c # b
    BY <1>5, <1>8, <2>2 DEF BlockInv, HasOwner
  <2> QED BY <2>1, <2>2
<1>11. FreshInv'
  <2>1. \A j \in 1 .. Len(available) :
          available[j] \in Block /\ available[j] # b /\ flash[available[j]] = ErasedBlock(TRUE)
    <3> SUFFICES ASSUME NEW j \in 1 .. Len(available)
                 PROVE  /\ available[j] \in Block /\ available[j] # b
                        /\ flash[available[j]] = ErasedBlock(TRUE)
      OBVIOUS
    <3>1. available[j] \in Block /\ flash[available[j]] = ErasedBlock(TRUE)
      BY ListedTyped DEF FreshInv, ListedBlocksAreErased
    <3>2. flash[b] # ErasedBlock(TRUE)
      BY <1>4 DEF FileBlock, ErasedBlock
    <3> QED BY <3>1, <3>2
  <2>2. ListedBlocksAreErased'
    BY <1>1, <1>5, <2>1 DEF ListedBlocksAreErased
  <2>3. flash'[x] = ErasedBlock(TRUE)
    BY <1>3, <1>4, <1>5
  <2> QED BY <1>1, <1>3, <1>8, <2>2, <2>3 DEF FreshInv, Fresh, InAvailable
<1>12. DirtyInv'
  BY <1>1, <1>7, <1>8 DEF DirtyInv
<1>13. LinkInv'
  <2>1. \A j \in Live : InChain(table[j].first, j)'
    BY <1>1, <1>2, <1>3, <1>9 DEF InChain, FileBlock
  <2>2. ASSUME NEW c \in Block, flash'[c].next # None
        PROVE  /\ flash'[c].type = "file" => InChain(flash[c].next, flash[c].owner)'
               /\ flash'[c].type = "inode" => flash'[flash'[c].next].type = "inode"
    <3>1. CASE c = b
      BY <1>1, <1>5, <1>7, <3>1 DEF InChain
    <3>2. CASE c # b
      <4>1. flash'[c] = flash[c] /\ flash[c].next # None /\ flash[c].next \in Block
        BY <1>2, <1>5, <2>2, <3>2 DEF Blocks
      <4>2. flash[c].type = "file" => FileBlock(flash[c].next, flash[c].owner)
        BY <1>2, <1>3, <4>1 DEF LinkInv, InChain
      <4>3. flash[c].type = "inode" => flash[flash[c].next].type = "inode"
        BY <1>1, <4>1 DEF LinkInv
      <4>4. flash'[flash[c].next] = flash[flash[c].next] \/ flash[c].next = b
        BY <1>5, <4>1
      <4>5. flash[c].type = "inode" => flash'[flash[c].next].type = "inode"
        BY <1>4, <4>3, <4>4 DEF FileBlock
      <4>6. flash[c].type = "file" => InChain(flash[c].next, flash[c].owner)'
        BY <1>4, <1>5, <4>1, <4>2, <4>4 DEF InChain, FileBlock
      <4> QED BY <4>1, <4>5, <4>6
    <3> QED BY <3>1, <3>2
  <2> QED BY <1>1, <1>8, <2>1, <2>2 DEF LinkInv, InChain, FileBlock
<1>14. OneLinkInv'
  <2>1. \A c \in Block : flash'[c].next = IF c = b THEN x ELSE flash[c].next
    BY <1>5
  <2>2. \A c, d \in Block : flash'[c].next = flash'[d].next => flash'[c].next = None \/ c = d
    BY <1>3, <2>1 DEF OneLinkInv
  <2>3. \A j \in Live : \A c \in Block : flash'[c].next # table[j].first
    BY <1>3, <2>1 DEF OneLinkInv
  <2>4. \A c \in Block : flash'[c].next # Inode0
    BY <1>3, <2>1 DEF OneLinkInv
  <2> QED BY <1>1, <1>8, <2>2, <2>3, <2>4 DEF OneLinkInv
<1>15. InodeInv'
  <2>1. LastInode' = LastInode /\ LastInode \in Block
    <3>1. ichain \in Seq(Block) /\ Len(ichain) \in Nat /\ Len(ichain) # 0
      BY FlogAssumption DEF TypeInv, StateInv, FlogTypeOK, RoomInv, InodeRoom
    <3> QED BY <1>1, <3>1, ElementOfSeq DEF LastInode
  <2>2. LastInode # b /\ Inode0 # b
    BY <1>1, <1>4 DEF InodeInv, FileBlock
  <2> QED BY <1>1, <1>2, <1>5, <2>1, <2>2 DEF InodeInv
<1>16. GrowthInv'
  BY <1>1 DEF GrowthInv, Settled, Ahead, Entering, Claiming, NeedsInodeBlock
<1>17. WriterInv'
  <2>1. ASSUME NEW g \in Open
        PROVE  /\ flash'[w'[g].blk].sec = 0 .. w'[g].pos - 1 /\ flash'[w'[g].blk].next = None
               /\ w'[g].id \in Live
               /\ FileBlock(w[g].blk, w[g].id)' \/ (w'[g].blk = x /\ h = g)
    <3>1. CASE g = h
      <4>1. {} = 0 .. 0 - 1
        OBVIOUS
      <4> QED BY ZenonT(30), <1>3, <1>4, <1>5, <1>7, <3>1, <4>1
    <3>2. CASE g # h
      <4>1. w'[g] = w[g] /\ w[g].id # i /\ w[g].blk \in Block /\ FileBlock(w[g].blk, w[g].id)
        BY <1>03, <1>2, <1>3, <1>7, <3>2 DEF WriterInv
      <4>2. w[g].blk # b
        BY <1>4, <4>1 DEF FileBlock
      <4>3. flash'[w[g].blk] = flash[w[g].blk]
        BY <1>5, <4>1, <4>2
      <4> QED BY <4>1, <4>3 DEF WriterInv, WriterAtEnd, FileBlock
    <3> QED BY <3>1, <3>2
  <2>2. \A f, g \in Open : w'[f].id = w'[g].id => f = g
    BY <1>03, <1>2, <1>7 DEF WriterInv
  <2> QED BY <1>1, <1>8, <2>1, <2>2 DEF WriterInv, WriterAtEnd, FileBlock
<1>18. WalkInv'
  BY <1>1 DEF WalkInv, Removing
<1>19. LinkedInv'
  <2>1. ASSUME NEW c \in Block, Linked(c) PROVE Linked(c)'
    <3>1. ASSUME NEW d \in Block, flash[d].type = "file", flash[d].next = c, c # None
          PROVE  Linked(c)'
      <4>1. d # b /\ flash'[d] = flash[d]
        BY <1>4, <1>5, <3>1
      <4> QED BY <3>1, <4>1 DEF Linked
    <3> QED BY <1>1, <1>2, <1>8, <2>1, <3>1 DEF Linked
  <2>2. Linked(x)'
    BY <1>4, <1>5 DEF Linked
  <2>3. ASSUME NEW c \in Block, flash'[c].type = "file" PROVE Linked(c)
    BY <1>4, <1>5, <2>3 DEF LinkedInv, FileBlock
  <2> QED BY <1>1, <2>1, <2>2, <2>3 DEF LinkedInv
<1> QED BY <1>6, <1>10, <1>11, <1>12, <1>13, <1>14, <1>15, <1>16, <1>17, <1>18, <1>19

-----------------------------------------------------------------------------
(* Chains stay without a cycle.                                            *)

(* A link to a block that nothing leads to, and that leads nowhere.        *)
LEMMA RankOfLink ==
  ASSUME TypeInv, RankInv, NEW b \in Block, NEW x \in Block, b # x,
         \A c \in Block : flash[c].next # x, flash[x].next = None,
         \A c \in Block \ { b } : flash'[c].next = flash[c].next,
         flash'[b].next = x
  PROVE  RankInv'
<1>1. PICK rank \in [ Block -> Nat ] : Ranks(rank)
  BY DEF RankInv
<1> DEFINE new == [ rank EXCEPT ![x] = rank[b] + 1 ]
<1>2. /\ new \in [ Block -> Nat ] /\ new[x] = rank[b] + 1
      /\ \A c \in Block \ { x } : new[c] = rank[c]
  OBVIOUS
<1> HIDE DEF new
<1>3. \A c \in Block : flash[c].next \in Block \cup { None }
  BY Typed DEF Blocks
<1>4. ASSUME NEW c \in Block, flash'[c].next # None PROVE new[c] < new[flash'[c].next]
  <2>1. CASE c = b
    BY <1>2, <2>1
  <2>2. CASE c # b
    <3>1. flash'[c].next = flash[c].next /\ flash[c].next \in Block \ { x } /\ c # x
      BY <1>3, <1>4, <2>2
    <3> QED BY <1>1, <1>2, <1>4, <3>1 DEF Ranks
  <2> QED BY <2>1, <2>2
<1>5. Ranks(new)'
  BY <1>4 DEF Ranks
<1> QED BY <1>2, <1>5 DEF RankInv

(* The steps that link no block.                                           *)
LEMMA NoNewLink ==
  ASSUME TypeInv, Next, ~ InodeTail, ~ TailLink, NEW c \in Block
  PROVE  flash'[c].next \in { flash[c].next, None }
<1>0. flash \in [ Block -> Blocks ] /\ FlogTypeOK /\ HandleInv
  BY DEF TypeInv, StateInv, FlogTypeOK
<1>1. CASE Committing
  <2>1. ASSUME NEW h \in Handle, Commits(h) PROVE flash'[c].next = flash[c].next
    <3> DEFINE b == w[h].blk  p == w[h].pos  t == IF p = 0 THEN "file" ELSE flash[b].type
               nx == flash[b].next
    <3>1. PICK o : flash' = Program(b, p, t, o, nx)
      BY <2>1 DEF Commits, CommitSector
    <3>2. b \in Block
      BY <2>1 DEF Commits
    <3> HIDE DEF b, p, t, nx
    <3>3. flash'[b].next = nx /\ \A d \in Block \ { b } : flash'[d] = flash[d]
      BY <1>0, <3>1, <3>2, ProgramEffect
    <3> QED BY <3>2, <3>3 DEF nx
  <2> QED BY <1>0, <1>1, <2>1, CommittingStep
<1>2. ASSUME NEW b \in Block, Prime(b) PROVE flash'[c].next \in { flash[c].next, None }
  BY <1>0, <1>2 DEF Prime, ErasedBlock
<1>3. CASE InodeInit
  <2> DEFINE b == op.blk  o == flash[b].owner  nx == flash[b].next
  <2>1. flash' = Program(b, 0, "inode", o, nx) /\ b \in Block
    BY <1>3 DEF InodeInit, TypeInv, StateInv, CallInv
  <2> HIDE DEF b, o, nx
  <2>2. flash'[b].next = nx /\ \A d \in Block \ { b } : flash'[d] = flash[d]
    BY <1>0, <2>1, ProgramEffect
  <2> QED BY <2>1, <2>2 DEF nx
<1>4. CASE RmErase
  BY <1>0, <1>4 DEF RmErase, ErasedBlock
<1>5. CASE UNCHANGED flash
  BY <1>5
<1> QED BY <1>1, <1>2, <1>3, <1>4, <1>5, FlashSteps

LEMMA RankKept ==
  ASSUME TypeInv, CareInv, RankInv, Next
  PROVE  RankInv'
<1>1. CASE InodeTail
  <2>1. /\ pc = "link" /\ op.for = "inode" /\ op.blk \in Block
        /\ EntryBlock(Len(table) + 1) = LastInode /\ LastInode \in Block
    BY <1>1, LastIsEntryBlock, HandUnlinked DEF InodeTail
  <2>2. PICK b \in Block, x \in Block : b = LastInode /\ x = op.blk
    BY <2>1
  <2>3. /\ \A c \in Block : flash[c].next # x /\ flash[x].next = None
        /\ flash[b].type = "inode" /\ flash[x].type = "erased"
    BY <2>1, <2>2, HandUnlinked DEF CareInv, InodeInv
  <2> DEFINE t == flash[b].type  o == flash[b].owner
  <2>4. /\ flash' = Program(b, LastPos, t, o, x)
        /\ flash \in [ Block -> Blocks ]
    BY <1>1, <2>1, <2>2, Typed DEF InodeTail
  <2> HIDE DEF t, o
  <2>5. flash'[b].next = x /\ \A c \in Block \ { b } : flash'[c] = flash[c]
    BY <2>4, ProgramEffect
  <2> QED BY <2>3, <2>5, RankOfLink
<1>2. CASE TailLink
  <2>1. /\ pc = "link" /\ op.blk \in Block /\ op.h \in Open
        /\ w[op.h].blk \in Block /\ w[op.h].blk # op.blk
    BY <1>2, HandUnlinked DEF TailLink, TypeInv, StateInv, CallInv, Claiming
  <2>2. PICK b \in Block, x \in Block : b = w[op.h].blk /\ x = op.blk
    BY <2>1
  <2>3. \A c \in Block : flash[c].next # x /\ flash[x].next = None
    BY <2>1, <2>2, HandUnlinked
  <2> DEFINE t == flash[b].type  o == flash[b].owner
  <2>4. /\ flash' = Program(b, LastPos, t, o, x)
        /\ flash \in [ Block -> Blocks ]
    BY <1>2, <2>1, <2>2, Typed DEF TailLink
  <2> HIDE DEF t, o
  <2>5. flash'[b].next = x /\ \A c \in Block \ { b } : flash'[c] = flash[c]
    BY <2>4, ProgramEffect
  <2> QED BY <2>1, <2>2, <2>3, <2>5, RankOfLink
<1>3. CASE ~ InodeTail /\ ~ TailLink
  <2>1. PICK rank \in [ Block -> Nat ] : Ranks(rank)
    BY DEF RankInv
  <2>2. Ranks(rank)'
    BY <1>3, <2>1, NoNewLink DEF Ranks
  <2> QED BY <2>2 DEF RankInv
<1> QED BY <1>1, <1>2, <1>3

-----------------------------------------------------------------------------
(* The invariant of the file system under its rules of use.                *)

Careful == IdsInOrder /\ CareInv /\ RankInv

LEMMA CarefulInit == Init => Careful
<1> SUFFICES ASSUME Init PROVE Careful
  OBVIOUS
<1>1. IdsInOrder
  BY IdsInOrderInit
<1>2. /\ table = << >> /\ ichain = << Inode0 >> /\ dirty = Clean
      /\ wopen = << >> /\ pc = "down" /\ op = NoCall /\ panic = "no"
      /\ available = << >> /\ n = 0
  BY DEF Init, PreInit
<1>3. /\ Live = {} /\ Open = {} /\ ~ Removing /\ ~ Claiming /\ ~ InHandOrLinked
      /\ dirty.block = None
  BY <1>2 DEF Live, Open, Removing, Claiming, InHandOrLinked, Clean
<1>4. /\ \A b \in Block \ { Inode0 } : flash[b] = ErasedBlock(FALSE)
      /\ flash[Inode0] = FormattedInode /\ Inode0 \in Block
      /\ None \notin Block /\ LastPos \in Nat \ { 0 }
  BY FlogAssumption DEF Init
<1>5. /\ \A b \in Block : flash[b].next = None /\ flash[b].type # "file"
      /\ flash[Inode0].type = "inode" /\ flash[Inode0].sec = { 0 } /\ flash[Inode0].key
      /\ \A b \in Block \ { Inode0 } : flash[b].type = "erased" /\ flash[b].key = FALSE
  BY <1>4 DEF ErasedBlock, FormattedInode
<1>6. BlockInv
  BY <1>4, <1>5 DEF BlockInv
<1>7. FreshInv /\ DirtyInv
  BY <1>2, <1>3 DEF FreshInv, ListedBlocksAreErased, DirtyInv
<1>8. LinkInv /\ OneLinkInv
  BY <1>3, <1>4, <1>5 DEF LinkInv, OneLinkInv
<1>9. InodeInv
  BY <1>2, <1>5 DEF InodeInv, LastInode
<1>10. GrowthInv
  <2>1. /\ Len(table) = 0 /\ Len(ichain) = 1 /\ EntriesPerBlock \in Nat \ {0}
    BY <1>2, FlogAssumption
  <2>2. 0 \div EntriesPerBlock = 0
    BY <2>1, DivUnique
  <2>3. Settled /\ ~ Ahead
    BY <2>1, <2>2 DEF Settled, Ahead
  <2> QED BY <1>2, <1>3, <2>3 DEF GrowthInv, Entering
<1>11. WriterInv /\ WalkInv /\ LinkedInv
  BY <1>2, <1>3, <1>4, <1>5 DEF WriterInv, WriterAtEnd, WalkInv, LinkedInv
<1>12. RankInv
  <2> DEFINE rank == [ c \in Block |-> 0 ]
  <2>1. rank \in [ Block -> Nat ] /\ Ranks(rank)
    BY <1>5 DEF Ranks
  <2> QED BY <2>1 DEF RankInv
<1> QED BY <1>1, <1>2, <1>6, <1>7, <1>8, <1>9, <1>10, <1>11, <1>12 DEF Careful, CareInv

LEMMA CarefulStutter ==
  ASSUME CareInv, UNCHANGED vars
  PROVE  CareInv'
<1>1. UNCHANGED << available, pending, n, flash, table, ichain, dirty, w, wopen, pc, op, panic >>
  BY DEF vars, durable, pre
<1>2. Live' = Live /\ Open' = Open /\ Claiming' = Claiming
  BY <1>1 DEF Live, Open, Claiming
<1> USE DEF CareInv
<1>3. BlockInv'
  BY <1>1, <1>2 DEF BlockInv, HasOwner, Removing
<1>4. FreshInv'
  BY <1>1 DEF FreshInv, ListedBlocksAreErased, Fresh, InAvailable, InHandOrLinked
<1>5. DirtyInv'
  BY <1>1, <1>2 DEF DirtyInv
<1>6. LinkInv'
  BY <1>1, <1>2 DEF LinkInv, InChain, FileBlock
<1>7. OneLinkInv' /\ LinkedInv'
  BY <1>1, <1>2 DEF OneLinkInv, Removing, LinkedInv, Linked
<1>8. InodeInv' /\ GrowthInv'
  BY <1>1, <1>2 DEF InodeInv, LastInode, GrowthInv, Settled, Ahead, Entering, NeedsInodeBlock
<1>9. WriterInv' /\ WalkInv'
  BY <1>1, <1>2 DEF WriterInv, WriterAtEnd, FileBlock, WalkInv, Removing
<1> QED BY <1>1, <1>3, <1>4, <1>5, <1>6, <1>7, <1>8, <1>9

LEMMA CarefulNext ==
  ASSUME KeepsRules, TypeInv, Careful, [Next]_vars
  PROVE  Careful'
<1>0. IdsInOrder /\ CareInv /\ RankInv
  BY DEF Careful
<1>1. IdsInOrder'
  BY <1>0, IdsInOrderNext
<1>2. CASE Next
  <2>1. RankInv'
    BY <1>0, <1>2, RankKept
  <2>2. CareInv'
    <3>1. ASSUME NEW h \in Handle, NEW nm \in Name, OpenExisting(h, nm) \/ OpenNew(h, nm)
          PROVE  CareInv'
      BY <1>0, <3>1, OpenFileKeeps, OpenNewKeeps
    <3>2. ASSUME NEW h \in Open, Buffer(h) \/ WriteSector(h) \/ WriteTail(h) PROVE CareInv'
      BY <1>0, <3>2, WriteKeeps
    <3>3. ASSUME NEW i \in 1 .. Len(wopen), Close(i) PROVE CareInv'
      BY <1>0, <3>3, CloseKeeps
    <3>4. ASSUME NEW nm \in Name, RmStart(nm) \/ OpenRead(nm) PROVE CareInv'
      BY <1>0, <3>4, OpenFileKeeps
    <3>5. CASE Mount \/ Crash
      BY <1>0, <3>5, MountKeeps, CrashKeeps
    <3>6. CASE FlushDirty \/ AllocateFails \/ Allocate
      BY <1>0, <3>6, FlushKeeps, AllocateKeeps
    <3>7. ASSUME NEW b \in Block, Prime(b) PROVE CareInv'
      BY <1>0, <3>7, PrimeKeeps
    <3>8. CASE PrimeDone
      BY <1>0, <3>8, PrimeDoneKeeps
    <3>9. CASE OpenWalk \/ RmFind \/ ReadWalk
      BY <1>0, <3>9, WalkKeeps
    <3>10. CASE OpenScan
      BY <1>0, <3>10, ScanKeeps
    <3>11. CASE InodeTail \/ InodeInit
      BY <1>0, <3>11, InodeTailKeeps, InodeInitKeeps
    <3>12. CASE FileEntry \/ TailLink
      BY <1>0, <3>12, FileEntryKeeps, TailLinkKeeps
    <3>13. CASE RmInvalidate \/ RmErase
      BY <1>0, <3>13, InvalidateKeeps, EraseKeeps
    <3>14. CASE RmDone \/ RmWrongBlock
      BY <1>0, <3>14, WrongBlockNever, RmDoneKeeps
    <3> QED BY <1>2, <3>1, <3>2, <3>3, <3>4, <3>5, <3>6, <3>7, <3>8, <3>9, <3>10, <3>11,
               <3>12, <3>13, <3>14
            DEF Next, Calls, Steps
  <2> QED BY <1>1, <1>2, <2>1, <2>2 DEF Careful
<1>3. CASE UNCHANGED vars
  <2>1. CareInv'
    BY <1>0, <1>3, CarefulStutter
  <2>2. RankInv'
    BY <1>0, <1>3 DEF RankInv, Ranks, vars, durable
  <2> QED BY <1>1, <2>1, <2>2 DEF Careful
<1> QED BY <1>2, <1>3

-----------------------------------------------------------------------------
(* Who lays claim to a block.                                              *)

(* A block that an entry or a tail sector leads to is neither listed nor   *)
(* in the hand of an allocation.                                           *)
LEMMA LedToIsTaken ==
  ASSUME TypeInv, CareInv, NEW b \in Block,
         \/ \E i \in Live : table[i].first = b
         \/ \E c \in Block : flash[c].next = b
  PROVE  ~ InAvailable(b) /\ ~ InHand(b)
<1> USE DEF CareInv
<1>0. flash \in [ Block -> Blocks ] /\ None \notin Block
  BY Typed
<1>1. \/ flash[b].type \in { "file", "inode" } \/ b = dirty.block
      \/ pc = "init" /\ b = op.blk
  <2>1. ASSUME NEW i \in Live, table[i].first = b
        PROVE  flash[b].type \in { "file", "inode" } \/ b = dirty.block
    BY <2>1 DEF LinkInv, InChain, FileBlock
  <2>2. ASSUME NEW c \in Block, flash[c].next = b
        PROVE  \/ flash[b].type \in { "file", "inode" } \/ b = dirty.block
               \/ pc = "init" /\ b = op.blk
    <3>1. flash[c].type # "erased"
      <4>1. SUFFICES ASSUME flash[c] = ErasedBlock(flash[c].key) PROVE FALSE
        BY DEF BlockInv
      <4>2. flash[c].next = None
        BY <4>1 DEF ErasedBlock
      <4> QED BY <1>0, <2>2, <4>2
    <3>2. flash[c].type \in { "erased", "inode", "file" }
      BY <1>0 DEF Blocks
    <3> QED BY <1>0, <2>2, <3>1, <3>2 DEF LinkInv, InChain, FileBlock
  <2> QED BY <2>1, <2>2
<1>2. ASSUME flash[b] = ErasedBlock(TRUE) PROVE flash[b].type = "erased"
  BY <1>2 DEF ErasedBlock
<1>3. InAvailable(b) => flash[b] = ErasedBlock(TRUE)
  BY DEF FreshInv, ListedBlocksAreErased, InAvailable
<1>4. InHand(b) => Fresh(b) /\ dirty.block = None /\ pc # "init"
  BY DEF InHand, FreshInv, InHandOrLinked, DirtyInv
<1>5. b = dirty.block => Fresh(b)
  BY <1>0 DEF FreshInv
<1>6. pc = "init" /\ b = op.blk => Fresh(b)
  BY DEF FreshInv, InHandOrLinked
<1> QED BY <1>0, <1>1, <1>2, <1>3, <1>4, <1>5, <1>6 DEF Fresh

LEMMA ClaimedOnce ==
  ASSUME TypeInv, CareInv, NEW b \in Block, NEW u \in Claims(b), NEW v \in Claims(b)
  PROVE  u = v
<1> USE DEF CareInv
<1> DEFINE Led == (\E i \in Live : table[i].first = b) \/ (\E c \in Block : flash[c].next = b)
           Remove == pc = "rm.erase" /\ op.blk = b
<1>1. Led => ~ InAvailable(b) /\ ~ InHand(b)
  BY LedToIsTaken
<1>2. /\ InAvailable(b) => ~ InHand(b) /\ b # Inode0 /\ ~ Remove
      /\ InHand(b) => b # Inode0 /\ ~ Remove
      /\ b = Inode0 => ~ Led /\ ~ Remove
      /\ Remove => ~ Led
  <2>0. None \notin Block
    BY Typed
  <2>1. InAvailable(b) => flash[b].type = "erased"
    BY DEF FreshInv, ListedBlocksAreErased, InAvailable, ErasedBlock
  <2>2. InHand(b) => flash[b].type = "erased" /\ ~ InAvailable(b) /\ pc # "rm.erase"
    BY DEF FreshInv, InHand, InHandOrLinked, Fresh, ErasedBlock
  <2>3. b = Inode0 => flash[b].type = "inode"
    BY DEF InodeInv
  <2>4. Remove => FileBlock(b, op.idx) /\ op.idx \notin Live /\ flash[b].type = "file"
    BY <2>0 DEF WalkInv, Removing, FileBlock
  <2>5. b = dirty.block => flash[b].type = "erased"
    BY <2>0 DEF FreshInv, Fresh, ErasedBlock
  <2>6. b = Inode0 => ~ Led
    BY <2>3, <2>5 DEF OneLinkInv, LinkInv, InChain, FileBlock
  <2>7. Remove => ~ Led
    BY <2>0, <2>4, <2>5 DEF OneLinkInv, Removing, LinkInv, InChain, FileBlock
  <2> QED BY <2>1, <2>2, <2>3, <2>4, <2>6, <2>7
<1>3. /\ \A i, j \in Live : table[i].first = b /\ table[j].first = b => i = j
      /\ \A c, d \in Block : flash[c].next = b /\ flash[d].next = b => c = d
      /\ \A i \in Live, c \in Block : table[i].first = b => flash[c].next # b
      /\ \A i, j \in 1 .. Len(available) : available[i] = b /\ available[j] = b => i = j
  BY Typed DEF OneLinkInv, TypeInv, PreInv, ListedOnce
<1>4. ASSUME NEW x \in Claims(b)
      PROVE  \/ \E i \in Live : x = << "entry", i >> /\ table[i].first = b
             \/ \E c \in Block : x = << "tail", c >> /\ flash[c].next = b
             \/ \E i \in 1 .. Len(available) : x = << "slot", i >> /\ available[i] = b
             \/ x = << "inode0", 0 >> /\ b = Inode0
             \/ x = << "alloc", 0 >> /\ InHand(b)
             \/ x = << "rm", 0 >> /\ Remove
  BY DEF Claims
<1> HIDE DEF CareInv, Remove
<1>5. ASSUME NEW i \in Live, u = << "entry", i >>, table[i].first = b PROVE u = v
  BY <1>1, <1>2, <1>3, <1>4, <1>5 DEF InAvailable
<1>6. ASSUME NEW c \in Block, u = << "tail", c >>, flash[c].next = b PROVE u = v
  BY <1>1, <1>2, <1>3, <1>4, <1>6 DEF InAvailable
<1>7. ASSUME NEW i \in 1 .. Len(available), u = << "slot", i >>, available[i] = b PROVE u = v
  BY <1>1, <1>2, <1>3, <1>4, <1>7 DEF InAvailable
<1>8. ASSUME u \in { << "inode0", 0 >>, << "alloc", 0 >>, << "rm", 0 >> },
             u = << "inode0", 0 >> => b = Inode0,
             u = << "alloc", 0 >> => InHand(b),
             u = << "rm", 0 >> => Remove
      PROVE  u = v
  BY <1>1, <1>2, <1>4, <1>8 DEF InAvailable
<1>9. CASE u \in { << "inode0", 0 >>, << "alloc", 0 >>, << "rm", 0 >> }
  BY <1>4, <1>8, <1>9
<1> QED BY <1>4, <1>5, <1>6, <1>7, <1>9

(* A set with no two elements has at most one.                             *)
LEMMA AtMostOne ==
  ASSUME NEW S, \A u, v \in S : u = v
  PROVE  Cardinality(S) <= 1
<1>1. CASE S = {}
  BY <1>1, FS_EmptySet
<1>2. CASE S # {}
  <2>1. PICK u \in S : S = { u }
    BY <1>2
  <2>2. Cardinality({ u }) = 1
    BY FS_Singleton
  <2> QED BY <2>1, <2>2
<1> QED BY <1>1, <1>2

-----------------------------------------------------------------------------
(* The theorems: for an application that keeps to the rules, and any       *)
(* flash, names, handles, sizes and numbers of files and reboots.          *)

LEMMA CarefulAlways == KeepsRules /\ Spec => [](TypeInv /\ Careful)
<1> SUFFICES ASSUME KeepsRules PROVE Spec => [](TypeInv /\ Careful)
  OBVIOUS
<1>1. Init => TypeInv /\ Careful
  BY TypeInvInit, CarefulInit
<1>2. TypeInv /\ Careful /\ [Next]_vars => (TypeInv /\ Careful)'
  BY TypeInvNext, CarefulNext
<1> QED BY <1>1, <1>2, PTL DEF Spec

(***************************************************************************)
(* No block is given out twice: what flog_prealloc_prime takes for free by *)
(* its type (flogfs.c:498-547) is claimed by no entry, no tail sector and  *)
(* no call in progress.                                                    *)
(***************************************************************************)
THEOREM NothingShared == KeepsRules /\ Spec => []NoSharedBlock
<1>1. TypeInv /\ Careful => NoSharedBlock
  <2> SUFFICES ASSUME TypeInv, Careful, NEW b \in Block
               PROVE  Cardinality(Claims(b)) <= 1
    BY DEF NoSharedBlock
  <2>1. \A u, v \in Claims(b) : u = v
    BY ClaimedOnce DEF Careful
  <2> QED BY <2>1, AtMostOne
<1> QED BY <1>1, CarefulAlways, PTL

(***************************************************************************)
(* What flog_allocate_block hands out without another look at it           *)
(* (flogfs.c:1966-1988) is erased and carries its key.                     *)
(***************************************************************************)
THEOREM ListedErased == KeepsRules /\ Spec => []ListedBlocksAreErased
<1>1. Careful => ListedBlocksAreErased
  BY DEF Careful, CareInv, FreshInv
<1> QED BY <1>1, CarefulAlways, PTL

(***************************************************************************)
(* The one block that a file owns and flog_prealloc_prime would take for   *)
(* free is the one flogfs.dirty_block names, which is flushed before any   *)
(* block is drawn (flogfs.c:100-140, 1966-1975, 2036-2043).                *)
(***************************************************************************)
THEOREM OneDirtyBlock == KeepsRules /\ Spec => []UncommittedIsDirty
<1>1. Careful => UncommittedIsDirty
  <2> SUFFICES ASSUME Careful, NEW b \in Block, flash[b].type = "erased",
                      \/ \E i \in Live : table[i].first = b
                      \/ \E c \in Block : flash[c].type = "file" /\ flash[c].next = b
               PROVE  dirty.block = b
    BY DEF UncommittedIsDirty
  <2>1. \E i : InChain(b, i)
    BY FlogAssumption DEF Careful, CareInv, LinkInv
  <2> QED BY <2>1 DEF InChain, FileBlock
<1> QED BY <1>1, CarefulAlways, PTL

(***************************************************************************)
(* The chain of a file carries its id from the entry to the last tail, so  *)
(* a reader and flog_invalidate_chain (flogfs.c:1912-1938) meet no block   *)
(* of another file.                                                        *)
(***************************************************************************)
THEOREM ChainsCarryIds == KeepsRules /\ Spec => []ChainCarriesId
<1>1. TypeInv /\ Careful => ChainCarriesId
  <2> SUFFICES ASSUME TypeInv, Careful PROVE ChainCarriesId
    OBVIOUS
  <2> USE DEF Careful, CareInv
  <2>1. /\ \A i \in Live : table[i].id = i /\ table[i].first \in Block
        /\ flash \in [ Block -> Blocks ] /\ None \notin Block
    BY Typed DEF IdsInOrder
  <2>2. ASSUME NEW b \in Block, NEW i, InChain(b, i), flash[b].type # "erased"
        PROVE  flash[b].type = "file" /\ flash[b].owner = i
    BY <2>1, <2>2 DEF InChain, FileBlock, FreshInv, Fresh, ErasedBlock
  <2>3. \A i \in Live : LET b == table[i].first IN
          flash[b].type # "erased" => flash[b].type = "file" /\ flash[b].owner = table[i].id
    BY <2>1, <2>2 DEF LinkInv
  <2>4. ASSUME NEW b \in Block, flash[b].type = "file", flash[b].next # None
        PROVE  LET c == flash[b].next IN
               flash[c].type # "erased" => flash[c].type = "file" /\ flash[c].owner = flash[b].owner
    <3>1. flash[b].next \in Block
      BY <2>1, <2>4 DEF Blocks
    <3> QED BY <2>2, <2>4, <3>1 DEF LinkInv
  <2> QED BY <2>3, <2>4 DEF ChainCarriesId
<1> QED BY <1>1, CarefulAlways, PTL

(***************************************************************************)
(* A write handle stays on the first sector not written of the last block  *)
(* of its file, through flushes by other calls and reboots                 *)
(* (flogfs.c:1166-1201, 1390-1491).                                        *)
(***************************************************************************)
THEOREM WritersStayAtEnd == KeepsRules /\ Spec => []WriterAtEnd
<1>1. Careful => WriterAtEnd
  BY DEF Careful, CareInv, WriterInv
<1> QED BY <1>1, CarefulAlways, PTL

(***************************************************************************)
(* None of the assertions of flog_invalidate_chain (flogfs.c:1933, 1938)   *)
(* and of the flash backend (flogfs_linux_mmap.cpp:150-158) fails, and     *)
(* flushing the dirty block does not recurse.                              *)
(***************************************************************************)
THEOREM NothingPanics == KeepsRules /\ Spec => []NoPanic
<1>1. Careful => NoPanic
  BY DEF Careful, CareInv, NoPanic
<1> QED BY <1>1, CarefulAlways, PTL

(***************************************************************************)
(* Between calls every block with data belongs to a file that exists:      *)
(* flog_invalidate_chain has erased a removed file to its last block       *)
(* (flogfs.c:1333-1345, 1888-1950).  It rests on the chains having no      *)
(* cycle and on every block of a file being linked to.                     *)
(***************************************************************************)
THEOREM NothingLeaks == KeepsRules /\ Spec => []NoLeak
<1>1. TypeInv /\ Careful => NoLeak
  <2> SUFFICES ASSUME TypeInv, Careful, pc = "idle", NEW b \in Block, flash[b].type = "file"
               PROVE  \E i \in Live : table[i].id = flash[b].owner
    BY DEF NoLeak
  <2>1. flash[b].owner \in Live
    BY DEF Careful, CareInv, BlockInv, HasOwner, Removing
  <2>2. table[flash[b].owner].id = flash[b].owner
    BY <2>1, Typed DEF Careful, IdsInOrder
  <2> QED BY <2>1, <2>2
<1> QED BY <1>1, CarefulAlways, PTL

(* Only flog_invalidate_chain takes data away.                             *)
LEMMA OnlyErased ==
  ASSUME TypeInv, Careful, Next, NEW b \in Block, flash[b].type = "file",
         flash'[b].type # "file"
  PROVE  \E i \in 1 .. Len(table) : table[i].id = flash[b].owner /\ table[i].dead
<1> USE DEF Careful, CareInv
<1>0. flash \in [ Block -> Blocks ] /\ FlogTypeOK /\ HandleInv
  BY DEF TypeInv, StateInv, FlogTypeOK
<1>1. CASE Committing
  <2>1. ASSUME NEW h \in Handle, Commits(h) PROVE flash'[b].type = "file"
    <3> DEFINE c == w[h].blk  p == w[h].pos  t == IF p = 0 THEN "file" ELSE flash[c].type
               nx == flash[c].next
    <3>1. PICK o : flash' = Program(c, p, t, o, nx)
      BY <2>1 DEF Commits, CommitSector
    <3>2. c \in Block
      BY <2>1 DEF Commits
    <3>3. c = b => t = "file"
      OBVIOUS
    <3> HIDE DEF c, p, t, nx, Careful, CareInv
    <3>4. flash'[c].type = t /\ \A d \in Block \ { c } : flash'[d] = flash[d]
      BY <1>0, <3>1, <3>2, ProgramEffect
    <3> QED BY <3>2, <3>3, <3>4
  <2> QED BY <1>0, <1>1, <2>1, CommittingStep
<1>2. ASSUME NEW c \in Block, Prime(c) PROVE flash'[b].type = "file"
  <2>1. c = b => flash[b].key
    BY DEF BlockInv
  <2> QED BY <1>0, <1>2, <2>1 DEF Prime
<1>3. CASE InodeTail
  <2>1. EntryBlock(Len(table) + 1) \in Block
    BY <1>0, EntryBlockExists DEF TypeInv, StateInv, RoomInv
  <2> DEFINE c == EntryBlock(Len(table) + 1)  t == flash[c].type  o == flash[c].owner
  <2>2. flash' = Program(c, LastPos, t, o, op.blk) /\ c \in Block
    BY <1>3, <2>1 DEF InodeTail
  <2>3. c = b => t = "file"
    OBVIOUS
  <2> HIDE DEF c, t, o, Careful, CareInv
  <2>4. flash'[c].type = t /\ \A d \in Block \ { c } : flash'[d] = flash[d]
    BY <1>0, <2>2, ProgramEffect
  <2> QED BY <2>2, <2>3, <2>4
<1>4. CASE InodeInit
  <2>1. op.blk \in Block /\ flash[op.blk].type = "erased"
    BY <1>4, HandUnlinked DEF InodeInit
  <2> DEFINE c == op.blk  o == flash[c].owner  nx == flash[c].next
  <2>2. flash' = Program(c, 0, "inode", o, nx) /\ c \in Block /\ c # b
    BY <1>4, <2>1 DEF InodeInit
  <2> HIDE DEF c, o, nx, Careful, CareInv
  <2>3. \A d \in Block \ { c } : flash'[d] = flash[d]
    BY <1>0, <2>2, ProgramEffect
  <2> QED BY <2>2, <2>3
<1>5. CASE TailLink
  <2>1. w[op.h].blk \in Block
    BY <1>5 DEF TailLink, TypeInv, StateInv, CallInv, Claiming, HandleInv
  <2> DEFINE c == w[op.h].blk  t == flash[c].type  o == flash[c].owner
  <2>2. flash' = Program(c, LastPos, t, o, op.blk) /\ c \in Block
    BY <1>5, <2>1 DEF TailLink
  <2>3. c = b => t = "file"
    OBVIOUS
  <2> HIDE DEF c, t, o, Careful, CareInv
  <2>4. flash'[c].type = t /\ \A d \in Block \ { c } : flash'[d] = flash[d]
    BY <1>0, <2>2, ProgramEffect
  <2> QED BY <2>2, <2>3, <2>4
<1>6. CASE RmErase
  <2>1. op.blk = b
    BY <1>0, <1>6 DEF RmErase
  <2>2. op.idx \in 1 .. Len(table) /\ op.idx \notin Live
    BY <1>6 DEF RmErase, TypeInv, StateInv, CallInv, WalkInv, Removing
  <2>3. table[op.idx].id = flash[b].owner
    BY <1>6, <2>1 DEF RmErase
  <2> QED BY <2>2, <2>3 DEF Live
<1>7. CASE UNCHANGED flash
  BY <1>7
<1> HIDE DEF Careful, CareInv
<1> QED BY <1>1, <1>2, <1>3, <1>4, <1>5, <1>6, <1>7, FlashSteps

(***************************************************************************)
(* The data of a file stays until the file is removed: no draw for free    *)
(* blocks (flogfs.c:526-541), no other file and no new inode block erases  *)
(* or converts a block with data.                                          *)
(***************************************************************************)
THEOREM DataStaysTheorem == KeepsRules /\ Spec => DataStays
<1>1. TypeInv /\ Careful /\ [Next]_vars =>
        [ \A b \in Block : flash[b].type = "file" /\ flash'[b].type # "file" =>
            \E i \in 1 .. Len(table) : table[i].id = flash[b].owner /\ table[i].dead ]_vars
  BY OnlyErased
<1> QED BY <1>1, CarefulAlways, PTL DEF Spec, DataStays

=============================================================================
