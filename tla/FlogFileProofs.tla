--------------------------- MODULE FlogFileProofs ---------------------------
(***************************************************************************)
(* Proofs about the bytes of a file, for sectors and blocks of any size,   *)
(* any number of blocks, of bytes and of reads: first how the file is laid *)
(* out, then what the counts and the bytes are when the application keeps  *)
(* the rules of use.                                                       *)
(***************************************************************************)
EXTENDS FlogFile, Induction, SequenceTheorems

-----------------------------------------------------------------------------
(* Where a sector comes in the order in which a block is written.          *)
LastPlace == SectorsPerBlock - 1
Place(s) == IF s = TAIL THEN LastPlace ELSE IF s < TAIL THEN s ELSE s - 1

\* The blocks of the file, and what the i-th sectors of one of them count.
Tip == Len(chain)
Counts(x) == [ i \in Sectors |-> x.sec[Order[i]].n ]

\* How many sectors of block b are written, and the bytes they count.
Filled(b) == IF b < Tip THEN LastPlace ELSE Place(wr.sec) - 1
Held(b) == Total(Counts(chain[b]), Filled(b))

\* The bytes of the first b blocks, and those before the i-th sector of b.
Helds == [ b \in 1 .. Tip |-> Held(b) ]
Ends(b) == Total(Helds, b)
Before(b, i) == Ends(b - 1) + Total(Counts(chain[b]), i - 1)

-----------------------------------------------------------------------------
(* The invariant.  Laid holds whatever the application does.               *)

SectorRec == [ used : BOOLEAN, raw : Seq(Nat), n : UInt16 ]
BlockRec == [ sec : [ Sectors -> SectorRec ], total : Nat ]

Typed ==
  /\ chain \in Seq(BlockRec) /\ Tip \in 1 .. MaxBlocks
  /\ wr \in [ blk : Nat, sec : Sectors, buf : Seq(Nat), room : Nat,
              inBlock : Nat, size : Nat ]
  /\ isOpen \in BOOLEAN /\ dirty \in BOOLEAN /\ written \in 0 .. MaxBytes
  /\ rd \in [ open : BOOLEAN, blk : Nat, sec : Sectors, off : Int, room : Int ]
  /\ pos \in Int /\ want \in 0 .. MaxRead

\* The handle is at the first sector of the last block that is not written.
FillInv ==
  /\ wr.blk = Tip
  /\ wr.room > 0 /\ Len(wr.buf) + wr.room = SectorSize
  /\ dirty <=> wr.sec = INIT
  /\ \A b \in 1 .. Tip : \A i \in Sectors :
       LET x == chain[b].sec[Order[i]] IN
       /\ x.used <=> i <= Filled(b)
       /\ ~ x.used => x = Erased
       /\ Len(x.raw) <= SectorSize

\* A reader at a tail sector has a block to go on to.
ReaderInv == rd.blk \in 1 .. Tip /\ (rd.sec = TAIL => rd.blk < Tip)

Laid == Typed /\ FillInv /\ ReaderInv

(* Counting holds if every flush has data and a file is closed and         *)
(* reopened as it should be.                                               *)
CountRules == { "close_flushes", "data_first", "same_handle" }

SpareInv ==
  \A b \in 1 .. Tip : \A i \in Sectors :
    LET x == chain[b].sec[Order[i]] IN
    x.used => Len(x.raw) = Header(Order[i]) + x.n /\ (i = 1 => x.n > 0)

TailInv == \A b \in 1 .. Tip - 1 : chain[b].total = Held(b)

HandleInv ==
  /\ Buffered >= 0 /\ (~ isOpen => Buffered = 0 /\ ~ dirty)
  /\ wr.inBlock = Held(Tip) + Buffered
  /\ wr.size = Ends(Tip) + Buffered /\ written = wr.size

Counting == SpareInv /\ TailInv /\ HandleInv

-----------------------------------------------------------------------------
(* The data.                                                               *)

DataInv ==
  /\ \A b \in 1 .. Tip : \A i \in Sectors :
       LET x == chain[b].sec[Order[i]]  h == Header(Order[i]) IN
       x.used => /\ \A j \in 1 .. x.n : x.raw[h + j] = Before(b, i) + j
                 /\ i = 1 => \A j \in 1 .. h : x.raw[j] = 0
  /\ \A j \in 1 .. Buffered : wr.buf[Header(wr.sec) + j] = Ends(Tip) + j

PosInv ==
  /\ want # 0 => rd.open
  /\ rd.open =>
       LET x == chain[rd.blk].sec[rd.sec]  h == Header(rd.sec) IN
       /\ x.used /\ rd.off >= h /\ rd.room >= 0 /\ rd.room = x.n - (rd.off - h)
       /\ pos = Before(rd.blk, Place(rd.sec)) + rd.off - h

-----------------------------------------------------------------------------
(* The geometry of a block, with the numbers of flogfs.h put in.           *)

LEMMA MaxIs == MaxUInt16 \in Nat
BY DEF MaxUInt16

LEMMA SectorSizeIs == SectorSize \in Nat /\ SectorSize <= MaxUInt16
BY MaxIs, FileAssumption DEF UInt16

LEMMA Sizes ==
  /\ SectorSize \in Nat /\ InitHeader \in Nat /\ TailHeader \in Nat
  /\ 0 < InitHeader /\ InitHeader < SectorSize
  /\ 0 < TailHeader /\ TailHeader < SectorSize
  /\ SectorsPerPage = TAIL + 1
  /\ SectorsPerBlock \in Nat /\ SectorsPerPage < SectorsPerBlock
  /\ Garbage \subseteq Nat
  /\ MaxBlocks \in Nat \ {0} /\ MaxBytes \in Nat /\ MaxRead \in Nat
BY SectorSizeIs, FileAssumption

LEMMA Geometry ==
  /\ LastPlace \in Nat /\ LastPlace >= 4 /\ Sectors = 1 .. LastPlace
  /\ INIT = 1 /\ TAIL = 3 /\ INIT \in Sectors /\ TAIL \in Sectors
  /\ SectorsPerBlock = LastPlace + 1 /\ SectorsPerPage = 4
  BY Sizes DEF LastPlace, Sectors, INIT, TAIL

LEMMA NextSectorIs ==
  \A s \in Sectors :
    NextSector(s) = IF s = 2 THEN 4 ELSE IF s = LastPlace THEN 3 ELSE s + 1
<1> TAKE s \in Sectors
<1>1. s \in Nat /\ s <= LastPlace /\ s >= 1
  BY Geometry
<1>2. CASE s = 2
  BY <1>2, Geometry DEF NextSector
<1>3. CASE s = LastPlace
  <2>1. ~ (s = TAIL - 1) /\ s = SectorsPerBlock - 1 /\ s # 2
    BY <1>3, Geometry
  <2> QED BY <1>3, <2>1, Geometry DEF NextSector
<1>4. CASE s # 2 /\ s # LastPlace
  <2>1. ~ (s = TAIL - 1) /\ ~ (s = SectorsPerBlock - 1)
    BY <1>1, <1>4, Geometry
  <2> QED BY <1>4, <2>1 DEF NextSector
<1> QED BY <1>2, <1>3, <1>4

LEMMA UInt16Is ==
  /\ \A x \in UInt16 : x \in Nat
  /\ \A x \in Int : x % (MaxUInt16 + 1) \in UInt16
  /\ \A x \in 0 .. SectorSize : x % (MaxUInt16 + 1) = x
  /\ MaxUInt16 \in UInt16
BY MaxIs, SectorSizeIs DEF UInt16

\* The order of the sectors, without recursion.
OrderF ==
  [ i \in Sectors |-> IF i = LastPlace THEN 3 ELSE IF i < 3 THEN i ELSE i + 1 ]

LEMMA OrderStep ==
  ASSUME NEW i \in Sectors, i # 1
  PROVE  OrderF[i] = NextSector(OrderF[i - 1])
<1>1. i - 1 \in Sectors /\ i - 1 # LastPlace
  BY Geometry
<1> DEFINE k == OrderF[i - 1]
<1>2. k = IF i < 4 THEN i - 1 ELSE i
  BY <1>1, Geometry DEF OrderF
<1>3. k \in Sectors
  BY <1>1, <1>2, Geometry
<1>4. NextSector(k) = IF k = 2 THEN 4 ELSE IF k = LastPlace THEN 3 ELSE k + 1
  BY <1>3, NextSectorIs
<1>5. /\ i \in Nat /\ i > 1 /\ i <= LastPlace
      /\ OrderF[i] = IF i = LastPlace THEN 3 ELSE IF i < 3 THEN i ELSE i + 1
  BY Geometry DEF OrderF
<1> HIDE DEF k
<1>6. NextSector(k) = OrderF[i]
  BY <1>2, <1>4, <1>5, Geometry
<1> QED BY <1>6 DEF k

LEMMA OrderUnfold ==
  Order = [ i \in Sectors |-> IF i = 1 THEN INIT ELSE NextSector(Order[i - 1]) ]
<1> DEFINE E(f) == [ i \in Sectors |-> IF i = 1 THEN INIT ELSE NextSector(f[i - 1]) ]
<1>1. OrderF = E(OrderF)
  <2>1. ASSUME NEW i \in Sectors
        PROVE  OrderF[i] = IF i = 1 THEN INIT ELSE NextSector(OrderF[i - 1])
    <3>1. CASE i = 1
      BY <3>1, Geometry DEF OrderF
    <3>2. CASE i # 1
      BY <3>2, OrderStep
    <3> QED BY <3>1, <3>2
  <2>2. OrderF = [ i \in Sectors |-> OrderF[i] ]
    BY DEF OrderF
  <2> HIDE DEF OrderF
  <2> QED BY <2>1, <2>2
<1>2. Order = CHOOSE f : f = E(f)
  BY DEF Order
<1>3. Order = E(Order)
  <2> HIDE DEF E
  <2> QED BY <1>1, <1>2
<1> QED BY <1>3

LEMMA OrderIsF == Order = OrderF
<1> DEFINE T == { i \in 0 .. LastPlace : i # 0 => Order[i] = OrderF[i] }
<1>1. 0 \in T
  BY Geometry
<1>2. ASSUME NEW i \in 0 .. LastPlace - 1, i \in T PROVE i + 1 \in T
  <2>1. i + 1 \in Sectors /\ i + 1 \in 0 .. LastPlace
    BY Geometry
  <2> DEFINE j == i + 1
  <2>2. j \in Sectors /\ j - 1 = i
    BY <2>1
  <2> HIDE DEF j
  <2>3. Order[j] = IF j = 1 THEN INIT ELSE NextSector(Order[j - 1])
    BY <2>2, OrderUnfold
  <2>4. CASE j = 1
    <3>1. OrderF[j] = INIT
      BY <2>4, Geometry DEF OrderF
    <3> QED BY <2>1, <2>3, <2>4, <3>1 DEF j
  <2>5. CASE j # 1
    <3>1. OrderF[j] = NextSector(OrderF[j - 1])
      BY <2>2, <2>5, OrderStep
    <3>2. Order[j - 1] = OrderF[j - 1]
      BY <1>2, <2>2, <2>5 DEF j
    <3> QED BY <2>1, <2>3, <2>5, <3>1, <3>2 DEF j
  <2> QED BY <2>4, <2>5
<1>3. 0 .. LastPlace \subseteq T
  <2> HIDE DEF T
  <2> QED BY <1>1, <1>2, Geometry, UpTo
<1>4. \A i \in Sectors : Order[i] = OrderF[i]
  BY <1>3, Geometry
<1>5. Order = [ i \in Sectors |-> Order[i] ]
  BY OrderUnfold
<1>6. OrderF = [ i \in Sectors |-> OrderF[i] ]
  BY DEF OrderF
<1> QED BY <1>4, <1>5, <1>6

(* Order and Place are the inverse of each other, and NextSector goes from *)
(* a sector to the one that is written after it.                           *)
LEMMA Ordered ==
  /\ \A i \in Sectors : Order[i] \in Sectors /\ Place(Order[i]) = i
  /\ \A s \in Sectors : Place(s) \in Sectors /\ Order[Place(s)] = s
  /\ \A s \in Sectors : /\ NextSector(s) \in Sectors
                        /\ s # TAIL => Place(NextSector(s)) = Place(s) + 1
                        /\ NextSector(s) # INIT
  /\ Order[1] = INIT /\ Place(INIT) = 1 /\ Place(TAIL) = LastPlace
  /\ \A s \in Sectors : (s = TAIL <=> Place(s) = LastPlace) /\ (s = INIT <=> Place(s) = 1)
<1>1. ASSUME NEW i \in Sectors
      PROVE  Order[i] \in Sectors /\ Place(Order[i]) = i
  <2>1. /\ Order[i] = IF i = LastPlace THEN 3 ELSE IF i < 3 THEN i ELSE i + 1
        /\ i \in Nat /\ i >= 1 /\ i <= LastPlace
    BY OrderIsF, Geometry DEF OrderF
  <2> QED BY <2>1, Geometry DEF Place
<1>2. ASSUME NEW s \in Sectors
      PROVE  /\ Place(s) \in Sectors
             /\ (s = TAIL <=> Place(s) = LastPlace) /\ (s = INIT <=> Place(s) = 1)
  BY Geometry DEF Place
<1>3. ASSUME NEW s \in Sectors
      PROVE  Order[Place(s)] = s
  <2>1. Order[Place(s)] = IF Place(s) = LastPlace THEN 3
                          ELSE IF Place(s) < 3 THEN Place(s) ELSE Place(s) + 1
    BY <1>2, OrderIsF DEF OrderF
  <2> QED BY <2>1, Geometry DEF Place
<1>4. ASSUME NEW s \in Sectors
      PROVE  /\ NextSector(s) \in Sectors
             /\ s # TAIL => Place(NextSector(s)) = Place(s) + 1
             /\ NextSector(s) # INIT
  <2>1. NextSector(s) = IF s = 2 THEN 4 ELSE IF s = LastPlace THEN 3 ELSE s + 1
    BY NextSectorIs
  <2> QED BY <2>1, Geometry DEF Place
<1>5. INIT \in Sectors /\ TAIL \in Sectors /\ Place(INIT) = 1 /\ Place(TAIL) = LastPlace
  BY Geometry DEF Place
<1>6. Order[1] = INIT
  BY <1>3, <1>5
<1> QED BY <1>1, <1>2, <1>3, <1>4, <1>5, <1>6

(* The sectors before the k-th are k - 1.                                  *)
LEMMA PlacesCounted ==
  ASSUME NEW k \in 0 .. LastPlace
  PROVE  Cardinality({ s \in Sectors : Place(s) <= k }) = k
<1> DEFINE S == { s \in Sectors : Place(s) <= k }
           f == [ i \in 1 .. k |-> Order[i] ]
<1>1. \A i \in 1 .. k : i \in Sectors
  BY Geometry
<1>2. f \in Bijection(1 .. k, S)
  <2>1. f \in [ 1 .. k -> S ]
    BY <1>1, Ordered
  <2>2. ASSUME NEW i \in 1 .. k, NEW j \in 1 .. k, f[i] = f[j] PROVE i = j
    <3>1. Order[i] = Order[j] /\ i \in Sectors /\ j \in Sectors
      BY <1>1, <2>2
    <3>2. Place(Order[i]) = i /\ Place(Order[j]) = j
      BY <3>1, Ordered
    <3> QED BY <3>1, <3>2
  <2>3. ASSUME NEW s \in S PROVE \E i \in 1 .. k : f[i] = s
    <3>1. Place(s) \in 1 .. k
      BY Ordered, Geometry
    <3>2. f[Place(s)] = s
      BY <3>1, Ordered
    <3> QED BY <3>1, <3>2
  <2> HIDE DEF f, S
  <2>4. f \in Injection(1 .. k, S)
    BY <2>1, <2>2 DEF Injection, IsInjective
  <2>5. f \in Surjection(1 .. k, S)
    BY <2>1, <2>3 DEF Surjection
  <2> QED BY <2>4, <2>5 DEF Bijection
<1>3. IsFiniteSet(1 .. k) /\ Cardinality(1 .. k) = k
  <2>1. k \in Int /\ (1 > k => k = 0)
    BY Geometry
  <2> QED BY <2>1, FS_Interval
<1> HIDE DEF f, S
<1>4. Cardinality(S) = Cardinality(1 .. k)
  BY <1>2, <1>3, FS_Bijection DEF ExistsBijection
<1> QED BY <1>3, <1>4 DEF S

-----------------------------------------------------------------------------
(* The model's sums.                                                       *)

LEMMA SumToIs ==
  \A b : \A i \in 0 .. LastPlace : SumTo(b, i) = Total(Counts(chain[b]), i)
<1> TAKE b
<1> TAKE i \in 0 .. LastPlace
<1> DEFINE g == Counts(chain[b])
           E(f) == [ j \in 0 .. i |-> IF j = 0 THEN 0 ELSE f[j - 1] + chain[b].sec[Order[j]].n ]
           s == CHOOSE f : f = E(f)
<1>1. i \in Nat /\ \A j \in 0 .. i : j # 0 => chain[b].sec[Order[j]].n = g[j]
  BY Geometry DEF Counts
<1> HIDE DEF g
<1>2. \A f : E(f) = [ j \in 0 .. i |-> IF j = 0 THEN 0 ELSE f[j - 1] + g[j] ]
  BY <1>1
<1>3. \E f : f = E(f)
  <2>1. PICK f : Sums(f, g, i)
    BY <1>1, SumExists
  <2>2. f = E(f)
    BY <1>2, <2>1 DEF Sums
  <2> QED BY <2>2
<1>4. s = E(s)
  <2> HIDE DEF E
  <2> QED BY <1>3
<1>5. SumTo(b, i) = s[i]
  BY DEF SumTo
<1> HIDE DEF s
<1>6. Sums(s, g, i)
  BY <1>2, <1>4 DEF Sums
<1>7. s[i] = Total(g, i)
  BY <1>1, <1>6, TotalIs
<1> QED BY <1>5, <1>7 DEF g

LEMMA FileSizeIs ==
  Tip \in Nat => FileSize = Total([ b \in 1 .. Tip |-> BytesOf(b) ], Tip)
<1> SUFFICES ASSUME Tip \in Nat PROVE FileSize = Total([ b \in 1 .. Tip |-> BytesOf(b) ], Tip)
  OBVIOUS
<1> DEFINE g == [ b \in 1 .. Tip |-> BytesOf(b) ]
           E(f) == [ j \in 0 .. Len(chain) |-> IF j = 0 THEN 0 ELSE f[j - 1] + BytesOf(j) ]
           s == CHOOSE f : f = E(f)
<1>1. \A j \in 0 .. Tip : j # 0 => BytesOf(j) = g[j]
  OBVIOUS
<1>2. FileSize = s[Tip]
  BY DEF FileSize, Tip
<1> HIDE DEF g
<1>3. \A f : E(f) = [ j \in 0 .. Tip |-> IF j = 0 THEN 0 ELSE f[j - 1] + g[j] ]
  BY <1>1 DEF Tip
<1>4. \E f : f = E(f)
  <2>1. PICK f : Sums(f, g, Tip)
    BY SumExists
  <2>2. f = E(f)
    BY <1>3, <2>1 DEF Sums
  <2> QED BY <2>2
<1>5. s = E(s)
  <2> HIDE DEF E
  <2> QED BY <1>4
<1> HIDE DEF s
<1>6. Sums(s, g, Tip)
  BY <1>3, <1>5 DEF Sums
<1>7. s[Tip] = Total(g, Tip)
  BY <1>6, TotalIs
<1> QED BY <1>2, <1>7 DEF g

(* What the structure of the file says about its blocks.                   *)
LEMMA BlocksAre ==
  Laid => /\ Tip \in Nat
          /\ \A b \in 1 .. Tip :
               /\ Filled(b) \in 0 .. LastPlace /\ Used(b) = Filled(b)
               /\ Ended(b) <=> b < Tip
               /\ \A s \in Sectors : chain[b].sec[s].used <=> Place(s) <= Filled(b)
               /\ chain[b] \in BlockRec
               /\ \A i \in Sectors : Counts(chain[b])[i] \in Nat
               /\ Held(b) \in Nat /\ SumTo(b, Used(b)) = Held(b)
<1> SUFFICES ASSUME Laid PROVE
          /\ Tip \in Nat
          /\ \A b \in 1 .. Tip :
               /\ Filled(b) \in 0 .. LastPlace /\ Used(b) = Filled(b)
               /\ Ended(b) <=> b < Tip
               /\ \A s \in Sectors : chain[b].sec[s].used <=> Place(s) <= Filled(b)
               /\ chain[b] \in BlockRec
               /\ \A i \in Sectors : Counts(chain[b])[i] \in Nat
               /\ Held(b) \in Nat /\ SumTo(b, Used(b)) = Held(b)
  OBVIOUS
<1>1. Tip \in Nat /\ Tip <= MaxBlocks /\ chain \in Seq(BlockRec) /\ wr.sec \in Sectors
  BY Sizes DEF Laid, Typed
<1>2. ASSUME NEW b \in 1 .. Tip
      PROVE  /\ Filled(b) \in 0 .. LastPlace /\ Used(b) = Filled(b)
             /\ Ended(b) <=> b < Tip
             /\ \A s \in Sectors : chain[b].sec[s].used <=> Place(s) <= Filled(b)
             /\ chain[b] \in BlockRec
             /\ \A i \in Sectors : Counts(chain[b])[i] \in Nat
             /\ Held(b) \in Nat /\ SumTo(b, Used(b)) = Held(b)
  <2>1. Place(wr.sec) \in 1 .. LastPlace
    BY <1>1, Ordered, Geometry
  <2>2. Filled(b) \in 0 .. LastPlace
    BY <2>1, Geometry DEF Filled
  <2>3. \A s \in Sectors : chain[b].sec[s].used <=> Place(s) <= Filled(b)
    <3> TAKE s \in Sectors
    <3>1. Place(s) \in Sectors /\ Order[Place(s)] = s
      BY Ordered
    <3> QED BY <3>1 DEF Laid, FillInv
  <2>4. Used(b) = Filled(b)
    <3>1. { s \in Sectors : chain[b].sec[s].used } = { s \in Sectors : Place(s) <= Filled(b) }
      BY <2>3
    <3> QED BY <2>2, <3>1, PlacesCounted DEF Used
  <2>5. Ended(b) <=> b < Tip
    <3>1. TAIL \in Sectors /\ Place(TAIL) = LastPlace
      BY Geometry, Ordered
    <3>2. Ended(b) <=> LastPlace <= Filled(b)
      BY <2>3, <3>1 DEF Ended
    <3> QED BY <1>1, <2>1, <3>2, Geometry DEF Filled
  <2>6. chain[b] \in BlockRec
    BY <1>1 DEF Tip
  <2>7. ASSUME NEW i \in Sectors PROVE Counts(chain[b])[i] \in Nat
    <3>1. chain[b].sec[Order[i]] \in SectorRec
      BY <2>6, Ordered DEF BlockRec
    <3> DEFINE x == chain[b].sec[Order[i]]
    <3>2. x \in SectorRec
      BY <3>1
    <3>3. Counts(chain[b])[i] = x.n
      BY DEF Counts
    <3> HIDE DEF x
    <3>4. x.n \in UInt16
      BY <3>2 DEF SectorRec
    <3> QED BY <3>3, <3>4, UInt16Is
  <2>8. Held(b) \in Nat
    <3> DEFINE g == Counts(chain[b])
    <3>1. \A i \in 1 .. Filled(b) : g[i] \in Nat
      BY <2>2, <2>7, Geometry
    <3>2. Filled(b) \in Nat
      BY <2>2, Geometry
    <3> HIDE DEF g
    <3>3. Total(g, Filled(b)) \in Nat
      BY <3>1, <3>2, TotalGrows
    <3> QED BY <3>3 DEF Held, g
  <2>9. SumTo(b, Used(b)) = Held(b)
    BY <2>2, <2>4, SumToIs DEF Held
  <2> QED BY <2>2, <2>3, <2>4, <2>5, <2>6, <2>7, <2>8, <2>9
<1> QED BY <1>1, <1>2

(* The sizes that are counted from the tails and the spares.               *)
LEMMA SizesAre ==
  Laid => /\ \A b \in 1 .. Tip : BytesOf(b) \in Nat
          /\ FileSize \in Nat
          /\ \A b \in 0 .. Tip : Ends(b) \in Nat
          /\ \A b \in 1 .. Tip : Ends(b) = Ends(b - 1) + Held(b)
          /\ Ends(0) = 0
          /\ TailInv => FileSize = Ends(Tip)
<1> SUFFICES ASSUME Laid
             PROVE  /\ \A b \in 1 .. Tip : BytesOf(b) \in Nat
                    /\ FileSize \in Nat
                    /\ \A b \in 0 .. Tip : Ends(b) \in Nat
                    /\ \A b \in 1 .. Tip : Ends(b) = Ends(b - 1) + Held(b)
                    /\ Ends(0) = 0
                    /\ TailInv => FileSize = Ends(Tip)
  OBVIOUS
<1> DEFINE g == [ b \in 1 .. Tip |-> BytesOf(b) ]
<1>1. \A b \in 1 .. Tip : BytesOf(b) \in Nat
  <2> TAKE b \in 1 .. Tip
  <2>1. chain[b].total \in Nat /\ SumTo(b, Used(b)) \in Nat
    BY BlocksAre DEF BlockRec
  <2> QED BY <2>1 DEF BytesOf
<1>2. Tip \in Nat /\ FileSize = Total(g, Tip)
  BY BlocksAre, FileSizeIs
<1>3. \A b \in 1 .. Tip : g[b] \in Nat
  BY <1>1
<1>4. FileSize \in Nat
  <2> HIDE DEF g
  <2> QED BY <1>2, <1>3, TotalGrows
<1>5. \A b \in 1 .. Tip : Helds[b] = Held(b) /\ Helds[b] \in Nat
  BY BlocksAre DEF Helds
<1>6. ASSUME NEW b \in 0 .. Tip PROVE Ends(b) \in Nat
  BY <1>2, <1>5, TotalGrows DEF Ends
<1>7. ASSUME NEW b \in 1 .. Tip PROVE Ends(b) = Ends(b - 1) + Held(b)
  <2>1. b - 1 \in Nat /\ (b - 1) + 1 = b
    BY <1>2
  <2> DEFINE c == b - 1
  <2>2. c \in Nat /\ c + 1 = b
    BY <2>1
  <2> HIDE DEF c
  <2>3. Total(Helds, c + 1) = Total(Helds, c) + Helds[c + 1]
    BY <2>2, TotalStep
  <2> QED BY <1>5, <2>2, <2>3 DEF Ends, c
<1>8. Ends(0) = 0
  BY TotalZero DEF Ends
<1>9. TailInv => FileSize = Ends(Tip)
  <2> SUFFICES ASSUME TailInv PROVE FileSize = Ends(Tip)
    OBVIOUS
  <2>1. ASSUME NEW b \in 1 .. Tip PROVE g[b] = Helds[b]
    <3>1. BytesOf(b) = Held(b)
      BY <1>2, BlocksAre DEF BytesOf, TailInv
    <3> QED BY <1>5, <3>1
  <2> HIDE DEF g
  <2>2. Total(g, Tip) = Total(Helds, Tip)
    BY <1>2, <2>1, TotalAgree
  <2> QED BY <1>2, <2>2 DEF Ends
<1> QED BY <1>1, <1>4, <1>6, <1>7, <1>8, <1>9

-----------------------------------------------------------------------------
(* One more sector is written.                                             *)

\* The next sector of the last block, t, is written with x; if it was the
\* tail there is another block.
Fills(t, x) ==
  /\ t = Tip /\ wr'.blk = Tip'
  /\ \/ /\ wr.sec = TAIL /\ wr'.sec = INIT
        /\ Tip' = t + 1 /\ chain'[t + 1] = EmptyBlock
     \/ /\ wr.sec # TAIL /\ wr'.sec = NextSector(wr.sec)
        /\ Tip' = t
  /\ \A b \in 1 .. t - 1 : chain'[b] = chain[b]
  /\ \A s \in Sectors :
       chain'[t].sec[s] = IF s = wr.sec THEN x ELSE chain[t].sec[s]
  /\ x.used = TRUE /\ Len(x.raw) <= SectorSize /\ x.n \in Nat

\* The last place written in each block.
LEMMA FillsPlaces ==
  ASSUME Laid, NEW t, NEW x, Fills(t, x)
  PROVE  /\ t \in Nat \ {0} /\ t = Tip /\ Tip' \in { t, t + 1 }
         /\ \A b \in 1 .. t - 1 : Filled(b)' = Filled(b)
         /\ Filled(t) \in 0 .. LastPlace - 1 /\ Filled(t)' = Filled(t) + 1
         /\ Filled(t) + 1 = Place(wr.sec) /\ wr.sec = Order[Filled(t) + 1]
         /\ Filled(t) + 1 \in Sectors
         /\ Tip' = t + 1 => Filled(t + 1)' = 0
<1>1. t \in Nat \ {0} /\ t = Tip /\ Tip' \in { t, t + 1 } /\ wr.sec \in Sectors
  <2>1. Tip \in 1 .. MaxBlocks /\ wr.sec \in Sectors
    BY DEF Laid, Typed
  <2>2. t = Tip /\ (Tip' = t \/ Tip' = t + 1)
    BY DEF Fills
  <2> QED BY <2>1, <2>2, Sizes
<1>2. Place(wr.sec) \in 1 .. LastPlace
  BY <1>1, Ordered, Geometry
<1>3. Filled(t) = Place(wr.sec) - 1
  BY <1>1 DEF Filled
<1>4. \A b \in 1 .. t - 1 : Filled(b)' = Filled(b)
  BY <1>1 DEF Filled
<1>5. wr.sec = Order[Place(wr.sec)]
  BY <1>1, Ordered
<1>6. Filled(t)' = Filled(t) + 1 /\ (Tip' = t + 1 => Filled(t + 1)' = 0)
  <2>1. CASE wr.sec = TAIL
    <3>1. Tip' = t + 1 /\ wr'.sec = INIT /\ Place(wr.sec) = LastPlace
      BY <2>1, Ordered DEF Fills
    <3>2. Filled(t)' = LastPlace /\ Filled(t + 1)' = Place(INIT) - 1
      BY <1>1, <3>1 DEF Filled
    <3> QED BY <1>3, <3>1, <3>2, Ordered, Geometry
  <2>2. CASE wr.sec # TAIL
    <3>1. Tip' = t /\ wr'.sec = NextSector(wr.sec)
      BY <2>2 DEF Fills
    <3>2. Filled(t)' = Place(NextSector(wr.sec)) - 1
      BY <1>1, <3>1 DEF Filled
    <3>3. Place(NextSector(wr.sec)) = Place(wr.sec) + 1
      BY <1>1, <2>2, Ordered
    <3> QED BY <1>1, <1>2, <1>3, <3>1, <3>2, <3>3, Geometry
  <2> QED BY <2>1, <2>2
<1> QED BY <1>1, <1>2, <1>3, <1>4, <1>5, <1>6, Geometry

\* The sectors of the file after that.
LEMMA FillsSectors ==
  ASSUME Laid, NEW t, NEW x, Fills(t, x)
  PROVE  /\ \A b \in 1 .. t : \A i \in Sectors :
              chain'[b].sec[Order[i]] =
                IF b = t /\ i = Filled(t) + 1 THEN x ELSE chain[b].sec[Order[i]]
         /\ Tip' = t + 1 => \A i \in Sectors : chain'[t + 1].sec[Order[i]] = Erased
<1>1. ASSUME NEW b \in 1 .. t, NEW i \in Sectors
      PROVE  chain'[b].sec[Order[i]] =
               IF b = t /\ i = Filled(t) + 1 THEN x ELSE chain[b].sec[Order[i]]
  <2>1. CASE b = t
    <3>1. Order[i] \in Sectors /\ (Order[i] = wr.sec <=> i = Filled(t) + 1)
      BY FillsPlaces, Ordered
    <3> QED BY <2>1, <3>1 DEF Fills
  <2>2. CASE b # t
    <3>1. b \in 1 .. t - 1
      BY <2>2, FillsPlaces
    <3> QED BY <2>2, <3>1 DEF Fills
  <2> QED BY <2>1, <2>2
<1>2. ASSUME Tip' = t + 1, NEW i \in Sectors PROVE chain'[t + 1].sec[Order[i]] = Erased
  <2>1. chain'[t + 1] = EmptyBlock
    BY <1>2, FillsPlaces DEF Fills
  <2>2. Order[i] \in Sectors
    BY Ordered
  <2> QED BY <2>1, <2>2 DEF EmptyBlock
<1> QED BY <1>1, <1>2

LEMMA FillsInv ==
  ASSUME Laid, NEW t, NEW x, Fills(t, x)
  PROVE  \A b \in 1 .. Tip' : \A i \in Sectors :
           LET y == chain'[b].sec[Order[i]] IN
           /\ y.used <=> i <= Filled(b)'
           /\ ~ y.used => y = Erased
           /\ Len(y.raw) <= SectorSize
<1> SUFFICES ASSUME NEW b \in 1 .. Tip', NEW i \in Sectors
             PROVE  LET y == chain'[b].sec[Order[i]] IN
                    /\ y.used <=> i <= Filled(b)'
                    /\ ~ y.used => y = Erased
                    /\ Len(y.raw) <= SectorSize
  OBVIOUS
<1>1. i \in Nat /\ i >= 1 /\ i <= LastPlace
  BY Geometry
<1>2. /\ t \in Nat \ {0} /\ t = Tip /\ Tip' \in { t, t + 1 }
      /\ \A c \in 1 .. t - 1 : Filled(c)' = Filled(c)
      /\ Filled(t) \in 0 .. LastPlace - 1 /\ Filled(t)' = Filled(t) + 1
      /\ Tip' = t + 1 => Filled(t + 1)' = 0
  BY FillsPlaces
<1>3. CASE b \in 1 .. t /\ ~ (b = t /\ i = Filled(t) + 1)
  <2>1. chain'[b].sec[Order[i]] = chain[b].sec[Order[i]]
    BY <1>3, FillsSectors
  <2>2. i <= Filled(b)' <=> i <= Filled(b)
    <3>1. CASE b = t
      BY <1>1, <1>2, <1>3, <3>1
    <3>2. CASE b # t
      <4>1. b \in 1 .. t - 1
        BY <1>2, <1>3, <3>2
      <4> QED BY <1>2, <4>1
    <3> QED BY <3>1, <3>2
  <2> QED BY <1>2, <1>3, <2>1, <2>2 DEF Laid, FillInv
<1>4. CASE b = t /\ i = Filled(t) + 1
  <2>1. chain'[b].sec[Order[i]] = x
    BY <1>2, <1>4, FillsSectors
  <2>2. i <= Filled(b)'
    BY <1>1, <1>2, <1>4
  <2> QED BY <2>1, <2>2 DEF Fills
<1>5. CASE b \notin 1 .. t
  <2>1. b = t + 1 /\ Tip' = t + 1
    BY <1>2, <1>5
  <2>2. chain'[b].sec[Order[i]] = Erased
    BY <2>1, FillsSectors
  <2>3. ~ (i <= Filled(b)')
    BY <1>1, <1>2, <2>1
  <2>4. Erased.used = FALSE /\ Len(Erased.raw) = 0 /\ SectorSize \in Nat
    BY Sizes DEF Erased
  <2> QED BY <2>2, <2>3, <2>4
<1> QED BY <1>3, <1>4, <1>5

\* What the blocks hold after that.
LEMMA FillsHeld ==
  ASSUME Laid, NEW t, NEW x, Fills(t, x)
  PROVE  /\ \A b \in 1 .. t - 1 : Held(b)' = Held(b)
         /\ Held(t)' = Held(t) + x.n
         /\ Tip' = t + 1 => Held(t + 1)' = 0
<1>1. /\ t \in Nat \ {0} /\ t = Tip /\ Tip' \in { t, t + 1 }
      /\ \A c \in 1 .. t - 1 : Filled(c)' = Filled(c)
      /\ Filled(t) \in 0 .. LastPlace - 1 /\ Filled(t)' = Filled(t) + 1
      /\ Filled(t) + 1 \in Sectors
      /\ Tip' = t + 1 => Filled(t + 1)' = 0
  BY FillsPlaces
<1>2. ASSUME NEW b \in 1 .. t - 1 PROVE Held(b)' = Held(b)
  <2>1. chain'[b] = chain[b] /\ Filled(b)' = Filled(b)
    BY <1>1 DEF Fills
  <2> QED BY <2>1 DEF Held, Counts
<1>3. Held(t)' = Held(t) + x.n
  <2> DEFINE g == Counts(chain[t])  h == Counts(chain'[t])  k == Filled(t)
  <2>1. t \in 1 .. t /\ k \in Nat /\ 1 .. k \subseteq Sectors /\ k + 1 \in Sectors
    BY <1>1, Geometry
  <2>2. \A i \in 1 .. k : h[i] = g[i]
    <3> TAKE i \in 1 .. k
    <3>1. i \in Sectors /\ i # k + 1
      BY <2>1
    <3>2. chain'[t].sec[Order[i]] = chain[t].sec[Order[i]]
      BY <2>1, <3>1, FillsSectors
    <3> QED BY <3>1, <3>2 DEF Counts
  <2>3. h[k + 1] = x.n
    <3>1. chain'[t].sec[Order[k + 1]] = x
      BY <2>1, FillsSectors
    <3> QED BY <2>1, <3>1 DEF Counts
  <2>4. Held(t)' = Total(h, k + 1)
    BY <1>1 DEF Held, Counts
  <2>5. Held(t) = Total(g, k)
    BY DEF Held
  <2> HIDE DEF g, h, k
  <2>6. Total(h, k + 1) = Total(h, k) + h[k + 1]
    BY <2>1, TotalStep
  <2>7. Total(h, k) = Total(g, k)
    BY <2>1, <2>2, TotalAgree
  <2> QED BY <2>3, <2>4, <2>5, <2>6, <2>7
<1>4. ASSUME Tip' = t + 1 PROVE Held(t + 1)' = 0
  <2>1. Held(t + 1)' = Total(Counts(chain'[t + 1]), 0)
    BY <1>1, <1>4 DEF Held, Counts
  <2> QED BY <2>1, TotalZero
<1> QED BY <1>2, <1>3, <1>4

LEMMA FillsEnds ==
  ASSUME Laid, NEW t, NEW x, Fills(t, x)
  PROVE  /\ \A b \in 0 .. t - 1 : Ends(b)' = Ends(b)
         /\ Ends(t)' = Ends(t) + x.n
         /\ Tip' = t + 1 => Ends(t + 1)' = Ends(t) + x.n
         /\ Held(Tip)' = IF wr.sec = TAIL THEN 0 ELSE Held(t) + x.n
         /\ Ends(Tip)' = Ends(t) + x.n
<1>1. /\ t \in Nat \ {0} /\ t = Tip /\ Tip' \in { t, t + 1 }
  BY FillsPlaces
<1>2. /\ \A b \in 1 .. t - 1 : Held(b)' = Held(b)
      /\ Held(t)' = Held(t) + x.n
      /\ Tip' = t + 1 => Held(t + 1)' = 0
  BY FillsHeld
<1>3. \A b \in 1 .. t : Helds[b] = Held(b)
  BY <1>1 DEF Helds
<1>4. \A b \in 1 .. Tip' : Helds'[b] = Held(b)'
  BY DEF Helds
<1>5. ASSUME NEW b \in 0 .. t - 1 PROVE Ends(b)' = Ends(b)
  <2> DEFINE g == Helds  h == Helds'
  <2>1. \A c \in 1 .. b : h[c] = g[c]
    <3> TAKE c \in 1 .. b
    <3>1. c \in 1 .. t - 1 /\ c \in 1 .. t /\ c \in 1 .. Tip'
      BY <1>1
    <3> QED BY <1>2, <1>3, <1>4, <3>1
  <2>2. b \in Nat
    BY <1>1
  <2>3. Ends(b)' = Total(h, b) /\ Ends(b) = Total(g, b)
    BY DEF Ends
  <2> HIDE DEF g, h
  <2>4. Total(h, b) = Total(g, b)
    BY <2>1, <2>2, TotalAgree
  <2> QED BY <2>3, <2>4
<1>6. Ends(t)' = Ends(t) + x.n
  <2>1. t - 1 \in Nat /\ t - 1 \in 0 .. t - 1 /\ (t - 1) + 1 = t /\ t \in 1 .. t /\ t \in 1 .. Tip'
    BY <1>1
  <2> DEFINE c == t - 1
  <2>2. c \in Nat /\ c + 1 = t
    BY <2>1
  <2>3. Ends(c)' = Ends(c)
    BY <1>5, <2>1
  <2> HIDE DEF c
  <2>4. /\ Total(Helds, c + 1) = Total(Helds, c) + Helds[c + 1]
        /\ Total(Helds', c + 1) = Total(Helds', c) + Helds'[c + 1]
    BY <2>2, TotalStep
  <2>5. Helds[t] = Held(t) /\ Helds'[t] = Held(t) + x.n
    BY <1>2, <1>3, <1>4, <2>1
  <2>6. Ends(t)' = Total(Helds', t) /\ Ends(t) = Total(Helds, t)
        /\ Ends(c)' = Total(Helds', c) /\ Ends(c) = Total(Helds, c)
    BY DEF Ends
  <2>7. Ends(c) \in Nat /\ Held(t) \in Nat /\ x.n \in Nat
    BY <1>1, <2>1, SizesAre, BlocksAre DEF Fills, c
  <2>8. Total(Helds', t) = Total(Helds', c) + Helds'[t]
    BY <2>2, <2>4
  <2>9. Total(Helds, t) = Total(Helds, c) + Helds[t]
    BY <2>2, <2>4
  <2>10. Ends(t)' = Ends(c) + (Held(t) + x.n)
    BY <2>3, <2>5, <2>6, <2>8
  <2>11. Ends(t) = Ends(c) + Held(t)
    BY <2>5, <2>6, <2>9
  <2> QED BY <2>7, <2>10, <2>11
<1>7. ASSUME Tip' = t + 1 PROVE Ends(t + 1)' = Ends(t) + x.n
  <2>1. t \in Nat /\ t + 1 \in 1 .. Tip'
    BY <1>1, <1>7
  <2>2. Total(Helds', t + 1) = Total(Helds', t) + Helds'[t + 1]
    BY <2>1, TotalStep
  <2>3. Helds'[t + 1] = 0
    BY <1>2, <1>4, <1>7, <2>1
  <2>4. Ends(t + 1)' = Total(Helds', t + 1) /\ Ends(t)' = Total(Helds', t)
    BY DEF Ends
  <2>5. Ends(t) + x.n \in Nat
    BY <1>1, SizesAre DEF Fills
  <2> QED BY <1>6, <2>2, <2>3, <2>4, <2>5
<1>8. Ends(Tip)' = Ends(t) + x.n /\ Held(Tip)' = IF wr.sec = TAIL THEN 0 ELSE Held(t) + x.n
  <2>1. CASE wr.sec = TAIL
    <3>1. Tip' = t + 1
      BY <2>1 DEF Fills
    <3>2. Ends(Tip)' = Ends(t + 1)' /\ Held(Tip)' = Held(t + 1)'
      BY <3>1 DEF Ends, Held, Counts, Filled
    <3> QED BY <1>2, <1>7, <2>1, <3>1, <3>2
  <2>2. CASE wr.sec # TAIL
    <3>1. Tip' = t
      BY <2>2 DEF Fills
    <3>2. Ends(Tip)' = Ends(t)' /\ Held(Tip)' = Held(t)'
      BY <3>1 DEF Ends, Held, Counts, Filled
    <3> QED BY <1>2, <1>6, <2>2, <3>1, <3>2
  <2> QED BY <2>1, <2>2
<1> QED BY <1>5, <1>6, <1>7, <1>8

\* What comes before a sector that is written stays what it was.
LEMMA FillsBefore ==
  ASSUME Laid, NEW t, NEW x, Fills(t, x)
  PROVE  /\ \A b \in 1 .. t : \A i \in Sectors :
              i <= Filled(b) + 1 => Before(b, i)' = Before(b, i)
         /\ Before(t, Filled(t) + 1) = Ends(t)
<1>1. t \in Nat \ {0} /\ t = Tip
  BY FillsPlaces
<1>2. ASSUME NEW b \in 1 .. t, NEW i \in Sectors, i <= Filled(b) + 1
      PROVE  Before(b, i)' = Before(b, i)
  <2> DEFINE g == Counts(chain[b])  h == Counts(chain'[b])  k == i - 1
  <2>1. k \in Nat /\ b - 1 \in 0 .. t - 1
    BY <1>1, Geometry
  <2>2. Ends(b - 1)' = Ends(b - 1)
    BY <2>1, FillsEnds
  <2>3. \A j \in 1 .. k : h[j] = g[j]
    <3> TAKE j \in 1 .. k
    <3>1. j \in Sectors /\ j < Filled(b) + 1
      <4>1. Filled(b) \in Int /\ i \in Sectors
        BY <1>1, BlocksAre, Geometry
      <4> QED BY <4>1, <1>2, Geometry
    <3>2. chain'[b].sec[Order[j]] = chain[b].sec[Order[j]]
      <4>1. ~ (b = t /\ j = Filled(t) + 1)
        BY <3>1
      <4> QED BY <3>1, <4>1, FillsSectors
    <3> QED BY <3>1, <3>2 DEF Counts
  <2>4. Before(b, i)' = Ends(b - 1)' + Total(h, k) /\ Before(b, i) = Ends(b - 1) + Total(g, k)
    BY DEF Before, Counts, Ends
  <2> HIDE DEF g, h, k
  <2>5. Total(h, k) = Total(g, k)
    BY <2>1, <2>3, TotalAgree
  <2> QED BY <2>2, <2>4, <2>5
<1>3. Before(t, Filled(t) + 1) = Ends(t)
  <2>1. Filled(t) \in Int /\ (Filled(t) + 1) - 1 = Filled(t)
    BY <1>1, BlocksAre, Geometry
  <2>2. Before(t, Filled(t) + 1) = Ends(t - 1) + Held(t)
    BY <2>1 DEF Before, Held
  <2> QED BY <1>1, <2>2, SizesAre
<1> QED BY <1>2, <1>3

-----------------------------------------------------------------------------
(* What the calls do to the structure of the file.                         *)

WrRec == [ blk : Nat, sec : Sectors, buf : Seq(Nat), room : Nat, inBlock : Nat, size : Nat ]

LEMMA HeadersAre ==
  /\ \A s \in Sectors : Header(s) \in Nat /\ Header(s) < SectorSize
  /\ Header(INIT) = InitHeader /\ Header(TAIL) = TailHeader
  /\ \A s \in Sectors : s # INIT /\ s # TAIL => Header(s) = 0
  /\ \A s \in Sectors : s # INIT => FreshBuffer(s) = Zeros(Header(s))
  /\ \A m \in Nat : Zeros(m) \in Seq(Nat) /\ Len(Zeros(m)) = m /\ \A i \in 1 .. m : Zeros(m)[i] = 0
  /\ Zeros(0) = << >>
<1>1. /\ SectorSize \in Nat /\ InitHeader \in Nat /\ TailHeader \in Nat
      /\ InitHeader < SectorSize /\ TailHeader < SectorSize
  BY Sizes
<1>2. Header(INIT) = InitHeader /\ Header(TAIL) = TailHeader
  BY DEF Header, INIT, TAIL
<1>3. \A s \in Sectors : s # INIT /\ s # TAIL => Header(s) = 0
  BY DEF Header
<1>4. \A s \in Sectors : Header(s) \in Nat /\ Header(s) < SectorSize
  BY <1>1, <1>2, <1>3
<1>5. \A m \in Nat : Zeros(m) \in Seq(Nat) /\ Len(Zeros(m)) = m /\ \A i \in 1 .. m : Zeros(m)[i] = 0
  BY DEF Zeros
<1>6. Zeros(0) = << >>
  BY DEF Zeros
<1>7. \A s \in Sectors : s # INIT => FreshBuffer(s) = Zeros(Header(s))
  BY <1>2, <1>3, <1>6 DEF FreshBuffer
<1> QED BY <1>2, <1>3, <1>4, <1>5, <1>6, <1>7

\* The sector that k more bytes complete.
Completed(k) ==
  [ used |-> TRUE, raw |-> Stamped(wr.buf \o NewBytes(k)),
    n |-> (Len(wr.buf) + k - Header(wr.sec)) % (MaxUInt16 + 1) ]

LEMMA CompletedIs ==
  ASSUME Laid, NEW k \in Nat, Len(wr.buf) + k <= SectorSize
  PROVE  /\ Completed(k) \in SectorRec /\ Completed(k).used = TRUE
         /\ Len(Completed(k).raw) = Len(wr.buf) + k
         /\ Completed(k).n \in Nat
         /\ Len(wr.buf) + k >= Header(wr.sec) =>
              Completed(k).n = Len(wr.buf) + k - Header(wr.sec)
         /\ \A i \in 1 .. Len(wr.buf) + k :
              Completed(k).raw[i] =
                IF wr.sec = INIT /\ i <= Min({ InitHeader, Len(wr.buf) }) THEN 0
                ELSE IF i <= Len(wr.buf) THEN wr.buf[i] ELSE written + (i - Len(wr.buf))
<1>1. wr.buf \in Seq(Nat) /\ written \in Nat /\ wr.sec \in Sectors
  BY Sizes DEF Laid, Typed
<1> DEFINE data == wr.buf \o NewBytes(k)
<1>2. /\ data \in Seq(Nat) /\ Len(data) = Len(wr.buf) + k
      /\ \A i \in 1 .. Len(wr.buf) + k :
           data[i] = IF i <= Len(wr.buf) THEN wr.buf[i] ELSE written + (i - Len(wr.buf))
  <2> DEFINE w == NewBytes(k)  v == wr.buf
  <2>1. w \in Seq(Nat) /\ Len(w) = k /\ \A i \in 1 .. k : w[i] = written + i
    BY <1>1 DEF NewBytes
  <2>2. v \in Seq(Nat)
    BY <1>1
  <2> HIDE DEF w, v
  <2>3. v \o w \in Seq(Nat) /\ Len(v \o w) = Len(v) + k /\ Len(v) \in Nat
    <3>1. w \in Seq(Nat) /\ Len(w) = k
      BY <2>1
    <3>2. v \o w \in Seq(Nat) /\ Len(v \o w) = Len(v) + Len(w)
      BY ONLY <2>2, <3>1, ConcatProperties
    <3>3. Len(v) \in Nat
      BY <2>2
    <3> QED BY <3>1, <3>2, <3>3
  <2>4. ASSUME NEW i \in 1 .. Len(v) + k
        PROVE  (v \o w)[i] = IF i <= Len(v) THEN v[i] ELSE written + (i - Len(v))
    <3>1. (v \o w)[i] = IF i <= Len(v) THEN v[i] ELSE w[i - Len(v)]
      BY <2>1, <2>2, ConcatProperties
    <3>2. ~ (i <= Len(v)) => i - Len(v) \in 1 .. k
      BY <2>3
    <3> QED BY <2>1, <3>1, <3>2
  <2>5. v = wr.buf /\ data = v \o w
    BY DEF v, w
  <2> HIDE DEF data
  <2> QED BY <2>3, <2>4, <2>5
<1> HIDE DEF data
<1>3. /\ Stamped(data) \in Seq(Nat) /\ Len(Stamped(data)) = Len(data)
      /\ \A i \in 1 .. Len(data) :
           Stamped(data)[i] = IF wr.sec = INIT /\ i <= Min({ InitHeader, Len(wr.buf) }) THEN 0 ELSE data[i]
  <2>1. CASE wr.sec = INIT
    <3> DEFINE m == Min({ InitHeader, Len(wr.buf) })
               d == [ i \in 1 .. Len(data) |-> IF i <= m THEN 0 ELSE data[i] ]
    <3>1. Stamped(data) = d
      BY <2>1 DEF Stamped
    <3> HIDE DEF m
    <3>2. Len(data) \in Nat /\ \A i \in 1 .. Len(data) : data[i] \in Nat
      BY <1>2
    <3>3. d \in Seq(Nat) /\ Len(d) = Len(data)
      BY <3>2
    <3> QED BY <2>1, <3>1, <3>3 DEF m
  <2>2. CASE wr.sec # INIT
    <3>1. Stamped(data) = data
      BY <2>2 DEF Stamped
    <3> QED BY <1>2, <2>2, <3>1
  <2> QED BY <2>1, <2>2
<1>4. Len(wr.buf) \in Nat /\ Header(wr.sec) \in Nat
  BY <1>1, HeadersAre
<1>5. Len(wr.buf) + k - Header(wr.sec) \in Int
  BY <1>4
<1>6. (Len(wr.buf) + k - Header(wr.sec)) % (MaxUInt16 + 1) \in UInt16
  BY <1>5, UInt16Is
<1>7. /\ Completed(k).used = TRUE /\ Completed(k).raw = Stamped(data)
      /\ Completed(k).n = (Len(wr.buf) + k - Header(wr.sec)) % (MaxUInt16 + 1)
  BY DEF Completed, data
<1>8. Completed(k) \in SectorRec
  BY <1>3, <1>6 DEF Completed, data, SectorRec
<1>9. \A i \in 1 .. Len(wr.buf) + k :
        Stamped(data)[i] =
          IF wr.sec = INIT /\ i <= Min({ InitHeader, Len(wr.buf) }) THEN 0
          ELSE IF i <= Len(wr.buf) THEN wr.buf[i] ELSE written + (i - Len(wr.buf))
  BY <1>2, <1>3
<1>10. Len(Completed(k).raw) = Len(wr.buf) + k
  BY <1>2, <1>3, <1>7
<1>11. ASSUME NEW i \in 1 .. Len(wr.buf) + k
       PROVE  Completed(k).raw[i] =
                IF wr.sec = INIT /\ i <= Min({ InitHeader, Len(wr.buf) }) THEN 0
                ELSE IF i <= Len(wr.buf) THEN wr.buf[i] ELSE written + (i - Len(wr.buf))
  <2>1. Completed(k).raw[i] = Stamped(data)[i]
    BY <1>7
  <2> QED BY <1>9, <2>1
<1>12. Completed(k).n \in Nat
  BY <1>6, <1>7, UInt16Is
<1>13. ASSUME Len(wr.buf) + k >= Header(wr.sec)
       PROVE  Completed(k).n = Len(wr.buf) + k - Header(wr.sec)
  <2> DEFINE m == Len(wr.buf) + k - Header(wr.sec)
  <2>1. m \in 0 .. SectorSize
    BY <1>4, <1>13, Sizes
  <2>2. Completed(k).n = m % (MaxUInt16 + 1)
    BY <1>7
  <2> HIDE DEF m
  <2>3. Completed(k).n = m
    BY <2>1, <2>2, UInt16Is
  <2> QED BY <2>3 DEF m
<1>14. Completed(k).used = TRUE
  BY <1>7
<1> QED BY <1>8, <1>10, <1>11, <1>12, <1>13, <1>14

\* flog_commit_file_sector, for any sector.
Commit(k) == CommitSector(k) \/ CommitTail(k)

\* What it does to the handle, and to the tail's count.
Moves(k) ==
  /\ wr' \in WrRec
  /\ wr'.buf = Zeros(Header(wr'.sec)) /\ wr'.room = SectorSize - Header(wr'.sec)
  /\ wr'.size = wr.size + k
  /\ wr'.inBlock = IF wr.sec = TAIL THEN 0 ELSE wr.inBlock + k
  /\ dirty' = (wr'.sec = INIT)
  /\ wr.sec = TAIL => chain'[Tip].total = wr.inBlock + k
  /\ chain' \in Seq(BlockRec) /\ Tip' \in 1 .. MaxBlocks

LEMMA SectorCommitted ==
  ASSUME Laid, NEW k \in Nat, Len(wr.buf) + k <= SectorSize, CommitSector(k)
  PROVE  Fills(Tip, Completed(k)) /\ Moves(k)
<1> DEFINE t == Tip  s == wr.sec  x == Completed(k)  next == NextSector(s)
<1>1. /\ chain \in Seq(BlockRec) /\ t \in 1 .. MaxBlocks /\ t = Len(chain) /\ s \in Sectors
      /\ wr \in WrRec /\ wr.blk = t
  BY DEF Laid, Typed, WrRec, FillInv, Tip
<1>2. x \in SectorRec /\ x.used = TRUE /\ Len(x.raw) <= SectorSize /\ x.n \in Nat
  BY CompletedIs
<1>3. s # TAIL /\ next \in Sectors /\ next # INIT
  BY <1>1, Ordered DEF CommitSector
<1>4. FreshBuffer(next) = Zeros(Header(next)) /\ Header(next) \in Nat /\ Header(next) < SectorSize
  BY <1>3, HeadersAre
<1>5. Zeros(Header(next)) \in Seq(Nat) /\ Len(Zeros(Header(next))) = Header(next)
  BY <1>4, HeadersAre
<1>6. chain' = [ chain EXCEPT ![t].sec[s] = x ]
  <2>1. (IF s = INIT THEN InitHeader ELSE 0) = Header(s)
    BY <1>1, <1>3, HeadersAre
  <2>2. chain' = WithSector(wr.blk, s, Stamped(wr.buf \o NewBytes(k)), Len(wr.buf) + k - Header(s))
    BY <2>1 DEF CommitSector
  <2> QED BY <1>1, <2>2 DEF WithSector, Completed
<1>7. /\ wr' = Counted(HandleAt(wr, wr.blk, next, FreshBuffer(next)), k)
      /\ dirty' = FALSE
  BY DEF CommitSector
<1>8. /\ wr'.blk = t /\ wr'.sec = next /\ wr'.buf = Zeros(Header(next))
      /\ wr'.room = SectorSize - Header(next)
      /\ wr'.size = wr.size + k /\ wr'.inBlock = wr.inBlock + k
      /\ wr' \in WrRec
  <2>1. wr' = [ wr EXCEPT !.blk = t, !.sec = next, !.buf = Zeros(Header(next)),
                  !.room = SectorSize - Header(next), !.inBlock = @ + k, !.size = @ + k ]
    BY <1>1, <1>4, <1>5, <1>7 DEF Counted, HandleAt
  <2>2. SectorSize - Header(next) \in Nat /\ wr.inBlock + k \in Nat /\ wr.size + k \in Nat /\ t \in Nat
    BY SMTT(30), <1>1, <1>4, Sizes DEF WrRec
  <2> HIDE DEF t, next
  <2> QED BY <1>1, <1>3, <1>5, <2>1, <2>2 DEF WrRec
<1> HIDE DEF x
<1>9. chain[t] \in BlockRec
  BY <1>1
<1>10. /\ chain' \in Seq(BlockRec) /\ Len(chain') = t
       /\ \A b \in 1 .. t : b # t => chain'[b] = chain[b]
       /\ \A r \in Sectors : chain'[t].sec[r] = IF r = s THEN x ELSE chain[t].sec[r]
  <2> DEFINE y == [ chain[t] EXCEPT !.sec[s] = x ]
  <2>1. y \in BlockRec /\ \A r \in Sectors : y.sec[r] = IF r = s THEN x ELSE chain[t].sec[r]
    BY <1>1, <1>2, <1>9 DEF BlockRec
  <2>2. chain' = [ chain EXCEPT ![t] = y ]
    BY <1>6
  <2> HIDE DEF y
  <2> QED BY <1>1, <2>1, <2>2
<1>11. Tip' = t
  BY <1>10 DEF Tip
<1>12. Fills(t, x)
  <2>1. \A b \in 1 .. t - 1 : b \in 1 .. t /\ b # t
    BY <1>1, Sizes
  <2> QED BY <1>2, <1>3, <1>8, <1>10, <1>11, <2>1 DEF Fills
<1>13. Moves(k)
  BY <1>1, <1>3, <1>7, <1>8, <1>10, <1>11 DEF Moves
<1> QED BY <1>12, <1>13 DEF x

LEMMA TailCommitted ==
  ASSUME Laid, NEW k \in Nat, Len(wr.buf) + k <= SectorSize, CommitTail(k)
  PROVE  Fills(Tip, Completed(k)) /\ Moves(k)
<1> DEFINE t == Tip  s == wr.sec  x == Completed(k)
<1>1. /\ chain \in Seq(BlockRec) /\ t \in 1 .. MaxBlocks /\ t = Len(chain) /\ s \in Sectors
      /\ wr \in WrRec /\ wr.blk = t
  BY DEF Laid, Typed, WrRec, FillInv, Tip
<1>2. x \in SectorRec /\ x.used = TRUE /\ Len(x.raw) <= SectorSize /\ x.n \in Nat
  BY CompletedIs
<1>3. s = TAIL /\ t < MaxBlocks /\ s # INIT
  BY Geometry DEF CommitTail, Tip
<1>4. Header(INIT) = InitHeader /\ Header(INIT) \in Nat /\ Header(INIT) < SectorSize
  BY Geometry, HeadersAre
<1>5. Zeros(Header(INIT)) \in Seq(Nat) /\ Len(Zeros(Header(INIT))) = Header(INIT)
  BY <1>4, HeadersAre
<1> DEFINE y == [ chain[t] EXCEPT !.sec[s] = x, !.total = wr.inBlock + k ]
<1>6. chain' = Append([ chain EXCEPT ![t] = y ], EmptyBlock)
  <2>1. TailHeader = Header(s) /\ Stamped(wr.buf \o NewBytes(k)) = wr.buf \o NewBytes(k)
    BY <1>3, HeadersAre DEF Stamped
  <2>2. chain' = Append([ WithSector(t, s, Stamped(wr.buf \o NewBytes(k)), Len(wr.buf) + k - Header(s))
                            EXCEPT ![t].total = wr.inBlock + k ], EmptyBlock)
    BY <1>1, <1>3, <2>1 DEF CommitTail, TailTotal
  <2>3. WithSector(t, s, Stamped(wr.buf \o NewBytes(k)), Len(wr.buf) + k - Header(s))
          = [ chain EXCEPT ![t].sec[s] = x ]
    BY DEF WithSector, Completed
  <2>4. [ [ chain EXCEPT ![t].sec[s] = x ] EXCEPT ![t].total = wr.inBlock + k ] = [ chain EXCEPT ![t] = y ]
    <3> HIDE DEF x
    <3>1. t \in 1 .. Len(chain) /\ t \in DOMAIN chain
      BY <1>1
    <3>2. chain[t] \in BlockRec
      BY <1>1
    <3> QED BY <1>1, <3>1, <3>2 DEF BlockRec
  <2> QED BY <2>2, <2>3, <2>4
<1>7. /\ wr' = [ HandleAt(wr, wr.blk + 1, INIT, Zeros(InitHeader))
                   EXCEPT !.inBlock = 0, !.size = @ + k ]
      /\ dirty' = TRUE
  BY DEF CommitTail
<1>8. /\ wr'.blk = t + 1 /\ wr'.sec = INIT /\ wr'.buf = Zeros(Header(INIT))
      /\ wr'.room = SectorSize - Header(INIT)
      /\ wr'.size = wr.size + k /\ wr'.inBlock = 0
      /\ wr' \in WrRec
  <2>1. wr' = [ wr EXCEPT !.blk = t + 1, !.sec = INIT, !.buf = Zeros(Header(INIT)),
                  !.room = SectorSize - Header(INIT), !.inBlock = 0, !.size = @ + k ]
    BY <1>1, <1>4, <1>5, <1>7 DEF HandleAt
  <2>2. SectorSize - Header(INIT) \in Nat /\ wr.size + k \in Nat /\ t + 1 \in Nat /\ INIT \in Sectors
    <3>1. wr.size \in Nat
      BY <1>1 DEF WrRec
    <3>2. MaxBlocks \in Nat /\ SectorSize \in Nat
      BY Sizes
    <3> HIDE DEF t
    <3> QED BY <1>1, <1>4, <3>1, <3>2, Geometry
  <2> HIDE DEF t
  <2> QED BY <1>1, <1>5, <2>1, <2>2 DEF WrRec
<1> HIDE DEF x
<1>9. chain[t] \in BlockRec /\ wr.inBlock + k \in Nat
  BY <1>1 DEF WrRec
<1>10. y \in BlockRec /\ y.total = wr.inBlock + k
       /\ \A r \in Sectors : y.sec[r] = IF r = s THEN x ELSE chain[t].sec[r]
  BY <1>1, <1>2, <1>9 DEF BlockRec
<1>11. EmptyBlock \in BlockRec
  <2>1. Erased \in SectorRec
    BY UInt16Is DEF Erased, SectorRec
  <2> QED BY <2>1 DEF EmptyBlock, BlockRec
<1> HIDE DEF y
<1>12. /\ chain' \in Seq(BlockRec) /\ Len(chain') = t + 1
       /\ \A b \in 1 .. t : b # t => chain'[b] = chain[b]
       /\ chain'[t] = y /\ chain'[t + 1] = EmptyBlock
  BY <1>1, <1>6, <1>10, <1>11
<1>13. Tip' = t + 1
  BY <1>12 DEF Tip
<1>14. Fills(t, x)
  <2>1. \A b \in 1 .. t - 1 : b \in 1 .. t /\ b # t
    BY <1>1, Sizes
  <2> QED BY <1>2, <1>3, <1>8, <1>10, <1>12, <1>13, <2>1 DEF Fills
<1>15. Moves(k)
  <2>1. Tip' \in 1 .. MaxBlocks
    BY <1>1, <1>3, <1>13, Sizes
  <2> QED BY <1>3, <1>7, <1>8, <1>10, <1>12, <2>1 DEF Moves
<1> QED BY <1>14, <1>15 DEF x

LEMMA HandleIs ==
  Laid => /\ wr \in WrRec /\ wr.blk = Tip /\ wr.sec \in Sectors
          /\ wr.buf \in Seq(Nat) /\ Len(wr.buf) \in Nat
          /\ wr.room \in Nat /\ wr.room > 0 /\ Len(wr.buf) + wr.room = SectorSize
          /\ wr.inBlock \in Nat /\ wr.size \in Nat
          /\ written \in Nat /\ written \in 0 .. MaxBytes
          /\ SectorSize \in Nat /\ MaxBytes \in Nat
<1> SUFFICES ASSUME Laid
             PROVE  /\ wr \in WrRec /\ wr.blk = Tip /\ wr.sec \in Sectors
                    /\ wr.buf \in Seq(Nat) /\ Len(wr.buf) \in Nat
                    /\ wr.room \in Nat /\ wr.room > 0 /\ Len(wr.buf) + wr.room = SectorSize
                    /\ wr.inBlock \in Nat /\ wr.size \in Nat
                    /\ written \in Nat /\ written \in 0 .. MaxBytes
                    /\ SectorSize \in Nat /\ MaxBytes \in Nat
  OBVIOUS
<1>1. wr \in WrRec /\ written \in 0 .. MaxBytes
  BY DEF Laid, Typed, WrRec
<1>2. /\ wr.buf \in Seq(Nat) /\ wr.room \in Nat /\ wr.sec \in Sectors
      /\ wr.inBlock \in Nat /\ wr.size \in Nat
  BY <1>1 DEF WrRec
<1>3. SectorSize \in Nat /\ MaxBytes \in Nat
  BY Sizes
<1>4. wr.blk = Tip /\ wr.room > 0 /\ Len(wr.buf) + wr.room = SectorSize
  BY DEF Laid, FillInv
<1>5. written \in Nat
  BY <1>1, <1>3
<1>6. Len(wr.buf) \in Nat
  BY <1>2
<1> QED BY <1>1, <1>2, <1>3, <1>4, <1>5, <1>6

LEMMA CommitDoes ==
  ASSUME Laid, NEW k \in Nat, Len(wr.buf) + k <= SectorSize, Commit(k)
  PROVE  Fills(Tip, Completed(k)) /\ Moves(k)
  BY SectorCommitted, TailCommitted DEF Commit

\* Nothing is taken from a reader when the file grows.
LEMMA ReaderStays ==
  ASSUME Laid, UNCHANGED rd, Tip' \in { Tip, Tip + 1 }
  PROVE  ReaderInv'
<1>1. rd.blk \in 1 .. Tip /\ (rd.sec = TAIL => rd.blk < Tip) /\ Tip \in Nat
  BY BlocksAre DEF Laid, ReaderInv
<1> QED BY <1>1 DEF ReaderInv

LEMMA CommitLaid ==
  ASSUME Laid, NEW k \in Nat, Len(wr.buf) + k <= SectorSize, Commit(k),
         isOpen' \in BOOLEAN, written' \in 0 .. MaxBytes, UNCHANGED reader
  PROVE  Laid'
<1> DEFINE x == Completed(k)  t == Tip
<1>1. Fills(t, x) /\ Moves(k)
  BY CommitDoes
<1> HIDE DEF x, t
<1>2. Tip' \in { Tip, Tip + 1 } /\ wr'.blk = Tip'
  BY <1>1 DEF Fills
<1>3. ReaderInv'
  BY <1>2, ReaderStays DEF reader
<1>4. dirty' \in BOOLEAN /\ wr' \in WrRec /\ chain' \in Seq(BlockRec) /\ Tip' \in 1 .. MaxBlocks
  BY <1>1 DEF Moves
<1>5. Typed'
  BY <1>4 DEF Typed, Laid, WrRec, reader
<1>6. FillInv'
  <2>1. wr'.sec \in Sectors
    BY <1>4 DEF WrRec
  <2>2. /\ Header(wr'.sec) \in Nat /\ Header(wr'.sec) < SectorSize
        /\ Len(Zeros(Header(wr'.sec))) = Header(wr'.sec)
    BY <2>1, HeadersAre
  <2>3. wr'.room > 0 /\ Len(wr'.buf) + wr'.room = SectorSize
    <3>1. SectorSize \in Nat
      BY Sizes
    <3>2. wr'.buf = Zeros(Header(wr'.sec)) /\ wr'.room = SectorSize - Header(wr'.sec)
      BY <1>1 DEF Moves
    <3> DEFINE h == Header(wr'.sec)
    <3>3. h \in Nat /\ h < SectorSize /\ Len(wr'.buf) = h /\ wr'.room = SectorSize - h
      BY <2>2, <3>2
    <3> HIDE DEF h
    <3> QED BY <3>1, <3>3
  <2>4. dirty' <=> wr'.sec = INIT
    BY <1>1 DEF Moves
  <2>5. \A b \in 1 .. Tip' : \A i \in Sectors :
          LET y == chain'[b].sec[Order[i]] IN
          /\ y.used <=> i <= Filled(b)'
          /\ ~ y.used => y = Erased
          /\ Len(y.raw) <= SectorSize
    BY <1>1, FillsInv
  <2> QED BY <1>2, <2>3, <2>4, <2>5 DEF FillInv
<1> QED BY <1>3, <1>5, <1>6 DEF Laid

\* The handle moves in its buffer only.
LEMMA BufferLaid ==
  ASSUME Laid, UNCHANGED << chain, dirty, reader >>,
         wr' \in WrRec, wr'.blk = wr.blk, wr'.sec = wr.sec,
         wr'.room > 0, Len(wr'.buf) + wr'.room = SectorSize,
         isOpen' \in BOOLEAN, written' \in 0 .. MaxBytes
  PROVE  Laid'
<1>1. Tip' = Tip /\ \A b : Filled(b)' = Filled(b)
  BY DEF Tip, Filled
<1>2. Typed'
  BY <1>1 DEF Laid, Typed, reader, WrRec
<1>3. FillInv'
  BY <1>1 DEF Laid, FillInv
<1>4. ReaderInv'
  BY <1>1 DEF Laid, ReaderInv, reader
<1> QED BY <1>2, <1>3, <1>4 DEF Laid

LEMMA WriteLaid ==
  ASSUME Laid, NEW k \in 1 .. SectorSize, Write(k)
  PROVE  Laid'
<1>1. /\ wr \in WrRec /\ Len(wr.buf) + wr.room = SectorSize /\ written \in Nat
      /\ wr.buf \in Seq(Nat) /\ Len(wr.buf) \in Nat
      /\ wr.room \in Nat /\ wr.inBlock \in Nat /\ wr.size \in Nat
      /\ isOpen' \in BOOLEAN /\ k \in Nat /\ SectorSize \in Nat
  <2>1. isOpen' \in BOOLEAN
    BY DEF Write, Laid, Typed
  <2> QED BY <2>1, HandleIs
<1>2. written' \in 0 .. MaxBytes /\ UNCHANGED reader
  <2>1. written + k <= MaxBytes /\ written' = written + k /\ MaxBytes \in Nat
    BY HandleIs DEF Write
  <2> QED BY <1>1, <2>1 DEF Write
<1>3. CASE k < wr.room /\ UNCHANGED << chain, dirty >>
           /\ wr' = Counted([ wr EXCEPT !.buf = @ \o NewBytes(k), !.room = @ - k ], k)
  <2>1. /\ NewBytes(k) \in Seq(Nat) /\ Len(NewBytes(k)) = k
    BY <1>1 DEF NewBytes
  <2> DEFINE w == NewBytes(k)
  <2> HIDE DEF w
  <2>2. wr' = [ wr EXCEPT !.buf = @ \o w, !.room = @ - k, !.inBlock = @ + k, !.size = @ + k ]
    BY <1>1, <1>3 DEF Counted, w, WrRec
  <2>3. w \in Seq(Nat) /\ Len(w) = k
    BY <2>1 DEF w
  <2>4. /\ wr.buf \o w \in Seq(Nat) /\ Len(wr.buf \o w) = Len(wr.buf) + k
    <3> DEFINE v == wr.buf
    <3>1. v \in Seq(Nat)
      BY <1>1
    <3> HIDE DEF v
    <3>2. v \o w \in Seq(Nat) /\ Len(v \o w) = Len(v) + k
      BY <2>3, <3>1
    <3> QED BY <3>2 DEF v
  <2>5. /\ wr'.buf = wr.buf \o w /\ wr'.room = wr.room - k
        /\ wr'.blk = wr.blk /\ wr'.sec = wr.sec /\ wr' \in WrRec
    <3>1. wr.room - k \in Nat /\ wr.inBlock + k \in Nat /\ wr.size + k \in Nat
      BY SMTT(30), <1>1, <1>3
    <3> QED BY <1>1, <2>2, <2>4, <3>1 DEF WrRec
  <2>6. wr'.room > 0 /\ Len(wr'.buf) + wr'.room = SectorSize
    <3>1. Len(wr'.buf) = Len(wr.buf) + k /\ wr'.room = wr.room - k /\ k < wr.room
      BY <1>3, <2>4, <2>5
    <3> QED BY SMTT(30), <1>1, <3>1
  <2> QED BY <1>1, <1>2, <1>3, <2>5, <2>6, BufferLaid
<1>4. CASE k = wr.room /\ Commit(k)
  BY <1>1, <1>2, <1>4, CommitLaid
<1> QED BY <1>3, <1>4 DEF Write, Commit

LEMMA FlushFits == Laid => 0 \in Nat /\ Len(wr.buf) + 0 <= SectorSize /\ written \in 0 .. MaxBytes
  BY HandleIs

LEMMA ForeignFlushLaid ==
  ASSUME Laid, ForeignFlush
  PROVE  Laid'
  BY FlushFits, CommitLaid DEF ForeignFlush, Commit, Laid, Typed

LEMMA CloseLaid ==
  ASSUME Laid, NEW head \in BOOLEAN, Close(head)
  PROVE  Laid'
<1>1. isOpen' \in BOOLEAN /\ UNCHANGED << written, reader >>
  BY DEF Close
<1>2. CASE CommitSector(0)
  BY <1>1, <1>2, FlushFits, CommitLaid DEF Commit
<1>3. CASE UNCHANGED << chain, wr, dirty >>
  <2>1. wr' \in WrRec /\ wr'.room > 0 /\ Len(wr'.buf) + wr'.room = SectorSize
        /\ written' \in 0 .. MaxBytes
    BY <1>1, <1>3 DEF Laid, Typed, FillInv, WrRec
  <2> QED BY <1>1, <1>3, <2>1, BufferLaid
<1> QED BY <1>2, <1>3 DEF Close

\* A file is reopened where it was left.
LEMMA ReopenSector == Laid => Order[Used(Len(chain)) + 1] = wr.sec
<1> SUFFICES ASSUME Laid PROVE Order[Used(Len(chain)) + 1] = wr.sec
  OBVIOUS
<1>1. Tip \in 1 .. Tip /\ wr.sec \in Sectors
  BY Sizes DEF Laid, Typed
<1>2. Used(Tip) = Place(wr.sec) - 1
  BY <1>1, BlocksAre DEF Filled
<1>3. Place(wr.sec) \in Int /\ Order[Place(wr.sec)] = wr.sec
  <2>1. Place(wr.sec) \in Sectors /\ Order[Place(wr.sec)] = wr.sec
    BY <1>1, Ordered
  <2> QED BY <2>1, Geometry
<1> QED BY <1>2, <1>3 DEF Tip

LEMMA ReopenLaid ==
  ASSUME Laid, Reopen
  PROVE  Laid'
<1> DEFINE s == wr.sec  f == FreshBuffer(s)
<1>1. PICK g \in Garbage \cup { wr.inBlock } :
        wr' = [ HandleAt(wr, Len(chain), s, f) EXCEPT !.inBlock = g, !.size = FileSize ]
  BY ReopenSector DEF Reopen
<1>2. /\ wr \in WrRec /\ wr.blk = Len(chain) /\ s \in Sectors /\ FileSize \in Nat
      /\ Len(chain) \in Nat /\ written \in 0 .. MaxBytes /\ wr.inBlock \in Nat
  BY SizesAre, HandleIs, BlocksAre DEF Tip
<1>3. g \in Nat
  BY <1>2, Sizes
<1>4. f \in Seq(Nat) /\ Len(f) \in Nat /\ Len(f) < SectorSize
  <2>1. CASE s = INIT
    BY <2>1, Geometry, Sizes DEF FreshBuffer
  <2>2. CASE s # INIT
    BY <1>2, <2>2, HeadersAre
  <2> QED BY <2>1, <2>2
<1>5. SectorSize - Len(f) \in Nat /\ SectorSize - Len(f) > 0
  BY <1>4, Sizes
<1>6. wr' = [ wr EXCEPT !.blk = Len(chain), !.sec = s, !.buf = f,
                !.room = SectorSize - Len(f), !.inBlock = g, !.size = FileSize ]
  BY <1>1, <1>2 DEF HandleAt, WrRec
<1> HIDE DEF f
<1>7. /\ wr' \in WrRec /\ wr'.blk = wr.blk /\ wr'.sec = wr.sec
      /\ wr'.room = SectorSize - Len(f) /\ wr'.buf = f
  BY <1>2, <1>3, <1>4, <1>5, <1>6 DEF WrRec
<1>8. wr'.room > 0 /\ Len(wr'.buf) + wr'.room = SectorSize
  BY <1>4, <1>5, <1>7, Sizes
<1>9. UNCHANGED << chain, dirty, written, reader >> /\ isOpen' \in BOOLEAN
  BY DEF Reopen
<1> QED BY <1>2, <1>7, <1>8, <1>9, BufferLaid

RdRec == [ open : BOOLEAN, blk : Nat, sec : Sectors, off : Int, room : Int ]

\* A call that only reads.
LEMMA ReadLaid ==
  ASSUME Laid, UNCHANGED writer, rd' \in RdRec, rd'.blk \in 1 .. Tip,
         rd'.sec = TAIL => rd'.blk < Tip, pos' \in Int, want' \in 0 .. MaxRead
  PROVE  Laid'
<1>1. Tip' = Tip /\ \A b : Filled(b)' = Filled(b)
  BY DEF Tip, Filled, writer
<1>2. Typed'
  BY <1>1 DEF Laid, Typed, writer, RdRec
<1>3. FillInv'
  BY <1>1 DEF Laid, FillInv, writer
<1>4. ReaderInv'
  BY <1>1 DEF ReaderInv
<1> QED BY <1>2, <1>3, <1>4 DEF Laid

LEMMA ReaderIs ==
  Laid => /\ rd \in RdRec /\ rd.blk \in 1 .. Tip /\ rd.sec \in Sectors
          /\ rd.sec = TAIL => rd.blk < Tip
          /\ rd.off \in Int /\ rd.room \in Int /\ rd.open \in BOOLEAN
          /\ pos \in Int /\ want \in 0 .. MaxRead /\ want \in Nat /\ MaxRead \in Nat
<1> SUFFICES ASSUME Laid
             PROVE  /\ rd \in RdRec /\ rd.blk \in 1 .. Tip /\ rd.sec \in Sectors
                    /\ rd.sec = TAIL => rd.blk < Tip
                    /\ rd.off \in Int /\ rd.room \in Int /\ rd.open \in BOOLEAN
                    /\ pos \in Int /\ want \in 0 .. MaxRead /\ want \in Nat /\ MaxRead \in Nat
  OBVIOUS
<1>1. rd \in RdRec /\ pos \in Int /\ want \in 0 .. MaxRead
  BY DEF Laid, Typed, RdRec
<1>2. rd.sec \in Sectors /\ rd.off \in Int /\ rd.room \in Int /\ rd.open \in BOOLEAN
  BY <1>1 DEF RdRec
<1>3. MaxRead \in Nat /\ want \in Nat
  BY <1>1, Sizes
<1>4. rd.blk \in 1 .. Tip /\ (rd.sec = TAIL => rd.blk < Tip)
  BY DEF Laid, ReaderInv
<1> QED BY <1>1, <1>2, <1>3, <1>4

LEMMA MinOfTwo ==
  \A a, b \in Int : Min({ a, b }) = IF a <= b THEN a ELSE b
<1> TAKE a, b \in Int
<1> DEFINE m == IF a <= b THEN a ELSE b
<1>1. m \in { a, b } /\ \A y \in { a, b } : m <= y
  OBVIOUS
<1>2. \A x \in { a, b } : (\A y \in { a, b } : x <= y) => x = m
  OBVIOUS
<1> HIDE DEF m
<1>3. Min({ a, b }) = m
  BY <1>1, <1>2 DEF Min
<1> QED BY <1>3 DEF m

\* A reader that comes to the first sector of a block.
LEMMA AtBlockIs ==
  ASSUME Laid, NEW b \in 1 .. Tip
  PROVE  /\ AtBlock(b) \in RdRec /\ AtBlock(b).blk = b /\ AtBlock(b).sec # TAIL
         /\ AtBlock(b).open = rd.open
         /\ chain[b].sec[INIT].n # 0 =>
              /\ AtBlock(b).sec = INIT /\ AtBlock(b).off = InitHeader
              /\ AtBlock(b).room = chain[b].sec[INIT].n
<1> DEFINE x == chain[b].sec[INIT]  k == x.n
<1>1. k \in Nat
  <2>1. chain[b] \in BlockRec /\ INIT \in Sectors
    BY BlocksAre, Geometry
  <2>2. x \in SectorRec
    BY <2>1 DEF BlockRec
  <2> HIDE DEF x
  <2>3. x.n \in UInt16
    BY <2>2 DEF SectorRec
  <2> QED BY <2>3, UInt16Is
<1>2. rd \in RdRec /\ rd.open \in BOOLEAN /\ b \in Nat /\ InitHeader \in Int
  <2>1. Tip \in Nat
    BY BlocksAre
  <2>2. rd \in RdRec /\ rd.open \in BOOLEAN
    BY ReaderIs
  <2>3. InitHeader \in Int
    BY Sizes
  <2> QED BY <2>1, <2>2, <2>3
<1>3. INIT \in Sectors /\ INIT # TAIL /\ NextSector(INIT) \in Sectors /\ NextSector(INIT) # TAIL
  <2>1. NextSector(INIT) = 2
    BY NextSectorIs, Geometry
  <2> QED BY <2>1, Geometry
<1> HIDE DEF k
<1>4. AtBlock(b) = IF k # 0 THEN ReaderAt(b, INIT, InitHeader, k) ELSE ReaderAt(b, NextSector(INIT), 0, 0)
  BY DEF AtBlock, k
<1>5. \A s \in Sectors : \A o, r \in Int :
        LET d == ReaderAt(b, s, o, r) IN
        d \in RdRec /\ d.open = rd.open /\ d.blk = b /\ d.sec = s /\ d.off = o /\ d.room = r
  BY <1>2 DEF ReaderAt, RdRec
<1>6. CASE k # 0
  <2>1. k \in Int /\ AtBlock(b) = ReaderAt(b, INIT, InitHeader, k)
    BY <1>1, <1>4, <1>6
  <2> DEFINE d == ReaderAt(b, INIT, InitHeader, k)
  <2>2. /\ d \in RdRec /\ d.open = rd.open /\ d.blk = b /\ d.sec = INIT
        /\ d.off = InitHeader /\ d.room = k
    BY <1>2, <1>3, <1>5, <2>1
  <2> HIDE DEF d
  <2>3. AtBlock(b) = d
    BY <2>1 DEF d
  <2> QED BY <1>2, <1>3, <1>6, <2>1, <2>2, <2>3 DEF k
<1>7. CASE k = 0
  <2>1. 0 \in Int /\ AtBlock(b) = ReaderAt(b, NextSector(INIT), 0, 0)
    BY <1>4, <1>7
  <2> QED BY <1>3, <1>5, <1>7, <2>1 DEF k
<1> QED BY <1>6, <1>7

\* The walk of a seek.
LEMMA CountAtIs ==
  ASSUME Laid, NEW p \in Int
  PROVE  /\ CountAt(p)[1] = 0
         /\ \A b \in 1 .. Tip : CountAt(p)[b] \in Nat
         /\ \A b \in 1 .. Tip - 1 :
              CountAt(p)[b + 1] =
                CountAt(p)[b] + IF Skips(b, CountAt(p)[b], p) THEN chain[b].total
                                                              ELSE SumTo(b, Used(b))
<1> DEFINE Inc(b, v) == IF Skips(b, v, p) THEN chain[b].total ELSE SumTo(b, Used(b))
           E(f) == [ b \in 1 .. Len(chain) |-> IF b = 1 THEN 0 ELSE f[b - 1] + Inc(b - 1, f[b - 1]) ]
           at == CHOOSE f : f = E(f)
           G == [ k \in Nat |-> [ v \in Nat |-> IF k + 1 \in 1 .. Tip THEN v + Inc(k + 1, v) ELSE 0 ] ]
<1>1. Tip \in Nat \ {0} /\ Tip = Len(chain)
  <2>1. Tip \in 1 .. MaxBlocks /\ MaxBlocks \in Nat
    BY Sizes DEF Laid, Typed
  <2> QED BY <2>1 DEF Tip
<1>2. \A b \in 1 .. Tip : \A v : Inc(b, v) \in Nat
  <2> TAKE b \in 1 .. Tip
  <2> TAKE v
  <2>1. chain[b].total \in Nat /\ SumTo(b, Used(b)) \in Nat
    BY BlocksAre DEF BlockRec
  <2> QED BY <2>1
<1> HIDE DEF Inc
<1>3. G \in [ Nat -> [ Nat -> Nat ] ]
  BY <1>2
<1>4. Tip - 1 \in Nat /\ 0 \in Nat
  BY <1>1
<1>5. PICK f \in [ 0 .. Tip - 1 -> Nat ] :
        f[0] = 0 /\ \A k \in 0 .. Tip - 1 - 1 : f[k + 1] = G[k][f[k]]
  <2> DEFINE l == Tip - 1
  <2>1. l \in Nat
    BY <1>4
  <2> HIDE DEF G, l
  <2>2. \E f \in [ 0 .. l -> Nat ] :
          f[0] = 0 /\ \A k \in 0 .. l - 1 : f[k + 1] = G[k][f[k]]
    BY <1>3, <2>1, StepsExist
  <2> QED BY <2>2 DEF l
<1>6. \E h : h = E(h)
  <2> DEFINE h == [ b \in 1 .. Tip |-> f[b - 1] ]
  <2>1. ASSUME NEW b \in 1 .. Tip
        PROVE  h[b] = IF b = 1 THEN 0 ELSE h[b - 1] + Inc(b - 1, h[b - 1])
    <3>1. CASE b = 1
      BY <1>5, <3>1
    <3>2. CASE b # 1
      <4> DEFINE k == b - 2
      <4>1. k \in 0 .. Tip - 1 - 1 /\ k + 1 = b - 1 /\ b - 1 \in 1 .. Tip /\ (b - 1) - 1 = k
            /\ k \in 0 .. Tip - 1 /\ k \in Nat
        BY <1>1, <3>2
      <4> HIDE DEF k
      <4>2. h[b] = f[k + 1] /\ h[b - 1] = f[k]
        BY <4>1
      <4>3. f[k] \in Nat /\ f[k + 1] = G[k][f[k]]
        BY <1>5, <4>1
      <4>4. G[k][f[k]] = f[k] + Inc(k + 1, f[k])
        BY <4>1, <4>3
      <4> QED BY <3>2, <4>1, <4>2, <4>3, <4>4
    <3> QED BY <3>1, <3>2
  <2>2. h = [ b \in 1 .. Tip |-> h[b] ]
    OBVIOUS
  <2> HIDE DEF h
  <2>3. h = E(h)
    BY <1>1, <2>1, <2>2
  <2> QED BY <2>3
<1>7. at = E(at)
  <2> HIDE DEF E
  <2> QED BY <1>6
<1>8. CountAt(p) = at
  BY DEF CountAt, Inc
<1> HIDE DEF at
<1>9. at[1] = 0
  BY <1>1, <1>7
<1>10. ASSUME NEW b \in 1 .. Tip - 1 PROVE at[b + 1] = at[b] + Inc(b, at[b])
  <2>1. b + 1 \in 1 .. Len(chain) /\ b + 1 # 1 /\ (b + 1) - 1 = b
    BY <1>1
  <2> DEFINE c == b + 1
  <2>2. c \in 1 .. Len(chain) /\ c # 1 /\ c - 1 = b
    BY <2>1
  <2> HIDE DEF c
  <2>3. at[c] = at[c - 1] + Inc(c - 1, at[c - 1])
    BY <1>7, <2>2
  <2> QED BY <2>2, <2>3 DEF c
<1>11. \A b \in 1 .. Tip : at[b] \in Nat
  <2> DEFINE T == { k \in 0 .. Tip : k # 0 => at[k] \in Nat }
  <2>1. 0 \in T
    BY <1>1
  <2>2. ASSUME NEW k \in 0 .. Tip - 1, k \in T PROVE k + 1 \in T
    <3>1. CASE k = 0
      BY <1>1, <1>9, <3>1
    <3>2. CASE k # 0
      <4>1. k \in 1 .. Tip - 1 /\ k \in 1 .. Tip /\ k + 1 \in 0 .. Tip /\ at[k] \in Nat
        BY <1>1, <2>2, <3>2
      <4>2. at[k + 1] = at[k] + Inc(k, at[k]) /\ Inc(k, at[k]) \in Nat
        BY <1>2, <1>10, <4>1
      <4> QED BY <4>1, <4>2
    <3> QED BY <3>1, <3>2
  <2>3. 0 .. Tip \subseteq T
    <3> HIDE DEF T
    <3> QED BY <1>1, <2>1, <2>2, UpTo
  <2> QED BY <1>1, <2>3
<1>12. \A b \in 1 .. Tip - 1 : at[b + 1] = at[b] + IF Skips(b, at[b], p) THEN chain[b].total
                                                              ELSE SumTo(b, Used(b))
  BY <1>10 DEF Inc
<1> QED BY <1>8, <1>9, <1>11, <1>12

\* Sector i of block b is where the walk of a seek to p may end.
Stops(p, b, i) ==
  /\ i <= Used(b) /\ ~ Skips(b, CountAt(p)[b], p)
  /\ p <= CountAt(p)[b] + SumTo(b, i)

LEMMA LandingIs ==
  ASSUME NEW p, NEW c \in Landing(p)
  PROVE  \E b \in 1 .. Tip : \E i \in Sectors :
           /\ c = [ blk |-> b, sec |-> Order[i],
                    off |-> p - (CountAt(p)[b] + SumTo(b, i - 1)) ]
           /\ Stops(p, b, i)
           /\ \A d \in 1 .. Tip : \A j \in Sectors :
                Stops(p, d, j) => b < d \/ (b = d /\ i <= j)
<1> DEFINE at == CountAt(p)
           stops == { x \in (1 .. Len(chain)) \X Sectors :
                        /\ x[2] <= Used(x[1])
                        /\ ~ Skips(x[1], at[x[1]], p)
                        /\ p <= at[x[1]] + SumTo(x[1], x[2]) }
<1>1. PICK x \in { d \in stops : \A e \in stops :
                     d[1] < e[1] \/ (d[1] = e[1] /\ d[2] <= e[2]) } :
        c = [ blk |-> x[1], sec |-> Order[x[2]],
              off |-> p - (at[x[1]] + SumTo(x[1], x[2] - 1)) ]
  BY DEF Landing
<1>2. x \in stops /\ x[1] \in 1 .. Tip /\ x[2] \in Sectors
  BY <1>1 DEF Tip
<1>3. Stops(p, x[1], x[2])
  BY <1>2 DEF Stops
<1>4. ASSUME NEW d \in 1 .. Tip, NEW j \in Sectors, Stops(p, d, j)
      PROVE  x[1] < d \/ (x[1] = d /\ x[2] <= j)
  <2> DEFINE e == << d, j >>
  <2>1. e \in stops /\ e[1] = d /\ e[2] = j
    BY <1>4 DEF Stops, Tip
  <2> HIDE DEF e, stops
  <2>2. x[1] < e[1] \/ (x[1] = e[1] /\ x[2] <= e[2])
    BY <1>1, <2>1
  <2> QED BY <2>1, <2>2
<1> QED BY <1>1, <1>2, <1>3, <1>4

\* What the spares count, one by one.
LEMMA SpareIs ==
  ASSUME Laid, NEW b \in 1 .. Tip, NEW s \in Sectors
  PROVE  chain[b].sec[s].n \in Nat /\ chain[b].sec[s].raw \in Seq(Nat)
<1> DEFINE x == chain[b].sec[s]
<1>1. x \in SectorRec
  BY BlocksAre DEF BlockRec
<1> HIDE DEF x
<1>2. x.n \in UInt16 /\ x.raw \in Seq(Nat)
  BY <1>1 DEF SectorRec
<1>3. x.n \in Nat
  BY <1>2, UInt16Is
<1> QED BY <1>2, <1>3 DEF x

LEMMA SumToNat ==
  ASSUME Laid, NEW b \in 1 .. Tip, NEW i \in 0 .. LastPlace
  PROVE  SumTo(b, i) \in Nat
<1> DEFINE g == Counts(chain[b])
<1>1. \A j \in 1 .. i : g[j] \in Nat
  BY BlocksAre, Geometry
<1>2. SumTo(b, i) = Total(g, i) /\ i \in Nat
  BY SumToIs, Geometry
<1> HIDE DEF g
<1> QED BY <1>1, <1>2, TotalGrows

\* Where a seek goes to.
LEMMA LandingTyped ==
  ASSUME Laid, NEW p \in Int, NEW c \in Landing(p)
  PROVE  /\ c.blk \in 1 .. Tip /\ c.sec \in Sectors /\ c.off \in Int
         /\ c.sec = TAIL => c.blk < Tip
<1>1. PICK b \in 1 .. Tip, i \in Sectors :
        /\ c = [ blk |-> b, sec |-> Order[i],
                 off |-> p - (CountAt(p)[b] + SumTo(b, i - 1)) ]
        /\ Stops(p, b, i)
  BY LandingIs
<1>2. CountAt(p)[b] \in Nat
  BY CountAtIs
<1>3. SumTo(b, i - 1) \in Nat
  <2>1. i - 1 \in 0 .. LastPlace
    BY Geometry
  <2> QED BY <2>1, SumToNat
<1>4. Order[i] \in Sectors /\ Place(Order[i]) = i
  BY Ordered
<1>5. Order[i] = TAIL => b < Tip
  <2> SUFFICES ASSUME Order[i] = TAIL PROVE b < Tip
    OBVIOUS
  <2>1. i = LastPlace
    BY <1>4, Ordered
  <2>2. LastPlace <= Filled(b)
    BY <1>1, <2>1, BlocksAre DEF Stops
  <2>3. chain[b].sec[TAIL].used
    BY <2>2, BlocksAre, Ordered, Geometry
  <2> QED BY <2>3, BlocksAre DEF Ended
<1> QED BY <1>1, <1>2, <1>3, <1>4, <1>5

LEMMA NotReadingLaid ==
  ASSUME Laid, NotReading, UNCHANGED writer
  PROVE  Laid'
<1>1. NoReader \in RdRec /\ NoReader.blk = 1 /\ NoReader.sec # TAIL
  BY Geometry DEF NoReader, RdRec
<1>2. 1 \in 1 .. Tip
  BY Sizes DEF Laid, Typed
<1>3. 0 \in 0 .. MaxRead
  BY Sizes
<1> QED BY <1>1, <1>2, <1>3, ReadLaid DEF NotReading

LEMMA OpenReadLaid ==
  ASSUME Laid, OpenRead
  PROVE  Laid'
<1>1. 1 \in 1 .. Tip /\ Tip \in Nat
  BY Sizes DEF Laid, Typed
<1> DEFINE a == AtBlock(1)
<1>2. a \in RdRec /\ a.blk = 1 /\ a.sec # TAIL
  BY <1>1, AtBlockIs
<1> HIDE DEF a
<1>3. rd' = [ a EXCEPT !.open = TRUE ]
  BY DEF OpenRead, a
<1>4. rd' \in RdRec /\ rd'.blk = 1 /\ rd'.sec # TAIL
  BY <1>2, <1>3 DEF RdRec
<1>5. UNCHANGED writer /\ pos' \in Int /\ want' \in 0 .. MaxRead
  BY ReaderIs DEF OpenRead
<1> QED BY <1>1, <1>4, <1>5, ReadLaid

LEMMA ReadCallLaid ==
  ASSUME Laid, NEW k \in 1 .. MaxRead, Read(k)
  PROVE  Laid'
  BY ReaderIs, ReadLaid DEF Read

LEMMA AdvanceLaid ==
  ASSUME Laid, Advance
  PROVE  Laid'
<1>1. UNCHANGED writer /\ pos' \in Int
  BY ReaderIs DEF Advance
<1>2. /\ rd \in RdRec /\ rd.blk \in 1 .. Tip /\ rd.sec \in Sectors /\ Tip \in Nat
      /\ rd.sec = TAIL => rd.blk < Tip
  BY ReaderIs, BlocksAre
<1>3. want' \in 0 .. MaxRead
  BY ReaderIs DEF Advance
<1>4. CASE UNCHANGED rd
  BY <1>1, <1>2, <1>3, <1>4, ReadLaid
<1>5. CASE rd.sec = TAIL /\ rd' = AtBlock(rd.blk + 1)
  <2>1. rd.blk + 1 \in 1 .. Tip
    BY <1>2, <1>5
  <2>2. rd' \in RdRec /\ rd'.blk = rd.blk + 1 /\ rd'.sec # TAIL
    BY <1>5, <2>1, AtBlockIs
  <2> QED BY <1>1, <1>3, <2>1, <2>2, ReadLaid
<1>6. CASE /\ rd.sec # TAIL /\ chain[rd.blk].sec[NextSector(rd.sec)].used
           /\ rd' = ReaderAt(rd.blk, NextSector(rd.sec), DataOffset(NextSector(rd.sec)),
                             chain[rd.blk].sec[NextSector(rd.sec)].n)
  <2> DEFINE s == NextSector(rd.sec)  k == chain[rd.blk].sec[s].n
  <2>1. s \in Sectors
    BY <1>2, Ordered
  <2> DEFINE o == DataOffset(s)
  <2>2. k \in Int /\ o \in Int
    <3>1. k \in Nat
      BY <1>2, <2>1, SpareIs
    <3>2. o \in Nat
      BY <2>1, HeadersAre DEF DataOffset
    <3> QED BY <3>1, <3>2
  <2>3. s = TAIL => rd.blk < Tip
    BY <1>2, <1>6, BlocksAre DEF Ended
  <2>4. rd' = [ rd EXCEPT !.blk = rd.blk, !.sec = s, !.off = o, !.room = k ]
    BY <1>6 DEF ReaderAt
  <2> HIDE DEF s, k, o
  <2>5. rd' \in RdRec /\ rd'.blk = rd.blk /\ rd'.sec = s
    <3>1. rd.blk \in Nat
      BY <1>2 DEF RdRec
    <3> QED BY <1>2, <2>1, <2>2, <2>4, <3>1 DEF RdRec
  <2> QED BY <1>1, <1>2, <1>3, <2>3, <2>5, ReadLaid
<1> QED BY <1>4, <1>5, <1>6 DEF Advance

LEMMA TakeLaid ==
  ASSUME Laid, Take
  PROVE  Laid'
<1> DEFINE k == Min({ want, rd.room })
<1>1. /\ rd \in RdRec /\ rd.room \in Int /\ rd.off \in Int /\ pos \in Int
      /\ want \in 0 .. MaxRead /\ want \in Nat /\ MaxRead \in Nat
      /\ want > 0 /\ rd.room > 0
  BY ReaderIs DEF Take
<1>2. k = IF want <= rd.room THEN want ELSE rd.room
  BY <1>1, MinOfTwo
<1>3. /\ rd' = [ rd EXCEPT !.off = @ + k, !.room = @ - k ]
      /\ pos' = pos + k /\ want' = want - k /\ UNCHANGED writer
  BY DEF Take
<1> HIDE DEF k
<1>4. k \in Nat /\ k > 0 /\ k <= want
  BY <1>1, <1>2
<1>5. rd' \in RdRec /\ rd'.blk = rd.blk /\ rd'.sec = rd.sec
  <2>1. rd.off + k \in Int /\ rd.room - k \in Int
    BY <1>1, <1>4
  <2> QED BY <1>1, <1>3, <2>1 DEF RdRec
<1>6. pos' \in Int /\ want' \in 0 .. MaxRead
  BY <1>1, <1>3, <1>4
<1>7. rd.blk \in 1 .. Tip /\ (rd.sec = TAIL => rd.blk < Tip)
  BY ReaderIs
<1> QED BY <1>3, <1>5, <1>6, <1>7, ReadLaid

LEMMA SeekLaid ==
  ASSUME Laid, NEW p \in 0 .. MaxBytes, Seek(p)
  PROVE  Laid'
<1>1. p \in Int /\ rd \in RdRec /\ UNCHANGED writer /\ pos' \in Int /\ want' \in 0 .. MaxRead
  <2>1. p \in Int
    BY Sizes
  <2> QED BY <2>1, ReaderIs DEF Seek
<1>2. PICK c \in Landing(p) :
        rd' = ReaderAt(c.blk, c.sec, c.off, chain[c.blk].sec[c.sec].n - c.off)
  BY DEF Seek
<1>3. c.blk \in 1 .. Tip /\ c.sec \in Sectors /\ c.off \in Int /\ (c.sec = TAIL => c.blk < Tip)
  BY <1>1, LandingTyped
<1> DEFINE r == chain[c.blk].sec[c.sec].n - c.off
<1>4. r \in Int
  BY <1>3, SpareIs
<1>5. rd' = ReaderAt(c.blk, c.sec, c.off, r) /\ c.blk \in Nat
  BY <1>2, <1>3, BlocksAre
<1> HIDE DEF r
<1>6. rd' \in RdRec /\ rd'.blk = c.blk /\ rd'.sec = c.sec
  BY <1>1, <1>3, <1>4, <1>5 DEF ReaderAt, RdRec
<1> QED BY <1>1, <1>3, <1>6, ReadLaid

LEMMA EmptyBlockIs == EmptyBlock \in BlockRec
<1>1. Erased \in SectorRec
  BY UInt16Is DEF Erased, SectorRec
<1> QED BY <1>1 DEF EmptyBlock, BlockRec

LEMMA InitLaid == Init => Laid
<1> SUFFICES ASSUME Init PROVE Laid
  OBVIOUS
<1>1. /\ chain = << EmptyBlock >> /\ dirty = TRUE /\ isOpen = TRUE /\ written = 0
      /\ rd = NoReader /\ pos = 0 /\ want = 0
      /\ wr = [ blk |-> 1, sec |-> INIT, buf |-> Zeros(InitHeader),
                room |-> SectorSize - InitHeader, inBlock |-> 0, size |-> 0 ]
  BY DEF Init
<1>2. /\ chain \in Seq(BlockRec) /\ Tip = 1 /\ Tip \in 1 .. MaxBlocks
      /\ chain[1] = EmptyBlock
  BY <1>1, EmptyBlockIs, Sizes DEF Tip
<1>3. /\ Zeros(InitHeader) \in Seq(Nat) /\ Len(Zeros(InitHeader)) = InitHeader
      /\ InitHeader \in Nat /\ SectorSize \in Nat /\ InitHeader < SectorSize
  BY HeadersAre, Sizes
<1>4. wr \in WrRec
  <2>1. SectorSize - InitHeader \in Nat /\ INIT \in Sectors
    BY <1>3, Geometry
  <2> QED BY <1>1, <1>3, <2>1 DEF WrRec
<1>5. rd \in RdRec /\ rd.blk = 1 /\ rd.sec # TAIL
  BY <1>1, Geometry DEF NoReader, RdRec
<1>6. Typed
  BY <1>1, <1>2, <1>4, <1>5, Sizes DEF Typed, WrRec, RdRec
<1>7. FillInv
  <2>1. wr.blk = Tip /\ (dirty <=> wr.sec = INIT)
    BY <1>1, <1>2
  <2>2. wr.room > 0 /\ Len(wr.buf) + wr.room = SectorSize
    BY <1>1, <1>3
  <2>3. ASSUME NEW b \in 1 .. Tip, NEW i \in Sectors
        PROVE  LET x == chain[b].sec[Order[i]] IN
               /\ x.used <=> i <= Filled(b)
               /\ ~ x.used => x = Erased
               /\ Len(x.raw) <= SectorSize
    <3>1. b = 1 /\ Order[i] \in Sectors /\ i \in Nat /\ i >= 1
      BY <1>2, Ordered, Geometry
    <3>2. chain[b].sec[Order[i]] = Erased
      BY <1>2, <3>1 DEF EmptyBlock
    <3>3. Filled(b) = 0
      BY <1>1, <1>2, <3>1, Ordered DEF Filled
    <3>4. Erased.used = FALSE /\ Erased.raw = << >> /\ Len(Erased.raw) = 0
      BY DEF Erased
    <3> QED BY <1>3, <3>1, <3>2, <3>3, <3>4
  <2> QED BY <2>1, <2>2, <2>3 DEF FillInv
<1>8. ReaderInv
  BY <1>2, <1>5 DEF ReaderInv
<1> QED BY <1>6, <1>7, <1>8 DEF Laid

LEMMA NextLaid == Laid /\ [Next]_vars => Laid'
<1> SUFFICES ASSUME Laid, [Next]_vars PROVE Laid'
  OBVIOUS
<1>1. ASSUME NEW k \in 1 .. SectorSize, Write(k) PROVE Laid'
  BY <1>1, WriteLaid
<1>2. CASE ForeignFlush
  BY <1>2, ForeignFlushLaid
<1>3. CASE Reopen
  BY <1>3, ReopenLaid
<1>4. ASSUME NEW head \in BOOLEAN, Close(head) PROVE Laid'
  BY <1>4, CloseLaid
<1>5. CASE OpenRead
  BY <1>5, OpenReadLaid
<1>6. CASE CloseRead
  BY <1>6, NotReadingLaid DEF CloseRead
<1>7. ASSUME NEW k \in 1 .. MaxRead, Read(k) PROVE Laid'
  BY <1>7, ReadCallLaid
<1>8. CASE Advance
  BY <1>8, AdvanceLaid
<1>9. CASE Take
  BY <1>9, TakeLaid
<1>10. ASSUME NEW p \in 0 .. MaxBytes, Seek(p) PROVE Laid'
  BY <1>10, SeekLaid
<1>11. ASSUME NEW p \in 0 .. MaxBytes, SeekFails(p) PROVE Laid'
  BY <1>11, NotReadingLaid DEF SeekFails
<1>12. CASE UNCHANGED vars
  <2>1. UNCHANGED writer /\ UNCHANGED reader
    BY <1>12 DEF vars
  <2> QED BY <2>1, ReaderIs, ReadLaid DEF reader
<1> QED BY <1>1, <1>2, <1>3, <1>4, <1>5, <1>6, <1>7, <1>8, <1>9, <1>10, <1>11, <1>12 DEF Next

LEMMA LaidMeans == Laid => FileTypeOK
<1> SUFFICES ASSUME Laid PROVE FileTypeOK
  OBVIOUS
<1>1. Len(chain) \in 1 .. MaxBlocks /\ Len(chain) = Tip
  BY DEF Laid, Typed, Tip
<1>2. ASSUME NEW b \in 1 .. Tip, NEW s \in Sectors
      PROVE  chain[b].sec[s].n \in UInt16 /\ Len(chain[b].sec[s].raw) <= SectorSize
  <2> DEFINE x == chain[b].sec[s]
  <2>1. x \in SectorRec
    BY BlocksAre DEF BlockRec
  <2>2. Len(x.raw) <= SectorSize
    <3>1. Place(s) \in Sectors /\ Order[Place(s)] = s
      BY Ordered
    <3> QED BY <3>1 DEF Laid, FillInv
  <2>3. x.n \in UInt16
    <3> HIDE DEF x
    <3> QED BY <2>1 DEF SectorRec
  <2> QED BY <2>2, <2>3
<1>3. /\ wr.blk \in 1 .. Tip /\ wr.sec \in Sectors
      /\ wr.room > 0 /\ Len(wr.buf) + wr.room = SectorSize
      /\ isOpen \in BOOLEAN /\ dirty \in BOOLEAN /\ written \in 0 .. MaxBytes
  BY <1>1, HandleIs, BlocksAre DEF Laid, Typed
<1>4. rd.blk \in 1 .. Tip /\ rd.sec \in Sectors /\ want \in 0 .. MaxRead
  BY ReaderIs
<1>5. wr.blk \in 1 .. Len(chain) /\ rd.blk \in 1 .. Len(chain) /\ Len(chain) \in 1 .. MaxBlocks
  BY <1>1, <1>3, <1>4
<1>6. \A b \in 1 .. Len(chain) : \A s \in Sectors :
        LET x == chain[b].sec[s] IN x.n \in UInt16 /\ Len(x.raw) <= SectorSize
  BY <1>1, <1>2
<1> QED BY <1>3, <1>4, <1>5, <1>6 DEF FileTypeOK

(***************************************************************************)
(* Whatever the application does, the handles stay within the file and the *)
(* buffer within its sector (flogfs.c:777-904, 965-1130, 1390-1491).       *)
(***************************************************************************)
THEOREM FileTypeCorrect == Spec => []FileTypeOK
<1>1. Init => Laid
  BY InitLaid
<1>2. Laid /\ [Next]_vars => Laid'
  BY NextLaid
<1>3. Laid => FileTypeOK
  BY LaidMeans
<1> QED BY <1>1, <1>2, <1>3, PTL DEF Spec

-----------------------------------------------------------------------------
(* The counts.                                                             *)

\* The rules that Counting needs.
CountsKept == CountRules \subseteq ClientRules

LEMMA BufferIs ==
  ASSUME Laid, Counting
  PROVE  /\ Buffered \in Nat /\ Header(wr.sec) \in Nat
         /\ Len(wr.buf) = Header(wr.sec) + Buffered
<1>1. Len(wr.buf) \in Nat /\ wr.sec \in Sectors
  BY HandleIs
<1>2. Header(wr.sec) \in Nat
  BY <1>1, HeadersAre
<1>3. Len(wr.buf) - Header(wr.sec) >= 0
  BY DEF Counting, HandleInv, Buffered
<1> QED BY <1>1, <1>2, <1>3 DEF Buffered

\* What a sector that is completed counts.
LEMMA CompletedCounts ==
  ASSUME Laid, Counting, NEW k \in Nat, Len(wr.buf) + k <= SectorSize
  PROVE  /\ Completed(k).n = Buffered + k /\ Completed(k).used = TRUE
         /\ Len(Completed(k).raw) = Header(wr.sec) + Completed(k).n
<1>1. Buffered \in Nat /\ Header(wr.sec) \in Nat /\ Len(wr.buf) = Header(wr.sec) + Buffered
  BY BufferIs
<1>2. Len(wr.buf) + k >= Header(wr.sec) /\ Len(wr.buf) + k - Header(wr.sec) = Buffered + k
  BY <1>1
<1>3. Completed(k).n = Buffered + k /\ Len(Completed(k).raw) = Len(wr.buf) + k
      /\ Completed(k).used = TRUE
  BY <1>2, CompletedIs
<1>4. Len(wr.buf) + k = Header(wr.sec) + (Buffered + k)
  BY <1>1
<1> QED BY <1>3, <1>4

LEMMA CommitCounts ==
  ASSUME Laid, Counting, NEW k \in Nat, Len(wr.buf) + k <= SectorSize, Commit(k),
         wr.sec = INIT => Buffered + k > 0, written' = written + k,
         isOpen' \/ wr.sec # TAIL
  PROVE  Counting'
<1>0. PICK t, x : t = Tip /\ x = Completed(k)
  OBVIOUS
<1>1. Fills(t, x) /\ Moves(k)
  BY <1>0, CommitDoes
<1>2. x.n = Buffered + k /\ x.used = TRUE /\ Len(x.raw) = Header(wr.sec) + x.n
  BY <1>0, CompletedCounts
<1>3. Buffered \in Nat /\ Held(t) \in Nat /\ Ends(t) \in Nat /\ t \in Nat /\ t \in 1 .. t
  <2>1. t \in Nat \ {0}
    BY <1>1, FillsPlaces
  <2>2. t \in 1 .. t /\ t \in 0 .. t
    BY <2>1
  <2> QED BY <1>0, <2>1, <2>2, BufferIs, BlocksAre, SizesAre
<1>4. /\ t = Tip /\ Tip' \in { t, t + 1 } /\ Filled(t) + 1 \in Sectors
      /\ wr.sec = Order[Filled(t) + 1]
      /\ \A b \in 1 .. t - 1 : chain'[b] = chain[b]
      /\ Tip' = t + 1 => wr.sec = TAIL
      /\ Tip' = t => wr.sec # TAIL
  <2>1. /\ t = Tip /\ Tip' \in { t, t + 1 } /\ Filled(t) + 1 \in Sectors
        /\ wr.sec = Order[Filled(t) + 1]
    BY <1>1, FillsPlaces
  <2>2. \A b \in 1 .. t - 1 : chain'[b] = chain[b]
    BY <1>1 DEF Fills
  <2>3. (Tip' = t + 1 => wr.sec = TAIL) /\ (Tip' = t => wr.sec # TAIL)
    BY <1>1, <1>3 DEF Fills
  <2> QED BY <2>1, <2>2, <2>3
<1>5. SpareInv'
  <2> SUFFICES ASSUME NEW b \in 1 .. Tip', NEW i \in Sectors
               PROVE  LET y == chain'[b].sec[Order[i]] IN
                      y.used => Len(y.raw) = Header(Order[i]) + y.n /\ (i = 1 => y.n > 0)
    BY DEF SpareInv
  <2>1. CASE b \in 1 .. t /\ ~ (b = t /\ i = Filled(t) + 1)
    <3>1. chain'[b].sec[Order[i]] = chain[b].sec[Order[i]]
      BY <1>1, <2>1, FillsSectors
    <3> QED BY <1>4, <2>1, <3>1 DEF Counting, SpareInv
  <2>2. CASE b = t /\ i = Filled(t) + 1
    <3>1. chain'[b].sec[Order[i]] = x
      BY <1>1, <1>3, <2>2, FillsSectors
    <3>2. i = 1 => wr.sec = INIT
      BY <1>4, <2>2, Ordered
    <3> QED BY <1>2, <1>4, <2>2, <3>1, <3>2
  <2>3. CASE b \notin 1 .. t
    <3>1. b = t + 1 /\ Tip' = t + 1
      BY <1>3, <1>4, <2>3
    <3>2. chain'[b].sec[Order[i]] = Erased
      BY <1>1, <3>1, FillsSectors
    <3> QED BY <3>2 DEF Erased
  <2> QED BY <2>1, <2>2, <2>3
<1>6. TailInv'
  <2> SUFFICES ASSUME NEW b \in 1 .. Tip' - 1 PROVE chain'[b].total = Held(b)'
    BY DEF TailInv
  <2>1. CASE b \in 1 .. t - 1
    <3>1. Held(b)' = Held(b) /\ chain'[b] = chain[b]
      BY <1>1, <1>4, <2>1, FillsHeld
    <3> QED BY <1>4, <2>1, <3>1 DEF Counting, TailInv
  <2>2. CASE b \notin 1 .. t - 1
    <3>1. b = t /\ Tip' = t + 1
      <4>1. Tip' = t \/ Tip' = t + 1
        BY <1>4
      <4>2. CASE Tip' = t
        <5>1. b \in 1 .. t - 1
          BY <4>2
        <5> QED BY <2>2, <5>1
      <4>3. CASE Tip' = t + 1
        <5>1. b \in 1 .. (t + 1) - 1 /\ (t + 1) - 1 = t
          BY <1>3, <4>3
        <5> QED BY <1>3, <2>2, <4>3, <5>1
      <4> QED BY <4>1, <4>2, <4>3
    <3>2. chain'[t].total = wr.inBlock + k
      BY <1>1, <1>4, <3>1 DEF Moves
    <3>3. wr.inBlock = Held(t) + Buffered
      BY <1>4 DEF Counting, HandleInv
    <3>4. Held(t)' = Held(t) + x.n
      BY <1>1, FillsHeld
    <3> QED BY <1>2, <1>3, <3>1, <3>2, <3>3, <3>4
  <2> QED BY <2>1, <2>2
<1>7. HandleInv'
  <2>1. wr'.sec \in Sectors /\ wr'.buf = Zeros(Header(wr'.sec))
    BY <1>1 DEF Moves, WrRec
  <2>2. Header(wr'.sec) \in Nat /\ Len(wr'.buf) = Header(wr'.sec)
    BY <2>1, HeadersAre
  <2>3. Buffered' = 0
    BY <2>2 DEF Buffered
  <2>4. ~ isOpen' => ~ dirty'
    <3> SUFFICES ASSUME wr.sec # TAIL PROVE ~ dirty'
      OBVIOUS
    <3>1. wr'.sec = NextSector(wr.sec) /\ dirty' = (wr'.sec = INIT)
      BY <1>1 DEF Fills, Moves
    <3> QED BY <3>1, HandleIs, Ordered
  <2>5. wr'.inBlock = Held(Tip)' + 0
    <3>1. Held(Tip)' = IF wr.sec = TAIL THEN 0 ELSE Held(t) + x.n
      BY <1>1, FillsEnds
    <3>2. wr'.inBlock = IF wr.sec = TAIL THEN 0 ELSE wr.inBlock + k
      BY <1>1 DEF Moves
    <3>3. wr.inBlock = Held(t) + Buffered
      BY <1>4 DEF Counting, HandleInv
    <3> QED BY <1>2, <1>3, <3>1, <3>2, <3>3
  <2>6. wr'.size = Ends(Tip)' + 0 /\ written' = wr'.size
    <3>1. Ends(Tip)' = Ends(t) + x.n
      BY <1>1, FillsEnds
    <3>2. wr'.size = wr.size + k
      BY <1>1 DEF Moves
    <3>3. wr.size = Ends(t) + Buffered /\ written = wr.size
      BY <1>4 DEF Counting, HandleInv
    <3> QED BY <1>2, <1>3, <3>1, <3>2, <3>3
  <2> QED BY <2>3, <2>4, <2>5, <2>6 DEF HandleInv
<1> QED BY <1>5, <1>6, <1>7 DEF Counting

\* Nothing is written to flash.
LEMMA SameBlocks ==
  ASSUME UNCHANGED chain, wr'.sec = wr.sec
  PROVE  /\ Tip' = Tip /\ (SpareInv => SpareInv') /\ (TailInv => TailInv')
         /\ \A b : Filled(b)' = Filled(b) /\ Held(b)' = Held(b) /\ Ends(b)' = Ends(b)
         /\ Held(Tip)' = Held(Tip) /\ Ends(Tip)' = Ends(Tip)
         /\ \A b, i : Before(b, i)' = Before(b, i)
<1>1. Tip' = Tip
  BY DEF Tip
<1>2. \A b : Filled(b)' = Filled(b)
  BY <1>1 DEF Filled
<1>3. \A b : Held(b)' = Held(b)
  BY <1>2 DEF Held, Counts
<1>4. Helds' = Helds
  BY <1>1, <1>3 DEF Helds
<1>5. \A b : Ends(b)' = Ends(b)
  BY <1>4 DEF Ends
<1>6. \A b, i : Before(b, i)' = Before(b, i)
  BY <1>5 DEF Before, Counts
<1>7. Held(Tip)' = Held(Tip)
  BY <1>1, <1>2 DEF Held, Counts
<1>8. Ends(Tip)' = Ends(Tip)
  BY <1>1, <1>4 DEF Ends
<1>9. SpareInv => SpareInv'
  BY <1>1 DEF SpareInv
<1>10. TailInv => TailInv'
  BY <1>1, <1>3 DEF TailInv
<1> QED BY <1>1, <1>2, <1>3, <1>5, <1>6, <1>7, <1>8, <1>9, <1>10

\* What a write that only fills the buffer does to the handle.
LEMMA Buffers ==
  ASSUME Laid, NEW k \in 1 .. SectorSize, k < wr.room,
         wr' = Counted([ wr EXCEPT !.buf = @ \o NewBytes(k), !.room = @ - k ], k)
  PROVE  /\ wr'.sec = wr.sec /\ wr'.buf = wr.buf \o NewBytes(k)
         /\ Len(wr'.buf) = Len(wr.buf) + k
         /\ \A i \in 1 .. Len(wr.buf) + k :
              wr'.buf[i] = IF i <= Len(wr.buf) THEN wr.buf[i] ELSE written + (i - Len(wr.buf))
         /\ wr'.inBlock = wr.inBlock + k /\ wr'.size = wr.size + k
<1>1. /\ wr \in WrRec /\ written \in Nat /\ wr.buf \in Seq(Nat) /\ SectorSize \in Nat
  BY HandleIs
<1>2. k \in Nat
  BY <1>1
<1>3. NewBytes(k) \in Seq(Nat) /\ Len(NewBytes(k)) = k /\ \A i \in 1 .. k : NewBytes(k)[i] = written + i
  BY <1>1, <1>2 DEF NewBytes
<1> DEFINE w == NewBytes(k)  v == wr.buf
<1>4. w \in Seq(Nat) /\ Len(w) = k /\ (\A i \in 1 .. k : w[i] = written + i) /\ v \in Seq(Nat)
  BY <1>1, <1>3
<1>5. wr' = [ wr EXCEPT !.buf = v \o w, !.room = @ - k, !.inBlock = @ + k, !.size = @ + k ]
  BY <1>1 DEF Counted, WrRec
<1> HIDE DEF w, v
<1>6. Len(v \o w) = Len(v) + k
  BY <1>4
<1>7. ASSUME NEW i \in 1 .. Len(v) + k
      PROVE  (v \o w)[i] = IF i <= Len(v) THEN v[i] ELSE written + (i - Len(v))
  <2>1. (v \o w)[i] = IF i <= Len(v) THEN v[i] ELSE w[i - Len(v)]
    BY <1>2, <1>4, <1>6
  <2>2. ~ (i <= Len(v)) => i - Len(v) \in 1 .. k
    BY <1>2, <1>4
  <2> QED BY <1>4, <2>1, <2>2
<1>8. /\ wr'.sec = wr.sec /\ wr'.buf = v \o w
      /\ wr'.inBlock = wr.inBlock + k /\ wr'.size = wr.size + k
  BY <1>1, <1>5 DEF WrRec
<1> QED BY <1>6, <1>7, <1>8 DEF v, w

LEMMA WriteCounts ==
  ASSUME Laid, Counting, NEW k \in 1 .. SectorSize, Write(k)
  PROVE  Counting'
<1>1. /\ k \in Nat /\ k > 0 /\ isOpen /\ isOpen' /\ written' = written + k /\ written \in Nat
      /\ Buffered \in Nat /\ SectorSize \in Nat
  BY HandleIs, BufferIs DEF Write
<1>2. CASE k < wr.room /\ UNCHANGED << chain, dirty >>
           /\ wr' = Counted([ wr EXCEPT !.buf = @ \o NewBytes(k), !.room = @ - k ], k)
  <2>1. /\ wr'.sec = wr.sec /\ Len(wr'.buf) = Len(wr.buf) + k
        /\ wr'.inBlock = wr.inBlock + k /\ wr'.size = wr.size + k
    BY <1>2, Buffers
  <2>2. Len(wr.buf) \in Nat /\ Header(wr.sec) \in Nat
    BY HandleIs, BufferIs
  <2>3. Buffered' = Buffered + k
    BY <1>1, <2>1, <2>2 DEF Buffered
  <2>4. UNCHANGED chain
    BY <1>2
  <2>5. SpareInv' /\ TailInv' /\ Held(Tip)' = Held(Tip) /\ Ends(Tip)' = Ends(Tip)
    BY <2>1, <2>4, SameBlocks DEF Counting
  <2>6. /\ wr.inBlock = Held(Tip) + Buffered
        /\ wr.size = Ends(Tip) + Buffered /\ written = wr.size
    BY DEF Counting, HandleInv
  <2>7. Held(Tip) \in Nat /\ Ends(Tip) \in Nat
    <3>1. Tip \in 1 .. Tip /\ Tip \in 0 .. Tip
      BY Sizes DEF Laid, Typed
    <3> QED BY <3>1, BlocksAre, SizesAre
  <2>8. HandleInv'
    BY <1>1, <2>1, <2>3, <2>5, <2>6, <2>7 DEF HandleInv
  <2> QED BY <2>5, <2>8 DEF Counting
<1>3. CASE k = wr.room /\ Commit(k)
  <2>1. Len(wr.buf) + k <= SectorSize
    BY <1>1, <1>3, HandleIs
  <2> QED BY <1>1, <1>3, <2>1, CommitCounts
<1> QED BY <1>2, <1>3 DEF Write, Commit

LEMMA FlushCounts ==
  ASSUME CountsKept, Laid, Counting, CommitSector(0), FirstFlushHasData, UNCHANGED written
  PROVE  Counting'
<1>1. 0 \in Nat /\ Len(wr.buf) + 0 <= SectorSize /\ written' = written + 0
  BY HandleIs
<1>2. wr.sec = INIT => Buffered + 0 > 0
  BY BufferIs DEF FirstFlushHasData, CountsKept, CountRules
<1>3. wr.sec # TAIL
  BY DEF CommitSector
<1> QED BY <1>1, <1>2, <1>3, CommitCounts DEF Commit

LEMMA CloseCounts ==
  ASSUME CountsKept, Laid, Counting, NEW head \in BOOLEAN, Close(head)
  PROVE  Counting'
<1>1. CASE FirstFlushHasData /\ CommitSector(0)
  BY <1>1, FlushCounts DEF Close
<1>2. CASE ~ Flushes(head) /\ UNCHANGED << chain, wr, dirty >>
  <2>1. Len(wr.buf) = Header(wr.sec) /\ ~ dirty
    BY <1>2 DEF Close, CountsKept, CountRules
  <2>2. Buffered = 0 /\ Buffered' = 0 /\ UNCHANGED written
    BY <1>2, <2>1, BufferIs DEF Buffered, Close
  <2>3. UNCHANGED chain /\ wr'.sec = wr.sec
    BY <1>2
  <2>4. SpareInv' /\ TailInv' /\ Held(Tip)' = Held(Tip) /\ Ends(Tip)' = Ends(Tip)
    BY <2>3, SameBlocks DEF Counting
  <2>5. HandleInv'
    BY <1>2, <2>1, <2>2, <2>4 DEF HandleInv, Counting
  <2> QED BY <2>4, <2>5 DEF Counting
<1> QED BY <1>1, <1>2 DEF Close

\* A file is reopened with an empty buffer, behind the last sector.
LEMMA Reopens ==
  ASSUME CountsKept, Laid, Counting, Reopen
  PROVE  /\ wr'.blk = wr.blk /\ wr'.sec = wr.sec /\ wr.sec # INIT
         /\ wr'.buf = Zeros(Header(wr.sec)) /\ Len(wr'.buf) = Header(wr.sec)
         /\ wr'.inBlock = wr.inBlock /\ wr'.size = Ends(Tip)
         /\ ~ isOpen /\ isOpen' /\ UNCHANGED << chain, dirty, written, reader >>
<1>1. ~ isOpen /\ isOpen' /\ UNCHANGED << chain, dirty, written, reader >>
  BY DEF Reopen
<1>2. wr.sec # INIT
  BY <1>1 DEF Laid, FillInv, Counting, HandleInv
<1> DEFINE s == wr.sec  f == FreshBuffer(s)
<1>3. wr' = [ HandleAt(wr, Len(chain), s, f) EXCEPT !.inBlock = wr.inBlock, !.size = FileSize ]
  BY ReopenSector DEF Reopen, CountsKept, CountRules
<1>4. /\ wr \in WrRec /\ wr.blk = Len(chain) /\ s \in Sectors
  BY HandleIs DEF Tip
<1>5. f = Zeros(Header(s)) /\ Header(s) \in Nat /\ Len(f) = Header(s)
  BY <1>2, <1>4, HeadersAre
<1>6. FileSize = Ends(Tip)
  BY SizesAre DEF Counting
<1>7. wr' = [ wr EXCEPT !.blk = Len(chain), !.sec = s, !.buf = f,
                !.room = SectorSize - Len(f), !.inBlock = wr.inBlock, !.size = FileSize ]
  BY <1>3, <1>4 DEF HandleAt, WrRec
<1> HIDE DEF f
<1>8. /\ wr'.blk = wr.blk /\ wr'.sec = wr.sec /\ wr'.buf = f
      /\ wr'.inBlock = wr.inBlock /\ wr'.size = FileSize
  BY <1>4, <1>7 DEF WrRec
<1> QED BY <1>1, <1>2, <1>5, <1>6, <1>8

LEMMA ReopenCounts ==
  ASSUME CountsKept, Laid, Counting, Reopen
  PROVE  Counting'
<1>1. /\ wr'.blk = wr.blk /\ wr'.sec = wr.sec
      /\ Len(wr'.buf) = Header(wr.sec)
      /\ wr'.inBlock = wr.inBlock /\ wr'.size = Ends(Tip)
      /\ ~ isOpen /\ isOpen' /\ UNCHANGED << chain, dirty, written, reader >>
  BY Reopens
<1>2. Buffered = 0 /\ Buffered' = 0
  BY <1>1, BufferIs DEF Counting, HandleInv, Buffered
<1>3. UNCHANGED chain
  BY <1>1
<1>4. SpareInv' /\ TailInv' /\ Held(Tip)' = Held(Tip) /\ Ends(Tip)' = Ends(Tip)
  BY <1>1, <1>3, SameBlocks DEF Counting
<1>5. Ends(Tip) \in Nat
  <2>1. Tip \in 0 .. Tip
    BY BlocksAre
  <2> QED BY <2>1, SizesAre
<1>6. HandleInv'
  BY <1>1, <1>2, <1>4, <1>5 DEF HandleInv, Counting
<1> QED BY <1>4, <1>6 DEF Counting

LEMMA ReaderCounts ==
  ASSUME Counting, UNCHANGED writer
  PROVE  Counting'
<1>1. UNCHANGED chain /\ UNCHANGED wr /\ UNCHANGED << isOpen, dirty, written >>
  BY DEF writer
<1>2. wr'.sec = wr.sec /\ Buffered' = Buffered
  BY <1>1 DEF Buffered
<1>3. SpareInv' /\ TailInv' /\ Held(Tip)' = Held(Tip) /\ Ends(Tip)' = Ends(Tip)
  BY <1>1, <1>2, SameBlocks DEF Counting
<1>4. HandleInv'
  BY <1>1, <1>2, <1>3 DEF HandleInv, Counting
<1> QED BY <1>3, <1>4 DEF Counting

LEMMA InitCounts == Init => Counting
<1> SUFFICES ASSUME Init PROVE Counting
  OBVIOUS
<1>1. Laid
  BY InitLaid
<1>2. /\ chain = << EmptyBlock >> /\ Tip = 1 /\ chain[1] = EmptyBlock
      /\ isOpen = TRUE /\ written = 0
      /\ wr.sec = INIT /\ wr.buf = Zeros(InitHeader) /\ wr.inBlock = 0 /\ wr.size = 0
  BY DEF Init, Tip
<1>3. SpareInv
  <2> SUFFICES ASSUME NEW b \in 1 .. Tip, NEW i \in Sectors
               PROVE  ~ chain[b].sec[Order[i]].used
    BY DEF SpareInv
  <2>1. b = 1 /\ Order[i] \in Sectors
    BY <1>2, Ordered
  <2> QED BY <1>2, <2>1 DEF EmptyBlock, Erased
<1>4. TailInv
  BY <1>2 DEF TailInv
<1>5. Buffered = 0
  <2>1. InitHeader \in Nat /\ Len(Zeros(InitHeader)) = InitHeader /\ Header(INIT) = InitHeader
    BY HeadersAre, Sizes
  <2> QED BY <1>2, <2>1 DEF Buffered
<1>6. Held(1) = 0
  <2>1. Filled(1) = 0
    BY <1>2, Ordered DEF Filled
  <2> QED BY <2>1, TotalZero DEF Held
<1>7. Ends(1) = 0
  <2>1. 1 \in 1 .. Tip /\ 1 - 1 = 0
    BY <1>2
  <2>2. Ends(1) = Ends(0) + Held(1) /\ Ends(0) = 0
    BY <1>1, <2>1, SizesAre
  <2> QED BY <1>6, <2>2
<1>8. HandleInv
  BY <1>2, <1>5, <1>6, <1>7 DEF HandleInv
<1> QED BY <1>3, <1>4, <1>8 DEF Counting

LEMMA NextCounts ==
  ASSUME CountsKept, Laid, Counting, [Next]_vars
  PROVE  Counting'
<1>1. ASSUME NEW k \in 1 .. SectorSize, Write(k) PROVE Counting'
  BY <1>1, WriteCounts
<1>2. CASE ForeignFlush
  BY <1>2, FlushCounts DEF ForeignFlush
<1>3. CASE Reopen
  BY <1>3, ReopenCounts
<1>4. ASSUME NEW head \in BOOLEAN, Close(head) PROVE Counting'
  BY <1>4, CloseCounts
<1>5. CASE UNCHANGED writer
  BY <1>5, ReaderCounts
<1> QED BY <1>1, <1>2, <1>3, <1>4, <1>5
    DEF Next, OpenRead, CloseRead, Read, Advance, Take, Seek, SeekFails, vars

LEMMA CountingHolds == CountsKept /\ Spec => [](Laid /\ Counting)
<1> SUFFICES ASSUME CountsKept PROVE Spec => [](Laid /\ Counting)
  OBVIOUS
<1>1. Init => Laid /\ Counting
  BY InitLaid, InitCounts
<1>2. Laid /\ Counting /\ [Next]_vars => Laid' /\ Counting'
  BY NextLaid, NextCounts
<1> QED BY <1>1, <1>2, PTL DEF Spec

(***************************************************************************)
(* The tail sector of a block records how many bytes the block holds, for  *)
(* sectors and blocks of any size, however often the file is closed and    *)
(* reopened, as long as it is reopened with the handle it was closed with  *)
(* (flogfs.c:1418-1423, 900).                                              *)
(***************************************************************************)
THEOREM TailsCountTheorem == CountsKept /\ Spec => []TailsCount
<1>1. Laid /\ Counting => TailsCount
  <2> SUFFICES ASSUME Laid, Counting, NEW b \in 1 .. Len(chain), Ended(b)
               PROVE  chain[b].total = SumTo(b, Used(b))
    BY DEF TailsCount
  <2>1. b \in 1 .. Tip /\ b < Tip /\ Tip \in Nat
    BY BlocksAre DEF Tip
  <2>2. b \in 1 .. Tip - 1
    BY <2>1
  <2>3. chain[b].total = Held(b)
    BY <2>2 DEF Counting, TailInv
  <2> QED BY <2>1, <2>3, BlocksAre
<1> QED BY <1>1, CountingHolds, PTL

-----------------------------------------------------------------------------
(* The bytes.                                                              *)

\* The sector that is completed holds the bytes that come next.
LEMMA CompletedData ==
  ASSUME Laid, Counting, DataInv, NEW k \in Nat, Len(wr.buf) + k <= SectorSize
  PROVE  /\ \A j \in 1 .. Completed(k).n :
              Completed(k).raw[Header(wr.sec) + j] = Ends(Tip) + j
         /\ wr.sec = INIT => \A j \in 1 .. Header(wr.sec) : Completed(k).raw[j] = 0
<1> DEFINE h == Header(wr.sec)  l == Len(wr.buf)  raw == Completed(k).raw
           m == Min({ InitHeader, l })
<1>1. Buffered \in Nat /\ h \in Nat /\ l = h + Buffered /\ Completed(k).n = Buffered + k
  BY BufferIs, CompletedCounts
<1>2. \A i \in 1 .. l + k :
        raw[i] = IF wr.sec = INIT /\ i <= m THEN 0
                 ELSE IF i <= l THEN wr.buf[i] ELSE written + (i - l)
  BY CompletedIs
<1>3. wr.sec = INIT => m = h /\ h = InitHeader
  <2>1. InitHeader \in Int /\ l \in Int /\ Header(INIT) = InitHeader
    BY <1>1, HeadersAre, Sizes
  <2>2. m = IF InitHeader <= l THEN InitHeader ELSE l
    BY <2>1, MinOfTwo
  <2> QED BY <1>1, <2>1, <2>2
<1>4. written = Ends(Tip) + Buffered /\ Ends(Tip) \in Nat
  <2>1. Tip \in 0 .. Tip
    BY BlocksAre
  <2>2. wr.size = Ends(Tip) + Buffered /\ written = wr.size
    BY DEF Counting, HandleInv
  <2> QED BY <2>1, <2>2, SizesAre
<1>5. \A j \in 1 .. Buffered : wr.buf[h + j] = Ends(Tip) + j
  BY DEF DataInv
<1> HIDE DEF h, l, raw, m
<1>6. ASSUME NEW j \in 1 .. Buffered + k PROVE raw[h + j] = Ends(Tip) + j
  <2> DEFINE i == h + j
  <2>1. i \in 1 .. l + k /\ i > h
    BY <1>1
  <2>2. i <= l <=> j <= Buffered
    BY <1>1
  <2>3. ~ (wr.sec = INIT /\ i <= m)
    BY <1>1, <1>3, <2>1
  <2>4. raw[i] = IF i <= l THEN wr.buf[i] ELSE written + (i - l)
    BY <1>2, <2>1, <2>3
  <2>5. CASE i <= l
    <3>1. j \in 1 .. Buffered
      BY <1>1, <2>2, <2>5
    <3> QED BY <1>5, <2>4, <2>5, <3>1
  <2>6. CASE ~ (i <= l)
    <3>1. written + (i - l) = Ends(Tip) + j
      BY <1>1, <1>4
    <3> QED BY <2>4, <2>6, <3>1
  <2> QED BY <2>5, <2>6
<1>7. ASSUME wr.sec = INIT, NEW j \in 1 .. h PROVE raw[j] = 0
  <2>1. j \in 1 .. l + k /\ j <= m
    BY <1>1, <1>3, <1>7
  <2> QED BY <1>2, <1>7, <2>1
<1> QED BY <1>1, <1>6, <1>7 DEF h, raw

LEMMA CommitData ==
  ASSUME Laid, Counting, DataInv, NEW k \in Nat, Len(wr.buf) + k <= SectorSize, Commit(k)
  PROVE  DataInv'
<1>0. PICK t, x : t = Tip /\ x = Completed(k)
  OBVIOUS
<1>1. Fills(t, x) /\ Moves(k)
  BY <1>0, CommitDoes
<1>2. PICK e : e = Ends(t)
  OBVIOUS
<1>3. /\ \A j \in 1 .. x.n : x.raw[Header(wr.sec) + j] = e + j
      /\ wr.sec = INIT => \A j \in 1 .. Header(wr.sec) : x.raw[j] = 0
  BY <1>0, <1>2, CompletedData
<1>4. /\ t \in Nat \ {0} /\ t = Tip /\ Tip' \in { t, t + 1 } /\ Filled(t) + 1 \in Sectors
      /\ wr.sec = Order[Filled(t) + 1]
      /\ \A b \in 1 .. t : \A i \in Sectors :
           i <= Filled(b) + 1 => Before(b, i)' = Before(b, i)
  <2>1. /\ t \in Nat \ {0} /\ t = Tip /\ Tip' \in { t, t + 1 } /\ Filled(t) + 1 \in Sectors
        /\ wr.sec = Order[Filled(t) + 1]
    BY <1>1, FillsPlaces
  <2>2. /\ \A b \in 1 .. t : \A i \in Sectors :
             i <= Filled(b) + 1 => Before(b, i)' = Before(b, i)
        /\ Before(t, Filled(t) + 1) = Ends(t)
    BY <1>1, FillsBefore
  <2> QED BY <2>1, <2>2
<1>5. ASSUME NEW b \in 1 .. Tip', NEW i \in Sectors, chain'[b].sec[Order[i]].used
      PROVE  /\ \A j \in 1 .. chain'[b].sec[Order[i]].n :
                  chain'[b].sec[Order[i]].raw[Header(Order[i]) + j] = Before(b, i)' + j
             /\ i = 1 => \A j \in 1 .. Header(Order[i]) : chain'[b].sec[Order[i]].raw[j] = 0
  <2>1. CASE b \in 1 .. t /\ ~ (b = t /\ i = Filled(t) + 1)
    <3>1. chain'[b].sec[Order[i]] = chain[b].sec[Order[i]]
      BY <1>1, <2>1, FillsSectors
    <3>2. i <= Filled(b)
      BY <1>4, <1>5, <2>1, <3>1 DEF Laid, FillInv
    <3>3. i <= Filled(b) + 1
      <4>1. Filled(b) \in Int /\ i \in Int
        BY <1>4, <2>1, BlocksAre, Geometry
      <4> QED BY <3>2, <4>1
    <3>4. Before(b, i)' = Before(b, i)
      BY <1>4, <2>1, <3>3
    <3> QED BY <1>4, <1>5, <2>1, <3>1, <3>4 DEF DataInv
  <2>2. CASE b = t /\ i = Filled(t) + 1
    <3>1. chain'[b].sec[Order[i]] = x
      BY <1>1, <1>4, <2>2, FillsSectors
    <3>2. Order[i] = wr.sec /\ (i = 1 => wr.sec = INIT)
      BY <1>4, <2>2, Ordered
    <3>3. Before(b, i)' = e
      <4>1. i <= Filled(b) + 1
        BY <2>2, Geometry
      <4>2. Before(b, i)' = Before(b, i) /\ Before(b, i) = Ends(t)
        BY <1>1, <1>4, <2>2, <4>1, FillsBefore
      <4> QED BY <1>2, <4>2
    <3> QED BY <1>3, <3>1, <3>2, <3>3
  <2>3. CASE b \notin 1 .. t
    <3>1. b = t + 1 /\ Tip' = t + 1
      BY <1>4, <2>3
    <3>2. chain'[b].sec[Order[i]] = Erased
      BY <1>1, <3>1, FillsSectors
    <3> QED BY SMTT(30), <1>5, <3>2 DEF Erased
  <2> QED BY <2>1, <2>2, <2>3
<1>6. Buffered' = 0
  <2>1. wr'.sec \in Sectors /\ wr'.buf = Zeros(Header(wr'.sec))
    BY <1>1 DEF Moves, WrRec
  <2>2. Header(wr'.sec) \in Nat /\ Len(wr'.buf) = Header(wr'.sec)
    BY <2>1, HeadersAre
  <2> QED BY <2>2 DEF Buffered
<1>7. \A j \in 1 .. Buffered' : wr'.buf[Header(wr'.sec) + j] = Ends(Tip)' + j
  BY <1>6
<1> QED BY <1>5, <1>7 DEF DataInv

\* Nothing is written to flash, and the buffer holds what it should.
LEMMA SameData ==
  ASSUME DataInv, UNCHANGED chain, wr'.sec = wr.sec,
         \A j \in 1 .. Buffered' : wr'.buf[Header(wr.sec) + j] = Ends(Tip) + j
  PROVE  DataInv'
<1>1. /\ Tip' = Tip /\ Ends(Tip)' = Ends(Tip)
      /\ \A b, i : Before(b, i)' = Before(b, i)
  BY SameBlocks
<1> QED BY <1>1 DEF DataInv

LEMMA WriteData ==
  ASSUME Laid, Counting, DataInv, NEW k \in 1 .. SectorSize, Write(k)
  PROVE  DataInv'
<1>1. k \in Nat /\ Buffered \in Nat /\ Header(wr.sec) \in Nat /\ Len(wr.buf) = Header(wr.sec) + Buffered
  BY HandleIs, BufferIs
<1>2. CASE k < wr.room /\ UNCHANGED << chain, dirty >>
           /\ wr' = Counted([ wr EXCEPT !.buf = @ \o NewBytes(k), !.room = @ - k ], k)
  <2> DEFINE h == Header(wr.sec)  l == Len(wr.buf)
  <2>1. /\ wr'.sec = wr.sec /\ Len(wr'.buf) = l + k
        /\ \A i \in 1 .. l + k :
             wr'.buf[i] = IF i <= l THEN wr.buf[i] ELSE written + (i - l)
    BY <1>2, Buffers
  <2>2. Buffered' = Buffered + k
    BY <1>1, <2>1 DEF Buffered
  <2>3. written = Ends(Tip) + Buffered /\ Ends(Tip) \in Nat
    <3>1. Tip \in 0 .. Tip
      BY BlocksAre
    <3>2. wr.size = Ends(Tip) + Buffered /\ written = wr.size
      BY DEF Counting, HandleInv
    <3> QED BY <3>1, <3>2, SizesAre
  <2>4. h \in Nat /\ l = h + Buffered
    BY <1>1
  <2> HIDE DEF h, l
  <2>5. ASSUME NEW j \in 1 .. Buffered + k PROVE wr'.buf[h + j] = Ends(Tip) + j
    <3> DEFINE i == h + j
    <3>1. i \in 1 .. l + k /\ (i <= l <=> j <= Buffered)
      BY <1>1, <2>4
    <3>2. wr'.buf[i] = IF i <= l THEN wr.buf[i] ELSE written + (i - l)
      BY <2>1, <3>1
    <3>3. CASE i <= l
      <4>1. j \in 1 .. Buffered
        BY <1>1, <3>1, <3>3
      <4>2. wr.buf[h + j] = Ends(Tip) + j
        BY <4>1 DEF DataInv, h
      <4> QED BY <3>2, <3>3, <4>2
    <3>4. CASE ~ (i <= l)
      <4>1. written + (i - l) = Ends(Tip) + j
        BY <1>1, <2>3, <2>4
      <4> QED BY <3>2, <3>4, <4>1
    <3> QED BY <3>3, <3>4
  <2>6. UNCHANGED chain
    BY <1>2
  <2> QED BY <2>1, <2>2, <2>5, <2>6, SameData DEF h
<1>3. CASE k = wr.room /\ Commit(k)
  <2>1. Len(wr.buf) + k <= SectorSize
    BY <1>3, HandleIs
  <2> QED BY <1>1, <1>3, <2>1, CommitData
<1> QED BY <1>2, <1>3 DEF Write, Commit

LEMMA FlushData ==
  ASSUME Laid, Counting, DataInv, CommitSector(0)
  PROVE  DataInv'
<1>1. 0 \in Nat /\ Len(wr.buf) + 0 <= SectorSize
  BY HandleIs
<1> QED BY <1>1, CommitData DEF Commit

LEMMA ReopenData ==
  ASSUME CountsKept, Laid, Counting, DataInv, Reopen
  PROVE  DataInv'
<1>1. wr'.sec = wr.sec /\ Len(wr'.buf) = Header(wr.sec) /\ UNCHANGED chain
  BY Reopens
<1>2. Buffered' = 0
  BY <1>1, BufferIs DEF Buffered
<1> QED BY <1>1, <1>2, SameData

LEMMA UnchangedData ==
  ASSUME DataInv, UNCHANGED << chain, wr >>
  PROVE  DataInv'
<1>1. UNCHANGED chain /\ wr'.sec = wr.sec /\ Buffered' = Buffered /\ wr'.buf = wr.buf
  BY DEF Buffered
<1> QED BY <1>1, SameData DEF DataInv

LEMMA InitData == Init => DataInv
<1> SUFFICES ASSUME Init PROVE DataInv
  OBVIOUS
<1>1. /\ Tip = 1 /\ chain[1] = EmptyBlock
      /\ wr.sec = INIT /\ wr.buf = Zeros(InitHeader)
  BY DEF Init, Tip
<1>2. ASSUME NEW b \in 1 .. Tip, NEW i \in Sectors PROVE ~ chain[b].sec[Order[i]].used
  <2>1. b = 1 /\ Order[i] \in Sectors
    BY <1>1, Ordered
  <2> QED BY <1>1, <2>1 DEF EmptyBlock, Erased
<1>3. Buffered = 0
  <2>1. InitHeader \in Nat /\ Len(Zeros(InitHeader)) = InitHeader /\ Header(INIT) = InitHeader
    BY HeadersAre, Sizes
  <2> QED BY <1>1, <2>1 DEF Buffered
<1> QED BY <1>2, <1>3 DEF DataInv

LEMMA NextData ==
  ASSUME CountsKept, Laid, Counting, DataInv, [Next]_vars
  PROVE  DataInv'
<1>1. ASSUME NEW k \in 1 .. SectorSize, Write(k) PROVE DataInv'
  BY <1>1, WriteData
<1>2. CASE ForeignFlush
  BY <1>2, FlushData DEF ForeignFlush
<1>3. CASE Reopen
  BY <1>3, ReopenData
<1>4. ASSUME NEW head \in BOOLEAN, Close(head) PROVE DataInv'
  <2>1. CASE CommitSector(0)
    BY <2>1, FlushData
  <2>2. CASE UNCHANGED << chain, wr, dirty >>
    BY <2>2, UnchangedData
  <2> QED BY <1>4, <2>1, <2>2 DEF Close
<1>5. CASE UNCHANGED writer
  BY <1>5, UnchangedData DEF writer
<1> QED BY <1>1, <1>2, <1>3, <1>4, <1>5
    DEF Next, OpenRead, CloseRead, Read, Advance, Take, Seek, SeekFails, vars

LEMMA DataHolds == CountsKept /\ Spec => [](Laid /\ Counting /\ DataInv)
<1> SUFFICES ASSUME CountsKept PROVE Spec => [](Laid /\ Counting /\ DataInv)
  OBVIOUS
<1>1. Init => Laid /\ Counting /\ DataInv
  BY InitLaid, InitCounts, InitData
<1>2. Laid /\ Counting /\ DataInv /\ [Next]_vars => Laid' /\ Counting' /\ DataInv'
  BY NextLaid, NextCounts, NextData
<1> QED BY <1>1, <1>2, PTL DEF Spec

-----------------------------------------------------------------------------
(* What is stored and what is kept, as runs of bytes.                      *)

(* k elements of a sequence, behind the first a.                           *)
LEMMA SubSeqIs ==
  ASSUME NEW s \in Seq(Nat), NEW a \in Nat, NEW k \in Nat, a + k <= Len(s)
  PROVE  SubSeq(s, a + 1, a + k) = [ j \in 1 .. k |-> s[a + j] ]
<1>1. SubSeq(s, a + 1, a + k) = [ j \in 1 .. ((a + k) - (a + 1) + 1) |-> s[(j + (a + 1)) - 1] ]
  BY DEF SubSeq
<1>2. (a + k) - (a + 1) + 1 = k /\ \A j \in 1 .. k : (j + (a + 1)) - 1 = a + j
  OBVIOUS
<1> QED BY <1>1, <1>2

LEMMA PayloadIs ==
  ASSUME Laid, Counting, DataInv, NEW b \in 1 .. Tip, NEW i \in Sectors,
         chain[b].sec[Order[i]].used
  PROVE  Payload(b, Order[i]) = Run(Before(b, i), chain[b].sec[Order[i]].n)
<1> DEFINE x == chain[b].sec[Order[i]]  raw == x.raw  n == x.n  h == Header(Order[i])
           e == Before(b, i)
<1>1. n \in Nat /\ raw \in Seq(Nat) /\ h \in Nat
  BY Ordered, SpareIs, HeadersAre
<1>2. Len(raw) = h + n
  BY DEF Counting, SpareInv
<1>3. \A j \in 1 .. n : raw[h + j] = e + j
  BY DEF DataInv
<1>4. Payload(b, Order[i]) = SubSeq(raw, h + 1, Min({ h + n, Len(raw) }))
  BY DEF Payload
<1> HIDE DEF x, raw, n, h, e
<1>5. h + n \in Int /\ Min({ h + n, Len(raw) }) = h + n
  <2>1. h + n \in Int /\ Len(raw) \in Int
    BY <1>1, <1>2
  <2> QED BY <1>2, <2>1, MinOfTwo
<1>6. SubSeq(raw, h + 1, h + n) = [ j \in 1 .. n |-> raw[h + j] ]
  <2>1. h + n <= Len(raw)
    BY <1>1, <1>2
  <2> QED BY <1>1, <2>1, SubSeqIs
<1>7. [ j \in 1 .. n |-> raw[h + j] ] = Run(e, n)
  BY <1>3 DEF Run
<1>8. Payload(b, Order[i]) = Run(e, n)
  BY <1>4, <1>5, <1>6, <1>7
<1> QED BY <1>8 DEF e, n, x

LEMMA DataOfIs ==
  ASSUME Laid, Counting, DataInv, NEW b \in 1 .. Tip
  PROVE  DataOf(b) = Run(Ends(b - 1), Held(b))
<1> DEFINE m == Used(b)  a == Ends(b - 1)  w == Counts(chain[b])
           g == [ i \in 1 .. m |-> Payload(b, Order[i]) ]
           E(f) == [ i \in 0 .. m |-> IF i = 0 THEN << >> ELSE f[i - 1] \o Payload(b, Order[i]) ]
           s == CHOOSE f : f = E(f)
<1>1. m \in 0 .. LastPlace /\ m \in Nat /\ m = Filled(b) /\ a \in Nat /\ 1 .. m \subseteq Sectors
  <2>1. m = Filled(b) /\ Filled(b) \in 0 .. LastPlace /\ Tip \in Nat
    BY BlocksAre
  <2>2. b - 1 \in 0 .. Tip
    BY <2>1
  <2>3. a \in Nat
    BY <2>2, SizesAre
  <2> QED BY <2>1, <2>3, Geometry
<1>2. \A i \in 0 .. m : i # 0 => Payload(b, Order[i]) = g[i]
  BY <1>1
<1>3. \A i \in 1 .. m : w[i] \in Nat /\ g[i] = Run(a + Total(w, i - 1), w[i])
  <2> TAKE i \in 1 .. m
  <2>1. i \in Sectors /\ i <= Filled(b)
    BY <1>1
  <2>2. chain[b].sec[Order[i]].used
    BY <2>1 DEF Laid, FillInv
  <2>3. w[i] \in Nat /\ w[i] = chain[b].sec[Order[i]].n
    BY <2>1, BlocksAre DEF Counts
  <2>4. g[i] = Run(Before(b, i), w[i])
    BY <2>1, <2>2, <2>3, PayloadIs
  <2> QED BY <2>3, <2>4 DEF Before
<1>4. DataOf(b) = s[m]
  BY DEF DataOf
<1>5. Held(b) = Total(w, m)
  BY <1>1 DEF Held
<1> HIDE DEF g, m, a, w
<1>6. \A f : E(f) = [ i \in 0 .. m |-> IF i = 0 THEN << >> ELSE f[i - 1] \o g[i] ]
  BY <1>1, <1>2
<1>7. \E f : f = E(f)
  <2>1. PICK f : Cats(f, g, m)
    BY <1>1, CatExists
  <2>2. f = E(f)
    BY <1>6, <2>1 DEF Cats
  <2> QED BY <2>2
<1>8. s = E(s)
  <2> HIDE DEF E
  <2> QED BY <1>7
<1> HIDE DEF s
<1>9. Cats(s, g, m)
  BY <1>6, <1>8 DEF Cats
<1>10. s[m] = Cat(g, m)
  BY <1>1, <1>9, CatIs
<1>11. Cat(g, m) = Run(a, Total(w, m))
  <2>1. RunsOn(g, w, a, m)
    BY <1>3 DEF RunsOn
  <2> QED BY <1>1, <2>1, CatRuns
<1> QED BY <1>4, <1>5, <1>10, <1>11 DEF a

LEMMA StoredIs ==
  Laid /\ Counting /\ DataInv => Stored = Run(0, Ends(Tip))
<1> SUFFICES ASSUME Laid, Counting, DataInv PROVE Stored = Run(0, Ends(Tip))
  OBVIOUS
<1> DEFINE m == Tip  w == Helds
           g == [ b \in 1 .. m |-> DataOf(b) ]
           E(f) == [ b \in 0 .. Len(chain) |-> IF b = 0 THEN << >> ELSE f[b - 1] \o DataOf(b) ]
           s == CHOOSE f : f = E(f)
<1>1. m \in Nat /\ m = Len(chain)
  BY BlocksAre DEF Tip
<1>2. \A b \in 0 .. m : b # 0 => DataOf(b) = g[b]
  BY <1>1
<1>3. \A b \in 1 .. m : w[b] \in Nat /\ g[b] = Run(0 + Total(w, b - 1), w[b])
  <2> TAKE b \in 1 .. m
  <2>1. w[b] = Held(b) /\ Held(b) \in Nat /\ g[b] = Run(Ends(b - 1), Held(b))
    BY BlocksAre, DataOfIs DEF Helds
  <2>2. Ends(b - 1) \in Nat
    <3>1. b - 1 \in 0 .. Tip
      BY <1>1
    <3> QED BY <3>1, SizesAre
  <2>3. Ends(b - 1) = Total(w, b - 1)
    BY DEF Ends
  <2>4. 0 + Total(w, b - 1) = Ends(b - 1)
    BY <2>2, <2>3
  <2> QED BY <2>1, <2>4
<1>4. Stored = s[m]
  BY DEF Stored, Tip
<1>5. Ends(Tip) = Total(w, m)
  BY DEF Ends
<1>6. \A f : E(f) = [ b \in 0 .. m |-> IF b = 0 THEN << >> ELSE f[b - 1] \o g[b] ]
  <2> HIDE DEF g
  <2> QED BY <1>1, <1>2
<1> HIDE DEF g, m, w
<1>7. \E f : f = E(f)
  <2>1. PICK f : Cats(f, g, m)
    BY <1>1, CatExists
  <2>2. f = E(f)
    BY <1>6, <2>1 DEF Cats
  <2> QED BY <2>2
<1>8. s = E(s)
  <2> HIDE DEF E
  <2> QED BY <1>7
<1> HIDE DEF s
<1>9. Cats(s, g, m)
  BY <1>6, <1>8 DEF Cats
<1>10. s[m] = Cat(g, m)
  BY <1>1, <1>9, CatIs
<1>11. Cat(g, m) = Run(0, Total(w, m))
  <2>1. RunsOn(g, w, 0, m)
    BY <1>3 DEF RunsOn
  <2> QED BY <1>1, <2>1, CatRuns
<1> QED BY <1>4, <1>5, <1>10, <1>11

LEMMA KeptIs ==
  Laid /\ Counting /\ DataInv => Kept = Run(Ends(Tip), Buffered)
<1> SUFFICES ASSUME Laid, Counting, DataInv PROVE Kept = Run(Ends(Tip), Buffered)
  OBVIOUS
<1> DEFINE v == wr.buf  h == Header(wr.sec)  n == Buffered  e == Ends(Tip)
<1>1. n \in Nat /\ h \in Nat /\ Len(v) = h + n /\ v \in Seq(Nat)
  BY BufferIs, HandleIs
<1>2. \A j \in 1 .. n : v[h + j] = e + j
  BY DEF DataInv
<1>3. Kept = SubSeq(v, h + 1, Len(v))
  BY DEF Kept
<1> HIDE DEF v, h, n, e
<1>4. SubSeq(v, h + 1, h + n) = [ j \in 1 .. n |-> v[h + j] ]
  BY <1>1, SubSeqIs
<1>5. [ j \in 1 .. n |-> v[h + j] ] = Run(e, n)
  BY <1>2 DEF Run
<1> QED BY <1>1, <1>3, <1>4, <1>5 DEF e, n

\* How much that is.
LEMMA LengthsAre ==
  Laid /\ Counting /\ DataInv =>
    /\ Len(Stored) = Ends(Tip) /\ Len(Kept) = Buffered
    /\ Ends(Tip) \in Nat /\ Buffered \in Nat
<1> SUFFICES ASSUME Laid, Counting, DataInv
             PROVE  /\ Len(Stored) = Ends(Tip) /\ Len(Kept) = Buffered
                    /\ Ends(Tip) \in Nat /\ Buffered \in Nat
  OBVIOUS
<1>1. Ends(Tip) \in Nat /\ Buffered \in Nat
  <2>1. Tip \in 0 .. Tip
    BY BlocksAre
  <2> QED BY <2>1, SizesAre, BufferIs
<1>2. \A a, k \in Nat : Len(Run(a, k)) = k
  BY DEF Run
<1> QED BY <1>1, <1>2, StoredIs, KeptIs

(***************************************************************************)
(* The size a writer is told counts what is stored and what it has         *)
(* buffered, and nothing else, over any number of flushes, blocks and      *)
(* reopenings (flogfs.c:900, 1180, 1199, 1440, 1488).                      *)
(***************************************************************************)
THEOREM WriterSizeTheorem == CountsKept /\ Spec => []WriterSize
<1>1. Laid /\ Counting /\ DataInv => WriterSize
  BY LengthsAre DEF WriterSize, Counting, HandleInv
<1> QED BY <1>1, DataHolds, PTL

(***************************************************************************)
(* The size a reader is told when it opens the file, counted from the      *)
(* tails and the spares, is what there is to read (flogfs.c:703,           *)
(* 1035-1052).                                                             *)
(***************************************************************************)
THEOREM ReaderSizeTheorem == CountsKept /\ Spec => []ReaderSize
<1>1. Laid /\ Counting /\ DataInv => ReaderSize
  BY LengthsAre, SizesAre DEF ReaderSize, Counting
<1> QED BY <1>1, DataHolds, PTL

-----------------------------------------------------------------------------
(* Where a reader is.                                                      *)

\* All the rules of use.
RulesKept == Rules \subseteq ClientRules

LEMMA RulesAre ==
  ASSUME RulesKept
  PROVE  CountsKept /\ "read_written" \in ClientRules /\ "seek_data" \in ClientRules
BY DEF RulesKept, Rules, CountsKept, CountRules

\* The sectors of a block follow each other, and the blocks do.
LEMMA BeforeStep ==
  ASSUME Laid, NEW b \in 1 .. Tip, NEW i \in Sectors
  PROVE  /\ Before(b, i) \in Nat /\ Counts(chain[b])[i] \in Nat
         /\ Before(b, i + 1) = Before(b, i) + Counts(chain[b])[i]
         /\ i <= Filled(b) => Before(b, i + 1) <= Ends(b)
         /\ i = Filled(b) => Before(b, i + 1) = Ends(b)
<1> DEFINE g == Counts(chain[b])  k == i - 1  e == Ends(b - 1)  m == Filled(b)
<1>1. k \in Nat /\ k + 1 = i /\ (i + 1) - 1 = i /\ i \in Nat /\ m \in Nat /\ k <= LastPlace
      /\ m <= LastPlace /\ LastPlace \in Nat
  <2>1. m \in 0 .. LastPlace
    BY BlocksAre
  <2> QED BY <2>1, Geometry
<1>2. \A j \in 1 .. LastPlace : g[j] \in Nat
  BY BlocksAre, Geometry
<1>3. e \in Nat
  <2>1. b - 1 \in 0 .. Tip
    BY BlocksAre
  <2> QED BY <2>1, SizesAre
<1>4. Before(b, i) = e + Total(g, k) /\ Before(b, i + 1) = e + Total(g, i)
  BY <1>1 DEF Before
<1>5. Ends(b) = e + Total(g, m)
  BY SizesAre DEF Held
<1>6. i <= LastPlace
  BY Geometry
<1> HIDE DEF g, k, e, m
<1>7. Total(g, i) = Total(g, k) + g[i]
  BY <1>1, TotalStep
<1>8. Total(g, k) \in Nat /\ Total(g, i) \in Nat /\ Total(g, m) \in Nat
  <2>1. \A j \in 0 .. LastPlace : Total(g, j) \in Nat
    BY <1>1, <1>2, TotalGrows
  <2> QED BY <1>1, <1>6, <2>1
<1>9. i <= m => Total(g, i) <= Total(g, m)
  <2> SUFFICES ASSUME i <= m PROVE Total(g, i) <= Total(g, m)
    OBVIOUS
  <2>1. i \in 0 .. m /\ \A j \in 1 .. m : g[j] \in Nat
    BY <1>1, <1>2
  <2> QED BY <1>1, <2>1, TotalGrows
<1>10. g[i] \in Nat
  BY <1>1, <1>2, <1>6
<1>11. i = m => Before(b, i + 1) = Ends(b)
  BY <1>4, <1>5
<1>12. i <= m => Before(b, i + 1) <= Ends(b)
  BY <1>3, <1>4, <1>5, <1>8, <1>9
<1>13. Before(b, i + 1) = Before(b, i) + g[i] /\ Before(b, i) \in Nat
  BY <1>3, <1>4, <1>7, <1>8, <1>10
<1> QED BY <1>10, <1>11, <1>12, <1>13 DEF g, m

LEMMA BeforeFirst ==
  ASSUME Laid, NEW b \in 1 .. Tip
  PROVE  Before(b, 1) = Ends(b - 1) /\ Ends(b - 1) \in Nat
<1>1. b - 1 \in 0 .. Tip
  BY BlocksAre
<1>2. Ends(b - 1) \in Nat
  BY <1>1, SizesAre
<1>3. Total(Counts(chain[b]), 0) = 0
  BY TotalZero
<1>4. Before(b, 1) = Ends(b - 1) + Total(Counts(chain[b]), 1 - 1)
  BY DEF Before
<1> QED BY <1>2, <1>3, <1>4

\* No block ends behind the last.
LEMMA EndsGrow ==
  ASSUME Laid, NEW b \in 1 .. Tip
  PROVE  Ends(b) <= Ends(Tip)
<1>1. Tip \in Nat /\ b \in 0 .. Tip /\ \A j \in 1 .. Tip : Helds[j] \in Nat
  BY BlocksAre DEF Helds
<1> QED BY <1>1, TotalGrows DEF Ends

\* What a reader knows of the sector it is in.
LEMMA ReaderKnows ==
  ASSUME Laid, Counting, PosInv, rd.open
  PROVE  LET b == rd.blk  i == Place(rd.sec)  x == chain[rd.blk].sec[rd.sec]
             h == Header(rd.sec) IN
         /\ b \in 1 .. Tip /\ i \in Sectors /\ Order[i] = rd.sec /\ i <= Filled(b)
         /\ x.used /\ x.n \in Nat /\ h \in Nat /\ Len(x.raw) = h + x.n
         /\ rd.off \in Int /\ rd.room \in Int /\ rd.off >= h /\ rd.room >= 0
         /\ rd.room = x.n - (rd.off - h)
         /\ Before(b, i) \in Nat /\ pos = Before(b, i) + rd.off - h
         /\ Before(b, i + 1) = Before(b, i) + x.n /\ Before(b, i + 1) <= Ends(b)
<1> DEFINE b == rd.blk  i == Place(rd.sec)  x == chain[rd.blk].sec[rd.sec]
           h == Header(rd.sec)
<1>1. b \in 1 .. Tip /\ rd.sec \in Sectors /\ rd.off \in Int /\ rd.room \in Int
  BY ReaderIs
<1>2. i \in Sectors /\ Order[i] = rd.sec
  BY <1>1, Ordered
<1>3. /\ x.used /\ rd.off >= h /\ rd.room >= 0 /\ rd.room = x.n - (rd.off - h)
      /\ pos = Before(b, i) + rd.off - h
  BY DEF PosInv
<1>4. i <= Filled(b)
  BY <1>1, <1>3, BlocksAre
<1>5. x.n \in Nat /\ h \in Nat
  BY <1>1, SpareIs, HeadersAre
<1>6. Len(x.raw) = h + x.n
  BY <1>1, <1>2, <1>3 DEF Counting, SpareInv
<1>7. Counts(chain[b])[i] = x.n
  BY <1>2 DEF Counts
<1>8. /\ Before(b, i) \in Nat /\ Before(b, i + 1) = Before(b, i) + x.n
      /\ Before(b, i + 1) <= Ends(b)
  BY <1>1, <1>2, <1>4, <1>7, BeforeStep
<1> QED BY <1>1, <1>2, <1>3, <1>4, <1>5, <1>6, <1>8

\* A reader that has used up its sector is where the next one begins.
LEMMA UsedUp ==
  ASSUME Laid, Counting, PosInv, rd.open, rd.room = 0
  PROVE  pos = Before(rd.blk, Place(rd.sec) + 1)
<1> DEFINE e == Before(rd.blk, Place(rd.sec))  n == chain[rd.blk].sec[rd.sec].n
           h == Header(rd.sec)  o == rd.off
           f == Before(rd.blk, Place(rd.sec) + 1)
<1>1. /\ e \in Nat /\ n \in Nat /\ h \in Nat /\ o \in Int
      /\ rd.room = n - (o - h) /\ pos = e + o - h /\ f = e + n
  BY ReaderKnows
<1> HIDE DEF e, n, h, o, f
<1>2. pos = f
  BY <1>1
<1> QED BY <1>2 DEF f

\* A reader that comes to a block with data is at its first byte.
LEMMA AtBlockAt ==
  ASSUME Laid, Counting, NEW b \in 1 .. Tip, chain[b].sec[INIT].used
  PROVE  LET d == AtBlock(b) IN
         /\ d.blk = b /\ d.sec = INIT /\ d.off = Header(INIT) /\ d.open = rd.open
         /\ d.room = chain[b].sec[INIT].n /\ d.room \in Nat
<1>1. INIT \in Sectors /\ 1 \in Sectors /\ Order[1] = INIT
  BY Geometry, Ordered
<1>2. chain[b].sec[INIT].n > 0 /\ chain[b].sec[INIT].n \in Nat
  BY <1>1, SpareIs DEF Counting, SpareInv
<1>3. Header(INIT) = InitHeader
  BY HeadersAre
<1>4. /\ AtBlock(b).blk = b /\ AtBlock(b).open = rd.open
      /\ chain[b].sec[INIT].n # 0 =>
           /\ AtBlock(b).sec = INIT /\ AtBlock(b).off = InitHeader
           /\ AtBlock(b).room = chain[b].sec[INIT].n
  BY AtBlockIs
<1> DEFINE d == AtBlock(b)  n == chain[b].sec[INIT].n
<1>5. /\ d.blk = b /\ d.sec = INIT /\ d.off = Header(INIT) /\ d.open = rd.open
      /\ d.room = n /\ n \in Nat
  <2>1. n # 0 /\ n \in Nat
    BY <1>2
  <2> QED BY <1>3, <1>4, <2>1
<1> HIDE DEF n
<1> QED BY <1>5 DEF n

\* What is known of a reader that stands at sector s of block b.
Stands(d, b, s, at) ==
  /\ d.blk = b /\ d.sec = s /\ d.open = TRUE
  /\ chain[b].sec[s].used
  /\ d.off >= Header(s) /\ d.room >= 0
  /\ d.room = chain[b].sec[s].n - (d.off - Header(s))
  /\ at = Before(b, Place(s)) + d.off - Header(s)

LEMMA StandsIs ==
  ASSUME UNCHANGED writer, NEW b, NEW s, Stands(rd', b, s, pos')
  PROVE  PosInv'
<1>1. UNCHANGED chain /\ wr'.sec = wr.sec
  BY DEF writer
<1>2. Before(b, Place(s))' = Before(b, Place(s))
  BY <1>1, SameBlocks
<1>3. rd'.blk = b /\ rd'.sec = s /\ rd'.open = TRUE
  BY DEF Stands
<1> DEFINE d == rd'  at == pos'
<1>4. /\ chain'[d.blk].sec[d.sec].used
      /\ d.off >= Header(d.sec) /\ d.room >= 0
      /\ d.room = chain'[d.blk].sec[d.sec].n - (d.off - Header(d.sec))
      /\ at = Before(b, Place(s))' + d.off - Header(d.sec)
  BY <1>1, <1>2, <1>3 DEF Stands
<1>5. Before(rd.blk, Place(rd.sec))' = Before(b, Place(s))'
  BY <1>3 DEF Before, Ends, Counts
<1> QED BY <1>3, <1>4, <1>5 DEF PosInv

LEMMA StandsFirst ==
  ASSUME Laid, Counting, NEW b \in 1 .. Tip, NEW d, chain[b].sec[INIT].used,
         d.blk = b, d.sec = INIT, d.open = TRUE, d.off = Header(INIT),
         d.room = chain[b].sec[INIT].n
  PROVE  Stands(d, b, INIT, Ends(b - 1))
<1>1. Place(INIT) = 1 /\ Before(b, 1) = Ends(b - 1) /\ Ends(b - 1) \in Nat
  BY Ordered, BeforeFirst
<1>2. Header(INIT) \in Nat /\ chain[b].sec[INIT].n \in Nat
  BY Geometry, HeadersAre, SpareIs
<1> DEFINE h == Header(INIT)  n == chain[b].sec[INIT].n  e == Ends(b - 1)
<1>3. /\ d.off = h /\ d.room = n /\ h \in Nat /\ n \in Nat /\ e \in Nat
      /\ Before(b, Place(INIT)) = e
  BY <1>1, <1>2
<1> HIDE DEF h, n, e
<1>4. d.off >= h /\ d.room >= 0 /\ d.room = n - (d.off - h) /\ e = e + d.off - h
  BY <1>3
<1> QED BY <1>3, <1>4 DEF Stands, h, n, e

LEMMA OpenReadPos ==
  ASSUME RulesKept, Laid, Counting, PosInv, OpenRead
  PROVE  PosInv'
<1>1. 1 \in 1 .. Tip /\ Tip \in Nat
  BY Sizes DEF Laid, Typed
<1>2. chain[1].sec[INIT].used
  <2>1. Used(1) > 0
    BY RulesAre DEF OpenRead
  <2>2. Filled(1) \in Int /\ Filled(1) > 0
    BY <1>1, <2>1, BlocksAre, Geometry
  <2>3. INIT \in Sectors /\ Place(INIT) = 1
    BY Geometry, Ordered
  <2> QED BY <1>1, <2>2, <2>3, BlocksAre
<1>3. /\ AtBlock(1) \in RdRec /\ AtBlock(1).blk = 1 /\ AtBlock(1).sec = INIT
      /\ AtBlock(1).off = Header(INIT) /\ AtBlock(1).room = chain[1].sec[INIT].n
  BY <1>1, <1>2, AtBlockIs, AtBlockAt
<1> DEFINE a == AtBlock(1)
<1>4. rd' = [ a EXCEPT !.open = TRUE ]
  BY DEF OpenRead
<1> HIDE DEF a
<1>5. /\ rd'.blk = a.blk /\ rd'.sec = a.sec /\ rd'.off = a.off /\ rd'.room = a.room
      /\ rd'.open = TRUE
  BY <1>3, <1>4 DEF RdRec, a
<1>6. Stands(rd', 1, INIT, Ends(1 - 1))
  BY <1>1, <1>2, <1>3, <1>5, StandsFirst DEF a
<1>7. Ends(1 - 1) = 0 /\ pos' = 0
  BY SizesAre DEF OpenRead
<1>8. Stands(rd', 1, INIT, pos')
  BY <1>6, <1>7
<1>9. UNCHANGED writer
  BY DEF OpenRead
<1> QED BY <1>8, <1>9, StandsIs

LEMMA NotReadingPos ==
  ASSUME NotReading
  PROVE  PosInv'
  BY DEF NotReading, NoReader, PosInv

\* A reader that is not moved.
LEMMA StillPos ==
  ASSUME Laid, Counting, PosInv, UNCHANGED writer, UNCHANGED << rd, pos >>, want' # 0 => rd.open
  PROVE  PosInv'
<1>1. UNCHANGED chain /\ wr'.sec = wr.sec
  BY DEF writer
<1>2. Before(rd.blk, Place(rd.sec))' = Before(rd.blk, Place(rd.sec))
  <2>1. PICK b, s : b = rd.blk /\ s = rd.sec
    OBVIOUS
  <2>2. Before(b, Place(s))' = Before(b, Place(s))
    BY <1>1, SameBlocks
  <2>3. rd'.blk = b /\ rd'.sec = s
    BY <2>1
  <2>4. Before(rd.blk, Place(rd.sec))' = Before(b, Place(s))'
    BY <2>3 DEF Before, Ends, Counts
  <2> QED BY <2>1, <2>2, <2>4
<1> QED BY <1>1, <1>2 DEF PosInv

LEMMA AdvancePos ==
  ASSUME Laid, Counting, PosInv, Advance
  PROVE  PosInv'
<1>1. /\ want > 0 /\ rd.open /\ rd.room = 0 /\ UNCHANGED writer /\ UNCHANGED << pos, got >>
  <2>1. want # 0
    BY ReaderIs DEF Advance
  <2> QED BY <2>1 DEF Advance, PosInv
<1>2. PICK b, i, s : b = rd.blk /\ i = Place(rd.sec) /\ s = NextSector(rd.sec)
  OBVIOUS
<1>3. /\ b \in 1 .. Tip /\ i \in Sectors /\ Order[i] = rd.sec /\ i <= Filled(b)
      /\ rd.sec \in Sectors /\ pos = Before(b, i + 1) /\ Tip \in Nat
      /\ rd.sec = TAIL => b < Tip
  BY <1>1, <1>2, ReaderKnows, UsedUp, ReaderIs, BlocksAre
<1>4. CASE UNCHANGED rd
  BY <1>1, <1>4, StillPos
<1>5. CASE rd.sec = TAIL /\ CarriesId(b + 1) /\ rd' = AtBlock(b + 1)
  <2>1. b + 1 \in 1 .. Tip /\ b \in Nat
    BY <1>3, <1>5
  <2>2. chain[b + 1].sec[INIT].used
    BY <1>5 DEF CarriesId
  <2>3. Stands(rd', b + 1, INIT, Ends((b + 1) - 1))
    <3>1. PICK c : c = b + 1
      OBVIOUS
    <3>2. c \in 1 .. Tip /\ chain[c].sec[INIT].used /\ rd' = AtBlock(c)
      BY <1>5, <2>1, <2>2, <3>1
    <3>3. /\ rd'.blk = c /\ rd'.sec = INIT /\ rd'.off = Header(INIT) /\ rd'.open = TRUE
          /\ rd'.room = chain[c].sec[INIT].n
      <4>1. rd.open = TRUE
        BY <1>1, ReaderIs
      <4> QED BY <3>2, <4>1, AtBlockAt
    <3> QED BY <3>1, <3>2, <3>3, StandsFirst
  <2>4. pos' = Ends((b + 1) - 1)
    <3>1. i = LastPlace
      BY <1>2, <1>5, Ordered
    <3>2. Filled(b) = LastPlace
      BY <1>3, <1>5 DEF Filled
    <3>3. Before(b, i + 1) = Ends(b)
      BY <1>3, <3>1, <3>2, BeforeStep
    <3>4. (b + 1) - 1 = b
      BY <2>1
    <3> QED BY <1>1, <1>3, <3>3, <3>4
  <2>5. Stands(rd', b + 1, INIT, pos')
    BY <2>3, <2>4
  <2> QED BY <1>1, <2>5, StandsIs
<1>6. CASE /\ rd.sec # TAIL /\ chain[b].sec[s].used
           /\ rd' = ReaderAt(b, s, DataOffset(s), chain[b].sec[s].n)
  <2> DEFINE h == Header(s)  n == chain[b].sec[s].n  e == Before(b, Place(s))
  <2>1. s \in Sectors /\ Place(s) = i + 1
    BY <1>2, <1>3, <1>6, Ordered
  <2>2. h \in Nat /\ n \in Nat
    BY <1>3, <2>1, HeadersAre, SpareIs
  <2>3. rd' = [ rd EXCEPT !.blk = b, !.sec = s, !.off = h, !.room = n ]
    BY <1>6 DEF ReaderAt, DataOffset
  <2>4. rd \in RdRec /\ rd.open = TRUE
    BY <1>1, ReaderIs
  <2>5. e = pos' /\ e \in Nat
    <3>1. Place(s) \in Sectors
      BY <2>1, Ordered
    <3> QED BY <1>1, <1>3, <2>1, <3>1, BeforeStep
  <2> HIDE DEF h, n, e
  <2>6. /\ rd'.blk = b /\ rd'.sec = s /\ rd'.off = h /\ rd'.room = n /\ rd'.open = TRUE
    BY <2>3, <2>4 DEF RdRec
  <2>7. rd'.off >= h /\ rd'.room >= 0 /\ rd'.room = n - (rd'.off - h) /\ pos' = e + rd'.off - h
    <3>1. h >= h /\ n >= 0 /\ n = n - (h - h) /\ e = e + h - h
      <4>1. h >= h
        BY <2>2
      <4>2. n >= 0
        BY <2>2
      <4>3. n = n - (h - h)
        BY <2>2
      <4>4. e \in Nat
        BY <2>5
      <4>5. e = e + h - h
        BY <2>2, <4>4
      <4> QED BY <4>1, <4>2, <4>3, <4>5
    <3>2. rd'.off = h /\ rd'.room = n /\ pos' = e
      BY <2>5, <2>6
    <3> QED BY <3>1, <3>2, Zenon
  <2>8. Stands(rd', b, s, pos')
    BY <1>6, <2>6, <2>7 DEF Stands, h, n, e
  <2> QED BY <1>1, <2>8, StandsIs
<1> QED BY <1>2, <1>4, <1>5, <1>6 DEF Advance

LEMMA TakePos ==
  ASSUME Laid, Counting, PosInv, Take
  PROVE  PosInv'
<1>1. PICK k : k = Min({ want, rd.room })
  OBVIOUS
<1>2. /\ want \in Nat /\ want > 0 /\ rd.room > 0 /\ rd.room \in Int
  BY ReaderIs DEF Take
<1>3. k \in Nat /\ k > 0 /\ k <= want /\ k <= rd.room
  <2>1. k = IF want <= rd.room THEN want ELSE rd.room
    BY <1>1, <1>2, MinOfTwo
  <2> QED BY <1>2, <2>1
<1>4. rd.open
  BY <1>2 DEF PosInv
<1>5. /\ rd' = [ rd EXCEPT !.off = @ + k, !.room = @ - k ]
      /\ pos' = pos + k /\ want' = want - k /\ UNCHANGED writer
  BY <1>1 DEF Take
<1>6. PICK b, s : b = rd.blk /\ s = rd.sec
  OBVIOUS
<1> DEFINE h == Header(s)  n == chain[b].sec[s].n  e == Before(b, Place(s))
           o == rd.off  r == rd.room
<1>7. /\ chain[b].sec[s].used /\ n \in Nat /\ h \in Nat /\ o \in Int /\ r \in Int
      /\ o >= h /\ r >= 0 /\ r = n - (o - h) /\ e \in Nat /\ pos = e + o - h
  BY <1>4, <1>6, ReaderKnows
<1>8. k <= r
  BY <1>3
<1>9. /\ rd'.blk = b /\ rd'.sec = s /\ rd'.off = o + k /\ rd'.room = r - k /\ rd'.open = TRUE
  BY <1>4, <1>5, <1>6, ReaderIs DEF RdRec
<1> HIDE DEF h, n, e, o, r
<1>10. /\ rd'.off >= h /\ rd'.room >= 0 /\ rd'.room = n - (rd'.off - h)
       /\ pos' = e + rd'.off - h
  BY <1>3, <1>5, <1>7, <1>8, <1>9
<1>11. Stands(rd', b, s, pos')
  BY <1>7, <1>9, <1>10 DEF Stands, h, n, e
<1> QED BY <1>5, <1>11, StandsIs

\* A reader keeps its place when the file grows.
LEMMA CommitPos ==
  ASSUME Laid, Counting, PosInv, NEW k \in Nat, Len(wr.buf) + k <= SectorSize, Commit(k),
         UNCHANGED reader
  PROVE  PosInv'
<1>1. UNCHANGED rd /\ UNCHANGED pos /\ UNCHANGED want
  BY DEF reader
<1>2. SUFFICES ASSUME rd.open
               PROVE  /\ chain'[rd.blk].sec[rd.sec] = chain[rd.blk].sec[rd.sec]
                      /\ Before(rd.blk, Place(rd.sec))' = Before(rd.blk, Place(rd.sec))
  BY <1>1 DEF PosInv
<1>3. PICK t, x, b, i : /\ t = Tip /\ x = Completed(k) /\ b = rd.blk /\ i = Place(rd.sec)
  OBVIOUS
<1>4. Fills(t, x)
  BY <1>3, CommitDoes
<1>5. b \in 1 .. t /\ i \in Sectors /\ Order[i] = rd.sec /\ i <= Filled(b)
  BY <1>2, <1>3, ReaderKnows
<1>6. Filled(b) \in Int /\ i \in Int
  BY <1>3, <1>5, BlocksAre, Geometry
<1>7. chain'[b].sec[Order[i]] = chain[b].sec[Order[i]]
  <2>1. ~ (b = t /\ i = Filled(t) + 1)
    BY <1>5, <1>6
  <2> QED BY <1>4, <1>5, <2>1, FillsSectors
<1>8. Before(b, i)' = Before(b, i)
  <2>1. i <= Filled(b) + 1
    BY <1>5, <1>6
  <2> QED BY <1>4, <1>5, <2>1, FillsBefore
<1>9. Before(rd.blk, Place(rd.sec))' = Before(b, i)'
  <2>1. rd'.blk = b /\ Place(rd'.sec) = i
    BY <1>1, <1>3
  <2> QED BY <2>1 DEF Before, Ends, Counts
<1> QED BY <1>3, <1>5, <1>7, <1>8, <1>9

LEMMA SamePos ==
  ASSUME PosInv, UNCHANGED chain, wr'.sec = wr.sec, UNCHANGED reader
  PROVE  PosInv'
<1>1. UNCHANGED rd /\ UNCHANGED pos /\ UNCHANGED want
  BY DEF reader
<1>2. PICK b, i : b = rd.blk /\ i = Place(rd.sec)
  OBVIOUS
<1>3. Before(b, i)' = Before(b, i)
  BY SameBlocks
<1>4. Before(rd.blk, Place(rd.sec))' = Before(b, i)'
  <2>1. rd'.blk = b /\ Place(rd'.sec) = i
    BY <1>1, <1>2
  <2> QED BY <2>1 DEF Before, Ends, Counts
<1> QED BY <1>1, <1>2, <1>3, <1>4 DEF PosInv

LEMMA WritePos ==
  ASSUME Laid, Counting, PosInv, NEW k \in 1 .. SectorSize, Write(k)
  PROVE  PosInv'
<1>1. UNCHANGED reader /\ k \in Nat
  BY HandleIs DEF Write
<1>2. CASE k < wr.room /\ UNCHANGED << chain, dirty >>
           /\ wr' = Counted([ wr EXCEPT !.buf = @ \o NewBytes(k), !.room = @ - k ], k)
  <2>1. wr'.sec = wr.sec /\ UNCHANGED chain
    BY <1>2, Buffers
  <2> QED BY <1>1, <2>1, SamePos
<1>3. CASE k = wr.room /\ Commit(k)
  <2>1. Len(wr.buf) + k <= SectorSize
    BY <1>3, HandleIs
  <2> QED BY <1>1, <1>3, <2>1, CommitPos
<1> QED BY <1>2, <1>3 DEF Write, Commit

LEMMA FlushPos ==
  ASSUME Laid, Counting, PosInv, CommitSector(0), UNCHANGED reader
  PROVE  PosInv'
<1>1. 0 \in Nat /\ Len(wr.buf) + 0 <= SectorSize
  BY HandleIs
<1> QED BY <1>1, CommitPos DEF Commit

-----------------------------------------------------------------------------
(* Where a seek goes to.                                                   *)

\* The walk believes each block to begin where it begins.
LEMMA CountAtEnds ==
  ASSUME Laid, Counting, NEW p \in Int
  PROVE  \A b \in 1 .. Tip : CountAt(p)[b] = Ends(b - 1)
<1> DEFINE at == CountAt(p)
           T == { k \in 0 .. Tip : k # 0 => at[k] = Ends(k - 1) }
<1>1. Tip \in Nat
  BY BlocksAre
<1>2. /\ at[1] = 0
      /\ \A b \in 1 .. Tip - 1 :
           at[b + 1] = at[b] + IF Skips(b, at[b], p) THEN chain[b].total ELSE SumTo(b, Used(b))
  BY CountAtIs
<1>3. \A b \in 1 .. Tip - 1 : at[b + 1] = at[b] + Held(b)
  <2> TAKE b \in 1 .. Tip - 1
  <2>1. chain[b].total = Held(b)
    BY DEF Counting, TailInv
  <2>2. b \in 1 .. Tip
    BY <1>1
  <2>3. SumTo(b, Used(b)) = Held(b)
    BY <2>2, BlocksAre
  <2> HIDE DEF at
  <2> QED BY <1>2, <2>1, <2>3
<1> HIDE DEF at
<1>4. 0 \in T
  BY <1>1
<1>5. ASSUME NEW k \in 0 .. Tip - 1, k \in T PROVE k + 1 \in T
  <2>1. k + 1 \in 0 .. Tip /\ (k + 1) - 1 = k
    BY <1>1
  <2>2. CASE k = 0
    <3>1. at[k + 1] = 0 /\ Ends((k + 1) - 1) = 0
      BY <1>2, <2>1, <2>2, SizesAre
    <3> QED BY <2>1, <3>1
  <2>3. CASE k # 0
    <3>1. k \in 1 .. Tip - 1 /\ k \in 1 .. Tip
      BY <1>1, <2>3
    <3>2. at[k + 1] = at[k] + Held(k) /\ at[k] = Ends(k - 1)
      BY <1>3, <1>5, <3>1, <2>3
    <3>3. Ends(k) = Ends(k - 1) + Held(k)
      BY <3>1, SizesAre
    <3> QED BY <2>1, <3>2, <3>3
  <2> QED BY <2>2, <2>3
<1>6. 0 .. Tip \subseteq T
  <2> HIDE DEF T
  <2> QED BY <1>1, <1>4, <1>5, UpTo
<1>7. ASSUME NEW b \in 1 .. Tip PROVE at[b] = Ends(b - 1)
  <2>1. b \in 0 .. Tip /\ b # 0
    BY <1>1
  <2> QED BY <1>6, <2>1
<1> QED BY <1>7 DEF at

LEMMA SeekPos ==
  ASSUME RulesKept, Laid, Counting, PosInv, NEW p \in 0 .. MaxBytes, Seek(p)
  PROVE  PosInv'
<1>1. p \in Int /\ pos' = p /\ UNCHANGED writer /\ rd.open /\ rd \in RdRec /\ rd.open = TRUE
  <2>1. p \in Int
    BY Sizes
  <2> QED BY <2>1, ReaderIs DEF Seek
<1>2. PICK c \in Landing(p) :
        /\ Header(c.sec) = 0
        /\ rd' = ReaderAt(c.blk, c.sec, c.off, chain[c.blk].sec[c.sec].n - c.off)
  BY RulesAre DEF Seek
<1>3. PICK b \in 1 .. Tip, i \in Sectors :
        /\ c = [ blk |-> b, sec |-> Order[i],
                 off |-> p - (CountAt(p)[b] + SumTo(b, i - 1)) ]
        /\ Stops(p, b, i)
        /\ \A d \in 1 .. Tip : \A j \in Sectors :
             Stops(p, d, j) => b < d \/ (b = d /\ i <= j)
  BY LandingIs
<1> DEFINE s == Order[i]  n == chain[b].sec[s].n  e == Before(b, i)
           a == CountAt(p)[b]
<1>4. s \in Sectors /\ Place(s) = i /\ s # INIT /\ Header(s) = 0
  <2>1. s \in Sectors /\ Place(s) = i /\ Header(s) = 0
    BY <1>2, <1>3, Ordered
  <2>2. Header(INIT) > 0
    BY HeadersAre, Sizes
  <2> QED BY <2>1, <2>2
<1>5. i \in Nat /\ i > 1 /\ i - 1 \in Sectors /\ i <= LastPlace /\ LastPlace \in Nat
  <2>1. i # 1
    BY <1>4, Ordered
  <2> QED BY <2>1, Geometry
<1>6. /\ chain[b].sec[s].used /\ i <= Used(b) /\ ~ Skips(b, a, p)
  <2>1. i <= Used(b) /\ ~ Skips(b, a, p)
    BY <1>3 DEF Stops
  <2> QED BY <1>4, <2>1, BlocksAre
<1>7. n \in Nat /\ e \in Nat /\ Before(b, i + 1) = e + n /\ b \in Nat
  <2>1. n \in Nat
    BY <1>4, SpareIs
  <2>2. Counts(chain[b])[i] = n
    BY DEF Counts
  <2> QED BY <2>1, <2>2, BeforeStep, BlocksAre
<1>8. e = a + SumTo(b, i - 1) /\ Before(b, i + 1) = a + SumTo(b, i)
  <2>1. a = Ends(b - 1)
    BY <1>1, CountAtEnds
  <2>2. i - 1 \in 0 .. LastPlace /\ i \in 0 .. LastPlace /\ (i + 1) - 1 = i
    BY <1>5
  <2>3. SumTo(b, i - 1) = Total(Counts(chain[b]), i - 1) /\ SumTo(b, i) = Total(Counts(chain[b]), i)
    BY <2>2, SumToIs
  <2> QED BY <2>1, <2>2, <2>3 DEF Before
<1>9. p <= e + n
  <2>1. p <= a + SumTo(b, i)
    BY <1>3 DEF Stops
  <2> QED BY <1>7, <1>8, <2>1
<1>10. p > e
  <2>1. ~ Stops(p, b, i - 1)
    <3>1. ~ (b < b) /\ ~ (i <= i - 1)
      BY <1>5, <1>7
    <3> QED BY <1>3, <1>5, <3>1
  <2>2. i - 1 <= Used(b)
    <3>1. Used(b) \in Int
      BY BlocksAre, Geometry
    <3> QED BY <1>5, <1>6, <3>1
  <2>3. ~ (p <= a + SumTo(b, i - 1))
    BY <1>6, <2>1, <2>2 DEF Stops
  <2>4. ~ (p <= e)
    BY <1>8, <2>3
  <2> QED BY <1>1, <1>7, <2>4
<1>11. c.blk = b /\ c.sec = s /\ c.off = p - e
  BY <1>3, <1>8
<1>12. rd' = ReaderAt(b, s, p - e, n - (p - e))
  BY <1>2, <1>11
<1> HIDE DEF s, n, e, a
<1>13. /\ rd'.blk = b /\ rd'.sec = s /\ rd'.off = p - e /\ rd'.room = n - (p - e)
       /\ rd'.open = TRUE
  BY <1>1, <1>12 DEF ReaderAt, RdRec
<1>14. /\ p - e >= 0 /\ n - (p - e) >= 0 /\ n - (p - e) = n - ((p - e) - 0)
       /\ p = e + (p - e) - 0
  BY <1>1, <1>7, <1>9, <1>10
<1>15. /\ rd'.off >= 0 /\ rd'.room >= 0 /\ rd'.room = n - (rd'.off - 0)
       /\ pos' = e + rd'.off - 0
  BY <1>1, <1>13, <1>14, Zenon
<1>16. Stands(rd', b, s, pos')
  BY <1>4, <1>6, <1>13, <1>15 DEF Stands, s, n, e
<1> QED BY <1>1, <1>16, StandsIs

LEMMA InitPos == Init => PosInv
  BY DEF Init, NoReader, PosInv

LEMMA NextPos ==
  ASSUME RulesKept, Laid, Counting, PosInv, [Next]_vars
  PROVE  PosInv'
<1>1. ASSUME NEW k \in 1 .. SectorSize, Write(k) PROVE PosInv'
  BY <1>1, WritePos
<1>2. CASE ForeignFlush
  BY <1>2, FlushPos DEF ForeignFlush
<1>3. CASE Reopen
  BY <1>3, RulesAre, Reopens, SamePos
<1>4. ASSUME NEW head \in BOOLEAN, Close(head) PROVE PosInv'
  <2>1. UNCHANGED reader
    BY <1>4 DEF Close
  <2>2. CASE CommitSector(0)
    BY <2>1, <2>2, FlushPos
  <2>3. CASE UNCHANGED << chain, wr, dirty >>
    BY <2>1, <2>3, SamePos
  <2> QED BY <1>4, <2>2, <2>3 DEF Close
<1>5. CASE OpenRead
  BY <1>5, OpenReadPos
<1>6. CASE CloseRead
  BY <1>6, NotReadingPos DEF CloseRead
<1>7. ASSUME NEW k \in 1 .. MaxRead, Read(k) PROVE PosInv'
  BY <1>7, StillPos DEF Read
<1>8. CASE Advance
  BY <1>8, AdvancePos
<1>9. CASE Take
  BY <1>9, TakePos
<1>10. ASSUME NEW p \in 0 .. MaxBytes, Seek(p) PROVE PosInv'
  BY <1>10, SeekPos
<1>11. ASSUME NEW p \in 0 .. MaxBytes, SeekFails(p) PROVE PosInv'
  BY <1>11, NotReadingPos DEF SeekFails
<1>12. CASE UNCHANGED vars
  BY <1>12, SamePos DEF vars, writer
<1> QED BY <1>1, <1>2, <1>3, <1>4, <1>5, <1>6, <1>7, <1>8, <1>9, <1>10, <1>11, <1>12 DEF Next

-----------------------------------------------------------------------------
(* The file implements an append-only log.                                 *)

Whole == Laid /\ Counting /\ DataInv /\ PosInv

\* What the state of the log is.
LogIs ==
  /\ Stored = Run(0, Ends(Tip)) /\ Kept = Run(Ends(Tip), Buffered)
  /\ Ends(Tip) \in Nat /\ Buffered \in Nat /\ written = Ends(Tip) + Buffered
  /\ rd.open => pos \in 0 .. Ends(Tip)

LEMMA WholeIs == Whole => LogIs
<1> SUFFICES ASSUME Whole PROVE LogIs
  OBVIOUS
<1>1. /\ Stored = Run(0, Ends(Tip)) /\ Kept = Run(Ends(Tip), Buffered)
      /\ Ends(Tip) \in Nat /\ Buffered \in Nat
  BY StoredIs, KeptIs, LengthsAre DEF Whole
<1>2. written = Ends(Tip) + Buffered
  BY DEF Whole, Counting, HandleInv
<1>3. ASSUME rd.open PROVE pos \in 0 .. Ends(Tip)
  <2> DEFINE e == Before(rd.blk, Place(rd.sec))  n == chain[rd.blk].sec[rd.sec].n
             h == Header(rd.sec)  o == rd.off  f == Before(rd.blk, Place(rd.sec) + 1)
             l == Ends(rd.blk)  m == Ends(Tip)  r == rd.room
  <2>1. /\ e \in Nat /\ n \in Nat /\ h \in Nat /\ o \in Int /\ r \in Int
        /\ o >= h /\ r >= 0 /\ r = n - (o - h) /\ pos = e + o - h /\ f = e + n /\ f <= l
    BY <1>3, ReaderKnows DEF Whole
  <2>2. l <= m /\ m \in Nat /\ l \in Nat
    <3>1. rd.blk \in 1 .. Tip /\ Tip \in Nat
      BY ReaderIs, BlocksAre DEF Whole
    <3>2. rd.blk \in 0 .. Tip
      BY <3>1
    <3> QED BY <1>1, <3>1, <3>2, EndsGrow, SizesAre DEF Whole
  <2> HIDE DEF e, n, h, o, f, l, m, r
  <2>3. pos \in 0 .. m
    BY <2>1, <2>2
  <2> QED BY <2>3 DEF m
<1> QED BY <1>1, <1>2, <1>3 DEF LogIs

LEMMA RunIs ==
  ASSUME NEW a \in Nat, NEW k \in Nat
  PROVE  /\ Run(a, k) \in Seq(Nat) /\ Len(Run(a, k)) = k
         /\ \A i \in 1 .. k : Run(a, k)[i] = a + i
  BY DEF Run

LEMMA RunPart ==
  ASSUME NEW l \in Nat, NEW a \in Nat, NEW k \in Nat, a + k <= l
  PROVE  SubSeq(Run(0, l), a + 1, a + k) = Run(a, k)
<1> DEFINE r == Run(0, l)
<1>1. r \in Seq(Nat) /\ Len(r) = l /\ \A i \in 1 .. l : r[i] = i
  BY DEF Run
<1> HIDE DEF r
<1>2. SubSeq(r, a + 1, a + k) = [ j \in 1 .. k |-> r[a + j] ]
  BY <1>1, SubSeqIs
<1>3. \A j \in 1 .. k : a + j \in 1 .. l
  OBVIOUS
<1>4. SubSeq(r, a + 1, a + k) = [ j \in 1 .. k |-> a + j ]
  BY <1>1, <1>2, <1>3
<1> QED BY <1>4 DEF r, Run

\* Runs from 0 are prefixes of each other.
LEMMA RunPrefix ==
  ASSUME NEW k \in Nat, NEW l \in Nat, k <= l
  PROVE  IsPrefix(Run(0, k), Run(0, l))
<1>1. Len(Run(0, k)) = k /\ Len(Run(0, l)) = l
  BY RunIs
<1>2. SubSeq(Run(0, k), 0 + 1, 0 + k) = Run(0, k) /\ SubSeq(Run(0, l), 0 + 1, 0 + k) = Run(0, k)
  BY RunPart
<1>3. 0 + 1 = 1 /\ 0 + k = k
  OBVIOUS
<1> QED BY <1>1, <1>2, <1>3 DEF IsPrefix

\* A call that writes.
LEMMA WritesLog ==
  ASSUME LogIs, LogIs', want = 0, UNCHANGED reader,
         Ends(Tip) <= Ends(Tip)', written <= written'
  PROVE  Log!Write
<1>1. PICK k, l, u, v : /\ k = Ends(Tip) /\ l = Buffered
                        /\ u = Ends(Tip)' /\ v = Buffered'
  OBVIOUS
<1>2. /\ Stored = Run(0, k) /\ Kept = Run(k, l) /\ k \in Nat /\ l \in Nat /\ written = k + l
      /\ Stored' = Run(0, u) /\ Kept' = Run(u, v) /\ u \in Nat /\ v \in Nat /\ written' = u + v
      /\ k <= u /\ k + l <= u + v
  BY <1>1 DEF LogIs
<1>3. Run(0, k) \o Run(k, l) = Run(0, k + l) /\ Run(0, u) \o Run(u, v) = Run(0, u + v)
  <2>1. 0 + k = k /\ 0 + u = u /\ 0 \in Nat
    BY <1>2
  <2>2. ASSUME NEW c \in Nat, NEW d \in Nat
        PROVE  Run(0, c) \o Run(c, d) = Run(0, c + d)
    <3>1. Run(0, c) \o Run(0 + c, d) = Run(0, c + d)
      BY <2>1, RunConcat
    <3>2. 0 + c = c
      OBVIOUS
    <3> QED BY <3>1, <3>2
  <2> QED BY <1>2, <2>2
<1>4. IsPrefix(Stored, Stored') /\ IsPrefix(Stored \o Kept, Stored' \o Kept')
  <2>1. k + l \in Nat /\ u + v \in Nat
    BY <1>2
  <2> QED BY <1>2, <1>3, <2>1, RunPrefix
<1>5. Stored' \o Kept' = [ i \in 1 .. Len(Stored' \o Kept') |-> i ]
  <2>1. Len(Run(0, u + v)) = u + v
    BY <1>2, RunIs
  <2>2. Run(0, u + v) = [ i \in 1 .. u + v |-> i ]
    BY <1>2 DEF Run
  <2> QED BY <1>2, <1>3, <2>1, <2>2
<1> QED BY <1>4, <1>5 DEF Log!Write, Log!reader, reader, IsPrefix, Log!IsPrefix

\* A commit stores no less than before.
LEMMA CommitGrows ==
  ASSUME Laid, NEW k \in Nat, Len(wr.buf) + k <= SectorSize, Commit(k)
  PROVE  Ends(Tip) <= Ends(Tip)'
<1>1. PICK t, x, e : t = Tip /\ x = Completed(k) /\ e = Ends(Tip)
  OBVIOUS
<1>2. Fills(t, x)
  BY <1>1, CommitDoes
<1>3. Ends(Tip)' = e + x.n
  BY <1>1, <1>2, FillsEnds
<1>4. e \in Nat /\ x.n \in Nat
  <2>1. Tip \in 0 .. Tip
    BY BlocksAre
  <2> QED BY <1>1, <1>2, <2>1, SizesAre DEF Fills
<1> QED BY <1>1, <1>3, <1>4

LEMMA EndsStay ==
  ASSUME Laid, UNCHANGED chain, wr'.sec = wr.sec
  PROVE  Ends(Tip)' = Ends(Tip) /\ Ends(Tip) <= Ends(Tip)'
<1>1. Ends(Tip) \in Nat
  <2>1. Tip \in 0 .. Tip
    BY BlocksAre
  <2> QED BY <2>1, SizesAre
<1> QED BY <1>1, SameBlocks

LEMMA WriteIsLog ==
  ASSUME Whole, LogIs, LogIs', NEW k \in 1 .. SectorSize, Write(k)
  PROVE  Log!Write
<1>1. /\ want = 0 /\ UNCHANGED reader /\ k \in Nat /\ written \in Nat /\ written' = written + k
  BY HandleIs DEF Write, Whole
<1>2. written <= written'
  BY <1>1
<1>3. CASE k < wr.room /\ UNCHANGED << chain, dirty >>
           /\ wr' = Counted([ wr EXCEPT !.buf = @ \o NewBytes(k), !.room = @ - k ], k)
  <2>1. wr'.sec = wr.sec /\ UNCHANGED chain
    BY <1>3, Buffers DEF Whole
  <2> QED BY <1>1, <1>2, <2>1, EndsStay, WritesLog DEF Whole
<1>4. CASE k = wr.room /\ Commit(k)
  <2>1. Len(wr.buf) + k <= SectorSize
    BY <1>4, HandleIs DEF Whole
  <2>2. Ends(Tip) <= Ends(Tip)'
    BY <1>1, <1>4, <2>1, CommitGrows DEF Whole
  <2> QED BY <1>1, <1>2, <2>2, WritesLog
<1> QED BY <1>3, <1>4 DEF Write, Commit

LEMMA FlushIsLog ==
  ASSUME Whole, LogIs, LogIs', CommitSector(0), want = 0, UNCHANGED << written, reader >>
  PROVE  Log!Write
<1>1. 0 \in Nat /\ Len(wr.buf) + 0 <= SectorSize /\ written \in Nat
  BY HandleIs DEF Whole
<1>2. Ends(Tip) <= Ends(Tip)'
  BY <1>1, CommitGrows DEF Whole, Commit
<1>3. written <= written'
  BY <1>1
<1> QED BY <1>2, <1>3, WritesLog

LEMMA KeepIsLog ==
  ASSUME Whole, LogIs, LogIs', UNCHANGED << chain, written, reader >>, wr'.sec = wr.sec, want = 0
  PROVE  Log!Write
<1>1. written <= written' /\ UNCHANGED chain
  BY HandleIs DEF Whole
<1>2. Ends(Tip) <= Ends(Tip)'
  BY <1>1, EndsStay DEF Whole
<1> QED BY <1>1, <1>2, WritesLog

\* A call that only reads leaves the log alone.
LEMMA ReadsLog ==
  ASSUME LogIs, LogIs', UNCHANGED writer
  PROVE  UNCHANGED << Stored, Kept >> /\ Ends(Tip)' = Ends(Tip) /\ Len(Stored) = Ends(Tip)
<1>1. UNCHANGED chain /\ wr'.sec = wr.sec /\ Buffered' = Buffered
  BY DEF writer, Buffered
<1>2. Ends(Tip)' = Ends(Tip)
  BY <1>1, SameBlocks
<1>3. PICK k, l : k = Ends(Tip) /\ l = Buffered
  OBVIOUS
<1>4. Stored = Run(0, k) /\ Kept = Run(k, l) /\ Stored' = Run(0, k) /\ Kept' = Run(k, l) /\ k \in Nat
  BY <1>1, <1>2, <1>3 DEF LogIs
<1>5. Len(Run(0, k)) = k
  BY <1>4, RunIs
<1> QED BY <1>2, <1>3, <1>4, <1>5

LEMMA SeeksLog ==
  ASSUME LogIs, LogIs', UNCHANGED writer, want = 0, want' = 0, got' = << >>,
         rd'.open \/ pos' = 0
  PROVE  Log!Seek
<1>1. UNCHANGED << Stored, Kept >> /\ Ends(Tip)' = Ends(Tip) /\ Len(Stored) = Ends(Tip)
  BY ReadsLog
<1>2. rd'.open => pos' \in 0 .. Ends(Tip)'
  BY DEF LogIs
<1>3. Ends(Tip) \in Nat
  BY DEF LogIs
<1>4. pos' \in 0 .. Len(Stored)
  BY <1>1, <1>2, <1>3
<1> QED BY <1>1, <1>4 DEF Log!Seek, Log!writer

\* The reader takes the bytes that come next.
LEMMA TakeIsLog ==
  ASSUME Whole, LogIs, LogIs', Take
  PROVE  Log!Deliver
<1>1. PICK k : k = Min({ want, rd.room })
  OBVIOUS
<1>2. want \in Nat /\ want > 0 /\ rd.room > 0 /\ rd.room \in Int
  BY ReaderIs DEF Take, Whole
<1>3. k \in 1 .. want /\ k \in Nat /\ k <= rd.room
  <2>1. k = IF want <= rd.room THEN want ELSE rd.room
    BY <1>1, <1>2, MinOfTwo
  <2> QED BY <1>2, <2>1
<1>4. /\ got' = got \o Bytes(rd.blk, rd.sec, rd.off, k)
      /\ pos' = pos + k /\ want' = want - k /\ UNCHANGED writer
  BY <1>1 DEF Take
<1>5. rd.open
  BY <1>2 DEF Whole, PosInv
<1> DEFINE b == rd.blk  i == Place(rd.sec)  x == chain[rd.blk].sec[rd.sec]
           h == Header(rd.sec)  o == rd.off  r == rd.room  e == Before(b, i)
           raw == x.raw  n == x.n  f == Before(b, i + 1)  l == Ends(b)  m == Ends(Tip)
<1>6. /\ b \in 1 .. Tip /\ i \in Sectors /\ Order[i] = rd.sec
      /\ x.used /\ n \in Nat /\ h \in Nat /\ Len(raw) = h + n
      /\ o \in Int /\ r \in Int /\ o >= h /\ r >= 0 /\ r = n - (o - h)
      /\ e \in Nat /\ pos = e + o - h /\ f = e + n /\ f <= l
  BY <1>5, ReaderKnows DEF Whole
<1>7. \A j \in 1 .. n : raw[h + j] = e + j
  <2>1. LET y == chain[b].sec[Order[i]] IN
        y.used => \A j \in 1 .. y.n : y.raw[Header(Order[i]) + j] = Before(b, i) + j
    BY <1>6 DEF Whole, DataInv
  <2> QED BY <1>6, <2>1
<1>8. l <= m /\ m \in Nat /\ l \in Nat
  <2>1. Tip \in Nat
    BY BlocksAre DEF Whole
  <2>2. b \in 0 .. Tip
    BY <1>6, <2>1
  <2> QED BY <1>6, <2>2, EndsGrow, SizesAre DEF Whole, LogIs
<1>9. Bytes(b, rd.sec, o, k) = [ j \in 1 .. k |-> IF o + j <= Len(raw) THEN raw[o + j] ELSE 0 ]
  BY DEF Bytes
<1>10. k <= r
  BY <1>3
<1> HIDE DEF b, i, x, h, o, r, e, raw, n, f, l, m
<1>11. pos \in Nat /\ pos + k <= m
  <2>1. (o - h) + k <= n
    BY <1>3, <1>6, <1>10
  <2>2. e + (o - h) + k <= e + n
    BY <1>3, <1>6, <2>1
  <2> QED BY <1>3, <1>6, <1>8, <2>2
<1>12. \A j \in 1 .. k : o + j <= Len(raw) /\ raw[o + j] = pos + j
  <2> TAKE j \in 1 .. k
  <2> DEFINE d == (o - h) + j
  <2>1. d \in 1 .. n /\ o + j = h + d /\ h + d <= h + n /\ e + d = pos + j
    BY <1>3, <1>6, <1>10
  <2> HIDE DEF d
  <2>2. raw[h + d] = e + d
    BY <1>7, <2>1
  <2> QED BY <1>6, <2>1, <2>2
<1>13. Bytes(b, rd.sec, o, k) = Run(pos, k)
  BY <1>9, <1>12 DEF Run
<1>14. SubSeq(Stored, pos + 1, pos + k) = Run(pos, k)
  <2>1. Stored = Run(0, m)
    BY DEF LogIs, m
  <2> QED BY <1>3, <1>8, <1>11, <2>1, RunPart
<1>15. UNCHANGED << Stored, Kept >> /\ Len(Stored) = Ends(Tip)
  BY <1>4, ReadsLog
<1>16. got' = got \o SubSeq(Stored, pos + 1, pos + k)
  BY <1>4, <1>13, <1>14 DEF b, o
<1>17. pos + k <= Len(Stored)
  BY <1>11, <1>15 DEF m
<1> QED BY <1>3, <1>4, <1>15, <1>16, <1>17 DEF Log!Deliver, Log!writer

\* Only the end of the file stops a reader.
LEMMA AdvanceIsLog ==
  ASSUME Whole, LogIs, LogIs', Advance
  PROVE  Log!End \/ UNCHANGED Log!vars
<1>1. want # 0 /\ rd.open /\ rd.room = 0 /\ UNCHANGED writer /\ UNCHANGED << pos, got >>
  <2>1. want # 0
    BY ReaderIs DEF Advance, Whole
  <2> QED BY <2>1 DEF Advance, PosInv, Whole
<1>2. UNCHANGED << Stored, Kept >> /\ Len(Stored) = Ends(Tip)
  BY <1>1, ReadsLog
<1>3. CASE UNCHANGED want
  BY <1>1, <1>2, <1>3 DEF Log!vars
<1> DEFINE b == rd.blk  i == Place(rd.sec)
<1>4. /\ b \in 1 .. Tip /\ i \in Sectors /\ rd.sec \in Sectors /\ Tip \in Nat
      /\ Order[i] = rd.sec /\ i <= Filled(b) /\ pos = Before(b, i + 1)
      /\ Filled(b) \in 0 .. LastPlace
      /\ rd.sec = TAIL => b < Tip
  BY <1>1, ReaderKnows, UsedUp, ReaderIs, BlocksAre DEF Whole
<1>5. i \in Nat /\ Filled(b) \in Nat /\ LastPlace \in Nat
  BY <1>4, Geometry
<1>6. i = Filled(b) => pos = Ends(b)
  BY <1>4, BeforeStep DEF Whole
<1> HIDE DEF b, i
<1>7. CASE want' = 0 /\ rd.sec = TAIL /\ ~ CarriesId(b + 1)
  <2>1. b < Tip
    BY <1>4, <1>7 DEF b
  <2>2. pos = Ends(b)
    <3>1. Filled(b) = LastPlace
      BY <1>4, <2>1 DEF Filled
    <3>2. i = LastPlace
      BY <1>4, <1>7, Ordered DEF i
    <3> QED BY <1>6, <3>1, <3>2
  <2> DEFINE c == b + 1  y == chain[c].sec[INIT]
  <2>3. c \in 1 .. Tip /\ c - 1 = b
    BY <1>4, <2>1
  <2>4. INIT \in Sectors /\ 1 \in Sectors /\ Order[1] = INIT /\ Place(INIT) = 1
    BY Geometry, Ordered
  <2>5. ~ y.used
    <3> SUFFICES ASSUME y.used PROVE CarriesId(c)
      BY <1>7
    <3> DEFINE z == Zeros(InitHeader)  raw == y.raw
    <3>1. /\ raw \in Seq(Nat) /\ y.n \in Nat /\ InitHeader \in Nat /\ Header(INIT) = InitHeader
      <4>1. raw \in Seq(Nat) /\ y.n \in Nat
        BY <2>3, <2>4, SpareIs DEF Whole
      <4>2. InitHeader \in Nat
        BY Sizes
      <4>3. Header(INIT) = InitHeader
        BY HeadersAre
      <4> QED BY <4>1, <4>2, <4>3
    <3>2. Len(raw) = InitHeader + y.n
      BY <2>3, <2>4, <3>1 DEF Whole, Counting, SpareInv
    <3>3. \A j \in 1 .. InitHeader : raw[j] = 0
      BY <2>3, <2>4, <3>1 DEF Whole, DataInv
    <3>4. z \in Seq(Nat) /\ Len(z) = InitHeader /\ \A j \in 1 .. InitHeader : z[j] = 0
      BY <3>1, HeadersAre
    <3>5. CarriesId(c) <=> y.used /\ IsPrefix(z, raw)
      BY DEF CarriesId
    <3>6. PICK d : d = InitHeader /\ d \in Nat /\ Len(raw) \in Nat /\ d <= Len(raw)
      BY SMTT(30), <3>1, <3>2
    <3> HIDE DEF z, raw, y, c
    <3>7. SubSeq(z, 1, d) = SubSeq(raw, 1, d)
      <4>1. 0 \in Nat /\ d \in Nat /\ 0 + d <= Len(z) /\ 0 + d <= Len(raw)
        BY <3>4, <3>6
      <4>2. /\ SubSeq(z, 0 + 1, 0 + d) = [ j \in 1 .. d |-> z[0 + j] ]
            /\ SubSeq(raw, 0 + 1, 0 + d) = [ j \in 1 .. d |-> raw[0 + j] ]
        BY <3>1, <3>4, <4>1, SubSeqIs
      <4>3. 0 + 1 = 1 /\ 0 + d = d /\ \A j \in 1 .. d : 0 + j = j
        BY <4>1
      <4>4. \A j \in 1 .. d : z[0 + j] = raw[0 + j]
        BY <3>3, <3>4, <3>6, <4>3
      <4>5. SubSeq(z, 0 + 1, 0 + d) = SubSeq(raw, 0 + 1, 0 + d)
        BY <4>2, <4>4
      <4> QED BY <4>3, <4>5
    <3>8. IsPrefix(z, raw)
      BY <3>4, <3>6, <3>7 DEF IsPrefix
    <3> QED BY <3>5, <3>8
  <2>6. Filled(c) = 0
    <3>1. ~ (1 <= Filled(c)) /\ Filled(c) \in 0 .. LastPlace
      BY <2>3, <2>4, <2>5, BlocksAre DEF Whole
    <3> QED BY <1>5, <3>1
  <2>7. c = Tip
    <3>1. ~ (c < Tip)
      BY <2>6, Geometry DEF Filled
    <3> QED BY <1>4, <2>3, <3>1
  <2>8. Ends(Tip) = Ends(b)
    <3>1. Held(c) = 0
      BY <2>6, TotalZero DEF Held
    <3>2. Ends(c) = Ends(c - 1) + Held(c)
      BY <2>3, SizesAre DEF Whole
    <3>3. Ends(Tip) \in Nat
      BY DEF LogIs
    <3>4. PICK a : a = Ends(b)
      OBVIOUS
    <3>5. b \in 0 .. Tip
      BY <1>4
    <3>6. a \in Nat
      BY <3>4, <3>5, SizesAre DEF Whole
    <3> HIDE DEF c
    <3>7. Ends(Tip) = a + 0
      BY <2>3, <2>7, <3>1, <3>2, <3>4
    <3> QED BY <3>4, <3>6, <3>7
  <2> QED BY <1>1, <1>2, <1>7, <2>2, <2>8 DEF Log!End, Log!writer
<1>8. CASE want' = 0 /\ rd.sec # TAIL /\ ~ chain[b].sec[NextSector(rd.sec)].used
  <2>1. NextSector(rd.sec) \in Sectors /\ Place(NextSector(rd.sec)) = i + 1
    BY <1>4, <1>8, Ordered DEF i
  <2>2. ~ (i + 1 <= Filled(b))
    BY <1>4, <1>8, <2>1, BlocksAre DEF Whole
  <2>3. i = Filled(b)
    BY <1>4, <1>5, <2>2
  <2>4. i # LastPlace
    BY <1>4, <1>8, Ordered DEF i
  <2>5. b = Tip
    <3>1. ~ (b < Tip)
      BY <2>3, <2>4 DEF Filled
    <3> QED BY <1>4, <3>1
  <2>6. pos = Ends(Tip)
    BY <1>6, <2>3, <2>5
  <2> QED BY <1>1, <1>2, <1>8, <2>6 DEF Log!End, Log!writer
<1> QED BY <1>3, <1>7, <1>8 DEF Advance, b

LEMMA InitIsLog == Init => Log!Init
<1> SUFFICES ASSUME Init PROVE Log!Init
  OBVIOUS
<1>1. LogIs
  BY InitLaid, InitCounts, InitData, InitPos, WholeIs DEF Whole
<1>2. pos = 0 /\ want = 0 /\ got = << >> /\ written = 0
  BY DEF Init
<1>3. Ends(Tip) = 0 /\ Buffered = 0
  BY <1>1, <1>2 DEF LogIs
<1>4. Run(0, 0) = << >>
  BY DEF Run
<1>5. Stored = << >> /\ Kept = << >>
  BY <1>1, <1>3, <1>4 DEF LogIs
<1> QED BY <1>2, <1>5 DEF Log!Init

LEMMA NextIsLog ==
  ASSUME RulesKept, Whole, LogIs, LogIs', [Next]_vars
  PROVE  [Log!Next]_(Log!vars)
<1>1. ASSUME NEW k \in 1 .. SectorSize, Write(k) PROVE Log!Write
  BY <1>1, WriteIsLog
<1>2. ASSUME ForeignFlush PROVE Log!Write
  BY <1>2, FlushIsLog DEF ForeignFlush
<1>3. ASSUME Reopen PROVE Log!Write
  <2>1. want = 0
    BY <1>3 DEF Reopen
  <2> QED BY <1>3, <2>1, RulesAre, Reopens, KeepIsLog DEF Whole
<1>4. ASSUME NEW head \in BOOLEAN, Close(head) PROVE Log!Write
  <2>1. want = 0 /\ UNCHANGED << written, reader >>
    BY <1>4 DEF Close
  <2>2. CASE CommitSector(0)
    BY <2>1, <2>2, FlushIsLog
  <2>3. CASE UNCHANGED << chain, wr, dirty >>
    <3>1. wr'.sec = wr.sec /\ UNCHANGED << chain, written, reader >>
      BY <2>1, <2>3
    <3> QED BY <2>1, <3>1, KeepIsLog
  <2> QED BY <1>4, <2>2, <2>3 DEF Close
<1>5. ASSUME OpenRead PROVE Log!Seek
  BY <1>5, SeeksLog DEF OpenRead
<1>6. ASSUME CloseRead PROVE Log!Seek
  BY <1>6, SeeksLog DEF CloseRead, NotReading
<1>7. ASSUME NEW k \in 1 .. MaxRead, Read(k) PROVE Log!Ask
  <2>1. UNCHANGED writer
    BY <1>7 DEF Read
  <2>2. UNCHANGED << Stored, Kept >>
    BY <2>1, ReadsLog
  <2>3. k # 0
    BY ReaderIs DEF Whole
  <2> QED BY <1>7, <2>2, <2>3 DEF Read, Log!Ask, Log!writer
<1>8. ASSUME Advance PROVE Log!End \/ UNCHANGED Log!vars
  BY <1>8, AdvanceIsLog
<1>9. ASSUME Take PROVE Log!Deliver
  BY <1>9, TakeIsLog
<1>10. ASSUME NEW p \in 0 .. MaxBytes, Seek(p) PROVE Log!Seek
  <2>1. PICK s, o, b, r : rd' = ReaderAt(b, s, o, r)
    BY <1>10 DEF Seek
  <2>2. rd.open /\ UNCHANGED writer /\ want = 0 /\ want' = 0 /\ got' = << >>
    BY <1>10 DEF Seek
  <2>3. rd'.open = rd.open
    BY <2>1, ReaderIs DEF ReaderAt, RdRec, Whole
  <2> QED BY <2>2, <2>3, SeeksLog
<1>11. ASSUME NEW p \in 0 .. MaxBytes, SeekFails(p) PROVE Log!Seek
  BY <1>11, SeeksLog DEF SeekFails, NotReading
<1>12. ASSUME UNCHANGED vars PROVE UNCHANGED Log!vars
  <2>1. UNCHANGED writer /\ UNCHANGED reader
    BY <1>12 DEF vars
  <2>2. UNCHANGED << Stored, Kept >>
    BY <2>1, ReadsLog
  <2> QED BY <2>1, <2>2 DEF Log!vars, reader
<1> QED BY <1>1, <1>2, <1>3, <1>4, <1>5, <1>6, <1>7, <1>8, <1>9, <1>10, <1>11, <1>12
    DEF Next, Log!Next

LEMMA WholeHolds == RulesKept /\ Spec => []Whole
<1> SUFFICES ASSUME RulesKept PROVE Spec => []Whole
  OBVIOUS
<1>1. Init => Whole
  BY InitLaid, InitCounts, InitData, InitPos DEF Whole
<1>2. Whole /\ [Next]_vars => Whole'
  BY RulesAre, NextLaid, NextCounts, NextData, NextPos DEF Whole
<1> QED BY <1>1, <1>2, PTL DEF Spec

(***************************************************************************)
(* The file implements the append-only log of FlogLog, as long as the      *)
(* application keeps the rules of use: what is stored never changes and    *)
(* is what was written, in order and without a gap, and a reader gets all  *)
(* of it, wherever it started, whatever was appended meanwhile, in files   *)
(* of any size on sectors and blocks of any size (flogfs.c:777-876,        *)
(* 1097-1130, 1390-1491).                                                  *)
(***************************************************************************)
THEOREM FileImplementsLog == RulesKept /\ Spec => ImplementsLog
<1> SUFFICES ASSUME RulesKept PROVE Spec => ImplementsLog
  OBVIOUS
<1>1. Spec => []Whole
  BY WholeHolds
<1>2. Whole => LogIs
  BY WholeIs
<1>3. Init => Log!Init
  BY InitIsLog
<1>4. Whole /\ LogIs /\ LogIs' /\ [Next]_vars => [Log!Next]_(Log!vars)
  BY NextIsLog
<1> QED BY <1>1, <1>2, <1>3, <1>4, PTL DEF Spec, ImplementsLog, Log!Spec

=============================================================================
