-------------------------- MODULE FlogTableProofs --------------------------
(***************************************************************************)
(* Proofs about the inode table, for blocks of any number of pages, any    *)
(* number of blocks and files, and any number of listings.                 *)
(*                                                                         *)
(* The invariant names the chain of inode blocks, and counts the pairs of  *)
(* sectors along it: pair n holds the entry with id n + 1.  An iterator    *)
(* is a number in this count, together with what it has looked up.         *)
(***************************************************************************)
EXTENDS FlogTable, Induction

-----------------------------------------------------------------------------
(* Where the n-th pair is.                                                 *)

Pairs == 2 * PagesPerBlock - 2
Turn(n) == n \div Pairs + 1
Sector(n) == FirstEntry + 2 * (n % Pairs)
Pair(c, n) == flash[c[Turn(n)]].pair[Sector(n)]

-----------------------------------------------------------------------------
(* The invariant.                                                          *)

EntryRec == [ id : 0 .. MaxFiles, name : Name \cup { NoName }, dead : BOOLEAN ]
BlockRec == [ inode : BOOLEAN, index : { 0, 1 }, next : Block \cup { Invalid },
              pair : [ EntrySector -> EntryRec ] ]

Typed ==
  /\ flash \in [ Block -> BlockRec ]
  /\ maxId \in 0 .. MaxFiles /\ full \in BOOLEAN

\* c is the chain of inode blocks, and there are no others.
Chained(c) ==
  /\ c \in Seq(Block) /\ Len(c) \in Nat /\ 0 < Len(c) /\ c[1] = Inode0
  /\ \A j, k \in 1 .. Len(c) : c[j] = c[k] => j = k
  /\ \A k \in 1 .. Len(c) : k > 1 => c[k] # 0
  /\ \A k \in 1 .. Len(c) : flash[c[k]].next = IF k < Len(c) THEN c[k + 1] ELSE ErasedIdx
  /\ \A b \in Block : flash[b].inode <=> \E k \in 1 .. Len(c) : c[k] = b
  /\ \A b \in Block : ~ flash[b].inode => flash[b] = ErasedBlock
  /\ flash[Inode0].index = 0

\* The entries are in the order of their ids, without a gap, and there is an
\* unused one behind them.
Filled(c) ==
  /\ Turn(maxId) <= Len(c)
  /\ ~ full => Len(c) = Turn(maxId)
  /\ \A n \in Nat : Turn(n) <= Len(c) =>
       IF n < maxId THEN Pair(c, n).id = n + 1 /\ Pair(c, n).name \in Name
                    ELSE Pair(c, n) = ErasedEntry

Live(c, n) == n < maxId /\ ~ Pair(c, n).dead

NamedOnce(c) ==
  \A m, n \in Nat : Live(c, m) /\ Live(c, n) /\ Pair(c, m).name = Pair(c, n).name => m = n

TableInv(c) == Typed /\ Chained(c) /\ Filled(c) /\ NamedOnce(c)

\* The iterator that has passed n entries, if the table has not grown a block
\* since it began.
Pos(c, n) ==
  [ block |-> c[Turn(n)],
    next |-> IF Turn(n) = 1 THEN flash[Inode0].next ELSE NextBlock(c[Turn(n)]),
    sector |-> Sector(n), blockIdx |-> 0, idx |-> n ]

\* A listing that has passed n entries.
Stands(c, l, n) ==
  /\ ls[l].it = Pos(c, n)
  /\ \A i \in 1 .. Len(told[l]) : told[l][i] \in 1 .. n
  /\ \A i, j \in 1 .. Len(told[l]) : i < j => told[l][i] < told[l][j]
  /\ \A f \in due[l] :
       /\ f \in 1 .. maxId /\ Live(c, f - 1)
       /\ f <= n \/ ended[l] => \E i \in 1 .. Len(told[l]) : told[l][i] = f

ListOf(c, l) ==
  IF ls[l].on THEN \E n \in 0 .. maxId : Stands(c, l, n)
              ELSE ls[l] = NotListing /\ told[l] = << >> /\ due[l] = {} /\ ~ ended[l]

ListInv(c) == \A l \in Lister : ListOf(c, l)

ListTyped ==
  /\ panic \in BOOLEAN
  /\ ls \in [ Lister -> [ on : BOOLEAN, it : Iterator ] ]
  /\ told \in [ Lister -> Seq(1 .. MaxFiles) ]
  /\ due \in [ Lister -> SUBSET (1 .. MaxFiles) ]
  /\ ended \in [ Lister -> BOOLEAN ]

-----------------------------------------------------------------------------
(* Counting pairs of sectors.                                              *)

LEMMA PairsAre ==
  /\ Pairs \in Nat /\ Pairs >= 2
  /\ LastSector = 2 * Pairs + 3 /\ LastSector \in Nat
  /\ EntrySector = { FirstEntry + 2 * r : r \in 0 .. Pairs - 1 }
<1>1. PagesPerBlock \in Nat /\ PagesPerBlock > 1
  BY TableAssumption
<1>2. Pairs \in Nat /\ Pairs >= 2 /\ LastSector = 2 * Pairs + 3 /\ LastSector \in Nat
  BY <1>1 DEF Pairs, LastSector, SectorsPerPage
<1>3. ASSUME NEW r \in 0 .. Pairs - 1 PROVE FirstEntry + 2 * r \in EntrySector
  <2>1. r \in Nat /\ FirstEntry + 2 * r \in FirstEntry .. LastSector
    BY <1>2 DEF FirstEntry
  <2>2. (4 + 2 * r) % 2 = 0
    BY <2>1
  <2> QED BY <2>1, <2>2 DEF EntrySector, FirstEntry
<1>4. ASSUME NEW s \in EntrySector PROVE \E r \in 0 .. Pairs - 1 : s = FirstEntry + 2 * r
  <2>1. s \in 4 .. LastSector /\ s % 2 = 0 /\ s \in Nat
    BY <1>2 DEF EntrySector, FirstEntry
  <2>2. s = 2 * (s \div 2)
    BY <2>1
  <2> DEFINE r == s \div 2 - 2
  <2>3. r \in 0 .. Pairs - 1
    BY <1>2, <2>1, <2>2
  <2>4. s = FirstEntry + 2 * r
    BY <2>1, <2>2 DEF FirstEntry
  <2> QED BY <2>3, <2>4
<1> QED BY <1>2, <1>3, <1>4

LEMMA Division ==
  ASSUME NEW n \in Nat
  PROVE  /\ n \div Pairs \in Nat /\ n % Pairs \in 0 .. Pairs - 1
         /\ n = Pairs * (n \div Pairs) + (n % Pairs)
<1>1. Pairs \in Nat /\ Pairs > 0
  BY PairsAre
<1> HIDE DEF Pairs
<1> QED BY <1>1

LEMMA DivisionIs ==
  ASSUME NEW q \in Nat, NEW r \in 0 .. Pairs - 1
  PROVE  (Pairs * q + r) \div Pairs = q /\ (Pairs * q + r) % Pairs = r
<1> DEFINE n == Pairs * q + r  d == n \div Pairs  m == n % Pairs
<1>1. Pairs \in Nat /\ Pairs > 0
  BY PairsAre
<1>2. n \in Nat /\ r \in Nat
  <2> HIDE DEF Pairs
  <2> QED BY <1>1
<1>3. d \in Nat /\ m \in 0 .. Pairs - 1 /\ n = Pairs * d + m
  BY <1>2, Division
<1> HIDE DEF Pairs, d, m
<1>4. Pairs * (q - d) = m - r
  BY <1>1, <1>2, <1>3
<1>5. ~ (q > d)
  <2> SUFFICES ASSUME q > d PROVE FALSE
    OBVIOUS
  <2>1. q - d \in Nat /\ q - d >= 1
    BY <1>3
  <2>2. Pairs * (q - d) >= Pairs
    BY <1>1, <2>1
  <2> QED BY <1>1, <1>3, <1>4, <2>2
<1>6. ~ (d > q)
  <2> SUFFICES ASSUME d > q PROVE FALSE
    OBVIOUS
  <2>1. d - q \in Nat /\ d - q >= 1
    BY <1>3
  <2>2. Pairs * (d - q) >= Pairs
    BY <1>1, <2>1
  <2>3. Pairs * (d - q) = r - m
    BY <1>1, <1>2, <1>3
  <2> QED BY <1>1, <1>3, <2>2, <2>3
<1>7. d = q
  BY <1>3, <1>5, <1>6
<1>8. m = r
  BY <1>1, <1>2, <1>3, <1>4, <1>7
<1> QED BY <1>7, <1>8 DEF d, m

(* The pairs of a block follow each other, and then come those of the next *)
(* one.                                                                    *)
LEMMA Places ==
  ASSUME NEW n \in Nat
  PROVE  /\ Turn(n) \in Nat /\ Turn(n) > 0 /\ Sector(n) \in EntrySector
         /\ IF Sector(n) + 2 <= LastSector
              THEN Turn(n + 1) = Turn(n) /\ Sector(n + 1) = Sector(n) + 2
              ELSE /\ Turn(n + 1) = Turn(n) + 1 /\ Sector(n + 1) = FirstEntry
                   /\ Sector(n) = LastSector - 1
<1> DEFINE q == n \div Pairs  r == n % Pairs
<1>1. Pairs \in Nat /\ Pairs > 0 /\ LastSector = 2 * Pairs + 3
  BY PairsAre
<1>2. q \in Nat /\ r \in 0 .. Pairs - 1 /\ n = Pairs * q + r
  BY Division
<1>3. Turn(n) = q + 1 /\ Sector(n) = 4 + 2 * r
  BY DEF Turn, Sector, FirstEntry
<1> HIDE DEF Pairs, q, r
<1>4. Sector(n) \in EntrySector
  BY <1>2, PairsAre DEF Sector, r
<1>5. CASE r < Pairs - 1
  <2>1. r + 1 \in 0 .. Pairs - 1 /\ n + 1 = Pairs * q + (r + 1)
    BY <1>1, <1>2, <1>5
  <2>2. (n + 1) \div Pairs = q /\ (n + 1) % Pairs = r + 1
    BY <1>2, <2>1, DivisionIs
  <2>3. Turn(n + 1) = q + 1 /\ Sector(n + 1) = 4 + 2 * (r + 1)
    BY <2>2 DEF Turn, Sector, FirstEntry
  <2>4. 4 + 2 * r + 2 <= LastSector
    BY <1>1, <1>2, <1>5
  <2> QED BY <1>2, <1>3, <1>4, <2>3, <2>4
<1>6. CASE r = Pairs - 1
  <2>1. 0 \in 0 .. Pairs - 1 /\ q + 1 \in Nat /\ n + 1 = Pairs * (q + 1) + 0
    BY <1>1, <1>2, <1>6
  <2>2. (n + 1) \div Pairs = q + 1 /\ (n + 1) % Pairs = 0
    BY <2>1, DivisionIs
  <2>3. Turn(n + 1) = q + 1 + 1 /\ Sector(n + 1) = FirstEntry
    BY <2>2 DEF Turn, Sector, FirstEntry
  <2>4. ~ (4 + 2 * r + 2 <= LastSector) /\ 4 + 2 * r = LastSector - 1
    BY <1>1, <1>2, <1>6
  <2> QED BY <1>2, <1>3, <1>4, <2>3, <2>4
<1> QED BY <1>1, <1>2, <1>5, <1>6

LEMMA FirstPlace == Turn(0) = 1 /\ Sector(0) = FirstEntry
<1>1. 0 \in Nat /\ 0 \in 0 .. Pairs - 1 /\ Pairs \in Nat
  BY PairsAre
<1> HIDE DEF Pairs
<1>2. Pairs * 0 + 0 = 0
  BY <1>1
<1>3. 0 \div Pairs = 0 /\ 0 % Pairs = 0
  BY <1>1, <1>2, DivisionIs
<1> QED BY <1>3 DEF Turn, Sector, FirstEntry

(* Every pair of every block has a number, and only one.                   *)
LEMMA PlaceOf ==
  ASSUME NEW k \in Nat, k > 0, NEW s \in EntrySector
  PROVE  \E n \in Nat : Turn(n) = k /\ Sector(n) = s
<1>1. PICK r \in 0 .. Pairs - 1 : s = FirstEntry + 2 * r
  BY PairsAre
<1>2. Pairs \in Nat /\ k - 1 \in Nat /\ r \in Nat
  BY PairsAre
<1> HIDE DEF Pairs
<1>3. Pairs * (k - 1) + r \in Nat
  BY <1>2
<1>4. Turn(Pairs * (k - 1) + r) = k /\ Sector(Pairs * (k - 1) + r) = s
  BY <1>1, <1>2, DivisionIs DEF Turn, Sector
<1> QED BY <1>3, <1>4

LEMMA OnePlace ==
  ASSUME NEW m \in Nat, NEW n \in Nat, Turn(m) = Turn(n), Sector(m) = Sector(n)
  PROVE  m = n
<1>1. /\ m \div Pairs \in Nat /\ m % Pairs \in Nat /\ m = Pairs * (m \div Pairs) + (m % Pairs)
      /\ n \div Pairs \in Nat /\ n % Pairs \in Nat /\ n = Pairs * (n \div Pairs) + (n % Pairs)
  BY Division, PairsAre
<1> HIDE DEF Pairs
<1>2. m \div Pairs = n \div Pairs /\ m % Pairs = n % Pairs
  BY <1>1 DEF Turn, Sector, FirstEntry
<1> QED BY <1>1, <1>2

LEMMA TurnsGrow ==
  ASSUME NEW m \in Nat, NEW n \in Nat, m <= n
  PROVE  Turn(m) <= Turn(n)
<1> DEFINE T == { d \in Nat : Turn(m) <= Turn(m + d) }
<1>1. 0 \in T
  BY Places
<1>2. ASSUME NEW d \in T PROVE d + 1 \in T
  <2>1. m + d \in Nat /\ (m + d) + 1 = m + (d + 1) /\ d + 1 \in Nat
    OBVIOUS
  <2>2. Turn(m + d) \in Nat /\ (Turn((m + d) + 1) = Turn(m + d) \/ Turn((m + d) + 1) = Turn(m + d) + 1)
    BY <2>1, Places
  <2>3. Turn(m) \in Nat /\ Turn(m) <= Turn(m + d)
    BY Places
  <2> HIDE DEF T
  <2>4. Turn(m) <= Turn(m + (d + 1))
    BY <2>1, <2>2, <2>3
  <2> QED BY <2>1, <2>4 DEF T
<1>3. T = Nat
  <2> HIDE DEF T
  <2> QED BY <1>1, <1>2, NatInd DEF T
<1> HIDE DEF T
<1>4. n - m \in T /\ m + (n - m) = n
  BY <1>3
<1> QED BY <1>4 DEF T

-----------------------------------------------------------------------------
(* Iterators.                                                              *)

LEMMA Numbers ==
  /\ Block \subseteq Nat /\ 0 \in Block /\ Inode0 \in Block /\ Invalid \notin Block /\ Invalid \notin Nat
  /\ ErasedIdx \in Block \cup { Invalid } /\ (ErasedIdx = 0 \/ ErasedIdx = Invalid)
  /\ FirstEntry \in EntrySector /\ FirstEntry \in Nat /\ LastSector \in Nat
  /\ EntrySector \subseteq Nat
  /\ MaxFiles \in Nat
BY TableAssumption, PairsAre, FirstPlace, Places
   DEF Block, Invalid, ErasedIdx, EntrySector, FirstEntry

LEMMA ChainIs ==
  ASSUME NEW c, Typed, Chained(c), NEW n \in Nat, Turn(n) <= Len(c)
  PROVE  /\ Turn(n) \in 1 .. Len(c) /\ Turn(n) \in Nat /\ c[Turn(n)] \in Block
         /\ flash[c[Turn(n)]].inode
         /\ Pair(c, n) \in EntryRec
<1>1. Turn(n) \in 1 .. Len(c) /\ Turn(n) \in Nat /\ Sector(n) \in EntrySector
  BY Places DEF Chained
<1>2. c[Turn(n)] \in Block
  BY <1>1 DEF Chained
<1>3. flash[c[Turn(n)]].inode
  BY <1>1, <1>2 DEF Chained
<1>4. flash[c[Turn(n)]] \in BlockRec
  BY <1>2 DEF Typed
<1>5. Pair(c, n) \in EntryRec
  BY <1>1, <1>4 DEF Pair, BlockRec
<1> QED BY <1>1, <1>2, <1>3, <1>5

LEMMA NextBlockTyped ==
  ASSUME Typed, NEW b \in Block
  PROVE  NextBlock(b) \in Block \cup { Invalid }
BY DEF Typed, BlockRec, NextBlock

LEMMA PosTyped ==
  ASSUME NEW c, Typed, Chained(c), NEW n \in Nat, Turn(n) <= Len(c)
  PROVE  /\ Pos(c, n) \in Iterator /\ ~ IsStuck(Pos(c, n))
         /\ Entry(Pos(c, n)) = Pair(c, n)
         /\ Pos(c, n).idx = n /\ Pos(c, n).sector = Sector(n) /\ Pos(c, n).blockIdx = 0
         /\ Pos(c, n).block = c[Turn(n)]
<1>1. c[Turn(n)] \in Block /\ Sector(n) \in EntrySector
  BY ChainIs, Places
<1>2. flash[Inode0].next \in Block \cup { Invalid }
  BY Numbers DEF Typed, BlockRec
<1>3. NextBlock(c[Turn(n)]) \in Block \cup { Invalid }
  BY <1>1, NextBlockTyped
<1>4. Pos(c, n) \in Iterator
  BY <1>1, <1>2, <1>3 DEF Pos, Iterator
<1> QED BY <1>1, <1>4, Numbers DEF Pos, IsStuck, Entry, Pair

LEMMA StartIs ==
  ASSUME NEW c, Typed, Chained(c)
  PROVE  IterStart = Pos(c, 0) /\ Turn(0) <= Len(c)
BY FirstPlace DEF IterStart, Pos, Chained

\* What an iterator that is not stale has looked up.
LEMMA LookedUp ==
  ASSUME NEW c, Typed, Chained(c), NEW n \in Nat, Turn(n) + 1 <= Len(c)
  PROVE  Pos(c, n).next = c[Turn(n) + 1] /\ c[Turn(n) + 1] \in Block
<1> DEFINE k == Turn(n)
<1>1. k \in Nat /\ k > 0
  BY Places
<1>2. k \in 1 .. Len(c) /\ k + 1 \in 1 .. Len(c) /\ k < Len(c) /\ k + 1 > 1
  BY <1>1 DEF Chained
<1> HIDE DEF k
<1>3. c[k + 1] \in Block /\ c[k] \in Block /\ c[k + 1] # 0
  BY <1>2 DEF Chained
<1>4. flash[c[k]].next = c[k + 1]
  BY <1>2 DEF Chained
<1>5. c[k + 1] # ErasedIdx
  BY <1>3, Numbers
<1>6. NextBlock(c[k]) = c[k + 1]
  BY <1>4, <1>5 DEF NextBlock
<1>7. k = 1 => c[k] = Inode0
  BY DEF Chained
<1> QED BY <1>3, <1>4, <1>6, <1>7 DEF Pos, k

LEMMA PosNext ==
  ASSUME NEW c, Typed, Chained(c), NEW n \in Nat, Turn(n + 1) <= Len(c)
  PROVE  IterNext(Pos(c, n)) = Pos(c, n + 1)
<1>1. Turn(n) \in Nat /\ Turn(n) > 0 /\ Len(c) \in Nat
  BY Places DEF Chained
<1>2. CASE Sector(n) + 2 <= LastSector
  <2>1. Turn(n + 1) = Turn(n) /\ Sector(n + 1) = Sector(n) + 2
    BY <1>2, Places
  <2> QED BY <1>2, <2>1 DEF IterNext, Pos
<1>3. CASE ~ (Sector(n) + 2 <= LastSector)
  <2>1. Turn(n + 1) = Turn(n) + 1 /\ Sector(n + 1) = FirstEntry
    BY <1>3, Places
  <2> DEFINE i == Pos(c, n)  b == c[Turn(n) + 1]
  <2>2. i.next = b /\ b \in Block /\ b # Invalid
    BY <2>1, LookedUp, Numbers
  <2>3. i.sector = Sector(n)
    BY DEF Pos
  <2>4. IterNext(i) = [ i EXCEPT !.block = i.next, !.next = NextBlock(i.next),
                                 !.sector = FirstEntry, !.idx = @ + 1 ]
    BY <1>3, <2>2, <2>3 DEF IterNext
  <2>5. IterNext(i) = [ block |-> b, next |-> NextBlock(b), sector |-> FirstEntry,
                        blockIdx |-> 0, idx |-> n + 1 ]
    BY ZenonT(30), <2>2, <2>4 DEF Pos
  <2>6. Turn(n + 1) # 1
    BY <1>1, <2>1
  <2> QED BY <2>1, <2>5, <2>6 DEF Pos
<1> QED BY <1>2, <1>3

LEMMA NextTyped ==
  ASSUME Typed, NEW it \in Iterator, ~ IsStuck(it)
  PROVE  IterNext(it) \in Iterator
<1>1. CASE it.sector + 2 <= LastSector
  <2>1. it.sector + 2 \in EntrySector
    <3>1. it.sector \in FirstEntry .. LastSector /\ it.sector % 2 = 0
      BY DEF Iterator, EntrySector
    <3>2. (it.sector + 2) % 2 = 0 /\ it.sector + 2 \in FirstEntry .. LastSector
      BY <1>1, <3>1, Numbers
    <3> QED BY <3>2 DEF EntrySector
  <2>2. IterNext(it) = [ it EXCEPT !.sector = it.sector + 2, !.idx = it.idx + 1 ]
    BY <1>1 DEF IterNext
  <2>3. it.idx + 1 \in Nat
    BY DEF Iterator
  <2> QED BY <2>1, <2>2, <2>3 DEF Iterator
<1>2. CASE ~ (it.sector + 2 <= LastSector) /\ it.next # Invalid
  <2>1. it.next \in Block
    BY <1>2 DEF Iterator
  <2>2. NextBlock(it.next) \in Block \cup { Invalid }
    BY <2>1, NextBlockTyped
  <2>3. it.idx + 1 \in Nat
    BY DEF Iterator
  <2>4. IterNext(it) = [ it EXCEPT !.block = it.next, !.next = NextBlock(it.next),
                                   !.sector = FirstEntry, !.idx = it.idx + 1 ]
    BY <1>2 DEF IterNext
  <2> QED BY <2>1, <2>2, <2>3, <2>4, Numbers DEF Iterator
<1>3. CASE ~ (it.sector + 2 <= LastSector) /\ it.next = Invalid
  BY <1>3 DEF IterNext, Iterator, Stuck
<1> QED BY <1>1, <1>2, <1>3

-----------------------------------------------------------------------------
(* Loops over the table.                                                   *)

\* Where a loop that stops in T is left, from each iterator.
Loop(f, T) == f = [ it \in Iterator |-> IF it \in T THEN it ELSE f[IterNext(it)] ]

\* It stops, at the latest, where the iterator fails.
Bounded(T) == \A it \in Iterator : IsStuck(it) => it \in T

Stepping == [ it \in Iterator |-> IterNext(it) ]

LEMMA LoopIsLeaves ==
  ASSUME NEW f, NEW T
  PROVE  Loop(f, T) <=> Leaves(f, Iterator, Stepping, T)
<1>1. \A it \in Iterator : Stepping[it] = IterNext(it)
  BY DEF Stepping
<1> QED BY <1>1 DEF Loop, Leaves

LEMMA LoopOver ==
  ASSUME Typed, NEW T, Bounded(T)
  PROVE  \E f : Loop(f, T)
<1>1. \A it \in Iterator \ T : Stepping[it] \in Iterator
  BY NextTyped DEF Bounded, Stepping
<1>2. \E f : Leaves(f, Iterator, Stepping, T)
  BY <1>1, LoopExists
<1> QED BY <1>2, LoopIsLeaves

(* The first place where a loop may stop is the one it stops at.           *)
LEMMA LoopFinds ==
  ASSUME NEW c, Typed, Chained(c), NEW T, NEW f, Loop(f, T),
         NEW n \in Nat, NEW m \in Nat, n <= m, Turn(m) <= Len(c), Pos(c, m) \in T
  PROVE  \E k \in n .. m :
           /\ f[Pos(c, n)] = Pos(c, k) /\ Pos(c, k) \in T
           /\ \A j \in n .. k - 1 : Pos(c, j) \notin T
<1> DEFINE Q == { k \in Nat : n <= k /\ Pos(c, k) \in T }
<1>1. PICK k \in Q : \A j \in Q : k <= j
  <2>1. Q \subseteq Nat /\ Q # {}
    OBVIOUS
  <2> HIDE DEF Q
  <2> QED BY <2>1, MinNat
<1>2. k \in n .. m /\ Pos(c, k) \in T /\ \A j \in n .. k - 1 : Pos(c, j) \notin T
  <2>1. k \in Nat /\ n <= k /\ Pos(c, k) \in T /\ k <= m
    BY <1>1
  <2>2. ASSUME NEW j \in n .. k - 1 PROVE Pos(c, j) \notin T
    <3>1. j \in Nat /\ n <= j /\ ~ (k <= j)
      BY <2>1
    <3>2. j \notin Q
      BY <1>1, <3>1
    <3> QED BY <3>1, <3>2
  <2> QED BY <2>1, <2>2
<1> HIDE DEF Q
<1> DEFINE S == { d \in Nat : d <= k - n => f[Pos(c, k - d)] = Pos(c, k) }
<1>3. \A j \in n .. k : Turn(j) <= Len(c) /\ Pos(c, j) \in Iterator
  <2> SUFFICES ASSUME NEW j \in n .. k PROVE Turn(j) <= Len(c) /\ Pos(c, j) \in Iterator
    OBVIOUS
  <2>1. j \in Nat /\ j <= m
    BY <1>2
  <2>2. Turn(j) \in Nat /\ Turn(m) \in Nat /\ Turn(j) <= Turn(m) /\ Len(c) \in Nat
    BY <2>1, TurnsGrow, Places DEF Chained
  <2> QED BY <2>1, <2>2, PosTyped
<1>4. 0 \in S
  <2>1. k \in n .. k /\ k - 0 = k
    BY <1>2
  <2>2. f[Pos(c, k)] = Pos(c, k)
    BY <1>2, <1>3, <2>1 DEF Loop
  <2> QED BY <2>1, <2>2
<1>5. ASSUME NEW d \in S PROVE d + 1 \in S
  <2>1. d \in Nat /\ (d <= k - n => f[Pos(c, k - d)] = Pos(c, k))
    OBVIOUS
  <2>2. ASSUME d + 1 <= k - n PROVE f[Pos(c, k - (d + 1))] = Pos(c, k)
    <3> DEFINE j == k - (d + 1)
    <3>1. j \in n .. k /\ j \in n .. k - 1 /\ j + 1 = k - d /\ j + 1 \in n .. k /\ j \in Nat
          /\ d <= k - n
      BY <1>2, <2>1, <2>2
    <3>2. f[Pos(c, j + 1)] = Pos(c, k)
      BY <2>1, <3>1
    <3> HIDE DEF j
    <3>3. Turn(j + 1) <= Len(c) /\ Pos(c, j) \in Iterator /\ Pos(c, j) \notin T
      BY <1>2, <1>3, <3>1
    <3>4. IterNext(Pos(c, j)) = Pos(c, j + 1)
      BY <3>1, <3>3, PosNext
    <3>5. f[Pos(c, j)] = Pos(c, k)
      BY <3>2, <3>3, <3>4 DEF Loop
    <3> QED BY <3>5 DEF j
  <2>3. d + 1 \in Nat
    BY <2>1
  <2> QED BY <2>2, <2>3
<1>6. S = Nat
  <2> HIDE DEF S
  <2> QED BY <1>4, <1>5, NatInd DEF S
<1>7. k - n \in S /\ k - (k - n) = n /\ k - n <= k - n
  <2>1. k - n \in Nat /\ k - (k - n) = n
    BY <1>2
  <2> HIDE DEF S
  <2> QED BY <1>6, <2>1
<1>8. f[Pos(c, n)] = Pos(c, k)
  BY <1>7
<1> QED BY <1>2, <1>8

(* Every loop over the table ends, wherever the iterator stands and        *)
(* however stale it is: a block has fewer behind it than the one before.   *)
LEMMA ChainEnds ==
  ASSUME NEW c, Typed, Chained(c)
  PROVE  \E rest \in [ Block -> Nat ] :
           \A b \in Block : NextBlock(b) # Invalid =>
             NextBlock(b) \in Block /\ rest[NextBlock(b)] + 1 = rest[b]
<1> DEFINE l == Len(c)
           At(b) == CHOOSE k \in 1 .. l : c[k] = b
           rest == [ b \in Block |-> IF flash[b].inode THEN l - At(b) ELSE 0 ]
<1>1. l \in Nat
  BY DEF Chained
<1>2. ASSUME NEW b \in Block, flash[b].inode PROVE At(b) \in 1 .. l /\ c[At(b)] = b
  BY <1>2 DEF Chained
<1>3. ASSUME NEW k \in 1 .. l PROVE c[k] \in Block /\ flash[c[k]].inode /\ At(c[k]) = k
  <2>1. c[k] \in Block /\ flash[c[k]].inode
    BY DEF Chained
  <2>2. At(c[k]) \in 1 .. l /\ c[At(c[k])] = c[k]
    BY <1>2, <2>1
  <2> HIDE DEF At
  <2> QED BY <2>1, <2>2 DEF Chained
<1>4. rest \in [ Block -> Nat ]
  <2>1. ASSUME NEW b \in Block, flash[b].inode PROVE l - At(b) \in Nat
    <3>1. At(b) \in 1 .. l
      BY <1>2, <2>1
    <3> HIDE DEF At
    <3> QED BY <1>1, <3>1
  <2> HIDE DEF At
  <2> QED BY <2>1
<1>5. ASSUME NEW b \in Block, NextBlock(b) # Invalid
      PROVE  NextBlock(b) \in Block /\ rest[NextBlock(b)] + 1 = rest[b]
  <2>1. flash[b].next # ErasedIdx /\ NextBlock(b) = flash[b].next
    BY <1>5 DEF NextBlock
  <2>2. flash[b].inode
    <3>1. ErasedBlock.next = ErasedIdx
      BY DEF ErasedBlock
    <3> QED BY <2>1, <3>1 DEF Chained
  <2>3. PICK k \in 1 .. l : c[k] = b
    BY <2>2 DEF Chained
  <2>4. k < l /\ NextBlock(b) = c[k + 1]
    BY <2>1, <2>3 DEF Chained
  <2>5. k + 1 \in 1 .. l
    BY <1>1, <2>3, <2>4
  <2>6. At(b) = k /\ At(c[k + 1]) = k + 1 /\ c[k + 1] \in Block /\ flash[c[k + 1]].inode
    BY <1>3, <2>3, <2>5
  <2> HIDE DEF At
  <2>7. rest[b] = l - k /\ rest[c[k + 1]] = l - (k + 1)
    BY <2>2, <2>6
  <2> HIDE DEF rest
  <2> QED BY <1>1, <2>4, <2>6, <2>7
<1> HIDE DEF rest
<1> QED BY <1>4, <1>5

LEMMA LoopStops ==
  ASSUME NEW c, Typed, Chained(c), NEW T, NEW f, Bounded(T), Loop(f, T), NEW it \in Iterator
  PROVE  f[it] \in Iterator /\ f[it] \in T
<1>1. PICK rest \in [ Block -> Nat ] :
        \A b \in Block : NextBlock(b) # Invalid =>
          NextBlock(b) \in Block /\ rest[NextBlock(b)] + 1 = rest[b]
  BY ChainEnds
<1> DEFINE W == LastSector + 1
           ahead(i) == IF i.next = Invalid THEN 0 ELSE rest[i.next] + 1
           left == [ i \in Iterator |->
                       IF IsStuck(i) THEN 0 ELSE W * ahead(i) + (W - i.sector) ]
<1>2. W \in Nat /\ W > 0
  BY Numbers
<1>3. ASSUME NEW i \in Iterator
      PROVE  /\ ahead(i) \in Nat /\ i.sector \in Nat /\ FirstEntry <= i.sector
             /\ W - i.sector \in Nat /\ W - i.sector > 0
  <2>1. ahead(i) \in Nat
    BY <1>1 DEF Iterator
  <2>2. i.sector \in FirstEntry .. LastSector
    BY DEF Iterator, EntrySector
  <2> QED BY <2>1, <2>2, Numbers
<1>4. left \in [ Iterator -> Nat ]
  <2>1. ASSUME NEW i \in Iterator PROVE W * ahead(i) + (W - i.sector) \in Nat
    <3> HIDE DEF W, ahead
    <3> QED BY <1>2, <1>3
  <2> HIDE DEF W, ahead
  <2> QED BY <2>1
<1>5. ASSUME NEW i \in Iterator \ T PROVE IterNext(i) \in Iterator /\ left[IterNext(i)] < left[i]
  <2> DEFINE j == IterNext(i)
  <2>1. ~ IsStuck(i) /\ j \in Iterator
    BY NextTyped DEF Bounded
  <2>2. left[i] = W * ahead(i) + (W - i.sector)
    BY <2>1
  <2>3. left[j] = IF IsStuck(j) THEN 0 ELSE W * ahead(j) + (W - j.sector)
    BY <2>1
  <2>4. ASSUME IsStuck(j) PROVE left[j] < left[i]
    <3> HIDE DEF W, ahead, j, left
    <3> QED BY <1>2, <1>3, <2>2, <2>3, <2>4
  <2>5. ASSUME ~ IsStuck(j) /\ i.sector + 2 <= LastSector PROVE left[j] < left[i]
    <3>1. j = [ i EXCEPT !.sector = i.sector + 2, !.idx = i.idx + 1 ]
      BY <2>5 DEF IterNext
    <3>2. j.next = i.next /\ j.sector = i.sector + 2
      BY <3>1 DEF Iterator
    <3>3. ahead(j) = ahead(i)
      BY <3>2
    <3>4. W - j.sector < W - i.sector /\ W - j.sector \in Int
      BY <1>2, <1>3, <3>2
    <3> HIDE DEF W, ahead, j, left
    <3> QED BY <1>2, <1>3, <2>2, <2>3, <2>5, <3>3, <3>4
  <2>6. ASSUME ~ IsStuck(j) /\ ~ (i.sector + 2 <= LastSector) PROVE left[j] < left[i]
    <3>1. i.next # Invalid
      BY <2>6 DEF IterNext, IsStuck, Stuck, Iterator
    <3>2. j = [ i EXCEPT !.block = i.next, !.next = NextBlock(i.next),
                         !.sector = FirstEntry, !.idx = i.idx + 1 ]
      BY <2>6, <3>1 DEF IterNext
    <3>3. j.next = NextBlock(i.next) /\ j.sector = FirstEntry /\ i.next \in Block
      BY <3>1, <3>2 DEF Iterator
    <3>4. ahead(i) = rest[i.next] + 1 /\ rest[i.next] \in Nat
      BY <1>1, <3>1, <3>3
    <3>5. ahead(j) <= rest[i.next]
      BY <1>1, <3>3, <3>4
    <3>6. W * ahead(j) + W <= W * ahead(i)
      <4> DEFINE a == ahead(j)  b == ahead(i)
      <4>1. a \in Nat /\ b \in Nat /\ a + 1 <= b
        BY <1>3, <2>1, <3>4, <3>5
      <4> HIDE DEF W, a, b
      <4>2. W * (b - a) >= W
        BY <1>2, <4>1
      <4> QED BY <1>2, <4>1, <4>2 DEF a, b
    <3>7. W - j.sector < W /\ W - i.sector > 0
      BY <1>2, <1>3, <3>3 DEF FirstEntry
    <3>8. W * ahead(j) \in Int /\ W * ahead(i) \in Int /\ W - j.sector \in Int /\ W - i.sector \in Int
      <4> HIDE DEF W, ahead, j
      <4> QED BY <1>2, <1>3, <2>1
    <3> DEFINE p == W * ahead(j)  q == W * ahead(i)  s == W - j.sector  t == W - i.sector
    <3>9. left[j] = p + s /\ left[i] = q + t
      BY <2>2, <2>3, <2>6
    <3>10. p + W <= q /\ s < W /\ t > 0 /\ p \in Int /\ q \in Int /\ s \in Int /\ t \in Int
      BY <3>6, <3>7, <3>8
    <3> HIDE DEF W, p, q, s, t, j, left
    <3>11. left[j] < left[i]
      BY <1>2, <3>9, <3>10
    <3> QED BY <3>11 DEF j
  <2>7. left[j] < left[i]
    BY <2>4, <2>5, <2>6
  <2> QED BY <2>1, <2>7
<1> HIDE DEF left
<1>6. \A i \in Iterator \ T : Stepping[i] \in Iterator /\ left[Stepping[i]] < left[i]
  BY <1>5 DEF Stepping
<1>7. Leaves(f, Iterator, Stepping, T)
  BY LoopIsLeaves
<1> QED BY <1>4, <1>6, <1>7, LoopEnds

-----------------------------------------------------------------------------
(* What the loops of the calls find.                                       *)

LEMMA EntryAtIs ==
  ASSUME NEW c, Typed, Chained(c), NEW n \in Nat, Turn(n) <= Len(c)
  PROVE  EntryAt(n) = Pair(c, n)
<1> DEFINE T == { it \in Iterator : IsStuck(it) \/ it.idx = n }
           E(f) == [ it \in Iterator |->
                       IF IsStuck(it) \/ it.idx = n THEN it ELSE f[IterNext(it)] ]
           g == CHOOSE f : f = E(f)
<1>1. EntryAt(n) = Entry(g[IterStart])
  BY DEF EntryAt, FirstIn
<1>2. \A f : E(f) = [ it \in Iterator |-> IF it \in T THEN it ELSE f[IterNext(it)] ]
  OBVIOUS
<1>3. \E f : Loop(f, T)
  BY LoopOver DEF Bounded
<1>4. \E f : f = E(f)
  BY <1>2, <1>3 DEF Loop
<1>5. Loop(g, T)
  <2> HIDE DEF E, T
  <2>1. g = E(g)
    BY <1>4
  <2> QED BY <1>2, <2>1 DEF Loop
<1> HIDE DEF g
<1>6. Pos(c, n) \in T
  BY PosTyped
<1>7. 0 <= n /\ IterStart = Pos(c, 0)
  BY StartIs
<1> HIDE DEF T
<1>8. PICK k \in 0 .. n : g[IterStart] = Pos(c, k) /\ Pos(c, k) \in T
  BY <1>5, <1>6, <1>7, LoopFinds
<1>9. k \in Nat /\ Turn(k) <= Len(c)
  <2>1. k \in Nat /\ k <= n
    OBVIOUS
  <2>2. Turn(k) <= Turn(n) /\ Turn(k) \in Nat /\ Turn(n) \in Nat /\ Len(c) \in Nat
    BY <2>1, TurnsGrow, Places DEF Chained
  <2> QED BY <2>1, <2>2
<1>10. k = n
  BY <1>8, <1>9, PosTyped DEF T
<1>11. Entry(Pos(c, n)) = Pair(c, n)
  BY PosTyped
<1> QED BY <1>1, <1>8, <1>10, <1>11

\* Up to the first unused entry the table is filled.
LEMMA FilledIs ==
  ASSUME NEW c, Typed, Chained(c), Filled(c), NEW n \in 0 .. maxId
  PROVE  /\ n \in Nat /\ maxId \in Nat /\ Turn(n) <= Len(c)
         /\ n < maxId => Pair(c, n).id = n + 1 /\ Pair(c, n).name \in Name
         /\ n = maxId => Pair(c, n) = ErasedEntry
         /\ Unused(Pos(c, n)) <=> n = maxId
         /\ ~ Gone(Pos(c, n)) <=> ~ Pair(c, n).dead
         /\ Live(c, n) <=> n # maxId /\ ~ Pair(c, n).dead
<1>1. maxId \in Nat /\ n \in Nat /\ n <= maxId
  BY Numbers DEF Typed
<1>2. Turn(n) <= Len(c)
  <2>1. Turn(n) <= Turn(maxId) /\ Turn(n) \in Nat /\ Turn(maxId) \in Nat /\ Len(c) \in Nat
    BY <1>1, TurnsGrow, Places DEF Chained
  <2> QED BY <2>1 DEF Filled
<1>3. /\ n < maxId => Pair(c, n).id = n + 1 /\ Pair(c, n).name \in Name
      /\ n = maxId => Pair(c, n) = ErasedEntry
  BY <1>1, <1>2 DEF Filled
<1>4. Entry(Pos(c, n)) = Pair(c, n)
  BY <1>1, <1>2, PosTyped
<1>5. Unused(Pos(c, n)) <=> n = maxId
  <2>1. n < maxId => n + 1 # 0
    BY <1>1
  <2> QED BY <1>1, <1>3, <1>4, <2>1 DEF Unused, ErasedEntry
<1>6. Live(c, n) <=> n # maxId /\ ~ Pair(c, n).dead
  BY <1>1 DEF Live
<1> QED BY <1>1, <1>2, <1>3, <1>4, <1>5, <1>6 DEF Gone

\* The live entry of the name, or the first unused one.
LEMMA FindIs ==
  ASSUME NEW c, Typed, Chained(c), Filled(c), NEW nm
  PROVE  \E k \in 0 .. maxId :
           /\ Find(nm) = Pos(c, k)
           /\ k = maxId \/ (Live(c, k) /\ Pair(c, k).name = nm)
           /\ \A j \in 0 .. k - 1 : ~ (Live(c, j) /\ Pair(c, j).name = nm)
<1> DEFINE P(it) == IsStuck(it) \/ (Unused(it) \/ (Entry(it).name = nm /\ ~ Gone(it)))
           T == { it \in Iterator : P(it) }
           E(f) == [ it \in Iterator |-> IF P(it) THEN it ELSE f[IterNext(it)] ]
           g == CHOOSE f : f = E(f)
<1>1. Find(nm) = g[IterStart]
  BY DEF Find, FirstIn
<1>2. \A f : E(f) = [ it \in Iterator |-> IF it \in T THEN it ELSE f[IterNext(it)] ]
  OBVIOUS
<1>3. \E f : Loop(f, T)
  BY LoopOver DEF Bounded
<1>4. \E f : f = E(f)
  BY <1>2, <1>3 DEF Loop
<1>5. Loop(g, T)
  <2> HIDE DEF E, T
  <2>1. g = E(g)
    BY <1>4
  <2> QED BY <1>2, <2>1 DEF Loop
<1> HIDE DEF g, E
<1>6. ASSUME NEW j \in 0 .. maxId
      PROVE  Pos(c, j) \in T <=> j = maxId \/ (Live(c, j) /\ Pair(c, j).name = nm)
  <2>1. Unused(Pos(c, j)) <=> j = maxId
    BY FilledIs
  <2>2. (~ Gone(Pos(c, j)) <=> ~ Pair(c, j).dead) /\ (Live(c, j) <=> j # maxId /\ ~ Pair(c, j).dead)
    BY FilledIs
  <2>3. Pos(c, j) \in Iterator /\ ~ IsStuck(Pos(c, j)) /\ Entry(Pos(c, j)) = Pair(c, j)
    BY FilledIs, PosTyped
  <2> QED BY <2>1, <2>2, <2>3
<1> HIDE DEF T
<1>7. maxId \in Nat /\ 0 <= maxId /\ maxId \in 0 .. maxId
  BY Numbers DEF Typed
<1>8. Turn(maxId) <= Len(c) /\ IterStart = Pos(c, 0) /\ Pos(c, maxId) \in T
  BY <1>6, <1>7, StartIs DEF Filled
<1>9. PICK k \in 0 .. maxId : /\ g[Pos(c, 0)] = Pos(c, k) /\ Pos(c, k) \in T
                              /\ \A j \in 0 .. k - 1 : Pos(c, j) \notin T
  BY <1>5, <1>7, <1>8, LoopFinds
<1>10. \A j \in 0 .. k - 1 : ~ (Live(c, j) /\ Pair(c, j).name = nm)
  <2> SUFFICES ASSUME NEW j \in 0 .. k - 1 PROVE ~ (Live(c, j) /\ Pair(c, j).name = nm)
    OBVIOUS
  <2>1. j \in 0 .. maxId
    BY <1>7
  <2> QED BY <1>6, <1>9, <2>1
<1>11. k = maxId \/ (Live(c, k) /\ Pair(c, k).name = nm)
  BY <1>6, <1>9
<1> QED BY <1>1, <1>8, <1>9, <1>10, <1>11

\* The next live entry, or the first unused one.
LEMMA NextToTellIs ==
  ASSUME NEW c, Typed, Chained(c), Filled(c), NEW n \in 0 .. maxId
  PROVE  \E k \in n .. maxId :
           /\ NextToTell(Pos(c, n)) = Pos(c, k)
           /\ k = maxId \/ Live(c, k)
           /\ \A j \in n .. k - 1 : ~ Live(c, j)
<1> DEFINE P(it) == IsStuck(it) \/ (Unused(it) \/ ~ Gone(it))
           T == { it \in Iterator : P(it) }
           E(f) == [ it \in Iterator |-> IF P(it) THEN it ELSE f[IterNext(it)] ]
           g == CHOOSE f : f = E(f)
<1>1. NextToTell(Pos(c, n)) = g[Pos(c, n)]
  BY DEF NextToTell, FirstIn
<1>2. \A f : E(f) = [ it \in Iterator |-> IF it \in T THEN it ELSE f[IterNext(it)] ]
  OBVIOUS
<1>3. \E f : Loop(f, T)
  BY LoopOver DEF Bounded
<1>4. \E f : f = E(f)
  BY <1>2, <1>3 DEF Loop
<1>5. Loop(g, T)
  <2> HIDE DEF E, T
  <2>1. g = E(g)
    BY <1>4
  <2> QED BY <1>2, <2>1 DEF Loop
<1> HIDE DEF g, E
<1>6. ASSUME NEW j \in 0 .. maxId
      PROVE  Pos(c, j) \in T <=> j = maxId \/ Live(c, j)
  <2>1. Unused(Pos(c, j)) <=> j = maxId
    BY FilledIs
  <2>2. (~ Gone(Pos(c, j)) <=> ~ Pair(c, j).dead) /\ (Live(c, j) <=> j # maxId /\ ~ Pair(c, j).dead)
    BY FilledIs
  <2>3. Pos(c, j) \in Iterator /\ ~ IsStuck(Pos(c, j))
    BY FilledIs, PosTyped
  <2> QED BY <2>1, <2>2, <2>3
<1> HIDE DEF T
<1>7. maxId \in Nat /\ n \in Nat /\ n <= maxId /\ maxId \in 0 .. maxId
  BY Numbers DEF Typed
<1>8. Turn(maxId) <= Len(c) /\ Pos(c, maxId) \in T
  BY <1>6, <1>7 DEF Filled
<1>9. PICK k \in n .. maxId : /\ g[Pos(c, n)] = Pos(c, k) /\ Pos(c, k) \in T
                              /\ \A j \in n .. k - 1 : Pos(c, j) \notin T
  BY <1>5, <1>7, <1>8, LoopFinds
<1>10. \A j \in n .. k - 1 : ~ Live(c, j)
  <2> SUFFICES ASSUME NEW j \in n .. k - 1 PROVE ~ Live(c, j)
    OBVIOUS
  <2>1. j \in 0 .. maxId
    BY <1>7
  <2> QED BY <1>6, <1>9, <2>1
<1>11. k = maxId \/ Live(c, k)
  <2>1. k \in 0 .. maxId
    BY <1>7
  <2> QED BY <1>6, <1>9, <2>1
<1> QED BY <1>1, <1>9, <1>10, <1>11

LEMMA NextToTellTyped ==
  ASSUME NEW c, Typed, Chained(c), NEW i \in Iterator
  PROVE  NextToTell(i) \in Iterator
<1> DEFINE P(it) == IsStuck(it) \/ (Unused(it) \/ ~ Gone(it))
           T == { it \in Iterator : P(it) }
           E(f) == [ it \in Iterator |-> IF P(it) THEN it ELSE f[IterNext(it)] ]
           g == CHOOSE f : f = E(f)
<1>1. NextToTell(i) = g[i]
  BY DEF NextToTell, FirstIn
<1>2. \A f : E(f) = [ it \in Iterator |-> IF it \in T THEN it ELSE f[IterNext(it)] ]
  OBVIOUS
<1>3. Bounded(T)
  BY DEF Bounded
<1>4. \E f : f = E(f)
  <2>1. \E f : Loop(f, T)
    BY <1>3, LoopOver
  <2> QED BY <1>2, <2>1 DEF Loop
<1>5. Loop(g, T)
  <2> HIDE DEF E, T
  <2>1. g = E(g)
    BY <1>4
  <2> QED BY <1>2, <2>1 DEF Loop
<1> HIDE DEF g, E, T
<1> QED BY <1>1, <1>3, <1>5, LoopStops

-----------------------------------------------------------------------------
(* The chain, when the table is written.                                   *)

\* Nothing happens to blocks that are not inode blocks, nor to the chain.
ChainStays ==
  /\ flash' \in [ Block -> BlockRec ]
  /\ \A b \in Block :
       /\ flash'[b].inode = flash[b].inode /\ flash'[b].index = flash[b].index
       /\ flash'[b].next = flash[b].next
       /\ ~ flash[b].inode => flash'[b] = flash[b]

LEMMA StaysChained ==
  ASSUME NEW c, Typed, Chained(c), ChainStays
  PROVE  /\ Chained(c)'
         /\ \A n \in Nat : Turn(n) <= Len(c) => Pos(c, n)' = Pos(c, n)
<1>1. \A k \in 1 .. Len(c) : c[k] \in Block
  BY DEF Chained
<1>2. Inode0 \in Block
  BY Numbers
<1>3. Chained(c)'
  <2>1. \A k \in 1 .. Len(c) : flash'[c[k]].next = IF k < Len(c) THEN c[k + 1] ELSE ErasedIdx
    BY <1>1 DEF Chained, ChainStays
  <2>2. \A b \in Block : flash'[b].inode <=> \E k \in 1 .. Len(c) : c[k] = b
    BY DEF Chained, ChainStays
  <2>3. \A b \in Block : ~ flash'[b].inode => flash'[b] = ErasedBlock
    BY DEF Chained, ChainStays
  <2>4. flash'[Inode0].index = 0
    BY <1>2 DEF Chained, ChainStays
  <2> QED BY <2>1, <2>2, <2>3, <2>4 DEF Chained
<1>4. ASSUME NEW n \in Nat, Turn(n) <= Len(c) PROVE Pos(c, n)' = Pos(c, n)
  <2>1. c[Turn(n)] \in Block
    BY <1>4, ChainIs
  <2>2. NextBlock(c[Turn(n)])' = NextBlock(c[Turn(n)])
    BY <2>1 DEF NextBlock, ChainStays
  <2>3. flash'[Inode0].next = flash[Inode0].next
    BY <1>2 DEF ChainStays
  <2> QED BY <2>2, <2>3 DEF Pos
<1> QED BY <1>3, <1>4

\* An inode block is appended to the chain.
ChainGrows(c, new) ==
  /\ flash' \in [ Block -> BlockRec ]
  /\ \A b \in Block :
       /\ flash'[b].inode <=> flash[b].inode \/ b = new
       /\ flash'[b].index = IF b = new THEN 1 ELSE flash[b].index
       /\ flash'[b].next = IF b = new THEN ErasedIdx
                           ELSE IF b = c[Len(c)] THEN new ELSE flash[b].next
       /\ ~ flash[b].inode /\ b # new => flash'[b] = flash[b]

LEMMA GrowsChained ==
  ASSUME NEW c, Typed, Chained(c), NEW new \in Block, new # 0, ~ flash[new].inode,
         ChainGrows(c, new)
  PROVE  /\ Chained(Append(c, new))' /\ Len(Append(c, new)) = Len(c) + 1
         /\ Append(c, new)[Len(c) + 1] = new
         /\ \A k \in 1 .. Len(c) : Append(c, new)[k] = c[k]
<1> DEFINE d == Append(c, new)  l == Len(c)
<1>1. l \in Nat /\ l > 0 /\ c \in Seq(Block)
  BY DEF Chained
<1>2. d \in Seq(Block) /\ Len(d) = l + 1 /\ d[l + 1] = new /\ \A k \in 1 .. l : d[k] = c[k]
  BY <1>1
<1>3. \A k \in 1 .. l : c[k] \in Block /\ c[k] # new /\ flash[c[k]].inode
  BY DEF Chained
<1>4. \A k \in 1 .. l + 1 : k = l + 1 \/ k \in 1 .. l
  BY <1>1
<1> HIDE DEF d
<1>5. d[1] = Inode0
  BY <1>1, <1>2 DEF Chained
<1>6. ASSUME NEW j \in 1 .. l + 1, NEW k \in 1 .. l + 1, d[j] = d[k] PROVE j = k
  <2>1. CASE j = l + 1
    BY <1>2, <1>3, <1>4, <1>6, <2>1
  <2>2. CASE k = l + 1
    BY <1>2, <1>3, <1>4, <1>6, <2>2
  <2>3. CASE j \in 1 .. l /\ k \in 1 .. l
    BY <1>2, <1>6, <2>3 DEF Chained
  <2> QED BY <1>4, <2>1, <2>2, <2>3
<1>7. ASSUME NEW k \in 1 .. l + 1, k > 1 PROVE d[k] # 0
  BY <1>2, <1>4, <1>7 DEF Chained
<1>8. ASSUME NEW k \in 1 .. l + 1
      PROVE  flash'[d[k]].next = IF k < l + 1 THEN d[k + 1] ELSE ErasedIdx
  <2>1. CASE k = l + 1
    BY <1>1, <1>2, <2>1 DEF ChainGrows
  <2>2. CASE k \in 1 .. l /\ k = l
    <3>1. flash'[c[l]].next = new
      BY <1>3, <2>2 DEF ChainGrows
    <3> QED BY <1>1, <1>2, <2>2, <3>1
  <2>3. CASE k \in 1 .. l /\ k # l
    <3>1. l \in 1 .. l /\ c[k] # c[l] /\ c[k] # new /\ c[k] \in Block
      BY <1>1, <1>3, <2>3 DEF Chained
    <3>2. flash'[c[k]].next = flash[c[k]].next
      BY <3>1 DEF ChainGrows
    <3>3. k < l /\ k + 1 \in 1 .. l /\ k < l + 1
      BY <1>1, <2>3
    <3>4. flash[c[k]].next = c[k + 1]
      BY <2>3, <3>3 DEF Chained
    <3> QED BY <1>2, <2>3, <3>2, <3>3, <3>4
  <2> QED BY <1>4, <2>1, <2>2, <2>3
<1>9. ASSUME NEW b \in Block PROVE flash'[b].inode <=> \E k \in 1 .. l + 1 : d[k] = b
  <2>1. flash'[b].inode <=> (\E k \in 1 .. l : c[k] = b) \/ b = new
    BY DEF ChainGrows, Chained
  <2>2. (\E k \in 1 .. l + 1 : d[k] = b) <=> (\E k \in 1 .. l : c[k] = b) \/ b = new
    <3>1. l + 1 \in 1 .. l + 1 /\ \A k \in 1 .. l : k \in 1 .. l + 1
      BY <1>1
    <3> QED BY <1>2, <1>4, <3>1
  <2> QED BY <2>1, <2>2
<1>10. \A b \in Block : ~ flash'[b].inode => flash'[b] = ErasedBlock
  BY DEF ChainGrows, Chained
<1>11. flash'[Inode0].index = 0
  <2>1. Inode0 \in Block /\ Inode0 # new
    BY <1>1, <1>3, Numbers DEF Chained
  <2> QED BY <2>1 DEF ChainGrows, Chained
<1>12. Chained(d)'
  BY <1>1, <1>2, <1>5, <1>6, <1>7, <1>8, <1>9, <1>10, <1>11 DEF Chained
<1> QED BY <1>2, <1>12 DEF d

-----------------------------------------------------------------------------
(* What creating and removing write.                                       *)

LEMMA ErasedTyped ==
  /\ ErasedEntry \in EntryRec /\ ErasedBlock \in BlockRec
  /\ \A k \in { 0, 1 } : InodeBlock(k) \in BlockRec
  /\ \A s \in EntrySector : ErasedBlock.pair[s] = ErasedEntry
<1>1. ErasedEntry \in EntryRec
  BY Numbers DEF ErasedEntry, EntryRec
<1>2. ErasedBlock \in BlockRec
  BY <1>1, Numbers DEF ErasedBlock, BlockRec
<1>3. ASSUME NEW k \in { 0, 1 } PROVE InodeBlock(k) \in BlockRec
  BY <1>2 DEF InodeBlock, BlockRec
<1> QED BY <1>1, <1>2, <1>3 DEF ErasedBlock

NewEntry(nm) == [ id |-> maxId + 1, name |-> nm, dead |-> FALSE ]

LEMMA WriteIs ==
  ASSUME NEW f \in [ Block -> BlockRec ], NEW it, it.block \in Block, it.sector \in EntrySector,
         Typed, maxId < MaxFiles, NEW nm \in Name, NEW g, g = WriteEntry(f, it, nm)
  PROVE  /\ g \in [ Block -> BlockRec ]
         /\ \A b \in Block :
              /\ g[b].inode = f[b].inode /\ g[b].index = f[b].index /\ g[b].next = f[b].next
              /\ \A s \in EntrySector :
                   g[b].pair[s] = IF b = it.block /\ s = it.sector THEN NewEntry(nm)
                                  ELSE f[b].pair[s]
              /\ b # it.block => g[b] = f[b]
<1> DEFINE e == NewEntry(nm)
<1>1. e \in EntryRec
  <2>1. maxId + 1 \in 0 .. MaxFiles
    BY Numbers DEF Typed
  <2> QED BY <2>1 DEF EntryRec, NewEntry
<1> HIDE DEF e
<1>2. g = [ f EXCEPT ![it.block].pair[it.sector] = e ]
  BY DEF WriteEntry, NewEntry, e
<1>3. \A b \in Block : f[b] \in BlockRec
  OBVIOUS
<1>4. g[it.block] = [ f[it.block] EXCEPT !.pair[it.sector] = e ]
  BY <1>2
<1>5. \A b \in Block : b # it.block => g[b] = f[b]
  BY <1>2
<1>6. DOMAIN g = Block /\ g = [ b \in Block |-> g[b] ]
  BY <1>2
<1>7. g[it.block] \in BlockRec
  BY <1>1, <1>3, <1>4 DEF BlockRec
<1>8. g \in [ Block -> BlockRec ]
  BY <1>3, <1>5, <1>6, <1>7
<1>9. ASSUME NEW b \in Block
      PROVE  /\ g[b].inode = f[b].inode /\ g[b].index = f[b].index /\ g[b].next = f[b].next
             /\ \A s \in EntrySector :
                  g[b].pair[s] = IF b = it.block /\ s = it.sector THEN e ELSE f[b].pair[s]
  <2>1. CASE b = it.block
    BY <1>3, <1>4, <2>1 DEF BlockRec
  <2>2. CASE b # it.block
    BY <1>5, <2>2
  <2> QED BY <2>1, <2>2
<1> QED BY <1>5, <1>8, <1>9 DEF e

LEMMA AppendIs ==
  ASSUME NEW c, Typed, Chained(c), NEW it, it.block = c[Len(c)], it.blockIdx = 0,
         NEW new \in Block, Allocatable(new)
  PROVE  LET f == AppendBlock(it, new) IN
         /\ f \in [ Block -> BlockRec ]
         /\ new # 0 /\ ~ flash[new].inode
         /\ \A b \in Block :
              /\ f[b].inode <=> flash[b].inode \/ b = new
              /\ f[b].index = IF b = new THEN 1 ELSE flash[b].index
              /\ f[b].next = IF b = new THEN ErasedIdx
                             ELSE IF b = c[Len(c)] THEN new ELSE flash[b].next
              /\ ~ flash[b].inode /\ b # new => f[b] = flash[b]
              /\ \A s \in EntrySector : f[b].pair[s] = flash[b].pair[s]
<1> DEFINE f == AppendBlock(it, new)  a == it.block
<1>1. new # 0 /\ ~ flash[new].inode /\ flash[new] = ErasedBlock
  BY DEF Allocatable, Chained
<1>2. a \in Block /\ flash[a].inode /\ a # new
  <2>1. Len(c) \in 1 .. Len(c)
    BY DEF Chained
  <2> QED BY <1>1, <2>1 DEF Chained
<1>3. f = [ flash EXCEPT ![a].next = new, ![new] = InodeBlock(1) ]
  BY DEF AppendBlock
<1>4. \A b \in Block : flash[b] \in BlockRec
  BY DEF Typed
<1> HIDE DEF a
<1>5. f[new] = InodeBlock(1) /\ f[a] = [ flash[a] EXCEPT !.next = new ]
  BY <1>2, <1>3 DEF Typed
<1>6. \A b \in Block : b # new /\ b # a => f[b] = flash[b]
  BY <1>3 DEF Typed
<1>7. DOMAIN f = Block /\ f = [ b \in Block |-> f[b] ]
  BY <1>3 DEF Typed
<1> HIDE DEF f
<1>8. f[a] \in BlockRec /\ f[new] \in BlockRec
  BY <1>2, <1>4, <1>5, ErasedTyped DEF BlockRec
<1>9. f \in [ Block -> BlockRec ]
  BY <1>4, <1>6, <1>7, <1>8
<1>10. ASSUME NEW b \in Block
       PROVE  /\ f[b].inode <=> flash[b].inode \/ b = new
              /\ f[b].index = IF b = new THEN 1 ELSE flash[b].index
              /\ f[b].next = IF b = new THEN ErasedIdx
                             ELSE IF b = a THEN new ELSE flash[b].next
              /\ ~ flash[b].inode /\ b # new => f[b] = flash[b]
              /\ \A s \in EntrySector : f[b].pair[s] = flash[b].pair[s]
  <2>1. CASE b = new
    BY <1>1, <1>5, <2>1 DEF InodeBlock, ErasedBlock
  <2>2. CASE b = a
    BY <1>2, <1>4, <1>5, <2>2 DEF BlockRec
  <2>3. CASE b # a /\ b # new
    BY <1>6, <2>3
  <2> QED BY <2>1, <2>2, <2>3
<1> QED BY <1>1, <1>9, <1>10 DEF f, a

-----------------------------------------------------------------------------
(* Creating a file.                                                        *)

Unknown(c, nm) == \A j \in Nat : ~ (Live(c, j) /\ Pair(c, j).name = nm)

\* d is c, or c with a block appended; wrote says that the entry was written.
Longer(c, d) ==
  /\ Len(d) = Len(c) \/ Len(d) = Len(c) + 1
  /\ \A k \in 1 .. Len(c) : d[k] = c[k]
  /\ Len(d) = Len(c) + 1 => ~ flash[d[Len(d)]].inode /\ d[Len(d)] \in Block

EntryWritten(c, nm, wrote) ==
  \A b \in Block : \A s \in EntrySector :
    flash'[b].pair[s] = IF wrote /\ b = c[Turn(maxId)] /\ s = Sector(maxId)
                          THEN NewEntry(nm) ELSE flash[b].pair[s]

LEMMA PairsAfter ==
  ASSUME NEW c, TableInv(c), NEW d, Chained(d)', Longer(c, d), Turn(maxId) <= Len(c),
         Len(d) = Len(c) + 1 => Len(c) = Turn(maxId),
         NEW nm, NEW wrote \in BOOLEAN, EntryWritten(c, nm, wrote),
         NEW n \in Nat, Turn(n) <= Len(d)
  PROVE  Pair(d, n)' = IF wrote /\ n = maxId THEN NewEntry(nm)
                       ELSE IF n < maxId THEN Pair(c, n) ELSE ErasedEntry
<1>1. /\ Typed /\ Chained(c) /\ Filled(c) /\ maxId \in Nat /\ Len(c) \in Nat
  BY Numbers DEF TableInv, Typed, Chained
<1>2. Pair(d, n)' = flash'[d[Turn(n)]].pair[Sector(n)]
  BY DEF Pair
<1>3. Turn(n) \in Nat /\ Turn(n) > 0 /\ Sector(n) \in EntrySector
      /\ Turn(maxId) \in Nat /\ Turn(maxId) > 0
  BY <1>1, Places
<1>4. CASE Turn(n) <= Len(c)
  <2>1. Turn(n) \in 1 .. Len(c) /\ Turn(maxId) \in 1 .. Len(c)
    BY <1>1, <1>3, <1>4
  <2>2. d[Turn(n)] = c[Turn(n)] /\ c[Turn(n)] \in Block
    BY <1>1, <2>1 DEF Longer, Chained
  <2>3. c[Turn(n)] = c[Turn(maxId)] /\ Sector(n) = Sector(maxId) <=> n = maxId
    <3>1. c[Turn(n)] = c[Turn(maxId)] => Turn(n) = Turn(maxId)
      BY <1>1, <2>1 DEF Chained
    <3> QED BY <1>1, <3>1, OnePlace
  <2>4. Pair(d, n)' = IF wrote /\ n = maxId THEN NewEntry(nm) ELSE Pair(c, n)
    BY <1>2, <1>3, <2>2, <2>3 DEF EntryWritten, Pair
  <2>5. ~ (n < maxId) => Pair(c, n) = ErasedEntry
    BY <1>1, <1>4 DEF Filled
  <2> QED BY <2>4, <2>5
<1>5. CASE ~ (Turn(n) <= Len(c))
  <2>1. Turn(n) = Len(d) /\ Len(d) = Len(c) + 1 /\ Len(c) = Turn(maxId)
    BY <1>1, <1>3, <1>5 DEF Longer
  <2>2. ~ (n <= maxId)
    <3> SUFFICES ASSUME n <= maxId PROVE FALSE
      OBVIOUS
    <3>1. Turn(n) <= Turn(maxId)
      BY <1>1, TurnsGrow
    <3> QED BY <1>3, <2>1, <3>1
  <2> DEFINE b == d[Turn(n)]
  <2>3. b \in Block /\ ~ flash[b].inode
    BY <2>1 DEF Longer
  <2>4. b # c[Turn(maxId)]
    BY <1>1, <2>3, ChainIs
  <2>5. flash[b].pair[Sector(n)] = ErasedEntry
    BY <1>1, <1>3, <2>3, ErasedTyped DEF Chained
  <2> HIDE DEF b
  <2>6. flash'[b].pair[Sector(n)] = ErasedEntry
    BY <1>3, <2>3, <2>4, <2>5 DEF EntryWritten
  <2> QED BY <1>1, <1>2, <2>2, <2>6 DEF b
<1> QED BY <1>4, <1>5

LEMMA TableAfter ==
  ASSUME NEW c, TableInv(c), NEW d, Chained(d)', Typed', Longer(c, d),
         Len(d) = Len(c) + 1 => Len(c) = Turn(maxId),
         NEW nm \in Name, Unknown(c, nm), NEW wrote \in BOOLEAN, EntryWritten(c, nm, wrote),
         maxId' = IF wrote THEN maxId + 1 ELSE maxId,
         Turn(maxId') <= Len(d), ~ full' => Len(d) = Turn(maxId')
  PROVE  /\ TableInv(d)'
         /\ \A n \in Nat : n < maxId => Pair(d, n)' = Pair(c, n)
         /\ \A n \in Nat : wrote /\ n = maxId => Pair(d, n)' = NewEntry(nm)
<1>1. /\ Typed /\ Chained(c) /\ Filled(c) /\ NamedOnce(c)
      /\ maxId \in Nat /\ Len(c) \in Nat /\ Len(d) \in Nat
  BY Numbers DEF TableInv, Typed, Chained, Longer
<1>2. \A n \in Nat : Turn(n) <= Len(d) =>
        Pair(d, n)' = IF wrote /\ n = maxId THEN NewEntry(nm)
                      ELSE IF n < maxId THEN Pair(c, n) ELSE ErasedEntry
  <2>1. Turn(maxId) <= Len(c)
    BY <1>1 DEF Filled
  <2> QED BY <2>1, PairsAfter
<1>3. \A n \in Nat : n <= maxId' => Turn(n) <= Len(d)
  <2> SUFFICES ASSUME NEW n \in Nat, n <= maxId' PROVE Turn(n) <= Len(d)
    OBVIOUS
  <2> DEFINE m == maxId'
  <2>1. m \in Nat /\ n <= m
    BY <1>1
  <2> HIDE DEF m
  <2>2. Turn(n) <= Turn(m) /\ Turn(n) \in Nat /\ Turn(m) \in Nat
    BY <2>1, TurnsGrow, Places
  <2>3. Turn(m) <= Len(d)
    BY DEF m
  <2> QED BY <1>1, <2>2, <2>3
<1>4. ASSUME NEW n \in Nat, n < maxId
      PROVE  Pair(d, n)' = Pair(c, n) /\ Pair(c, n).id = n + 1 /\ Pair(c, n).name \in Name
  <2>1. Turn(n) <= Len(d)
    BY <1>1, <1>3, <1>4
  <2>2. Pair(d, n)' = Pair(c, n)
    BY <1>1, <1>2, <1>4, <2>1
  <2>3. Turn(n) <= Len(c)
    <3>1. n \in 0 .. maxId
      BY <1>1, <1>4
    <3> QED BY <1>1, <3>1, FilledIs
  <2> QED BY <1>1, <1>4, <2>2, <2>3 DEF Filled
<1>5. ASSUME NEW n \in Nat, wrote, n = maxId PROVE Pair(d, n)' = NewEntry(nm)
  <2>1. Turn(n) <= Len(d)
    BY <1>1, <1>3, <1>5
  <2> QED BY <1>1, <1>2, <1>5, <2>1
<1>6. NewEntry(nm).id = maxId + 1 /\ NewEntry(nm).name = nm /\ NewEntry(nm).dead = FALSE
  BY DEF NewEntry
<1>7. Filled(d)'
  <2>1. ASSUME NEW n \in Nat, Turn(n) <= Len(d)
        PROVE  IF n < maxId' THEN Pair(d, n)'.id = n + 1 /\ Pair(d, n)'.name \in Name
                             ELSE Pair(d, n)' = ErasedEntry
    <3>1. CASE n < maxId
      BY <1>1, <1>4, <3>1
    <3>2. CASE wrote /\ n = maxId
      BY <1>1, <1>5, <1>6, <3>2
    <3>3. CASE ~ (n < maxId) /\ ~ (wrote /\ n = maxId)
      BY <1>1, <1>2, <2>1, <3>3
    <3> QED BY <3>1, <3>2, <3>3
  <2>2. \A n \in Nat : Turn(n) <= Len(d) =>
          IF n < maxId' THEN Pair(d, n)'.id = n + 1 /\ Pair(d, n)'.name \in Name
                        ELSE Pair(d, n)' = ErasedEntry
    BY <2>1
  <2> QED BY <2>2 DEF Filled
<1>8. \A n \in Nat : Live(d, n)' <=> Live(c, n) \/ (wrote /\ n = maxId)
  <2> SUFFICES ASSUME NEW n \in Nat PROVE Live(d, n)' <=> Live(c, n) \/ (wrote /\ n = maxId)
    OBVIOUS
  <2>1. Live(d, n)' <=> n < maxId' /\ ~ Pair(d, n)'.dead
    BY DEF Live
  <2>2. CASE n < maxId
    BY <1>1, <1>4, <2>1, <2>2 DEF Live
  <2>3. CASE wrote /\ n = maxId
    BY <1>1, <1>5, <1>6, <2>1, <2>3 DEF Live
  <2>4. CASE ~ (n < maxId) /\ ~ (wrote /\ n = maxId)
    BY <1>1, <2>1, <2>4 DEF Live
  <2> QED BY <2>2, <2>3, <2>4
<1>9. NamedOnce(d)'
  <2>1. ASSUME NEW m \in Nat, NEW n \in Nat, Live(d, m)', Live(d, n)',
               Pair(d, m)'.name = Pair(d, n)'.name
        PROVE  m = n
    <3>1. \A j \in Nat : Live(c, j) => Pair(d, j)' = Pair(c, j)
      BY <1>4 DEF Live
    <3>2. \A j \in Nat : wrote /\ j = maxId => Pair(d, j)'.name = nm
      BY <1>5, <1>6
    <3>3. CASE Live(c, m) /\ Live(c, n)
      BY <1>1, <2>1, <3>1, <3>3 DEF NamedOnce
    <3>4. CASE Live(c, m) /\ wrote /\ n = maxId
      BY <2>1, <3>1, <3>2, <3>4 DEF Unknown
    <3>5. CASE Live(c, n) /\ wrote /\ m = maxId
      BY <2>1, <3>1, <3>2, <3>5 DEF Unknown
    <3> QED BY <1>8, <2>1, <3>3, <3>4, <3>5
  <2>2. \A m, n \in Nat : Live(d, m)' /\ Live(d, n)' /\ Pair(d, m)'.name = Pair(d, n)'.name => m = n
    BY <2>1
  <2> QED BY <2>2 DEF NamedOnce
<1> QED BY <1>4, <1>5, <1>7, <1>9 DEF TableInv

\* A search that fails stands at the first unused pair.
LEMMA NotFound ==
  ASSUME NEW c, TableInv(c), NEW nm, ~ Found(Find(nm))
  PROVE  Find(nm) = Pos(c, maxId) /\ Unknown(c, nm)
<1>1. Typed /\ Chained(c) /\ Filled(c) /\ maxId \in Nat
  BY Numbers DEF TableInv, Typed
<1>2. PICK k \in 0 .. maxId :
        /\ Find(nm) = Pos(c, k)
        /\ k = maxId \/ (Live(c, k) /\ Pair(c, k).name = nm)
        /\ \A j \in 0 .. k - 1 : ~ (Live(c, j) /\ Pair(c, j).name = nm)
  BY <1>1, FindIs
<1>3. ~ IsStuck(Pos(c, k)) /\ (Unused(Pos(c, k)) <=> k = maxId)
  BY <1>1, FilledIs, PosTyped
<1>4. k = maxId
  BY <1>2, <1>3 DEF Found
<1>5. ASSUME NEW j \in Nat PROVE ~ (Live(c, j) /\ Pair(c, j).name = nm)
  <2>1. CASE j < maxId
    <3>1. j \in 0 .. k - 1
      BY <1>1, <1>4, <2>1
    <3> QED BY <1>2, <3>1
  <2>2. CASE ~ (j < maxId)
    BY <2>2 DEF Live
  <2> QED BY <2>1, <2>2
<1> QED BY <1>2, <1>4, <1>5 DEF Unknown

LEMMA FoundIs ==
  ASSUME NEW c, TableInv(c), NEW nm, Found(Find(nm))
  PROVE  \E k \in Nat : Find(nm) = Pos(c, k) /\ k < maxId /\ Live(c, k) /\ Pair(c, k).name = nm
<1>1. Typed /\ Chained(c) /\ Filled(c) /\ maxId \in Nat
  BY Numbers DEF TableInv, Typed
<1>2. PICK k \in 0 .. maxId :
        /\ Find(nm) = Pos(c, k)
        /\ k = maxId \/ (Live(c, k) /\ Pair(c, k).name = nm)
  BY <1>1, FindIs
<1>3. Unused(Pos(c, k)) <=> k = maxId
  BY <1>1, FilledIs
<1>4. k # maxId
  BY <1>2, <1>3 DEF Found
<1> QED BY <1>1, <1>2, <1>4

\* What a call that creates a file does to the table, if anything.
Created(c, d, nm, wrote) ==
  /\ TableInv(d)' /\ Unknown(c, nm)
  /\ maxId' = IF wrote THEN maxId + 1 ELSE maxId
  /\ \A n \in Nat : n < maxId => Pair(d, n)' = Pair(c, n)
  /\ \A n \in Nat : wrote /\ n = maxId => Pair(d, n)' = NewEntry(nm)
  /\ \/ d = c /\ \A n \in Nat : Turn(n) <= Len(c) => Pos(c, n)' = Pos(c, n)
     \/ "stop_before_growth" \in TableRules => ~ Listing

\* The entry is written, or its call found nothing to allocate.
Ends(f, it, nm) ==
  \/ /\ flash' = WriteEntry(f, it, nm)
     /\ maxId' = maxId + 1 /\ full' \in BOOLEAN
  \/ flash' = f /\ full' = TRUE /\ UNCHANGED maxId

LEMMA EndsIs ==
  ASSUME NEW c, TableInv(c), NEW nm \in Name, maxId < MaxFiles,
         NEW f \in [ Block -> BlockRec ], Ends(f, Pos(c, maxId), nm),
         \A b \in Block : \A s \in EntrySector : f[b].pair[s] = flash[b].pair[s]
  PROVE  \E wrote \in BOOLEAN :
           /\ Typed' /\ EntryWritten(c, nm, wrote)
           /\ maxId' = IF wrote THEN maxId + 1 ELSE maxId
           /\ ~ full' => wrote
           /\ flash' \in [ Block -> BlockRec ]
           /\ \A b \in Block :
                /\ flash'[b].inode = f[b].inode /\ flash'[b].index = f[b].index
                /\ flash'[b].next = f[b].next
                /\ b # c[Turn(maxId)] => flash'[b] = f[b]
<1> DEFINE it == Pos(c, maxId)
<1>1. /\ Typed /\ Chained(c) /\ Filled(c) /\ maxId \in Nat /\ Turn(maxId) <= Len(c)
  BY Numbers DEF TableInv, Typed, Filled
<1>2. /\ it.block = c[Turn(maxId)] /\ it.block \in Block
      /\ it.sector = Sector(maxId) /\ it.sector \in EntrySector
  <2>1. it.block = c[Turn(maxId)] /\ it.sector = Sector(maxId)
    BY <1>1, PosTyped
  <2>2. c[Turn(maxId)] \in Block /\ Sector(maxId) \in EntrySector
    BY <1>1, ChainIs, Places
  <2> QED BY <2>1, <2>2
<1>3. maxId + 1 \in 0 .. MaxFiles /\ maxId \in 0 .. MaxFiles
  BY <1>1, Numbers
<1> HIDE DEF it
<1>4. CASE flash' = WriteEntry(f, it, nm) /\ maxId' = maxId + 1 /\ full' \in BOOLEAN
  <2>1. /\ flash' \in [ Block -> BlockRec ]
        /\ \A b \in Block :
             /\ flash'[b].inode = f[b].inode /\ flash'[b].index = f[b].index
             /\ flash'[b].next = f[b].next
             /\ \A s \in EntrySector :
                  flash'[b].pair[s] = IF b = it.block /\ s = it.sector THEN NewEntry(nm)
                                      ELSE f[b].pair[s]
             /\ b # it.block => flash'[b] = f[b]
    BY <1>1, <1>2, <1>4, WriteIs
  <2>2. EntryWritten(c, nm, TRUE)
    BY <1>2, <2>1 DEF EntryWritten
  <2>3. Typed'
    BY <1>3, <1>4, <2>1 DEF Typed
  <2> QED BY <1>2, <1>4, <2>1, <2>2, <2>3
<1>5. CASE flash' = f /\ full' = TRUE /\ UNCHANGED maxId
  <2>1. EntryWritten(c, nm, FALSE)
    BY <1>5 DEF EntryWritten
  <2>2. Typed'
    BY <1>3, <1>5 DEF Typed
  <2> QED BY <1>5, <2>1, <2>2
<1> QED BY <1>4, <1>5 DEF Ends, it

\* In the present block: the next pair is in it too.
LEMMA CreateHere ==
  ASSUME NEW c, TableInv(c), NEW nm \in Name, Unknown(c, nm), maxId < MaxFiles, ~ full,
         ~ NeedsBlock(Pos(c, maxId)), Ends(flash, Pos(c, maxId), nm)
  PROVE  \E wrote \in BOOLEAN : Created(c, c, nm, wrote)
<1>1. /\ Typed /\ Chained(c) /\ Filled(c) /\ maxId \in Nat /\ Turn(maxId) <= Len(c)
      /\ Len(c) \in Nat
  BY Numbers DEF TableInv, Typed, Filled, Chained
<1>2. PICK wrote \in BOOLEAN :
        /\ Typed' /\ EntryWritten(c, nm, wrote)
        /\ maxId' = IF wrote THEN maxId + 1 ELSE maxId
        /\ ~ full' => wrote
        /\ flash' \in [ Block -> BlockRec ]
        /\ \A b \in Block :
             /\ flash'[b].inode = flash[b].inode /\ flash'[b].index = flash[b].index
             /\ flash'[b].next = flash[b].next
             /\ b # c[Turn(maxId)] => flash'[b] = flash[b]
  <2>1. flash \in [ Block -> BlockRec ]
    BY <1>1 DEF Typed
  <2> QED BY <2>1, EndsIs
<1>3. Turn(maxId + 1) = Turn(maxId)
  <2>1. Sector(maxId) # LastSector - 1
    BY <1>1, PosTyped DEF NeedsBlock
  <2> QED BY <1>1, <2>1, Places
<1>4. Turn(maxId') <= Len(c) /\ (~ full' => Len(c) = Turn(maxId'))
  BY <1>1, <1>2, <1>3 DEF Filled
<1>5. ChainStays
  <2>1. flash[c[Turn(maxId)]].inode
    BY <1>1, ChainIs
  <2> QED BY <1>2, <2>1 DEF ChainStays
<1>6. Chained(c)' /\ \A n \in Nat : Turn(n) <= Len(c) => Pos(c, n)' = Pos(c, n)
  BY <1>1, <1>5, StaysChained
<1>7. Longer(c, c) /\ Len(c) # Len(c) + 1
  BY <1>1 DEF Longer
<1>8. /\ TableInv(c)'
      /\ \A n \in Nat : n < maxId => Pair(c, n)' = Pair(c, n)
      /\ \A n \in Nat : wrote /\ n = maxId => Pair(c, n)' = NewEntry(nm)
  BY <1>2, <1>4, <1>6, <1>7, TableAfter
<1> QED BY <1>2, <1>6, <1>8 DEF Created

\* In the last pair of the block: another block is appended before.
LEMMA CreateGrows ==
  ASSUME NEW c, TableInv(c), NEW nm \in Name, Unknown(c, nm), maxId < MaxFiles, ~ full,
         NeedsBlock(Pos(c, maxId)), "stop_before_growth" \in TableRules => ~ Listing,
         NEW new \in Block, Allocatable(new),
         Ends(AppendBlock(Pos(c, maxId), new), Pos(c, maxId), nm)
  PROVE  \E wrote \in BOOLEAN : Created(c, Append(c, new), nm, wrote)
<1> DEFINE it == Pos(c, maxId)  f == AppendBlock(it, new)  d == Append(c, new)
<1>1. /\ Typed /\ Chained(c) /\ Filled(c) /\ maxId \in Nat /\ Turn(maxId) = Len(c)
      /\ Len(c) \in Nat /\ Len(c) > 0
  BY Numbers DEF TableInv, Typed, Filled, Chained
<1>2. it.block = c[Len(c)] /\ it.blockIdx = 0 /\ it.sector = Sector(maxId)
  BY <1>1, PosTyped
<1>3. /\ f \in [ Block -> BlockRec ]
      /\ new # 0 /\ ~ flash[new].inode
      /\ \A b \in Block :
           /\ f[b].inode <=> flash[b].inode \/ b = new
           /\ f[b].index = IF b = new THEN 1 ELSE flash[b].index
           /\ f[b].next = IF b = new THEN ErasedIdx
                          ELSE IF b = c[Len(c)] THEN new ELSE flash[b].next
           /\ ~ flash[b].inode /\ b # new => f[b] = flash[b]
           /\ \A s \in EntrySector : f[b].pair[s] = flash[b].pair[s]
  <2> HIDE DEF it
  <2> QED BY <1>1, <1>2, AppendIs
<1>4. Sector(maxId) = LastSector - 1
  BY <1>2 DEF NeedsBlock
<1> HIDE DEF f
<1>5. PICK wrote \in BOOLEAN :
        /\ Typed' /\ EntryWritten(c, nm, wrote)
        /\ maxId' = IF wrote THEN maxId + 1 ELSE maxId
        /\ ~ full' => wrote
        /\ flash' \in [ Block -> BlockRec ]
        /\ \A b \in Block :
             /\ flash'[b].inode = f[b].inode /\ flash'[b].index = f[b].index
             /\ flash'[b].next = f[b].next
             /\ b # c[Turn(maxId)] => flash'[b] = f[b]
  <2>1. Ends(f, Pos(c, maxId), nm)
    BY DEF f
  <2> QED BY <1>3, <2>1, EndsIs
<1>6. ChainGrows(c, new)
  <2>1. flash[c[Turn(maxId)]].inode
    BY <1>1, ChainIs
  <2>2. \A b \in Block : ~ flash[b].inode /\ b # new => flash'[b] = flash[b]
    BY <1>3, <1>5, <2>1
  <2> QED BY <1>3, <1>5, <2>2 DEF ChainGrows
<1>7. /\ Chained(d)' /\ Len(d) = Len(c) + 1 /\ d[Len(c) + 1] = new
      /\ \A k \in 1 .. Len(c) : d[k] = c[k]
  BY <1>1, <1>3, <1>6, GrowsChained
<1> HIDE DEF d
<1>8. Longer(c, d)
  BY <1>3, <1>7 DEF Longer
<1>9. Turn(maxId + 1) = Turn(maxId) + 1
  <2>1. ~ (Sector(maxId) + 2 <= LastSector)
    BY <1>4, Numbers
  <2> QED BY <1>1, <2>1, Places
<1>10. Turn(maxId') <= Len(d) /\ (~ full' => Len(d) = Turn(maxId'))
  BY <1>1, <1>5, <1>7, <1>9
<1>11. /\ TableInv(d)'
       /\ \A n \in Nat : n < maxId => Pair(d, n)' = Pair(c, n)
       /\ \A n \in Nat : wrote /\ n = maxId => Pair(d, n)' = NewEntry(nm)
  BY <1>1, <1>5, <1>7, <1>8, <1>10, TableAfter
<1>12. Created(c, d, nm, wrote)
  BY <1>5, <1>11 DEF Created
<1> QED BY <1>12 DEF d

LEMMA CreateDoes ==
  ASSUME NEW c, TableInv(c), NEW nm \in Name, Create(nm)
  PROVE  /\ UNCHANGED << panic, lists >>
         /\ \E d : \E wrote \in BOOLEAN : Created(c, d, nm, wrote)
<1> DEFINE it == Pos(c, maxId)
<1>1. Find(nm) = it /\ Unknown(c, nm) /\ ~ IsStuck(it)
  <2>1. ~ Found(Find(nm))
    BY DEF Create
  <2>2. Typed /\ Chained(c) /\ maxId \in Nat /\ Turn(maxId) <= Len(c)
    BY Numbers DEF TableInv, Typed, Filled
  <2> QED BY <2>1, <2>2, NotFound, PosTyped
<1> HIDE DEF it
<1>2. /\ ~ full /\ maxId < MaxFiles
      /\ NeedsBlock(it) /\ "stop_before_growth" \in TableRules => ~ Listing
      /\ \E f \in IF NeedsBlock(it)
                    THEN { AppendBlock(it, b) : b \in { e \in Block : Allocatable(e) } }
                    ELSE { flash } : Ends(f, it, nm)
      /\ UNCHANGED << panic, lists >>
  BY <1>1 DEF Create, Ends
<1>3. CASE ~ NeedsBlock(it)
  <2>1. Ends(flash, it, nm)
    BY <1>2, <1>3
  <2> QED BY <1>1, <1>2, <1>3, <2>1, CreateHere DEF it
<1>4. CASE NeedsBlock(it)
  <2>1. PICK new \in Block : Allocatable(new) /\ Ends(AppendBlock(it, new), it, nm)
    BY <1>2, <1>4
  <2> QED BY <1>1, <1>2, <1>4, <2>1, CreateGrows DEF it
<1> QED BY <1>3, <1>4

-----------------------------------------------------------------------------
(* Removing a file.                                                        *)

\* The k-th entry is invalidated.
Removed(c, k, nm) ==
  /\ TableInv(c)' /\ k < maxId /\ Live(c, k) /\ Pair(c, k).name = nm
  /\ maxId' = maxId
  /\ \A n \in Nat : Turn(n) <= Len(c) =>
       /\ Pair(c, n)'.name = Pair(c, n).name /\ Pair(c, n)'.id = Pair(c, n).id
       /\ Pair(c, n)'.dead <=> Pair(c, n).dead \/ n = k
       /\ Pos(c, n)' = Pos(c, n)
  /\ due' = [ l \in Lister |-> due[l] \ { k + 1 } ]

LEMMA RemoveDoes ==
  ASSUME NEW c, TableInv(c), NEW nm \in Name, Remove(nm)
  PROVE  \E k \in Nat : Removed(c, k, nm)
<1>1. /\ Typed /\ Chained(c) /\ Filled(c) /\ NamedOnce(c) /\ maxId \in Nat /\ Len(c) \in Nat
      /\ Turn(maxId) <= Len(c)
  BY Numbers DEF TableInv, Typed, Filled, Chained
<1>2. PICK k \in Nat :
        Find(nm) = Pos(c, k) /\ k < maxId /\ Live(c, k) /\ Pair(c, k).name = nm
  BY FoundIs DEF Remove
<1>3. Turn(k) <= Len(c)
  <2>1. k \in 0 .. maxId
    BY <1>1, <1>2
  <2> QED BY <1>1, <2>1, FilledIs
<1> DEFINE a == c[Turn(k)]  s == Sector(k)
<1>4. /\ a \in Block /\ s \in EntrySector /\ flash[a].inode /\ flash[a] \in BlockRec
      /\ flash[a].pair[s] = Pair(c, k) /\ Pair(c, k) \in EntryRec
  BY <1>1, <1>3, ChainIs, Places DEF Pair, Typed
<1>5. flash' = [ flash EXCEPT ![a].pair[s].dead = TRUE ]
      /\ due' = [ l \in Lister |-> due[l] \ { k + 1 } ] /\ UNCHANGED << maxId, full >>
  <2>1. Pos(c, k).block = a /\ Pos(c, k).sector = s /\ Entry(Pos(c, k)) = Pair(c, k)
    BY <1>1, <1>3, PosTyped
  <2>2. Pair(c, k).id = k + 1
    BY <1>1, <1>2, <1>3 DEF Filled
  <2> QED BY <1>2, <2>1, <2>2 DEF Remove
<1> HIDE DEF a, s
<1>6. /\ flash'[a] = [ flash[a] EXCEPT !.pair[s].dead = TRUE ]
      /\ \A b \in Block : b # a => flash'[b] = flash[b]
      /\ DOMAIN flash' = Block /\ flash' = [ b \in Block |-> flash'[b] ]
  BY <1>1, <1>4, <1>5 DEF Typed
<1>7. /\ flash'[a].inode = flash[a].inode /\ flash'[a].index = flash[a].index
      /\ flash'[a].next = flash[a].next
      /\ \A t \in EntrySector : flash'[a].pair[t] =
           IF t = s THEN [ Pair(c, k) EXCEPT !.dead = TRUE ] ELSE flash[a].pair[t]
      /\ flash'[a] \in BlockRec
  <2>1. [ Pair(c, k) EXCEPT !.dead = TRUE ] \in EntryRec
    BY <1>4 DEF EntryRec
  <2>2. flash'[a] = [ flash[a] EXCEPT !.pair = [ flash[a].pair EXCEPT ![s] =
                        [ Pair(c, k) EXCEPT !.dead = TRUE ] ] ]
    BY <1>4, <1>6
  <2> DEFINE p == [ flash[a].pair EXCEPT ![s] = [ Pair(c, k) EXCEPT !.dead = TRUE ] ]
  <2>3. flash[a].pair \in [ EntrySector -> EntryRec ]
    BY <1>4 DEF BlockRec
  <2>4. /\ p \in [ EntrySector -> EntryRec ]
        /\ \A t \in EntrySector :
             p[t] = IF t = s THEN [ Pair(c, k) EXCEPT !.dead = TRUE ] ELSE flash[a].pair[t]
    BY <1>4, <2>1, <2>3
  <2>5. flash'[a] = [ flash[a] EXCEPT !.pair = p ]
    BY <2>2
  <2> HIDE DEF p
  <2>6. flash'[a].pair = p
    BY <1>4, <2>5 DEF BlockRec
  <2>7. /\ flash'[a].inode = flash[a].inode /\ flash'[a].index = flash[a].index
        /\ flash'[a].next = flash[a].next /\ flash'[a] \in BlockRec
    BY ZenonT(30), <1>4, <2>4, <2>5 DEF BlockRec
  <2> QED BY <2>4, <2>6, <2>7
<1>8. flash' \in [ Block -> BlockRec ]
  BY <1>1, <1>6, <1>7 DEF Typed
<1>9. ChainStays
  BY <1>4, <1>6, <1>7, <1>8 DEF ChainStays
<1>10. Chained(c)' /\ \A n \in Nat : Turn(n) <= Len(c) => Pos(c, n)' = Pos(c, n)
  BY <1>1, <1>9, StaysChained
<1>11. ASSUME NEW n \in Nat, Turn(n) <= Len(c)
       PROVE  Pair(c, n)' = IF n = k THEN [ Pair(c, k) EXCEPT !.dead = TRUE ] ELSE Pair(c, n)
  <2>1. Turn(n) \in 1 .. Len(c) /\ Turn(k) \in 1 .. Len(c) /\ c[Turn(n)] \in Block
        /\ Sector(n) \in EntrySector
    BY <1>1, <1>3, <1>11, ChainIs, Places
  <2>2. c[Turn(n)] = a /\ Sector(n) = s <=> n = k
    <3>1. c[Turn(n)] = a => Turn(n) = Turn(k)
      BY <1>1, <2>1 DEF Chained, a
    <3> QED BY <3>1, OnePlace DEF a, s
  <2>3. Pair(c, n)' = flash'[c[Turn(n)]].pair[Sector(n)]
    BY DEF Pair
  <2> QED BY <1>6, <1>7, <2>1, <2>2, <2>3 DEF Pair
<1>12. ASSUME NEW n \in Nat, Turn(n) <= Len(c)
       PROVE  /\ Pair(c, n)'.name = Pair(c, n).name /\ Pair(c, n)'.id = Pair(c, n).id
              /\ Pair(c, n)'.dead <=> Pair(c, n).dead \/ n = k
  BY <1>4, <1>11, <1>12 DEF EntryRec
<1>13. Typed'
  BY <1>1, <1>5, <1>8 DEF Typed
<1>14. Filled(c)'
  <2>1. ASSUME NEW n \in Nat, Turn(n) <= Len(c)
        PROVE  IF n < maxId THEN Pair(c, n)'.id = n + 1 /\ Pair(c, n)'.name \in Name
                            ELSE Pair(c, n)' = ErasedEntry
    BY <1>1, <1>2, <1>11, <1>12, <2>1 DEF Filled
  <2>2. \A n \in Nat : Turn(n) <= Len(c) =>
          IF n < maxId THEN Pair(c, n)'.id = n + 1 /\ Pair(c, n)'.name \in Name
                       ELSE Pair(c, n)' = ErasedEntry
    BY <2>1
  <2> QED BY <1>1, <1>5, <2>2 DEF Filled
<1>15. NamedOnce(c)'
  <2>1. \A n \in Nat : Live(c, n)' => Live(c, n) /\ Pair(c, n)'.name = Pair(c, n).name
    <3> SUFFICES ASSUME NEW n \in Nat, Live(c, n)'
                 PROVE  Live(c, n) /\ Pair(c, n)'.name = Pair(c, n).name
      OBVIOUS
    <3>1. n < maxId /\ ~ Pair(c, n)'.dead
      BY <1>5 DEF Live
    <3>2. n \in 0 .. maxId
      BY <1>1, <3>1
    <3>3. Turn(n) <= Len(c)
      BY <1>1, <3>2, FilledIs
    <3> QED BY <1>12, <3>1, <3>3 DEF Live
  <2>2. \A m, n \in Nat : Live(c, m)' /\ Live(c, n)' /\ Pair(c, m)'.name = Pair(c, n)'.name => m = n
    BY <1>1, <2>1 DEF NamedOnce
  <2> QED BY <2>2 DEF NamedOnce
<1>16. TableInv(c)'
  BY <1>10, <1>13, <1>14, <1>15 DEF TableInv
<1>17. Removed(c, k, nm)
  BY <1>2, <1>5, <1>10, <1>12, <1>16 DEF Removed
<1> QED BY <1>17

-----------------------------------------------------------------------------
(* Types.                                                                  *)

\* Every pair of an inode block is in the count.
LEMMA PairNumbered ==
  ASSUME NEW c, TableInv(c), NEW b \in Block, flash[b].inode, NEW s \in EntrySector
  PROVE  \E n \in Nat : Turn(n) <= Len(c) /\ flash[b].pair[s] = Pair(c, n)
<1>1. PICK k \in 1 .. Len(c) : c[k] = b
  BY DEF TableInv, Chained
<1>2. k \in Nat /\ k > 0 /\ k <= Len(c)
  BY DEF TableInv, Chained
<1>3. PICK n \in Nat : Turn(n) = k /\ Sector(n) = s
  BY <1>2, PlaceOf
<1> QED BY <1>1, <1>2, <1>3 DEF Pair

LEMMA LiveIdsAre ==
  ASSUME NEW c, TableInv(c), NEW f \in LiveIds
  PROVE  f \in 1 .. maxId /\ Live(c, f - 1)
<1>1. f \in 1 .. MaxFiles /\ maxId \in Nat /\ MaxFiles \in Nat
  BY Numbers DEF LiveIds, TableInv, Typed
<1>2. PICK b \in Block : \E s \in EntrySector : flash[b].pair[s].id = f /\ ~ flash[b].pair[s].dead
  BY DEF LiveIds
<1>3. PICK s \in EntrySector : flash[b].pair[s].id = f /\ ~ flash[b].pair[s].dead
  BY <1>2
<1>4. f # 0 /\ f \in Nat
  BY <1>1
<1>5. flash[b].inode
  <2>1. ASSUME ~ flash[b].inode PROVE flash[b].pair[s].id = 0
    BY <2>1, ErasedTyped DEF TableInv, Chained, ErasedEntry
  <2> QED BY <1>3, <1>4, <2>1
<1>6. PICK n \in Nat : Turn(n) <= Len(c) /\ flash[b].pair[s] = Pair(c, n)
  BY <1>5, PairNumbered
<1>7. n < maxId /\ Pair(c, n).id = n + 1
  <2>1. ~ (n < maxId) => Pair(c, n).id = 0
    BY <1>6 DEF TableInv, Filled, ErasedEntry
  <2> QED BY <1>3, <1>4, <1>6, <2>1 DEF TableInv, Filled
<1>8. f = n + 1
  BY <1>3, <1>6, <1>7
<1>9. Live(c, n)
  BY <1>3, <1>6, <1>7 DEF Live
<1> QED BY <1>1, <1>7, <1>8, <1>9

LEMMA NotListingTyped ==
  /\ NotListing \in [ on : BOOLEAN, it : Iterator ]
  /\ NotListing.it.idx = 0 /\ NotListing.on = FALSE
<1> DEFINE x == Stuck([ block |-> Invalid, next |-> Invalid, sector |-> FirstEntry,
                        blockIdx |-> 0, idx |-> 0 ])
<1>1. x = [ block |-> Invalid, next |-> Invalid, sector |-> FirstEntry,
            blockIdx |-> 0, idx |-> 0 ]
  BY DEF Stuck
<1>2. x \in Iterator /\ x.idx = 0
  BY <1>1, Numbers DEF Iterator
<1>3. NotListing = [ on |-> FALSE, it |-> x ]
  BY DEF NotListing
<1> HIDE DEF x
<1>4. NotListing.on = FALSE /\ NotListing.it = x
  BY <1>3
<1>5. NotListing \in [ on : BOOLEAN, it : Iterator ]
  BY <1>2, <1>3
<1> QED BY <1>2, <1>4, <1>5

LEMMA IterateTyped ==
  ASSUME NEW c, TableInv(c), ListTyped, NEW l \in Lister, LsIterate(l)
  PROVE  ListTyped'
<1> DEFINE it == NextToTell(ls[l].it)
<1>1. Typed /\ Chained(c)
  BY DEF TableInv
<1>2. ls[l].it \in Iterator
  BY DEF ListTyped
<1>3. it \in Iterator
  BY <1>1, <1>2, NextToTellTyped
<1> HIDE DEF it
<1>4. CASE Outcome(it) = "assert" /\ panic' = TRUE /\ UNCHANGED lists
  BY <1>4 DEF ListTyped, lists
<1>5. CASE /\ Outcome(it) = "end" /\ ls' = [ ls EXCEPT ![l].it = it ]
           /\ ended' = [ ended EXCEPT ![l] = TRUE ] /\ UNCHANGED << told, due, panic >>
  <2>1. ls' \in [ Lister -> [ on : BOOLEAN, it : Iterator ] ]
    BY <1>3, <1>5 DEF ListTyped
  <2>2. ended' \in [ Lister -> BOOLEAN ]
    BY <1>5 DEF ListTyped
  <2> QED BY <1>5, <2>1, <2>2 DEF ListTyped
<1>6. CASE /\ Outcome(it) = "name" /\ ls' = [ ls EXCEPT ![l].it = IterNext(it) ]
           /\ told' = [ told EXCEPT ![l] = Append(@, Entry(it).id) ]
           /\ ended' = [ ended EXCEPT ![l] = FALSE ] /\ UNCHANGED << due, panic >>
  <2>1. ~ IsStuck(it) /\ ~ Unused(it)
    BY <1>6 DEF Outcome
  <2>2. IterNext(it) \in Iterator
    BY <1>1, <1>3, <2>1, NextTyped
  <2>3. it.block \in Block /\ it.sector \in EntrySector
    BY <1>3, <2>1 DEF Iterator, IsStuck
  <2>4. Entry(it) \in EntryRec
    BY <1>1, <2>3 DEF Entry, Typed, BlockRec
  <2>5. Entry(it).id \in 1 .. MaxFiles
    BY <2>1, <2>4, Numbers DEF Unused, EntryRec
  <2> DEFINE f == Entry(it).id
  <2>6. told' \in [ Lister -> Seq(1 .. MaxFiles) ]
    <3>1. told[l] \in Seq(1 .. MaxFiles) /\ told \in [ Lister -> Seq(1 .. MaxFiles) ]
      BY DEF ListTyped
    <3> HIDE DEF f
    <3>2. Append(told[l], f) \in Seq(1 .. MaxFiles)
      BY <2>5, <3>1 DEF f
    <3>3. told' = [ told EXCEPT ![l] = Append(told[l], f) ]
      BY <1>6 DEF f
    <3> QED BY <3>1, <3>2, <3>3
  <2>7. ls' \in [ Lister -> [ on : BOOLEAN, it : Iterator ] ]
    BY <1>6, <2>2 DEF ListTyped
  <2>8. ended' \in [ Lister -> BOOLEAN ]
    BY <1>6 DEF ListTyped
  <2> QED BY <1>6, <2>6, <2>7, <2>8 DEF ListTyped
<1> QED BY <1>4, <1>5, <1>6 DEF LsIterate, it

LEMMA StartTyped ==
  ASSUME NEW c, TableInv(c), ListTyped, NEW l \in Lister, StartLs(l)
  PROVE  ListTyped'
<1>1. IterStart \in Iterator
  <2>1. Typed /\ Chained(c) /\ 0 \in Nat
    BY DEF TableInv
  <2> QED BY <2>1, StartIs, PosTyped
<1>2. LiveIds \in SUBSET (1 .. MaxFiles)
  BY DEF LiveIds
<1> QED BY <1>1, <1>2 DEF StartLs, ListTyped

LEMMA StopTyped ==
  ASSUME ListTyped, NEW l \in Lister, StopLs(l)
  PROVE  ListTyped'
BY NotListingTyped DEF StopLs, ListTyped

LEMMA RemoveTyped ==
  ASSUME ListTyped, NEW nm, Remove(nm)
  PROVE  ListTyped'
BY DEF Remove, ListTyped

LEMMA InitTable == Init => TableInv(<< Inode0 >>) /\ ListTyped
<1> SUFFICES ASSUME Init PROVE TableInv(<< Inode0 >>) /\ ListTyped
  OBVIOUS
<1> DEFINE c == << Inode0 >>
<1>1. c \in Seq(Block) /\ Len(c) = 1 /\ c[1] = Inode0 /\ \A k \in 1 .. Len(c) : k = 1
  BY Numbers
<1>2. flash = [ b \in Block |-> IF b = Inode0 THEN InodeBlock(0) ELSE ErasedBlock ]
      /\ maxId = 0 /\ full = FALSE
  BY DEF Init
<1> HIDE DEF c
<1>3. Typed
  <2>1. InodeBlock(0) \in BlockRec /\ ErasedBlock \in BlockRec
    BY ErasedTyped
  <2>2. flash \in [ Block -> BlockRec ]
    BY <1>2, <2>1
  <2>3. MaxFiles \in Nat
    BY TableAssumption
  <2>4. maxId \in 0 .. MaxFiles
    BY <1>2, <2>3
  <2> QED BY <1>2, <2>2, <2>4 DEF Typed
<1>4. /\ ErasedBlock.inode = FALSE /\ ErasedBlock.next = ErasedIdx
      /\ InodeBlock(0).inode = TRUE /\ InodeBlock(0).index = 0 /\ InodeBlock(0).next = ErasedIdx
      /\ InodeBlock(0).pair = ErasedBlock.pair
  BY DEF InodeBlock, ErasedBlock
<1>5. Chained(c)
  BY <1>1, <1>2, <1>4, Numbers DEF Chained
<1>6. ASSUME NEW n \in Nat, Turn(n) <= Len(c) PROVE Pair(c, n) = ErasedEntry
  <2>1. Turn(n) = 1 /\ Sector(n) \in EntrySector
    BY <1>1, <1>6, Places
  <2>2. flash[Inode0].pair = ErasedBlock.pair
    BY <1>2, <1>4, Numbers
  <2> QED BY <1>1, <2>1, <2>2, ErasedTyped DEF Pair
<1>7. Filled(c)
  <2>1. \A n \in Nat : ~ (n < 0)
    OBVIOUS
  <2> QED BY <1>1, <1>2, <1>6, <2>1, FirstPlace DEF Filled
<1>8. NamedOnce(c)
  BY <1>2 DEF NamedOnce, Live
<1>9. ListTyped
  <2>1. << >> \in Seq(1 .. MaxFiles) /\ {} \in SUBSET (1 .. MaxFiles)
    OBVIOUS
  <2> QED BY <2>1, NotListingTyped DEF Init, ListTyped
<1> QED BY <1>3, <1>5, <1>7, <1>8, <1>9 DEF TableInv, c

LEMMA SameTable ==
  ASSUME NEW c, TableInv(c), UNCHANGED << flash, maxId, full >>
  PROVE  /\ TableInv(c)'
         /\ \A n \in Nat : Pos(c, n)' = Pos(c, n) /\ Pair(c, n)' = Pair(c, n)
                           /\ (Live(c, n)' <=> Live(c, n))
<1>1. \A n \in Nat : Pair(c, n)' = Pair(c, n)
  BY DEF Pair
<1>2. \A n \in Nat : Live(c, n)' <=> Live(c, n)
  BY <1>1 DEF Live
<1>3. \A n \in Nat : Pos(c, n)' = Pos(c, n)
  BY DEF Pos, NextBlock
<1>4. Typed'
  BY DEF TableInv, Typed
<1>5. Chained(c)'
  BY DEF TableInv, Chained
<1>6. Filled(c)'
  BY <1>1 DEF TableInv, Filled
<1>7. NamedOnce(c)'
  BY <1>1, <1>2 DEF TableInv, NamedOnce
<1> QED BY <1>1, <1>2, <1>3, <1>4, <1>5, <1>6, <1>7 DEF TableInv

\* The invariant of the table needs no rule.
TableHas == (\E c : TableInv(c)) /\ ListTyped

LEMMA NextTable == TableHas /\ [Next]_vars => TableHas'
<1> SUFFICES ASSUME TableHas, [Next]_vars PROVE TableHas'
  OBVIOUS
<1>1. PICK c : TableInv(c)
  BY DEF TableHas
<1>2. ListTyped
  BY DEF TableHas
<1>3. ASSUME NEW nm \in Name, Create(nm) PROVE TableHas'
  <2>1. UNCHANGED << panic, lists >> /\ \E d : \E wrote \in BOOLEAN : Created(c, d, nm, wrote)
    BY <1>1, <1>3, CreateDoes
  <2>2. \E d : TableInv(d)'
    BY <2>1 DEF Created
  <2>3. ListTyped'
    BY <1>2, <2>1 DEF ListTyped, lists
  <2> QED BY <2>2, <2>3 DEF TableHas
<1>4. ASSUME NEW nm \in Name, Remove(nm) PROVE TableHas'
  <2>1. PICK k \in Nat : Removed(c, k, nm)
    BY <1>1, <1>4, RemoveDoes
  <2> QED BY <1>2, <1>4, <2>1, RemoveTyped DEF TableHas, Removed
<1>5. ASSUME UNCHANGED << flash, maxId, full >>, ListTyped' PROVE TableHas'
  BY <1>1, <1>5, SameTable DEF TableHas
<1>6. ASSUME NEW l \in Lister, StartLs(l) PROVE TableHas'
  BY <1>1, <1>2, <1>5, <1>6, StartTyped DEF StartLs
<1>7. ASSUME NEW l \in Lister, LsIterate(l) PROVE TableHas'
  BY <1>1, <1>2, <1>5, <1>7, IterateTyped DEF LsIterate
<1>8. ASSUME NEW l \in Lister, StopLs(l) PROVE TableHas'
  BY <1>2, <1>5, <1>8, StopTyped DEF StopLs
<1>9. CASE UNCHANGED vars
  <2>1. ListTyped'
    BY <1>2, <1>9 DEF ListTyped, vars, lists
  <2> QED BY <1>5, <1>9, <2>1 DEF vars
<1> QED BY <1>3, <1>4, <1>6, <1>7, <1>8, <1>9 DEF Next

LEMMA TableAlways == Spec => []TableHas
<1>1. Init => TableHas
  BY InitTable DEF TableHas
<1> QED BY <1>1, NextTable, PTL DEF Spec

(***************************************************************************)
(* Whatever calls and listings interleave, and whatever an application     *)
(* does with its iterators: entries, links and iterators keep their types, *)
(* an iterator never stands anywhere but on a pair of sectors of a block,  *)
(* and the chain of inode blocks leads to inode blocks only                *)
(* (flogfs.c:1777-1876, 2001-2034).                                        *)
(***************************************************************************)
THEOREM TableTypeCorrect == Spec => []TableTypeOK
<1>1. TableHas => TableTypeOK
  <2> SUFFICES ASSUME TableHas PROVE TableTypeOK
    OBVIOUS
  <2>1. PICK c : TableInv(c)
    BY DEF TableHas
  <2>2. Typed /\ Chained(c) /\ ListTyped
    BY <2>1 DEF TableHas, TableInv
  <2>3. ASSUME NEW b \in Block
        PROVE  /\ flash[b].inode \in BOOLEAN /\ flash[b].index \in 0 .. Blocks
               /\ flash[b].next \in Block \cup { Invalid }
               /\ \A s \in EntrySector : flash[b].pair[s] \in EntryRec
    <3>1. { 0, 1 } \subseteq 0 .. Blocks
      BY TableAssumption DEF Block
    <3>2. flash[b] \in BlockRec
      BY <2>2 DEF Typed
    <3> QED BY <3>1, <3>2 DEF BlockRec
  <2>4. ASSUME NEW b \in Block, flash[b].inode, NextBlock(b) # Invalid
        PROVE  flash[NextBlock(b)].inode
    <3>1. flash[b].next # ErasedIdx /\ NextBlock(b) = flash[b].next
      BY <2>4 DEF NextBlock
    <3>2. PICK k \in 1 .. Len(c) : c[k] = b
      BY <2>2, <2>4 DEF Chained
    <3>3. k < Len(c) /\ flash[b].next = c[k + 1]
      BY <2>2, <3>1, <3>2 DEF Chained
    <3>4. k + 1 \in 1 .. Len(c)
      BY <2>2, <3>3 DEF Chained
    <3>5. c[k + 1] \in Block
      BY <2>2, <3>4 DEF Chained
    <3> QED BY <2>2, <3>1, <3>3, <3>4, <3>5 DEF Chained
  <2>5. \A l \in Lister :
          /\ ls[l].on \in BOOLEAN /\ ls[l].it \in Iterator
          /\ told[l] \in Seq(1 .. MaxFiles) /\ due[l] \subseteq 1 .. MaxFiles
          /\ ended[l] \in BOOLEAN
    BY <2>2 DEF ListTyped
  <2> QED BY <2>2, <2>3, <2>4, <2>5 DEF TableTypeOK, Typed, ListTyped, EntryRec
<1> QED BY <1>1, TableAlways, PTL

(***************************************************************************)
(* A search along the chain and a walk over all blocks by number tell the  *)
(* same files, and a name has one of them (flogfs.c:762-775, 1493-1616).   *)
(***************************************************************************)
THEOREM ViewsAgreeTheorem == Spec => []ViewsAgree
<1>1. TableHas => ViewsAgree
  <2> SUFFICES ASSUME TableHas, NEW nm \in Name
               PROVE  LET there == { e \in WalkedEntries : e.name = nm /\ ~ e.dead } IN
                      (CheckExists(nm) <=> there # {}) /\ Cardinality(there) <= 1
    BY DEF ViewsAgree
  <2>1. PICK c : TableInv(c)
    BY DEF TableHas
  <2>2. Typed /\ Chained(c) /\ Filled(c) /\ NamedOnce(c) /\ maxId \in Nat
    BY <2>1, Numbers DEF TableInv, Typed
  <2> DEFINE there == { e \in WalkedEntries : e.name = nm /\ ~ e.dead }
  <2>3. ASSUME NEW n \in Nat, Live(c, n), Pair(c, n).name = nm PROVE Pair(c, n) \in there
    <3>1. n < maxId /\ ~ Pair(c, n).dead
      BY <2>3 DEF Live
    <3>2. n \in 0 .. maxId
      BY <2>2, <3>1
    <3>3. Turn(n) <= Len(c)
      BY <2>2, <3>2, FilledIs
    <3>4. c[Turn(n)] \in Block /\ flash[c[Turn(n)]].inode /\ Sector(n) \in EntrySector
      BY <2>2, <3>3, ChainIs, Places
    <3>5. Pair(c, n).id # 0
      BY <2>2, <3>1, <3>3 DEF Filled
    <3> QED BY <2>3, <3>1, <3>4, <3>5 DEF Pair, WalkedEntries, ErasedEntry
  <2>4. ASSUME NEW e \in there
        PROVE  \E n \in Nat : e = Pair(c, n) /\ Live(c, n) /\ Pair(c, n).name = nm
    <3>1. e.name = nm /\ ~ e.dead /\ e # ErasedEntry
      BY DEF WalkedEntries
    <3>2. PICK b \in Block : flash[b].inode /\ \E s \in EntrySector : e = flash[b].pair[s]
      BY DEF WalkedEntries
    <3>3. PICK s \in EntrySector : e = flash[b].pair[s]
      BY <3>2
    <3>4. PICK n \in Nat : Turn(n) <= Len(c) /\ flash[b].pair[s] = Pair(c, n)
      BY <2>1, <3>2, PairNumbered
    <3>5. n < maxId
      BY <2>2, <3>1, <3>3, <3>4 DEF Filled
    <3> QED BY <3>1, <3>3, <3>4, <3>5 DEF Live
  <2> HIDE DEF there
  <2>5. CheckExists(nm) => there # {}
    <3> SUFFICES ASSUME CheckExists(nm) PROVE there # {}
      OBVIOUS
    <3>1. \E k \in Nat : Live(c, k) /\ Pair(c, k).name = nm
      BY <2>1, FoundIs DEF CheckExists
    <3> QED BY <2>3, <3>1
  <2>6. there # {} => CheckExists(nm)
    <3> SUFFICES ASSUME there # {}, ~ CheckExists(nm) PROVE FALSE
      OBVIOUS
    <3>1. Unknown(c, nm)
      BY <2>1, NotFound DEF CheckExists
    <3> QED BY <2>4, <3>1 DEF Unknown
  <2>7. \A e, g \in there : e = g
    BY <2>2, <2>4 DEF NamedOnce
  <2>8. Cardinality(there) <= 1
    <3>1. CASE there = {}
      BY <3>1, FS_EmptySet
    <3>2. CASE there # {}
      <4>1. PICK e \in there : TRUE
        BY <3>2
      <4>2. there = { e }
        BY <2>7, <4>1
      <4> QED BY <4>2, FS_Singleton
    <3> QED BY <3>1, <3>2
  <2> QED BY <2>5, <2>6, <2>8 DEF there
<1> QED BY <1>1, TableAlways, PTL

-----------------------------------------------------------------------------
(* Listings, of an application that stops them before the table grows.     *)

StopKept == "stop_before_growth" \in TableRules

Same(l) ==
  /\ ls'[l] = ls[l] /\ told'[l] = told[l] /\ ended'[l] = ended[l]

\* A call that does not concern a listing leaves it where it is.
LEMMA StaysListed ==
  ASSUME NEW c, TableInv(c), NEW l \in Lister, ListOf(c, l), Same(l),
         due'[l] \subseteq due[l], maxId' \in Nat, maxId' >= maxId,
         \A n \in Nat : Turn(n) <= Len(c) => Pos(c, n)' = Pos(c, n),
         \A f \in due'[l] : f \in 1 .. maxId /\ Live(c, f - 1) => Live(c, f - 1)'
  PROVE  ListOf(c, l)'
<1>1. Typed /\ Chained(c) /\ Filled(c) /\ maxId \in Nat
  BY Numbers DEF TableInv, Typed
<1>2. CASE ls[l].on
  <2>1. PICK n \in 0 .. maxId : Stands(c, l, n)
    BY <1>2 DEF ListOf
  <2>2. n \in Nat /\ Turn(n) <= Len(c) /\ n \in 0 .. maxId'
    BY <1>1, <2>1, FilledIs
  <2>3. ls'[l].it = Pos(c, n)'
    BY <2>1, <2>2 DEF Stands, Same
  <2>4. ASSUME NEW f \in due'[l]
        PROVE  /\ f \in 1 .. maxId' /\ Live(c, f - 1)'
               /\ f <= n \/ ended'[l] => \E i \in 1 .. Len(told'[l]) : told'[l][i] = f
    <3>1. f \in due[l]
      OBVIOUS
    <3>2. f \in 1 .. maxId /\ Live(c, f - 1)
      BY <2>1, <3>1 DEF Stands
    <3>3. f \in 1 .. maxId'
      BY <1>1, <3>2
    <3>4. f <= n \/ ended[l] => \E i \in 1 .. Len(told[l]) : told[l][i] = f
      BY <2>1, <3>1 DEF Stands
    <3> QED BY <3>2, <3>3, <3>4 DEF Same
  <2>5. /\ \A i \in 1 .. Len(told'[l]) : told'[l][i] \in 1 .. n
        /\ \A i, j \in 1 .. Len(told'[l]) : i < j => told'[l][i] < told'[l][j]
    BY <2>1 DEF Stands, Same
  <2>6. Stands(c, l, n)'
    BY <2>3, <2>4, <2>5 DEF Stands
  <2>7. ls'[l].on
    BY <1>2 DEF Same
  <2> QED BY <2>2, <2>6, <2>7 DEF ListOf
<1>3. CASE ~ ls[l].on
  BY <1>3 DEF ListOf, Same, NotListing, Stuck
<1> QED BY <1>2, <1>3

\* One that goes on while the table stays as it is.
LEMMA StaysHere ==
  ASSUME NEW c, TableInv(c), UNCHANGED << flash, maxId, full >>,
         NEW l \in Lister, ListOf(c, l), Same(l), due'[l] = due[l]
  PROVE  ListOf(c, l)'
<1>1. maxId \in Nat
  BY Numbers DEF TableInv, Typed
<1>2. \A n \in Nat : Pos(c, n)' = Pos(c, n) /\ (Live(c, n)' <=> Live(c, n))
  BY SameTable
<1>3. ASSUME NEW f \in due'[l], f \in 1 .. maxId, Live(c, f - 1) PROVE Live(c, f - 1)'
  <2>1. f - 1 \in Nat
    BY <1>1, <1>3
  <2> QED BY <1>2, <1>3, <2>1
<1>4. maxId' \in Nat /\ maxId' >= maxId
  BY <1>1
<1>5. \A f \in due'[l] : f \in 1 .. maxId /\ Live(c, f - 1) => Live(c, f - 1)'
  BY <1>3
<1> QED BY <1>2, <1>4, <1>5, StaysListed

LEMMA CreateListed ==
  ASSUME StopKept, NEW c, TableInv(c), ListInv(c), NEW nm \in Name, Create(nm)
  PROVE  \E d : TableInv(d)' /\ ListInv(d)'
<1>1. UNCHANGED lists
  BY CreateDoes
<1>2. PICK d : \E wrote \in BOOLEAN : Created(c, d, nm, wrote)
  BY CreateDoes
<1>3. PICK wrote \in BOOLEAN : Created(c, d, nm, wrote)
  BY <1>2
<1>4. maxId \in Nat /\ maxId' \in Nat /\ maxId' >= maxId
  <2>1. maxId \in Nat
    BY Numbers DEF TableInv, Typed
  <2> QED BY <1>3, <2>1 DEF Created
<1>5. CASE d = c /\ \A n \in Nat : Turn(n) <= Len(c) => Pos(c, n)' = Pos(c, n)
  <2>1. ASSUME NEW l \in Lister PROVE ListOf(c, l)'
    <3>1. Same(l) /\ due'[l] = due[l] /\ ListOf(c, l)
      BY <1>1 DEF Same, lists, ListInv
    <3>2. ASSUME NEW f \in due'[l], f \in 1 .. maxId, Live(c, f - 1) PROVE Live(c, f - 1)'
      <4>1. f - 1 \in Nat /\ f - 1 < maxId
        BY <1>4, <3>2
      <4>2. Pair(c, f - 1)' = Pair(c, f - 1)
        BY <1>3, <1>5, <4>1 DEF Created
      <4> QED BY <1>4, <3>2, <4>1, <4>2 DEF Live
    <3> QED BY <1>4, <1>5, <3>1, <3>2, StaysListed
  <2> QED BY <1>3, <1>5, <2>1 DEF ListInv, Created
<1>6. CASE ~ Listing
  <2>1. ASSUME NEW l \in Lister PROVE ListOf(d, l)'
    <3>1. ~ ls[l].on
      BY <1>6 DEF Listing
    <3> QED BY <1>1, <3>1 DEF ListOf, ListInv, lists, NotListing, Stuck
  <2> QED BY <1>3, <2>1 DEF ListInv, Created
<1> QED BY <1>3, <1>5, <1>6 DEF Created, StopKept

LEMMA RemoveListed ==
  ASSUME NEW c, TableInv(c), ListInv(c), NEW nm \in Name, Remove(nm)
  PROVE  TableInv(c)' /\ ListInv(c)'
<1>1. PICK k \in Nat : Removed(c, k, nm)
  BY RemoveDoes
<1>2. /\ Typed /\ Chained(c) /\ Filled(c) /\ maxId \in Nat
      /\ maxId' = maxId
  BY <1>1, Numbers DEF TableInv, Typed, Removed
<1>3. ASSUME NEW l \in Lister PROVE ListOf(c, l)'
  <2>1. Same(l) /\ ListOf(c, l)
    BY DEF Remove, Same, ListInv
  <2>2. due'[l] = due[l] \ { k + 1 }
    BY <1>1 DEF Removed
  <2>3. ASSUME NEW f \in due'[l], f \in 1 .. maxId, Live(c, f - 1) PROVE Live(c, f - 1)'
    <3>1. f - 1 \in Nat /\ f - 1 # k /\ f - 1 \in 0 .. maxId
      BY <1>2, <2>2, <2>3
    <3>2. Turn(f - 1) <= Len(c)
      BY <1>2, <3>1, FilledIs
    <3>3. Pair(c, f - 1)'.dead <=> Pair(c, f - 1).dead
      BY <1>1, <3>1, <3>2 DEF Removed
    <3> QED BY <1>2, <2>3, <3>3 DEF Live
  <2> QED BY <1>1, <1>2, <2>1, <2>2, <2>3, StaysListed DEF Removed
<1> QED BY <1>1, <1>3 DEF ListInv, Removed

LEMMA StartListed ==
  ASSUME NEW c, TableInv(c), ListInv(c), ListTyped, NEW l \in Lister, StartLs(l)
  PROVE  ListInv(c)'
<1>1. /\ Typed /\ Chained(c) /\ maxId \in Nat /\ UNCHANGED << flash, maxId, full >>
  BY Numbers DEF TableInv, Typed, StartLs
<1>2. ASSUME NEW m \in Lister, m # l PROVE ListOf(c, m)'
  <2>1. Same(m) /\ due'[m] = due[m] /\ ListOf(c, m)
    BY <1>2 DEF StartLs, Same, ListInv, ListTyped
  <2> QED BY <1>1, <2>1, StaysHere
<1>3. ListOf(c, l)'
  <2>1. /\ ls'[l] = [ on |-> TRUE, it |-> Pos(c, 0) ] /\ told'[l] = << >> /\ due'[l] = LiveIds
        /\ ended'[l] = FALSE
    BY <1>1, StartIs DEF StartLs, ListTyped
  <2>2. Pos(c, 0)' = Pos(c, 0) /\ \A n \in Nat : Live(c, n)' <=> Live(c, n)
    BY <1>1, SameTable
  <2>3. ASSUME NEW f \in due'[l]
        PROVE  /\ f \in 1 .. maxId' /\ Live(c, f - 1)' /\ ~ (f <= 0)
    <3>1. f \in 1 .. maxId /\ Live(c, f - 1)
      BY <2>1, LiveIdsAre
    <3>2. f - 1 \in Nat /\ ~ (f <= 0)
      BY <1>1, <3>1
    <3> QED BY <1>1, <2>2, <3>1, <3>2
  <2>4. Len(told'[l]) = 0 /\ \A i \in 1 .. 0 : FALSE
    BY <2>1
  <2>5. Stands(c, l, 0)'
    BY <2>1, <2>2, <2>3, <2>4 DEF Stands
  <2>6. 0 \in 0 .. maxId' /\ ls'[l].on
    BY <1>1, <2>1
  <2> QED BY <2>5, <2>6 DEF ListOf
<1> QED BY <1>2, <1>3 DEF ListInv

LEMMA StopListed ==
  ASSUME NEW c, TableInv(c), ListInv(c), ListTyped, NEW l \in Lister, StopLs(l)
  PROVE  ListInv(c)'
<1>1. UNCHANGED << flash, maxId, full >>
  BY DEF StopLs
<1>2. ASSUME NEW m \in Lister, m # l PROVE ListOf(c, m)'
  <2>1. Same(m) /\ due'[m] = due[m] /\ ListOf(c, m)
    BY <1>2 DEF StopLs, Same, ListInv, ListTyped
  <2> QED BY <1>1, <2>1, StaysHere
<1>3. ListOf(c, l)'
  <2>1. ls'[l] = NotListing /\ told'[l] = << >> /\ due'[l] = {} /\ ended'[l] = FALSE
    BY DEF StopLs, ListTyped
  <2>2. NotListing' = NotListing /\ ~ NotListing.on
    BY NotListingTyped DEF NotListing, Stuck
  <2> QED BY <2>1, <2>2 DEF ListOf
<1> QED BY <1>2, <1>3 DEF ListInv

\* What a call of flogfs_ls_iterate does in a listing that has passed n
\* entries: the next live one is number k, or there is none.
Iterated(c, l, n, k) ==
  /\ k \in n .. maxId /\ \A j \in n .. k - 1 : ~ Live(c, j)
  /\ UNCHANGED << flash, maxId, full, panic, due >>
  /\ \/ /\ k = maxId
        /\ ls' = [ ls EXCEPT ![l].it = Pos(c, k) ]
        /\ ended' = [ ended EXCEPT ![l] = TRUE ] /\ told' = told
     \/ /\ k < maxId /\ Live(c, k)
        /\ ls' = [ ls EXCEPT ![l].it = Pos(c, k + 1) ]
        /\ told' = [ told EXCEPT ![l] = Append(told[l], k + 1) ]
        /\ ended' = [ ended EXCEPT ![l] = FALSE ]

LEMMA IterateDoes ==
  ASSUME NEW c, TableInv(c), NEW l \in Lister, NEW n \in 0 .. maxId,
         ls[l].it = Pos(c, n), LsIterate(l)
  PROVE  \E k \in n .. maxId : Iterated(c, l, n, k)
<1>1. Typed /\ Chained(c) /\ Filled(c) /\ maxId \in Nat
  BY Numbers DEF TableInv, Typed
<1>2. PICK k \in n .. maxId :
        /\ NextToTell(Pos(c, n)) = Pos(c, k)
        /\ k = maxId \/ Live(c, k)
        /\ \A j \in n .. k - 1 : ~ Live(c, j)
  BY <1>1, NextToTellIs
<1>3. k \in 0 .. maxId /\ k \in Nat /\ Turn(k) <= Len(c)
  <2>1. k \in 0 .. maxId
    BY <1>1
  <2> QED BY <1>1, <2>1, FilledIs
<1> DEFINE it == Pos(c, k)
<1>4. ~ IsStuck(it) /\ (Unused(it) <=> k = maxId) /\ Entry(it) = Pair(c, k)
  BY <1>1, <1>3, FilledIs, PosTyped
<1>5. k # maxId =>
        /\ k < maxId /\ Live(c, k) /\ Entry(it).id = k + 1
        /\ IterNext(it) = Pos(c, k + 1) /\ ~ IsStuck(Pos(c, k + 1))
  <2> SUFFICES ASSUME k # maxId
               PROVE  /\ k < maxId /\ Live(c, k) /\ Entry(it).id = k + 1
                      /\ IterNext(it) = Pos(c, k + 1) /\ ~ IsStuck(Pos(c, k + 1))
    OBVIOUS
  <2>1. k < maxId /\ k + 1 \in 0 .. maxId /\ k + 1 \in Nat
    BY <1>1, <1>3
  <2>2. Turn(k + 1) <= Len(c)
    BY <1>1, <2>1, FilledIs
  <2>3. Pair(c, k).id = k + 1
    BY <1>1, <1>3, <2>1 DEF Filled
  <2>4. IterNext(it) = Pos(c, k + 1) /\ ~ IsStuck(Pos(c, k + 1))
    BY <1>1, <1>3, <2>1, <2>2, PosNext, PosTyped
  <2> QED BY <1>2, <1>4, <2>1, <2>3, <2>4
<1>6. NextToTell(ls[l].it) = it
  BY <1>2
<1> HIDE DEF it
<1>7. Outcome(it) = IF k = maxId THEN "end" ELSE "name"
  BY <1>4, <1>5 DEF Outcome
<1>8. CASE k = maxId
  <2>1. /\ ls' = [ ls EXCEPT ![l].it = it ] /\ ended' = [ ended EXCEPT ![l] = TRUE ]
        /\ UNCHANGED << flash, maxId, full, told, due, panic >>
    BY <1>6, <1>7, <1>8 DEF LsIterate
  <2>2. Iterated(c, l, n, k)
    BY <1>2, <1>8, <2>1 DEF Iterated, it
  <2> QED BY <2>2
<1>9. CASE k # maxId
  <2>1. /\ ls' = [ ls EXCEPT ![l].it = IterNext(it) ]
        /\ told' = [ told EXCEPT ![l] = Append(@, Entry(it).id) ]
        /\ ended' = [ ended EXCEPT ![l] = FALSE ]
        /\ UNCHANGED << flash, maxId, full, due, panic >>
    BY <1>6, <1>7, <1>9 DEF LsIterate
  <2>2. Entry(it).id = k + 1 /\ IterNext(it) = Pos(c, k + 1) /\ k < maxId /\ Live(c, k)
    BY <1>5, <1>9
  <2>3. told' = [ told EXCEPT ![l] = Append(told[l], k + 1) ]
    BY <2>1, <2>2
  <2>4. Iterated(c, l, n, k)
    BY <1>2, <2>1, <2>2, <2>3 DEF Iterated
  <2> QED BY <2>4
<1> QED BY <1>8, <1>9

\* The listing that goes on is one of an iterator in use.
LEMMA IterateFinds ==
  ASSUME NEW c, TableInv(c), ListInv(c), NEW l \in Lister, LsIterate(l)
  PROVE  \E n \in 0 .. maxId : Stands(c, l, n) /\ \E k \in n .. maxId : Iterated(c, l, n, k)
<1>1. ls[l].on
  BY DEF LsIterate
<1>2. PICK n \in 0 .. maxId : Stands(c, l, n)
  BY <1>1 DEF ListInv, ListOf
<1>3. \E k \in n .. maxId : Iterated(c, l, n, k)
  BY <1>2, IterateDoes DEF Stands
<1> QED BY <1>2, <1>3

\* A number above all of an increasing sequence keeps it increasing.
LEMMA Grown ==
  ASSUME NEW S, NEW s \in Seq(S), NEW n \in Nat, NEW k \in Nat, n <= k, k + 1 \in S,
         \A i \in 1 .. Len(s) : s[i] \in 1 .. n,
         \A i, j \in 1 .. Len(s) : i < j => s[i] < s[j]
  PROVE  /\ Len(Append(s, k + 1)) = Len(s) + 1 /\ Append(s, k + 1)[Len(s) + 1] = k + 1
         /\ \A i \in 1 .. Len(s) : Append(s, k + 1)[i] = s[i]
         /\ \A i \in 1 .. Len(s) + 1 : Append(s, k + 1)[i] \in 1 .. k + 1
         /\ \A i, j \in 1 .. Len(s) + 1 : i < j => Append(s, k + 1)[i] < Append(s, k + 1)[j]
<1> DEFINE t == Append(s, k + 1)
<1>1. /\ Len(s) \in Nat /\ Len(t) = Len(s) + 1 /\ t[Len(s) + 1] = k + 1
      /\ \A i \in 1 .. Len(s) : t[i] = s[i]
  OBVIOUS
<1> HIDE DEF t
<1>2. ASSUME NEW i \in 1 .. Len(s) + 1
      PROVE  t[i] \in 1 .. k + 1 /\ (i # Len(s) + 1 => i \in 1 .. Len(s) /\ t[i] \in 1 .. n)
  <2>1. CASE i = Len(s) + 1
    BY <1>1, <2>1
  <2>2. CASE i # Len(s) + 1
    <3>1. i \in 1 .. Len(s)
      BY <1>1, <2>2
    <3>2. t[i] \in 1 .. n
      BY <1>1, <3>1
    <3> QED BY <3>1, <3>2
  <2> QED BY <2>1, <2>2
<1>3. ASSUME NEW i \in 1 .. Len(s) + 1, NEW j \in 1 .. Len(s) + 1, i < j PROVE t[i] < t[j]
  <2>1. i \in 1 .. Len(s) /\ t[i] \in 1 .. n
    BY <1>1, <1>2, <1>3
  <2>2. CASE j = Len(s) + 1
    BY <1>1, <2>1, <2>2
  <2>3. CASE j # Len(s) + 1
    BY <1>1, <1>2, <1>3, <2>1, <2>3
  <2> QED BY <2>2, <2>3
<1> QED BY <1>1, <1>2, <1>3 DEF t

LEMMA IterateListed ==
  ASSUME NEW c, TableInv(c), ListInv(c), ListTyped, NEW l \in Lister, LsIterate(l)
  PROVE  ListInv(c)' /\ panic' = panic
<1>1. PICK n \in 0 .. maxId : Stands(c, l, n) /\ \E k \in n .. maxId : Iterated(c, l, n, k)
  BY IterateFinds
<1>2. PICK k \in n .. maxId : Iterated(c, l, n, k)
  BY <1>1
<1>3. /\ Typed /\ Chained(c) /\ Filled(c) /\ maxId \in Nat /\ MaxFiles \in Nat
      /\ UNCHANGED << flash, maxId, full, panic, due >>
  BY <1>2, Numbers DEF TableInv, Typed, Iterated
<1>4. n \in Nat /\ k \in Nat /\ n <= k /\ k <= maxId
  BY <1>3
<1>5. /\ \A i \in Nat : Pos(c, i)' = Pos(c, i)
      /\ \A i \in Nat : Live(c, i)' <=> Live(c, i)
  BY <1>3, SameTable
<1>6. ASSUME NEW m \in Lister, m # l PROVE ListOf(c, m)'
  <2>1. Same(m) /\ due'[m] = due[m] /\ ListOf(c, m)
    BY <1>2, <1>6 DEF Iterated, Same, ListInv, ListTyped
  <2> QED BY <1>3, <2>1, StaysHere
<1>7. ls[l].on /\ told[l] \in Seq(1 .. MaxFiles) /\ Len(told[l]) \in Nat
  <2>1. told[l] \in Seq(1 .. MaxFiles)
    BY DEF ListTyped
  <2> QED BY <2>1 DEF LsIterate
<1>8. /\ \A i \in 1 .. Len(told[l]) : told[l][i] \in 1 .. n
      /\ \A i, j \in 1 .. Len(told[l]) : i < j => told[l][i] < told[l][j]
  BY <1>1 DEF Stands
<1>9. ASSUME NEW f \in due[l]
      PROVE  /\ f \in 1 .. maxId' /\ Live(c, f - 1)' /\ Live(c, f - 1) /\ f - 1 \in Nat
             /\ f <= k => \E i \in 1 .. Len(told[l]) : told[l][i] = f
  <2>1. f \in 1 .. maxId /\ Live(c, f - 1) /\ (f <= n => \E i \in 1 .. Len(told[l]) : told[l][i] = f)
    BY <1>1 DEF Stands
  <2>2. f - 1 \in Nat /\ (f <= k /\ ~ (f <= n) => f - 1 \in n .. k - 1)
    BY <1>3, <1>4, <2>1
  <2>3. \A j \in n .. k - 1 : ~ Live(c, j)
    BY <1>2 DEF Iterated
  <2> QED BY <1>3, <1>5, <2>1, <2>2, <2>3
<1>10. CASE /\ k = maxId
            /\ ls' = [ ls EXCEPT ![l].it = Pos(c, k) ]
            /\ ended' = [ ended EXCEPT ![l] = TRUE ] /\ told' = told
  <2>1. ls'[l].it = Pos(c, k)' /\ ls'[l].on /\ due'[l] = due[l] /\ told'[l] = told[l]
    BY <1>3, <1>4, <1>5, <1>7, <1>10 DEF ListTyped
  <2>2. ASSUME NEW f \in due'[l]
        PROVE  /\ f \in 1 .. maxId' /\ Live(c, f - 1)'
               /\ f <= k \/ ended'[l] => \E i \in 1 .. Len(told'[l]) : told'[l][i] = f
    <3>1. f \in 1 .. maxId /\ f <= k
      BY <1>3, <1>9, <1>10, <2>1
    <3> QED BY <1>9, <2>1, <3>1
  <2>3. \A i \in 1 .. Len(told'[l]) : told'[l][i] \in 1 .. k
    BY <1>4, <1>8, <2>1
  <2>4. Stands(c, l, k)'
    BY <1>8, <2>1, <2>2, <2>3 DEF Stands
  <2>5. k \in 0 .. maxId'
    BY <1>3, <1>4
  <2>6. ListOf(c, l)'
    BY <2>1, <2>4, <2>5 DEF ListOf
  <2> QED BY <1>3, <1>6, <2>6 DEF ListInv
<1>11. CASE /\ k < maxId /\ Live(c, k)
            /\ ls' = [ ls EXCEPT ![l].it = Pos(c, k + 1) ]
            /\ told' = [ told EXCEPT ![l] = Append(told[l], k + 1) ]
            /\ ended' = [ ended EXCEPT ![l] = FALSE ]
  <2>1. k + 1 \in Nat /\ k + 1 \in 0 .. maxId'
    BY <1>3, <1>4, <1>11
  <2>2. ls'[l].it = Pos(c, k + 1)' /\ ls'[l].on /\ due'[l] = due[l]
        /\ told'[l] = Append(told[l], k + 1) /\ ended'[l] = FALSE
    BY <1>3, <1>5, <1>7, <1>11, <2>1 DEF ListTyped
  <2>3. /\ Len(told'[l]) = Len(told[l]) + 1 /\ told'[l][Len(told[l]) + 1] = k + 1
        /\ \A i \in 1 .. Len(told[l]) : told'[l][i] = told[l][i]
        /\ \A i \in 1 .. Len(told'[l]) : told'[l][i] \in 1 .. k + 1
        /\ \A i, j \in 1 .. Len(told'[l]) : i < j => told'[l][i] < told'[l][j]
    <3>1. k + 1 \in 1 .. MaxFiles
      BY <1>3, <1>4, <1>11 DEF Typed
    <3> QED BY <1>4, <1>7, <1>8, <2>2, <3>1, Grown
  <2>4. ASSUME NEW f \in due'[l]
        PROVE  /\ f \in 1 .. maxId' /\ Live(c, f - 1)'
               /\ f <= k + 1 \/ ended'[l] => \E i \in 1 .. Len(told'[l]) : told'[l][i] = f
    <3>1. f \in due[l] /\ f \in Nat
      BY <1>3, <1>9, <2>2
    <3>2. f <= k \/ f = k + 1 \/ ~ (f <= k + 1)
      BY <1>4, <3>1
    <3>3. ASSUME f <= k PROVE \E i \in 1 .. Len(told'[l]) : told'[l][i] = f
      <4>1. PICK i \in 1 .. Len(told[l]) : told[l][i] = f
        BY <1>9, <3>1, <3>3
      <4>2. i \in 1 .. Len(told'[l]) /\ told'[l][i] = f
        BY <1>7, <2>3, <4>1
      <4> QED BY <4>2
    <3>4. ASSUME f = k + 1 PROVE \E i \in 1 .. Len(told'[l]) : told'[l][i] = f
      <4>1. Len(told[l]) + 1 \in 1 .. Len(told'[l])
        BY <1>7, <2>3
      <4> QED BY <2>3, <3>4, <4>1
    <3> QED BY <1>9, <2>2, <3>1, <3>2, <3>3, <3>4
  <2>5. Stands(c, l, k + 1)'
    BY <2>2, <2>3, <2>4 DEF Stands
  <2>6. ListOf(c, l)'
    BY <2>1, <2>2, <2>5 DEF ListOf
  <2> QED BY <1>3, <1>6, <2>6 DEF ListInv
<1> QED BY <1>2, <1>10, <1>11 DEF Iterated

-----------------------------------------------------------------------------
(* The invariant under the rule, and what it says.                         *)

Whole(c) == TableInv(c) /\ ListInv(c) /\ ListTyped /\ ~ panic

WholeInv == \E c : Whole(c)

LEMMA InitWhole == Init => WholeInv
<1> SUFFICES ASSUME Init PROVE WholeInv
  OBVIOUS
<1>1. TableInv(<< Inode0 >>) /\ ListTyped
  BY InitTable
<1>2. ASSUME NEW l \in Lister PROVE ListOf(<< Inode0 >>, l)
  BY NotListingTyped DEF Init, ListOf
<1>3. ~ panic
  BY DEF Init
<1>4. Whole(<< Inode0 >>)
  BY <1>1, <1>2, <1>3 DEF Whole, ListInv
<1> QED BY <1>4 DEF WholeInv

LEMMA NextWhole ==
  ASSUME StopKept
  PROVE  WholeInv /\ [Next]_vars => WholeInv'
<1> SUFFICES ASSUME WholeInv, [Next]_vars PROVE WholeInv'
  OBVIOUS
<1>1. PICK c : Whole(c)
  BY DEF WholeInv
<1>2. /\ TableInv(c) /\ ListInv(c) /\ ListTyped /\ ~ panic
  BY <1>1 DEF Whole
<1>3. ListTyped'
  <2>1. TableHas
    BY <1>2 DEF TableHas
  <2> QED BY <2>1, NextTable DEF TableHas
<1>4. ASSUME NEW nm \in Name, Create(nm) PROVE WholeInv'
  <2>1. ~ panic'
    BY <1>2, <1>4, CreateDoes
  <2>2. PICK d : TableInv(d)' /\ ListInv(d)'
    BY <1>2, <1>4, CreateListed
  <2> QED BY <1>3, <2>1, <2>2 DEF WholeInv, Whole
<1>5. ASSUME NEW nm \in Name, Remove(nm) PROVE WholeInv'
  <2>1. ~ panic'
    BY <1>2, <1>5 DEF Remove
  <2>2. TableInv(c)' /\ ListInv(c)'
    BY <1>2, <1>5, RemoveListed
  <2> QED BY <1>3, <2>1, <2>2 DEF WholeInv, Whole
<1>6. ASSUME UNCHANGED << flash, maxId, full, panic >>, ListInv(c)' PROVE WholeInv'
  <2>1. TableInv(c)'
    BY <1>2, <1>6, SameTable
  <2> QED BY <1>2, <1>3, <1>6, <2>1 DEF WholeInv, Whole
<1>7. ASSUME NEW l \in Lister, StartLs(l) PROVE WholeInv'
  <2>1. ListInv(c)'
    BY <1>2, <1>7, StartListed
  <2> QED BY <1>6, <1>7, <2>1 DEF StartLs
<1>8. ASSUME NEW l \in Lister, LsIterate(l) PROVE WholeInv'
  <2>1. ListInv(c)' /\ panic' = panic
    BY <1>2, <1>8, IterateListed
  <2> QED BY <1>6, <1>8, <2>1 DEF LsIterate
<1>9. ASSUME NEW l \in Lister, StopLs(l) PROVE WholeInv'
  <2>1. ListInv(c)'
    BY <1>2, <1>9, StopListed
  <2> QED BY <1>6, <1>9, <2>1 DEF StopLs
<1>10. CASE UNCHANGED vars
  <2>1. ASSUME NEW l \in Lister PROVE ListOf(c, l)'
    BY <1>2, <1>10, StaysHere DEF Same, vars, lists, ListInv
  <2> QED BY <1>6, <1>10, <2>1 DEF vars, ListInv
<1> QED BY <1>4, <1>5, <1>7, <1>8, <1>9, <1>10 DEF Next

LEMMA WholeAlways ==
  ASSUME StopKept
  PROVE  Spec => []WholeInv
<1>1. WholeInv /\ [Next]_vars => WholeInv'
  BY NextWhole
<1> QED BY <1>1, InitWhole, PTL DEF Spec

(***************************************************************************)
(* If no file that needs another inode block is created while a listing    *)
(* goes on, no iterator comes to the assertion of flogfs.c:1826, however   *)
(* calls and listings interleave.                                          *)
(***************************************************************************)
THEOREM IteratorStaysTheorem ==
  ASSUME StopKept
  PROVE  Spec => []IteratorStays
<1>1. WholeInv => IteratorStays
  BY DEF WholeInv, Whole, IteratorStays
<1>2. Spec => []WholeInv
  BY WholeAlways
<1> QED BY <1>1, <1>2, PTL

(***************************************************************************)
(* Under the same rule a listing that came to its end told every file that *)
(* was there when it began and still is, and none twice                    *)
(* (flogfs.c:1356-1385).                                                   *)
(***************************************************************************)
THEOREM ListingCompleteTheorem ==
  ASSUME StopKept
  PROVE  Spec => []ListingComplete
<1>1. WholeInv => ListingComplete
  <2> SUFFICES ASSUME WholeInv, NEW l \in Lister
               PROVE  /\ ended[l] => due[l] \subseteq { told[l][i] : i \in 1 .. Len(told[l]) }
                      /\ \A i, j \in 1 .. Len(told[l]) : i < j => told[l][i] < told[l][j]
    BY DEF ListingComplete
  <2>1. PICK c : Whole(c)
    BY DEF WholeInv
  <2>2. ListOf(c, l)
    BY <2>1 DEF Whole, ListInv
  <2>3. CASE ls[l].on
    <3>1. PICK n \in 0 .. maxId : Stands(c, l, n)
      BY <2>2, <2>3 DEF ListOf
    <3> QED BY <3>1 DEF Stands
  <2>4. CASE ~ ls[l].on
    BY <2>2, <2>4 DEF ListOf
  <2> QED BY <2>3, <2>4
<1>2. Spec => []WholeInv
  BY WholeAlways
<1> QED BY <1>1, <1>2, PTL

-----------------------------------------------------------------------------
(* The table is a directory.                                               *)

\* The entries are those of the pairs along the chain.
EntriesOf(c) ==
  /\ maxId \in Nat /\ Len(Entries) = maxId
  /\ Entries = [ i \in 1 .. maxId |-> Entries[i] ]
  /\ \A i \in 1 .. maxId :
       /\ Entries[i] = [ name |-> Entries[i].name, live |-> Entries[i].live ]
       /\ Entries[i].name = Pair(c, i - 1).name
       /\ Entries[i].live \in BOOLEAN /\ (Entries[i].live <=> ~ Pair(c, i - 1).dead)

EntriesAre == \A c : TableInv(c) => EntriesOf(c)

LEMMA DirEntry ==
  ASSUME NEW x, NEW y \in BOOLEAN, NEW e, e = [ name |-> x, live |-> ~ y ]
  PROVE  /\ e = [ name |-> e.name, live |-> e.live ] /\ e.name = x
         /\ e.live \in BOOLEAN /\ (e.live <=> ~ y)
<1>1. CASE y
  <2>1. e = [ name |-> x, live |-> FALSE ]
    BY <1>1
  <2> QED BY <1>1, <2>1
<1>2. CASE ~ y
  <2>1. e = [ name |-> x, live |-> TRUE ]
    BY <1>2
  <2> QED BY <1>2, <2>1
<1> QED BY <1>1, <1>2

LEMMA EntriesHold == EntriesAre
<1> SUFFICES ASSUME NEW c, TableInv(c) PROVE EntriesOf(c)
  BY DEF EntriesAre
<1>1. Typed /\ Chained(c) /\ Filled(c) /\ maxId \in Nat
  BY Numbers DEF TableInv, Typed
<1>2. ASSUME NEW i \in 1 .. maxId
      PROVE  /\ Entries[i] = [ name |-> Entries[i].name, live |-> Entries[i].live ]
             /\ Entries[i].name = Pair(c, i - 1).name
             /\ Entries[i].live \in BOOLEAN /\ (Entries[i].live <=> ~ Pair(c, i - 1).dead)
  <2>1. i - 1 \in 0 .. maxId /\ i - 1 \in Nat
    BY <1>1
  <2>2. Turn(i - 1) <= Len(c)
    BY <1>1, <2>1, FilledIs
  <2>3. EntryAt(i - 1) = Pair(c, i - 1)
    BY <1>1, <2>1, <2>2, EntryAtIs
  <2>4. Pair(c, i - 1).dead \in BOOLEAN
    BY <1>1, <2>1, <2>2, ChainIs DEF EntryRec
  <2>5. Entries[i] = [ name |-> Pair(c, i - 1).name, live |-> ~ Pair(c, i - 1).dead ]
    BY <2>3 DEF Entries
  <2> DEFINE e == Entries[i]  p == Pair(c, i - 1)
  <2> HIDE DEF e, p
  <2>6. p.dead \in BOOLEAN /\ e = [ name |-> p.name, live |-> ~ p.dead ]
    BY <2>4, <2>5 DEF e, p
  <2>7. /\ e = [ name |-> e.name, live |-> e.live ] /\ e.name = p.name
        /\ e.live \in BOOLEAN /\ (e.live <=> ~ p.dead)
    BY <2>6, DirEntry
  <2> QED BY <2>7 DEF e, p
<1>3. Entries = [ i \in 1 .. maxId |-> Entries[i] ]
  BY DEF Entries
<1>4. Len(Entries) = maxId
  BY <1>1 DEF Entries
<1> QED BY <1>1, <1>2, <1>3, <1>4 DEF EntriesOf

LEMMA LiveAre ==
  ASSUME NEW c, EntriesOf(c)
  PROVE  /\ \A i \in 1 .. maxId : Dir!Live(i) <=> Live(c, i - 1)
         /\ \A i : Dir!Live(i) => i \in 1 .. maxId
<1>1. maxId \in Nat /\ Len(Entries) = maxId
  BY DEF EntriesOf
<1>2. ASSUME NEW i \in 1 .. maxId PROVE Dir!Live(i) <=> Live(c, i - 1)
  <2>1. i - 1 < maxId /\ i \in 1 .. Len(Entries)
    BY <1>1
  <2>2. Entries[i].live <=> ~ Pair(c, i - 1).dead
    BY DEF EntriesOf
  <2> QED BY <2>1, <2>2 DEF Dir!Live, Live
<1>3. \A i : Dir!Live(i) => i \in 1 .. maxId
  BY <1>1 DEF Dir!Live
<1> QED BY <1>2, <1>3

\* Entries that name the same file in the same state are the same.
LEMMA SameEntry ==
  ASSUME NEW e, NEW g, e = [ name |-> e.name, live |-> e.live ], e.live \in BOOLEAN,
         g = [ name |-> g.name, live |-> g.live ], g.live \in BOOLEAN,
         e.name = g.name, e.live <=> g.live
  PROVE  e = g
<1>1. e.live = g.live
  OBVIOUS
<1> QED BY <1>1

LEMMA DeadEntry ==
  ASSUME NEW S, NEW e \in [ name : S, live : BOOLEAN ], NEW g \in [ name : S, live : BOOLEAN ],
         g.name = e.name, g.live = FALSE
  PROVE  [ e EXCEPT !.live = FALSE ] = g
OBVIOUS

LEMMA OneMore ==
  ASSUME NEW n \in Nat, NEW s, s = [ i \in 1 .. n |-> s[i] ], NEW e,
         NEW t, t = [ i \in 1 .. n + 1 |-> IF i = n + 1 THEN e ELSE s[i] ]
  PROVE  t = Append(s, e)
<1> DEFINE S == { s[i] : i \in 1 .. n } \cup { e }
<1>1. s \in [ 1 .. n -> S ]
  OBVIOUS
<1>2. s \in Seq(S) /\ Len(s) = n /\ e \in S
  BY <1>1
<1> HIDE DEF S
<1> DEFINE u == Append(s, e)
<1>3. /\ u \in Seq(S) /\ Len(u) = n + 1 /\ u[n + 1] = e
      /\ \A i \in 1 .. n : u[i] = s[i]
  BY <1>2
<1> HIDE DEF u
<1>4. u = [ i \in 1 .. n + 1 |-> u[i] ]
  BY <1>3
<1>5. ASSUME NEW i \in 1 .. n + 1 PROVE u[i] = t[i]
  BY <1>3
<1>6. t = [ i \in 1 .. n + 1 |-> t[i] ]
  OBVIOUS
<1> QED BY <1>4, <1>5, <1>6 DEF u

\* Old entries keep their names, and all but the k-th whether they are dead.
KeepsPairs(c, d, k) ==
  \A i \in 1 .. maxId :
    /\ Pair(d, i - 1)'.name = Pair(c, i - 1).name
    /\ Pair(d, i - 1)'.dead <=> Pair(c, i - 1).dead \/ i = k

LEMMA OldEntries ==
  ASSUME NEW c, NEW d, EntriesOf(c), EntriesOf(d)', NEW k, KeepsPairs(c, d, k), maxId' \in Nat,
         maxId' >= maxId
  PROVE  \A i \in 1 .. maxId : i \in 1 .. maxId' /\
           Entries'[i] = IF i = k THEN [ Entries[i] EXCEPT !.live = FALSE ] ELSE Entries[i]
<1> SUFFICES ASSUME NEW i \in 1 .. maxId
             PROVE  i \in 1 .. maxId' /\
                    Entries'[i] = IF i = k THEN [ Entries[i] EXCEPT !.live = FALSE ] ELSE Entries[i]
  OBVIOUS
<1>1. i \in 1 .. maxId'
  BY DEF EntriesOf
<1> DEFINE e == Entries[i]  g == Entries'[i]
<1>2. /\ e = [ name |-> e.name, live |-> e.live ] /\ e.name = Pair(c, i - 1).name
      /\ e.live \in BOOLEAN /\ (e.live <=> ~ Pair(c, i - 1).dead)
  BY DEF EntriesOf
<1>3. /\ g = [ name |-> g.name, live |-> g.live ] /\ g.name = Pair(d, i - 1)'.name
      /\ g.live \in BOOLEAN /\ (g.live <=> ~ Pair(d, i - 1)'.dead)
  BY <1>1 DEF EntriesOf
<1>4. /\ Pair(d, i - 1)'.name = Pair(c, i - 1).name
      /\ Pair(d, i - 1)'.dead <=> Pair(c, i - 1).dead \/ i = k
  BY DEF KeepsPairs
<1> HIDE DEF e, g
<1>5. g.name = e.name /\ (g.live <=> e.live /\ i # k)
  BY <1>2, <1>3, <1>4
<1>6. CASE i # k
  <2>1. g = e
    BY <1>2, <1>3, <1>5, <1>6, SameEntry
  <2> QED BY <1>1, <1>6, <2>1 DEF e, g
<1>7. CASE i = k
  <2>1. g.live = FALSE
    BY <1>3, <1>5, <1>7
  <2> DEFINE S == { e.name }
  <2>2. e.name \in S /\ g.name \in S
    BY <1>5
  <2> HIDE DEF S
  <2>3. e \in [ name : S, live : BOOLEAN ] /\ g \in [ name : S, live : BOOLEAN ]
    BY <1>2, <1>3, <2>2
  <2>4. [ e EXCEPT !.live = FALSE ] = g
    BY <1>5, <2>1, <2>3, DeadEntry
  <2> QED BY <1>1, <1>7, <2>4 DEF e, g
<1> QED BY <1>6, <1>7

At == [ l \in Lister |-> ls[l].it.idx ]

LEMMA CreateIsDir ==
  ASSUME EntriesAre, EntriesAre', NEW c, TableInv(c), NEW nm \in Name, Create(nm)
  PROVE  Dir!Create(nm) \/ UNCHANGED Dir!dirVars
<1>1. UNCHANGED << At, told >>
  BY CreateDoes DEF lists, At
<1>2. PICK d : \E wrote \in BOOLEAN : Created(c, d, nm, wrote)
  BY CreateDoes
<1>3. PICK wrote \in BOOLEAN : Created(c, d, nm, wrote)
  BY <1>2
<1>4. EntriesOf(c) /\ EntriesOf(d)'
  BY <1>3 DEF EntriesAre, Created
<1>5. /\ maxId \in Nat /\ maxId' \in Nat /\ maxId' >= maxId
      /\ maxId' = IF wrote THEN maxId + 1 ELSE maxId
  <2>1. maxId \in Nat /\ maxId' = IF wrote THEN maxId + 1 ELSE maxId
    BY <1>3, <1>4 DEF EntriesOf, Created
  <2> QED BY <2>1
<1>6. KeepsPairs(c, d, 0)
  <2>1. ASSUME NEW i \in 1 .. maxId PROVE Pair(d, i - 1)' = Pair(c, i - 1) /\ i # 0
    <3>1. i - 1 \in Nat /\ i - 1 < maxId /\ i # 0
      BY <1>5
    <3> QED BY <1>3, <3>1 DEF Created
  <2> QED BY <2>1 DEF KeepsPairs
<1>7. \A i \in 1 .. maxId : i # 0 /\ Entries'[i] = Entries[i]
  <2>1. \A i \in 1 .. maxId : i # 0
    BY <1>5
  <2> QED BY <1>4, <1>5, <1>6, <2>1, OldEntries
<1>8. /\ Entries = [ i \in 1 .. maxId |-> Entries[i] ]
      /\ Entries' = [ i \in 1 .. maxId' |-> Entries'[i] ] /\ Len(Entries) = maxId
  BY <1>4 DEF EntriesOf
<1>9. CASE ~ wrote
  <2>1. maxId' = maxId
    BY <1>5, <1>9
  <2>2. Entries' = [ i \in 1 .. maxId |-> Entries[i] ]
    BY <1>7, <1>8, <2>1
  <2>3. Entries' = Entries
    BY <1>8, <2>2
  <2> QED BY <1>1, <2>3 DEF Dir!dirVars, At
<1>10. CASE wrote
  <2> DEFINE e == [ name |-> nm, live |-> TRUE ]
  <2>1. maxId' = maxId + 1 /\ maxId + 1 \in 1 .. maxId' /\ (maxId + 1) - 1 = maxId
    BY <1>5, <1>10
  <2>3. Entries'[maxId + 1] = e
    <3> DEFINE g == Entries'[maxId + 1]
    <3>1. PICK m : m = maxId
      OBVIOUS
    <3>2. Pair(d, m)' = NewEntry(nm) /\ (m + 1) - 1 = m /\ m + 1 \in 1 .. maxId'
      <4>1. \A n \in Nat : wrote /\ n = maxId => Pair(d, n)' = NewEntry(nm)
        BY <1>3 DEF Created
      <4> QED BY <1>5, <1>10, <2>1, <3>1, <4>1
    <3>3. /\ Entries'[m + 1] = [ name |-> Entries'[m + 1].name, live |-> Entries'[m + 1].live ]
          /\ Entries'[m + 1].name = Pair(d, (m + 1) - 1)'.name
          /\ Entries'[m + 1].live \in BOOLEAN
          /\ (Entries'[m + 1].live <=> ~ Pair(d, (m + 1) - 1)'.dead)
      BY <1>4, <3>2 DEF EntriesOf
    <3>4. Pair(d, (m + 1) - 1)' = NewEntry(nm)
      BY <3>2
    <3>5. NewEntry(nm).name = nm /\ ~ NewEntry(nm).dead
      BY DEF NewEntry
    <3> HIDE DEF g
    <3>6. Entries'[m + 1].live = TRUE /\ Entries'[m + 1].name = nm
      BY <3>3, <3>4, <3>5
    <3> QED BY <3>1, <3>3, <3>6
  <2> HIDE DEF e
  <2>4. Entries' = [ i \in 1 .. maxId + 1 |-> IF i = maxId + 1 THEN e ELSE Entries[i] ]
    <3>1. \A i \in 1 .. maxId + 1 : Entries'[i] = IF i = maxId + 1 THEN e ELSE Entries[i]
      <4> SUFFICES ASSUME NEW i \in 1 .. maxId + 1
                   PROVE  Entries'[i] = IF i = maxId + 1 THEN e ELSE Entries[i]
        OBVIOUS
      <4>1. i = maxId + 1 \/ (i # maxId + 1 /\ i \in 1 .. maxId)
        BY <1>5
      <4> QED BY <1>7, <2>3, <4>1
    <3> QED BY <1>8, <2>1, <3>1
  <2>6. Entries' = Append(Entries, e)
    BY <1>5, <1>8, <2>4, OneMore
  <2>7. ~ Dir!Exists(nm)
    <3> SUFFICES ASSUME NEW i, Dir!Live(i), Entries[i].name = nm PROVE FALSE
      BY DEF Dir!Exists
    <3>1. i \in 1 .. maxId /\ Live(c, i - 1) /\ i - 1 \in Nat
      BY <1>4, <1>5, LiveAre
    <3>2. Pair(c, i - 1).name = nm
      BY <1>4, <3>1 DEF EntriesOf
    <3> QED BY <1>3, <3>1, <3>2 DEF Created, Unknown
  <2>8. Dir!Create(nm)
    BY <1>1, <2>6, <2>7 DEF Dir!Create, At, e
  <2> QED BY <2>8
<1> QED BY <1>9, <1>10

LEMMA RemoveIsDir ==
  ASSUME EntriesAre, EntriesAre', NEW c, TableInv(c), NEW nm \in Name, Remove(nm)
  PROVE  Dir!Remove(nm)
<1>1. UNCHANGED << At, told >>
  BY DEF Remove, At
<1>2. PICK k \in Nat : Removed(c, k, nm)
  BY RemoveDoes
<1>3. EntriesOf(c) /\ EntriesOf(c)'
  BY <1>2 DEF EntriesAre, Removed
<1>4. maxId \in Nat /\ maxId' = maxId /\ k < maxId /\ Filled(c) /\ Chained(c) /\ Typed
  BY <1>2, <1>3 DEF EntriesOf, Removed, TableInv
<1>5. KeepsPairs(c, c, k + 1)
  <2>1. ASSUME NEW i \in 1 .. maxId
        PROVE  /\ Pair(c, i - 1)'.name = Pair(c, i - 1).name
               /\ Pair(c, i - 1)'.dead <=> Pair(c, i - 1).dead \/ i = k + 1
    <3>1. i - 1 \in 0 .. maxId /\ i - 1 \in Nat /\ (i = k + 1 <=> i - 1 = k)
      BY <1>4
    <3>2. Turn(i - 1) <= Len(c)
      BY <1>4, <3>1, FilledIs
    <3> QED BY <1>2, <3>1, <3>2 DEF Removed
  <2> QED BY <2>1 DEF KeepsPairs
<1>6. \A i \in 1 .. maxId :
        Entries'[i] = IF i = k + 1 THEN [ Entries[i] EXCEPT !.live = FALSE ] ELSE Entries[i]
  BY <1>3, <1>4, <1>5, OldEntries
<1>7. /\ Entries = [ i \in 1 .. maxId |-> Entries[i] ]
      /\ Entries' = [ i \in 1 .. maxId |-> Entries'[i] ] /\ Len(Entries) = maxId
  BY <1>3, <1>4 DEF EntriesOf
<1>8. k + 1 \in 1 .. maxId /\ (k + 1) - 1 = k
  BY <1>4
<1>9. Entries' = [ Entries EXCEPT ![k + 1].live = FALSE ]
  <2> DEFINE g == [ Entries EXCEPT ![k + 1].live = FALSE ]
  <2>1. /\ g = [ i \in 1 .. maxId |-> g[i] ]
        /\ \A i \in 1 .. maxId :
             g[i] = IF i = k + 1 THEN [ Entries[i] EXCEPT !.live = FALSE ] ELSE Entries[i]
    BY <1>7
  <2> HIDE DEF g
  <2> QED BY <1>6, <1>7, <2>1 DEF g
<1>10. Dir!Live(k + 1) /\ Entries[k + 1].name = nm
  <2>1. Live(c, k) /\ Pair(c, k).name = nm
    BY <1>2 DEF Removed
  <2>2. Dir!Live(k + 1)
    BY <1>3, <1>8, <2>1, LiveAre
  <2>3. Entries[k + 1].name = Pair(c, (k + 1) - 1).name
    BY <1>3, <1>8 DEF EntriesOf
  <2> QED BY <1>8, <2>1, <2>2, <2>3
<1> QED BY <1>1, <1>7, <1>8, <1>9, <1>10 DEF Dir!Remove, At

LEMMA SameDir ==
  ASSUME EntriesAre, EntriesAre', NEW c, TableInv(c), UNCHANGED << flash, maxId, full >>
  PROVE  Entries' = Entries
<1>1. TableInv(c)' /\ \A n \in Nat : Pair(c, n)' = Pair(c, n)
  BY SameTable
<1>2. EntriesOf(c) /\ EntriesOf(c)'
  BY <1>1 DEF EntriesAre
<1>3. maxId \in Nat /\ maxId' = maxId
  BY <1>2 DEF EntriesOf
<1>4. ASSUME NEW i \in 1 .. maxId PROVE Pair(c, i - 1)' = Pair(c, i - 1) /\ i # 0
  <2>1. i - 1 \in Nat /\ i # 0
    BY <1>3
  <2> QED BY <1>1, <2>1
<1>5. KeepsPairs(c, c, 0)
  BY <1>4 DEF KeepsPairs
<1>6. \A i \in 1 .. maxId : i # 0 /\ Entries'[i] = Entries[i]
  <2>1. maxId' \in Nat /\ maxId' >= maxId /\ \A i \in 1 .. maxId : i # 0
    BY <1>3
  <2> QED BY <1>2, <1>5, <2>1, OldEntries
<1> QED BY <1>2, <1>3, <1>6 DEF EntriesOf

LEMMA StartIsDir ==
  ASSUME EntriesAre, EntriesAre', NEW c, TableInv(c), ListTyped, NEW l \in Lister,
         StartLs(l) \/ StopLs(l)
  PROVE  Dir!StartList(l)
<1>1. Entries' = Entries
  BY SameDir DEF StartLs, StopLs
<1>2. told' = [ told EXCEPT ![l] = << >> ]
  BY DEF StartLs, StopLs
<1>3. PICK r : ls' = [ ls EXCEPT ![l] = r ] /\ r.it.idx = 0
  BY NotListingTyped DEF StartLs, StopLs, IterStart
<1>4. At' = [ At EXCEPT ![l] = 0 ]
  BY <1>3 DEF At, ListTyped
<1> QED BY <1>1, <1>2, <1>4 DEF Dir!StartList, At

LEMMA IterateIsDir ==
  ASSUME EntriesAre, EntriesAre', NEW c, TableInv(c), ListInv(c), ListTyped,
         NEW l \in Lister, LsIterate(l)
  PROVE  Dir!Tell(l) \/ Dir!EndList(l)
<1>1. Entries' = Entries
  BY SameDir DEF LsIterate
<1>2. PICK n \in 0 .. maxId : Stands(c, l, n) /\ \E k \in n .. maxId : Iterated(c, l, n, k)
  BY IterateFinds
<1>3. PICK k \in n .. maxId : Iterated(c, l, n, k)
  BY <1>2
<1>4. EntriesOf(c) /\ maxId \in Nat /\ Len(Entries) = maxId
  BY DEF EntriesAre, EntriesOf
<1>5. n \in Nat /\ k \in Nat /\ n <= k /\ k <= maxId
  BY <1>4
<1>6. At[l] = n
  BY <1>2 DEF At, Stands, Pos
<1>7. ASSUME NEW j \in n + 1 .. k PROVE ~ Dir!Live(j)
  <2>1. j - 1 \in n .. k - 1 /\ j \in 1 .. maxId
    BY <1>4, <1>5
  <2>2. ~ Live(c, j - 1)
    BY <1>3, <2>1 DEF Iterated
  <2> QED BY <1>4, <2>1, <2>2, LiveAre
<1>8. CASE /\ k = maxId /\ ls' = [ ls EXCEPT ![l].it = Pos(c, k) ] /\ told' = told
  <2>1. At' = [ At EXCEPT ![l] = k ]
    BY <1>8 DEF At, ListTyped, Pos
  <2>2. Dir!EndList(l)
    BY <1>1, <1>4, <1>6, <1>7, <1>8, <2>1 DEF Dir!EndList, At
  <2> QED BY <2>2
<1>9. CASE /\ k < maxId /\ Live(c, k)
           /\ ls' = [ ls EXCEPT ![l].it = Pos(c, k + 1) ]
           /\ told' = [ told EXCEPT ![l] = Append(told[l], k + 1) ]
  <2>1. At' = [ At EXCEPT ![l] = k + 1 ]
    BY <1>9 DEF At, ListTyped, Pos
  <2>2. k + 1 \in n + 1 .. maxId /\ k + 1 \in 1 .. maxId /\ (k + 1) - 1 = k
    BY <1>4, <1>5, <1>9
  <2>3. Dir!Live(k + 1)
    BY <1>4, <1>9, <2>2, LiveAre
  <2>4. \A j \in n + 1 .. (k + 1) - 1 : ~ Dir!Live(j)
    BY <1>7, <2>2
  <2>5. k + 1 \in At[l] + 1 .. Len(Entries)
        /\ \A j \in At[l] + 1 .. (k + 1) - 1 : ~ Dir!Live(j)
    BY <1>4, <1>6, <2>2, <2>4
  <2>6. Dir!Tell(l)
    BY <1>1, <1>9, <2>1, <2>3, <2>5 DEF Dir!Tell, At
  <2> QED BY <2>6
<1> QED BY <1>3, <1>8, <1>9 DEF Iterated

LEMMA InitIsDir ==
  ASSUME Init, EntriesAre
  PROVE  Dir!Init
<1>1. EntriesOf(<< Inode0 >>) /\ maxId = 0
  BY InitTable DEF EntriesAre, Init
<1>2. Entries = << >>
  <2>1. Entries = [ i \in 1 .. 0 |-> Entries[i] ]
    BY <1>1 DEF EntriesOf
  <2>2. 1 .. 0 = {}
    OBVIOUS
  <2> QED BY <2>1, <2>2
<1>3. [ l \in Lister |-> ls[l].it.idx ] = [ l \in Lister |-> 0 ]
  BY NotListingTyped DEF Init
<1> QED BY <1>2, <1>3 DEF Dir!Init, Init

LEMMA NextIsDir ==
  ASSUME EntriesAre, EntriesAre', WholeInv, [Next]_vars
  PROVE  [Dir!Next]_(Dir!dirVars)
<1>1. PICK c : Whole(c)
  BY DEF WholeInv
<1>2. TableInv(c) /\ ListInv(c) /\ ListTyped
  BY <1>1 DEF Whole
<1>3. ASSUME NEW nm \in Name, Create(nm) PROVE Dir!Create(nm) \/ UNCHANGED Dir!dirVars
  BY <1>2, <1>3, CreateIsDir
<1>4. ASSUME NEW nm \in Name, Remove(nm) PROVE Dir!Remove(nm)
  BY <1>2, <1>4, RemoveIsDir
<1>5. ASSUME NEW l \in Lister, StartLs(l) \/ StopLs(l) PROVE Dir!StartList(l)
  BY <1>2, <1>5, StartIsDir
<1>6. ASSUME NEW l \in Lister, LsIterate(l) PROVE Dir!Tell(l) \/ Dir!EndList(l)
  BY <1>2, <1>6, IterateIsDir
<1>7. CASE UNCHANGED vars
  <2>1. Entries' = Entries /\ told' = told /\ ls' = ls
    BY <1>2, <1>7, SameDir DEF vars, lists
  <2> QED BY <2>1 DEF Dir!dirVars
<1> QED BY <1>3, <1>4, <1>5, <1>6, <1>7 DEF Next, Dir!Next

(***************************************************************************)
(* Under the rule the table implements the directory of FlogDir, for       *)
(* blocks of any size, any number of blocks, files and listings: every     *)
(* call creates, removes or tells what a directory would, however the      *)
(* entries lie in flash and whatever the iterators looked up early         *)
(* (flogfs.c:1310-1388, 1777-1876, 2001-2034).                             *)
(***************************************************************************)
THEOREM TableImplementsDir ==
  ASSUME StopKept
  PROVE  Spec => ImplementsDir
<1>1. Spec => []WholeInv
  BY WholeAlways
<1>2. EntriesAre
  BY EntriesHold
<1>3. Init /\ EntriesAre => Dir!Init
  BY InitIsDir
<1>4. WholeInv /\ EntriesAre /\ EntriesAre' /\ [Next]_vars => [Dir!Next]_(Dir!dirVars)
  BY NextIsDir
<1> QED BY <1>1, <1>2, <1>3, <1>4, PTL DEF Spec, ImplementsDir, Dir!Spec

=============================================================================
