--------------------------- MODULE FlogPagesKept ---------------------------
(***************************************************************************)
(* Proofs about FlogPages under its rules of use and without the wide      *)
(* erase of the card: what the flash holds, block by block, while calls    *)
(* are under way.                                                          *)
(*                                                                         *)
(* A script is judged by what the flash will hold when it is through       *)
(* (Future): the entries and sectors of the files, which are in `files'    *)
(* as soon as the part of a call that writes them has begun.  A script is  *)
(* carried out one operation at a time, and the future stays the same,     *)
(* which is most of the proof of a step.                                   *)
(***************************************************************************)
EXTENDS FlogPagesProofs

-----------------------------------------------------------------------------
(* The invariant.                                                          *)

(* What a script programs and erases, and what the flash holds when it is  *)
(* through.                                                                *)
Puts(t)   == { Content(t[i]) : i \in { i \in 1 .. Len(t) : Programs(t[i]) } }
Erased(t) == { t[i].b : i \in { i \in 1 .. Len(t) : t[i].op = "erase" } }
After(t)  == { c \in held : c.b \notin Erased(t) } \cup Puts(t)
Future    == IF call.for = "format" THEN held ELSE After(todo)

(* Nothing a script programs is programmed again or erased by it.          *)
Apart(t) == \A i, j \in 1 .. Len(t) : i < j /\ Programs(t[i]) =>
  /\ t[j].op = "erase" => t[j].b # t[i].b
  /\ Programs(t[j]) => Cell(t[i]) # Cell(t[j])

Will(b, s, part, tag) == [ b |-> b, s |-> s, part |-> part, tag |-> tag ] \in Future

OnceFit ==
  /\ Apart(todo)
  /\ \A p \in Puts(todo) : \A c \in held : Cell(c) = Cell(p) => c.b \in Erased(todo)

(* The second half of a sector goes to a block that was not erased last.   *)
RestFit ==
  \A p \in Puts(todo) : p.part = "rest" =>
    p.b # First /\ p.s # STAT /\ p.b # dev.erased /\ Erased(todo) = {}

ErasedFit ==
  /\ dev.erased \in { None, dev.block } /\ (~ Sd => dev.erased = None)
  /\ \A c \in held : c.part = "rest" => c.b # First /\ c.s # STAT /\ (whole => c.b # dev.erased)

OpenedFit == todo # << >> /\ Programs(todo[1]) => cache.open /\ cache.block = todo[1].b

ScriptKept == OnceFit /\ RestFit /\ ErasedFit /\ OpenedFit

(* The blocks of the table and of the files that were not removed.         *)
Live == { f \in DOMAIN files : ~ files[f].dead }
TableBlock(b) == \E i \in 1 .. Len(ichain) : ichain[i] = b
InChain(f, b) == \E i \in 1 .. Len(files[f].chain) : files[f].chain[i] = b
Owned(b)      == TableBlock(b) \/ \E f \in Live : InChain(f, b)

(* A block that nobody owns holds its statistics at most.                  *)
CleanFit == whole => \A c \in Future : c.b \in Used /\ c.s # STAT => Owned(c.b)

OwnedFit ==
  /\ \A b \in Block : Owned(b) => Will(b, STAT, "first", "key")
  /\ \A f, g \in Live : \A i \in 1 .. Len(files[f].chain), j \in 1 .. Len(files[g].chain) :
       files[f].chain[i] = files[g].chain[j] => f = g /\ i = j
  /\ \A f \in Live : \A b \in Block : InChain(f, b) => ~ TableBlock(b)
  /\ \A i, j \in 1 .. Len(ichain) : ichain[i] = ichain[j] => i = j

StoredFit ==
  \A f \in Live :
    /\ Will(EntryBlock(f), EntrySector(f), "first", "entry")
    /\ \A p \in StoredSectors(f) : Will(p[1], p[2], "first", "file") /\ Will(p[1], p[2], "spare", "file")

WriterFit ==
  \A f \in DOMAIN files : files[f].open =>
    /\ f \in Live
    /\ \A c \in Future : c.b = LastBlock(f) /\ c.s # STAT => c.s \in Before(files[f].sector)

DirtyFit ==
  /\ \A f \in Live : files[f].sector = INIT => dirty = f
  /\ dirty # 0 => dirty \in Live /\ files[dirty].open

TableSector(c) ==
  \/ c.s = INIT
  \/ c.s = TAIL /\ c.b # ichain[Len(ichain)]
  \/ \E k \in DOMAIN files : c.b = EntryBlock(k) /\
        (c.s = EntrySector(k) \/ (c.s = EntrySector(k) + 1 /\ files[k].dead))

EntriesFit ==
  /\ whole => \A c \in Future : TableBlock(c.b) /\ c.s # STAT => TableSector(c)
  /\ \A b \in Block : TableBlock(b) => Will(b, INIT, "spare", "inode0") \/ Will(b, INIT, "spare", "inode")

RoomFit == whole => Len(ichain) <= Newest \div EntriesPerBlock + 1

ContentKept ==
  CleanFit /\ OwnedFit /\ StoredFit /\ WriterFit /\ DirtyFit /\ EntriesFit /\ RoomFit

(* The table has a block whose entry is still to be written.               *)
InFront == Len(ichain) > (Newest - 1) \div EntriesPerBlock + 1

(* The phases of a call.                                                   *)
PhaseFit ==
  /\ call.for \notin { "format", "mount", "none" } => state = "mounted"
  /\ call.for = "none" => todo = << >>
  /\ state = "reset" \/ call.for \in { "format", "mount", "none" } => dirty = 0 /\ ~ InFront
  /\ plan \in { PlanAE, PlanAIFAE, PlanAT } \cup BlockTaken \cup MountPlans => dirty = 0
  /\ plan \in InodePlans => NeedsBlock
  /\ InFront /\ plan \notin EntryPlans => available = << >> /\ plan \notin BlockTaken
  /\ plan \in WritePlans => files[call.f].open /\ files[call.f].sector = TAIL
  /\ call.for = "mount" => \A f \in DOMAIN files : ~ files[f].open

(* The block that a call was given, and the block erased last.             *)
TakenFit ==
  /\ plan \in BlockTaken =>
       /\ call.b \in pending /\ ~ Owned(call.b) /\ dev.erased # call.b
       /\ Will(call.b, STAT, "first", "key")
  /\ plan \in Primes => \A c \in held : c.b \in Used /\ c.s # STAT => Owned(c.b)
  /\ \A f \in DOMAIN files : files[f].open => dev.erased # LastBlock(f)

Listing == state = "mounted" \/ (plan = PlanP /\ \A i \in 1 .. Len(todo) : todo[i].op # "lists")

ListFit ==
  /\ Listing => \A b \in Block : InAvailable(b) => ~ Owned(b) /\ Will(b, STAT, "first", "key")
  /\ \A b \in pending : b \in Used /\ Unallocated(b) /\ ~ (cache.open /\ cache.block = b)

DrawFit ==
  /\ call.for # "format" => \A b \in Erased(todo) : ~ Owned(b) /\ ~ InAvailable(b)
  /\ call.for \notin { "format", "rm" } /\ Erased(todo) # {} => plan \in Primes
  /\ plan \in Primes =>
       /\ \A c \in Puts(todo) : ~ Owned(c.b) /\ ~ InAvailable(c.b) /\ c.s = STAT
       /\ \A i \in 1 .. Len(todo) :
            /\ plan \in BlockTaken => todo[i].b # call.b
            /\ todo[i].op = "push" => /\ i = Len(todo) /\ ~ IsFull /\ ~ Contains(todo[i].b)
                                      /\ ~ Owned(todo[i].b) /\ Will(todo[i].b, STAT, "first", "key")
            /\ plan # PlanP => todo[i].op # "lists"
  /\ call.for = "mount" /\ plan \notin Primes => Puts(todo) = {}
  /\ call.for # "format" /\ plan \notin Primes =>
       \A i \in 1 .. Len(todo) : todo[i].op \notin { "lists", "push" }
  /\ plan \in { PlanE, PlanIFAE, PlanT } => todo = << >>

(* Where a call on a mounted system leaves the open page.                  *)
Primed == plan \in Primes \cup { PlanE, PlanIFAE, PlanT }

AwayFit ==
  state = "mounted" /\ ~ Primed /\ call.for # "mount" =>
    /\ todo = << >> => (cache.open => ~ InAvailable(cache.block)) /\ ~ InAvailable(dev.erased)
    /\ todo # << >> =>
         \/ todo[Len(todo)].op = "close" /\ call.for = "walk"
         \/ todo[Len(todo)].op \in { "open", "see", "write", "spare" } /\ ~ InAvailable(todo[Len(todo)].b)
    /\ todo # << >> /\ call.for = "walk" =>
         dev.erased \in { None, 0 } \/ (todo[1].op \in { "raw", "probe" } /\ todo[1].b = 0)

(* What a format leaves.                                                   *)
FutureFit ==
  call.for = "format" /\ todo # << >> =>
    \A c \in After(todo) : c.b \notin Used /\ (c.b = First => c.s \in { STAT, INIT })

Kept ==
  PreInv /\ ScriptKept /\ ContentKept /\ PhaseFit /\ TakenFit /\ ListFit /\ DrawFit /\ AwayFit /\ FutureFit

-----------------------------------------------------------------------------
(* The effect of a script, from the effects of its parts.                  *)

Cross(P, E, Q) == \A c \in P : c.b \notin E /\ \A d \in Q : Cell(c) # Cell(d)

Does(t, P, E) == IsList(t) /\ Apart(t) /\ Puts(t) = P /\ Erased(t) = E

LEMMA EffectsConcat ==
  ASSUME NEW s, NEW t, IsList(s), IsList(t)
  PROVE  /\ Puts(s \o t) = Puts(s) \cup Puts(t) /\ Erased(s \o t) = Erased(s) \cup Erased(t)
         /\ Apart(s \o t) <=> Apart(s) /\ Apart(t) /\ Cross(Puts(s), Erased(t), Puts(t))
<1> DEFINE u == s \o t  m == Len(s)  k == Len(t)
<1>1. /\ IsList(u) /\ Len(u) = m + k /\ m \in Nat /\ k \in Nat
      /\ \A i \in 1 .. m : u[i] = s[i]
      /\ \A i \in 1 .. k : u[m + i] = t[i]
  BY ListConcat, ListLen
<1> HIDE DEF u, m, k
<1>2. \A i \in 1 .. Len(u) : (i \in 1 .. m /\ u[i] = s[i]) \/ (i - m \in 1 .. k /\ i > m /\ u[i] = t[i - m])
  <2> SUFFICES ASSUME NEW i \in 1 .. Len(u), i \notin 1 .. m
               PROVE  i - m \in 1 .. k /\ i > m /\ u[i] = t[i - m]
    BY <1>1
  <2>1. i - m \in 1 .. k /\ m + (i - m) = i /\ i > m
    BY <1>1
  <2> QED BY <1>1, <2>1
<1>3. \A i \in 1 .. m : i \in 1 .. Len(u)
  BY <1>1
<1>4. \A i \in 1 .. k : m + i \in 1 .. Len(u)
  BY <1>1
<1>5. Puts(u) = Puts(s) \cup Puts(t)
  BY <1>1, <1>2, <1>3, <1>4 DEF Puts, m, k
<1>6. Erased(u) = Erased(s) \cup Erased(t)
  BY <1>1, <1>2, <1>3, <1>4 DEF Erased, m, k
<1>7. ASSUME Apart(u) PROVE Apart(s) /\ Apart(t) /\ Cross(Puts(s), Erased(t), Puts(t))
  <2>1. Apart(s)
    BY <1>1, <1>3, <1>7 DEF Apart, m
  <2>2. Apart(t)
    <3> SUFFICES ASSUME NEW i \in 1 .. k, NEW j \in 1 .. k, i < j, Programs(t[i])
                 PROVE  /\ t[j].op = "erase" => t[j].b # t[i].b
                        /\ Programs(t[j]) => Cell(t[i]) # Cell(t[j])
      BY DEF Apart, k
    <3>1. m + i < m + j /\ u[m + i] = t[i] /\ u[m + j] = t[j]
      BY <1>1
    <3> QED BY <1>4, <1>7, <3>1 DEF Apart
  <2>3. ASSUME NEW i \in 1 .. m, NEW j \in 1 .. k, Programs(s[i])
        PROVE  /\ t[j].op = "erase" => t[j].b # s[i].b
               /\ Programs(t[j]) => Cell(s[i]) # Cell(t[j])
    <3>1. i < m + j /\ u[i] = s[i] /\ u[m + j] = t[j] /\ i \in 1 .. Len(u) /\ m + j \in 1 .. Len(u)
      BY <1>1, <1>3, <1>4
    <3> QED BY <1>7, <2>3, <3>1 DEF Apart
  <2>4. Cross(Puts(s), Erased(t), Puts(t))
    BY <2>3 DEF Cross, Puts, Erased, Cell, Content, m, k
  <2> QED BY <2>1, <2>2, <2>4
<1>8. ASSUME Apart(s), Apart(t), Cross(Puts(s), Erased(t), Puts(t)) PROVE Apart(u)
  <2> SUFFICES ASSUME NEW i \in 1 .. Len(u), NEW j \in 1 .. Len(u), i < j, Programs(u[i])
               PROVE  /\ u[j].op = "erase" => u[j].b # u[i].b
                      /\ Programs(u[j]) => Cell(u[i]) # Cell(u[j])
    BY DEF Apart
  <2>1. CASE i \in 1 .. m /\ u[i] = s[i] /\ j \in 1 .. m /\ u[j] = s[j]
    BY <1>8, <2>1 DEF Apart, m
  <2>2. CASE i - m \in 1 .. k /\ u[i] = t[i - m] /\ j - m \in 1 .. k /\ u[j] = t[j - m]
    <3>1. i - m < j - m
      BY <1>1
    <3> DEFINE a == i - m  b == j - m
    <3>2. a \in 1 .. k /\ b \in 1 .. k /\ a < b /\ u[i] = t[a] /\ u[j] = t[b]
      BY <2>2, <3>1
    <3> HIDE DEF a, b
    <3> QED BY <1>8, <3>2 DEF Apart, k
  <2>3. CASE i \in 1 .. m /\ u[i] = s[i] /\ j - m \in 1 .. k /\ u[j] = t[j - m]
    <3> DEFINE b == j - m
    <3>1. b \in 1 .. k /\ u[j] = t[b]
      BY <2>3
    <3> HIDE DEF b
    <3>2. Content(u[i]) \in Puts(s)
      BY <2>3 DEF Puts, m
    <3>3. u[j].op = "erase" => u[j].b \in Erased(t)
      BY <3>1 DEF Erased, k
    <3>4. Programs(u[j]) => Content(u[j]) \in Puts(t)
      BY <3>1 DEF Puts, k
    <3> QED BY <1>8, <3>2, <3>3, <3>4 DEF Cross, Content, Cell
  <2>4. ~ (i - m \in 1 .. k /\ i > m /\ j \in 1 .. m)
    BY <1>1
  <2> QED BY <1>2, <2>1, <2>2, <2>3, <2>4
<1>9. /\ Puts(u) = Puts(s) \cup Puts(t) /\ Erased(u) = Erased(s) \cup Erased(t)
      /\ Apart(u) <=> Apart(s) /\ Apart(t) /\ Cross(Puts(s), Erased(t), Puts(t))
  BY <1>5, <1>6, <1>7, <1>8
<1> QED BY <1>9 DEF u

LEMMA DoesConcat ==
  ASSUME NEW s, NEW P, NEW E, Does(s, P, E), NEW t, NEW Q, NEW G, Does(t, Q, G), Cross(P, G, Q)
  PROVE  Does(s \o t, P \cup Q, E \cup G)
BY EffectsConcat, ListConcat DEF Does

LEMMA DoesNone == Does(<< >>, {}, {})
<1>1. IsList(<< >>) /\ Len(<< >>) = 0
  BY ListNone
<1> DEFINE u == << >>
<1>2. IsList(u) /\ Len(u) = 0
  BY <1>1
<1> HIDE DEF u
<1>3. Does(u, {}, {})
  BY <1>2 DEF Does, Apart, Puts, Erased
<1> QED BY <1>3 DEF u

LEMMA EffectsOne ==
  ASSUME NEW y
  PROVE  /\ IsList(<< y >>) /\ Apart(<< y >>)
         /\ Puts(<< y >>) = IF Programs(y) THEN { Content(y) } ELSE {}
         /\ Erased(<< y >>) = IF y.op = "erase" THEN { y.b } ELSE {}
<1> DEFINE u == << y >>
<1>1. IsList(u) /\ Len(u) = 1 /\ u[1] = y
  BY ListOne
<1> HIDE DEF u
<1>2. 1 .. Len(u) = { 1 }
  BY <1>1
<1>3. /\ IsList(u) /\ Apart(u)
      /\ Puts(u) = IF Programs(y) THEN { Content(y) } ELSE {}
      /\ Erased(u) = IF y.op = "erase" THEN { y.b } ELSE {}
  <2>1. Apart(u)
    BY <1>2 DEF Apart
  <2>2. Puts(u) = IF Programs(y) THEN { Content(y) } ELSE {}
    BY <1>1, <1>2 DEF Puts
  <2>3. Erased(u) = IF y.op = "erase" THEN { y.b } ELSE {}
    BY <1>1, <1>2 DEF Erased
  <2> QED BY <1>1, <2>1, <2>2, <2>3
<1> QED BY <1>3 DEF u

LEMMA DoesLook ==
  ASSUME NEW t, IsList(t), \A i \in 1 .. Len(t) : ~ Programs(t[i]) /\ t[i].op # "erase"
  PROVE  Does(t, {}, {})
BY DEF Does, Apart, Puts, Erased

(* A list of scripts that keep out of each other's way.                    *)
LEMMA DoesFlat ==
  ASSUME NEW m \in Nat, NEW g, g = [ i \in 1 .. m |-> g[i] ],
         \A i \in 1 .. m : IsList(g[i]) /\ Apart(g[i]),
         \A i, j \in 1 .. m : i < j => Cross(Puts(g[i]), Erased(g[j]), Puts(g[j]))
  PROVE  Does(Flat(g), UNION { Puts(g[i]) : i \in 1 .. m }, UNION { Erased(g[i]) : i \in 1 .. m })
<1>0. DOMAIN g = 1 .. m
  <2> DEFINE h == [ i \in 1 .. m |-> g[i] ]
  <2>1. DOMAIN h = 1 .. m
    OBVIOUS
  <2> HIDE DEF h
  <2>2. g = h
    BY DEF h
  <2> QED BY <2>1, <2>2
<1>1. IsList(g) /\ Len(g) = m
  BY <1>0, ListMade
<1> DEFINE U(k) == UNION { Puts(g[i]) : i \in 1 .. k }
           V(k) == UNION { Erased(g[i]) : i \in 1 .. k }
           T == { k \in 0 .. m : Does(Cat(g, k), U(k), V(k)) }
<1>2. 0 \in T
  <2>1. U(0) = {} /\ V(0) = {} /\ 0 \in 0 .. m
    OBVIOUS
  <2> HIDE DEF U, V
  <2> QED BY <2>1, CatZero, DoesNone
<1>3. ASSUME NEW k \in 0 .. m - 1, k \in T PROVE k + 1 \in T
  <2>1. k \in Nat /\ k + 1 \in 1 .. m /\ k + 1 \in 0 .. m
    OBVIOUS
  <2>2. Cat(g, k + 1) = Cat(g, k) \o g[k + 1]
    BY <2>1, CatStep
  <2> DEFINE P == Puts(g[k + 1])  E == Erased(g[k + 1])
  <2>3. Does(Cat(g, k), U(k), V(k)) /\ Does(g[k + 1], P, E)
    BY <1>3, <2>1 DEF Does
  <2>4. Cross(U(k), E, P)
    <3>1. \A i \in 1 .. k : i \in 1 .. m /\ i < k + 1
      BY <2>1
    <3>2. \A i \in 1 .. k : Cross(Puts(g[i]), E, P)
      BY <2>1, <3>1
    <3> QED BY <3>2 DEF Cross
  <2>5. U(k + 1) = U(k) \cup P /\ V(k + 1) = V(k) \cup E
    <3>1. 1 .. k + 1 = (1 .. k) \cup { k + 1 }
      BY <2>1
    <3> QED BY <3>1
  <2> HIDE DEF U, V, P, E
  <2>6. Does(Cat(g, k) \o g[k + 1], U(k) \cup P, V(k) \cup E)
    BY <2>3, <2>4, DoesConcat
  <2>7. Does(Cat(g, k + 1), U(k + 1), V(k + 1))
    BY <2>2, <2>5, <2>6
  <2> QED BY <2>1, <2>7
<1>4. 0 .. m \subseteq T
  <2> HIDE DEF T
  <2> QED BY <1>2, <1>3, UpTo
<1>5. Does(Cat(g, m), U(m), V(m))
  BY <1>4
<1> QED BY <1>1, <1>5, FlatIsCat

LEMMA HeadFirst ==
  ASSUME NEW t, IsList(t), t # << >>
  PROVE  << Head(t) >> \o Tail(t) = t
<1>1. /\ IsList(Tail(t)) /\ Len(Tail(t)) = Len(t) - 1 /\ Len(t) \in Nat \ {0}
      /\ (\A i \in 1 .. Len(t) - 1 : Tail(t)[i] = t[i + 1]) /\ Head(t) = t[1]
  BY ListTail
<1> DEFINE y == Head(t)  u == Tail(t)
<1>2. IsList(u) /\ Len(t) = 1 + Len(u) /\ Len(u) \in Nat /\ t[1] = y /\ \A i \in 1 .. Len(u) : t[1 + i] = u[i]
  BY <1>1
<1> HIDE DEF y, u
<1>3. << y >> \o u = t
  BY <1>2, PrefixedIs
<1> QED BY <1>3 DEF y, u

(* The effect of a script, from its first operation.                       *)
LEMMA EffectsHead ==
  ASSUME NEW t, IsList(t), t # << >>
  PROVE  /\ Puts(t) = (IF Programs(Head(t)) THEN { Content(Head(t)) } ELSE {}) \cup Puts(Tail(t))
         /\ Erased(t) = (IF Head(t).op = "erase" THEN { Head(t).b } ELSE {}) \cup Erased(Tail(t))
         /\ Apart(t) => /\ Apart(Tail(t))
                        /\ Programs(Head(t)) => Head(t).b \notin Erased(Tail(t)) /\ \A d \in Puts(Tail(t)) : Cell(Head(t)) # Cell(d)
<1> DEFINE x == Head(t)  u == Tail(t)
<1>1. << x >> \o u = t /\ IsList(u)
  BY HeadFirst, ListTail
<1> HIDE DEF x, u
<1>2. /\ IsList(<< x >>) /\ Apart(<< x >>)
      /\ Puts(<< x >>) = IF Programs(x) THEN { Content(x) } ELSE {}
      /\ Erased(<< x >>) = IF x.op = "erase" THEN { x.b } ELSE {}
  BY EffectsOne
<1> DEFINE s == << x >>
<1>3. /\ Puts(s \o u) = Puts(s) \cup Puts(u) /\ Erased(s \o u) = Erased(s) \cup Erased(u)
      /\ Apart(s \o u) <=> Apart(s) /\ Apart(u) /\ Cross(Puts(s), Erased(u), Puts(u))
  BY <1>1, <1>2, EffectsConcat
<1>4. /\ Puts(s) = IF Programs(x) THEN { Content(x) } ELSE {}
      /\ Erased(s) = IF x.op = "erase" THEN { x.b } ELSE {}
      /\ s \o u = t
  BY <1>1, <1>2
<1> HIDE DEF s
<1>5. Apart(t) => /\ Apart(u)
                  /\ Programs(x) => x.b \notin Erased(u) /\ \A d \in Puts(u) : Cell(x) # Cell(d)
  <2>1. Content(x).b = x.b /\ Cell(Content(x)) = Cell(x)
    BY DEF Content, Cell
  <2> QED BY <1>3, <1>4, <2>1 DEF Cross
<1> QED BY <1>3, <1>4, <1>5 DEF x, u

-----------------------------------------------------------------------------
(* One page operation and what the flash holds.                            *)

Trusted ==
  /\ Bad = {} /\ "sd_erase" \notin Backends
  /\ { "close_before_rm", "rm_erases", "quiet_reboot", "writes_hold", "reads_hold" } \subseteq PageRules

(* What is trusted to hold does not fail; an erase may.                    *)
LEMMA TrustedStep ==
  ASSUME Trusted, Step, NEW x, x = Head(todo)
  PROVE  /\ on /\ todo # << >> /\ (Access(x) \/ Program(x) \/ Lists(x) \/ DoErase(x) \/ EraseFails(x))
         /\ lost' => lost
<1>1. ~ WriteFails(x)
  BY DEF WriteFails, MayFail, Trusted
<1>2. on /\ todo # << >> /\ (Access(x) \/ Program(x) \/ Lists(x) \/ DoErase(x) \/ EraseFails(x))
  BY <1>1 DEF Step
<1>3. lost' => lost
  BY <1>2 DEF Access, Program, Lists, DoErase, EraseFails, FormatBegun, layer
<1> QED BY <1>2, <1>3

LEMMA HeldIs ==
  ASSUME NEW c \in held
  PROVE  /\ c = [ b |-> c.b, s |-> c.s, part |-> c.part, tag |-> c.tag ]
         /\ c.part \in { "first", "rest", "spare" }
<1>1. PICK m \in mem : c = Named(m)
  BY DEF held
<1> QED BY <1>1 DEF Named

(* The operations a script may hold.                                       *)
LEMMA ScriptOps ==
  ASSUME SystemInv, todo # << >>, NEW x, x = Head(todo)
  PROVE  /\ IsList(todo) /\ Len(todo) \in Nat \ {0} /\ x = todo[1]
         /\ Programs(x) => /\ Programming(x) /\ dev.block = x.b /\ dev.page = x.s \div SectorsPerPage
                           /\ (call.for = "format" => x.b = First)
         /\ x.op = "erase" => x.b \in Block /\ dev.block = x.b
         /\ x.op \in { "open", "see", "raw", "probe" } => x.b \in Block /\ x.s \in 0 .. LastSector
         /\ x.op = "push" => x.b \in Used
         /\ call.for = "format" => x.op \notin { "push", "lists" }
<1>1. IsList(todo) /\ DeviceInv /\ ScriptFit
  BY DEF SystemInv, MeantInv, DeviceInv, Script
<1>2. Len(todo) \in Nat \ {0} /\ x = todo[1]
  BY <1>1, ListTail
<1>3. Programs(x) => dev.block = x.b /\ dev.page = x.s \div SectorsPerPage
  BY <1>1, <1>2 DEF DeviceInv, Standing, At
<1>4. x.op = "erase" => dev.block = x.b
  BY <1>1, <1>2 DEF DeviceInv, Standing
<1>5. CASE call.for # "format"
  <2>1. x \in Gentle
    BY <1>1, <1>5, WithinTail, CalmGentle DEF ScriptFit
  <2>2. /\ x.op \in { "open", "see", "raw", "probe" } => x.b \in Block
        /\ x.op \in { "erase", "push" } => x.b \in Used
        /\ Programs(x) => Programming(x)
        /\ x.s \in 0 .. LastSector
    BY <2>1 DEF Gentle, Request
  <2> QED BY <1>1, <1>2, <1>3, <1>4, <1>5, <2>2, BlocksAre
<1>6. CASE call.for = "format"
  <2>1. FormatFit
    BY <1>1, <1>6 DEF ScriptFit
  <2> DEFINE L == Len(todo)
  <2>2. L \in Nat /\ L = Len(todo)
    BY <1>2
  <2> HIDE DEF L
  <2>3. /\ x.op \in { "open", "close", "erase", "write", "spare" }
        /\ x.op \in { "open", "erase" } => x.b \in Block /\ x.s \in 0 .. LastSector
        /\ x.op = "write" => \/ x = Op("write", First, STAT, "first", "key")
                             \/ x = Op("write", First, INIT, "first", "inode")
        /\ x.op = "spare" => x = Op("spare", First, INIT, "spare", "inode0")
    BY <1>1, <1>2, <2>1, <2>2, FormatOps
  <2>4. STAT \in 0 .. LastSector /\ INIT \in 0 .. LastSector /\ First \in Block
    BY LastSectorIs, BlocksAre DEF STAT, INIT
  <2>5. Programs(x) => Programming(x) /\ x.b = First
    BY <2>3, <2>4 DEF Programs, Programming, Op
  <2> QED BY <1>1, <1>2, <1>3, <1>4, <2>3, <2>5 DEF Programs
<1> QED BY <1>5, <1>6

LEMMA ProgramsWhole ==
  ASSUME SystemInv, Kept, Puts(todo) # {}, call.for # "format"
  PROVE  whole
<1>1. todo # << >>
  BY DoesNone DEF Does
<1>2. CASE call.for \notin { "format", "mount", "none" }
  BY <1>2 DEF Kept, PhaseFit, SystemInv, MountFit
<1>3. CASE call.for = "mount"
  <2>1. plan \in Primes
    BY <1>3 DEF Kept, DrawFit
  <2>2. plan # << >>
    BY <2>1, PlansAre DEF Primes
  <2> QED BY <2>2 DEF SystemInv, MountFit
<1>4. CASE call.for = "none"
  BY <1>1, <1>4 DEF Kept, PhaseFit
<1> QED BY <1>2, <1>3, <1>4

(* Programming adds, erasing takes away, of its own block only and perhaps *)
(* of a part of it, and nothing else happens.                              *)
LEMMA StepHeld ==
  ASSUME Trusted, SystemInv, Kept, todo # << >>, NEW x, x = Head(todo)
  PROVE  /\ Access(x) \/ Lists(x) => held' = held
         /\ EraseFails(x) => held' \subseteq held /\ \A c \in held : c.b # x.b => c \in held'
         /\ Program(x) => held' = held \cup { Content(x) }
         /\ DoErase(x) => held' = { c \in held : c.b # x.b }
<1>1. ASSUME Access(x) \/ Lists(x) PROVE held' = held
  BY <1>1 DEF Access, Lists, layer, held, Named
<1>2. \A m \in mem : m.at \in Nat
  <2>1. SdBlock(Blocks, 0, 0) \in Nat
    BY BlockStarts, BlocksAre
  <2> QED BY <2>1 DEF SystemInv, DeviceFit
<1>3. ASSUME DoErase(x) PROVE held' = { c \in held : c.b # x.b }
  <2>1. x.b \in Block /\ mem' = MemErased(x.b) /\ backend # "sd_erase"
    BY <1>3, ScriptOps DEF DoErase, Trusted, SystemInv, DeviceFit
  <2> QED BY <1>2, <2>1, HeldErased
<1>4. ASSUME Program(x) PROVE held' = held \cup { Content(x) }
  <2>1. Programs(x) /\ mem' = MemWritten(x)
    BY <1>4 DEF Program, Programs
  <2>2. /\ IsList(todo) /\ Programming(x) /\ dev.block = x.b /\ dev.page = x.s \div SectorsPerPage
        /\ (call.for = "format" => x.b = First)
    BY <2>1, ScriptOps
  <2>3. /\ \A c \in held' : c \in held \/ c = Content(x)
        /\ Content(x) \in held'
        /\ \A c \in held : c.b # x.b \/ c.s # x.s => c \in held'
        /\ \A c \in held : Cell(c) # Cell(x) /\ (~ Sd \/ Preserves(x)) => c \in held'
        /\ \A c \in held : c.part = "spare" /\ x.part # "spare" => c \in held'
    BY <1>2, <2>1, <2>2, HeldProgrammed
  <2>4. Content(x) \in Puts(todo) /\ \A c \in held : Cell(c) # Cell(x)
    <3> DEFINE u == Tail(todo)
    <3>1. /\ Puts(todo) = { Content(x) } \cup Puts(u) /\ Erased(todo) = Erased(u)
          /\ x.b \notin Erased(u)
      <4>1. x.op # "erase" /\ Apart(todo) /\ u = Tail(todo)
        BY <2>1 DEF Programs, Kept, ScriptKept, OnceFit
      <4> HIDE DEF u
      <4>2. /\ Puts(todo) = (IF Programs(x) THEN { Content(x) } ELSE {}) \cup Puts(u)
            /\ Erased(todo) = (IF x.op = "erase" THEN { x.b } ELSE {}) \cup Erased(u)
            /\ Apart(todo) => /\ Apart(u)
                              /\ Programs(x) => x.b \notin Erased(u) /\ \A d \in Puts(u) : Cell(x) # Cell(d)
        BY <2>2, <4>1, EffectsHead
      <4> QED BY <2>1, <4>1, <4>2
    <3>2. Cell(Content(x)) = Cell(x)
      BY DEF Content, Cell
    <3>3. ASSUME NEW c \in held, Cell(c) = Cell(x) PROVE FALSE
      <4>1. c.b = x.b
        BY <3>3 DEF Cell
      <4>2. c.b \in Erased(todo)
        BY <3>1, <3>2, <3>3 DEF Kept, ScriptKept, OnceFit
      <4> QED BY <3>1, <4>1, <4>2
    <3> QED BY <3>1, <3>3
  <2>5. ASSUME NEW c \in held PROVE c \in held'
    <3>1. CASE c.b # x.b \/ c.s # x.s \/ ~ Sd \/ Preserves(x)
      BY <2>3, <2>4, <3>1
    <3>2. CASE c.b = x.b /\ c.s = x.s /\ Sd /\ ~ Preserves(x)
      <4>1. x.op # "spare" /\ dev.erased = x.b
        BY <2>2, <3>2 DEF Preserves
      <4>2. x.part \in { "first", "rest" }
        BY <2>2, <4>1 DEF Programming
      <4>3. x.part # "rest"
        <5>1. Content(x).part = x.part /\ Content(x).b = x.b
          BY DEF Content
        <5> QED BY <2>4, <4>1, <5>1 DEF Kept, ScriptKept, RestFit
      <4>4. c.part # "first"
        BY <2>4, <3>2, <4>2, <4>3 DEF Cell
      <4>5. c.part # "rest"
        <5>1. SUFFICES ASSUME c.part = "rest" PROVE FALSE
          OBVIOUS
        <5>2. c.b # First /\ (whole => c.b # dev.erased)
          BY <5>1 DEF Kept, ScriptKept, ErasedFit
        <5>3. ~ whole
          BY <3>2, <4>1, <5>2
        <5>4. call.for # "format"
          BY <2>2, <3>2, <5>2
        <5> QED BY <2>4, <5>3, <5>4, ProgramsWhole
      <4>6. c.part = "spare"
        BY <4>4, <4>5, HeldIs
      <4> QED BY <2>3, <4>2, <4>6
    <3> QED BY <3>1, <3>2
  <2> QED BY <2>3, <2>5
<1>5. ASSUME EraseFails(x) PROVE held' \subseteq held /\ \A c \in held : c.b # x.b => c \in held'
  <2>1. x.b \in Block /\ backend # "sd_erase" /\ DeviceFit
    BY <1>5, ScriptOps DEF EraseFails, Trusted, SystemInv, DeviceFit
  <2> QED BY <1>5, <2>1, EraseFailsIs
<1> QED BY <1>1, <1>3, <1>4, <1>5

(* What the flash will hold when the script is through does not change.    *)
LEMMA StepAfter ==
  ASSUME Trusted, SystemInv, Kept, todo # << >>, NEW x, x = Head(todo),
         Access(x) \/ Program(x) \/ Lists(x) \/ DoErase(x)
  PROVE  /\ After(todo)' = After(todo) /\ todo' = Tail(todo) /\ call' = call
         /\ Puts(todo)' \subseteq Puts(todo) /\ Erased(todo)' \subseteq Erased(todo)
         /\ Erased(todo) \subseteq Erased(todo)' \cup { x.b } /\ (x.op # "erase" => Erased(todo)' = Erased(todo))
         /\ Apart(todo)'
<1>1. todo' = Tail(todo) /\ call' = call /\ IsList(todo)
  BY ScriptOps DEF Access, Program, Lists, DoErase, Goto, Aside
<1>2. /\ Puts(todo) = (IF Programs(x) THEN { Content(x) } ELSE {}) \cup Puts(todo')
      /\ Erased(todo) = (IF x.op = "erase" THEN { x.b } ELSE {}) \cup Erased(todo')
      /\ Apart(todo')
      /\ Programs(x) => x.b \notin Erased(todo') /\ \A d \in Puts(todo') : Cell(x) # Cell(d)
  <2>1. Apart(todo)
    BY DEF Kept, ScriptKept, OnceFit
  <2> DEFINE u == todo'
  <2>2. u = Tail(todo)
    BY <1>1
  <2> HIDE DEF u
  <2>3. /\ Puts(todo) = (IF Programs(x) THEN { Content(x) } ELSE {}) \cup Puts(u)
        /\ Erased(todo) = (IF x.op = "erase" THEN { x.b } ELSE {}) \cup Erased(u)
        /\ Apart(todo) => /\ Apart(u)
                          /\ Programs(x) => x.b \notin Erased(u) /\ \A d \in Puts(u) : Cell(x) # Cell(d)
    BY <1>1, <2>2, EffectsHead
  <2> QED BY <2>1, <2>3 DEF u
<1>3. Puts(todo)' = Puts(todo') /\ Erased(todo)' = Erased(todo') /\ (Apart(todo)' <=> Apart(todo'))
  BY DEF Puts, Erased, Apart
<1>4. After(todo)' = { c \in held' : c.b \notin Erased(todo') } \cup Puts(todo')
  BY <1>3 DEF After
<1>5. After(todo)' = After(todo)
  <2>1. CASE Access(x) \/ Lists(x)
    <3>1. ~ Programs(x) /\ x.op # "erase" /\ held' = held
      BY <2>1, StepHeld DEF Access, Lists, Programs
    <3> QED BY <1>2, <1>4, <3>1 DEF After
  <2>2. CASE Program(x)
    <3>1. Programs(x) /\ x.op # "erase" /\ held' = held \cup { Content(x) }
      BY <2>2, StepHeld DEF Program, Programs
    <3>2. Content(x).b = x.b
      BY DEF Content
    <3> QED BY <1>2, <1>4, <3>1, <3>2 DEF After
  <2>3. CASE DoErase(x)
    <3>1. ~ Programs(x) /\ x.op = "erase" /\ held' = { c \in held : c.b # x.b }
      BY <2>3, StepHeld DEF DoErase, Programs
    <3> QED BY <1>2, <1>4, <3>1 DEF After
  <2> QED BY <2>1, <2>2, <2>3
<1> QED BY <1>1, <1>2, <1>3, <1>5

LEMMA FailedStep ==
  ASSUME Trusted, SystemInv, Kept, todo # << >>, NEW x, x = Head(todo), EraseFails(x)
  PROVE  /\ x.op = "erase" /\ call.for # "rm" /\ todo' = << >>
         /\ plan' = IF call.for \in { "format", "mount" } THEN << >> ELSE Tail(plan)
         /\ dev'.erased = dev.block /\ dev'.block = dev.block /\ Sd /\ x.b = dev.block
         /\ UNCHANGED << pre, backend, cache, state, inode0, on, call >>
         /\ held' \subseteq held /\ \A c \in held : c.b # x.b => c \in held'
         /\ call.for # "format" \/ whole' => UNCHANGED << ichain, files, dirty, whole >>
         /\ call.for = "format" /\ whole' => held' = held
<1>1. x.op = "erase" /\ Sd /\ call.for # "rm" /\ dev' = [ dev EXCEPT !.erased = x.b ]
      /\ UNCHANGED << pre, backend, cache, state, inode0, on, call >>
  BY DEF EraseFails, Trusted
<1>2. x.b = dev.block /\ dev = [ block |-> dev.block, page |-> dev.page, erased |-> dev.erased ]
  BY <1>1, ScriptOps DEF SystemInv, MeantInv, DeviceInv, Fit
<1>3. dev'.erased = dev.block /\ dev'.block = dev.block
  BY <1>1, <1>2
<1>4. todo' = << >> /\ plan' = IF call.for \in { "format", "mount" } THEN << >> ELSE Tail(plan)
  BY <1>1 DEF EraseFails, Goto
<1>5. held' \subseteq held /\ \A c \in held : c.b # x.b => c \in held'
  BY StepHeld
<1>6. /\ call.for # "format" \/ whole' => UNCHANGED << ichain, files, dirty, whole >>
      /\ call.for = "format" /\ whole' => mem' = mem
  BY DEF EraseFails, FormatBegun, fs
<1>7. call.for = "format" /\ whole' => held' = held
  BY <1>6 DEF held, Named
<1> QED BY <1>1, <1>2, <1>3, <1>4, <1>5, <1>6, <1>7

(* The block erased last.                                                  *)
LEMMA StepDev ==
  ASSUME SystemInv, todo # << >>, NEW x, x = Head(todo)
  PROVE  /\ Access(x) => /\ dev'.erased \in { None, dev.erased } /\ Sd' = Sd
                         /\ dev' = dev \/ dev'.block = x.b
                         /\ dev' = dev \/ dev'.erased \in { None, x.b } \/ ~ Sd
                         /\ ~ Sd => dev'.erased = dev.erased
                         /\ x.op \in { "raw", "probe" } => dev'.erased \in { None, x.b } \/ ~ Sd
         /\ Program(x) \/ Lists(x) => dev' = dev /\ Sd' = Sd /\ cache' = cache
         /\ DoErase(x) => /\ dev'.block = dev.block /\ Sd' = Sd /\ cache' = cache
                          /\ dev'.erased = IF Sd THEN x.b ELSE dev.erased
<1>1. dev = [ block |-> dev.block, page |-> dev.page, erased |-> dev.erased ]
  BY DEF SystemInv, MeantInv, DeviceInv, Fit
<1>2. ASSUME Access(x)
      PROVE  /\ dev'.erased \in { None, dev.erased } /\ Sd' = Sd
             /\ dev' = dev \/ dev'.block = x.b
             /\ dev' = dev \/ dev'.erased \in { None, x.b } \/ ~ Sd
             /\ ~ Sd => dev'.erased = dev.erased
             /\ x.op \in { "raw", "probe" } => dev'.erased \in { None, x.b } \/ ~ Sd
  <2>1. \E p : (dev' = dev /\ x.op \notin { "raw", "probe" }) \/ dev' = DevOpened(x.b, p)
    BY <1>2 DEF Access, OpenPage, ProbePage
  <2>2. backend' = backend
    BY <1>2 DEF Access, Aside
  <2> QED BY <2>1, <2>2 DEF DevOpened, Sd
<1>3. ASSUME Program(x) \/ Lists(x) PROVE dev' = dev /\ Sd' = Sd /\ cache' = cache
  BY <1>3 DEF Program, Lists, Aside, layer, Sd
<1>4. ASSUME DoErase(x)
      PROVE  /\ dev'.block = dev.block /\ Sd' = Sd /\ cache' = cache
             /\ dev'.erased = IF Sd THEN x.b ELSE dev.erased
  BY <1>1, <1>4 DEF DoErase, Sd
<1> QED BY <1>2, <1>3, <1>4

LEMMA OpenedStep ==
  ASSUME Trusted, SystemInv, SystemInv', OpenedFit, Step
  PROVE  OpenedFit'
<1> DEFINE x == Head(todo)
<1>1. todo # << >> /\ (Access(x) \/ Program(x) \/ Lists(x) \/ DoErase(x) \/ EraseFails(x))
  BY TrustedStep
<1>2. Script /\ x = todo[1]
  BY <1>1, ScriptOps DEF SystemInv, MeantInv, DeviceInv
<1> HIDE DEF x
<1> SUFFICES ASSUME todo' # << >>, Programs(todo'[1]) PROVE cache'.open /\ cache'.block = todo'[1].b
  BY DEF OpenedFit, Programs
<1>3. CASE todo' = Tail(todo)
  <2>1. MayFollow(x, todo'[1])
    BY <1>1, <1>2, <1>3, ScriptTail
  <2>2. x.op \in { "open", "write", "spare" } /\ todo'[1].b = x.b
    BY <2>1 DEF MayFollow
  <2>3. CASE x.op = "open"
    <3>1. OpenPage(x.b, x.s)
      BY <1>1, <2>3 DEF Access, Program, Lists, DoErase, EraseFails
    <3> QED BY <2>2, <3>1 DEF OpenPage, Cached
  <2>4. CASE x.op \in { "write", "spare" }
    <3>1. cache' = cache
      BY <1>1, <2>4 DEF Access, Program, Lists, DoErase, EraseFails
    <3>2. cache.open /\ cache.block = x.b
      BY <1>1, <1>2, <2>4 DEF OpenedFit, Programs
    <3> QED BY <2>2, <3>1, <3>2
  <2> QED BY <2>2, <2>3, <2>4
<1>4. CASE todo' = << >>
  BY <1>4
<1>5. todo' = Tail(todo) \/ todo' = << >>
  BY <1>1 DEF Access, Program, Lists, DoErase, EraseFails, Goto
<1> QED BY <1>3, <1>4, <1>5

LEMMA ProgrammedIs ==
  ASSUME SystemInv, Kept, todo # << >>, NEW x, x = Head(todo), Programs(x)
  PROVE  /\ Content(x) \in Puts(todo) /\ Content(x).b = x.b /\ Content(x).s = x.s /\ Content(x).part = x.part
         /\ Cell(Content(x)) = Cell(x) /\ x.b \notin Erased(todo) /\ x.b \in Block /\ x.b # None
         /\ \A d \in Puts(Tail(todo)) : Cell(x) # Cell(d)
<1>1. Content(x).b = x.b /\ Content(x).s = x.s /\ Content(x).part = x.part /\ Cell(Content(x)) = Cell(x)
  BY DEF Content, Cell
<1>2. IsList(todo) /\ Programming(x) /\ x.op # "erase" /\ Apart(todo)
  BY ScriptOps DEF Programs, Kept, ScriptKept, OnceFit
<1>3. /\ Puts(todo) = { Content(x) } \cup Puts(Tail(todo)) /\ Erased(todo) = {} \cup Erased(Tail(todo))
      /\ x.b \notin Erased(Tail(todo)) /\ \A d \in Puts(Tail(todo)) : Cell(x) # Cell(d)
  BY <1>2, EffectsHead
<1>4. x.b \in Block /\ x.b # None
  BY <1>2, BlocksAre DEF Programming
<1> QED BY <1>1, <1>3, <1>4

LEMMA ScriptEnded ==
  ASSUME todo' = << >>
  PROVE  Puts(todo)' = {} /\ Erased(todo)' = {} /\ Apart(todo)' /\ After(todo)' = held'
<1>1. Puts(<< >>) = {} /\ Erased(<< >>) = {} /\ Apart(<< >>)
  BY DoesNone DEF Does
<1>2. Puts(todo') = {} /\ Erased(todo') = {} /\ Apart(todo')
  BY <1>1
<1>3. Puts(todo)' = {} /\ Erased(todo)' = {} /\ Apart(todo)'
  BY <1>2 DEF Puts, Erased, Apart
<1> QED BY <1>3 DEF After

LEMMA SetupParts == \A j \in 1 .. 8 : Setup[j].part # "rest"
<1> DEFINE P(j) == Setup[j].part # "rest"
<1>1. P(1)
  <2> DEFINE y == Op("open", First, STAT, "", "")
  <2>1. y.part # "rest"
    BY DEF Op
  <2> HIDE DEF y
  <2>2. Setup[1] = y
    BY SetupIs DEF y
  <2> QED BY <2>1, <2>2
<1>2. P(2)
  <2> DEFINE y == Op("close", None, 0, "", "")
  <2>1. y.part # "rest"
    BY DEF Op
  <2> HIDE DEF y
  <2>2. Setup[2] = y
    BY SetupIs DEF y
  <2> QED BY <2>1, <2>2
<1>3. P(3)
  <2> DEFINE y == Op("erase", First, 0, "", "")
  <2>1. y.part # "rest"
    BY DEF Op
  <2> HIDE DEF y
  <2>2. Setup[3] = y
    BY SetupIs DEF y
  <2> QED BY <2>1, <2>2
<1>4. P(4)
  <2> DEFINE y == Op("open", First, STAT, "", "")
  <2>1. y.part # "rest"
    BY DEF Op
  <2> HIDE DEF y
  <2>2. Setup[4] = y
    BY SetupIs DEF y
  <2> QED BY <2>1, <2>2
<1>5. P(5)
  <2> DEFINE y == Op("write", First, STAT, "first", "key")
  <2>1. y.part # "rest"
    BY DEF Op
  <2> HIDE DEF y
  <2>2. Setup[5] = y
    BY SetupIs DEF y
  <2> QED BY <2>1, <2>2
<1>6. P(6)
  <2> DEFINE y == Op("open", First, INIT, "", "")
  <2>1. y.part # "rest"
    BY DEF Op
  <2> HIDE DEF y
  <2>2. Setup[6] = y
    BY SetupIs DEF y
  <2> QED BY <2>1, <2>2
<1>7. P(7)
  <2> DEFINE y == Op("write", First, INIT, "first", "inode")
  <2>1. y.part # "rest"
    BY DEF Op
  <2> HIDE DEF y
  <2>2. Setup[7] = y
    BY SetupIs DEF y
  <2> QED BY <2>1, <2>2
<1>8. P(8)
  <2> DEFINE y == Op("spare", First, INIT, "spare", "inode0")
  <2>1. y.part # "rest"
    BY DEF Op
  <2> HIDE DEF y
  <2>2. Setup[8] = y
    BY SetupIs DEF y
  <2> QED BY <2>1, <2>2
<1> HIDE DEF P
<1>9. \A j \in 1 .. 8 : j = 1 \/ j = 2 \/ j = 3 \/ j = 4 \/ j = 5 \/ j = 6 \/ j = 7 \/ j = 8
  OBVIOUS
<1>10. \A j \in 1 .. 8 : P(j)
  BY <1>1, <1>2, <1>3, <1>4, <1>5, <1>6, <1>7, <1>8, <1>9
<1> QED BY <1>10 DEF P

LEMMA ScriptStep ==
  ASSUME Trusted, SystemInv, SystemInv', Kept, Step
  PROVE  ScriptKept'
<1> DEFINE x == Head(todo)
<1>1. todo # << >> /\ (Access(x) \/ Program(x) \/ Lists(x) \/ DoErase(x) \/ EraseFails(x))
  BY TrustedStep
<1>2. ScriptKept /\ OnceFit /\ RestFit /\ ErasedFit /\ OpenedFit
  BY DEF Kept, ScriptKept
<1> HIDE DEF x
<1>3. OpenedFit'
  BY <1>2, OpenedStep
<1>4. CASE EraseFails(x)
  <2>1. /\ x.op = "erase" /\ todo' = << >> /\ dev'.erased = dev.block /\ dev'.block = dev.block /\ Sd
        /\ x.b = dev.block /\ call.for # "rm" /\ backend' = backend /\ (whole' => whole)
    BY <1>1, <1>4, FailedStep DEF x
  <2>2. Puts(todo)' = {} /\ Apart(todo)' /\ held' \subseteq held
    BY <1>1, <1>4, <2>1, ScriptEnded, StepHeld DEF x
  <2>3. x.b \in Erased(todo)
    <3>1. IsList(todo)
      BY <1>1, ScriptOps
    <3> QED BY <1>1, <2>1, <3>1, EffectsHead DEF x
  <2>4. ASSUME NEW c \in held, c.part = "rest" PROVE c.b # First /\ c.s # STAT /\ (whole => c.b # x.b)
    <3>1. c.b # First /\ c.s # STAT
      BY <1>2, <2>4 DEF ErasedFit
    <3>2. CASE call.for = "format"
      <4>1. ASSUME whole PROVE x.b = First
        <5>1. FormatFit /\ IsList(todo)
          BY <1>1, <3>2, ScriptOps DEF SystemInv, ScriptFit
        <5> QED BY <1>1, <2>1, <4>1, <5>1, FormatHead DEF x
      <4> QED BY <3>1, <4>1
    <3>3. CASE call.for # "format"
      <4>1. plan \in Primes
        BY <2>1, <2>3, <3>3 DEF Kept, DrawFit
      <4>2. ~ Owned(x.b)
        BY <2>3, <3>3 DEF Kept, DrawFit
      <4>3. x.b \in Used
        <5>1. x \in Gentle
          BY <1>1, <3>3, WithinTail, CalmGentle DEF SystemInv, ScriptFit, x
        <5> QED BY <2>1, <5>1 DEF Gentle
      <4> QED BY <3>1, <4>1, <4>2, <4>3 DEF Kept, TakenFit
    <3> QED BY <3>2, <3>3
  <2>5. OnceFit' /\ RestFit'
    BY <2>2 DEF OnceFit, RestFit
  <2>6. ErasedFit'
    BY <2>1, <2>2, <2>4 DEF ErasedFit, Sd
  <2> QED BY <1>3, <2>5, <2>6 DEF ScriptKept
<1>5. CASE Access(x) \/ Program(x) \/ Lists(x) \/ DoErase(x)
  <2>1. /\ Puts(todo)' \subseteq Puts(todo) /\ Erased(todo)' \subseteq Erased(todo)
        /\ Erased(todo) \subseteq Erased(todo)' \cup { x.b } /\ (x.op # "erase" => Erased(todo)' = Erased(todo))
        /\ Apart(todo)'
    BY <1>1, <1>5, StepAfter DEF x
  <2>2. /\ Access(x) \/ Lists(x) => held' = held /\ x.op # "erase"
        /\ Program(x) => held' = held \cup { Content(x) } /\ Programs(x) /\ x.op # "erase"
        /\ DoErase(x) => held' = { c \in held : c.b # x.b }
    BY <1>1, StepHeld DEF x, Access, Lists, Program, Programs
  <2>3. Program(x) => \A d \in Puts(todo)' : Cell(x) # Cell(d)
    <3>1. Program(x) => \A d \in Puts(Tail(todo)) : Cell(x) # Cell(d)
      BY <1>1, <2>2, ProgrammedIs DEF x
    <3>2. todo' = Tail(todo)
      BY <1>1, <1>5, StepAfter DEF x
    <3> QED BY <3>1, <3>2 DEF Puts
  <2>4. Program(x) => /\ Content(x) \in Puts(todo) /\ Content(x).b = x.b /\ Content(x).s = x.s /\ Content(x).part = x.part
                      /\ Cell(Content(x)) = Cell(x) /\ x.b \in Block /\ x.b # None
    BY <1>1, <2>2, ProgrammedIs DEF x
  <2>5. OnceFit'
    <3> SUFFICES ASSUME NEW p \in Puts(todo)', NEW c \in held', Cell(c) = Cell(p)
                 PROVE  c.b \in Erased(todo)'
      BY <2>1 DEF OnceFit, Cell
    <3>1. c \in held => c.b \in Erased(todo)
      BY <1>2, <2>1 DEF OnceFit
    <3>2. CASE DoErase(x)
      BY <2>1, <2>2, <3>1, <3>2
    <3>3. CASE ~ DoErase(x)
      BY <1>5, <2>1, <2>2, <2>3, <2>4, <3>1, <3>3
    <3> QED BY <3>2, <3>3
  <2>6. RestFit'
    <3> SUFFICES ASSUME NEW p \in Puts(todo)', p.part = "rest"
                 PROVE  p.b # First /\ p.s # STAT /\ p.b # dev'.erased /\ Erased(todo)' = {}
      BY DEF RestFit
    <3>1. p.b # First /\ p.s # STAT /\ p.b # dev.erased /\ Erased(todo) = {} /\ p.b \in Block
      <4>1. p \in Puts(todo)
        BY <2>1
      <4>2. PICK i \in 1 .. Len(todo) : Programs(todo[i]) /\ p = Content(todo[i])
        BY <4>1 DEF Puts
      <4>3. p.b = todo[i].b /\ p.part = todo[i].part
        BY <4>2 DEF Content
      <4>4. CASE call.for # "format"
        <5>1. todo[i] \in Gentle
          BY <4>4, CalmGentle DEF SystemInv, ScriptFit, Within
        <5> QED BY <1>2, <4>1, <4>2, <4>3, <5>1 DEF Gentle, Programming, RestFit
      <4>5. CASE call.for = "format"
        <5>1. FormatFit /\ IsList(todo)
          BY <1>1, <4>5, ScriptOps DEF SystemInv, ScriptFit
        <5>2. p.part # "rest"
          <6>1. CASE i <= Len(todo) - 8
            BY <1>1, <4>2, <5>1, <6>1 DEF FormatFit, Clearing, Programs
          <6>2. CASE i > Len(todo) - 8
            <7> DEFINE j == i - (Len(todo) - 8)
            <7>1. todo[i] = Setup[j] /\ j \in 1 .. 8
              BY <1>1, <5>1, <6>2, ListLen DEF FormatFit
            <7> HIDE DEF j
            <7>2. Setup[j].part # "rest"
              BY <7>1, SetupParts
            <7> QED BY <4>3, <7>1, <7>2
          <6> QED BY <5>1, <6>1, <6>2, ListLen
        <5> QED BY <5>2
      <4> QED BY <4>4, <4>5
    <3>2. p.b # None
      BY <3>1, BlocksAre
    <3>3. ~ DoErase(x)
      <4>1. DoErase(x) => x.b \in Erased(todo)
        <5>1. IsList(todo)
          BY <1>1, ScriptOps
        <5> QED BY <1>1, <5>1, EffectsHead DEF DoErase, x
      <4> QED BY <3>1, <4>1
    <3>4. dev'.erased \in { None, dev.erased }
      BY <1>1, <1>5, <3>3, StepDev DEF x
    <3> QED BY <2>1, <3>1, <3>2, <3>4
  <2>7. ErasedFit'
    <3>1. dev'.erased \in { None, dev'.block } /\ (~ Sd' => dev'.erased = None)
      <4>1. dev.erased \in { None, dev.block } /\ (~ Sd => dev.erased = None)
        BY <1>2 DEF ErasedFit
      <4>2. CASE Access(x)
        BY <1>1, <4>1, <4>2, StepDev DEF x
      <4>3. CASE Program(x) \/ Lists(x)
        BY <1>1, <4>1, <4>3, StepDev DEF x
      <4>4. CASE DoErase(x)
        <5>1. x.b = dev.block
          BY <1>1, <4>4, ScriptOps DEF DoErase, x
        <5> QED BY <1>1, <4>1, <4>4, <5>1, StepDev DEF x
      <4> QED BY <1>5, <4>2, <4>3, <4>4
    <3>2. ASSUME NEW c \in held', c.part = "rest" PROVE c.b # First /\ c.s # STAT /\ (whole' => c.b # dev'.erased)
      <4>1. c \in held => c.b # First /\ c.s # STAT /\ (whole => c.b # dev.erased)
        BY <1>2, <3>2 DEF ErasedFit
      <4>2. c \in held => c.b # None
        <5> SUFFICES ASSUME c \in held PROVE c.b # None
          OBVIOUS
        <5>1. PICK m \in mem : c = Named(m)
          BY DEF held
        <5>2. m.at \in Nat
          <6>1. SdBlock(Blocks, 0, 0) \in Nat
            BY BlockStarts, BlocksAre
          <6> QED BY <6>1 DEF SystemInv, DeviceFit
        <5>3. \E b \in Nat : \E q \in 0 .. PagesPerBlock - 1 : \E i \in 0 .. SectorsPerPage : m.at = SdBlock(b, q, i)
          BY <5>2, AddressSplit
        <5>4. c.b \in Nat
          BY <5>1, <5>3, NamedIs
        <5> QED BY <5>4 DEF None
      <4>3. CASE DoErase(x)
        <5>1. c \in held /\ c.b # x.b
          BY <2>2, <4>3
        <5>2. whole' => whole
          BY <4>3 DEF DoErase, FormatBegun
        <5> QED BY <1>1, <4>1, <4>3, <5>1, <5>2, StepDev DEF x
      <4>4. CASE Access(x) \/ Lists(x)
        <5>1. whole' = whole /\ dev'.erased \in { None, dev.erased }
          BY <1>1, <4>4, StepDev DEF x, Access, Lists, Aside, mounts
        <5> QED BY <2>2, <4>1, <4>2, <4>4, <5>1
      <4>5. CASE Program(x)
        <5>1. dev' = dev
          BY <1>1, <4>5, StepDev DEF x
        <5>2. CASE c = Content(x)
          <6>1. c.b # First /\ c.s # STAT /\ c.b # dev.erased
            BY <1>2, <2>4, <3>2, <4>5, <5>2 DEF RestFit
          <6> QED BY <5>1, <6>1
        <5>3. CASE c # Content(x)
          <6>1. c \in held
            BY <2>2, <4>5, <5>3
          <6>2. whole' => whole \/ call.for = "format"
            BY <4>5 DEF Program, FormatDone
          <6>3. CASE call.for # "format" \/ whole
            BY <4>1, <5>1, <6>1, <6>2, <6>3
          <6>4. CASE call.for = "format" /\ whole' /\ ~ whole
            <7>1. dev.erased \in { None, x.b } /\ x.b = First
              BY <1>1, <1>2, <2>2, <4>5, <6>4, ScriptOps DEF ErasedFit, x
            <7> QED BY <4>1, <4>2, <5>1, <6>1, <7>1
          <6> QED BY <4>1, <6>1, <6>3, <6>4
        <5> QED BY <5>2, <5>3
      <4> QED BY <1>5, <4>3, <4>4, <4>5
    <3> QED BY <3>1, <3>2 DEF ErasedFit
  <2> QED BY <1>3, <2>5, <2>6, <2>7 DEF ScriptKept
<1> QED BY <1>1, <1>4, <1>5

-----------------------------------------------------------------------------
(* What is stored, when the table and the files do not change.             *)

LEMMA SameFiles ==
  ASSUME UNCHANGED << ichain, files, dirty, whole >>
  PROVE  /\ \A b : (Owned(b)' <=> Owned(b)) /\ (TableBlock(b)' <=> TableBlock(b))
         /\ \A f, b : InChain(f, b)' <=> InChain(f, b)
         /\ Live' = Live /\ Newest' = Newest /\ (InFront' <=> InFront) /\ (RoomFit' <=> RoomFit)
         /\ \A f : /\ EntryBlock(f)' = EntryBlock(f) /\ StoredSectors(f)' = StoredSectors(f)
                   /\ LastBlock(f)' = LastBlock(f)
         /\ \A c : TableSector(c)' <=> TableSector(c)
<1>1. ichain' = ichain /\ files' = files /\ dirty' = dirty /\ whole' = whole
  OBVIOUS
<1>2. Live' = Live /\ (\A b : TableBlock(b)' <=> TableBlock(b)) /\ (\A f, b : InChain(f, b)' <=> InChain(f, b))
  BY <1>1 DEF Live, TableBlock, InChain
<1>3. \A b : Owned(b)' <=> Owned(b)
  BY <1>2 DEF Owned
<1>4. Newest' = Newest /\ (InFront' <=> InFront) /\ (RoomFit' <=> RoomFit)
  BY <1>1 DEF Newest, InFront, RoomFit
<1>5. \A f : EntryBlock(f)' = EntryBlock(f) /\ LastBlock(f)' = LastBlock(f)
  BY <1>1 DEF EntryBlock, LastBlock
<1>6. \A f : StoredSectors(f)' = StoredSectors(f)
  BY <1>1 DEF StoredSectors
<1>7. \A c : TableSector(c)' <=> TableSector(c)
  BY <1>1, <1>5 DEF TableSector
<1> QED BY <1>2, <1>3, <1>4, <1>5, <1>6, <1>7

(* Every cell that an invariant speaks of lies in a block that is owned.   *)
LEMMA OwnedCells ==
  ASSUME SystemInv, ContentKept
  PROVE  /\ \A b : TableBlock(b) => Owned(b) /\ b \in Block
         /\ \A f \in Live : \A b : InChain(f, b) => Owned(b) /\ b \in Used
         /\ \A f \in Live : /\ Owned(EntryBlock(f)) /\ TableBlock(EntryBlock(f)) /\ Owned(LastBlock(f)) /\ InChain(f, LastBlock(f))
                            /\ \A p \in StoredSectors(f) : Owned(p[1]) /\ InChain(f, p[1])
<1>1. ASSUME NEW b, TableBlock(b) PROVE Owned(b) /\ b \in Block
  BY <1>1 DEF Owned, TableBlock, SystemInv, TableFit
<1>2. ASSUME NEW f \in Live, NEW b, InChain(f, b) PROVE Owned(b) /\ b \in Used
  <2>1. files[f].chain \in Seq(Used)
    BY DEF Live, SystemInv, TableFit
  <2> QED BY <1>2, <2>1 DEF Owned, InChain
<1>3. ASSUME NEW f \in Live
      PROVE  /\ Owned(EntryBlock(f)) /\ TableBlock(EntryBlock(f)) /\ Owned(LastBlock(f)) /\ InChain(f, LastBlock(f))
             /\ \A p \in StoredSectors(f) : Owned(p[1]) /\ InChain(f, p[1])
  <2>1. f \in DOMAIN files /\ TableFit /\ FilesFit
    BY DEF Live, SystemInv, MeantInv
  <2>2. files[f].chain \in Seq(Used) /\ files[f].chain # << >> /\ whole
    BY <2>1 DEF TableFit
  <2> DEFINE ch == files[f].chain
  <2>3. Len(ch) \in 1 .. Len(ch)
    BY <2>2
  <2>4. InChain(f, LastBlock(f))
    BY <2>3 DEF InChain, LastBlock
  <2>5. ASSUME NEW p \in StoredSectors(f) PROVE InChain(f, p[1])
    <3>1. \E i \in 1 .. Len(ch) : p[1] = ch[i]
      BY <2>3, SMTT(30) DEF StoredSectors
    <3> QED BY <3>1 DEF InChain
  <2>6. TableBlock(EntryBlock(f))
    <3>1. Len(files) \in Nat /\ f \in 1 .. Newest /\ Newest \in Nat \ {0} /\ Grown(Newest)
      BY <2>1, <2>2, FilesAre DEF TableFit, Newest
    <3>2. Grown(f) /\ f \in Nat \ {0}
      BY <2>1, <3>1, GrownMore DEF TableFit
    <3>3. ((f - 1) \div EntriesPerBlock) + 1 \in 1 .. Len(ichain)
      <4>1. EntriesPerBlock \in Nat \ {0} /\ Len(ichain) \in Nat
        BY <2>1, EntriesAre DEF TableFit
      <4>2. (f - 1) \div EntriesPerBlock \in Nat
        BY <3>2, <4>1, DivStep
      <4>3. Len(ichain) >= ((f - 1) \div EntriesPerBlock) + 1
        BY <3>2 DEF Grown
      <4> DEFINE q == (f - 1) \div EntriesPerBlock
      <4> HIDE DEF q
      <4>4. q + 1 \in 1 .. Len(ichain)
        BY <4>1, <4>2, <4>3 DEF q
      <4> QED BY <4>4 DEF q
    <3> QED BY <3>3 DEF TableBlock, EntryBlock
  <2> QED BY <1>1, <1>2, <2>4, <2>5, <2>6
<1> QED BY <1>1, <1>2, <1>3

LEMMA ContentDropped ==
  ASSUME SystemInv, ContentKept, UNCHANGED << ichain, files, dirty, whole >>,
         \A c : Owned(c.b) => (c \in Future' <=> c \in Future),
         CleanFit'
  PROVE  ContentKept'
<1>1. /\ \A b : (Owned(b)' <=> Owned(b)) /\ (TableBlock(b)' <=> TableBlock(b))
      /\ \A f, b : InChain(f, b)' <=> InChain(f, b)
      /\ Live' = Live /\ Newest' = Newest /\ (RoomFit' <=> RoomFit)
      /\ \A f : /\ EntryBlock(f)' = EntryBlock(f) /\ StoredSectors(f)' = StoredSectors(f)
                /\ LastBlock(f)' = LastBlock(f)
      /\ \A c : TableSector(c)' <=> TableSector(c)
  BY SameFiles
<1>2. ichain' = ichain /\ files' = files /\ dirty' = dirty /\ whole' = whole
  OBVIOUS
<1>3. \A b, s, part, tag : Owned(b) => (Will(b, s, part, tag)' <=> Will(b, s, part, tag))
  <2> SUFFICES ASSUME NEW b, NEW s, NEW part, NEW tag, Owned(b)
               PROVE  Will(b, s, part, tag)' <=> Will(b, s, part, tag)
    OBVIOUS
  <2> DEFINE c == [ b |-> b, s |-> s, part |-> part, tag |-> tag ]
  <2>1. c.b = b
    OBVIOUS
  <2>2. (Will(b, s, part, tag) <=> c \in Future) /\ (Will(b, s, part, tag)' <=> c \in Future')
    BY DEF Will
  <2> HIDE DEF c
  <2> QED BY <2>1, <2>2
<1>4. OwnedFit'
  BY <1>1, <1>2, <1>3 DEF ContentKept, OwnedFit
<1>5. StoredFit'
  BY <1>1, <1>3, OwnedCells DEF ContentKept, StoredFit
<1>6. WriterFit'
  <2> SUFFICES ASSUME NEW f \in DOMAIN files, files[f].open
               PROVE  f \in Live /\ \A c \in Future' : c.b = LastBlock(f) /\ c.s # STAT => c.s \in Before(files[f].sector)
    BY <1>1, <1>2 DEF WriterFit
  <2>1. f \in Live /\ \A c \in Future : c.b = LastBlock(f) /\ c.s # STAT => c.s \in Before(files[f].sector)
    BY DEF ContentKept, WriterFit
  <2>2. Owned(LastBlock(f))
    BY <2>1, OwnedCells
  <2> QED BY <2>1, <2>2
<1>7. DirtyFit'
  BY <1>1, <1>2 DEF ContentKept, DirtyFit
<1>8. EntriesFit'
  <2>1. whole' => \A c \in Future' : TableBlock(c.b)' /\ c.s # STAT => TableSector(c)'
    BY <1>1, <1>2, OwnedCells DEF ContentKept, EntriesFit
  <2>2. \A b \in Block : TableBlock(b)' => Will(b, INIT, "spare", "inode0")' \/ Will(b, INIT, "spare", "inode")'
    <3>1. \A b \in Block : TableBlock(b) => Owned(b) /\ (Will(b, INIT, "spare", "inode0") \/ Will(b, INIT, "spare", "inode"))
      BY OwnedCells DEF ContentKept, EntriesFit
    <3> QED BY <1>1, <1>3, <3>1
  <2> QED BY <2>1, <2>2 DEF EntriesFit
<1>9. RoomFit'
  BY <1>1 DEF ContentKept
<1> QED BY <1>4, <1>5, <1>6, <1>7, <1>8, <1>9 DEF ContentKept

(* What a script that is given up would have done to blocks in use: nothing. *)
LEMMA GivenUp ==
  ASSUME Trusted, SystemInv, Kept, call.for \notin { "format", "rm" }, plan \in Primes \/ (Puts(todo) = {} /\ Erased(todo) = {})
  PROVE  /\ \A c : Owned(c.b) => (c \in held <=> c \in Future)
         /\ whole => \A c \in held : c.b \in Used /\ c.s # STAT => Owned(c.b)
<1>1. Future = { c \in held : c.b \notin Erased(todo) } \cup Puts(todo)
  BY DEF Future, After
<1>2. CASE plan \in Primes
  <2>1. \A b \in Erased(todo) : ~ Owned(b)
    BY DEF Kept, DrawFit
  <2>2. \A c \in Puts(todo) : ~ Owned(c.b)
    BY <1>2 DEF Kept, DrawFit
  <2>3. \A c \in held : c.b \in Used /\ c.s # STAT => Owned(c.b)
    BY <1>2 DEF Kept, TakenFit
  <2> QED BY <1>1, <2>1, <2>2, <2>3
<1>3. CASE Puts(todo) = {} /\ Erased(todo) = {}
  <2>1. Future = held
    BY <1>1, <1>3
  <2> QED BY <2>1 DEF Kept, ContentKept, CleanFit
<1> QED BY <1>2, <1>3

LEMMA StepCalls ==
  ASSUME Trusted, SystemInv, Kept, Step, NEW x, x = Head(todo)
  PROVE  /\ on /\ todo # << >> /\ (Access(x) \/ Program(x) \/ Lists(x) \/ DoErase(x) \/ EraseFails(x))
         /\ UNCHANGED << call, backend, state, inode0, on >>
         /\ ~ EraseFails(x) => plan' = plan /\ todo' = Tail(todo) /\ faults' = faults /\ After(todo)' = After(todo)
         /\ call.for # "format" => UNCHANGED << ichain, files, dirty, whole >>
         /\ ~ EraseFails(x) /\ call.for # "format" => Future' = Future
         /\ EraseFails(x) => /\ call.for # "rm" /\ todo' = << >> /\ Future' = held'
                             /\ x.op = "erase" /\ x.b \in Erased(todo)
                             /\ held' \subseteq held /\ \A c \in held : c.b # x.b => c \in held'
<1>1. on /\ todo # << >> /\ (Access(x) \/ Program(x) \/ Lists(x) \/ DoErase(x) \/ EraseFails(x))
  BY TrustedStep
<1>2. UNCHANGED << call, backend, state, inode0, on >>
  BY <1>1 DEF Access, Program, Lists, DoErase, EraseFails, Aside, mounts
<1>3. ~ EraseFails(x) => plan' = plan /\ todo' = Tail(todo) /\ faults' = faults
  BY <1>1 DEF Access, Program, Lists, DoErase, Aside, Goto
<1>4. ~ EraseFails(x) => After(todo)' = After(todo)
  BY <1>1, StepAfter
<1>5. call.for # "format" => UNCHANGED << ichain, files, dirty, whole >>
  BY <1>1 DEF Access, Program, Lists, DoErase, EraseFails, Aside, fs, mounts, FormatDone, FormatBegun
<1>6. ~ EraseFails(x) /\ call.for # "format" => Future' = Future
  BY <1>2, <1>4 DEF Future
<1>7. ASSUME EraseFails(x)
      PROVE  /\ call.for # "rm" /\ todo' = << >> /\ Future' = held' /\ x.op = "erase" /\ x.b \in Erased(todo)
             /\ held' \subseteq held /\ \A c \in held : c.b # x.b => c \in held'
  <2>1. /\ call.for # "rm" /\ todo' = << >> /\ x.op = "erase"
        /\ held' \subseteq held /\ \A c \in held : c.b # x.b => c \in held'
    BY <1>1, <1>7, FailedStep
  <2>2. After(todo)' = held'
    BY <2>1, ScriptEnded
  <2>3. Future' = held'
    BY <1>2, <2>2 DEF Future
  <2>4. x.b \in Erased(todo)
    <3>1. IsList(todo)
      BY <1>1, ScriptOps
    <3> QED BY <1>1, <2>1, <3>1, EffectsHead
  <2> QED BY <2>1, <2>2, <2>3, <2>4
<1> QED BY <1>1, <1>2, <1>3, <1>4, <1>5, <1>6, <1>7

LEMMA ContentStep ==
  ASSUME Trusted, SystemInv, Kept, Step, call.for # "format"
  PROVE  ContentKept'
<1> DEFINE x == Head(todo)
<1>1. /\ UNCHANGED << ichain, files, dirty, whole >> /\ call' = call
      /\ ~ EraseFails(x) => Future' = Future
      /\ EraseFails(x) => /\ call.for # "rm" /\ Future' = held' /\ x.b \in Erased(todo)
                          /\ held' \subseteq held /\ \A c \in held : c.b # x.b => c \in held'
  BY StepCalls
<1> HIDE DEF x
<1>2. ContentKept
  BY DEF Kept
<1>3. (\A b : Owned(b)' <=> Owned(b)) /\ whole' = whole
  BY <1>1, SameFiles
<1>4. CASE ~ EraseFails(x)
  <2>1. CleanFit'
    BY <1>1, <1>2, <1>3, <1>4 DEF ContentKept, CleanFit
  <2> QED BY <1>1, <1>2, <1>4, <2>1, ContentDropped
<1>5. CASE EraseFails(x)
  <2>1. plan \in Primes
    BY <1>1, <1>5 DEF Kept, DrawFit
  <2>2. /\ \A c : Owned(c.b) => (c \in held <=> c \in Future)
        /\ whole => \A c \in held : c.b \in Used /\ c.s # STAT => Owned(c.b)
    BY <1>1, <1>5, <2>1, GivenUp
  <2>3. CleanFit'
    BY <1>1, <1>3, <1>5, <2>2 DEF CleanFit
  <2>4. ~ Owned(x.b)
    BY <1>1, <1>5 DEF Kept, DrawFit
  <2>5. \A c : Owned(c.b) => (c \in Future' <=> c \in Future)
    BY <1>1, <1>5, <2>2, <2>4
  <2> QED BY <1>1, <1>2, <2>3, <2>5, ContentDropped
<1> QED BY <1>4, <1>5

(* A flash without a table.                                                *)
LEMMA ContentNone ==
  ASSUME ~ whole', files' = << >>, ichain' = << >>, dirty' = 0
  PROVE  ContentKept' /\ \A b : ~ Owned(b)'
<1>1. DOMAIN files' = {} /\ Len(ichain') = 0
  BY ListNone, ListLen
<1>2. Live' = {} /\ \A b : ~ TableBlock(b)'
  BY <1>1 DEF Live, TableBlock
<1>3. \A b : ~ Owned(b)'
  BY <1>2 DEF Owned
<1>4. CleanFit' /\ RoomFit'
  BY DEF CleanFit, RoomFit
<1>5. OwnedFit'
  BY <1>1, <1>2, <1>3 DEF OwnedFit
<1>6. StoredFit' /\ WriterFit' /\ DirtyFit'
  BY <1>1, <1>2 DEF StoredFit, WriterFit, DirtyFit
<1>7. EntriesFit'
  BY <1>2 DEF EntriesFit
<1> QED BY <1>3, <1>4, <1>5, <1>6, <1>7 DEF ContentKept

(* The table of a format that came to its end.                             *)
LEMMA ContentFirst ==
  ASSUME SystemInv', whole', ~ lost', files' = << >>, ichain' = << First >>, dirty' = 0, Future' = held',
         \A c \in held' : c.b \notin Used /\ (c.b = First => c.s \in { STAT, INIT })
  PROVE  ContentKept'
<1>1. DOMAIN files' = {} /\ Len(files') = 0
  BY ListNone, ListLen
<1>2. Len(ichain') = 1 /\ ichain'[1] = First
  <2>1. Len(<< First >>) = 1 /\ << First >>[1] = First
    BY ListOne
  <2> QED BY <2>1
<1>3. Live' = {} /\ \A b : TableBlock(b)' <=> b = First
  BY <1>1, <1>2 DEF Live, TableBlock
<1>4. \A b : Owned(b)' <=> b = First
  BY <1>3 DEF Owned
<1>5. Will(First, STAT, "first", "key")' /\ Will(First, INIT, "spare", "inode0")'
  BY DEF SystemInv, TableFit, Rooted, Keyed, IsInode0, Holds, Will
<1>6. CleanFit'
  BY DEF CleanFit
<1>7. OwnedFit'
  BY <1>1, <1>2, <1>3, <1>4, <1>5 DEF OwnedFit
<1>8. StoredFit' /\ WriterFit' /\ DirtyFit'
  BY <1>1, <1>3 DEF StoredFit, WriterFit, DirtyFit
<1>9. EntriesFit'
  BY <1>3, <1>5 DEF EntriesFit, TableSector
<1>10. RoomFit'
  <2>1. Newest' = 1
    BY <1>1 DEF Newest
  <2>2. \A k \in Nat \ {0} : k \div EntriesPerBlock \in Nat
    BY EntriesAre, DivStep
  <2> QED BY <1>2, <2>1, <2>2 DEF RoomFit
<1> QED BY <1>6, <1>7, <1>8, <1>9, <1>10 DEF ContentKept

LEMMA FormatStepIs ==
  ASSUME Trusted, SystemInv, Kept, Step, call.for = "format", NEW x, x = Head(todo)
  PROVE  /\ whole' /\ whole => held' = held /\ UNCHANGED << ichain, files, dirty >>
         /\ whole' /\ ~ whole => /\ x.op = "spare" /\ Len(todo) = 1 /\ ichain' = << First >>
                                 /\ UNCHANGED << files, dirty >>
         /\ x.op \notin { "push", "lists" } /\ plan = << >> /\ plan' = << >> /\ state = "reset"
<1>1. /\ on /\ todo # << >> /\ (Access(x) \/ Program(x) \/ Lists(x) \/ DoErase(x) \/ EraseFails(x))
      /\ EraseFails(x) => call.for # "rm"
  BY StepCalls
<1>2. FormatFit /\ IsList(todo) /\ x = todo[1] /\ x.op \notin { "push", "lists" }
  BY <1>1, ScriptOps DEF SystemInv, ScriptFit
<1>3. plan = << >> /\ state = "reset"
  BY DEF SystemInv, MountFit
<1>4. plan' = << >>
  BY <1>1, <1>3, FailedStep DEF Access, Program, Lists, DoErase, Goto
<1>5. ASSUME whole, whole', ~ EraseFails(x) PROVE held' = held /\ UNCHANGED << ichain, files, dirty >>
  <2>1. Len(todo) > 8
    BY <1>1, <1>2, <1>5, FormatHead DEF FormatFit
  <2>2. x.op \in { "open", "erase" }
    BY <1>1, <1>2, <2>1, FormatHead DEF Clearing
  <2>3. ~ DoErase(x) /\ ~ Program(x) /\ ~ Lists(x)
    BY <1>5, <2>2 DEF DoErase, FormatBegun, Program, Lists
  <2>4. held' = held
    BY <1>1, <1>5, <2>3, StepHeld
  <2>5. UNCHANGED << ichain, files, dirty >>
    BY <1>1, <1>5, <2>3 DEF Access, Aside, fs
  <2> QED BY <2>4, <2>5
<1>6. ASSUME ~ whole, whole'
      PROVE  x.op = "spare" /\ Len(todo) = 1 /\ ichain' = << First >> /\ UNCHANGED << files, dirty >>
  <2>1. Program(x) /\ x.op = "spare" /\ ichain' = << x.b >>
    BY <1>1, <1>6 DEF Access, Program, Lists, DoErase, EraseFails, Aside, mounts, FormatDone, FormatBegun
  <2> DEFINE L == Len(todo)
  <2>2. L \in Nat /\ L = Len(todo)
    BY <1>1, <1>2, FormatHead
  <2> HIDE DEF L
  <2>3. L = 1 /\ x = Op("spare", First, INIT, "spare", "inode0")
    BY <1>1, <1>2, <2>1, <2>2, FormatOps
  <2>4. x.b = First
    BY <2>3, OpFields
  <2>5. UNCHANGED << files, dirty >>
    BY <2>1 DEF Program
  <2> QED BY <2>1, <2>2, <2>3, <2>4, <2>5
<1>7. EraseFails(x) /\ whole' => held' = held /\ UNCHANGED << ichain, files, dirty >>
  BY <1>1, FailedStep
<1> QED BY <1>2, <1>3, <1>4, <1>5, <1>6, <1>7

LEMMA ContentFormat ==
  ASSUME Trusted, SystemInv, SystemInv', Kept, Step, call.for = "format", ~ lost
  PROVE  ContentKept'
<1> DEFINE x == Head(todo)
<1>1. /\ call' = call /\ todo # << >>
      /\ ~ EraseFails(x) => todo' = Tail(todo) /\ After(todo)' = After(todo)
      /\ EraseFails(x) => x.op = "erase"
  BY StepCalls
<1>2. /\ whole' /\ whole => held' = held /\ UNCHANGED << ichain, files, dirty >>
      /\ whole' /\ ~ whole => /\ x.op = "spare" /\ Len(todo) = 1 /\ ichain' = << First >>
                              /\ UNCHANGED << files, dirty >>
  BY FormatStepIs
<1> HIDE DEF x
<1>3. Future = held /\ Future' = held'
  BY <1>1 DEF Future
<1>4. CASE ~ whole'
  <2>1. files' = << >> /\ ichain' = << >> /\ dirty' = 0
    BY <1>4 DEF SystemInv, TableFit
  <2> QED BY <1>4, <2>1, ContentNone
<1>5. CASE whole' /\ whole
  <2>1. ContentKept /\ UNCHANGED << ichain, files, dirty, whole >> /\ Future' = Future
    BY <1>2, <1>3, <1>5 DEF Kept
  <2>2. \A b : Owned(b)' <=> Owned(b)
    BY <2>1, SameFiles
  <2>3. CleanFit'
    BY <2>1, <2>2 DEF ContentKept, CleanFit
  <2> QED BY <2>1, <2>3, ContentDropped
<1>6. CASE whole' /\ ~ whole
  <2>1. files' = << >> /\ dirty' = 0 /\ ichain' = << First >>
    BY <1>2, <1>6 DEF SystemInv, TableFit
  <2>2. IsList(todo) /\ Len(Tail(todo)) = 0 /\ IsList(Tail(todo))
    <3>1. IsList(todo)
      BY <1>1, ScriptOps
    <3> QED BY <1>1, <1>2, <1>6, <3>1, ListTail
  <2>3. todo' = << >> /\ ~ EraseFails(x)
    BY <1>1, <1>2, <1>6, <2>2, ListLen
  <2>4. After(todo) = held'
    BY <1>1, <2>3, ScriptEnded
  <2>5. \A c \in held' : c.b \notin Used /\ (c.b = First => c.s \in { STAT, INIT })
    BY <1>1, <2>4 DEF Kept, FutureFit
  <2>6. ~ lost'
    BY TrustedStep
  <2> QED BY <1>3, <1>6, <2>1, <2>5, <2>6, ContentFirst
<1> QED BY <1>4, <1>5, <1>6

-----------------------------------------------------------------------------
(* One page operation and the lists.                                       *)

LEMMA StepLists ==
  ASSUME Trusted, SystemInv, Kept, Step, NEW x, x = Head(todo)
  PROVE  /\ Access(x) => /\ available' = available /\ n' = n /\ pending' \subseteq pending /\ pending \ { x.b } \subseteq pending'
                         /\ nfree' \in { nfree, nfree + 1 }
                         /\ x.op \in { "open", "see" } => cache'.open /\ cache'.block = x.b /\ x.b \notin pending'
                         /\ x.op \in { "probe", "close" } => ~ cache'.open
                         /\ x.op = "raw" => cache' = cache
                         /\ x.op \in { "open", "see", "raw", "probe", "close" }
         /\ Program(x) \/ DoErase(x) \/ EraseFails(x) => UNCHANGED << pre, cache >>
         /\ Lists(x) => /\ cache' = cache /\ call.for # "format" /\ plan \in Primes /\ mem' = mem
                        /\ \/ /\ x.op = "push" /\ Push(x.b) /\ Len(todo) = 1 /\ x.b \in Used
                              /\ ~ IsFull /\ ~ Contains(x.b) /\ ~ Owned(x.b) /\ Will(x.b, STAT, "first", "key")
                           \/ x.op = "lists" /\ Reinitialize /\ plan = PlanP
         /\ available' # available => Lists(x)
<1>1. /\ on /\ todo # << >> /\ (Access(x) \/ Program(x) \/ Lists(x) \/ DoErase(x) \/ EraseFails(x))
  BY StepCalls
<1>2. Len(todo) \in Nat \ {0} /\ x = todo[1] /\ (x.op = "push" => x.b \in Used)
      /\ (call.for = "format" => x.op \notin { "push", "lists" })
  BY <1>1, ScriptOps
<1>3. ASSUME Access(x)
      PROVE  /\ available' = available /\ n' = n /\ pending' \subseteq pending /\ pending \ { x.b } \subseteq pending'
             /\ nfree' \in { nfree, nfree + 1 }
             /\ x.op \in { "open", "see" } => cache'.open /\ cache'.block = x.b /\ x.b \notin pending'
             /\ x.op \in { "probe", "close" } => ~ cache'.open
             /\ x.op = "raw" => cache' = cache
             /\ x.op \in { "open", "see", "raw", "probe", "close" }
  <2>1. \A b \in pending : ~ (cache.open /\ cache.block = b)
    BY DEF Kept, ListFit
  <2>2. cache = [ open |-> cache.open, block |-> cache.block, page |-> cache.page ]
    BY DEF SystemInv, MeantInv, DeviceInv, Fit
  <2>3. CASE x.op \in { "open", "see" } /\ OpenPage(x.b, x.s)
    BY <2>1, <2>3 DEF OpenPage, Cached, RemovePending, pre
  <2>4. CASE x.op = "raw" /\ UNCHANGED << pre, cache >>
    BY <2>4 DEF pre
  <2>5. CASE x.op = "probe" /\ ProbePage(x.b)
    BY <2>5 DEF ProbePage, RemovePending, pre
  <2>6. CASE x.op = "close" /\ cache' = [ cache EXCEPT !.open = FALSE ] /\ UNCHANGED << pre, dev >>
    <3>1. cache'.open = FALSE
      BY <2>2, <2>6
    <3> QED BY <2>6, <3>1 DEF pre
  <2> QED BY <1>3, <2>3, <2>4, <2>5, <2>6 DEF Access
<1>4. Program(x) \/ DoErase(x) \/ EraseFails(x) => UNCHANGED << pre, cache >>
  BY DEF Program, DoErase, EraseFails
<1>5. ASSUME Lists(x)
      PROVE  /\ cache' = cache /\ call.for # "format" /\ plan \in Primes /\ mem' = mem
             /\ \/ /\ x.op = "push" /\ Push(x.b) /\ Len(todo) = 1 /\ x.b \in Used
                   /\ ~ IsFull /\ ~ Contains(x.b) /\ ~ Owned(x.b) /\ Will(x.b, STAT, "first", "key")
                \/ x.op = "lists" /\ Reinitialize /\ plan = PlanP
  <2>1. cache' = cache /\ mem' = mem /\ ((x.op = "push" /\ Push(x.b)) \/ (x.op = "lists" /\ Reinitialize))
    BY <1>5 DEF Lists, layer
  <2>2. call.for # "format"
    BY <1>2, <2>1
  <2>3. 1 \in 1 .. Len(todo)
    BY <1>2
  <2>4. plan \in Primes
    BY <1>2, <2>1, <2>2, <2>3 DEF Kept, DrawFit
  <2>5. x.op = "push" => 1 = Len(todo) /\ ~ IsFull /\ ~ Contains(x.b) /\ ~ Owned(x.b) /\ Will(x.b, STAT, "first", "key")
    BY <1>2, <2>3, <2>4 DEF Kept, DrawFit
  <2>6. x.op = "lists" => plan = PlanP
    BY <1>2, <2>3, <2>4 DEF Kept, DrawFit
  <2> QED BY <1>2, <2>1, <2>2, <2>4, <2>5, <2>6
<1>6. available' # available => Lists(x)
  BY <1>1, <1>3, <1>4 DEF pre
<1> QED BY <1>3, <1>4, <1>5, <1>6

LEMMA PreStep ==
  ASSUME Trusted, SystemInv, Kept, Step
  PROVE  PreInv'
<1> DEFINE x == Head(todo)
<1>1. Access(x) \/ Program(x) \/ Lists(x) \/ DoErase(x) \/ EraseFails(x)
  BY StepCalls
<1>2. PreInv
  BY DEF Kept
<1>3. CASE Program(x) \/ DoErase(x) \/ EraseFails(x)
  BY <1>2, <1>3, StepLists, PreStutter
<1>4. CASE Lists(x)
  <2>1. \/ Push(x.b) /\ x.b \in Used /\ ~ IsFull /\ ~ Contains(x.b)
        \/ Reinitialize
    BY <1>4, StepLists
  <2> DEFINE y == x.b
  <2>2. \/ Push(y) /\ y \in Block /\ ~ IsFull /\ ~ Contains(y)
        \/ Reinitialize
    BY <2>1, BlocksAre
  <2> HIDE DEF y
  <2> QED BY <1>2, <2>2, PushInv, ReinitializeInv
<1>5. CASE Access(x)
  <2> DEFINE y == x.b
  <2>1. RemovePending(y) \/ UNCHANGED pre
    BY <1>5 DEF Access, OpenPage, ProbePage
  <2> HIDE DEF y
  <2> QED BY <1>2, <2>1, RemovePendingInv, PreStutter
<1> QED BY <1>1, <1>3, <1>4, <1>5

(* The table is not ahead of its entries when there is at most one block.  *)
LEMMA NotInFront ==
  ASSUME files' = << >>, ichain' = << >> \/ ichain' = << First >>
  PROVE  ~ InFront'
<1>1. Len(files') = 0 /\ Len(ichain') \in { 0, 1 }
  BY ListNone, ListOne
<1>2. \A k \in Nat \ {0} : (k - 1) \div EntriesPerBlock \in Nat
  BY EntriesAre, DivStep
<1>3. Newest' = 1
  BY <1>1 DEF Newest
<1>4. (Newest' - 1) \div EntriesPerBlock \in Nat
  BY <1>2, <1>3
<1> DEFINE q == (Newest' - 1) \div EntriesPerBlock  m == Len(ichain')
<1>5. ~ (m > q + 1)
  <2>1. q \in Nat /\ m \in { 0, 1 }
    BY <1>1, <1>4
  <2> HIDE DEF q, m
  <2> QED BY <2>1
<1> QED BY <1>5 DEF InFront

(* Priming is given up: what comes next.                                   *)
LEMMA PrimeTails ==
  ASSUME plan \in Primes
  PROVE  /\ plan \in { PlanPE, PlanPIFAE, PlanPT } => plan \in BlockTaken /\ Tail(plan) \in BlockTaken
         /\ plan = PlanP => Tail(plan) = << >>
         /\ plan = PlanPE => Tail(plan) = PlanE /\ plan \in EntryPlans /\ Tail(plan) \in EntryPlans
         /\ plan = PlanPIFAE => Tail(plan) = PlanIFAE /\ plan \in InodePlans /\ Tail(plan) \in InodePlans
         /\ plan = PlanPT => Tail(plan) = PlanT /\ plan \in WritePlans /\ Tail(plan) \in WritePlans
BY PlansAre DEF Primes, BlockTaken, EntryPlans, InodePlans, WritePlans

LEMMA PlanKinds ==
  ASSUME NEW p
  PROVE  /\ PlanE # << >> /\ PlanIFAE # << >> /\ PlanT # << >>
         /\ p \in Primes => p # << >> /\ p \notin { PlanE, PlanIFAE, PlanT, PlanAE, PlanAIFAE, PlanAT, PlanFAE, PlanFAIFAE, PlanFAT, PlanNP }
         /\ p \in { PlanE, PlanIFAE, PlanT } => p \notin Primes /\ p \notin { PlanP, PlanNP, PlanAE, PlanAIFAE, PlanAT, PlanFAE, PlanFAIFAE, PlanFAT }
         /\ p = << >> => p \notin Primes \cup { PlanE, PlanIFAE, PlanT } \cup BlockTaken \cup InodePlans \cup EntryPlans \cup WritePlans \cup MountPlans
         /\ p \in BlockTaken => p \in Primes \cup { PlanE, PlanIFAE, PlanT }
BY PlansAre DEF Primes, BlockTaken, InodePlans, EntryPlans, WritePlans, MountPlans

LEMMA PhaseStep ==
  ASSUME Trusted, SystemInv, SystemInv', Kept, Step
  PROVE  PhaseFit'
<1> DEFINE x == Head(todo)
<1>1. /\ on /\ todo # << >> /\ (Access(x) \/ Program(x) \/ Lists(x) \/ DoErase(x) \/ EraseFails(x))
      /\ UNCHANGED << call, state >>
      /\ ~ EraseFails(x) => plan' = plan
      /\ call.for # "format" => UNCHANGED << ichain, files, dirty, whole >>
      /\ EraseFails(x) => call.for # "rm" /\ x.b \in Erased(todo)
  BY StepCalls
<1>2. PhaseFit
  BY DEF Kept
<1>3. call.for # "none"
  BY <1>1, <1>2 DEF PhaseFit
<1>4. CASE call.for # "format"
  <2>1. UNCHANGED << ichain, files, dirty, whole >>
    BY <1>1, <1>4
  <2>2. Newest' = Newest /\ (InFront' <=> InFront) /\ (NeedsBlock' <=> NeedsBlock)
    BY <2>1, SameFiles DEF NeedsBlock
  <2>3. CASE ~ EraseFails(x)
    <3>1. plan' = plan
      BY <1>1, <2>3
    <3>2. InFront' /\ plan' \notin EntryPlans => available' = << >> /\ plan' \notin BlockTaken
      <4>1. SUFFICES ASSUME InFront, plan \notin EntryPlans, available' # << >> PROVE FALSE
        BY <1>2, <2>2, <3>1 DEF PhaseFit
      <4>2. available = << >> /\ plan \notin BlockTaken
        BY <1>2, <4>1 DEF PhaseFit
      <4>3. Lists(x)
        BY <1>1, <4>1, <4>2, StepLists
      <4>4. plan \in Primes
        BY <1>1, <4>3, StepLists
      <4>5. plan = PlanP
        BY <4>2, <4>4, PrimeTails DEF Primes
      <4>6. call.for = "mount"
        BY <4>5, PlansAre DEF SystemInv, PlanFit, CreatePlans, EntryPlans, InodePlans, WritePlans
      <4> QED BY <1>2, <4>1, <4>6 DEF PhaseFit
    <3> QED BY <1>1, <1>2, <1>3, <2>1, <2>2, <3>1, <3>2 DEF PhaseFit
  <2>4. CASE EraseFails(x)
    <3>1. plan \in Primes
      BY <1>1, <1>4, <2>4 DEF Kept, DrawFit
    <3>2. plan' = (IF call.for = "mount" THEN << >> ELSE Tail(plan)) /\ available' = available
      BY <1>1, <1>4, <2>4, FailedStep DEF pre
    <3>3. CASE plan = PlanP
      <4>1. plan' = << >>
        BY <3>1, <3>2, <3>3, PrimeTails
      <4>2. plan' \notin BlockTaken \cup InodePlans \cup EntryPlans \cup WritePlans \cup MountPlans \cup { PlanAE, PlanAIFAE, PlanAT }
        BY <4>1, PlansAre DEF BlockTaken, InodePlans, EntryPlans, WritePlans, MountPlans
      <4>3. call.for = "mount"
        BY <3>3, PlansAre DEF SystemInv, PlanFit, CreatePlans, EntryPlans, InodePlans, WritePlans
      <4> QED BY <1>1, <1>2, <1>3, <2>1, <2>2, <4>2, <4>3 DEF PhaseFit
    <3>4. CASE plan # PlanP
      <4>1. call.for # "mount"
        BY <3>1, <3>4, PlansAre DEF SystemInv, PlanFit, Primes, MountPlans
      <4>2. plan' = Tail(plan) /\ plan \in BlockTaken /\ plan' \in BlockTaken
        BY <3>1, <3>2, <3>4, <4>1, PrimeTails DEF Primes
      <4>3. plan' \in { PlanE, PlanIFAE, PlanT } /\ (plan' = PlanE <=> plan = PlanPE) /\ (plan' = PlanIFAE <=> plan = PlanPIFAE)
            /\ (plan' = PlanT <=> plan = PlanPT)
        BY <3>1, <3>2, <3>4, <4>1, PlansAre DEF Primes
      <4>4. /\ plan' \in InodePlans => plan \in InodePlans
            /\ plan' \notin EntryPlans => plan \notin EntryPlans
            /\ plan' \in WritePlans => plan \in WritePlans
            /\ plan' \notin MountPlans
        BY <3>1, <4>3, PlansAre DEF Primes, InodePlans, EntryPlans, WritePlans, MountPlans
      <4> QED BY <1>1, <1>2, <1>3, <2>1, <2>2, <3>2, <4>1, <4>2, <4>3, <4>4 DEF PhaseFit
    <3> QED BY <3>3, <3>4
  <2> QED BY <2>3, <2>4
<1>5. CASE call.for = "format"
  <2>1. /\ whole' /\ whole => UNCHANGED << ichain, files, dirty >>
        /\ whole' /\ ~ whole => ichain' = << First >> /\ UNCHANGED << files, dirty >>
        /\ plan' = << >> /\ state = "reset"
    BY <1>5, FormatStepIs
  <2>2. plan' \notin BlockTaken \cup InodePlans \cup EntryPlans \cup WritePlans \cup MountPlans \cup { PlanAE, PlanAIFAE, PlanAT }
    BY <2>1, PlansAre DEF BlockTaken, InodePlans, EntryPlans, WritePlans, MountPlans
  <2>3. dirty' = 0 /\ ~ InFront'
    <3>1. CASE ~ whole'
      <4>1. files' = << >> /\ ichain' = << >> /\ dirty' = 0
        BY <3>1 DEF SystemInv, TableFit
      <4> QED BY <4>1, NotInFront
    <3>2. CASE whole' /\ ~ whole
      <4>1. files' = << >> /\ ichain' = << First >> /\ dirty' = 0
        BY <2>1, <3>2 DEF SystemInv, TableFit
      <4> QED BY <4>1, NotInFront
    <3>3. CASE whole' /\ whole
      <4>1. UNCHANGED << ichain, files, dirty, whole >> /\ dirty = 0 /\ ~ InFront
        BY <1>2, <1>5, <2>1, <3>3 DEF PhaseFit
      <4> QED BY <4>1, SameFiles
    <3> QED BY <3>1, <3>2, <3>3
  <2> QED BY <1>1, <1>5, <2>2, <2>3 DEF PhaseFit
<1> QED BY <1>4, <1>5

LEMMA TakenStep ==
  ASSUME Trusted, SystemInv, SystemInv', Kept, Step
  PROVE  TakenFit'
<1> DEFINE x == Head(todo)
<1>1. /\ on /\ todo # << >> /\ (Access(x) \/ Program(x) \/ Lists(x) \/ DoErase(x) \/ EraseFails(x))
      /\ UNCHANGED << call, state >>
      /\ ~ EraseFails(x) => plan' = plan
      /\ call.for # "format" => UNCHANGED << ichain, files, dirty, whole >>
      /\ ~ EraseFails(x) /\ call.for # "format" => Future' = Future
      /\ EraseFails(x) => /\ call.for # "rm" /\ Future' = held' /\ x.b \in Erased(todo) /\ x.op = "erase"
                          /\ held' \subseteq held /\ \A c \in held : c.b # x.b => c \in held'
  BY StepCalls
<1>2. TakenFit /\ IsList(todo) /\ x = todo[1] /\ Len(todo) \in Nat \ {0}
  BY <1>1, ScriptOps DEF Kept
<1>3. 1 \in 1 .. Len(todo)
  BY <1>2
<1>4. ErasedFit /\ ErasedFit' /\ dev.block \in Block \cup { None }
  <2>1. ScriptKept'
    BY ScriptStep
  <2> QED BY <2>1 DEF Kept, ScriptKept, SystemInv, DeviceFit
<1>5. dev'.erased \in { None, dev.erased, x.b }
  <2>1. CASE Access(x)
    BY <1>1, <2>1, StepDev
  <2>2. CASE Program(x) \/ Lists(x)
    BY <1>1, <2>2, StepDev
  <2>3. CASE DoErase(x)
    BY <1>1, <2>3, StepDev
  <2>4. CASE EraseFails(x)
    BY <1>1, <2>4, FailedStep
  <2> QED BY <1>1, <2>1, <2>2, <2>3, <2>4
<1>6. dev'.erased \in { None, dev.erased } \/ (x.op = "erase" /\ dev'.erased = x.b /\ x.b \in Erased(todo))
  <2>1. CASE Access(x)
    BY <1>1, <2>1, StepDev
  <2>2. CASE Program(x) \/ Lists(x)
    BY <1>1, <2>2, StepDev
  <2>3. CASE DoErase(x)
    <3>1. x.op = "erase" /\ (Sd \/ dev'.erased = dev.erased) /\ (Sd => dev'.erased = x.b)
      BY <1>1, <2>3, StepDev DEF DoErase
    <3>2. x.b \in Erased(todo)
      BY <1>1, <1>2, <3>1, EffectsHead
    <3> QED BY <3>1, <3>2
  <2>4. CASE EraseFails(x)
    BY <1>1, <2>4, FailedStep
  <2> QED BY <1>1, <2>1, <2>2, <2>3, <2>4
<1>7. ASSUME plan' \in BlockTaken
      PROVE  (call.b \in pending /\ ~ Owned(call.b) /\ dev.erased # call.b /\ Will(call.b, STAT, "first", "key"))'
  <2>1. plan # << >>
    <3>1. plan = << >> => plan' = << >>
      <4>1. ASSUME plan = << >>, EraseFails(x) PROVE call.for \in { "format", "mount" }
        <5>1. call.for = "format" \/ plan \in Primes
          BY <1>1, <4>1 DEF Kept, DrawFit
        <5> QED BY <4>1, <5>1, PlansAre DEF Primes
      <4> QED BY <1>1, <4>1, FailedStep
    <3> QED BY <1>7, <3>1, PlanKinds, PlansAre DEF BlockTaken
  <2>2. call.for # "format"
    BY <2>1 DEF SystemInv, MountFit
  <2>3. plan \in Primes /\ plan \in BlockTaken
    <3>1. CASE ~ EraseFails(x)
      <4>1. plan \in BlockTaken /\ plan \notin { PlanE, PlanIFAE, PlanT }
        BY <1>1, <1>7, <2>2, <3>1 DEF Kept, DrawFit
      <4> QED BY <4>1, PlanKinds
    <3>2. CASE EraseFails(x)
      <4>1. plan \in Primes
        BY <1>1, <2>2, <3>2 DEF Kept, DrawFit
      <4>2. plan # PlanP
        <5>1. plan = PlanP => plan' = << >>
          BY <1>1, <3>2, <4>1, FailedStep, PrimeTails
        <5> QED BY <1>7, <5>1, PlansAre DEF BlockTaken
      <4> QED BY <4>1, <4>2, PrimeTails DEF Primes
    <3> QED BY <3>1, <3>2
  <2>4. call.b \in pending /\ ~ Owned(call.b) /\ dev.erased # call.b /\ Will(call.b, STAT, "first", "key") /\ call.b \in Used
    BY <1>2, <2>3 DEF TakenFit, SystemInv, PlanFit
  <2>5. \A i \in 1 .. Len(todo) : todo[i].b # call.b
    BY <2>3 DEF Kept, DrawFit
  <2>6. x.b # call.b
    BY <1>2, <1>3, <2>5
  <2>7. call.b \in pending'
    <3>1. CASE Access(x)
      BY <1>1, <2>4, <2>6, <3>1, StepLists
    <3>2. CASE Program(x) \/ DoErase(x) \/ EraseFails(x)
      BY <1>1, <2>4, <3>2, StepLists DEF pre
    <3>3. CASE Lists(x)
      <4>1. plan # PlanP
        BY <2>3, PlansAre DEF BlockTaken
      <4>2. Push(x.b)
        BY <1>1, <3>3, <4>1, StepLists
      <4> QED BY <2>4, <4>2 DEF Push
    <3> QED BY <1>1, <3>1, <3>2, <3>3
  <2>8. ~ Owned(call.b)'
    BY <1>1, <2>2, <2>4, SameFiles
  <2>9. dev'.erased # call.b
    BY <1>5, <2>4, <2>6, BlocksAre
  <2>10. Will(call.b, STAT, "first", "key")'
    <3>1. CASE ~ EraseFails(x)
      BY <1>1, <2>2, <2>4, <3>1 DEF Will
    <3>2. CASE EraseFails(x)
      <4> DEFINE c == [ b |-> call.b, s |-> STAT, part |-> "first", tag |-> "key" ]
      <4>1. c \in Future /\ c.b = call.b
        BY <2>4 DEF Will
      <4>2. c' = c
        BY <1>1
      <4> HIDE DEF c
      <4>3. c \notin Puts(todo)
        BY <2>5, <4>1 DEF Puts, Content
      <4>4. c \in held
        BY <2>2, <4>1, <4>3 DEF Future, After
      <4>5. c \in held'
        BY <1>1, <2>6, <3>2, <4>1, <4>4
      <4> QED BY <1>1, <3>2, <4>2, <4>5 DEF Will, c
    <3> QED BY <3>1, <3>2
  <2> QED BY <1>1, <2>7, <2>8, <2>9, <2>10
<1>8. ASSUME plan' \in Primes PROVE \A c \in held' : c.b \in Used /\ c.s # STAT => Owned(c.b)'
  <2>1. plan' = plan
    <3>1. CASE EraseFails(x)
      <4>1. plan' \in { << >>, Tail(plan) }
        BY <1>1, <3>1, FailedStep
      <4>2. plan' # << >>
        BY <1>8, PlansAre DEF Primes
      <4>3. plan \in Primes
        <5>1. call.for # "format"
          BY <1>1, <3>1, <4>2, FormatStepIs
        <5> QED BY <1>1, <3>1, <5>1 DEF Kept, DrawFit
      <4> QED BY <1>8, <4>1, <4>2, <4>3, PlansAre DEF Primes
    <3> QED BY <1>1, <3>1
  <2>2. plan \in Primes /\ call.for # "format"
    BY <1>8, <2>1, PlansAre DEF Primes, SystemInv, MountFit
  <2>3. SUFFICES ASSUME NEW c \in held', c.b \in Used, c.s # STAT PROVE Owned(c.b)
    BY <1>1, <2>2, SameFiles
  <2>4. c \in held => Owned(c.b)
    BY <1>2, <2>2, <2>3 DEF TakenFit
  <2>5. CASE Program(x)
    <3>1. Programs(x) /\ held' = held \cup { Content(x) }
      BY <1>1, <2>5, StepHeld DEF Program, Programs
    <3>2. Content(x) \in Puts(todo)
      BY <1>1, <3>1, ProgrammedIs
    <3>3. Content(x).s = STAT
      BY <2>2, <3>2 DEF Kept, DrawFit
    <3> QED BY <2>3, <2>4, <3>1, <3>3
  <2>6. CASE ~ Program(x)
    BY <1>1, <2>4, <2>6, StepHeld
  <2> QED BY <2>5, <2>6
<1>9. ASSUME NEW f \in DOMAIN files', files'[f].open PROVE dev'.erased # LastBlock(f)'
  <2>1. CASE call.for # "format"
    <3>1. f \in DOMAIN files /\ files[f].open /\ LastBlock(f)' = LastBlock(f) /\ dev.erased # LastBlock(f)
      BY <1>1, <1>2, <1>9, <2>1, SameFiles DEF TakenFit
    <3>2. f \in Live
      BY <3>1 DEF Kept, ContentKept, WriterFit
    <3>3. Owned(LastBlock(f)) /\ LastBlock(f) \in Used
      BY <3>2, OwnedCells DEF Kept
    <3>4. LastBlock(f) # None
      BY <3>3, BlocksAre
    <3>5. \A b \in Erased(todo) : ~ Owned(b)
      BY <2>1 DEF Kept, DrawFit
    <3> QED BY <1>6, <3>1, <3>3, <3>4, <3>5
  <2>2. CASE call.for = "format"
    <3>1. ~ whole' => files' = << >>
      BY DEF SystemInv, TableFit
    <3>2. ~ whole => files = << >>
      BY DEF SystemInv, TableFit
    <3>3. << >> # files'
      BY <1>9
    <3>4. whole' /\ whole
      BY <1>1, <2>2, <3>1, <3>2, <3>3, FormatStepIs
    <3>5. files' = files /\ f \in DOMAIN files /\ files[f].open
      BY <1>1, <1>9, <2>2, <3>4, FormatStepIs
    <3>6. LastBlock(f)' = LastBlock(f)
      BY <3>5 DEF LastBlock
    <3>7. dev.erased # LastBlock(f)
      BY <1>2, <3>5 DEF TakenFit
    <3>8. LastBlock(f) \in Used
      BY <3>5, FilesAre DEF SystemInv, MeantInv
    <3>9. x.op = "erase" => x.b = First
      <4>1. FormatFit
        BY <2>2 DEF SystemInv, ScriptFit
      <4> QED BY <1>1, <1>2, <3>4, <4>1, FormatHead
    <3> QED BY <1>6, <3>6, <3>7, <3>8, <3>9, BlocksAre
  <2> QED BY <2>1, <2>2
<1> QED BY <1>7, <1>8, <1>9 DEF TakenFit

LEMMA PushedIs ==
  ASSUME available \in Seq(Used), NEW b, Push(b)
  PROVE  \A y : InAvailable(y)' <=> InAvailable(y) \/ y = b
<1>1. IsList(available) /\ available' = Append(available, b)
  BY DEF IsList, Push
<1>2. /\ Len(available') = Len(available) + 1 /\ \A i \in 1 .. Len(available) : available'[i] = available[i]
      /\ available'[Len(available) + 1] = b /\ Len(available) \in Nat
  BY <1>1, ListAppend, ListLen
<1>3. \A i \in 1 .. Len(available') : i \in 1 .. Len(available) \/ i = Len(available) + 1
  BY <1>2
<1>4. Len(available) + 1 \in 1 .. Len(available') /\ \A i \in 1 .. Len(available) : i \in 1 .. Len(available')
  BY <1>2
<1> QED BY <1>2, <1>3, <1>4 DEF InAvailable

LEMMA EmptiedIs ==
  ASSUME Reinitialize
  PROVE  \A y : ~ InAvailable(y)'
<1>1. Len(available') = 0
  BY ListNone DEF Reinitialize
<1> QED BY <1>1 DEF InAvailable

LEMMA Availables ==
  ASSUME available' = available
  PROVE  \A y : InAvailable(y)' <=> InAvailable(y)
BY DEF InAvailable

(* The first operation and the rest of the script.                         *)
LEMMA TodoTail ==
  ASSUME SystemInv, todo # << >>, todo' = Tail(todo)
  PROVE  /\ IsList(todo') /\ Len(todo') \in Nat /\ Len(todo) = Len(todo') + 1
         /\ \A i \in 1 .. Len(todo') : i + 1 \in 1 .. Len(todo) /\ todo'[i] = todo[i + 1]
         /\ (Len(todo) = 1 <=> todo' = << >>)
         /\ todo' # << >> => todo'[Len(todo')] = todo[Len(todo)] /\ 1 \in 1 .. Len(todo')
         /\ 1 \in 1 .. Len(todo) /\ Head(todo) = todo[1]
<1>1. IsList(todo)
  BY DEF SystemInv, MeantInv, DeviceInv, Script
<1>2. /\ IsList(todo') /\ Len(todo') = Len(todo) - 1 /\ Len(todo) \in Nat \ {0}
      /\ \A i \in 1 .. Len(todo) - 1 : todo'[i] = todo[i + 1]
      /\ Head(todo) = todo[1]
  BY <1>1, ListTail
<1>3. todo' = << >> <=> Len(todo') = 0
  BY <1>2, ListLen
<1> QED BY <1>2, <1>3

LEMMA ListingStep ==
  ASSUME Trusted, SystemInv, SystemInv', Kept, Step, Listing'
  PROVE  \A b \in Block : InAvailable(b)' => ~ Owned(b)' /\ Will(b, STAT, "first", "key")'
<1> DEFINE x == Head(todo)
<1>1. /\ on /\ todo # << >> /\ (Access(x) \/ Program(x) \/ Lists(x) \/ DoErase(x) \/ EraseFails(x))
      /\ UNCHANGED << call, state >>
      /\ ~ EraseFails(x) => plan' = plan /\ todo' = Tail(todo)
      /\ call.for # "format" => UNCHANGED << ichain, files, dirty, whole >>
      /\ ~ EraseFails(x) /\ call.for # "format" => Future' = Future
      /\ EraseFails(x) => /\ call.for # "rm" /\ Future' = held' /\ todo' = << >> /\ x.b \in Erased(todo)
                          /\ \A c \in held : c.b # x.b => c \in held'
  BY StepCalls
<1>2. call.for # "format"
  BY <1>1, FormatStepIs, PlansAre DEF Listing
<1>3. \A b : Owned(b)' <=> Owned(b)
  BY <1>1, <1>2, SameFiles
<1>4. CASE EraseFails(x)
  <2>1. plan \in Primes /\ available' = available /\ plan' = (IF call.for = "mount" THEN << >> ELSE Tail(plan))
    <3>1. plan \in Primes
      BY <1>1, <1>2, <1>4 DEF Kept, DrawFit
    <3>2. available' = available
      BY <1>1, <1>4, StepLists DEF pre
    <3>3. plan' = (IF call.for = "mount" THEN << >> ELSE Tail(plan))
      BY <1>1, <1>2, <1>4, FailedStep
    <3> QED BY <3>1, <3>2, <3>3
  <2>2. plan' # PlanP
    BY <2>1, PlansAre DEF Primes
  <2>3. Listing
    BY <1>1, <2>2 DEF Listing
  <2> SUFFICES ASSUME NEW b \in Block, InAvailable(b) PROVE ~ Owned(b) /\ Will(b, STAT, "first", "key")'
    BY <1>3, <2>1, Availables
  <2>4. ~ Owned(b) /\ Will(b, STAT, "first", "key")
    BY <2>3 DEF Kept, ListFit
  <2> DEFINE c == [ b |-> b, s |-> STAT, part |-> "first", tag |-> "key" ]
  <2>5. c \in Future /\ c.b = b /\ (c \in Future' => Will(b, STAT, "first", "key")')
    BY <2>4 DEF Will
  <2> HIDE DEF c
  <2>6. c \notin Puts(todo)
    BY <2>1, <2>5 DEF Kept, DrawFit
  <2>7. c \in held
    BY <1>2, <2>5, <2>6 DEF Future, After
  <2>8. ~ InAvailable(x.b)
    BY <1>1, <1>2, <1>4 DEF Kept, DrawFit
  <2> QED BY <1>1, <1>4, <2>4, <2>5, <2>7, <2>8
<1>5. CASE ~ EraseFails(x)
  <2>1. Future' = Future /\ plan' = plan /\ todo' = Tail(todo)
    BY <1>1, <1>2, <1>5
  <2>2. \A b : Will(b, STAT, "first", "key")' <=> Will(b, STAT, "first", "key")
    BY <2>1 DEF Will
  <2>3. CASE Lists(x) /\ x.op = "lists"
    <3>1. Reinitialize
      BY <2>3 DEF Lists
    <3> QED BY <3>1, EmptiedIs
  <2>4. CASE ~ (Lists(x) /\ x.op = "lists")
    <3>1. x.op # "lists"
      BY <1>1, <2>4, StepLists DEF Program, DoErase, EraseFails
    <3>2. Listing
      <4>1. CASE state = "mounted"
        BY <4>1 DEF Listing
      <4>2. CASE state # "mounted"
        <5>1. plan = PlanP /\ \A i \in 1 .. Len(todo') : todo'[i].op # "lists"
          BY <1>1, <2>1, <4>2 DEF Listing
        <5>2. ASSUME NEW i \in 1 .. Len(todo) PROVE todo[i].op # "lists"
          <6>1. CASE i = 1
            BY <1>1, <2>1, <3>1, <6>1, TodoTail
          <6>2. CASE i # 1
            <7>1. i - 1 \in 1 .. Len(todo') /\ (i - 1) + 1 = i
              BY <1>1, <2>1, <6>2, TodoTail
            <7>2. todo'[i - 1] = todo[(i - 1) + 1]
              BY <1>1, <2>1, <7>1, TodoTail
            <7> QED BY <5>1, <7>1, <7>2
          <6> QED BY <6>1, <6>2
        <5> QED BY <5>1, <5>2 DEF Listing
      <4> QED BY <4>1, <4>2
    <3>3. \A b \in Block : InAvailable(b) => ~ Owned(b) /\ Will(b, STAT, "first", "key")
      BY <3>2 DEF Kept, ListFit
    <3>4. CASE available' = available
      BY <1>3, <2>2, <3>3, <3>4, Availables
    <3>5. CASE available' # available
      <4>1. Push(x.b) /\ ~ Owned(x.b) /\ Will(x.b, STAT, "first", "key")
        BY <1>1, <3>1, <3>5, StepLists
      <4> DEFINE y == x.b
      <4>2. Push(y) /\ ~ Owned(y) /\ Will(y, STAT, "first", "key")
        BY <4>1
      <4> HIDE DEF y
      <4>3. \A b : InAvailable(b)' <=> InAvailable(b) \/ b = y
        BY <4>2, PushedIs DEF SystemInv, DeviceFit
      <4> QED BY <1>3, <2>2, <3>3, <4>2, <4>3
    <3> QED BY <3>4, <3>5
  <2> QED BY <2>3, <2>4
<1> QED BY <1>4, <1>5

LEMMA ListStep ==
  ASSUME Trusted, SystemInv, SystemInv', Kept, Step
  PROVE  ListFit'
<1> DEFINE x == Head(todo)
<1>1. /\ on /\ todo # << >> /\ (Access(x) \/ Program(x) \/ Lists(x) \/ DoErase(x) \/ EraseFails(x))
  BY StepCalls
<1>2. Listing' => \A b \in Block : InAvailable(b)' => ~ Owned(b)' /\ Will(b, STAT, "first", "key")'
  BY ListingStep
<1>3. \A b \in pending : b \in Used /\ Unallocated(b) /\ ~ (cache.open /\ cache.block = b)
  BY DEF Kept, ListFit
<1>4. ASSUME NEW b \in pending' PROVE b \in Used /\ Unallocated(b)' /\ ~ (cache'.open /\ cache'.block = b)
  <2>1. CASE Access(x)
    <3>1. b \in pending /\ held' = held
      BY <1>1, <2>1, StepLists, StepHeld
    <3>2. Unallocated(b)'
      BY <1>3, <3>1 DEF Unallocated, IsInode, IsInode0, IsFileBlock, Holds
    <3>3. ~ (cache'.open /\ cache'.block = b)
      BY <1>1, <1>3, <2>1, <3>1, StepLists
    <3> QED BY <1>3, <3>1, <3>2, <3>3
  <2>2. CASE Lists(x)
    <3>1. b \in pending /\ held' = held /\ cache' = cache
      BY <1>1, <2>2, StepLists, StepHeld DEF Push, Reinitialize
    <3>2. Unallocated(b)'
      BY <1>3, <3>1 DEF Unallocated, IsInode, IsInode0, IsFileBlock, Holds
    <3> QED BY <1>3, <3>1, <3>2
  <2>3. CASE DoErase(x) \/ EraseFails(x)
    <3>1. b \in pending /\ held' \subseteq held /\ cache' = cache
      BY <1>1, <2>3, StepLists, StepHeld DEF pre
    <3>2. Unallocated(b)'
      BY <1>3, <3>1 DEF Unallocated, IsInode, IsInode0, IsFileBlock, Holds
    <3> QED BY <1>3, <3>1, <3>2
  <2>4. CASE Program(x)
    <3>1. b \in pending /\ held' = held \cup { Content(x) } /\ cache' = cache /\ Programs(x)
      BY <1>1, <2>4, StepLists, StepHeld DEF pre, Program, Programs
    <3>2. x = todo[1]
      BY <1>1, ScriptOps
    <3>3. cache.open /\ cache.block = x.b
      BY <1>1, <3>1, <3>2 DEF Kept, ScriptKept, OpenedFit
    <3>4. Content(x).b # b
      BY <1>3, <3>1, <3>3 DEF Content
    <3>5. Unallocated(b)'
      BY <1>3, <3>1, <3>4 DEF Unallocated, IsInode, IsInode0, IsFileBlock, Holds
    <3> QED BY <1>3, <3>1, <3>5
  <2> QED BY <1>1, <2>1, <2>2, <2>3, <2>4
<1> QED BY <1>2, <1>4 DEF ListFit

LEMMA DrawStep ==
  ASSUME Trusted, SystemInv, SystemInv', Kept, Step
  PROVE  DrawFit'
<1> DEFINE x == Head(todo)
<1>1. /\ on /\ todo # << >> /\ (Access(x) \/ Program(x) \/ Lists(x) \/ DoErase(x) \/ EraseFails(x))
      /\ UNCHANGED << call, state >>
      /\ ~ EraseFails(x) => plan' = plan /\ todo' = Tail(todo)
      /\ call.for # "format" => UNCHANGED << ichain, files, dirty, whole >>
      /\ ~ EraseFails(x) /\ call.for # "format" => Future' = Future
      /\ EraseFails(x) => todo' = << >>
  BY StepCalls
<1>2. CASE todo' = << >>
  <2>1. Puts(todo)' = {} /\ Erased(todo)' = {} /\ Len(todo') = 0
    BY <1>2, ScriptEnded, ListNone
  <2> QED BY <1>2, <2>1 DEF DrawFit
<1>3. CASE todo' # << >> /\ call.for = "format"
  <2>1. plan' = << >> /\ call'.for = "format"
    BY <1>1, <1>3, FormatStepIs
  <2>2. plan' \notin Primes /\ plan' \notin { PlanE, PlanIFAE, PlanT }
    BY <2>1, PlansAre DEF Primes
  <2> QED BY <2>1, <2>2 DEF DrawFit
<1>4. CASE todo' # << >> /\ call.for # "format"
  <2>1. plan' = plan /\ todo' = Tail(todo) /\ ~ EraseFails(x) /\ Future' = Future
    BY <1>1, <1>4
  <2>2. \A b : Owned(b)' <=> Owned(b)
    BY <1>1, <1>4, SameFiles
  <2>3. /\ Puts(todo)' \subseteq Puts(todo) /\ Erased(todo)' \subseteq Erased(todo)
    BY <1>1, <2>1, StepAfter
  <2>4. \A i \in 1 .. Len(todo') : i + 1 \in 1 .. Len(todo) /\ todo'[i] = todo[i + 1] /\ (i + 1 = Len(todo) => i = Len(todo'))
    <3>1. Len(todo) = Len(todo') + 1 /\ Len(todo') \in Nat
      BY <1>1, <2>1, TodoTail
    <3>2. \A i \in 1 .. Len(todo') : i + 1 = Len(todo) => i = Len(todo')
      BY <3>1
    <3> QED BY <1>1, <2>1, <3>2, TodoTail
  <2>5. \A b : InAvailable(b)' => InAvailable(b)
    <3>1. CASE available' = available
      BY <3>1, Availables
    <3>2. CASE available' # available
      <4>1. Len(todo) # 1
        BY <1>1, <1>4, <2>1, TodoTail
      <4>2. Reinitialize
        BY <1>1, <3>2, <4>1, StepLists
      <4> QED BY <4>2, EmptiedIs
    <3> QED BY <3>1, <3>2
  <2>6. pending' \subseteq pending /\ (~ IsFull => ~ IsFull')
    <3>1. nfree \in Nat /\ nfree <= Slots
      BY DEF Kept, PreInv, PreTypeOK
    <3>2. CASE Access(x)
      BY <1>1, <3>1, <3>2, StepLists DEF IsFull
    <3>3. CASE Program(x) \/ DoErase(x)
      BY <1>1, <3>3, StepLists DEF IsFull, pre
    <3>4. CASE Lists(x)
      <4>1. Len(todo) # 1
        BY <1>1, <1>4, <2>1, TodoTail
      <4>2. Reinitialize
        BY <1>1, <3>4, <4>1, StepLists
      <4> QED BY <3>1, <4>2 DEF Reinitialize, IsFull
    <3> QED BY <1>1, <2>1, <3>2, <3>3, <3>4
  <2>7. DrawFit
    BY DEF Kept
  <2>8. call'.for # "format" => \A b \in Erased(todo)' : ~ Owned(b)' /\ ~ InAvailable(b)'
    BY <1>4, <2>2, <2>3, <2>5, <2>7 DEF DrawFit
  <2>9. call'.for \notin { "format", "rm" } /\ Erased(todo)' # {} => plan' \in Primes
    BY <1>1, <2>1, <2>3, <2>7 DEF DrawFit
  <2>10. plan' \in Primes => \A c \in Puts(todo)' : ~ Owned(c.b)' /\ ~ InAvailable(c.b)' /\ c.s = STAT
    <3> SUFFICES ASSUME plan' \in Primes, NEW c \in Puts(todo)' PROVE ~ Owned(c.b)' /\ ~ InAvailable(c.b)' /\ c.s = STAT
      OBVIOUS
    <3>1. ~ Owned(c.b) /\ ~ InAvailable(c.b) /\ c.s = STAT
      BY <2>1, <2>3, <2>7 DEF DrawFit
    <3> QED BY <2>2, <2>5, <3>1
  <2>11. ASSUME plan' \in Primes, NEW i \in 1 .. Len(todo')
         PROVE  (/\ plan \in BlockTaken => todo[i].b # call.b
                 /\ todo[i].op = "push" => /\ i = Len(todo) /\ ~ IsFull /\ ~ Contains(todo[i].b)
                                           /\ ~ Owned(todo[i].b) /\ Will(todo[i].b, STAT, "first", "key")
                 /\ plan # PlanP => todo[i].op # "lists")'
    <3> DEFINE j == i + 1
    <3>1. j \in 1 .. Len(todo) /\ (j = Len(todo) => i = Len(todo')) /\ todo'[i] = todo[j]
      BY <2>4
    <3> HIDE DEF j
    <3>2. PICK y : y = todo[j]
      OBVIOUS
    <3>3. /\ plan \in BlockTaken => y.b # call.b
          /\ y.op = "push" => /\ j = Len(todo) /\ ~ IsFull /\ ~ Contains(y.b)
                              /\ ~ Owned(y.b) /\ Will(y.b, STAT, "first", "key")
          /\ plan # PlanP => y.op # "lists"
      BY <2>1, <2>7, <2>11, <3>1, <3>2 DEF DrawFit
    <3>4. \A b : ~ Contains(b) => ~ Contains(b)'
      BY <2>5, <2>6 DEF Contains
    <3>5. \A b : ~ Owned(b) => ~ Owned(b)'
      BY <2>2
    <3>6. \A b : Will(b, STAT, "first", "key") => Will(b, STAT, "first", "key")'
      BY <2>1 DEF Will
    <3>7. y.op = "push" => ~ Contains(y.b)' /\ ~ Owned(y.b)' /\ Will(y.b, STAT, "first", "key")'
      BY <3>3, <3>4, <3>5, <3>6
    <3> QED BY <1>1, <2>1, <2>6, <3>1, <3>2, <3>3, <3>7
  <2>12. call'.for = "mount" /\ plan' \notin Primes => Puts(todo)' = {}
    BY <1>1, <2>1, <2>3, <2>7 DEF DrawFit
  <2>13. plan' \notin Primes => \A i \in 1 .. Len(todo') : todo'[i].op \notin { "lists", "push" }
    <3> SUFFICES ASSUME plan \notin Primes, NEW i \in 1 .. Len(todo') PROVE todo'[i].op \notin { "lists", "push" }
      BY <2>1
    <3>1. i + 1 \in 1 .. Len(todo) /\ todo'[i] = todo[i + 1]
      BY <2>4
    <3>2. todo[i + 1].op \notin { "lists", "push" }
      BY <1>4, <2>7, <3>1 DEF DrawFit
    <3> QED BY <3>1, <3>2
  <2>14. plan' \in { PlanE, PlanIFAE, PlanT } => todo' = << >>
    BY <1>1, <2>1, <2>7 DEF DrawFit
  <2> QED BY <1>1, <2>8, <2>9, <2>10, <2>11, <2>12, <2>13, <2>14 DEF DrawFit
<1> QED BY <1>2, <1>3, <1>4

LEMMA AvailableAre ==
  ASSUME SystemInv
  PROVE  \A b : InAvailable(b) => b \in Used /\ b # None /\ b # 0
<1>1. available \in Seq(Used)
  BY DEF SystemInv, DeviceFit
<1>2. \A b : InAvailable(b) => b \in Used
  BY <1>1 DEF InAvailable
<1> QED BY <1>2, BlocksAre

LEMMA AwayStep ==
  ASSUME Trusted, SystemInv, SystemInv', Kept, Step
  PROVE  AwayFit'
<1> DEFINE x == Head(todo)
<1>1. /\ on /\ todo # << >> /\ (Access(x) \/ Program(x) \/ Lists(x) \/ DoErase(x) \/ EraseFails(x))
      /\ UNCHANGED << call, state, on >>
      /\ ~ EraseFails(x) => plan' = plan /\ todo' = Tail(todo)
      /\ EraseFails(x) => call.for # "rm" /\ x.b \in Erased(todo)
  BY StepCalls
<1>2. SUFFICES ASSUME state = "mounted", ~ Primed', call.for # "mount"
               PROVE  AwayFit'
  BY <1>1 DEF AwayFit
<1>3. call.for # "format"
  BY <1>2 DEF SystemInv, MountFit
<1>4. ~ EraseFails(x)
  <2> SUFFICES ASSUME EraseFails(x) PROVE FALSE
    OBVIOUS
  <2>1. plan \in Primes
    BY <1>1, <1>3 DEF Kept, DrawFit
  <2>2. plan' = Tail(plan) /\ plan # PlanP
    <3>1. plan' = Tail(plan)
      BY <1>1, <1>2, <1>3, FailedStep
    <3>2. plan # PlanP
      BY <1>2, PlansAre DEF SystemInv, PlanFit, CreatePlans, EntryPlans, InodePlans, WritePlans
    <3> QED BY <3>1, <3>2
  <2>3. plan' \in { PlanE, PlanIFAE, PlanT }
    BY <2>1, <2>2, PlansAre DEF Primes
  <2> QED BY <1>2, <2>3 DEF Primed
<1>5. plan' = plan /\ todo' = Tail(todo) /\ ~ Primed
  BY <1>1, <1>2, <1>4 DEF Primed
<1>6. AwayFit /\ ErasedFit' /\ OpenedFit /\ CacheTrue'
  <2>1. ScriptKept'
    BY ScriptStep
  <2> QED BY <2>1 DEF Kept, ScriptKept, SystemInv, MeantInv, DeviceInv
<1>7. available' = available /\ ~ Lists(x)
  <2>1. plan \notin Primes
    BY <1>5 DEF Primed
  <2> QED BY <1>1, <2>1, StepLists
<1>8. (\A b : InAvailable(b)' <=> InAvailable(b)) /\ \A b : InAvailable(b) => b \in Used /\ b # None /\ b # 0
  BY <1>7, Availables, AvailableAre
<1> DEFINE last == todo[Len(todo)]
<1>9. /\ \/ last.op = "close" /\ call.for = "walk"
         \/ last.op \in { "open", "see", "write", "spare" } /\ ~ InAvailable(last.b)
      /\ call.for = "walk" => dev.erased \in { None, 0 } \/ (todo[1].op \in { "raw", "probe" } /\ todo[1].b = 0)
  BY <1>1, <1>2, <1>5, <1>6 DEF AwayFit
<1>10. call.for = "walk" => dev'.erased \in { None, 0 }
  <2> SUFFICES ASSUME call.for = "walk" PROVE dev'.erased \in { None, 0 }
    OBVIOUS
  <2>1. ~ DoErase(x)
    <3>1. x.op # "erase"
      <4>1. IsList(todo)
        BY <1>1, ScriptOps
      <4>2. Erased(todo) # {} => plan \in Primes
        BY DEF Kept, DrawFit
      <4>3. Erased(todo) = {}
        BY <1>5, <4>2 DEF Primed
      <4> QED BY <1>1, <4>1, <4>3, EffectsHead
    <3> QED BY <3>1 DEF DoErase
  <2>2. x = todo[1]
    BY <1>1, ScriptOps
  <2>3. CASE Access(x)
    <3>1. dev.erased \in { None, 0 } \/ (x.op \in { "raw", "probe" } /\ x.b = 0)
      BY <1>9, <2>2
    <3>2. dev'.erased \in { None, dev.erased } /\ (x.op \in { "raw", "probe" } => dev'.erased \in { None, x.b } \/ ~ Sd)
          /\ (~ Sd => dev'.erased = dev.erased)
      BY <1>1, <2>3, StepDev
    <3>3. ~ Sd => dev.erased = None
      BY DEF Kept, ScriptKept, ErasedFit
    <3> QED BY <3>1, <3>2, <3>3
  <2>4. CASE Program(x)
    <3>1. dev' = dev /\ x.op \notin { "raw", "probe" }
      BY <1>1, <2>4, StepDev DEF Program
    <3> QED BY <1>9, <2>2, <3>1
  <2> QED BY <1>1, <1>4, <1>7, <2>1, <2>3, <2>4
<1>11. CASE todo' = << >>
  <2>1. x = last
    BY <1>1, <1>5, <1>11, TodoTail
  <2>2. (cache'.open => ~ InAvailable(cache'.block)) /\ ~ InAvailable(dev'.erased)
    <3>1. dev'.erased \in { None, dev'.block } /\ (cache'.open => dev'.block = cache'.block)
      BY <1>1, <1>6, <1>11 DEF ErasedFit, CacheTrue
    <3>2. CASE last.op = "close" /\ call.for = "walk"
      <4>1. Access(x)
        BY <1>1, <1>4, <1>7, <2>1, <3>2 DEF Program, DoErase
      <4>2. ~ cache'.open
        BY <1>1, <2>1, <3>2, <4>1, StepLists
      <4> QED BY <1>8, <1>10, <3>2, <4>2
    <3>3. CASE last.op \in { "open", "see" } /\ ~ InAvailable(last.b)
      <4>1. Access(x)
        BY <1>1, <1>4, <1>7, <2>1, <3>3 DEF Program, DoErase
      <4>2. cache'.open /\ cache'.block = last.b
        BY <1>1, <2>1, <3>3, <4>1, StepLists
      <4> QED BY <1>8, <3>1, <3>3, <4>2
    <3>4. CASE last.op \in { "write", "spare" } /\ ~ InAvailable(last.b)
      <4>1. Program(x)
        BY <1>1, <1>4, <1>7, <2>1, <3>4 DEF Access, DoErase
      <4>2. cache' = cache /\ x = todo[1]
        BY <1>1, <4>1, ScriptOps, StepLists
      <4>3. cache.open /\ cache.block = last.b
        BY <1>1, <1>6, <2>1, <3>4, <4>2 DEF OpenedFit, Programs
      <4> QED BY <1>8, <3>1, <3>4, <4>2, <4>3
    <3> QED BY <1>9, <3>2, <3>3, <3>4
  <2>3. (InAvailable(cache.block)' <=> InAvailable(cache'.block)) /\ (InAvailable(dev.erased)' <=> InAvailable(dev'.erased))
    BY <1>7 DEF InAvailable
  <2> QED BY <1>11, <2>2, <2>3 DEF AwayFit
<1>12. CASE todo' # << >>
  <2>1. todo'[Len(todo')] = last
    BY <1>1, <1>5, <1>12, TodoTail
  <2>2. InAvailable(last.b) <=> InAvailable(todo[Len(todo)].b)'
    BY <1>7, <2>1 DEF InAvailable
  <2>3. \/ todo'[Len(todo')].op = "close" /\ call.for = "walk"
        \/ todo'[Len(todo')].op \in { "open", "see", "write", "spare" } /\ ~ InAvailable(todo[Len(todo)].b)'
    <3> HIDE DEF last
    <3> QED BY <1>9, <2>1, <2>2 DEF last
  <2> QED BY <1>1, <1>10, <1>12, <2>3 DEF AwayFit
<1> QED BY <1>11, <1>12

LEMMA FutureStep ==
  ASSUME Trusted, SystemInv, SystemInv', Kept, Step
  PROVE  FutureFit'
<1> DEFINE x == Head(todo)
<1>1. /\ todo # << >> /\ call' = call
      /\ ~ EraseFails(x) => After(todo)' = After(todo)
      /\ EraseFails(x) => todo' = << >>
  BY StepCalls
<1> SUFFICES ASSUME call'.for = "format", todo' # << >>, NEW c \in After(todo)'
             PROVE  c.b \notin Used /\ (c.b = First => c.s \in { STAT, INIT })
  BY DEF FutureFit
<1>2. c \in After(todo)
  BY <1>1
<1> QED BY <1>1, <1>2 DEF Kept, FutureFit

LEMMA KeptStep ==
  ASSUME Trusted, SystemInv, SystemInv', Kept, ~ lost, Step
  PROVE  Kept'
<1>1. PreInv' /\ ScriptKept' /\ ContentKept'
  BY PreStep, ScriptStep, ContentStep, ContentFormat
<1>2. PhaseFit' /\ TakenFit' /\ ListFit' /\ DrawFit' /\ AwayFit' /\ FutureFit'
  BY PhaseStep, TakenStep, ListStep, DrawStep, AwayStep, FutureStep
<1> QED BY <1>1, <1>2 DEF Kept

-----------------------------------------------------------------------------
(* A script begins.                                                        *)

LEMMA ScriptBegins ==
  ASSUME SystemInv, Kept, todo = << >>, UNCHANGED << mem, backend, dev, whole >>,
         NEW P, NEW E, Does(todo', P, E), Whole(todo'),
         \A p \in P : \A c \in held : Cell(c) = Cell(p) => c.b \in E,
         \A p \in P : p.part = "rest" => p.b # First /\ p.s # STAT /\ p.b # dev.erased /\ E = {}
  PROVE  /\ ScriptKept' /\ Puts(todo)' = P /\ Erased(todo)' = E /\ held' = held /\ Future = held
         /\ call'.for # "format" => Future' = { c \in held : c.b \notin E } \cup P
         /\ call'.for = "format" => Future' = held
<1>1. Puts(todo)' = P /\ Erased(todo)' = E /\ Apart(todo)'
  <2>1. Puts(todo') = P /\ Erased(todo') = E /\ Apart(todo')
    BY DEF Does
  <2> QED BY <2>1 DEF Puts, Erased, Apart
<1>2. held' = held
  BY DEF held, Named
<1>3. Future = held
  <2>1. Puts(<< >>) = {} /\ Erased(<< >>) = {}
    BY DoesNone DEF Does
  <2>2. After(todo) = held
    BY <2>1 DEF After
  <2> QED BY <2>2 DEF Future
<1>4. OnceFit'
  BY <1>1, <1>2 DEF OnceFit, Cell
<1>5. RestFit'
  BY <1>1 DEF RestFit
<1>6. ErasedFit'
  BY <1>2 DEF Kept, ScriptKept, ErasedFit, Sd
<1>7. OpenedFit'
  BY DEF OpenedFit, Whole, Opens, Programs
<1>8. After(todo)' = { c \in held : c.b \notin E } \cup P
  BY <1>1, <1>2 DEF After
<1> QED BY <1>1, <1>2, <1>3, <1>4, <1>5, <1>6, <1>7, <1>8 DEF ScriptKept, Future

(* A script begins that programs and erases nothing, on the same files.    *)
LEMMA QuietBegins ==
  ASSUME SystemInv, Kept, todo = << >>, UNCHANGED << mem, backend, dev, whole, ichain, files, dirty >>,
         Does(todo', {}, {}), Whole(todo'), call'.for # "format"
  PROVE  /\ ScriptKept' /\ ContentKept' /\ FutureFit'
         /\ Puts(todo)' = {} /\ Erased(todo)' = {} /\ held' = held /\ Future = held /\ Future' = held
         /\ \A b : Owned(b)' <=> Owned(b)
         /\ \A b, s, part, tag : Will(b, s, part, tag)' <=> Will(b, s, part, tag)
<1> DEFINE N == {}
<1>1. /\ ScriptKept' /\ Puts(todo)' = {} /\ Erased(todo)' = {} /\ held' = held /\ Future = held
      /\ call'.for # "format" => Future' = { c \in held : c.b \notin N } \cup N
  <2>1. Does(todo', N, N)
    OBVIOUS
  <2>2. (\A p \in N : \A c \in held : Cell(c) = Cell(p) => c.b \in N)
        /\ \A p \in N : p.part = "rest" => p.b # First /\ p.s # STAT /\ p.b # dev.erased /\ N = {}
    OBVIOUS
  <2>3. N = {}
    OBVIOUS
  <2> HIDE DEF N
  <2>4. /\ ScriptKept' /\ Puts(todo)' = N /\ Erased(todo)' = N /\ held' = held /\ Future = held
        /\ call'.for # "format" => Future' = { c \in held : c.b \notin N } \cup N
    BY <2>1, <2>2, ScriptBegins
  <2> QED BY <2>3, <2>4
<1>2. Future' = held
  BY <1>1
<1>3. \A b : Owned(b)' <=> Owned(b)
  BY SameFiles
<1>4. CleanFit'
  BY <1>1, <1>2, <1>3 DEF Kept, ContentKept, CleanFit
<1>5. ContentKept'
  BY <1>1, <1>2, <1>4, ContentDropped DEF Kept
<1>6. FutureFit'
  BY DEF FutureFit
<1>7. \A b, s, part, tag : Will(b, s, part, tag)' <=> Will(b, s, part, tag)
  BY <1>1, <1>2 DEF Will
<1> QED BY <1>1, <1>2, <1>3, <1>5, <1>6, <1>7

(* The blocks on the lists, when neither they nor the flash change.        *)
LEMMA ListsStay ==
  ASSUME Kept, available' = available, pending' = pending, held' = held,
         cache' = cache \/ ~ cache'.open,
         Listing' => Listing,
         \A b : Owned(b)' => Owned(b) \/ ~ InAvailable(b),
         \A b : InAvailable(b) /\ Will(b, STAT, "first", "key") => Will(b, STAT, "first", "key")'
  PROVE  ListFit'
<1>1. \A b : InAvailable(b)' <=> InAvailable(b)
  BY Availables
<1>2. Listing' => \A b \in Block : InAvailable(b)' => ~ Owned(b)' /\ Will(b, STAT, "first", "key")'
  <2> SUFFICES ASSUME Listing, NEW b \in Block, InAvailable(b) PROVE ~ Owned(b)' /\ Will(b, STAT, "first", "key")'
    BY <1>1
  <2>1. ~ Owned(b) /\ Will(b, STAT, "first", "key")
    BY DEF Kept, ListFit
  <2> QED BY <2>1
<1>3. \A b \in pending' : b \in Used /\ Unallocated(b)' /\ ~ (cache'.open /\ cache'.block = b)
  <2> SUFFICES ASSUME NEW b \in pending PROVE b \in Used /\ Unallocated(b)' /\ ~ (cache'.open /\ cache'.block = b)
    OBVIOUS
  <2>1. b \in Used /\ Unallocated(b) /\ ~ (cache.open /\ cache.block = b)
    BY DEF Kept, ListFit
  <2>2. Unallocated(b)'
    BY <2>1 DEF Unallocated, IsInode, IsInode0, IsFileBlock, Holds
  <2> QED BY <2>1, <2>2
<1> QED BY <1>2, <1>3 DEF ListFit

LEMMA PreStays == ASSUME Kept, UNCHANGED pre PROVE PreInv' /\ available' = available /\ pending' = pending
BY PreStutter DEF Kept, pre

(* A part of a call on a mounted system begins when nothing is to be done. *)
LEMMA MountedListing ==
  ASSUME SystemInv, Kept, todo = << >>
  PROVE  /\ call.for \in { "create", "write", "rm", "read", "ls", "walk" } => state = "mounted"
         /\ state = "mounted" \/ plan = PlanP => Listing
<1>1. Len(todo) = 0
  BY ListNone
<1>2. plan = PlanP => Listing
  BY <1>1 DEF Listing
<1> QED BY <1>2 DEF Listing, Kept, PhaseFit

LEMMA PrimeEndsKept ==
  ASSUME Trusted, SystemInv, SystemInv', Kept, PrimeEnds
  PROVE  Kept'
<1>1. /\ on /\ todo = << >> /\ plan # << >> /\ Head(plan) = "prime" /\ whole /\ inode0 = First
      /\ plan \in CreatePlans \cup WritePlans \cup MountPlans
      /\ call.for \in { "create", "write", "mount" }
  BY PartIs DEF PrimeEnds, SystemInv, MeantInv, Facts
<1>2. plan \in Primes
  BY <1>1, PlanHeads
<1>3. /\ plan' = Tail(plan) /\ todo' = << >> /\ UNCHANGED << pre, backend, mem, dev, cache, ichain, files, dirty, whole, on, call, faults >>
      /\ state' = IF call.for = "mount" THEN "mounted" ELSE state
  BY DEF PrimeEnds, Goto, layer, fs
<1>4. Does(todo', {}, {}) /\ Whole(todo') /\ call'.for # "format"
  BY <1>1, <1>3, DoesNone, WholeNone
<1>5. /\ ScriptKept' /\ ContentKept' /\ FutureFit' /\ held' = held
      /\ \A b : Owned(b)' <=> Owned(b)
      /\ \A b, s, part, tag : Will(b, s, part, tag)' <=> Will(b, s, part, tag)
  BY <1>1, <1>3, <1>4, QuietBegins
<1>6. PreInv' /\ available' = available /\ pending' = pending
  BY <1>3, PreStays
<1>7. /\ plan = PlanP => plan' = << >> /\ call.for = "mount"
      /\ plan # PlanP => plan' \in { PlanE, PlanIFAE, PlanT } /\ plan' \in BlockTaken /\ plan \in BlockTaken
                         /\ (plan' \in InodePlans => plan \in InodePlans) /\ (plan' \notin EntryPlans => plan \notin EntryPlans)
                         /\ (plan' \in WritePlans => plan \in WritePlans) /\ call.for # "mount"
  <2>1. plan = PlanP => plan' = << >> /\ call.for = "mount"
    BY <1>3, PlansAre DEF SystemInv, PlanFit, CreatePlans, EntryPlans, InodePlans, WritePlans
  <2>2. CASE plan # PlanP
    <3>1. (plan = PlanPE /\ plan' = PlanE) \/ (plan = PlanPIFAE /\ plan' = PlanIFAE) \/ (plan = PlanPT /\ plan' = PlanT)
      BY <1>2, <1>3, <2>2, PlansAre DEF Primes
    <3>2. call.for # "mount"
      BY <3>1, PlansAre DEF SystemInv, PlanFit, MountPlans
    <3> QED BY <3>1, <3>2, PlansAre DEF BlockTaken, InodePlans, EntryPlans, WritePlans
  <2> QED BY <2>1, <2>2
<1>8. plan' \notin Primes
  BY <1>7, PlanKinds
<1>9. PhaseFit'
  <2>1. Newest' = Newest /\ (InFront' <=> InFront) /\ (NeedsBlock' <=> NeedsBlock)
    BY <1>3, SameFiles DEF NeedsBlock
  <2>2. PhaseFit
    BY DEF Kept
  <2>3. CASE plan = PlanP
    <3>1. plan' \notin BlockTaken \cup InodePlans \cup EntryPlans \cup WritePlans \cup MountPlans \cup { PlanAE, PlanAIFAE, PlanAT }
      BY <1>7, <2>3, PlansAre DEF BlockTaken, InodePlans, EntryPlans, WritePlans, MountPlans
    <3> QED BY <1>1, <1>3, <1>7, <2>1, <2>2, <2>3, <3>1 DEF PhaseFit
  <2>4. CASE plan # PlanP
    BY <1>1, <1>3, <1>6, <1>7, <2>1, <2>2, <2>4 DEF PhaseFit
  <2> QED BY <2>3, <2>4
<1>10. TakenFit'
  <2>1. plan' \in BlockTaken => plan \in BlockTaken
    BY <1>7, PlanKinds
  <2>2. \A f \in DOMAIN files' : files'[f].open => dev'.erased # LastBlock(f)'
    BY <1>3, SameFiles DEF Kept, TakenFit
  <2>3. (plan \in BlockTaken => call.b \in pending /\ ~ Owned(call.b) /\ dev.erased # call.b /\ Will(call.b, STAT, "first", "key"))'
    BY <1>3, <1>5, <1>6, <2>1 DEF Kept, TakenFit
  <2> QED BY <1>8, <2>2, <2>3 DEF TakenFit
<1>11. ListFit'
  <2>1. Listing' => Listing
    BY <1>1, <1>3, <1>7, <1>8, PlanKinds, MountedListing DEF Listing, Primes
  <2> QED BY <1>3, <1>5, <1>6, <2>1, ListsStay
<1>12. DrawFit'
  <2>1. Puts(todo)' = {} /\ Erased(todo)' = {} /\ Len(todo') = 0
    BY <1>3, ScriptEnded, ListNone
  <2> QED BY <1>3, <2>1 DEF DrawFit
<1>13. AwayFit'
  BY <1>3, <1>7 DEF AwayFit, Primed
<1> QED BY <1>5, <1>6, <1>9, <1>10, <1>11, <1>12, <1>13 DEF Kept

-----------------------------------------------------------------------------
(* Scripts that only look.                                                 *)
Looks == { x \in Calm : x.op \in { "open", "see", "raw", "probe", "close" } }

LEMMA LooksDo ==
  ASSUME NEW t, Within(t, Looks)
  PROVE  Does(t, {}, {}) /\ \A i \in 1 .. Len(t) : t[i].op \notin { "lists", "push", "erase" }
<1>1. IsList(t) /\ \A i \in 1 .. Len(t) : t[i].op \in { "open", "see", "raw", "probe", "close" }
  BY DEF Within, Looks
<1>2. \A i \in 1 .. Len(t) : ~ Programs(t[i]) /\ t[i].op # "erase"
  BY <1>1 DEF Programs
<1> QED BY <1>1, <1>2, DoesLook

LEMMA LooksAre ==
  ASSUME NEW b \in Block, NEW s \in 0 .. LastSector
  PROVE  /\ Op("open", b, s, "", "") \in Looks /\ Op("see", b, s, "", "") \in Looks
         /\ Op("raw", b, 0, "", "") \in Looks /\ Op("probe", b, 0, "", "") \in Looks
         /\ Op("close", None, 0, "", "") \in Looks
<1>1. Op("open", b, s, "", "") \in Looks
  <2> DEFINE y == Op("open", b, s, "", "")
  <2>1. y.op = "open"
    BY DEF Op
  <2>2. y \in Calm
    BY LooksCalm
  <2> HIDE DEF y
  <2>3. y \in Looks
    BY <2>1, <2>2 DEF Looks
  <2> QED BY <2>3 DEF y
<1>2. Op("see", b, s, "", "") \in Looks
  <2> DEFINE y == Op("see", b, s, "", "")
  <2>1. y.op = "see"
    BY DEF Op
  <2>2. y \in Calm
    BY LooksCalm
  <2> HIDE DEF y
  <2>3. y \in Looks
    BY <2>1, <2>2 DEF Looks
  <2> QED BY <2>3 DEF y
<1>3. Op("raw", b, 0, "", "") \in Looks
  <2> DEFINE y == Op("raw", b, 0, "", "")
  <2>1. y.op = "raw"
    BY DEF Op
  <2>2. y \in Calm
    BY LooksCalm
  <2> HIDE DEF y
  <2>3. y \in Looks
    BY <2>1, <2>2 DEF Looks
  <2> QED BY <2>3 DEF y
<1>4. Op("probe", b, 0, "", "") \in Looks
  <2> DEFINE y == Op("probe", b, 0, "", "")
  <2>1. y.op = "probe"
    BY DEF Op
  <2>2. y \in Calm
    BY LooksCalm
  <2> HIDE DEF y
  <2>3. y \in Looks
    BY <2>1, <2>2 DEF Looks
  <2> QED BY <2>3 DEF y
<1>5. Op("close", None, 0, "", "") \in Looks
  <2> DEFINE y == Op("close", None, 0, "", "")
  <2>1. y.op = "close"
    BY DEF Op
  <2>2. y \in Calm
    BY OthersCalm
  <2> HIDE DEF y
  <2>3. y \in Looks
    BY <2>1, <2>2 DEF Looks
  <2> QED BY <2>3 DEF y
<1> QED BY <1>1, <1>2, <1>3, <1>4, <1>5

LEMMA FindLooks ==
  ASSUME TableFit, FilesFit, whole, inode0 = First, NEW k \in 1 .. Newest
  PROVE  Within(Find(k), Looks) /\ Within(See(EntryBlock(k), EntrySector(k)), Looks)
         /\ Within(See(EntryBlock(k), EntrySector(k) + 1), Looks)
<1>1. Newest \in Nat \ {0} /\ k \in Nat /\ \A j \in 1 .. Newest : EntryBlock(j) \in Block
  BY FilesAre
<1>2. TAIL \in 0 .. LastSector /\ INIT \in 0 .. LastSector /\ inode0 \in Block
  BY LastSectorIs, BlocksAre DEF TAIL, INIT
<1>3. \A j \in 1 .. Newest : EntrySector(j) \in 0 .. LastSector /\ EntrySector(j) + 1 \in 0 .. LastSector
  BY <1>1, EntrySectorIs
<1>4. Op("see", inode0, TAIL, "", "") \in Looks /\ Op("see", inode0, INIT, "", "") \in Looks
  BY <1>2, LooksAre
<1>5. ASSUME NEW j \in 1 .. k
      PROVE  /\ Op("see", EntryBlock(j), TAIL, "", "") \in Looks
             /\ Op("see", EntryBlock(j), EntrySector(j), "", "") \in Looks
  <2>1. j \in 1 .. Newest
    BY <1>1
  <2> QED BY <1>1, <1>2, <1>3, <2>1, LooksAre
<1>6. Op("see", EntryBlock(k), EntrySector(k) + 1, "", "") \in Looks /\ Op("see", EntryBlock(k), EntrySector(k), "", "") \in Looks
  BY <1>1, <1>3, LooksAre
<1>7. Within(Find(k), Looks)
  BY <1>1, <1>4, <1>5, <1>6, FindWithin
<1> QED BY <1>6, <1>7, WithinOne DEF See

(* What a script ends with.                                                *)
Ends(t, y) == IsList(t) /\ t # << >> /\ t[Len(t)] = y

LEMMA EndsOne == ASSUME NEW y PROVE Ends(<< y >>, y)
<1>1. IsList(<< y >>) /\ Len(<< y >>) = 1 /\ << y >>[1] = y
  BY ListOne
<1>2. << y >> # << >>
  BY <1>1, ListNone
<1> QED BY <1>1, <1>2 DEF Ends

LEMMA EndsConcat ==
  ASSUME NEW s, NEW t, NEW y, IsList(s), Ends(t, y)
  PROVE  Ends(s \o t, y)
<1> DEFINE u == s \o t
<1>1. IsList(t) /\ Len(t) \in Nat \ {0} /\ t[Len(t)] = y /\ Len(s) \in Nat
  BY ListLen DEF Ends
<1>2. IsList(u) /\ Len(u) = Len(s) + Len(t) /\ \A i \in 1 .. Len(t) : u[Len(s) + i] = t[i]
  BY <1>1, ListConcat
<1> HIDE DEF u
<1>3. Len(t) \in 1 .. Len(t) /\ u[Len(u)] = y /\ Len(u) # 0
  BY <1>1, <1>2
<1>4. Ends(u, y)
  BY <1>2, <1>3, ListLen DEF Ends
<1> QED BY <1>4 DEF u

LEMMA EndsFlat ==
  ASSUME NEW m \in Nat \ {0}, NEW g, g = [ i \in 1 .. m |-> g[i] ], \A i \in 1 .. m : IsList(g[i]),
         NEW y, Ends(g[m], y)
  PROVE  Ends(Flat(g), y)
<1>1. DOMAIN g = 1 .. m
  <2> DEFINE h == [ i \in 1 .. m |-> g[i] ]
  <2>1. DOMAIN h = 1 .. m
    OBVIOUS
  <2> HIDE DEF h
  <2>2. g = h
    BY DEF h
  <2> QED BY <2>1, <2>2
<1>2. IsList(g) /\ Len(g) = m
  BY <1>1, ListMade
<1> DEFINE T == { k \in 0 .. m : IsList(Cat(g, k)) }
<1>3. 0 \in T
  BY CatZero, ListNone
<1>4. ASSUME NEW k \in 0 .. m - 1, k \in T PROVE k + 1 \in T
  <2>1. k \in Nat /\ k + 1 \in 1 .. m /\ k + 1 \in 0 .. m
    OBVIOUS
  <2>2. Cat(g, k + 1) = Cat(g, k) \o g[k + 1] /\ IsList(Cat(g, k))
    BY <1>4, <2>1, CatStep
  <2>3. IsList(Cat(g, k) \o g[k + 1])
    BY <2>1, <2>2, ListConcat
  <2> QED BY <2>1, <2>2, <2>3
<1>5. 0 .. m \subseteq T
  <2> HIDE DEF T
  <2> QED BY <1>3, <1>4, UpTo
<1>6. m - 1 \in Nat /\ m - 1 \in 0 .. m /\ (m - 1) + 1 = m
  OBVIOUS
<1> DEFINE k == m - 1
<1>7. k \in Nat /\ k + 1 = m /\ IsList(Cat(g, k))
  BY <1>5, <1>6
<1> HIDE DEF k, T
<1>8. Cat(g, k + 1) = Cat(g, k) \o g[k + 1]
  BY <1>7, CatStep
<1>9. Ends(Cat(g, k) \o g[m], y)
  BY <1>7, EndsConcat
<1>10. Cat(g, m) = Cat(g, k) \o g[m]
  BY <1>7, <1>8
<1>11. Ends(Cat(g, m), y)
  BY <1>9, <1>10
<1> QED BY <1>2, <1>11, FlatIsCat

LEMMA FindEnds ==
  ASSUME NEW k \in Nat \ {0}, k = Newest
  PROVE  Ends(Find(k), Op("see", EntryBlock(k), EntrySector(k), "", ""))
<1> DEFINE y == Op("see", EntryBlock(k), EntrySector(k), "", "")
           g == [ j \in 1 .. k |-> IterAt(j) \o See(EntryBlock(j), EntrySector(j)) ]
<1>1. IsList(IterStart) /\ \A b, s : IsList(See(b, s))
  BY WholeSingle, WholeConcat DEF IterStart, Whole
<1>2. \A j \in 1 .. k : IsList(IterAt(j))
  BY <1>1, ListNone DEF IterAt
<1>3. ASSUME NEW j \in 1 .. k PROVE IsList(g[j])
  <2>1. IsList(IterAt(j) \o See(EntryBlock(j), EntrySector(j)))
    BY <1>1, <1>2, ListConcat
  <2> QED BY <2>1
<1>4. Ends(g[k], y)
  <2>1. Ends(See(EntryBlock(k), EntrySector(k)), y)
    BY EndsOne DEF See
  <2>2. k \in 1 .. k
    OBVIOUS
  <2>3. Ends(IterAt(k) \o See(EntryBlock(k), EntrySector(k)), y)
    BY <1>2, <2>1, <2>2, EndsConcat
  <2> QED BY <2>2, <2>3
<1>5. g = [ j \in 1 .. k |-> g[j] ]
  OBVIOUS
<1> HIDE DEF g, y
<1>6. Ends(Flat(g), y)
  BY <1>3, <1>4, <1>5, EndsFlat
<1>7. Ends(IterStart \o Flat(g), y)
  BY <1>1, <1>6, EndsConcat
<1> DEFINE u == IterStart \o Flat(g)
<1>8. u \o << >> = u
  BY <1>7, NoneConcat DEF Ends
<1>9. Find(k) = u \o << >>
  BY DEF Find, g
<1>10. Ends(Find(k), y)
  BY <1>7, <1>8, <1>9
<1> QED BY <1>10 DEF y

-----------------------------------------------------------------------------
(* The calls that begin by looking, and leave the files as they are.       *)

LEMMA QuietCall ==
  ASSUME SystemInv, Kept, Idle, NEW for \in { "create", "write", "read", "ls", "walk" }, NEW f, NEW p, NEW t,
         Begin(for, f, p, t), UNCHANGED fs, Within(t, Looks), Whole(t),
         p \in { << >>, PlanFAE, PlanFAIFAE, PlanFAT }, p = PlanFAIFAE => NeedsBlock,
         p = PlanFAT => files[f].open /\ files[f].sector = TAIL,
         t = << >> => call.for # "mount" /\ for # "walk",
         t # << >> => \/ t[Len(t)].op = "close" /\ for = "walk"
                      \/ t[Len(t)].op \in { "open", "see" } /\ ~ InAvailable(t[Len(t)].b),
         for = "walk" => t[1].op \in { "raw", "probe" } /\ t[1].b = 0
  PROVE  Kept'
<1>1. /\ todo = << >> /\ plan = << >> /\ plan' = p /\ todo' = t /\ whole /\ state = "mounted"
      /\ call'.for = for /\ call'.f = f /\ mem' = mem /\ whole' = whole
  <2>1. Facts
    BY DEF SystemInv, MeantInv, Facts
  <2>2. for \notin { "mount", "format" }
    OBVIOUS
  <2> QED BY <2>1, <2>2, BeginIs DEF Idle
<1>2. UNCHANGED << pre, backend, dev, cache, mem, state, whole, ichain, files, dirty >>
  BY DEF Begin, layer, mounts, fs
<1>3. /\ Does(todo', {}, {}) /\ Whole(todo') /\ call'.for # "format"
      /\ \A i \in 1 .. Len(t) : t[i].op \notin { "lists", "push", "erase" }
  BY <1>1, LooksDo
<1>4. /\ ScriptKept' /\ ContentKept' /\ FutureFit' /\ held' = held /\ Puts(todo)' = {} /\ Erased(todo)' = {}
      /\ \A b : Owned(b)' <=> Owned(b)
      /\ \A b, s, part, tag : Will(b, s, part, tag)' <=> Will(b, s, part, tag)
  BY <1>1, <1>2, <1>3, QuietBegins
<1>5. PreInv' /\ available' = available /\ pending' = pending
  BY <1>2, PreStays
<1>6. /\ plan' \notin Primes /\ plan' \notin { PlanE, PlanIFAE, PlanT, PlanAE, PlanAIFAE, PlanAT }
      /\ plan' \notin BlockTaken /\ plan' \notin MountPlans /\ ~ Primed'
      /\ plan' \in InodePlans => p = PlanFAIFAE
      /\ plan' \in WritePlans => p = PlanFAT
      /\ plan \notin EntryPlans
  BY <1>1, PlansAre DEF Primes, BlockTaken, MountPlans, InodePlans, WritePlans, EntryPlans, Primed
<1>7. PhaseFit'
  <2>1. Newest' = Newest /\ (InFront' <=> InFront) /\ (NeedsBlock' <=> NeedsBlock)
    BY <1>2, SameFiles DEF NeedsBlock
  <2>2. PhaseFit
    BY DEF Kept
  <2>3. InFront => available = << >>
    BY <1>6, <2>2 DEF PhaseFit
  <2>4. call'.for \notin { "mount", "none", "format" }
    BY <1>1
  <2> QED BY <1>1, <1>2, <1>5, <1>6, <2>1, <2>3, <2>4 DEF PhaseFit
<1>8. TakenFit'
  <2>1. \A g \in DOMAIN files' : files'[g].open => dev'.erased # LastBlock(g)'
    BY <1>2, SameFiles DEF Kept, TakenFit
  <2> QED BY <1>6, <2>1 DEF TakenFit
<1>9. ListFit'
  <2>1. Listing
    BY <1>1 DEF Listing
  <2> QED BY <1>2, <1>4, <1>5, <2>1, ListsStay
<1>10. DrawFit'
  BY <1>1, <1>3, <1>4, <1>6 DEF DrawFit
<1>11. AwayFit'
  <2>1. \A b : InAvailable(b)' <=> InAvailable(b)
    BY <1>5, Availables
  <2>2. (call'.for = "walk" => todo'[1].op \in { "raw", "probe" } /\ todo'[1].b = 0)
    BY <1>1
  <2>3. CASE t = << >>
    <3>1. (cache.open => ~ InAvailable(cache.block)) /\ ~ InAvailable(dev.erased)
      <4>1. ~ Primed
        BY <1>1, PlanKinds DEF Primed
      <4> QED BY <1>1, <2>3, <4>1 DEF Kept, AwayFit
    <3>3. (todo = << >> => (cache.open => ~ InAvailable(cache.block)) /\ ~ InAvailable(dev.erased))'
      BY <1>2, <1>5, <3>1 DEF InAvailable
    <3> QED BY <1>1, <2>3, <3>3 DEF AwayFit
  <2>4. CASE t # << >>
    <3> DEFINE c == t[Len(t)]
    <3>1. \/ c.op = "close" /\ for = "walk"
          \/ c.op \in { "open", "see" } /\ ~ InAvailable(c.b)
      BY <2>4
    <3>2. todo'[Len(todo')] = c
      BY <1>1
    <3>3. (todo[Len(todo)] = c)'
      BY <3>2
    <3> HIDE DEF c
    <3>4. (\/ todo[Len(todo)].op = "close" /\ call.for = "walk"
           \/ todo[Len(todo)].op \in { "open", "see", "write", "spare" } /\ ~ InAvailable(todo[Len(todo)].b))'
      BY <1>1, <1>5, <3>1, <3>2 DEF InAvailable
    <3> QED BY <1>1, <2>2, <2>4, <3>4 DEF AwayFit
  <2> QED BY <2>3, <2>4
<1> QED BY <1>4, <1>5, <1>7, <1>8, <1>9, <1>10, <1>11 DEF Kept

LEMMA TableOwned ==
  ASSUME SystemInv, Kept, whole, state = "mounted" \/ plan = PlanP, todo = << >>
  PROVE  /\ \A k \in 1 .. Newest : EntryBlock(k) \in Block /\ TableBlock(EntryBlock(k)) /\ Owned(EntryBlock(k))
         /\ \A b \in Block : Owned(b) => ~ InAvailable(b)
<1>1. Listing
  BY MountedListing
<1>2. \A b \in Block : Owned(b) => ~ InAvailable(b)
  BY <1>1 DEF Kept, ListFit
<1>3. ASSUME NEW k \in 1 .. Newest PROVE EntryBlock(k) \in Block /\ TableBlock(EntryBlock(k))
  <2>1. EntryBlock(k) \in Block /\ Newest \in Nat \ {0}
    BY FilesAre DEF SystemInv, MeantInv
  <2>2. Grown(k)
    BY <2>1, GrownMore DEF SystemInv, TableFit
  <2> DEFINE i == ((k - 1) \div EntriesPerBlock) + 1
  <2>3. i \in Nat /\ i >= 1
    <3>1. k - 1 \in Nat /\ EntriesPerBlock \in Nat \ {0}
      BY <2>1, EntriesAre
    <3> DEFINE e == EntriesPerBlock  a == k - 1
    <3>2. e \in Nat \ {0} /\ a \in Nat
      BY <3>1
    <3> HIDE DEF e, a
    <3>3. a \div e \in Nat
      BY <3>2, Divided
    <3>4. (k - 1) \div EntriesPerBlock \in Nat
      BY <3>3 DEF a, e
    <3> QED BY <3>4
  <2>4. Len(ichain) >= i /\ ichain[i] = EntryBlock(k) /\ Len(ichain) \in Nat
    BY <2>2 DEF Grown, EntryBlock, SystemInv, TableFit
  <2> HIDE DEF i
  <2>5. i \in 1 .. Len(ichain)
    BY <2>3, <2>4
  <2> QED BY <2>1, <2>4, <2>5 DEF TableBlock
<1> QED BY <1>2, <1>3 DEF Owned

LEMMA CreateKept ==
  ASSUME Trusted, SystemInv, SystemInv', Kept, Create
  PROVE  Kept'
<1> DEFINE t == Find(Newest)
           p == (IF NeedsBlock THEN << "flush", "allocate", "inode" >> ELSE << >>) \o << "flush", "allocate", "entry" >>
<1>1. Idle /\ Begin("create", Newest, p, t) /\ UNCHANGED fs
  BY DEF Create
<1>2. /\ p \in { << >>, PlanFAE, PlanFAIFAE, PlanFAT } /\ (p = PlanFAIFAE => NeedsBlock) /\ p # PlanFAT
  <2>1. CASE NeedsBlock
    <3>1. p = PlanFAIFAE
      BY <2>1, PlansPrimed
    <3> QED BY <2>1, <3>1, PlansAre
  <2>2. CASE ~ NeedsBlock
    <3>1. p = PlanFAE
      BY <2>2, PlansPrimed
    <3> QED BY <3>1, PlansAre
  <2> QED BY <2>1, <2>2
<1>3. whole /\ inode0 = First /\ todo = << >> /\ state = "mounted" /\ TableFit /\ FilesFit
  <2>1. Facts
    BY DEF SystemInv, MeantInv, Facts
  <2>2. "create" \notin { "mount", "format" }
    OBVIOUS
  <2> HIDE DEF p, t
  <2> QED BY <1>1, <2>1, <2>2, BeginIs DEF Idle, Facts
<1>4. Newest \in Nat \ {0} /\ Newest \in 1 .. Newest
  BY <1>3, FilesAre
<1>5. Within(t, Looks)
  BY <1>3, <1>4, FindLooks
<1>6. Whole(t)
  BY <1>4, FindWhole
<1> DEFINE y == Op("see", EntryBlock(Newest), EntrySector(Newest), "", "")
<1>7. Ends(t, y)
  BY <1>4, FindEnds
<1>8. y.op = "see" /\ y.b = EntryBlock(Newest)
  BY DEF Op
<1> HIDE DEF y, t, p
<1>9. t # << >> /\ t[Len(t)].op = "see" /\ t[Len(t)].b = EntryBlock(Newest)
  BY <1>7, <1>8 DEF Ends
<1>10. ~ InAvailable(EntryBlock(Newest))
  BY <1>3, <1>4, TableOwned
<1>11. /\ "create" \in { "create", "write", "read", "ls", "walk" }
       /\ t = << >> => call.for # "mount" /\ "create" # "walk"
       /\ t # << >> => \/ t[Len(t)].op = "close" /\ "create" = "walk"
                       \/ t[Len(t)].op \in { "open", "see" } /\ ~ InAvailable(t[Len(t)].b)
       /\ "create" = "walk" => t[1].op \in { "raw", "probe" } /\ t[1].b = 0
  BY <1>9, <1>10
<1> DEFINE for == "create"  f == Newest
<1>12. /\ for \in { "create", "write", "read", "ls", "walk" }
       /\ t = << >> => call.for # "mount" /\ for # "walk"
       /\ t # << >> => \/ t[Len(t)].op = "close" /\ for = "walk"
                       \/ t[Len(t)].op \in { "open", "see" } /\ ~ InAvailable(t[Len(t)].b)
       /\ for = "walk" => t[1].op \in { "raw", "probe" } /\ t[1].b = 0
       /\ Idle /\ Begin(for, f, p, t)
  BY <1>1, <1>11
<1> HIDE DEF for, f
<1> QED BY <1>1, <1>2, <1>5, <1>6, <1>12, QuietCall

LEMMA CommitTailKept ==
  ASSUME Trusted, SystemInv, SystemInv', Kept, NEW f \in DOMAIN files, CommitTail(f)
  PROVE  Kept'
<1> DEFINE t == << >>  p == << "flush", "allocate", "tail" >>  for == "write"
<1>1. Idle /\ Begin(for, f, p, t) /\ UNCHANGED fs /\ files[f].open /\ files[f].sector = TAIL
  BY DEF CommitTail
<1>2. p = PlanFAT /\ p # PlanFAIFAE
  BY PlansAre DEF PlanFAT
<1>3. Within(t, Looks) /\ Whole(t) /\ t = << >>
  BY WithinNone, WholeNone
<1>4. call.for # "mount"
  BY <1>1 DEF Kept, PhaseFit
<1>5. for \in { "create", "write", "read", "ls", "walk" } /\ for # "walk"
  OBVIOUS
<1> HIDE DEF t, p, for
<1> QED BY <1>1, <1>2, <1>3, <1>4, <1>5, QuietCall

(* How a walk looks at a block.                                            *)
LEMMA WalkedIs ==
  ASSUME SystemInv, NEW b \in Block
  PROVE  /\ Within(Walked(b), Looks) /\ Len(Walked(b)) \in Nat \ {0} /\ IsList(Walked(b))
         /\ Walked(b)[1].op \in { "raw", "probe" } /\ Walked(b)[1].b = b
         /\ \E y : /\ Ends(Walked(b), y)
                   /\ \/ y.op = "close"
                      \/ y.op = "see" /\ y.b = b /\ ~ Keyed(b)
<1>1. STAT \in 0 .. LastSector /\ TAIL \in 0 .. LastSector /\ LastSector \in 0 .. LastSector
  BY LastSectorIs DEF STAT, TAIL
<1>2. Op("raw", b, 0, "", "") \in Looks /\ Op("probe", b, 0, "", "") \in Looks /\ Op("close", None, 0, "", "") \in Looks
      /\ \A s \in { STAT, TAIL, LastSector } : Op("see", b, s, "", "") \in Looks
  BY <1>1, LooksAre
<1>3. Within(Walked(b), Looks)
  BY <1>2, WalkedWithin
<1> DEFINE r == Op("raw", b, 0, "", "")  o == Op("probe", b, 0, "", "")  c == Op("close", None, 0, "", "")
           s == Op("see", b, STAT, "", "")  l == Op("see", b, TAIL, "", "")  m == Op("see", b, LastSector, "", "")
<1>4. r.op = "raw" /\ r.b = b
  BY DEF Op
<1>5. o.op = "probe" /\ o.b = b
  BY DEF Op
<1>6. c.op = "close"
  BY DEF Op
<1>7. s.op = "see" /\ s.b = b
  BY DEF Op
<1>8. Raw(b) = << r >> /\ Probe(b) = << o >> /\ Close = << c >> /\ See(b, STAT) = << s >>
      /\ See(b, TAIL) = << l >> /\ See(b, LastSector) = << m >>
  BY DEF Raw, Probe, Close, See
<1>9. Walked(b) = IF ~ Keyed(b) THEN << r >> \o << s >>
                  ELSE << o >> \o << l >> \o << c >> \o (IF Unallocated(b) THEN << >> ELSE << m >> \o << c >>)
  BY <1>8 DEF Walked
<1> HIDE DEF r, o, c, s, l, m
<1>10. ASSUME NEW y, NEW u, IsList(u)
       PROVE  IsList(<< y >> \o u) /\ Len(<< y >> \o u) \in Nat \ {0} /\ (<< y >> \o u)[1] = y
  <2>1. IsList(<< y >>) /\ Len(<< y >>) = 1 /\ << y >>[1] = y /\ Len(u) \in Nat
    BY <1>10, ListOne, ListLen
  <2> DEFINE v == << y >>
  <2>2. IsList(v) /\ Len(v) = 1 /\ v[1] = y
    BY <2>1
  <2> HIDE DEF v
  <2>5. IsList(v \o u) /\ Len(v \o u) = Len(v) + Len(u) /\ \A i \in 1 .. Len(v) : (v \o u)[i] = v[i]
    <3>1. IsList(v) /\ IsList(u)
      BY <1>10, <2>2
    <3> QED BY ONLY <3>1, ListConcat
  <2>6. 1 \in 1 .. Len(v)
    BY <2>2
  <2>3. IsList(v \o u) /\ Len(v \o u) = 1 + Len(u) /\ (v \o u)[1] = y
    BY <2>2, <2>5, <2>6
  <2>4. IsList(v \o u) /\ Len(v \o u) \in Nat \ {0} /\ (v \o u)[1] = y
    BY <2>1, <2>3
  <2> QED BY <2>4 DEF v
<1>11. CASE ~ Keyed(b)
  <2>1. Walked(b) = << r >> \o << s >> /\ IsList(<< s >>) /\ IsList(<< r >>)
    BY <1>9, <1>11, ListOne
  <2>2. Ends(Walked(b), s)
    BY <2>1, EndsOne, EndsConcat
  <2>3. IsList(Walked(b)) /\ Len(Walked(b)) \in Nat \ {0} /\ Walked(b)[1] = r
    BY <1>10, <2>1
  <2> QED BY <1>3, <1>4, <1>7, <1>11, <2>2, <2>3
<1>12. CASE Keyed(b)
  <2> DEFINE z == IF Unallocated(b) THEN << >> ELSE << m >> \o << c >>
             a == << o >> \o << l >>  d == a \o << c >>
  <2>1. Walked(b) = d \o z
    BY <1>9, <1>12
  <2>2. IsList(<< l >>) /\ IsList(<< c >>) /\ IsList(<< m >>) /\ IsList(<< o >>)
    BY ListOne
  <2>3. IsList(a) /\ Len(a) \in Nat \ {0} /\ a[1] = o
    BY <1>10, <2>2
  <2> HIDE DEF a
  <2>4. IsList(d) /\ Len(d) \in Nat \ {0} /\ d[1] = o /\ Ends(d, c)
    <3>1. Len(<< c >>) = 1 /\ Ends(<< c >>, c)
      BY ListOne, EndsOne
    <3>2. Ends(a \o << c >>, c)
      BY <2>3, <3>1, EndsConcat
    <3> DEFINE k == << c >>
    <3>3. IsList(k) /\ Len(k) = 1
      BY <2>2, <3>1
    <3> HIDE DEF k
    <3>4. IsList(a \o k) /\ Len(a \o k) = Len(a) + 1 /\ \A i \in 1 .. Len(a) : (a \o k)[i] = a[i]
      <4>1. IsList(a) /\ IsList(k)
        BY <2>3, <3>3
      <4>2. IsList(a \o k) /\ Len(a \o k) = Len(a) + Len(k) /\ \A i \in 1 .. Len(a) : (a \o k)[i] = a[i]
        BY ONLY <4>1, ListConcat
      <4> QED BY <3>3, <4>2
    <3>5. 1 \in 1 .. Len(a) /\ Len(a) + 1 \in Nat \ {0}
      BY <2>3
    <3>6. IsList(a \o k) /\ Len(a \o k) \in Nat \ {0} /\ (a \o k)[1] = o
      BY <2>3, <3>4, <3>5
    <3> QED BY <3>2, <3>6 DEF k
  <2> HIDE DEF d
  <2>5. IsList(z) /\ Ends(d \o z, c)
    <3>1. CASE Unallocated(b)
      <4>1. z = << >> /\ d \o << >> = d
        BY <2>4, <3>1, NoneConcat
      <4> QED BY <2>4, <4>1, ListNone
    <3>2. CASE ~ Unallocated(b)
      <4>1. z = << m >> \o << c >>
        BY <3>2
      <4>2. Ends(<< m >> \o << c >>, c) /\ IsList(<< m >> \o << c >>)
        BY <2>2, EndsOne, EndsConcat, ListConcat
      <4>3. Ends(z, c) /\ IsList(z)
        BY <4>1, <4>2
      <4> HIDE DEF z
      <4> QED BY <2>4, <4>3, EndsConcat
    <3> QED BY <3>1, <3>2
  <2> HIDE DEF z
  <2>6. IsList(d \o z) /\ Len(d \o z) = Len(d) + Len(z) /\ Len(z) \in Nat /\ \A i \in 1 .. Len(d) : (d \o z)[i] = d[i]
    BY <2>4, <2>5, ListConcat, ListLen
  <2>7. 1 \in 1 .. Len(d) /\ Len(d) + Len(z) \in Nat \ {0}
    BY <2>4, <2>6
  <2>8. (d \o z)[1] = o /\ Len(d \o z) \in Nat \ {0}
    BY <2>4, <2>6, <2>7
  <2> QED BY <1>3, <1>5, <1>6, <2>1, <2>5, <2>6, <2>8
<1> QED BY <1>11, <1>12

LEMMA WalkIs ==
  ASSUME SystemInv, Kept, todo = << >>, state = "mounted",
         NEW t, t = Flat([ i \in 1 .. Blocks |-> Walked(i - 1) ])
  PROVE  /\ Within(t, Looks) /\ Whole(t) /\ t # << >> /\ t[1].op \in { "raw", "probe" } /\ t[1].b = 0
         /\ t[Len(t)].op = "close" \/ (t[Len(t)].op = "see" /\ ~ InAvailable(t[Len(t)].b))
<1>1. Blocks \in Nat \ {0} /\ \A i \in 1 .. Blocks : i - 1 \in Block
  BY BlocksAre
<1> DEFINE g == [ i \in 1 .. Blocks |-> Walked(i - 1) ]
<1>2. g = [ i \in 1 .. Blocks |-> g[i] ] /\ \A i \in 1 .. Blocks : g[i] = Walked(i - 1)
  OBVIOUS
<1>3. t = Flat(g)
  OBVIOUS
<1> HIDE DEF g
<1>4. \A i \in 1 .. Blocks : Within(g[i], Looks) /\ IsList(g[i]) /\ Whole(g[i])
  BY <1>1, <1>2, WalkedIs, WalkedWhole
<1>5. Within(t, Looks)
  BY <1>1, <1>2, <1>3, <1>4, WithinFlat
<1>6. Whole(t)
  BY <1>1, <1>2, <1>3, <1>4, FlatMade
<1>7. IsList(t) /\ Len(t) >= Len(g[1]) /\ \A i \in 1 .. Len(g[1]) : t[i] = g[1][i]
  BY <1>1, <1>2, <1>3, <1>4, FlatFirst
<1>8. 0 \in Block /\ g[1] = Walked(0)
  <2>1. 1 \in 1 .. Blocks /\ 1 - 1 = 0
    BY <1>1
  <2>2. g[1] = Walked(1 - 1)
    BY <1>2, <2>1
  <2> QED BY <1>1, <2>1, <2>2
<1>9. Len(g[1]) \in Nat \ {0} /\ g[1][1].op \in { "raw", "probe" } /\ g[1][1].b = 0
  BY <1>8, WalkedIs
<1>10. t # << >> /\ t[1] = g[1][1]
  <2>1. Len(t) \in Nat /\ 1 \in 1 .. Len(g[1])
    BY <1>7, <1>9, ListLen
  <2>2. Len(t) # 0
    BY <1>7, <1>9, <2>1
  <2> QED BY <1>7, <2>1, <2>2, ListLen
<1> DEFINE b == Blocks - 1
<1>11. b \in Block /\ g[Blocks] = Walked(b) /\ Blocks \in 1 .. Blocks
  <2>1. Blocks \in 1 .. Blocks
    BY <1>1
  <2> QED BY <1>1, <1>2, <2>1
<1> HIDE DEF b
<1>12. PICK y : Ends(Walked(b), y) /\ (y.op = "close" \/ (y.op = "see" /\ y.b = b /\ ~ Keyed(b)))
  BY <1>11, WalkedIs
<1>13. Ends(t, y)
  BY <1>1, <1>2, <1>3, <1>4, <1>11, <1>12, EndsFlat
<1>14. ~ Keyed(b) => ~ InAvailable(b)
  <2>1. Listing /\ Future = held
    <3>1. Puts(<< >>) = {} /\ Erased(<< >>) = {}
      BY DoesNone DEF Does
    <3>2. After(todo) = held
      BY <3>1 DEF After
    <3> QED BY <3>2 DEF Listing, Future
  <2> QED BY <1>11, <2>1 DEF Kept, ListFit, Will, Keyed, Holds
<1> QED BY <1>5, <1>6, <1>9, <1>10, <1>12, <1>13, <1>14 DEF Ends

LEMMA LookKept ==
  ASSUME Trusted, SystemInv, SystemInv', Kept, Look
  PROVE  Kept'
<1>1. /\ Idle /\ UNCHANGED fs /\ on /\ whole /\ inode0 = First /\ todo = << >> /\ plan = << >> /\ state = "mounted"
      /\ TableFit /\ FilesFit
  BY DEF Look, Idle, SystemInv, MeantInv, MountFit
<1> DEFINE p == << >>
<1>2. p \in { << >>, PlanFAE, PlanFAIFAE, PlanFAT } /\ p # PlanFAIFAE /\ p # PlanFAT
  BY PlansAre
<1> HIDE DEF p
<1>3. ASSUME NEW for \in { "read", "ls" }, NEW f, NEW t, Begin(for, f, p, t), Within(t, Looks), Whole(t), t # << >>,
             t[Len(t)].op = "see", ~ InAvailable(t[Len(t)].b)
      PROVE  Kept'
  <2>1. for \in { "create", "write", "read", "ls", "walk" } /\ for # "walk"
    OBVIOUS
  <2> QED BY <1>1, <1>2, <1>3, <2>1, QuietCall
<1>4. ASSUME NEW b \in Block, NEW s \in 0 .. LastSector
      PROVE  /\ Within(See(b, s), Looks) /\ Whole(See(b, s)) /\ Ends(See(b, s), Op("see", b, s, "", ""))
             /\ Op("see", b, s, "", "").b = b
  <2>1. Op("see", b, s, "", "") \in Looks /\ Op("see", b, s, "", "").b = b
    BY LooksAre DEF Op
  <2> QED BY <2>1, WithinOne, WholeSingle, EndsOne DEF See
<1>5. \A b, s : Op("see", b, s, "", "").op = "see"
  BY DEF Op
<1>6. CASE \E f \in DOMAIN files : \E i \in DOMAIN files[f].chain : \E s \in { INIT, LastSector } :
             ~ files[f].dead /\ Begin("read", f, p, See(files[f].chain[i], s))
  <2>1. PICK f \in DOMAIN files : \E i \in DOMAIN files[f].chain : \E s \in { INIT, LastSector } :
             ~ files[f].dead /\ Begin("read", f, p, See(files[f].chain[i], s))
    BY <1>6
  <2>10. PICK i \in DOMAIN files[f].chain, s \in { INIT, LastSector } :
             ~ files[f].dead /\ Begin("read", f, p, See(files[f].chain[i], s))
    BY <2>1
  <2>2. DOMAIN files[f].chain = 1 .. Len(files[f].chain)
    BY <1>1, <2>10, ListLen DEF FilesFit, FileFit
  <2> DEFINE b == files[f].chain[i]
  <2>3. InChain(f, b) /\ f \in Live
    BY <2>10, <2>2 DEF InChain, Live
  <2>4. Owned(b) /\ b \in Block
    BY <2>3, OwnedCells, BlocksAre DEF Kept
  <2>5. ~ InAvailable(b)
    BY <1>1, <2>4, TableOwned
  <2>6. s \in 0 .. LastSector
    BY LastSectorIs DEF INIT
  <2> DEFINE t == See(b, s)
  <2>7. Begin("read", f, p, t)
    BY <2>10
  <2> HIDE DEF b
  <2>11. Within(t, Looks) /\ Whole(t) /\ Ends(t, Op("see", b, s, "", "")) /\ Op("see", b, s, "", "").b = b
    BY <1>4, <2>4, <2>6
  <2> HIDE DEF t
  <2>8. t # << >> /\ t[Len(t)].op = "see" /\ t[Len(t)].b = b
    BY <1>5, <2>11 DEF Ends
  <2> QED BY <1>3, <2>5, <2>7, <2>8, <2>11
<1>7. CASE \E k \in DOMAIN files :
             Begin("ls", k, p, See(EntryBlock(k), EntrySector(k)) \o See(EntryBlock(k), EntrySector(k) + 1))
  <2>1. PICK k \in DOMAIN files :
             Begin("ls", k, p, See(EntryBlock(k), EntrySector(k)) \o See(EntryBlock(k), EntrySector(k) + 1))
    BY <1>7
  <2>2. k \in 1 .. Newest /\ k \in Nat \ {0}
    BY <1>1, <2>1, FilesAre DEF Newest
  <2> DEFINE b == EntryBlock(k)  s == EntrySector(k)  v == s + 1
  <2>3. b \in Block /\ ~ InAvailable(b) /\ s \in 0 .. LastSector /\ v \in 0 .. LastSector
    BY <1>1, <2>2, TableOwned, EntrySectorIs
  <2> DEFINE t == See(b, s) \o See(b, v)
  <2>4. Begin("ls", k, p, t)
    BY <2>1
  <2> HIDE DEF b, s, v
  <2>5. Within(t, Looks) /\ Whole(t)
    BY <1>4, <2>3, WithinConcat, WholeConcat
  <2>6. Ends(t, Op("see", b, v, "", "")) /\ Op("see", b, v, "", "").b = b
    BY <1>4, <2>3, EndsConcat DEF Within
  <2>7. t # << >> /\ t[Len(t)].op = "see" /\ t[Len(t)].b = b
    BY <1>5, <2>6 DEF Ends
  <2> HIDE DEF t
  <2> QED BY <1>3, <2>3, <2>4, <2>5, <2>7
<1>8. CASE Begin("walk", 0, p, Flat([ i \in 1 .. Blocks |-> Walked(i - 1) ]))
  <2> DEFINE t == Flat([ i \in 1 .. Blocks |-> Walked(i - 1) ])  for == "walk"
  <2>1. Begin(for, 0, p, t)
    BY <1>8
  <2>2. /\ Within(t, Looks) /\ Whole(t) /\ t # << >> /\ t[1].op \in { "raw", "probe" } /\ t[1].b = 0
        /\ t[Len(t)].op = "close" \/ (t[Len(t)].op = "see" /\ ~ InAvailable(t[Len(t)].b))
    BY <1>1, WalkIs
  <2>3. for \in { "create", "write", "read", "ls", "walk" } /\ for = "walk"
    OBVIOUS
  <2> HIDE DEF t, for
  <2> QED BY <1>1, <1>2, <2>1, <2>2, <2>3, QuietCall
<1> QED BY <1>6, <1>7, <1>8 DEF Look, p

LEMMA InspectKept ==
  ASSUME Trusted, SystemInv, SystemInv', Kept, Inspect
  PROVE  Kept'
<1>1. /\ on /\ todo = << >> /\ plan # << >> /\ Head(plan) = "inspect" /\ whole /\ inode0 = First
      /\ plan \in CreatePlans \cup WritePlans \cup MountPlans /\ TableFit /\ FilesFit
  BY PartIs DEF Inspect, SystemInv, MeantInv, Facts
<1>2. plan = PlanNP /\ plan' = PlanP /\ call.for = "mount"
  <2>1. plan = PlanNP
    BY <1>1, PlanHeads
  <2>2. plan \in MountPlans /\ plan # << >>
    BY <2>1, PlansAre DEF MountPlans
  <2>3. plan \notin CreatePlans \cup WritePlans
    BY <2>1, PlansAre DEF CreatePlans, EntryPlans, InodePlans, WritePlans
  <2> QED BY <2>1, <2>2, <2>3, PlansAre DEF SystemInv, PlanFit, Inspect, Goto
<1>3. /\ todo' = Find(Newest) \o ListsAnew
      /\ UNCHANGED << pre, backend, dev, cache, mem, state, whole, on, ichain, files, dirty, call >>
  BY DEF Inspect, Goto, layer, fs, mounts
<1>4. Newest \in Nat \ {0} /\ Newest \in 1 .. Newest
  BY <1>1, FilesAre
<1> DEFINE t == Find(Newest)  y == Op("lists", None, 0, "", "")  u == << y >>
<1>5. y.op = "lists"
  BY DEF Op
<1>6. Within(t, Looks) /\ Whole(t) /\ Whole(ListsAnew) /\ ListsAnew = u
  BY <1>1, <1>4, FindLooks, FindWhole, WholeSingle DEF ListsAnew
<1> HIDE DEF t, y
<1>7. Does(t, {}, {}) /\ IsList(t) /\ \A i \in 1 .. Len(t) : t[i].op \notin { "lists", "push", "erase" }
  BY <1>6, LooksDo DEF Within
<1>8. Does(u, {}, {}) /\ IsList(u) /\ Len(u) = 1 /\ u[1] = y
  BY <1>5, EffectsOne, ListOne DEF Does, Programs
<1> HIDE DEF u
<1>9. todo' = t \o u
  BY <1>3, <1>6 DEF t
<1>10. /\ IsList(t \o u) /\ Len(t \o u) = Len(t) + 1 /\ (t \o u)[Len(t) + 1] = y /\ Len(t) \in Nat
       /\ \A i \in 1 .. Len(t) : (t \o u)[i] = t[i]
  <2>1. /\ IsList(t \o u) /\ Len(t \o u) = Len(t) + Len(u)
        /\ (\A i \in 1 .. Len(t) : (t \o u)[i] = t[i]) /\ \A i \in 1 .. Len(u) : (t \o u)[Len(t) + i] = u[i]
    <3>1. IsList(t) /\ IsList(u)
      BY <1>7, <1>8
    <3> QED BY ONLY <3>1, ListConcat
  <2>2. 1 \in 1 .. Len(u)
    BY <1>8
  <2>3. (t \o u)[Len(t) + 1] = u[1]
    BY <2>1, <2>2
  <2> QED BY <1>7, <1>8, <2>1, <2>3, ListLen
<1>11. Does(todo', {}, {})
  <2> DEFINE N == {}
  <2>1. Does(t, N, N) /\ Does(u, N, N) /\ Cross(N, N, N) /\ N \cup N = {}
    BY <1>7, <1>8 DEF Cross
  <2> HIDE DEF N
  <2>2. Does(t \o u, N \cup N, N \cup N)
    BY <2>1, DoesConcat
  <2> QED BY <1>9, <2>1, <2>2
<1>12. Whole(todo')
  BY <1>6, <1>9, WholeConcat
<1>13. call'.for # "format"
  BY <1>2, <1>3
<1>14. /\ ScriptKept' /\ ContentKept' /\ FutureFit' /\ held' = held /\ Future = held /\ Puts(todo)' = {} /\ Erased(todo)' = {}
       /\ \A b : Owned(b)' <=> Owned(b)
       /\ \A b, s, part, tag : Will(b, s, part, tag)' <=> Will(b, s, part, tag)
  BY <1>1, <1>3, <1>11, <1>12, <1>13, QuietBegins
<1>15. PreInv' /\ available' = available /\ pending' = pending
  BY <1>3, PreStays
<1>16. /\ plan' \in Primes /\ plan' \in MountPlans /\ plan \in MountPlans
       /\ plan' \notin InodePlans \cup WritePlans \cup BlockTaken \cup EntryPlans /\ plan \notin EntryPlans
       /\ plan' \notin { PlanE, PlanIFAE, PlanT }
  BY <1>2, PlansAre DEF Primes, MountPlans, InodePlans, WritePlans, BlockTaken, EntryPlans
<1>17. PhaseFit'
  <2>1. Newest' = Newest /\ (InFront' <=> InFront) /\ (NeedsBlock' <=> NeedsBlock)
    BY <1>3, SameFiles DEF NeedsBlock
  <2>2. PhaseFit
    BY DEF Kept
  <2> QED BY <1>2, <1>3, <1>15, <1>16, <2>1, <2>2 DEF PhaseFit
<1>18. TakenFit'
  <2>1. \A g \in DOMAIN files' : files'[g].open => dev'.erased # LastBlock(g)'
    BY <1>3, SameFiles DEF Kept, TakenFit
  <2>2. \A c \in held' : c.b \in Used /\ c.s # STAT => Owned(c.b)'
    BY <1>1, <1>14 DEF Kept, ContentKept, CleanFit
  <2> QED BY <1>16, <2>1, <2>2 DEF TakenFit
<1>19. ListFit'
  <2>1. Listing' => Listing
    <3>1. todo'[Len(todo')].op = "lists" /\ Len(todo') \in 1 .. Len(todo')
      BY <1>5, <1>9, <1>10
    <3>2. Listing' => state' = "mounted"
      BY <3>1 DEF Listing
    <3> QED BY <1>3, <3>2 DEF Listing
  <2> QED BY <1>3, <1>14, <1>15, <2>1, ListsStay
<1>20. DrawFit'
  <2>1. \A i \in 1 .. Len(todo') : todo'[i].op # "push"
    <3> SUFFICES ASSUME NEW i \in 1 .. Len(todo') PROVE todo'[i].op # "push"
      OBVIOUS
    <3>1. i \in 1 .. Len(t) \/ i = Len(t) + 1
      BY <1>9, <1>10
    <3> QED BY <1>5, <1>7, <1>9, <1>10, <3>1
  <2> QED BY <1>2, <1>14, <1>16, <2>1 DEF DrawFit
<1>21. AwayFit'
  BY <1>16 DEF AwayFit, Primed
<1> QED BY <1>14, <1>15, <1>17, <1>18, <1>19, <1>20, <1>21 DEF Kept

-----------------------------------------------------------------------------
(* Priming draws a block.                                                  *)

LEMMA DrawnKept ==
  ASSUME Trusted, SystemInv, Kept, NEW b \in Block, NextPart("prime"), ~ IsFull, ~ Contains(b),
         NEW t, Goto(plan, t), UNCHANGED << pre, backend, layer, fs, mounts, call, faults >>,
         NEW P, NEW E, Does(t, P, E), Whole(t), E \in { {}, { b } }, E = {} => P = {}, E # {} => ~ Owned(b),
         \A c \in P : c.b = b /\ c.s = STAT /\ c.part = "first",
         \A i \in 1 .. Len(t) :
           /\ t[i].b = b /\ t[i].op # "lists"
           /\ t[i].op = "push" =>
                /\ i = Len(t) /\ ~ Owned(b)
                /\ [ b |-> b, s |-> STAT, part |-> "first", tag |-> "key" ] \in { c \in held : c.b \notin E } \cup P
  PROVE  Kept'
<1>1. /\ todo = << >> /\ whole /\ plan \in Primes /\ call.for \in { "create", "write", "mount" }
  <2>1. /\ on /\ todo = << >> /\ plan # << >> /\ Head(plan) = "prime" /\ whole
        /\ plan \in CreatePlans \cup WritePlans \cup MountPlans /\ call.for \in { "create", "write", "mount" }
    BY PartIs DEF SystemInv, MeantInv, Facts
  <2> QED BY <2>1, PlanHeads
<1>2. plan' = plan /\ todo' = t /\ UNCHANGED << pre, backend, mem, dev, cache, ichain, files, dirty, state, inode0, whole, on, call, faults >>
  BY DEF Goto, layer, fs, mounts
<1>3. /\ ScriptKept' /\ Puts(todo)' = P /\ Erased(todo)' = E /\ held' = held /\ Future = held
      /\ Future' = { c \in held : c.b \notin E } \cup P
  <2>1. \A p \in P : \A c \in held : Cell(c) = Cell(p) => c.b \in E
    BY DEF Cell
  <2>2. \A p \in P : p.part = "rest" => p.b # First /\ p.s # STAT /\ p.b # dev.erased /\ E = {}
    OBVIOUS
  <2>3. Does(todo', P, E) /\ Whole(todo') /\ call'.for # "format"
    BY <1>1, <1>2
  <2> QED BY <1>1, <1>2, <2>1, <2>2, <2>3, ScriptBegins
<1>4. \A y : Owned(y)' <=> Owned(y)
  BY <1>2, SameFiles
<1>5. \A c : c.b # b => (c \in Future' <=> c \in Future)
  BY <1>3
<1>6. ~ InAvailable(b) /\ b \notin pending
  BY DEF Contains
<1>7. PreInv' /\ available' = available /\ pending' = pending /\ nfree' = nfree
  BY <1>2, PreStays DEF pre
<1>8. ContentKept'
  <2>1. \A c : Owned(c.b) => (c \in Future' <=> c \in Future)
    BY <1>3, <1>5
  <2>2. CleanFit'
    <3>1. \A c \in Future' : c.s # STAT => c \in Future
      BY <1>3
    <3> QED BY <1>2, <1>4, <3>1 DEF Kept, ContentKept, CleanFit
  <2> QED BY <1>2, <2>1, <2>2, ContentDropped DEF Kept
<1>9. PhaseFit'
  <2>1. Newest' = Newest /\ (InFront' <=> InFront) /\ (NeedsBlock' <=> NeedsBlock)
    BY <1>2, SameFiles DEF NeedsBlock
  <2>2. PhaseFit
    BY DEF Kept
  <2> QED BY <1>1, <1>2, <1>7, <2>1, <2>2 DEF PhaseFit
<1>10. \A x \in Block : x # b /\ Will(x, STAT, "first", "key") => Will(x, STAT, "first", "key")'
  <2> SUFFICES ASSUME NEW x \in Block, x # b, Will(x, STAT, "first", "key") PROVE Will(x, STAT, "first", "key")'
    OBVIOUS
  <2> DEFINE c == [ b |-> x, s |-> STAT, part |-> "first", tag |-> "key" ]
  <2>1. c.b = x /\ c \in Future
    BY DEF Will
  <2> HIDE DEF c
  <2>2. c \in Future'
    BY <1>5, <2>1
  <2> QED BY <2>2 DEF Will, c
<1>11. plan \in BlockTaken => call.b \in pending /\ call.b # b /\ call.b \in Block
  BY <1>6, BlocksAre DEF Kept, TakenFit, SystemInv, PlanFit
<1>12. TakenFit'
  <2>1. \A g \in DOMAIN files' : files'[g].open => dev'.erased # LastBlock(g)'
    BY <1>2, SameFiles DEF Kept, TakenFit
  <2>2. (plan \in BlockTaken => call.b \in pending /\ ~ Owned(call.b) /\ dev.erased # call.b /\ Will(call.b, STAT, "first", "key"))'
    BY <1>2, <1>4, <1>7, <1>10, <1>11 DEF Kept, TakenFit
  <2>3. \A c \in held' : c.b \in Used /\ c.s # STAT => Owned(c.b)'
    BY <1>1, <1>3, <1>4 DEF Kept, TakenFit
  <2> QED BY <2>1, <2>2, <2>3 DEF TakenFit
<1>13. ListFit'
  <2>1. Listing' => Listing
    BY <1>1, <1>2, MountedListing DEF Listing
  <2>2. \A x : InAvailable(x) /\ Will(x, STAT, "first", "key") => Will(x, STAT, "first", "key")'
    BY <1>6, <1>10, AvailableAre, BlocksAre
  <2> QED BY <1>2, <1>3, <1>4, <1>7, <2>1, <2>2, ListsStay
<1>14. DrawFit'
  <2>1. (\A y \in Erased(todo) : ~ Owned(y) /\ ~ InAvailable(y))'
    BY <1>3, <1>4, <1>6, <1>7 DEF InAvailable
  <2>2. (\A c \in Puts(todo) : ~ Owned(c.b) /\ ~ InAvailable(c.b) /\ c.s = STAT)'
    BY <1>3, <1>4, <1>6, <1>7 DEF InAvailable
  <2>3. (\A i \in 1 .. Len(todo) :
            /\ plan \in BlockTaken => todo[i].b # call.b
            /\ todo[i].op = "push" => /\ i = Len(todo) /\ ~ IsFull /\ ~ Contains(todo[i].b)
                                      /\ ~ Owned(todo[i].b) /\ Will(todo[i].b, STAT, "first", "key")
            /\ plan # PlanP => todo[i].op # "lists")'
    <3> SUFFICES ASSUME NEW i \in 1 .. Len(todo')
                 PROVE (/\ plan \in BlockTaken => todo[i].b # call.b
                        /\ todo[i].op = "push" => /\ i = Len(todo) /\ ~ IsFull /\ ~ Contains(todo[i].b)
                                                  /\ ~ Owned(todo[i].b) /\ Will(todo[i].b, STAT, "first", "key")
                        /\ plan # PlanP => todo[i].op # "lists")'
      OBVIOUS
    <3>1. i \in 1 .. Len(t) /\ t[i].b = b /\ t[i].op # "lists"
      BY <1>2
    <3>2. (~ IsFull /\ ~ Contains(b))'
      BY <1>7 DEF IsFull, Contains, InAvailable
    <3>3. t[i].op = "push" => i = Len(t) /\ (~ Owned(b) /\ Will(b, STAT, "first", "key"))'
      BY <1>3, <1>4, <3>1 DEF Will
    <3>4. (todo[i].b = b)'
      BY <1>2, <3>1
    <3> QED BY <1>2, <1>11, <3>1, <3>2, <3>3, <3>4
  <2>4. plan' \in Primes /\ plan' \notin { PlanE, PlanIFAE, PlanT }
    BY <1>1, <1>2, PlanKinds
  <2> QED BY <2>1, <2>2, <2>3, <2>4 DEF DrawFit
<1>15. AwayFit' /\ FutureFit'
  BY <1>1, <1>2 DEF AwayFit, Primed, FutureFit
<1> QED BY <1>3, <1>7, <1>8, <1>9, <1>12, <1>13, <1>14, <1>15 DEF Kept

(* The four ways a file can hold a block, and the table.                   *)
LEMMA OwnedHolds ==
  ASSUME SystemInv, Kept, todo = << >>, NEW b \in Block, Owned(b)
  PROVE  Keyed(b) /\ (dirty = 0 => ~ Unallocated(b))
<1>1. Future = held
  <2>1. Puts(<< >>) = {} /\ Erased(<< >>) = {}
    BY DoesNone DEF Does
  <2>2. After(todo) = held
    BY <2>1 DEF After
  <2> QED BY <2>2 DEF Future
<1>2. Keyed(b)
  BY <1>1 DEF Kept, ContentKept, OwnedFit, Will, Keyed, Holds
<1>3. CASE TableBlock(b)
  <2>1. Will(b, INIT, "spare", "inode0") \/ Will(b, INIT, "spare", "inode")
    BY <1>3 DEF Kept, ContentKept, EntriesFit
  <2> QED BY <1>1, <1>2, <2>1 DEF Will, Unallocated, IsInode, IsInode0, Holds
<1>4. ASSUME dirty = 0, NEW f \in Live, InChain(f, b) PROVE ~ Unallocated(b)
  <2>1. files[f].sector # INIT /\ FileFit(files[f])
    BY <1>4 DEF Kept, ContentKept, DirtyFit, Live, SystemInv, MeantInv, FilesFit, TableFit
  <2> DEFINE ch == files[f].chain
  <2>2. IsList(ch) /\ Len(ch) \in Nat /\ files[f].sector \in INIT .. LastSector
    BY <2>1, ListLen DEF FileFit
  <2>3. PICK i \in 1 .. Len(ch) : ch[i] = b
    BY <1>4 DEF InChain
  <2>4. INIT \in 1 .. LastSector /\ INIT \in Before(files[f].sector)
    BY <2>1, <2>2, LastSectorIs DEF Before, INIT, TAIL
  <2>5. << b, INIT >> \in StoredSectors(f)
    <3>1. CASE i = Len(ch)
      BY <2>3, <2>4, <3>1 DEF StoredSectors
    <3>2. CASE i # Len(ch)
      <4>1. i \in 1 .. Len(ch) - 1
        BY <2>2, <3>2
      <4> QED BY <2>3, <2>4, <4>1 DEF StoredSectors
    <3> QED BY <3>1, <3>2
  <2> DEFINE p == << b, INIT >>
  <2>6. p[1] = b /\ p[2] = INIT /\ p \in StoredSectors(f)
    BY <2>5
  <2> HIDE DEF p
  <2>7. Will(p[1], p[2], "spare", "file")
    BY <2>6 DEF Kept, ContentKept, StoredFit
  <2> QED BY <1>1, <2>6, <2>7 DEF Will, Unallocated, IsFileBlock, Holds
<1> QED BY <1>2, <1>3, <1>4 DEF Owned

LEMMA DrawKept ==
  ASSUME Trusted, SystemInv, SystemInv', Kept, NEW b \in Block, Draw(b)
  PROVE  Kept'
<1>1. /\ NextPart("prime") /\ ~ IsFull /\ b # 0 /\ ~ Contains(b) /\ b \notin Bad
      /\ UNCHANGED << pre, backend, layer, fs, mounts, call, faults >>
  BY DEF Draw, Drawable, Trusted
<1>2. /\ todo = << >> /\ whole /\ plan \in Primes
  <2>1. /\ on /\ todo = << >> /\ plan # << >> /\ Head(plan) = "prime" /\ whole
        /\ plan \in CreatePlans \cup WritePlans \cup MountPlans
    BY <1>1, PartIs DEF SystemInv, MeantInv, Facts
  <2> QED BY <2>1, PlanHeads
<1>3. dirty = 0
  <2>1. plan \in BlockTaken \cup MountPlans
    BY <1>2 DEF Primes, BlockTaken, MountPlans
  <2> QED BY <2>1 DEF Kept, PhaseFit
<1>4. ~ Keyed(b) \/ Unallocated(b) => ~ Owned(b)
  BY <1>2, <1>3, OwnedHolds
<1> DEFINE o == Op("probe", b, 0, "", "")  e == Op("erase", b, 0, "", "")  q == Op("open", b, STAT, "", "")
           w == Op("write", b, STAT, "first", "key")  l == Op("push", b, 0, "", "")
           N == {}
<1>5. o.op = "probe" /\ o.b = b
  BY DEF Op
<1>6. e.op = "erase" /\ e.b = b
  BY DEF Op
<1>7. q.op = "open" /\ q.b = b
  BY DEF Op
<1>8. w.op = "write" /\ w.b = b
  BY DEF Op
<1>9. w.s = STAT /\ w.part = "first"
  BY DEF Op
<1>10. w.tag = "key"
  BY DEF Op
<1>11. l.op = "push" /\ l.b = b
  BY DEF Op
<1>12. Probe(b) = << o >> /\ Erase(b) = << e >> /\ Statistics(b, "key") = << q >> \o << w >> /\ Listed(b) = << l >>
  BY DEF Probe, Erase, Statistics, Open, Write, Listed
<1> HIDE DEF o, e, q, w, l
<1> DEFINE c == [ b |-> b, s |-> STAT, part |-> "first", tag |-> "key" ]
<1>13. Content(w) = c /\ c.b = b /\ c.s = STAT /\ c.part = "first"
  BY <1>8, <1>9, <1>10 DEF Content
<1>14. N = {}
  OBVIOUS
<1> HIDE DEF c, N
<1>15. /\ Does(<< o >>, N, N) /\ Does(<< e >>, N, { b }) /\ Does(<< q >>, N, N) /\ Does(<< w >>, { c }, N) /\ Does(<< l >>, N, N)
  BY <1>5, <1>6, <1>7, <1>8, <1>11, <1>13, <1>14, EffectsOne DEF Does, Programs
<1>16. ASSUME NEW t, Goto(plan, t), NEW P, NEW E, Does(t, P, E), Whole(t), E \in { {}, { b } }, E = {} => P = {},
              P \in { {}, { c } },
              ~ Keyed(b) \/ (Keyed(b) /\ Unallocated(b)) \/ (\A i \in 1 .. Len(t) : t[i].op # "push"), E # {} <=> ~ Keyed(b), P # {} <=> ~ Keyed(b),
              \A i \in 1 .. Len(t) : t[i].b = b /\ t[i].op # "lists" /\ (t[i].op = "push" => i = Len(t))
       PROVE  Kept'
  <2>1. E # {} => ~ Owned(b)
    BY <1>4, <1>16
  <2>2. \A d \in P : d.b = b /\ d.s = STAT /\ d.part = "first"
    BY <1>13, <1>16
  <2>3. Keyed(b) \/ ~ Keyed(b) => c \in { d \in held : d.b \notin E } \cup P
    <3>1. CASE Keyed(b)
      BY <1>13, <1>16, <3>1 DEF Keyed, Holds, c
    <3>2. CASE ~ Keyed(b)
      BY <1>16, <3>2
    <3> QED BY <3>1, <3>2
  <2>4. \A i \in 1 .. Len(t) :
           /\ t[i].b = b /\ t[i].op # "lists"
           /\ t[i].op = "push" =>
                /\ i = Len(t) /\ ~ Owned(b)
                /\ [ b |-> b, s |-> STAT, part |-> "first", tag |-> "key" ] \in { d \in held : d.b \notin E } \cup P
    BY <1>4, <1>16, <2>3 DEF c
  <2> QED BY <1>1, <1>16, <2>1, <2>2, <2>4, DrawnKept
<1> DEFINE H == { o, e, q, w }
<1>20. Within(<< o >>, H) /\ Within(<< e >>, H) /\ Within(<< q >>, H) /\ Within(<< w >>, H)
  BY WithinOne
<1>21. ASSUME NEW v, Within(v, H)
       PROVE  \A i \in 1 .. Len(v \o << l >>) :
                /\ (v \o << l >>)[i].b = b /\ (v \o << l >>)[i].op # "lists"
                /\ (v \o << l >>)[i].op = "push" => i = Len(v \o << l >>)
  <2> DEFINE u == v \o << l >>
  <2>1. IsList(v) /\ Len(v) \in Nat /\ \A i \in 1 .. Len(v) : v[i] \in H
    BY <1>21, ListLen DEF Within
  <2>2. Len(u) = Len(v) + 1 /\ (\A i \in 1 .. Len(v) : u[i] = v[i]) /\ u[Len(v) + 1] = l
    BY <2>1, ListSnoc
  <2>3. \A x \in H : x.b = b /\ x.op # "lists" /\ x.op # "push"
    BY <1>5, <1>6, <1>7, <1>8
  <2> HIDE DEF u, H
  <2>4. ASSUME NEW i \in 1 .. Len(u) PROVE u[i].b = b /\ u[i].op # "lists" /\ (u[i].op = "push" => i = Len(u))
    <3>1. i \in 1 .. Len(v) \/ i = Len(v) + 1
      BY <2>1, <2>2
    <3> QED BY <1>11, <2>1, <2>2, <2>3, <3>1
  <2> QED BY <2>4 DEF u
<1> HIDE DEF H
<1>17. CASE ~ Keyed(b)
  <2> DEFINE t1 == << o >> \o << e >>  t2 == << q >> \o << w >>  t3 == t1 \o t2  t == t3 \o << l >>
  <2>1. Goto(plan, t)
    <3>1. Goto(plan, Probe(b) \o Erase(b) \o Statistics(b, "key") \o Listed(b))
      BY <1>1, <1>17 DEF Draw, Drawn
    <3>2. Probe(b) \o Erase(b) \o Statistics(b, "key") \o Listed(b) = t
      BY <1>12
    <3> QED BY <3>1, <3>2
  <2>2. Does(t1, N \cup N, N \cup { b })
    <3>1. Cross(N, { b }, N)
      BY <1>14 DEF Cross
    <3> QED BY <1>15, <3>1, DoesConcat
  <2>3. Does(t2, N \cup { c }, N \cup N)
    <3>1. Cross(N, N, { c })
      BY <1>14 DEF Cross
    <3> QED BY <1>15, <3>1, DoesConcat
  <2>4. N \cup N = N /\ N \cup { b } = { b } /\ N \cup { c } = { c } /\ { b } \cup N = { b } /\ { c } \cup N = { c }
    BY <1>14
  <2>5. Does(t1, N, { b }) /\ Does(t2, { c }, N)
    BY <2>2, <2>3, <2>4
  <2> HIDE DEF t1, t2
  <2>6. Does(t3, { c }, { b })
    <3>1. Cross(N, N, { c })
      BY <1>14 DEF Cross
    <3>2. Does(t3, N \cup { c }, { b } \cup N)
      BY <2>5, <3>1, DoesConcat
    <3> QED BY <2>4, <3>2
  <2> HIDE DEF t3
  <2>7. Does(t, { c }, { b })
    <3>1. Cross({ c }, N, N)
      BY <1>14 DEF Cross
    <3>2. Does(t, { c } \cup N, { b } \cup N)
      BY <1>15, <2>6, <3>1, DoesConcat
    <3> QED BY <2>4, <3>2
  <2>8. Whole(t)
    <3>1. Whole(Probe(b) \o Erase(b) \o Statistics(b, "key") \o Listed(b))
      BY DrawWhole
    <3> QED BY <1>12, <3>1 DEF t1, t2, t3
  <2>9. Within(t3, H)
    BY <1>20, WithinConcat DEF t1, t2, t3
  <2>10. \A i \in 1 .. Len(t) : t[i].b = b /\ t[i].op # "lists" /\ (t[i].op = "push" => i = Len(t))
    BY <1>21, <2>9
  <2> HIDE DEF t
  <2> DEFINE P == { c }  E == { b }
  <2>11. Does(t, P, E) /\ E \in { {}, { b } } /\ (E = {} => P = {}) /\ P \in { {}, { c } } /\ E # {} /\ P # {}
    BY <2>7
  <2> HIDE DEF P, E
  <2> QED BY <1>16, <1>17, <2>1, <2>8, <2>10, <2>11
<1>18. CASE Keyed(b) /\ Unallocated(b)
  <2> DEFINE t == << o >> \o << l >>
  <2>1. Goto(plan, t) /\ Whole(t)
    <3>1. Goto(plan, Probe(b) \o Listed(b)) /\ Whole(Probe(b) \o Listed(b))
      BY <1>1, <1>18, DrawWhole DEF Draw, Drawn
    <3> QED BY <1>12, <3>1
  <2>2. Does(t, N, N)
    <3>1. Cross(N, N, N) /\ N \cup N = N
      BY <1>14 DEF Cross
    <3>2. Does(t, N \cup N, N \cup N)
      BY <1>15, <3>1, DoesConcat
    <3> QED BY <3>1, <3>2
  <2>5. \A i \in 1 .. Len(t) : t[i].b = b /\ t[i].op # "lists" /\ (t[i].op = "push" => i = Len(t))
    BY <1>20, <1>21
  <2> HIDE DEF t
  <2> QED BY <1>14, <1>16, <1>18, <2>1, <2>2, <2>5
<1>19. CASE Keyed(b) /\ ~ Unallocated(b)
  <2> DEFINE t == << o >>
  <2>1. Goto(plan, t) /\ Whole(t)
    <3>1. Goto(plan, Probe(b)) /\ Whole(Probe(b))
      BY <1>1, <1>19, DrawWhole DEF Draw, Drawn
    <3> QED BY <1>12, <3>1
  <2>2. Does(t, N, N) /\ Len(t) = 1 /\ t[1] = o
    BY <1>15
  <2> HIDE DEF t
  <2>3. \A i \in 1 .. Len(t) : t[i].b = b /\ t[i].op # "lists" /\ t[i].op # "push"
    <3> SUFFICES ASSUME NEW i \in 1 .. Len(t) PROVE t[i].b = b /\ t[i].op # "lists" /\ t[i].op # "push"
      OBVIOUS
    <3>1. i = 1
      BY <2>2
    <3> QED BY <1>5, <2>2, <3>1
  <2> QED BY <1>14, <1>16, <1>19, <2>1, <2>2, <2>3
<1> QED BY <1>17, <1>18, <1>19

-----------------------------------------------------------------------------
(* The parts of calls.                                                     *)

LEMMA MountedParts ==
  ASSUME SystemInv, Kept, NEW part, NextPart(part)
  PROVE  /\ on /\ todo = << >> /\ plan # << >> /\ Head(plan) = part /\ whole /\ inode0 = First
         /\ plan \in CreatePlans \cup WritePlans \cup MountPlans /\ call.for \in { "create", "write", "mount" }
         /\ plan \in CreatePlans => call.for = "create" /\ state = "mounted" /\ call.f = Newest
         /\ plan \in WritePlans => call.for = "write" /\ state = "mounted" /\ call.f \in DOMAIN files
         /\ Future = held
         /\ TableFit /\ FilesFit /\ PreInv /\ PhaseFit /\ TakenFit /\ ListFit /\ AwayFit
<1>1. /\ on /\ todo = << >> /\ plan # << >> /\ Head(plan) = part /\ whole /\ inode0 = First
      /\ plan \in CreatePlans \cup WritePlans \cup MountPlans /\ call.for \in { "create", "write", "mount" }
  BY PartIs DEF SystemInv, MeantInv, Facts
<1>2. Future = held
  <2>1. Puts(<< >>) = {} /\ Erased(<< >>) = {}
    BY DoesNone DEF Does
  <2>2. After(todo) = held
    BY <1>1, <2>1 DEF After
  <2> QED BY <2>2 DEF Future
<1>3. plan \in CreatePlans => plan \notin WritePlans \cup MountPlans
  BY PlansAre DEF CreatePlans, EntryPlans, InodePlans, WritePlans, MountPlans
<1>4. plan \in WritePlans => plan \notin CreatePlans \cup MountPlans
  BY PlansAre DEF CreatePlans, EntryPlans, InodePlans, WritePlans, MountPlans
<1>5. PreInv /\ PhaseFit /\ TakenFit /\ ListFit /\ AwayFit /\ TableFit /\ FilesFit
  BY DEF Kept, SystemInv, MeantInv
<1>6. /\ plan \in CreatePlans => call.for = "create" /\ call.f = Newest
      /\ plan \in WritePlans => call.for = "write" /\ call.f \in DOMAIN files
  BY <1>1, <1>3, <1>4 DEF SystemInv, PlanFit
<1>7. call.for \in { "create", "write" } => state = "mounted"
  BY <1>5 DEF PhaseFit
<1> QED BY <1>1, <1>2, <1>5, <1>6, <1>7

(* The blocks on the list are free.                                        *)
LEMMA AvailableFree ==
  ASSUME SystemInv, Kept, todo = << >>, state = "mounted", whole, NEW b, InAvailable(b)
  PROVE  /\ b \in Used /\ ~ Owned(b) /\ Keyed(b) /\ Unallocated(b)
         /\ \A c \in held : c.b = b => c.s = STAT
<1>1. b \in Used /\ b \in Block
  BY AvailableAre, BlocksAre
<1>2. Listing
  BY MountedListing
<1>3. ~ Owned(b) /\ Will(b, STAT, "first", "key")
  BY <1>1, <1>2 DEF Kept, ListFit
<1>4. Future = held
  <2>1. Puts(<< >>) = {} /\ Erased(<< >>) = {}
    BY DoesNone DEF Does
  <2>2. After(todo) = held
    BY <2>1 DEF After
  <2> QED BY <2>2 DEF Future
<1>5. \A c \in held : c.b = b => c.s = STAT
  BY <1>1, <1>3, <1>4 DEF Kept, ContentKept, CleanFit
<1>6. ASSUME NEW tag PROVE ~ Holds(b, INIT, "spare", tag)
  <2> SUFFICES ASSUME Holds(b, INIT, "spare", tag) PROVE FALSE
    OBVIOUS
  <2> DEFINE c == [ b |-> b, s |-> INIT, part |-> "spare", tag |-> tag ]
  <2>1. c \in held /\ c.b = b /\ c.s = INIT
    BY DEF Holds
  <2> HIDE DEF c
  <2> QED BY <1>5, <2>1 DEF INIT, STAT
<1>7. Unallocated(b)
  BY <1>6 DEF Unallocated, IsInode, IsInode0, IsFileBlock
<1> QED BY <1>1, <1>3, <1>4, <1>5, <1>7 DEF Will, Keyed, Holds

LEMMA AllocateKept ==
  ASSUME Trusted, SystemInv, SystemInv', Kept, Allocate
  PROVE  Kept'
<1>1. NextPart("allocate") /\ UNCHANGED << backend, layer, fs, mounts, faults >>
  BY DEF Allocate
<1>2. /\ on /\ todo = << >> /\ plan # << >> /\ Head(plan) = "allocate" /\ whole /\ Future = held
      /\ plan \in CreatePlans \cup WritePlans \cup MountPlans
      /\ plan \in CreatePlans => call.for = "create" /\ state = "mounted"
      /\ plan \in WritePlans => call.for = "write" /\ state = "mounted"
      /\ PreInv /\ PhaseFit /\ TakenFit /\ ListFit /\ AwayFit
  BY <1>1, MountedParts
<1>3. plan \in { PlanAE, PlanAIFAE, PlanAT }
  BY <1>2, PlanHeads
<1>4. state = "mounted" /\ call.for \in { "create", "write" } /\ dirty = 0 /\ ~ Primed
  <2>1. plan \in CreatePlans \cup WritePlans
    BY <1>3 DEF CreatePlans, EntryPlans, InodePlans, WritePlans
  <2>2. plan \notin Primes /\ plan \notin { PlanE, PlanIFAE, PlanT }
    BY <1>3, PlansAre DEF Primes
  <2>3. dirty = 0
    BY <1>2, <1>3 DEF PhaseFit
  <2> QED BY <1>2, <2>1, <2>2, <2>3 DEF Primed
<1>5. /\ todo' = << >>
      /\ UNCHANGED << backend, mem, dev, cache, ichain, files, dirty, state, whole, on >>
      /\ call'.for = call.for /\ call'.f = call.f
  <2>1. call'.for = call.for /\ call'.f = call.f
    <3>1. CASE call' = call
      BY <3>1
    <3>2. CASE call' = [ call EXCEPT !.b = Head(available) ]
      BY <3>2, CallIs DEF SystemInv
    <3> QED BY <3>1, <3>2 DEF Allocate
  <2> QED BY <1>1, <2>1 DEF Allocate, Goto, layer, fs, mounts
<1>6. /\ ScriptKept' /\ ContentKept' /\ FutureFit' /\ held' = held /\ Future' = held
      /\ Puts(todo)' = {} /\ Erased(todo)' = {}
      /\ \A b : Owned(b)' <=> Owned(b)
      /\ \A b, s, part, tag : Will(b, s, part, tag)' <=> Will(b, s, part, tag)
  <2>1. Does(todo', {}, {}) /\ Whole(todo') /\ call'.for # "format"
    BY <1>4, <1>5, DoesNone, WholeNone
  <2> QED BY <1>2, <1>5, <2>1, QuietBegins
<1>7. Newest' = Newest /\ (InFront' <=> InFront) /\ (NeedsBlock' <=> NeedsBlock) /\ Len(todo') = 0 /\ Len(todo) = 0
  BY <1>2, <1>5, SameFiles, ListNone DEF NeedsBlock
<1>8. \A g \in DOMAIN files' : files'[g].open => dev'.erased # LastBlock(g)'
  BY <1>2, <1>5, SameFiles DEF TakenFit
<1>9. Listing
  BY <1>4 DEF Listing
<1>10. CASE IsEmpty
  <2>1. plan' = << >> /\ UNCHANGED << pre, call >>
    BY <1>10 DEF Allocate, Goto
  <2>2. PreInv' /\ available' = available /\ pending' = pending
    BY <2>1, PreStays
  <2>3. plan' \notin Primes \cup { PlanE, PlanIFAE, PlanT, PlanAE, PlanAIFAE, PlanAT } \cup BlockTaken \cup InodePlans \cup EntryPlans \cup WritePlans \cup MountPlans
    BY <2>1, PlanKinds, PlansAre
  <2>4. available = << >> /\ \A b : ~ InAvailable(b)
    <3>1. Len(available) = 0 /\ IsList(available)
      BY <1>2, <1>10 DEF PreInv, SlotsConserved, PreTypeOK, IsEmpty, IsList
    <3> QED BY <3>1, ListLen DEF InAvailable
  <2>5. PhaseFit'
    BY <1>2, <1>4, <1>5, <1>7, <2>1, <2>2, <2>3, <2>4 DEF PhaseFit
  <2>6. TakenFit'
    BY <1>8, <2>3 DEF TakenFit
  <2>7. ListFit'
    BY <1>5, <1>6, <1>9, <2>2, ListsStay
  <2>8. DrawFit'
    BY <1>5, <1>6, <1>7, <2>3 DEF DrawFit
  <2>9. AwayFit'
    <3>1. \A b : ~ InAvailable(b)'
      BY <2>2, <2>4, Availables
    <3>2. (todo = << >> => (cache.open => ~ InAvailable(cache.block)) /\ ~ InAvailable(dev.erased))'
      BY <1>5, <2>2, <2>4 DEF InAvailable
    <3> QED BY <1>5, <3>2 DEF AwayFit
  <2> QED BY <1>6, <2>2, <2>5, <2>6, <2>7, <2>8, <2>9 DEF Kept
<1>11. CASE ~ IsEmpty
  <2>0. PICK a : a = Head(available)
    OBVIOUS
  <2>1. Pop /\ call' = [ call EXCEPT !.b = a ] /\ plan' = IF n' = 0 THEN << "prime" >> \o Tail(plan) ELSE Tail(plan)
    BY <1>11, <2>0 DEF Allocate, Goto
  <2>2. IsList(available) /\ available # << >>
    <3>1. IsList(available) /\ Len(available) # 0
      BY <1>2, <1>11 DEF PreInv, SlotsConserved, PreTypeOK, IsEmpty, IsList
    <3> QED BY <3>1, ListNone
  <2>3. PreInv' /\ available' = Tail(available) /\ pending' = pending \cup { a }
    BY <1>2, <2>0, <2>1, <2>2, PopInv DEF Pop
  <2>4. InAvailable(a) /\ \A b : InAvailable(b)' => InAvailable(b)
    <3>1. /\ Len(available') = Len(available) - 1 /\ Len(available) \in Nat \ {0}
          /\ (\A i \in 1 .. Len(available) - 1 : available'[i] = available[i + 1]) /\ a = available[1]
      BY <2>0, <2>2, <2>3, ListTail
    <3>2. \A i \in 1 .. Len(available') : i \in 1 .. Len(available) - 1 /\ i + 1 \in 1 .. Len(available)
      BY <3>1
    <3>3. 1 \in 1 .. Len(available)
      BY <3>1
    <3> QED BY <3>1, <3>2, <3>3 DEF InAvailable
  <2>5. call'.b = a
    BY <2>1, CallIs DEF SystemInv
  <2>6. /\ a \in Used /\ a \in Block /\ ~ Owned(a) /\ Keyed(a) /\ Unallocated(a)
    BY <1>2, <1>4, <2>4, AvailableFree, BlocksAre
  <2>7. (cache.open => cache.block # a) /\ dev.erased # a
    BY <1>2, <1>4, <2>4 DEF AwayFit
  <2>8. /\ plan' \in BlockTaken
        /\ plan' \in Primes \/ plan' \in { PlanE, PlanIFAE, PlanT }
        /\ plan' \in EntryPlans <=> plan \in EntryPlans
        /\ plan' \in InodePlans => plan \in InodePlans
        /\ plan' \in WritePlans => plan \in WritePlans
        /\ plan' # PlanP
    <3>1. \/ plan = PlanAE /\ plan' \in { PlanE, PlanPE }
          \/ plan = PlanAIFAE /\ plan' \in { PlanIFAE, PlanPIFAE }
          \/ plan = PlanAT /\ plan' \in { PlanT, PlanPT }
      BY <1>3, <2>1, PlansAre, PlansPrimed
    <3> QED BY <3>1, PlansAre DEF BlockTaken, Primes, EntryPlans, InodePlans, WritePlans
  <2>9. plan \in EntryPlans => plan = PlanAE
    BY <1>3, PlansAre DEF EntryPlans
  <2>10. PhaseFit'
    BY <1>2, <1>4, <1>5, <1>7, <2>2, <2>8 DEF PhaseFit
  <2>11. TakenFit'
    <3>1. Will(a, STAT, "first", "key")
      BY <1>2, <2>6 DEF Will, Keyed, Holds
    <3>4. ~ Owned(a)' /\ Will(a, STAT, "first", "key")' /\ a \in pending' /\ dev'.erased # a
      BY <1>5, <1>6, <2>3, <2>6, <2>7, <3>1
    <3>2. (call.b \in pending /\ ~ Owned(call.b) /\ dev.erased # call.b /\ Will(call.b, STAT, "first", "key"))'
      BY <2>5, <3>4
    <3>3. \A c \in held' : c.b \in Used /\ c.s # STAT => Owned(c.b)'
      BY <1>2, <1>6 DEF Kept, ContentKept, CleanFit
    <3> QED BY <1>8, <3>2, <3>3 DEF TakenFit
  <2>12. ListFit'
    <3>1. \A b \in Block : InAvailable(b)' => ~ Owned(b)' /\ Will(b, STAT, "first", "key")'
      BY <1>2, <1>6, <1>9, <2>4 DEF ListFit
    <3>2. \A b \in pending' : b \in Used /\ Unallocated(b)' /\ ~ (cache'.open /\ cache'.block = b)
      <4> SUFFICES ASSUME NEW b \in pending' PROVE b \in Used /\ Unallocated(b)' /\ ~ (cache'.open /\ cache'.block = b)
        OBVIOUS
      <4>1. b \in Used /\ Unallocated(b) /\ ~ (cache.open /\ cache.block = b)
        BY <1>2, <2>3, <2>6, <2>7 DEF ListFit
      <4>2. Unallocated(b)'
        BY <1>6, <4>1 DEF Unallocated, IsInode, IsInode0, IsFileBlock, Holds
      <4> QED BY <1>5, <4>1, <4>2
    <3> QED BY <3>1, <3>2 DEF ListFit
  <2>13. DrawFit'
    BY <1>4, <1>5, <1>6, <1>7 DEF DrawFit
  <2>14. AwayFit'
    BY <2>8 DEF AwayFit, Primed
  <2> QED BY <1>6, <2>3, <2>10, <2>11, <2>12, <2>13, <2>14 DEF Kept
<1> QED BY <1>10, <1>11

(* A sector of a file, as it is programmed.                                *)
Part(b, s, part, tag) == [ b |-> b, s |-> s, part |-> part, tag |-> tag ]
SectorParts(b, s, tag, both) ==
  { Part(b, s, "first", tag), Part(b, s, "spare", tag) } \cup (IF both THEN { Part(b, s, "rest", tag) } ELSE {})

PlainOps == { "open", "see", "close", "write", "spare", "erase" }
Plain(t) == IsList(t) /\ \A i \in 1 .. Len(t) : t[i].op \in PlainOps

LEMMA PlainOne ==
  ASSUME NEW y, y.op \in PlainOps
  PROVE  Plain(<< y >>)
<1>1. IsList(<< y >>) /\ Len(<< y >>) = 1 /\ << y >>[1] = y
  BY ListOne
<1> DEFINE u == << y >>
<1>2. IsList(u) /\ Len(u) = 1 /\ u[1] = y
  BY <1>1
<1> HIDE DEF u
<1>3. Plain(u)
  BY <1>2 DEF Plain
<1> QED BY <1>3 DEF u

LEMMA PlainConcat ==
  ASSUME NEW s, NEW t, Plain(s), Plain(t)
  PROVE  Plain(s \o t)
<1> DEFINE H == { y \in { s[i] : i \in 1 .. Len(s) } \cup { t[i] : i \in 1 .. Len(t) } : y.op \in PlainOps }
<1>1. Within(s, H) /\ Within(t, H)
  BY DEF Within, Plain
<1>2. \A y \in H : y.op \in PlainOps
  OBVIOUS
<1> HIDE DEF H
<1>3. Within(s \o t, H)
  BY <1>1, WithinConcat
<1> QED BY <1>2, <1>3 DEF Within, Plain

LEMMA PlainFlat ==
  ASSUME NEW m \in Nat, NEW g, g = [ i \in 1 .. m |-> g[i] ], \A i \in 1 .. m : Plain(g[i])
  PROVE  Plain(Flat(g))
<1> DEFINE K == UNION { { g[i][j] : j \in 1 .. Len(g[i]) } : i \in 1 .. m }
           H == { y \in K : y.op \in PlainOps }
<1>1. ASSUME NEW i \in 1 .. m PROVE Within(g[i], H)
  <2>1. IsList(g[i]) /\ \A j \in 1 .. Len(g[i]) : g[i][j].op \in PlainOps
    BY DEF Plain
  <2>2. \A j \in 1 .. Len(g[i]) : g[i][j] \in K
    OBVIOUS
  <2> HIDE DEF K
  <2> QED BY <2>1, <2>2 DEF Within
<1>2. \A y \in H : y.op \in PlainOps
  OBVIOUS
<1> HIDE DEF H
<1>3. Within(Flat(g), H)
  BY <1>1, WithinFlat
<1> QED BY <1>2, <1>3 DEF Within, Plain

(* One part of a script after the other, when nothing is erased.           *)
LEMMA DoesAfter ==
  ASSUME NEW s, NEW P, Does(s, P, {}), NEW t, NEW Q, Does(t, Q, {}), \A c \in P, d \in Q : Cell(c) # Cell(d)
  PROVE  Does(s \o t, P \cup Q, {})
<1> DEFINE N == {}
<1>1. Does(s, P, N) /\ Does(t, Q, N) /\ Cross(P, N, Q) /\ N \cup N = N
  BY DEF Cross
<1> HIDE DEF N
<1>2. Does(s \o t, P \cup Q, N \cup N)
  BY <1>1, DoesConcat
<1>3. Does(s \o t, P \cup Q, N)
  BY <1>1, <1>2
<1> QED BY <1>3 DEF N

LEMMA OpDoes ==
  ASSUME NEW b, NEW s, NEW part, NEW tag
  PROVE  /\ Does(Open(b, s), {}, {}) /\ Plain(Open(b, s))
         /\ Does(See(b, s), {}, {}) /\ Plain(See(b, s))
         /\ Does(Close, {}, {}) /\ Plain(Close)
         /\ Does(Erase(b), {}, { b }) /\ Plain(Erase(b))
         /\ Does(Write(b, s, part, tag), { Part(b, s, part, tag) }, {}) /\ Plain(Write(b, s, part, tag))
         /\ Does(Spare(b, s, tag), { Part(b, s, "spare", tag) }, {}) /\ Plain(Spare(b, s, tag))
<1>1. Does(Open(b, s), {}, {}) /\ Plain(Open(b, s))
  <2> DEFINE y == Op("open", b, s, "", "")
  <2>1. y.op = "open"
    BY DEF Op
  <2> HIDE DEF y
  <2>2. ~ Programs(y) /\ y.op # "erase" /\ y.op \in PlainOps
    BY <2>1 DEF Programs, PlainOps
  <2>3. Plain(<< y >>)
    BY <2>2, PlainOne
  <2>4. Does(<< y >>, {}, {})
    BY <2>2, EffectsOne DEF Does
  <2> QED BY <2>3, <2>4 DEF y, Open
<1>2. Does(See(b, s), {}, {}) /\ Plain(See(b, s))
  <2> DEFINE y == Op("see", b, s, "", "")
  <2>1. y.op = "see"
    BY DEF Op
  <2> HIDE DEF y
  <2>2. ~ Programs(y) /\ y.op # "erase" /\ y.op \in PlainOps
    BY <2>1 DEF Programs, PlainOps
  <2>3. Plain(<< y >>)
    BY <2>2, PlainOne
  <2>4. Does(<< y >>, {}, {})
    BY <2>2, EffectsOne DEF Does
  <2> QED BY <2>3, <2>4 DEF y, See
<1>3. Does(Close, {}, {}) /\ Plain(Close)
  <2> DEFINE y == Op("close", None, 0, "", "")
  <2>1. y.op = "close"
    BY DEF Op
  <2> HIDE DEF y
  <2>2. ~ Programs(y) /\ y.op # "erase" /\ y.op \in PlainOps
    BY <2>1 DEF Programs, PlainOps
  <2>3. Plain(<< y >>)
    BY <2>2, PlainOne
  <2>4. Does(<< y >>, {}, {})
    BY <2>2, EffectsOne DEF Does
  <2> QED BY <2>3, <2>4 DEF y, Close
<1>4. Does(Erase(b), {}, { b }) /\ Plain(Erase(b))
  <2> DEFINE y == Op("erase", b, 0, "", "")
  <2>1. y.op = "erase"
    BY DEF Op
  <2>2. y.b = b
    BY DEF Op
  <2> HIDE DEF y
  <2>3. ~ Programs(y) /\ y.op = "erase" /\ y.op \in PlainOps
    BY <2>1 DEF Programs, PlainOps
  <2>4. Plain(<< y >>)
    BY <2>3, PlainOne
  <2>5. Does(<< y >>, {}, { b })
    BY <2>2, <2>3, EffectsOne DEF Does
  <2> QED BY <2>4, <2>5 DEF y, Erase
<1>5. ASSUME NEW o \in { "write", "spare" }, NEW k
      PROVE  Does(<< Op(o, b, s, k, tag) >>, { Part(b, s, k, tag) }, {}) /\ Plain(<< Op(o, b, s, k, tag) >>)
  <2> DEFINE y == Op(o, b, s, k, tag)
  <2>1. y.op = o
    BY DEF Op
  <2>2. Content(y) = Part(b, s, k, tag)
    BY OpFields DEF Content, Part
  <2> HIDE DEF y
  <2>3. Programs(y) /\ y.op # "erase" /\ y.op \in PlainOps
    BY <2>1 DEF Programs, PlainOps
  <2>4. Does(<< y >>, { Part(b, s, k, tag) }, {}) /\ Plain(<< y >>)
    BY <2>2, <2>3, EffectsOne, PlainOne DEF Does
  <2> QED BY <2>4 DEF y
<1>6. Does(Write(b, s, part, tag), { Part(b, s, part, tag) }, {}) /\ Plain(Write(b, s, part, tag))
  <2> DEFINE o == "write"
  <2>1. o \in { "write", "spare" }
    OBVIOUS
  <2> HIDE DEF o
  <2>2. Does(<< Op(o, b, s, part, tag) >>, { Part(b, s, part, tag) }, {}) /\ Plain(<< Op(o, b, s, part, tag) >>)
    BY <1>5, <2>1
  <2> QED BY <2>2 DEF Write, o
<1>7. Does(Spare(b, s, tag), { Part(b, s, "spare", tag) }, {}) /\ Plain(Spare(b, s, tag))
  <2> DEFINE o == "spare"  k == "spare"
  <2>1. o \in { "write", "spare" }
    OBVIOUS
  <2> HIDE DEF o, k
  <2>2. Does(<< Op(o, b, s, k, tag) >>, { Part(b, s, k, tag) }, {}) /\ Plain(<< Op(o, b, s, k, tag) >>)
    BY <1>5, <2>1
  <2> QED BY <2>2 DEF Spare, o, k
<1> QED BY <1>1, <1>2, <1>3, <1>4, <1>6, <1>7

LEMMA PartIsIt ==
  ASSUME NEW b, NEW s, NEW part, NEW tag
  PROVE  /\ Part(b, s, part, tag).b = b /\ Part(b, s, part, tag).s = s /\ Part(b, s, part, tag).part = part
         /\ Part(b, s, part, tag).tag = tag /\ Cell(Part(b, s, part, tag)) = << b, s, part >>
BY DEF Part, Cell

LEMMA SectorDoes ==
  ASSUME NEW b, NEW s, NEW tag, NEW both \in BOOLEAN
  PROVE  /\ Does(Sector(b, s, tag, both), SectorParts(b, s, tag, both), {}) /\ Plain(Sector(b, s, tag, both))
         /\ \E y : Ends(Sector(b, s, tag, both), y) /\ y.op = "spare" /\ y.b = b
<1> DEFINE f == Part(b, s, "first", tag)  r == Part(b, s, "rest", tag)  z == Part(b, s, "spare", tag)
           a1 == Open(b, s) \o Write(b, s, "first", tag)
           w == IF both THEN Write(b, s, "rest", tag) ELSE << >>
           R == IF both THEN { r } ELSE {}
           a2 == a1 \o w
           l == Spare(b, s, tag)
<1>1. Cell(f) # Cell(r) /\ Cell(f) # Cell(z) /\ Cell(r) # Cell(z)
  <2>1. Cell(f) = << b, s, "first" >> /\ Cell(r) = << b, s, "rest" >> /\ Cell(z) = << b, s, "spare" >>
    BY PartIsIt
  <2> QED BY <2>1
<1>2. /\ Does(Open(b, s), {}, {}) /\ Plain(Open(b, s)) /\ Does(Write(b, s, "first", tag), { f }, {}) /\ Plain(Write(b, s, "first", tag))
      /\ Does(Write(b, s, "rest", tag), { r }, {}) /\ Plain(Write(b, s, "rest", tag)) /\ Does(l, { z }, {}) /\ Plain(l)
  BY OpDoes
<1>3. Does(w, R, {}) /\ Plain(w)
  <2>1. CASE both
    BY <1>2, <2>1
  <2>2. CASE ~ both
    <3>1. Plain(<< >>) /\ Does(<< >>, {}, {})
      BY ListNone, DoesNone DEF Plain
    <3> QED BY <2>2, <3>1
  <2> QED BY <2>1, <2>2
<1>4. Sector(b, s, tag, both) = a2 \o l /\ SectorParts(b, s, tag, both) = { f, z } \cup R
  BY DEF Sector, SectorParts
<1>5. \A c \in R : c = r
  OBVIOUS
<1>6. \E y : l = << y >> /\ y.op = "spare" /\ y.b = b
  BY OpFields DEF Spare
<1> HIDE DEF f, r, z, w, R, l
<1>7. Does(a1, { f }, {}) /\ Plain(a1)
  <2> DEFINE N == {}
  <2>1. (\A c \in N, d \in { f } : Cell(c) # Cell(d)) /\ Does(Open(b, s), N, {}) /\ N \cup { f } = { f }
    BY <1>2
  <2> HIDE DEF N
  <2>2. Does(a1, N \cup { f }, {})
    BY <1>2, <2>1, DoesAfter
  <2> QED BY <1>2, <2>1, <2>2, PlainConcat
<1> HIDE DEF a1
<1>8. Does(a2, { f } \cup R, {}) /\ Plain(a2)
  <2>1. \A c \in { f }, d \in R : Cell(c) # Cell(d)
    BY <1>1, <1>5
  <2> QED BY <1>3, <1>7, <2>1, DoesAfter, PlainConcat
<1> HIDE DEF a2
<1>9. Does(a2 \o l, ({ f } \cup R) \cup { z }, {}) /\ Plain(a2 \o l)
  <2>1. \A c \in { f } \cup R, d \in { z } : Cell(c) # Cell(d)
    BY <1>1, <1>5
  <2> QED BY <1>2, <1>8, <2>1, DoesAfter, PlainConcat
<1>10. \E y : Ends(a2 \o l, y) /\ y.op = "spare" /\ y.b = b
  <2>1. PICK y : l = << y >> /\ y.op = "spare" /\ y.b = b
    BY <1>6
  <2>2. Ends(l, y) /\ IsList(a2)
    BY <1>8, <2>1, EndsOne DEF Plain
  <2>3. Ends(a2 \o l, y)
    BY <2>2, EndsConcat
  <2> QED BY <2>1, <2>3
<1>11. ({ f } \cup R) \cup { z } = { f, z } \cup R
  OBVIOUS
<1>12. Does(a2 \o l, { f, z } \cup R, {})
  BY <1>9, <1>11
<1> QED BY <1>4, <1>9, <1>10, <1>12

(* Files whose blocks and whose entries stay as they are.                  *)
LEMMA SameChains ==
  ASSUME DOMAIN files' = DOMAIN files, Len(files') = Len(files), ichain' = ichain,
         \A g \in DOMAIN files : files'[g].chain = files[g].chain /\ files'[g].dead = files[g].dead
  PROVE  /\ Live' = Live /\ Newest' = Newest /\ (InFront' <=> InFront) /\ (NeedsBlock' <=> NeedsBlock)
         /\ \A b : (TableBlock(b)' <=> TableBlock(b)) /\ (Owned(b)' <=> Owned(b))
         /\ \A g \in DOMAIN files : \A b : InChain(g, b)' <=> InChain(g, b)
         /\ \A k : EntryBlock(k)' = EntryBlock(k)
         /\ \A g \in DOMAIN files : LastBlock(g)' = LastBlock(g)
         /\ \A c : TableSector(c)' <=> TableSector(c)
         /\ \A g \in DOMAIN files : files'[g].sector = files[g].sector => StoredSectors(g)' = StoredSectors(g)
<1>1. Live' = Live
  BY DEF Live
<1>2. Newest' = Newest /\ (InFront' <=> InFront) /\ (NeedsBlock' <=> NeedsBlock)
  BY DEF Newest, InFront, NeedsBlock
<1>3. \A b : TableBlock(b)' <=> TableBlock(b)
  BY DEF TableBlock
<1>4. \A g \in DOMAIN files : \A b : InChain(g, b)' <=> InChain(g, b)
  BY DEF InChain
<1>5. Live \subseteq DOMAIN files
  BY DEF Live
<1>6. \A b : Owned(b)' <=> Owned(b)
  BY <1>1, <1>3, <1>4, <1>5 DEF Owned
<1>7. \A k : EntryBlock(k)' = EntryBlock(k)
  BY DEF EntryBlock
<1>8. \A g \in DOMAIN files : LastBlock(g)' = LastBlock(g)
  BY DEF LastBlock
<1>9. \A c : TableSector(c)' <=> TableSector(c)
  BY <1>7 DEF TableSector, EntrySector
<1>10. \A g \in DOMAIN files : files'[g].sector = files[g].sector => StoredSectors(g)' = StoredSectors(g)
  BY DEF StoredSectors
<1> QED BY <1>1, <1>2, <1>3, <1>4, <1>6, <1>7, <1>8, <1>9, <1>10

LEMMA WithSectorIs ==
  ASSUME FilesFit, NEW f \in DOMAIN files, NEW s, s \in INIT .. LastSector,
         files' = [ files EXCEPT ![f].sector = s ]
  PROVE  /\ DOMAIN files' = DOMAIN files /\ Len(files') = Len(files)
         /\ \A g \in DOMAIN files :
              /\ files'[g].chain = files[g].chain /\ files'[g].dead = files[g].dead /\ files'[g].open = files[g].open
              /\ files'[g].sector = IF g = f THEN s ELSE files[g].sector
<1> DEFINE r == WithSector(files[f], s)
<1>1. FileFit(files[f])
  BY DEF FilesFit
<1>2. FileFit(r)
  BY <1>1, FileFitWith
<1>3. r.chain = files[f].chain /\ r.sector = s /\ r.dead = files[f].dead /\ r.open = files[f].open
  BY <1>1, WithFields
<1>4. files' = [ files EXCEPT ![f] = r ]
  BY DEF WithSector
<1> HIDE DEF r
<1>5. DOMAIN files' = DOMAIN files /\ Len(files') = Len(files)
  BY <1>2, <1>4, OneFile
<1>6. \A g \in DOMAIN files : files'[g] = IF g = f THEN r ELSE files[g]
  BY <1>4
<1> QED BY <1>3, <1>5, <1>6

(* Sectors of a file are filled that come next.                            *)
LEMMA FilledKept ==
  ASSUME SystemInv, Kept, todo = << >>, whole, NEW f \in DOMAIN files, files[f].open,
         NEW s, s \in INIT .. LastSector, s # INIT, files' = [ files EXCEPT ![f].sector = s ],
         dirty' = IF dirty = f THEN 0 ELSE dirty,
         UNCHANGED << ichain, whole, mem, backend, dev >>,
         NEW P, Does(todo', P, {}), Whole(todo'), call'.for # "format",
         NEW S, STAT \notin S, \A x \in S : x \notin Before(files[f].sector),
         Before(s) = Before(files[f].sector) \cup S,
         \A p \in P : p.b = LastBlock(f) /\ p.s \in S,
         \A x \in S : Part(LastBlock(f), x, "first", "file") \in P /\ Part(LastBlock(f), x, "spare", "file") \in P
  PROVE  /\ ScriptKept' /\ ContentKept' /\ held' = held /\ Future' = held \cup P
         /\ Puts(todo)' = P /\ Erased(todo)' = {}
         /\ DOMAIN files' = DOMAIN files /\ Newest' = Newest /\ (InFront' <=> InFront) /\ (NeedsBlock' <=> NeedsBlock)
         /\ \A b : Owned(b)' <=> Owned(b)
         /\ \A g \in DOMAIN files : LastBlock(g)' = LastBlock(g) /\ files'[g].open = files[g].open
                                    /\ files'[g].sector = IF g = f THEN s ELSE files[g].sector
         /\ Owned(LastBlock(f)) /\ LastBlock(f) \in Block
<1>1. FilesFit /\ TableFit /\ ContentKept /\ TakenFit
  BY DEF Kept, SystemInv, MeantInv
<1>2. /\ DOMAIN files' = DOMAIN files /\ Len(files') = Len(files)
      /\ \A g \in DOMAIN files :
           /\ files'[g].chain = files[g].chain /\ files'[g].dead = files[g].dead /\ files'[g].open = files[g].open
           /\ files'[g].sector = IF g = f THEN s ELSE files[g].sector
  BY <1>1, WithSectorIs
<1>3. /\ Live' = Live /\ Newest' = Newest /\ (InFront' <=> InFront) /\ (NeedsBlock' <=> NeedsBlock)
      /\ \A b : (TableBlock(b)' <=> TableBlock(b)) /\ (Owned(b)' <=> Owned(b))
      /\ \A g \in DOMAIN files : \A b : InChain(g, b)' <=> InChain(g, b)
      /\ \A k : EntryBlock(k)' = EntryBlock(k)
      /\ \A g \in DOMAIN files : LastBlock(g)' = LastBlock(g)
      /\ \A c : TableSector(c)' <=> TableSector(c)
      /\ \A g \in DOMAIN files : files'[g].sector = files[g].sector => StoredSectors(g)' = StoredSectors(g)
  BY <1>2, SameChains
<1>4. PICK b : b = LastBlock(f)
  OBVIOUS
<1>5. f \in Live /\ Live \subseteq DOMAIN files
  BY <1>1 DEF ContentKept, WriterFit, Live
<1>6. Owned(b) /\ InChain(f, b) /\ b \in Used /\ b # First /\ b \in Block /\ ~ TableBlock(b)
  <2>1. Owned(b) /\ InChain(f, b) /\ b \in Used
    BY <1>1, <1>4, <1>5, OwnedCells
  <2>2. b \in Block /\ b # First
    BY <2>1, BlocksAre
  <2> QED BY <1>1, <1>5, <2>1, <2>2 DEF ContentKept, OwnedFit
<1>7. Future = held
  <2>1. Puts(<< >>) = {} /\ Erased(<< >>) = {}
    BY DoesNone DEF Does
  <2>2. After(todo) = held
    BY <2>1 DEF After
  <2> QED BY <2>2 DEF Future
<1>8. \A c \in held : c.b = b /\ c.s # STAT => c.s \in Before(files[f].sector)
  BY <1>1, <1>4, <1>7 DEF ContentKept, WriterFit
<1>9. /\ ScriptKept' /\ Puts(todo)' = P /\ Erased(todo)' = {} /\ held' = held /\ Future' = held \cup P
  <2> DEFINE N == {}
  <2>1. Does(todo', P, N)
    OBVIOUS
  <2>2. \A p \in P : \A c \in held : Cell(c) = Cell(p) => c.b \in N
    <3> SUFFICES ASSUME NEW p \in P, NEW c \in held, Cell(c) = Cell(p) PROVE FALSE
      OBVIOUS
    <3>1. c.b = b /\ c.s \in S
      BY <1>4 DEF Cell
    <3> QED BY <1>8, <3>1
  <2>3. \A p \in P : p.part = "rest" => p.b # First /\ p.s # STAT /\ p.b # dev.erased /\ N = {}
    <3>1. dev.erased # b
      BY <1>1, <1>4 DEF TakenFit
    <3> QED BY <1>4, <1>6, <3>1
  <2>4. N = {}
    OBVIOUS
  <2> HIDE DEF N
  <2>5. /\ ScriptKept' /\ Puts(todo)' = P /\ Erased(todo)' = N /\ held' = held
        /\ Future' = { c \in held : c.b \notin N } \cup P
    BY <2>1, <2>2, <2>3, ScriptBegins
  <2> QED BY <2>4, <2>5
<1>10. \A x, y, part, tag : Will(x, y, part, tag) => Will(x, y, part, tag)'
  BY <1>7, <1>9 DEF Will
<1>11. \A c \in Future' : c \in Future \/ (c \in P /\ c.b = b /\ c.s \in S)
  BY <1>4, <1>7, <1>9
<1>12. CleanFit'
  BY <1>1, <1>3, <1>6, <1>11 DEF ContentKept, CleanFit
<1>13. OwnedFit'
  <2>1. \A x \in Block : Owned(x)' => Will(x, STAT, "first", "key")'
    BY <1>1, <1>3, <1>10 DEF ContentKept, OwnedFit
  <2>2. \A g, h \in Live' : \A i \in 1 .. Len(files'[g].chain), j \in 1 .. Len(files'[h].chain) :
           files'[g].chain[i] = files'[h].chain[j] => g = h /\ i = j
    BY <1>1, <1>2, <1>3, <1>5 DEF ContentKept, OwnedFit
  <2>3. \A g \in Live' : \A x \in Block : InChain(g, x)' => ~ TableBlock(x)'
    BY <1>1, <1>3, <1>5 DEF ContentKept, OwnedFit
  <2>4. \A i, j \in 1 .. Len(ichain') : ichain'[i] = ichain'[j] => i = j
    BY <1>1 DEF ContentKept, OwnedFit
  <2> QED BY <2>1, <2>2, <2>3, <2>4 DEF OwnedFit
<1>14. StoredFit'
  <2> SUFFICES ASSUME NEW g \in Live
               PROVE /\ Will(EntryBlock(g), EntrySector(g), "first", "entry")'
                     /\ \A p \in StoredSectors(g)' : Will(p[1], p[2], "first", "file")' /\ Will(p[1], p[2], "spare", "file")'
    BY <1>3 DEF StoredFit
  <2>1. /\ Will(EntryBlock(g), EntrySector(g), "first", "entry")
        /\ \A p \in StoredSectors(g) : Will(p[1], p[2], "first", "file") /\ Will(p[1], p[2], "spare", "file")
    BY <1>1 DEF ContentKept, StoredFit
  <2>2. Will(EntryBlock(g), EntrySector(g), "first", "entry")'
    <3>1. EntryBlock(g)' = EntryBlock(g) /\ EntrySector(g)' = EntrySector(g)
      BY <1>3 DEF EntrySector
    <3> QED BY <1>10, <2>1, <3>1 DEF Will
  <2>3. ASSUME NEW p \in StoredSectors(g)' PROVE Will(p[1], p[2], "first", "file")' /\ Will(p[1], p[2], "spare", "file")'
    <3>1. CASE p \in StoredSectors(g)
      BY <1>10, <2>1, <3>1
    <3>2. CASE p \notin StoredSectors(g)
      <4>1. g = f
        BY <1>2, <1>3, <1>5, <3>2
      <4>2. PICK x \in S : p = << b, x >>
        <5> DEFINE ch == files[f].chain
                   Old == { << ch[i], x >> : i \in 1 .. Len(ch) - 1, x \in 1 .. LastSector }
                   To(X) == { << ch[Len(ch)], x >> : x \in X }
        <5>1. StoredSectors(f) = Old \cup To(Before(files[f].sector))
          BY DEF StoredSectors
        <5>2. StoredSectors(f)' = Old \cup To(Before(s))
          <6>1. files'[f].chain = ch /\ files'[f].sector = s
            BY <1>2
          <6>2. StoredSectors(f)' =
                  { << files'[f].chain[i], x >> : i \in 1 .. Len(files'[f].chain) - 1, x \in 1 .. LastSector }
                    \cup { << files'[f].chain[Len(files'[f].chain)], x >> : x \in Before(files'[f].sector) }
            BY DEF StoredSectors, Before
          <6> QED BY <6>1, <6>2
        <5>3. p \in Old \cup To(Before(s)) /\ p \notin Old \cup To(Before(files[f].sector))
          BY <3>2, <4>1, <5>1, <5>2
        <5> HIDE DEF Old
        <5>4. \E x \in Before(s) : x \notin Before(files[f].sector) /\ p = << ch[Len(ch)], x >>
          BY <5>3
        <5> QED BY <1>4, <5>4 DEF LastBlock
      <4>3. p[1] = b /\ p[2] = x
        BY <4>2
      <4>4. Part(b, x, "first", "file") \in Future' /\ Part(b, x, "spare", "file") \in Future'
        BY <1>4, <1>9
      <4> QED BY <4>3, <4>4 DEF Part, Will
    <3> QED BY <3>1, <3>2
  <2> QED BY <2>2, <2>3
<1>15. WriterFit'
  <2> SUFFICES ASSUME NEW g \in DOMAIN files, files[g].open
               PROVE  g \in Live' /\ \A c \in Future' : c.b = LastBlock(g)' /\ c.s # STAT => c.s \in Before(files'[g].sector)
    BY <1>2 DEF WriterFit, Before
  <2>1. g \in Live /\ \A c \in Future : c.b = LastBlock(g) /\ c.s # STAT => c.s \in Before(files[g].sector)
    BY <1>1 DEF ContentKept, WriterFit
  <2>2. CASE g = f
    <3>1. files'[g].sector = s /\ LastBlock(g)' = b
      BY <1>2, <1>3, <1>4, <2>2
    <3>2. ASSUME NEW c \in Future', c.b = b, c.s # STAT PROVE c.s \in Before(s)
      BY <1>4, <1>11, <2>1, <2>2, <3>2
    <3> QED BY <1>3, <2>1, <3>1, <3>2
  <2>3. CASE g # f
    <3>1. InChain(g, LastBlock(g))
      BY <1>1, <2>1, OwnedCells
    <3>2. LastBlock(g) # b
      BY <1>1, <1>5, <1>6, <2>1, <2>3, <3>1 DEF InChain, ContentKept, OwnedFit
    <3> QED BY <1>2, <1>3, <1>11, <2>1, <2>3, <3>2
  <2> QED BY <2>2, <2>3
<1>16. DirtyFit'
  <2>1. \A g \in Live' : files'[g].sector = INIT => dirty' = g
    BY <1>1, <1>2, <1>3, <1>5 DEF ContentKept, DirtyFit
  <2>2. dirty' # 0 => dirty' \in Live' /\ files'[dirty'].open
    BY <1>1, <1>2, <1>3, <1>5 DEF ContentKept, DirtyFit
  <2> QED BY <2>1, <2>2 DEF DirtyFit
<1>17. EntriesFit'
  <2>1. \A c \in Future' : TableBlock(c.b)' /\ c.s # STAT => TableSector(c)'
    BY <1>1, <1>3, <1>6, <1>11 DEF ContentKept, EntriesFit
  <2>2. \A x \in Block : TableBlock(x)' => Will(x, INIT, "spare", "inode0")' \/ Will(x, INIT, "spare", "inode")'
    BY <1>1, <1>3, <1>10 DEF ContentKept, EntriesFit
  <2> QED BY <2>1, <2>2 DEF EntriesFit
<1>18. RoomFit'
  BY <1>1, <1>3 DEF ContentKept, RoomFit
<1>19. ContentKept'
  BY <1>12, <1>13, <1>14, <1>15, <1>16, <1>17, <1>18 DEF ContentKept
<1> QED BY <1>2, <1>3, <1>4, <1>6, <1>9, <1>19

Filled(s) == { Fill(s)[i] : i \in 1 .. Len(Fill(s)) }
Behind(s) == NextSector(Fill(s)[Len(Fill(s))])

LEMMA FillBefore ==
  ASSUME NEW s \in INIT .. LastSector, s # TAIL
  PROVE  /\ STAT \notin Filled(s) /\ (\A x \in Filled(s) : x \notin Before(s) /\ x \in INIT .. LastSector)
         /\ Before(Behind(s)) = Before(s) \cup Filled(s) /\ Behind(s) \in INIT .. LastSector /\ Behind(s) # INIT
         /\ NextSector(INIT) = 2 /\ Before(2) = { INIT } /\ Before(INIT) = {}
<1> DEFINE S == Filled(s)  z == Behind(s)
<1>0. S = { Fill(s)[i] : i \in 1 .. Len(Fill(s)) } /\ z = NextSector(Fill(s)[Len(Fill(s))])
  BY DEF Filled, Behind
<1> HIDE DEF S, z
<1> SUFFICES /\ STAT \notin S /\ (\A x \in S : x \notin Before(s) /\ x \in INIT .. LastSector)
             /\ Before(z) = Before(s) \cup S /\ z \in INIT .. LastSector /\ z # INIT
             /\ NextSector(INIT) = 2 /\ Before(2) = { INIT } /\ Before(INIT) = {}
  BY DEF S, z
<1>1. LastSector \in Nat /\ LastSector >= 7
  BY LastSectorIs
<1>2. NextSector(INIT) = 2 /\ Before(2) = { INIT } /\ Before(INIT) = {}
  BY <1>1 DEF NextSector, Before, INIT, TAIL
<1>3. CASE s < ENTRY
  <2>1. Fill(s) = << s >>
    BY <1>3 DEF Fill
  <2>2. Len(Fill(s)) = 1 /\ Fill(s)[1] = s
    BY <2>1, ListOne
  <2>3. S = { s } /\ z = NextSector(s)
    BY <1>0, <2>2
  <2>4. s = 1 \/ s = 2
    BY <1>3 DEF ENTRY, INIT, TAIL
  <2>5. CASE s = 1
    <3>1. S = { 1 } /\ z = 2 /\ Before(s) = {} /\ Before(z) = { 1 }
      BY <1>2, <2>3, <2>5 DEF INIT
    <3>2. \A x \in S : x = 1
      BY <3>1
    <3> QED BY <1>1, <1>2, <3>1, <3>2 DEF INIT, STAT
  <2>6. CASE s = 2
    <3>1. z = 4
      BY <1>1, <2>3, <2>6 DEF NextSector
    <3>2. Before(4) = (1 .. 4 - 1) \ { 3 }
      BY DEF Before, INIT, TAIL
    <3>3. (1 .. 4 - 1) \ { 3 } = { 1, 2 }
      OBVIOUS
    <3>4. Before(z) = { 1, 2 }
      BY <3>1, <3>2, <3>3
    <3>5. Before(s) = { 1 } /\ S = { 2 }
      BY <1>2, <2>3, <2>6 DEF INIT
    <3>6. STAT \notin S /\ \A x \in S : x \notin Before(s) /\ x \in INIT .. LastSector
      <4>1. STAT \notin { 2 } /\ \A x \in { 2 } : x \notin { 1 } /\ x \in INIT .. LastSector
        BY <1>1 DEF INIT, STAT
      <4> QED BY <3>5, <4>1 DEF INIT
    <3>7. Before(z) = Before(s) \cup S
      BY <3>4, <3>5
    <3>8. z \in INIT .. LastSector /\ z # INIT
      BY <1>1, <3>1 DEF INIT
    <3> QED BY <1>2, <3>6, <3>7, <3>8
  <2> QED BY <2>4, <2>5, <2>6
<1>4. CASE s >= ENTRY
  <2>1. Len(Fill(s)) \in Nat \ {0} /\ \A i \in 1 .. Len(Fill(s)) : Fill(s)[i] = s + i - 1
    BY FillIs
  <2>2. Len(Fill(s)) = LastSector - s + 1
    <3>1. Fill(s) = [ i \in 1 .. LastSector - s + 1 |-> s + i - 1 ]
      BY <1>4 DEF Fill, ENTRY, INIT
    <3> DEFINE u == [ i \in 1 .. LastSector - s + 1 |-> s + i - 1 ]  m == LastSector - s + 1
    <3>2. DOMAIN u = 1 .. m /\ u = [ i \in 1 .. m |-> u[i] ] /\ m \in Nat
      BY <1>1 DEF INIT
    <3> HIDE DEF u, m
    <3>3. Len(u) = m
      BY <3>2, ListMade
    <3> QED BY <3>1, <3>3 DEF u, m
  <2> DEFINE k == Len(Fill(s))
  <2>3. k \in 1 .. k /\ Fill(s)[k] = LastSector
    <3>1. k \in 1 .. k
      BY <2>1
    <3>2. Fill(s)[k] = s + k - 1
      BY <2>1, <3>1
    <3> QED BY <1>1, <2>2, <3>1, <3>2 DEF INIT
  <2>4. z = TAIL
    BY <1>0, <1>1, <2>3 DEF NextSector
  <2>5. S = s .. LastSector
    <3>1. \A x \in S : x \in s .. LastSector
      BY <1>0, <1>1, <2>1, <2>2 DEF INIT
    <3>2. ASSUME NEW x \in s .. LastSector PROVE x \in S
      <4> DEFINE i == x - s + 1
      <4>1. i \in 1 .. k /\ s + i - 1 = x
        BY <1>1, <2>2 DEF INIT
      <4> HIDE DEF i
      <4>2. Fill(s)[i] = x
        BY <2>1, <4>1
      <4> QED BY <1>0, <4>1, <4>2
    <3> QED BY <3>1, <3>2
  <2>6. Before(TAIL) = (1 .. LastSector) \ { TAIL } /\ Before(s) = (1 .. s - 1) \ { TAIL }
    BY <1>4 DEF Before, ENTRY, INIT, TAIL
  <2>7. STAT \notin S /\ \A x \in S : x \notin Before(s) /\ x \in INIT .. LastSector
    <3>1. STAT \notin s .. LastSector
      BY <1>1, <1>4 DEF ENTRY, INIT, STAT
    <3>2. \A x \in s .. LastSector : x \notin (1 .. s - 1) \ { TAIL } /\ x \in INIT .. LastSector
      BY <1>1, <1>4 DEF ENTRY, INIT
    <3> QED BY <2>5, <2>6, <3>1, <3>2
  <2>8. Before(z) = Before(s) \cup S
    BY <1>1, <1>4, <2>4, <2>5, <2>6 DEF ENTRY, INIT, TAIL
  <2>9. z \in INIT .. LastSector /\ z # INIT
    BY <1>1, <2>4 DEF INIT, TAIL
  <2> QED BY <1>2, <2>7, <2>8, <2>9
<1> QED BY <1>3, <1>4 DEF ENTRY, INIT

LEMMA FlushKept ==
  ASSUME Trusted, SystemInv, SystemInv', Kept, Flush
  PROVE  Kept'
<1>1. /\ on /\ todo = << >> /\ plan # << >> /\ Head(plan) = "flush" /\ whole /\ Future = held
      /\ plan \in CreatePlans \cup WritePlans \cup MountPlans
      /\ plan \in CreatePlans => call.for = "create" /\ state = "mounted"
      /\ plan \in WritePlans => call.for = "write" /\ state = "mounted"
      /\ TableFit /\ FilesFit /\ PreInv /\ PhaseFit /\ TakenFit /\ ListFit /\ AwayFit
  BY MountedParts DEF Flush
<1>2. plan \in { PlanFAE, PlanFAIFAE, PlanFAT }
  BY <1>1, PlanHeads
<1>3. /\ plan' = Tail(plan) /\ dirty' = 0
      /\ UNCHANGED << pre, backend, mem, dev, cache, ichain, state, inode0, whole, on, call, faults >>
  BY DEF Flush, Goto, layer, mounts
<1>4. /\ state = "mounted" /\ call.for \in { "create", "write" } /\ ~ Primed /\ ~ Primed' /\ plan' \notin Primes
      /\ plan' \notin BlockTaken \cup MountPlans /\ plan' # << >> /\ plan' \notin { PlanE, PlanIFAE, PlanT }
      /\ plan' \in InodePlans => plan \in InodePlans
      /\ plan' \in EntryPlans <=> plan \in EntryPlans
      /\ plan' \in WritePlans => plan \in WritePlans
  <2>1. plan \in CreatePlans \cup WritePlans
    BY <1>2 DEF CreatePlans, EntryPlans, InodePlans, WritePlans
  <2>2. \/ plan = PlanFAE /\ plan' = PlanAE
        \/ plan = PlanFAIFAE /\ plan' = PlanAIFAE
        \/ plan = PlanFAT /\ plan' = PlanAT
    BY <1>2, <1>3, PlansAre
  <2> QED BY <1>1, <2>1, <2>2, PlansAre DEF Primed, Primes, BlockTaken, MountPlans, InodePlans, EntryPlans, WritePlans
<1>5. PreInv' /\ available' = available /\ pending' = pending
  BY <1>3, PreStays
<1>6. Listing
  BY <1>4 DEF Listing
<1>7. CASE dirty = 0
  <2>1. todo' = << >> /\ UNCHANGED << files, dirty >>
    BY <1>7 DEF Flush, Goto
  <2>2. /\ ScriptKept' /\ ContentKept' /\ FutureFit' /\ held' = held
        /\ Puts(todo)' = {} /\ Erased(todo)' = {}
        /\ \A b : Owned(b)' <=> Owned(b)
        /\ \A b, s, part, tag : Will(b, s, part, tag)' <=> Will(b, s, part, tag)
    <3>1. Does(todo', {}, {}) /\ Whole(todo') /\ call'.for # "format"
      BY <1>3, <1>4, <2>1, DoesNone, WholeNone
    <3> QED BY <1>1, <1>3, <2>1, <3>1, QuietBegins
  <2>3. Newest' = Newest /\ (InFront' <=> InFront) /\ (NeedsBlock' <=> NeedsBlock) /\ Len(todo') = 0
    BY <1>3, <2>1, SameFiles, ListNone DEF NeedsBlock
  <2>4. PhaseFit'
    BY <1>1, <1>3, <1>4, <1>5, <2>1, <2>3 DEF PhaseFit
  <2>5. TakenFit'
    <3>1. \A g \in DOMAIN files' : files'[g].open => dev'.erased # LastBlock(g)'
      BY <1>1, <1>3, <2>1, SameFiles DEF TakenFit
    <3> QED BY <1>4, <3>1 DEF TakenFit
  <2>6. ListFit'
    BY <1>3, <1>5, <1>6, <2>2, ListsStay
  <2>7. DrawFit'
    BY <1>4, <2>1, <2>2, <2>3 DEF DrawFit
  <2>8. AwayFit'
    <3>1. (cache.open => ~ InAvailable(cache.block)) /\ ~ InAvailable(dev.erased)
      BY <1>1, <1>4 DEF AwayFit
    <3>2. (todo = << >> => (cache.open => ~ InAvailable(cache.block)) /\ ~ InAvailable(dev.erased))'
      BY <1>3, <1>5, <3>1 DEF InAvailable
    <3> QED BY <2>1, <3>2 DEF AwayFit
  <2> QED BY <1>5, <2>2, <2>4, <2>5, <2>6, <2>7, <2>8 DEF Kept
<1>8. CASE dirty # 0
  <2>0. PICK f : f = dirty
    OBVIOUS
  <2>1. f \in DOMAIN files /\ files[f].open /\ files[f].sector = INIT
    <3>1. f \in Live /\ files[f].open /\ files[f].sector = INIT
      BY <1>1, <1>8, <2>0 DEF Kept, ContentKept, DirtyFit, TableFit
    <3> QED BY <3>1 DEF Live
  <2>2. INIT \in INIT .. LastSector /\ INIT # TAIL /\ 2 \in INIT .. LastSector /\ 2 # INIT
    BY LastSectorIs DEF INIT, TAIL
  <2>3. NextSector(INIT) = 2 /\ Before(2) = { INIT } /\ Before(INIT) = {}
    BY <2>2, FillBefore
  <2> DEFINE b == LastBlock(f)  t == Sector(b, INIT, "file", FALSE)  P == SectorParts(b, INIT, "file", FALSE)
             S == { INIT }  s == 2
  <2>4. todo' = t /\ files' = [ files EXCEPT ![f].sector = s ]
    <3>1. todo' = Sector(LastBlock(dirty), files[dirty].sector, "file", FALSE)
          /\ files' = [ files EXCEPT ![dirty].sector = NextSector(@) ]
      BY <1>8 DEF Flush, Goto, Committed
    <3>2. files' = [ files EXCEPT ![f].sector = NextSector(files[f].sector) ]
      BY <2>0, <3>1
    <3> QED BY <2>0, <2>1, <2>3, <3>1, <3>2
  <2>5. /\ Does(t, P, {}) /\ Plain(t) /\ Whole(t)
        /\ \E y : Ends(t, y) /\ y.op = "spare" /\ y.b = b
    BY SectorDoes, SectorWhole
  <2>6. /\ \A p \in P : p.b = b /\ p.s \in S
        /\ \A x \in S : Part(b, x, "first", "file") \in P /\ Part(b, x, "spare", "file") \in P
        /\ STAT \notin S /\ (\A x \in S : x \notin Before(files[f].sector)) /\ Before(s) = Before(files[f].sector) \cup S
    <3>1. \A p \in P : p.b = b /\ p.s = INIT
      BY PartIsIt DEF SectorParts
    <3>2. Part(b, INIT, "first", "file") \in P /\ Part(b, INIT, "spare", "file") \in P
      BY DEF SectorParts
    <3> QED BY <2>1, <2>3, <3>1, <3>2 DEF INIT, STAT
  <2>7. dirty' = (IF dirty = f THEN 0 ELSE dirty) /\ call'.for # "format" /\ s \in INIT .. LastSector /\ s # INIT
    BY <1>3, <1>4, <2>0, <2>2
  <2> HIDE DEF P, S, s, t
  <2>8. /\ ScriptKept' /\ ContentKept' /\ held' = held /\ Future' = held \cup P
        /\ Puts(todo)' = P /\ Erased(todo)' = {}
        /\ DOMAIN files' = DOMAIN files /\ Newest' = Newest /\ (InFront' <=> InFront) /\ (NeedsBlock' <=> NeedsBlock)
        /\ \A x : Owned(x)' <=> Owned(x)
        /\ \A g \in DOMAIN files : LastBlock(g)' = LastBlock(g) /\ files'[g].open = files[g].open
                                   /\ files'[g].sector = IF g = f THEN s ELSE files[g].sector
        /\ Owned(b) /\ b \in Block
    <3>1. /\ f \in DOMAIN files /\ files[f].open /\ s \in INIT .. LastSector /\ s # INIT /\ whole /\ todo = << >>
          /\ files' = [ files EXCEPT ![f].sector = s ] /\ dirty' = IF dirty = f THEN 0 ELSE dirty
          /\ UNCHANGED << ichain, whole, mem, backend, dev >> /\ Does(todo', P, {}) /\ Whole(todo') /\ call'.for # "format"
          /\ STAT \notin S /\ (\A x \in S : x \notin Before(files[f].sector)) /\ Before(s) = Before(files[f].sector) \cup S
      BY <1>1, <1>3, <2>1, <2>4, <2>5, <2>6, <2>7
    <3>2. /\ \A p \in P : p.b = LastBlock(f) /\ p.s \in S
          /\ \A x \in S : Part(LastBlock(f), x, "first", "file") \in P /\ Part(LastBlock(f), x, "spare", "file") \in P
      BY <2>6
    <3> QED BY <3>1, <3>2, FilledKept, ZenonT(60)
  <2>9. PhaseFit'
    <3>1. plan' \in WritePlans => files'[call'.f].open /\ files'[call'.f].sector = TAIL
      <4>1. plan' \in WritePlans => call.f \in DOMAIN files /\ files[call.f].open /\ files[call.f].sector = TAIL
        BY <1>1, <1>4, MountedParts DEF PhaseFit, Flush
      <4> QED BY <1>3, <2>1, <2>2, <2>8, <4>1
    <3> QED BY <1>1, <1>3, <1>4, <1>5, <2>8, <3>1 DEF PhaseFit
  <2>10. TakenFit'
    <3>1. \A g \in DOMAIN files' : files'[g].open => dev'.erased # LastBlock(g)'
      BY <1>1, <1>3, <2>8 DEF TakenFit
    <3> QED BY <1>4, <3>1 DEF TakenFit
  <2>11. ListFit'
    <3>1. \A x : Will(x, STAT, "first", "key") => Will(x, STAT, "first", "key")'
      BY <1>1, <2>8 DEF Will
    <3> QED BY <1>3, <1>5, <1>6, <2>8, <3>1, ListsStay
  <2>12. DrawFit'
    <3>1. \A i \in 1 .. Len(todo') : todo'[i].op \notin { "lists", "push" }
      BY <2>4, <2>5 DEF Plain, PlainOps
    <3> QED BY <1>3, <1>4, <2>8, <3>1 DEF DrawFit
  <2>13. AwayFit'
    <3>1. PICK y : Ends(t, y) /\ y.op = "spare" /\ y.b = b
      BY <2>5
    <3>2. ~ InAvailable(b)
      BY <1>1, <1>6, <2>8 DEF ListFit
    <3>3. ~ InAvailable(y.b)
      BY <3>1, <3>2
    <3>4. todo' # << >> /\ todo'[Len(todo')] = y
      BY <2>4, <3>1 DEF Ends
    <3>5. (todo[Len(todo)].op \in { "open", "see", "write", "spare" } /\ ~ InAvailable(todo[Len(todo)].b))'
      BY <1>5, <3>1, <3>3, <3>4 DEF InAvailable
    <3> QED BY <1>3, <1>4, <3>4, <3>5 DEF AwayFit
  <2>14. FutureFit'
    BY <1>3, <1>4 DEF FutureFit
  <2> QED BY <1>5, <2>8, <2>9, <2>10, <2>11, <2>12, <2>13, <2>14 DEF Kept
<1> QED BY <1>7, <1>8

LEMMA NoPlan ==
  ASSUME NEW p, p = << >>
  PROVE  /\ p \notin CreatePlans /\ p \notin WritePlans /\ p \notin MountPlans /\ p \notin BlockTaken /\ p \notin Primes
         /\ p \notin EntryPlans /\ p \notin InodePlans /\ p \notin { PlanE, PlanIFAE, PlanT }
         /\ p \notin { PlanAE, PlanAIFAE, PlanAT }
BY PlansAre DEF CreatePlans, EntryPlans, InodePlans, WritePlans, MountPlans, BlockTaken, Primes

LEMMA IdleParts ==
  ASSUME SystemInv, Kept, Idle
  PROVE  /\ on /\ todo = << >> /\ plan = << >> /\ whole /\ inode0 = First /\ state = "mounted"
         /\ Future = held /\ Listing /\ ~ Primed
         /\ TableFit /\ FilesFit /\ PreInv /\ PhaseFit /\ TakenFit /\ ListFit /\ AwayFit /\ ContentKept /\ Facts
<1>1. Facts /\ TableFit /\ FilesFit /\ PreInv /\ PhaseFit /\ TakenFit /\ ListFit /\ AwayFit /\ ContentKept
  BY DEF Kept, SystemInv, MeantInv, Facts
<1>2. on /\ todo = << >> /\ plan = << >> /\ state = "mounted"
  BY DEF Idle
<1>3. whole /\ inode0 = First
  BY <1>1, <1>2 DEF Facts, MountFit
<1>4. Puts(<< >>) = {} /\ Erased(<< >>) = {}
  BY DoesNone DEF Does
<1>5. Future = held
  BY <1>2, <1>4 DEF Future, After
<1>6. Listing /\ ~ Primed
  BY <1>2, NoPlan DEF Listing, Primed
<1> QED BY <1>1, <1>2, <1>3, <1>5, <1>6

(* What is left to say of a call that begins with a script of its own.     *)
LEMMA BegunKept ==
  ASSUME SystemInv, Kept, Idle, plan' = << >>, todo' # << >>, call'.for \in { "write", "rm" },
         UNCHANGED << pre, backend, mem, dev, cache, ichain, state, whole >>,
         Plain(todo'), ~ InAvailable(todo'[Len(todo')].b), todo'[Len(todo')].op \in { "write", "spare" },
         \A b \in Erased(todo)' : ~ Owned(b)' /\ ~ InAvailable(b), call'.for # "rm" => Erased(todo)' = {},
         InFront' <=> InFront, \A b \in Block : Owned(b)' => Owned(b),
         \A b \in Block : InAvailable(b) => Will(b, STAT, "first", "key")',
         \A g \in DOMAIN files' : g \in DOMAIN files /\ (files'[g].open => files[g].open /\ LastBlock(g)' = LastBlock(g))
  PROVE  PreInv' /\ PhaseFit' /\ TakenFit' /\ ListFit' /\ DrawFit' /\ AwayFit' /\ FutureFit'
<1>1. /\ on /\ todo = << >> /\ plan = << >> /\ whole /\ inode0 = First /\ state = "mounted"
      /\ Future = held /\ Listing /\ ~ Primed
      /\ TableFit /\ FilesFit /\ PreInv /\ PhaseFit /\ TakenFit /\ ListFit /\ AwayFit /\ ContentKept /\ Facts
  BY IdleParts
<1>2. /\ plan' \notin CreatePlans /\ plan' \notin WritePlans /\ plan' \notin MountPlans /\ plan' \notin BlockTaken /\ plan' \notin Primes
      /\ plan' \notin EntryPlans /\ plan' \notin InodePlans /\ plan' \notin { PlanE, PlanIFAE, PlanT }
      /\ plan' \notin { PlanAE, PlanAIFAE, PlanAT } /\ plan \notin EntryPlans
  BY <1>1, NoPlan
<1>3. PreInv' /\ available' = available /\ pending' = pending
  BY PreStays
<1>4. PhaseFit'
  BY <1>1, <1>2, <1>3 DEF PhaseFit
<1>5. TakenFit'
  <2>1. \A g \in DOMAIN files' : files'[g].open => dev'.erased # LastBlock(g)'
    BY <1>1 DEF TakenFit
  <2> QED BY <1>2, <2>1 DEF TakenFit
<1>6. held' = held
  BY DEF held, Named
<1>7. ListFit'
  <2>1. \A b : InAvailable(b)' <=> InAvailable(b)
    BY <1>3, Availables
  <2>2. \A b \in Block : InAvailable(b) => ~ Owned(b)
    BY <1>1 DEF ListFit
  <2>3. \A b \in Block : InAvailable(b)' => ~ Owned(b)' /\ Will(b, STAT, "first", "key")'
    BY <2>1, <2>2
  <2>4. \A b \in pending' : b \in Used /\ Unallocated(b)' /\ ~ (cache'.open /\ cache'.block = b)
    <3> SUFFICES ASSUME NEW b \in pending PROVE b \in Used /\ Unallocated(b)' /\ ~ (cache.open /\ cache.block = b)
      BY <1>3
    <3>1. b \in Used /\ Unallocated(b) /\ ~ (cache.open /\ cache.block = b)
      BY <1>1 DEF ListFit
    <3>2. Unallocated(b)'
      BY <1>6, <3>1 DEF Unallocated, IsInode, IsInode0, IsFileBlock, Holds
    <3> QED BY <3>1, <3>2
  <2> QED BY <2>3, <2>4 DEF ListFit
<1>8. \A i \in 1 .. Len(todo') : todo'[i].op \notin { "lists", "push" }
  BY DEF Plain, PlainOps
<1>9. DrawFit'
  <2>1. \A b : InAvailable(b)' <=> InAvailable(b)
    BY <1>3, Availables
  <2>2. \A b \in Erased(todo)' : ~ Owned(b)' /\ ~ InAvailable(b)'
    BY <2>1
  <2> QED BY <1>2, <1>8, <2>2 DEF DrawFit
<1>10. AwayFit'
  <2>1. PICK y : y = todo'[Len(todo')]
    OBVIOUS
  <2>2. y.op \in { "open", "see", "write", "spare" } /\ ~ InAvailable(y.b)
    BY <2>1
  <2>3. (todo[Len(todo)].op \in { "open", "see", "write", "spare" } /\ ~ InAvailable(todo[Len(todo)].b))'
    BY <1>3, <2>1, <2>2 DEF InAvailable
  <2> QED BY <2>3 DEF AwayFit
<1>11. FutureFit'
  BY DEF FutureFit
<1> QED BY <1>3, <1>4, <1>5, <1>7, <1>9, <1>10, <1>11

Sectors(b, ss)  == [ i \in 1 .. Len(ss) |-> Sector(b, ss[i], "file", TRUE) ]
AllParts(b, ss) == UNION { SectorParts(b, ss[i], "file", TRUE) : i \in 1 .. Len(ss) }

LEMMA SectorsDo ==
  ASSUME NEW b, NEW ss, IsList(ss), Len(ss) \in Nat \ {0},
         \A i, j \in 1 .. Len(ss) : i < j => ss[i] # ss[j]
  PROVE  /\ Does(Flat(Sectors(b, ss)), AllParts(b, ss), {}) /\ Plain(Flat(Sectors(b, ss))) /\ Whole(Flat(Sectors(b, ss)))
         /\ \E y : Ends(Flat(Sectors(b, ss)), y) /\ y.op = "spare" /\ y.b = b
<1>0. PICK m : m = Len(ss)
  OBVIOUS
<1> DEFINE g == Sectors(b, ss)  P == AllParts(b, ss)
<1>a. /\ m \in Nat \ {0} /\ g = [ i \in 1 .. m |-> Sector(b, ss[i], "file", TRUE) ]
      /\ P = UNION { SectorParts(b, ss[i], "file", TRUE) : i \in 1 .. m }
  BY <1>0 DEF Sectors, AllParts
<1>b. \A i, j \in 1 .. m : i < j => ss[i] # ss[j]
  BY <1>0
<1> HIDE DEF g, P
<1> SUFFICES /\ Does(Flat(g), P, {}) /\ Plain(Flat(g)) /\ Whole(Flat(g))
             /\ \E y : Ends(Flat(g), y) /\ y.op = "spare" /\ y.b = b
  BY DEF g, P
<1>1. g = [ i \in 1 .. m |-> g[i] ] /\ \A i \in 1 .. m : g[i] = Sector(b, ss[i], "file", TRUE)
  BY <1>a
<1> DEFINE Q(i) == SectorParts(b, ss[i], "file", TRUE)
<1>2. ASSUME NEW i \in 1 .. m
      PROVE  Does(g[i], Q(i), {}) /\ Plain(g[i]) /\ Whole(g[i]) /\ \E y : Ends(g[i], y) /\ y.op = "spare" /\ y.b = b
  <2>1. PICK s : s = ss[i]
    OBVIOUS
  <2>2. Does(Sector(b, s, "file", TRUE), SectorParts(b, s, "file", TRUE), {}) /\ Plain(Sector(b, s, "file", TRUE))
        /\ (\E y : Ends(Sector(b, s, "file", TRUE), y) /\ y.op = "spare" /\ y.b = b)
    BY SectorDoes
  <2>3. Whole(Sector(b, s, "file", TRUE))
    BY SectorWhole
  <2> QED BY <1>1, <2>1, <2>2, <2>3
<1>3. ASSUME NEW i \in 1 .. m, NEW j \in 1 .. m, i < j PROVE Cross(Puts(g[i]), Erased(g[j]), Puts(g[j]))
  <2>1. Puts(g[i]) = Q(i) /\ Puts(g[j]) = Q(j) /\ Erased(g[j]) = {} /\ ss[i] # ss[j]
    BY <1>2, <1>3, <1>b DEF Does
  <2>2. ASSUME NEW k \in 1 .. m PROVE \A c \in Q(k) : Cell(c)[2] = ss[k]
    BY PartIsIt DEF SectorParts
  <2>3. (\A c \in Q(i) : Cell(c)[2] = ss[i]) /\ \A d \in Q(j) : Cell(d)[2] = ss[j]
    BY <2>2
  <2> HIDE DEF Q
  <2>4. \A c \in Q(i), d \in Q(j) : Cell(c) # Cell(d)
    BY <2>1, <2>3
  <2> QED BY <2>1, <2>4 DEF Cross
<1>4. (\A i \in 1 .. m : Puts(g[i]) = Q(i) /\ Erased(g[i]) = {} /\ IsList(g[i]) /\ Apart(g[i]))
  BY <1>2 DEF Does
<1> HIDE DEF Q
<1>5. Does(Flat(g), UNION { Puts(g[i]) : i \in 1 .. m }, UNION { Erased(g[i]) : i \in 1 .. m })
  <2>1. \A i \in 1 .. m : IsList(g[i]) /\ Apart(g[i])
    BY <1>4
  <2>2. \A i, j \in 1 .. m : i < j => Cross(Puts(g[i]), Erased(g[j]), Puts(g[j]))
    BY <1>3
  <2>3. g = [ i \in 1 .. m |-> g[i] ] /\ m \in Nat
    BY <1>1, <1>a
  <2> QED BY ONLY <2>1, <2>2, <2>3, DoesFlat
<1>6. UNION { Puts(g[i]) : i \in 1 .. m } = P
  <2>1. P = UNION { Q(i) : i \in 1 .. m }
    BY <1>a DEF Q
  <2>2. { Puts(g[i]) : i \in 1 .. m } = { Q(i) : i \in 1 .. m }
    BY <1>4
  <2> QED BY <2>1, <2>2
<1>7. UNION { Erased(g[i]) : i \in 1 .. m } = {}
  <2>1. \A i \in 1 .. m : Erased(g[i]) = {}
    BY <1>4
  <2> QED BY ONLY <2>1
<1>8. Does(Flat(g), P, {})
  BY <1>5, <1>6, <1>7
<1>9. Plain(Flat(g)) /\ Whole(Flat(g))
  BY <1>1, <1>2, <1>a, PlainFlat, FlatMade
<1>10. \E y : Ends(Flat(g), y) /\ y.op = "spare" /\ y.b = b
  <2>1. PICK y : Ends(g[m], y) /\ y.op = "spare" /\ y.b = b
    <3>1. m \in 1 .. m
      BY <1>a
    <3> QED BY <1>2, <3>1
  <2>2. Ends(Flat(g), y)
    BY <1>1, <1>4, <1>a, <2>1, EndsFlat
  <2> QED BY <2>1, <2>2
<1> QED BY <1>8, <1>9, <1>10

LEMMA CommitKept ==
  ASSUME Trusted, SystemInv, SystemInv', Kept, NEW f \in DOMAIN files, Commit(f)
  PROVE  Kept'
<1> DEFINE ss == Fill(files[f].sector)  m == Len(ss)  b == LastBlock(f)
           g == Sectors(b, ss)  P == AllParts(b, ss)
           S == Filled(files[f].sector)  s == Behind(files[f].sector)
<1>0. Idle /\ files[f].open /\ files[f].sector # TAIL
  BY DEF Commit
<1>1. /\ on /\ todo = << >> /\ plan = << >> /\ whole /\ inode0 = First /\ state = "mounted"
      /\ Future = held /\ Listing /\ ~ Primed
      /\ TableFit /\ FilesFit /\ PreInv /\ PhaseFit /\ TakenFit /\ ListFit /\ AwayFit /\ ContentKept /\ Facts
  BY <1>0, IdleParts
<1>2. files[f].sector \in INIT .. LastSector
  BY <1>1 DEF FilesFit, FileFit
<1>3. IsList(ss) /\ m \in Nat \ {0} /\ DOMAIN ss = 1 .. m /\ \A i \in 1 .. m : ss[i] = files[f].sector + i - 1
  <2>1. IsList(ss) /\ m \in Nat \ {0} /\ \A i \in 1 .. m : ss[i] = files[f].sector + i - 1
    BY <1>2, FillIs
  <2> QED BY <2>1, ListLen
<1>4. /\ Begin("write", f, << >>, Flat(g)) /\ files' = [ files EXCEPT ![f].sector = s ]
      /\ dirty' = (IF dirty = f THEN 0 ELSE dirty) /\ ichain' = ichain
  BY <1>3 DEF Commit, Sectors, Behind
<1>5. STAT \notin S /\ (\A x \in S : x \notin Before(files[f].sector) /\ x \in INIT .. LastSector)
      /\ Before(s) = Before(files[f].sector) \cup S /\ s \in INIT .. LastSector /\ s # INIT
  BY <1>0, <1>2, FillBefore
<1>6. /\ Does(Flat(g), P, {}) /\ Plain(Flat(g)) /\ Whole(Flat(g))
      /\ \E y : Ends(Flat(g), y) /\ y.op = "spare" /\ y.b = b
  <2>1. \A i, j \in 1 .. m : i < j => ss[i] # ss[j]
    BY <1>2, <1>3 DEF INIT
  <2> HIDE DEF ss
  <2> QED BY <1>3, <2>1, SectorsDo
<1>7. /\ plan' = << >> /\ todo' = Flat(g) /\ call'.for = "write"
      /\ UNCHANGED << pre, backend, mem, dev, cache, ichain, state, whole >>
  <2>1. plan' = << >> /\ todo' = Flat(g) /\ call' = [ for |-> "write", f |-> f, b |-> None ]
        /\ UNCHANGED << pre, backend, layer, mounts >>
    BY <1>4 DEF Begin, Goto
  <2> HIDE DEF g
  <2> QED BY <1>4, <2>1 DEF layer, mounts
<1>8. (\A p \in P : p.b = b /\ p.s \in S)
      /\ \A x \in S : Part(b, x, "first", "file") \in P /\ Part(b, x, "spare", "file") \in P
  <2>1. (\A i \in 1 .. m : ss[i] \in S) /\ \A x \in S : \E i \in 1 .. m : x = ss[i]
    BY DEF Filled
  <2>2. P = UNION { SectorParts(b, ss[i], "file", TRUE) : i \in 1 .. m }
    BY DEF AllParts
  <2> HIDE DEF S, ss, m, P
  <2>3. \A x : /\ \A p \in SectorParts(b, x, "file", TRUE) : p.b = b /\ p.s = x
               /\ Part(b, x, "first", "file") \in SectorParts(b, x, "file", TRUE)
               /\ Part(b, x, "spare", "file") \in SectorParts(b, x, "file", TRUE)
    BY PartIsIt DEF SectorParts
  <2> HIDE DEF b
  <2>4. ASSUME NEW p \in P PROVE p.b = b /\ p.s \in S
    <3>1. PICK i \in 1 .. m : p \in SectorParts(b, ss[i], "file", TRUE)
      BY <2>2
    <3> QED BY <2>1, <2>3, <3>1
  <2>5. ASSUME NEW x \in S PROVE Part(b, x, "first", "file") \in P /\ Part(b, x, "spare", "file") \in P
    <3>1. PICK i \in 1 .. m : x = ss[i]
      BY <2>1
    <3>2. SectorParts(b, x, "file", TRUE) \subseteq P
      BY <2>2, <3>1
    <3> QED BY <2>3, <3>2
  <2> QED BY <2>4, <2>5
<1> HIDE DEF ss, m, b, g, P, S, s
<1>9. /\ ScriptKept' /\ ContentKept' /\ held' = held /\ Future' = held \cup P
      /\ Puts(todo)' = P /\ Erased(todo)' = {}
      /\ DOMAIN files' = DOMAIN files /\ Newest' = Newest /\ (InFront' <=> InFront) /\ (NeedsBlock' <=> NeedsBlock)
      /\ \A x : Owned(x)' <=> Owned(x)
      /\ \A h \in DOMAIN files : LastBlock(h)' = LastBlock(h) /\ files'[h].open = files[h].open
                                 /\ files'[h].sector = IF h = f THEN s ELSE files[h].sector
      /\ Owned(LastBlock(f)) /\ LastBlock(f) \in Block
  <2>1. /\ files[f].open /\ s \in INIT .. LastSector /\ s # INIT /\ whole /\ todo = << >>
        /\ files' = [ files EXCEPT ![f].sector = s ] /\ dirty' = IF dirty = f THEN 0 ELSE dirty
        /\ UNCHANGED << ichain, whole, mem, backend, dev >> /\ Does(todo', P, {}) /\ Whole(todo') /\ call'.for # "format"
        /\ STAT \notin S /\ (\A x \in S : x \notin Before(files[f].sector)) /\ Before(s) = Before(files[f].sector) \cup S
    BY <1>0, <1>1, <1>4, <1>5, <1>6, <1>7
  <2>2. /\ \A p \in P : p.b = LastBlock(f) /\ p.s \in S
        /\ \A x \in S : Part(LastBlock(f), x, "first", "file") \in P /\ Part(LastBlock(f), x, "spare", "file") \in P
    BY <1>8 DEF b
  <2> QED BY <2>1, <2>2, FilledKept, ZenonT(60)
<1>10. PICK y : Ends(todo', y) /\ y.op = "spare" /\ y.b = b
  BY <1>6, <1>7
<1>11. ~ InAvailable(b)
  BY <1>1, <1>9 DEF b, ListFit
<1>12. todo' # << >> /\ ~ InAvailable(todo'[Len(todo')].b) /\ todo'[Len(todo')].op \in { "write", "spare" }
  BY <1>10, <1>11 DEF Ends
<1>13. \A x \in Block : InAvailable(x) => Will(x, STAT, "first", "key")'
  <2>1. \A x \in Block : InAvailable(x) => Will(x, STAT, "first", "key")
    BY <1>1 DEF ListFit
  <2> QED BY <1>1, <1>9, <2>1 DEF Will
<1>14. PreInv' /\ PhaseFit' /\ TakenFit' /\ ListFit' /\ DrawFit' /\ AwayFit' /\ FutureFit'
  <2>1. /\ call'.for \in { "write", "rm" } /\ Plain(todo')
        /\ (\A x \in Erased(todo)' : ~ Owned(x)' /\ ~ InAvailable(x)) /\ (call'.for # "rm" => Erased(todo)' = {})
        /\ (InFront' <=> InFront) /\ \A x \in Block : Owned(x)' => Owned(x)
    BY <1>6, <1>7, <1>9
  <2>2. \A h \in DOMAIN files' : h \in DOMAIN files /\ (files'[h].open => files[h].open /\ LastBlock(h)' = LastBlock(h))
    BY <1>9
  <2> QED BY <1>0, <1>7, <1>12, <1>13, <2>1, <2>2, BegunKept
<1> QED BY <1>9, <1>14 DEF Kept

(* The parts that put the block to use that the call was given.            *)
LEMMA TakenParts ==
  ASSUME SystemInv, Kept, NEW part \in { "inode", "entry", "tail" }, NextPart(part)
  PROVE  /\ on /\ todo = << >> /\ whole /\ state = "mounted" /\ Listing /\ dirty = 0 /\ Future = held
         /\ part = "inode" => plan = PlanIFAE
         /\ part = "entry" => plan = PlanE
         /\ part = "tail" => plan = PlanT
         /\ plan \in BlockTaken /\ call.b \in Used /\ call.b \in Block /\ call.b # First
         /\ ~ Owned(call.b) /\ ~ InAvailable(call.b) /\ dev.erased # call.b
         /\ Will(call.b, STAT, "first", "key") /\ (\A c \in held : c.b = call.b => c.s = STAT)
         /\ plan # PlanE => ~ InFront
         /\ call.for = IF part = "tail" THEN "write" ELSE "create"
         /\ part = "tail" => call.f \in DOMAIN files /\ files[call.f].open /\ files[call.f].sector = TAIL
         /\ part = "inode" => NeedsBlock
         /\ part # "tail" => call.f = Newest
         /\ TableFit /\ FilesFit /\ PreInv /\ PhaseFit /\ TakenFit /\ ListFit /\ ContentKept
<1>1. /\ on /\ todo = << >> /\ plan # << >> /\ Head(plan) = part /\ whole /\ inode0 = First
      /\ plan \in CreatePlans \cup WritePlans \cup MountPlans
      /\ plan \in CreatePlans => call.for = "create" /\ state = "mounted" /\ call.f = Newest
      /\ plan \in WritePlans => call.for = "write" /\ state = "mounted" /\ call.f \in DOMAIN files
      /\ Future = held
      /\ TableFit /\ FilesFit /\ PreInv /\ PhaseFit /\ TakenFit /\ ListFit
  BY MountedParts
<1>2. /\ part = "inode" => plan = PlanIFAE
      /\ part = "entry" => plan = PlanE
      /\ part = "tail" => plan = PlanT
  BY <1>1, PlanHeads
<1>3. /\ plan \in BlockTaken
      /\ part = "tail" => plan \in WritePlans
      /\ part # "tail" => plan \in CreatePlans
      /\ part = "inode" => plan \in InodePlans
      /\ plan # PlanE => plan \notin EntryPlans
  BY <1>2, PlansAre DEF BlockTaken, WritePlans, CreatePlans, EntryPlans, InodePlans
<1>4. call.b \in Used /\ call.b \in Block /\ call.b # First
  <2>1. call.b \in Used
    BY <1>3 DEF SystemInv, PlanFit
  <2> QED BY <2>1, BlocksAre
<1>5. call.b \in pending /\ ~ Owned(call.b) /\ dev.erased # call.b /\ Will(call.b, STAT, "first", "key")
  BY <1>1, <1>3 DEF TakenFit
<1>6. ~ InAvailable(call.b)
  BY <1>1, <1>5 DEF PreInv, ListedOnce, InAvailable
<1>7. ContentKept /\ \A c \in held : c.b = call.b => c.s = STAT
  BY <1>1, <1>4, <1>5 DEF Kept, ContentKept, CleanFit
<1>8. dirty = 0 /\ (plan # PlanE => ~ InFront) /\ (part = "inode" => NeedsBlock)
  BY <1>1, <1>3 DEF PhaseFit
<1>9. state = "mounted" /\ Listing /\ (call.for = IF part = "tail" THEN "write" ELSE "create")
      /\ (part = "tail" => call.f \in DOMAIN files /\ files[call.f].open /\ files[call.f].sector = TAIL)
      /\ (part # "tail" => call.f = Newest)
  BY <1>1, <1>3 DEF Listing, PhaseFit
<1> QED BY <1>1, <1>2, <1>3, <1>4, <1>5, <1>6, <1>7, <1>8, <1>9

LEMMA PartKept ==
  ASSUME SystemInv, Kept, todo = << >>, state = "mounted", whole, Listing,
         (plan' = PlanFAE /\ call'.for = "create") \/ (plan' = << >> /\ ~ InFront'), todo' # << >>, call'.for \in { "create", "write" },
         UNCHANGED << pre, backend, mem, dev, cache, state, whole >>,
         Plain(todo'), ~ InAvailable(todo'[Len(todo')].b), todo'[Len(todo')].op \in { "write", "spare" },
         Erased(todo)' = {}, \A b \in Block : InAvailable(b) /\ Owned(b)' => Owned(b),
         \A b \in Block : InAvailable(b) => Will(b, STAT, "first", "key")',
         \A g \in DOMAIN files' : files'[g].open => dev.erased # LastBlock(g)'
  PROVE  PreInv' /\ PhaseFit' /\ TakenFit' /\ ListFit' /\ DrawFit' /\ AwayFit' /\ FutureFit'
<1>1. ListFit /\ PreInv
  BY DEF Kept
<1>2. /\ plan' \notin WritePlans /\ plan' \notin MountPlans /\ plan' \notin BlockTaken /\ plan' \notin Primes
      /\ plan' \notin InodePlans /\ plan' \notin { PlanE, PlanIFAE, PlanT }
      /\ plan' \notin { PlanAE, PlanAIFAE, PlanAT } /\ (plan' # << >> => plan' \in EntryPlans)
  <2>1. CASE plan' = << >>
    BY <2>1, NoPlan
  <2>2. CASE plan' = PlanFAE
    BY <2>2, PlansAre DEF EntryPlans, InodePlans, WritePlans, MountPlans, BlockTaken, Primes
  <2> QED BY <2>1, <2>2
<1>3. PreInv' /\ available' = available /\ pending' = pending
  BY PreStays
<1>4. PhaseFit'
  <2>1. InFront' => plan' \in EntryPlans
    BY <1>2, PlansAre
  <2>2. plan' \notin WritePlans /\ plan' \notin InodePlans /\ plan' \notin { PlanAE, PlanAIFAE, PlanAT } \cup BlockTaken \cup MountPlans
    BY <1>2
  <2>3. call'.for \notin { "format", "mount", "none" } /\ state' = "mounted"
    OBVIOUS
  <2> QED BY <2>1, <2>2, <2>3 DEF PhaseFit
<1>5. TakenFit'
  <2>1. \A g \in DOMAIN files' : files'[g].open => dev'.erased # LastBlock(g)'
    OBVIOUS
  <2> QED BY <1>2, <2>1 DEF TakenFit
<1>6. held' = held
  BY DEF held, Named
<1>7. ListFit'
  <2>1. \A b : InAvailable(b)' <=> InAvailable(b)
    BY <1>3, Availables
  <2>2. \A b \in Block : InAvailable(b) => ~ Owned(b)
    BY <1>1 DEF ListFit
  <2>3. \A b \in Block : InAvailable(b)' => ~ Owned(b)' /\ Will(b, STAT, "first", "key")'
    BY <2>1, <2>2
  <2>4. \A b \in pending' : b \in Used /\ Unallocated(b)' /\ ~ (cache'.open /\ cache'.block = b)
    <3> SUFFICES ASSUME NEW b \in pending PROVE b \in Used /\ Unallocated(b)' /\ ~ (cache.open /\ cache.block = b)
      BY <1>3
    <3>1. b \in Used /\ Unallocated(b) /\ ~ (cache.open /\ cache.block = b)
      BY <1>1 DEF ListFit
    <3>2. Unallocated(b)'
      BY <1>6, <3>1 DEF Unallocated, IsInode, IsInode0, IsFileBlock, Holds
    <3> QED BY <3>1, <3>2
  <2> QED BY <2>3, <2>4 DEF ListFit
<1>8. \A i \in 1 .. Len(todo') : todo'[i].op \notin { "lists", "push" }
  BY DEF Plain, PlainOps
<1>9. DrawFit'
  BY <1>2, <1>8 DEF DrawFit
<1>10. AwayFit'
  <2>1. PICK y : y = todo'[Len(todo')]
    OBVIOUS
  <2>2. y.op \in { "open", "see", "write", "spare" } /\ ~ InAvailable(y.b)
    BY <2>1
  <2>3. (todo[Len(todo)].op \in { "open", "see", "write", "spare" } /\ ~ InAvailable(todo[Len(todo)].b))'
    BY <1>3, <2>1, <2>2 DEF InAvailable
  <2> QED BY <2>3 DEF AwayFit
<1>11. FutureFit'
  BY DEF FutureFit
<1> QED BY <1>3, <1>4, <1>5, <1>7, <1>9, <1>10, <1>11

LEMMA AppendDoes ==
  ASSUME NEW e, NEW b, e # b,
         NEW t, t = Open(e, TAIL) \o Write(e, TAIL, "first", "tail") \o Open(b, INIT) \o InodeHead(b)
  PROVE  /\ Does(t, { Part(e, TAIL, "first", "tail"), Part(b, INIT, "first", "inode"), Part(b, INIT, "spare", "inode") }, {})
         /\ Plain(t) /\ \E y : Ends(t, y) /\ y.op = "spare" /\ y.b = b
<1> DEFINE p == Part(e, TAIL, "first", "tail")  q == Part(b, INIT, "first", "inode")  z == Part(b, INIT, "spare", "inode")
           a1 == Open(e, TAIL)  a2 == Write(e, TAIL, "first", "tail")  a3 == Open(b, INIT)
           a4 == Write(b, INIT, "first", "inode")  a5 == Spare(b, INIT, "inode")
<1>1. Cell(p) # Cell(q) /\ Cell(p) # Cell(z) /\ Cell(q) # Cell(z)
  <2>1. Cell(p) = << e, TAIL, "first" >> /\ Cell(q) = << b, INIT, "first" >> /\ Cell(z) = << b, INIT, "spare" >>
    BY PartIsIt
  <2> QED BY <2>1
<1>2. t = ((a1 \o a2) \o a3) \o (a4 \o a5)
  BY DEF InodeHead
<1>3. /\ Does(a1, {}, {}) /\ Plain(a1) /\ Does(a2, { p }, {}) /\ Plain(a2) /\ Does(a3, {}, {}) /\ Plain(a3)
      /\ Does(a4, { q }, {}) /\ Plain(a4) /\ Does(a5, { z }, {}) /\ Plain(a5)
  BY OpDoes
<1>4. \E y : a5 = << y >> /\ y.op = "spare" /\ y.b = b
  BY OpFields DEF Spare
<1> HIDE DEF p, q, z, a1, a2, a3, a4, a5
<1>5. Does(a1 \o a2, { p }, {}) /\ Plain(a1 \o a2)
  <2> DEFINE N == {}
  <2>1. Does(a1, N, {}) /\ (\A c \in N, d \in { p } : Cell(c) # Cell(d)) /\ N \cup { p } = { p }
    BY <1>3
  <2> HIDE DEF N
  <2>2. Does(a1 \o a2, N \cup { p }, {})
    BY <1>3, <2>1, DoesAfter
  <2> QED BY <1>3, <2>1, <2>2, PlainConcat
<1>6. Does((a1 \o a2) \o a3, { p }, {}) /\ Plain((a1 \o a2) \o a3)
  <2> DEFINE N == {}  u == a1 \o a2
  <2>1. Does(u, { p }, {}) /\ Does(a3, N, {}) /\ (\A c \in { p }, d \in N : Cell(c) # Cell(d)) /\ { p } \cup N = { p } /\ Plain(u)
    BY <1>3, <1>5
  <2> HIDE DEF N, u
  <2>2. Does(u \o a3, { p } \cup N, {})
    BY <1>3, <2>1, DoesAfter
  <2>3. Does(u \o a3, { p }, {}) /\ Plain(u \o a3)
    BY <1>3, <2>1, <2>2, PlainConcat
  <2> QED BY <2>3 DEF u
<1>7. Does(a4 \o a5, { q } \cup { z }, {}) /\ Plain(a4 \o a5)
  <2>1. \A c \in { q }, d \in { z } : Cell(c) # Cell(d)
    BY <1>1
  <2> QED BY <1>3, <2>1, DoesAfter, PlainConcat
<1>8. \E y : Ends(a4 \o a5, y) /\ y.op = "spare" /\ y.b = b
  <2>1. PICK y : a5 = << y >> /\ y.op = "spare" /\ y.b = b
    BY <1>4
  <2>2. Ends(a5, y) /\ IsList(a4)
    BY <1>3, <2>1, EndsOne DEF Plain
  <2> QED BY <2>1, <2>2, EndsConcat
<1> DEFINE u == (a1 \o a2) \o a3  v == a4 \o a5
<1>9. t = u \o v /\ Does(u, { p }, {}) /\ Plain(u) /\ Does(v, { q } \cup { z }, {}) /\ Plain(v)
      /\ \E y : Ends(v, y) /\ y.op = "spare" /\ y.b = b
  BY <1>2, <1>6, <1>7, <1>8
<1> HIDE DEF u, v
<1>10. Does(u \o v, { p } \cup ({ q } \cup { z }), {}) /\ Plain(u \o v)
  <2>1. \A c \in { p }, d \in { q } \cup { z } : Cell(c) # Cell(d)
    BY <1>1
  <2> QED BY <1>9, <2>1, DoesAfter, PlainConcat
<1>11. \E y : Ends(u \o v, y) /\ y.op = "spare" /\ y.b = b
  <2>1. PICK y : Ends(v, y) /\ y.op = "spare" /\ y.b = b
    BY <1>9
  <2>2. IsList(u)
    BY <1>9 DEF Plain
  <2> QED BY <2>1, <2>2, EndsConcat
<1>12. { p } \cup ({ q } \cup { z }) = { p, q, z }
  OBVIOUS
<1>13. Does(t, { p, q, z }, {}) /\ Plain(t) /\ \E y : Ends(t, y) /\ y.op = "spare" /\ y.b = b
  BY <1>9, <1>10, <1>11, <1>12
<1> QED BY <1>13 DEF p, q, z

(* The blocks that have to be there for the entries of the files.          *)
LEMMA TableGrows ==
  ASSUME SystemInv, whole
  PROVE  /\ Newest \in Nat \ {0} /\ Len(ichain) \in Nat
         /\ ~ InFront => EntryBlock(Newest) = ichain[Len(ichain)] /\ Len(ichain) = (Newest - 1) \div EntriesPerBlock + 1
         /\ NeedsBlock => Newest \div EntriesPerBlock = (Newest - 1) \div EntriesPerBlock + 1
         /\ \A k \in 1 .. Newest : (k - 1) \div EntriesPerBlock + 1 \in 1 .. Len(ichain)
<1>1. Newest \in Nat \ {0} /\ ichain \in Seq(Block) /\ Grown(Newest)
  BY FilesAre DEF SystemInv, MeantInv, TableFit
<1>2. PICK e : e = EntriesPerBlock
  OBVIOUS
<1>3. e \in Nat \ {0}
  BY <1>2, EntriesAre
<1>4. PICK L \in Nat : L = Len(ichain)
  BY <1>1
<1>5. PICK k \in Nat \ {0} : k = Newest
  BY <1>1
<1>6. PICK q \in Nat : q = (k - 1) \div e
  <2>1. k - 1 \in Nat
    OBVIOUS
  <2> QED BY <1>3, <2>1, Divided
<1>7. L >= q + 1
  BY <1>1, <1>2, <1>4, <1>5, <1>6 DEF Grown
<1>8. ~ InFront => L = q + 1
  BY <1>2, <1>4, <1>5, <1>6, <1>7 DEF InFront
<1>9. EntryBlock(Newest) = ichain[q + 1]
  BY <1>2, <1>5, <1>6 DEF EntryBlock
<1>10. NeedsBlock => k \div e = q + 1
  <2> SUFFICES ASSUME k % e = 0 PROVE k \div e = q + 1
    BY <1>2, <1>5 DEF NeedsBlock
  <2>1. PICK d \in Nat : d = k \div e
    BY <1>3, Divided
  <2>2. k = d * e
    <3>1. k = (k \div e) * e + (k % e) /\ k \in Nat
      BY <1>3, Divided
    <3> QED BY <1>3, <2>1, <3>1
  <2>3. d # 0
    BY <1>3, <2>2
  <2>4. k - 1 = (d - 1) * e + (e - 1) /\ d - 1 \in Nat /\ e - 1 \in 0 .. e - 1
    BY <1>3, <2>1, <2>2, <2>3
  <2>5. ((d - 1) * e + (e - 1)) \div e = d - 1
    BY <1>3, <2>4, Quotient
  <2> QED BY <1>6, <2>1, <2>4, <2>5
<1>11. ASSUME NEW j \in 1 .. k PROVE (j - 1) \div e + 1 \in 1 .. L
  <2>1. j - 1 \in Nat /\ k - 1 \in Nat /\ j - 1 <= k - 1
    OBVIOUS
  <2>2. (j - 1) \div e <= q /\ (j - 1) \div e \in Nat
    BY <1>3, <1>6, <2>1, DivMono, Divided
  <2> DEFINE d == (j - 1) \div e
  <2>3. d \in Nat /\ d <= q
    BY <2>2
  <2> HIDE DEF d
  <2>4. d + 1 \in 1 .. L
    BY <1>7, <2>3
  <2> QED BY <2>4 DEF d
<1> QED BY <1>1, <1>2, <1>4, <1>5, <1>6, <1>8, <1>9, <1>10, <1>11

LEMMA AppendInodeKept ==
  ASSUME Trusted, SystemInv, SystemInv', Kept, AppendInode
  PROVE  Kept'
<1>0. PICK b : b = call.b
  OBVIOUS
<1>1. NextPart("inode")
  BY DEF AppendInode
<1>2. /\ on /\ todo = << >> /\ whole /\ state = "mounted" /\ Listing /\ dirty = 0 /\ Future = held /\ plan = PlanIFAE
      /\ b \in Used /\ b \in Block /\ b # First /\ ~ Owned(b) /\ ~ InAvailable(b) /\ dev.erased # b
      /\ Will(b, STAT, "first", "key") /\ (\A c \in held : c.b = b => c.s = STAT)
      /\ ~ InFront /\ call.for = "create" /\ NeedsBlock
      /\ TableFit /\ FilesFit /\ PreInv /\ PhaseFit /\ TakenFit /\ ListFit /\ ContentKept
  <2> DEFINE part == "inode"
  <2>1. part \in { "inode", "entry", "tail" } /\ NextPart(part) /\ part = "inode" /\ part # "tail"
    BY <1>1
  <2> HIDE DEF part
  <2>2. plan = PlanIFAE
    BY <2>1, TakenParts
  <2>3. plan # PlanE
    BY <2>2, PlansAre
  <2> QED BY <1>0, <2>1, <2>2, <2>3, TakenParts
<1>3. PICK e : e = EntryBlock(Newest)
  OBVIOUS
<1>4. PICK L \in Nat : L = Len(ichain)
  BY <1>2, TableGrows
<1>5. /\ e = ichain[L] /\ L = (Newest - 1) \div EntriesPerBlock + 1 /\ L \in 1 .. L
      /\ Newest \in Nat \ {0} /\ Newest \div EntriesPerBlock = L
      /\ \A k \in 1 .. Newest : (k - 1) \div EntriesPerBlock + 1 \in 1 .. L
  <2>1. Newest \in Nat \ {0} /\ e = ichain[L] /\ L = (Newest - 1) \div EntriesPerBlock + 1
        /\ Newest \div EntriesPerBlock = (Newest - 1) \div EntriesPerBlock + 1
        /\ \A k \in 1 .. Newest : (k - 1) \div EntriesPerBlock + 1 \in 1 .. L
    BY <1>2, <1>3, <1>4, TableGrows
  <2>2. Newest \in 1 .. Newest
    BY <2>1
  <2> QED BY <2>1, <2>2
<1>6. e \in Block /\ TableBlock(e) /\ Owned(e) /\ e # b
  <2>1. Newest \in 1 .. Newest
    BY <1>5
  <2> QED BY <1>2, <1>3, <2>1, TableOwned
<1>7. ichain \in Seq(Block) /\ IsList(ichain)
  BY <1>2 DEF TableFit, IsList
<1>8. /\ plan' = PlanFAE /\ ichain' = Append(ichain, b) /\ call' = call
      /\ todo' = Open(e, TAIL) \o Write(e, TAIL, "first", "tail") \o Open(b, INIT) \o InodeHead(b)
      /\ UNCHANGED << pre, backend, mem, dev, cache, files, dirty, state, whole >>
  <2>1. /\ plan' = Tail(plan) /\ ichain' = Append(ichain, b) /\ call' = call
        /\ todo' = Open(e, TAIL) \o Write(e, TAIL, "first", "tail") \o Open(b, INIT) \o InodeHead(b)
        /\ UNCHANGED << pre, backend, layer, files, dirty, mounts >>
    BY <1>0, <1>3 DEF AppendInode, Goto
  <2> QED BY <1>2, <2>1, PlansAre DEF layer, mounts
<1>9. /\ Len(ichain') = L + 1 /\ (\A i \in 1 .. L : ichain'[i] = ichain[i]) /\ ichain'[L + 1] = b
  BY <1>4, <1>7, <1>8, ListAppend
<1> DEFINE P == { Part(e, TAIL, "first", "tail"), Part(b, INIT, "first", "inode"), Part(b, INIT, "spare", "inode") }
<1>10. /\ Does(todo', P, {}) /\ Plain(todo') /\ \E y : Ends(todo', y) /\ y.op = "spare" /\ y.b = b
  BY <1>6, <1>8, AppendDoes
<1>11. \A p \in P : (p.b = e /\ p.s = TAIL /\ p.part = "first") \/ (p.b = b /\ p.s = INIT /\ p.part # "rest")
  BY PartIsIt
<1>12. Part(b, INIT, "spare", "inode") \in P
  OBVIOUS
<1> HIDE DEF P
<1>13. \A c \in held : ~ (c.b = e /\ c.s = TAIL)
  <2> SUFFICES ASSUME NEW c \in held, c.b = e, c.s = TAIL PROVE FALSE
    OBVIOUS
  <2>1. TableSector(c)
    BY <1>2, <1>6 DEF ContentKept, EntriesFit, TAIL, STAT
  <2>2. \A k \in DOMAIN files : EntrySector(k) \in Nat /\ EntrySector(k) > 3
    <3>1. \A k \in DOMAIN files : k \in Nat \ {0}
      BY <1>2, FilesAre
    <3>2. \A k \in DOMAIN files : EntrySector(k) \in 4 .. LastSector - 1
      BY <3>1, EntriesAre DEF ENTRY
    <3> QED BY <3>2, LastSectorIs
  <2>3. c.s = 3 /\ ~ (c.b # ichain[Len(ichain)])
    BY <1>4, <1>5 DEF TAIL
  <2>4. \A k \in DOMAIN files : c.s # EntrySector(k) /\ c.s # EntrySector(k) + 1
    BY <2>2, <2>3
  <2> QED BY <2>1, <2>3, <2>4 DEF TableSector, INIT
<1>14. /\ ScriptKept' /\ Puts(todo)' = P /\ Erased(todo)' = {} /\ held' = held /\ Future' = held \cup P
  <2> DEFINE N == {}
  <2>1. Does(todo', P, N) /\ Whole(todo') /\ call'.for # "format"
    BY <1>2, <1>8, <1>10, AppendWhole
  <2>2. \A p \in P : \A c \in held : Cell(c) = Cell(p) => c.b \in N
    BY <1>2, <1>11, <1>13 DEF Cell, INIT, STAT
  <2>3. \A p \in P : p.part # "rest"
    BY <1>11
  <2>4. N = {}
    OBVIOUS
  <2> HIDE DEF N
  <2>5. /\ ScriptKept' /\ Puts(todo)' = P /\ Erased(todo)' = N /\ held' = held
        /\ Future' = { c \in held : c.b \notin N } \cup P
    BY <1>2, <1>8, <2>1, <2>2, <2>3, ScriptBegins
  <2> QED BY <2>4, <2>5
<1>15. \A x, y, part, tag : Will(x, y, part, tag) => Will(x, y, part, tag)'
  BY <1>2, <1>14 DEF Will
<1>16. /\ Live' = Live /\ Newest' = Newest /\ Live \subseteq DOMAIN files
       /\ \A g, x : InChain(g, x)' <=> InChain(g, x)
       /\ \A g : LastBlock(g)' = LastBlock(g) /\ StoredSectors(g)' = StoredSectors(g)
  BY <1>8 DEF Live, Newest, InChain, LastBlock, StoredSectors
<1>17. \A x : TableBlock(x)' <=> TableBlock(x) \/ x = b
  <2>1. ASSUME NEW x, TableBlock(x)' PROVE TableBlock(x) \/ x = b
    <3>1. PICK i \in 1 .. L + 1 : ichain'[i] = x
      BY <1>9, <2>1 DEF TableBlock
    <3>2. i \in 1 .. L \/ i = L + 1
      OBVIOUS
    <3> QED BY <1>4, <1>9, <3>1, <3>2 DEF TableBlock
  <2>2. ASSUME NEW x, TableBlock(x) PROVE TableBlock(x)'
    <3>1. PICK i \in 1 .. L : ichain[i] = x
      BY <1>4, <2>2 DEF TableBlock
    <3>2. i \in 1 .. L + 1 /\ ichain'[i] = x
      BY <1>9, <3>1
    <3> QED BY <1>9, <3>2 DEF TableBlock
  <2>3. ASSUME NEW x, x = b PROVE TableBlock(x)'
    <3>1. L + 1 \in 1 .. L + 1
      OBVIOUS
    <3> QED BY <1>9, <2>3, <3>1 DEF TableBlock
  <2> QED BY <2>1, <2>2, <2>3
<1>18. \A x : Owned(x)' <=> Owned(x) \/ x = b
  BY <1>16, <1>17 DEF Owned
<1>19. \A k \in 1 .. Newest : EntryBlock(k)' = EntryBlock(k) /\ TableBlock(EntryBlock(k))
  <2> SUFFICES ASSUME NEW k \in 1 .. Newest PROVE EntryBlock(k)' = EntryBlock(k) /\ TableBlock(EntryBlock(k))
    OBVIOUS
  <2>1. PICK i \in 1 .. L : i = (k - 1) \div EntriesPerBlock + 1
    BY <1>5
  <2>2. EntryBlock(k) = ichain[i] /\ EntryBlock(k)' = ichain'[i]
    BY <2>1 DEF EntryBlock, EntriesPerBlock
  <2> QED BY <1>4, <1>9, <2>1, <2>2 DEF TableBlock
<1>20. \A k \in DOMAIN files : k \in 1 .. Newest /\ EntryBlock(k)' = EntryBlock(k) /\ TableBlock(EntryBlock(k))
  <2>1. \A k \in DOMAIN files : k \in 1 .. Newest
    BY <1>2, FilesAre DEF Newest
  <2> QED BY <1>19, <2>1
<1>21. CleanFit'
  BY <1>2, <1>6, <1>8, <1>11, <1>14, <1>18 DEF ContentKept, CleanFit
<1>22. OwnedFit'
  <2>1. \A x \in Block : Owned(x)' => Will(x, STAT, "first", "key")'
    BY <1>2, <1>15, <1>18 DEF ContentKept, OwnedFit
  <2>2. \A g, h \in Live' : \A i \in 1 .. Len(files'[g].chain), j \in 1 .. Len(files'[h].chain) :
           files'[g].chain[i] = files'[h].chain[j] => g = h /\ i = j
    BY <1>2, <1>8, <1>16 DEF ContentKept, OwnedFit
  <2>3. \A g \in Live' : \A x \in Block : InChain(g, x)' => ~ TableBlock(x)'
    <3>1. \A g \in Live : ~ InChain(g, b)
      BY <1>2, OwnedCells
    <3> QED BY <1>2, <1>16, <1>17, <3>1 DEF ContentKept, OwnedFit
  <2>4. \A i, j \in 1 .. Len(ichain') : ichain'[i] = ichain'[j] => i = j
    <3>1. \A i \in 1 .. L : ichain[i] # b
      BY <1>2, <1>4 DEF Owned, TableBlock
    <3>2. \A i, j \in 1 .. L : ichain[i] = ichain[j] => i = j
      BY <1>2, <1>4 DEF ContentKept, OwnedFit
    <3>3. \A i \in 1 .. L + 1 : i \in 1 .. L \/ i = L + 1
      OBVIOUS
    <3> QED BY <1>9, <3>1, <3>2, <3>3
  <2> QED BY <2>1, <2>2, <2>3, <2>4 DEF OwnedFit
<1>23. StoredFit'
  <2> SUFFICES ASSUME NEW g \in Live
               PROVE /\ Will(EntryBlock(g), EntrySector(g), "first", "entry")'
                     /\ \A p \in StoredSectors(g)' : Will(p[1], p[2], "first", "file")' /\ Will(p[1], p[2], "spare", "file")'
    BY <1>16 DEF StoredFit
  <2>1. /\ Will(EntryBlock(g), EntrySector(g), "first", "entry")
        /\ \A p \in StoredSectors(g) : Will(p[1], p[2], "first", "file") /\ Will(p[1], p[2], "spare", "file")
    BY <1>2 DEF ContentKept, StoredFit
  <2>2. Will(EntryBlock(g), EntrySector(g), "first", "entry")'
    <3>1. EntryBlock(g)' = EntryBlock(g) /\ EntrySector(g)' = EntrySector(g)
      BY <1>16, <1>20 DEF EntrySector
    <3> QED BY <1>15, <2>1, <3>1 DEF Will
  <2>3. \A p \in StoredSectors(g)' : Will(p[1], p[2], "first", "file")' /\ Will(p[1], p[2], "spare", "file")'
    BY <1>15, <1>16, <2>1
  <2> QED BY <2>2, <2>3
<1>24. WriterFit'
  <2> SUFFICES ASSUME NEW g \in DOMAIN files, files[g].open
               PROVE  g \in Live' /\ \A c \in Future' : c.b = LastBlock(g)' /\ c.s # STAT => c.s \in Before(files[g].sector)
    BY <1>8 DEF WriterFit, Before
  <2>1. g \in Live /\ \A c \in Future : c.b = LastBlock(g) /\ c.s # STAT => c.s \in Before(files[g].sector)
    BY <1>2 DEF ContentKept, WriterFit
  <2>2. InChain(g, LastBlock(g)) /\ Owned(LastBlock(g)) /\ LastBlock(g) \in Block
    BY <1>2, <2>1, OwnedCells, BlocksAre
  <2>3. LastBlock(g) # b /\ LastBlock(g) # e
    BY <1>2, <1>6, <2>1, <2>2 DEF ContentKept, OwnedFit
  <2> QED BY <1>2, <1>11, <1>14, <1>16, <2>1, <2>3
<1>25. DirtyFit'
  BY <1>2, <1>8, <1>16 DEF ContentKept, DirtyFit
<1>26. EntriesFit'
  <2>1. ASSUME NEW c \in held, TableBlock(c.b)', c.s # STAT PROVE TableSector(c)'
    <3>1. TableBlock(c.b) /\ c.b # b
      BY <1>2, <1>17, <2>1
    <3>2. TableSector(c)
      BY <1>2, <2>1, <3>1 DEF ContentKept, EntriesFit
    <3>3. c.b # ichain'[Len(ichain')]
      BY <1>9, <3>1
    <3> QED BY <1>8, <1>20, <3>2, <3>3 DEF TableSector, EntrySector
  <2>2. ASSUME NEW c \in P PROVE TableSector(c)'
    <3>1. CASE c.b = e /\ c.s = TAIL
      BY <1>6, <1>9, <3>1 DEF TableSector
    <3>2. CASE c.s = INIT
      BY <3>2 DEF TableSector
    <3> QED BY <1>11, <3>1, <3>2
  <2>3. \A c \in Future' : TableBlock(c.b)' /\ c.s # STAT => TableSector(c)'
    BY <1>14, <2>1, <2>2
  <2>4. \A x \in Block : TableBlock(x)' => Will(x, INIT, "spare", "inode0")' \/ Will(x, INIT, "spare", "inode")'
    <3>1. Will(b, INIT, "spare", "inode")'
      BY <1>12, <1>14 DEF Will, Part
    <3> QED BY <1>2, <1>15, <1>17, <3>1 DEF ContentKept, EntriesFit
  <2> QED BY <2>3, <2>4 DEF EntriesFit
<1>27. RoomFit'
  BY <1>5, <1>9, <1>16 DEF RoomFit, EntriesPerBlock
<1>28. ContentKept'
  BY <1>21, <1>22, <1>23, <1>24, <1>25, <1>26, <1>27 DEF ContentKept
<1>29. PICK y : Ends(todo', y) /\ y.op = "spare" /\ y.b = b
  BY <1>10
<1>30. todo' # << >> /\ ~ InAvailable(todo'[Len(todo')].b) /\ todo'[Len(todo')].op \in { "write", "spare" }
  BY <1>2, <1>29 DEF Ends
<1>31. /\ \A x \in Block : InAvailable(x) /\ Owned(x)' => Owned(x)
       /\ \A x \in Block : InAvailable(x) => Will(x, STAT, "first", "key")'
       /\ \A g \in DOMAIN files' : files'[g].open => dev.erased # LastBlock(g)'
  <2>1. \A x \in Block : InAvailable(x) /\ Owned(x)' => Owned(x)
    BY <1>2, <1>18
  <2>2. \A x \in Block : InAvailable(x) => Will(x, STAT, "first", "key")'
    BY <1>2, <1>15 DEF ListFit
  <2>3. \A g \in DOMAIN files' : files'[g].open => dev.erased # LastBlock(g)'
    BY <1>2, <1>8, <1>16 DEF TakenFit
  <2> QED BY <2>1, <2>2, <2>3
<1>32. PreInv' /\ PhaseFit' /\ TakenFit' /\ ListFit' /\ DrawFit' /\ AwayFit' /\ FutureFit'
  <2>1. /\ todo = << >> /\ state = "mounted" /\ whole /\ Listing
        /\ ((plan' = PlanFAE /\ call'.for = "create") \/ (plan' = << >> /\ ~ InFront'))
        /\ call'.for \in { "create", "write" }
        /\ UNCHANGED << pre, backend, mem, dev, cache, state, whole >> /\ Plain(todo') /\ Erased(todo)' = {}
    BY <1>2, <1>8, <1>10, <1>14
  <2> QED BY <1>30, <1>31, <2>1, PartKept
<1> QED BY <1>14, <1>28, <1>32 DEF Kept

(* Each entry has its place in the table, and a place behind it.           *)
LEMMA EntryPlaces ==
  ASSUME SystemInv, ContentKept, whole, NEW j \in 1 .. Newest, NEW k \in 1 .. Newest, EntryBlock(j) = EntryBlock(k)
  PROVE  EntrySector(j) # EntrySector(k) + 1 /\ (EntrySector(j) = EntrySector(k) => j = k)
<1>1. PICK e \in Nat \ {0} : e = EntriesPerBlock
  BY EntriesAre
<1>2. j \in Nat \ {0} /\ k \in Nat \ {0} /\ j - 1 \in Nat /\ k - 1 \in Nat
  BY TableGrows
<1>3. /\ (j - 1) \div e \in Nat /\ (j - 1) % e \in 0 .. e - 1 /\ j - 1 = ((j - 1) \div e) * e + ((j - 1) % e)
  BY <1>1, <1>2, Divided
<1>4. /\ (k - 1) \div e \in Nat /\ (k - 1) % e \in 0 .. e - 1 /\ k - 1 = ((k - 1) \div e) * e + ((k - 1) % e)
  BY <1>1, <1>2, Divided
<1> DEFINE qj == (j - 1) \div e  rj == (j - 1) % e  qk == (k - 1) \div e  rk == (k - 1) % e
<1>5. /\ qj \in Nat /\ rj \in 0 .. e - 1 /\ j - 1 = qj * e + rj
      /\ qk \in Nat /\ rk \in 0 .. e - 1 /\ k - 1 = qk * e + rk
  BY <1>3, <1>4
<1>6. EntrySector(j) = 4 + 2 * rj /\ EntrySector(k) = 4 + 2 * rk
  BY <1>1 DEF EntrySector, ENTRY
<1>7. EntryBlock(j) = ichain[qj + 1] /\ EntryBlock(k) = ichain[qk + 1]
  BY <1>1 DEF EntryBlock
<1>8. qj + 1 \in 1 .. Len(ichain) /\ qk + 1 \in 1 .. Len(ichain)
  BY <1>1, TableGrows
<1> HIDE DEF qj, rj, qk, rk
<1>9. qj + 1 = qk + 1
  BY <1>7, <1>8 DEF ContentKept, OwnedFit
<1>10. qj = qk
  BY <1>5, <1>9
<1>11. EntrySector(j) # EntrySector(k) + 1
  BY <1>5, <1>6
<1>12. ASSUME EntrySector(j) = EntrySector(k) PROVE j = k
  <2>1. rj = rk
    BY <1>5, <1>6, <1>12
  <2>2. j - 1 = k - 1
    BY <1>5, <1>10, <2>1
  <2> QED BY <1>2, <2>2
<1> QED BY <1>11, <1>12

LEMMA WriteEntryKept ==
  ASSUME Trusted, SystemInv, SystemInv', Kept, WriteEntry
  PROVE  Kept'
<1>0. PICK b : b = call.b
  OBVIOUS
<1>1. NextPart("entry")
  BY DEF WriteEntry
<1>2. /\ on /\ todo = << >> /\ whole /\ state = "mounted" /\ Listing /\ dirty = 0 /\ Future = held /\ plan = PlanE
      /\ b \in Used /\ b \in Block /\ b # First /\ ~ Owned(b) /\ ~ InAvailable(b) /\ dev.erased # b
      /\ Will(b, STAT, "first", "key") /\ (\A c \in held : c.b = b => c.s = STAT)
      /\ call.for = "create" /\ call.f = Newest
      /\ TableFit /\ FilesFit /\ PreInv /\ PhaseFit /\ TakenFit /\ ListFit /\ ContentKept
  <2> DEFINE part == "entry"
  <2>1. part \in { "inode", "entry", "tail" } /\ NextPart(part) /\ part = "entry" /\ part # "tail"
    BY <1>1
  <2> HIDE DEF part
  <2> QED BY <1>0, <2>1, TakenParts
<1>3. PICK f \in Nat \ {0} : f = Newest
  BY <1>2, TableGrows
<1>4. DOMAIN files = 1 .. f - 1 /\ Len(files) = f - 1 /\ IsList(files)
  <2>1. Len(files) \in Nat /\ DOMAIN files = 1 .. Len(files) /\ IsList(files)
    BY <1>2, FilesAre
  <2>2. f = Len(files) + 1
    BY <1>3 DEF Newest
  <2>3. Len(files) = f - 1
    BY <2>1, <2>2
  <2> QED BY <2>1, <2>3
<1>5. PICK e : e = EntryBlock(f)
  OBVIOUS
<1>6. PICK s : s = EntrySector(f)
  OBVIOUS
<1>7. e \in Block /\ TableBlock(e) /\ Owned(e) /\ ~ InAvailable(e) /\ e # b
  <2>1. f \in 1 .. Newest
    BY <1>3
  <2> QED BY <1>2, <1>5, <2>1, TableOwned
<1>8. s \in 4 .. LastSector - 1 /\ s \in Nat /\ s # STAT /\ s # INIT /\ s # TAIL
  <2>1. s \in 4 .. LastSector - 1
    BY <1>3, <1>6, EntriesAre DEF ENTRY
  <2> QED BY <2>1, LastSectorIs DEF STAT, INIT, TAIL
<1> DEFINE r == [ chain |-> << b >>, sector |-> INIT, dead |-> FALSE, open |-> TRUE ]
<1>9. /\ plan' = << >> /\ files' = Append(files, r) /\ call' = call /\ dirty' = f
      /\ todo' = Open(e, s) \o Write(e, s, "first", "entry")
      /\ UNCHANGED << pre, backend, mem, dev, cache, ichain, state, whole >>
  <2>1. /\ plan' = Tail(plan) /\ files' = Append(files, r) /\ call' = call /\ dirty' = f
        /\ todo' = Open(e, s) \o Write(e, s, "first", "entry")
        /\ UNCHANGED << pre, backend, layer, ichain, mounts >>
    BY <1>0, <1>2, <1>3, <1>5, <1>6 DEF WriteEntry, Goto
  <2> QED BY <1>2, <2>1, PlansAre DEF layer, mounts
<1>10. r.chain = << b >> /\ r.sector = INIT /\ ~ r.dead /\ r.open
  OBVIOUS
<1>90. PICK u : u = << b >>
  OBVIOUS
<1>91. r.chain = u /\ IsList(u) /\ Len(u) = 1 /\ u[1] = b
  BY <1>90, <1>10, ListOne
<1> HIDE DEF r
<1>11. /\ DOMAIN files' = 1 .. f /\ Len(files') = f
       /\ (\A g \in 1 .. f - 1 : files'[g] = files[g] /\ g \in 1 .. f /\ g # f) /\ files'[f] = r /\ f \in 1 .. f
       /\ \A g \in 1 .. f : g \in 1 .. f - 1 \/ g = f
  <2>1. IsList(files') /\ Len(files') = Len(files) + 1
        /\ (\A i \in 1 .. Len(files) : files'[i] = files[i]) /\ files'[Len(files) + 1] = r
    BY <1>4, <1>9, ListAppend
  <2>2. Len(files) + 1 = f
    BY <1>4
  <2> QED BY <1>4, <2>1, <2>2, ListLen
<1>12. PICK p : p = Part(e, s, "first", "entry")
  OBVIOUS
<1>13. p.b = e /\ p.s = s /\ p.part = "first"
  BY <1>12, PartIsIt
<1> DEFINE P == { p }
<1>14. Does(todo', P, {}) /\ Plain(todo') /\ Whole(todo') /\ \E y : Ends(todo', y) /\ y.op = "write" /\ y.b = e
  <2> DEFINE a1 == Open(e, s)  a2 == Write(e, s, "first", "entry")
  <2>1. /\ Does(a1, {}, {}) /\ Plain(a1) /\ Does(a2, { p }, {}) /\ Plain(a2)
    BY <1>12, OpDoes
  <2>2. \E y : a2 = << y >> /\ y.op = "write" /\ y.b = e
    BY OpFields DEF Write
  <2>3. todo' = a1 \o a2 /\ Whole(a1 \o a2)
    BY <1>9, OpenWriteWhole
  <2> HIDE DEF a1, a2
  <2> DEFINE N == {}
  <2>4. Does(a1, N, {}) /\ (\A c \in N, d \in P : Cell(c) # Cell(d)) /\ N \cup P = P /\ Does(a2, P, {})
    BY <2>1
  <2> HIDE DEF N, P
  <2>5. Does(a1 \o a2, N \cup P, {}) /\ Plain(a1 \o a2)
    BY <2>1, <2>4, DoesAfter, PlainConcat
  <2>6. \E y : Ends(a1 \o a2, y) /\ y.op = "write" /\ y.b = e
    <3>1. PICK y : a2 = << y >> /\ y.op = "write" /\ y.b = e
      BY <2>2
    <3>2. Ends(a2, y) /\ IsList(a1)
      BY <2>1, <3>1, EndsOne DEF Plain
    <3> QED BY <3>1, <3>2, EndsConcat
  <2> QED BY <2>3, <2>4, <2>5, <2>6
<1>15. \A c \in held : ~ (c.b = e /\ c.s = s)
  <2> SUFFICES ASSUME NEW c \in held, c.b = e, c.s = s PROVE FALSE
    OBVIOUS
  <2>1. TableSector(c)
    BY <1>2, <1>7, <1>8 DEF ContentKept, EntriesFit
  <2>2. PICK k \in DOMAIN files : e = EntryBlock(k) /\ (s = EntrySector(k) \/ s = EntrySector(k) + 1)
    BY <1>8, <2>1 DEF TableSector
  <2>3. k \in 1 .. Newest /\ f \in 1 .. Newest /\ k # f
    BY <1>3, <1>4
  <2> QED BY <1>2, <1>5, <1>6, <2>2, <2>3, EntryPlaces
<1>16. p \in P /\ \A c \in P : c = p
  OBVIOUS
<1> HIDE DEF P
<1>17. /\ ScriptKept' /\ Puts(todo)' = P /\ Erased(todo)' = {} /\ held' = held /\ Future' = held \cup P
  <2> DEFINE N == {}
  <2>1. Does(todo', P, N) /\ Whole(todo') /\ call'.for # "format"
    BY <1>2, <1>9, <1>14
  <2>2. \A q \in P : \A c \in held : Cell(c) = Cell(q) => c.b \in N
    BY <1>13, <1>15, <1>16 DEF Cell
  <2>3. \A q \in P : q.part # "rest"
    BY <1>13, <1>16
  <2>4. N = {}
    OBVIOUS
  <2> HIDE DEF N
  <2>5. /\ ScriptKept' /\ Puts(todo)' = P /\ Erased(todo)' = N /\ held' = held
        /\ Future' = { c \in held : c.b \notin N } \cup P
    BY <1>2, <1>9, <2>1, <2>2, <2>3, ScriptBegins
  <2> QED BY <2>4, <2>5
<1>18. \A x, y, part, tag : Will(x, y, part, tag) => Will(x, y, part, tag)'
  BY <1>2, <1>17 DEF Will
<1>19. /\ Live' = Live \cup { f } /\ Live \subseteq 1 .. f - 1
       /\ \A g \in 1 .. f - 1 : \A x : InChain(g, x)' <=> InChain(g, x)
       /\ \A x : InChain(f, x)' <=> x = b
       /\ \A x : TableBlock(x)' <=> TableBlock(x)
       /\ \A g \in 1 .. f - 1 : LastBlock(g)' = LastBlock(g) /\ StoredSectors(g)' = StoredSectors(g)
       /\ LastBlock(f)' = b /\ StoredSectors(f)' = {}
       /\ \A k : EntryBlock(k)' = EntryBlock(k) /\ EntrySector(k)' = EntrySector(k)
  <2>1. Live' = Live \cup { f } /\ Live \subseteq 1 .. f - 1
    BY <1>4, <1>10, <1>11 DEF Live
  <2>2. \A g \in 1 .. f - 1 : \A x : InChain(g, x)' <=> InChain(g, x)
    BY <1>11 DEF InChain
  <2>3. IsList(files'[f].chain) /\ Len(files'[f].chain) = 1 /\ files'[f].chain[1] = b
    BY <1>91, <1>11
  <2>4. \A x : InChain(f, x)' <=> x = b
    BY <2>3 DEF InChain
  <2>5. \A g \in 1 .. f - 1 : LastBlock(g)' = LastBlock(g) /\ StoredSectors(g)' = StoredSectors(g)
    BY <1>11 DEF LastBlock, StoredSectors, Before
  <2>6. LastBlock(f)' = b
    BY <2>3 DEF LastBlock
  <2>7. StoredSectors(f)' = {}
    <3>1. Before(INIT) = {}
      BY DEF Before, INIT, TAIL
    <3>2. files'[f].sector = INIT
      BY <1>10, <1>11
    <3>3. PICK ch : ch = files'[f].chain
      OBVIOUS
    <3>4. PICK X : X = Before(files'[f].sector)
      OBVIOUS
    <3>5. X = {}
      BY <3>1, <3>2, <3>4
    <3>6. PICK D : D = 1 .. Len(ch) - 1
      OBVIOUS
    <3>7. D = {}
      <4>1. Len(ch) = 1
        BY <2>3, <3>3
      <4> QED BY <3>6, <4>1
    <3>8. StoredSectors(f)' =
            { << ch[i], x >> : i \in D, x \in 1 .. LastSector } \cup { << ch[Len(ch)], x >> : x \in X }
      BY <3>3, <3>4, <3>6 DEF StoredSectors, Before
    <3>9. { << ch[i], x >> : i \in D, x \in 1 .. LastSector } = {}
      BY <3>7
    <3>10. { << ch[Len(ch)], x >> : x \in X } = {}
      BY <3>5
    <3> QED BY <3>8, <3>9, <3>10
  <2>8. \A x : TableBlock(x)' <=> TableBlock(x)
    BY <1>9 DEF TableBlock
  <2>9. \A k : EntryBlock(k)' = EntryBlock(k) /\ EntrySector(k)' = EntrySector(k)
    BY <1>9 DEF EntryBlock, EntrySector
  <2> QED BY <2>1, <2>2, <2>4, <2>5, <2>6, <2>7, <2>8, <2>9
<1>20. \A x : Owned(x)' <=> Owned(x) \/ x = b
  BY <1>19 DEF Owned
<1>21. CleanFit'
  BY <1>2, <1>7, <1>9, <1>13, <1>16, <1>17, <1>20 DEF ContentKept, CleanFit
<1>22. \A g \in Live : ~ InChain(g, b)
  BY <1>2, OwnedCells
<1>23. OwnedFit'
  <2>1. \A x \in Block : Owned(x)' => Will(x, STAT, "first", "key")'
    BY <1>2, <1>18, <1>20 DEF ContentKept, OwnedFit
  <2>2. ASSUME NEW g \in Live', NEW h \in Live', NEW i \in 1 .. Len(files'[g].chain), NEW j \in 1 .. Len(files'[h].chain),
               files'[g].chain[i] = files'[h].chain[j]
        PROVE  g = h /\ i = j
    <3>1. (g \in Live \/ g = f) /\ (h \in Live \/ h = f) /\ Live \subseteq 1 .. f - 1
      BY <1>19
    <3>2. IsList(files'[f].chain) /\ Len(files'[f].chain) = 1 /\ files'[f].chain[1] = b
      BY <1>91, <1>11
    <3>3. CASE g \in Live /\ h \in Live
      <4>1. files'[g] = files[g] /\ files'[h] = files[h]
        BY <1>11, <3>1, <3>3
      <4> QED BY <1>2, <2>2, <3>3, <4>1 DEF ContentKept, OwnedFit
    <3>4. CASE g \in Live /\ h = f
      <4>1. files'[g] = files[g] /\ files'[h].chain[j] = b
        BY <1>11, <3>1, <3>2, <3>4
      <4>2. InChain(g, b)
        BY <2>2, <4>1 DEF InChain
      <4> QED BY <1>22, <3>4, <4>2
    <3>5. CASE g = f /\ h \in Live
      <4>1. files'[h] = files[h] /\ files'[g].chain[i] = b
        BY <1>11, <3>1, <3>2, <3>5
      <4>2. InChain(h, b)
        BY <2>2, <4>1 DEF InChain
      <4> QED BY <1>22, <3>5, <4>2
    <3>6. CASE g = f /\ h = f
      <4>1. i \in 1 .. 1 /\ j \in 1 .. 1
        BY <3>2, <3>6
      <4> QED BY <3>6, <4>1
    <3> QED BY <3>1, <3>3, <3>4, <3>5, <3>6
  <2>3. \A g \in Live' : \A x \in Block : InChain(g, x)' => ~ TableBlock(x)'
    <3>1. ~ TableBlock(b)
      BY <1>2 DEF Owned
    <3> QED BY <1>2, <1>19, <3>1 DEF ContentKept, OwnedFit
  <2>4. \A i, j \in 1 .. Len(ichain') : ichain'[i] = ichain'[j] => i = j
    BY <1>2, <1>9 DEF ContentKept, OwnedFit
  <2>5. \A g, h \in Live' : \A i \in 1 .. Len(files'[g].chain), j \in 1 .. Len(files'[h].chain) :
           files'[g].chain[i] = files'[h].chain[j] => g = h /\ i = j
    BY <2>2
  <2> QED BY <2>1, <2>3, <2>4, <2>5 DEF OwnedFit
<1>24. StoredFit'
  <2> SUFFICES ASSUME NEW g \in Live'
               PROVE /\ Will(EntryBlock(g), EntrySector(g), "first", "entry")'
                     /\ \A q \in StoredSectors(g)' : Will(q[1], q[2], "first", "file")' /\ Will(q[1], q[2], "spare", "file")'
    BY DEF StoredFit
  <2>1. CASE g = f
    <3>1. p \in Future'
      BY <1>16, <1>17
    <3>2. Will(EntryBlock(g), EntrySector(g), "first", "entry")'
      BY <1>5, <1>6, <1>12, <1>19, <2>1, <3>1 DEF Will, Part
    <3> QED BY <1>19, <2>1, <3>2
  <2>2. CASE g \in Live
    <3>1. /\ Will(EntryBlock(g), EntrySector(g), "first", "entry")
          /\ \A q \in StoredSectors(g) : Will(q[1], q[2], "first", "file") /\ Will(q[1], q[2], "spare", "file")
      BY <1>2, <2>2 DEF ContentKept, StoredFit
    <3>2. Will(EntryBlock(g), EntrySector(g), "first", "entry")'
      BY <1>18, <1>19, <3>1 DEF Will
    <3>3. StoredSectors(g)' = StoredSectors(g)
      BY <1>19, <2>2
    <3> QED BY <1>18, <3>1, <3>2, <3>3
  <2> QED BY <1>19, <2>1, <2>2
<1>25. WriterFit'
  <2> SUFFICES ASSUME NEW g \in 1 .. f, files'[g].open
               PROVE  g \in Live' /\ \A c \in Future' : c.b = LastBlock(g)' /\ c.s # STAT => c.s \in Before(files'[g].sector)
    BY <1>11 DEF WriterFit, Before
  <2>1. CASE g = f
    BY <1>2, <1>7, <1>13, <1>16, <1>17, <1>19, <2>1
  <2>2. CASE g \in 1 .. f - 1
    <3>0. files'[g] = files[g] /\ files[g].open /\ g \in DOMAIN files
      BY <1>4, <1>11, <2>2
    <3>1. g \in Live /\ \A c \in Future : c.b = LastBlock(g) /\ c.s # STAT => c.s \in Before(files[g].sector)
      BY <1>2, <3>0 DEF ContentKept, WriterFit
    <3>2. InChain(g, LastBlock(g)) /\ LastBlock(g) \in Block
      BY <1>2, <3>1, OwnedCells, BlocksAre
    <3>3. LastBlock(g) # e
      BY <1>2, <1>7, <3>1, <3>2 DEF ContentKept, OwnedFit
    <3> QED BY <1>2, <1>13, <1>16, <1>17, <1>19, <2>2, <3>0, <3>1, <3>3
  <2> QED BY <1>11, <2>1, <2>2
<1>26. DirtyFit'
  <2>1. \A g \in Live' : files'[g].sector = INIT => dirty' = g
    <3>1. \A g \in Live : files[g].sector # INIT
      <4>1. \A g \in Live : g # 0
        BY <1>19
      <4> QED BY <1>2, <4>1 DEF ContentKept, DirtyFit
    <3> QED BY <1>9, <1>11, <1>19, <3>1
  <2>2. dirty' \in Live' /\ files'[dirty'].open
    BY <1>9, <1>10, <1>11, <1>19
  <2> QED BY <2>1, <2>2 DEF DirtyFit
<1>27. EntriesFit'
  <2>1. ASSUME NEW c, TableSector(c) PROVE TableSector(c)'
    <3>1. CASE c.s = INIT \/ (c.s = TAIL /\ c.b # ichain[Len(ichain)])
      BY <1>9, <3>1 DEF TableSector
    <3>2. CASE \E k \in DOMAIN files : c.b = EntryBlock(k) /\ (c.s = EntrySector(k) \/ (c.s = EntrySector(k) + 1 /\ files[k].dead))
      <4>1. PICK k \in DOMAIN files : c.b = EntryBlock(k) /\ (c.s = EntrySector(k) \/ (c.s = EntrySector(k) + 1 /\ files[k].dead))
        BY <3>2
      <4>2. k \in DOMAIN files' /\ files'[k] = files[k]
        BY <1>4, <1>11
      <4> QED BY <1>19, <4>1, <4>2 DEF TableSector
    <3> QED BY <2>1, <3>1, <3>2 DEF TableSector
  <2>2. TableSector(p)'
    <3>1. f \in DOMAIN files'
      BY <1>11
    <3> QED BY <1>5, <1>6, <1>13, <1>19, <3>1 DEF TableSector
  <2>3. \A c \in Future' : TableBlock(c.b)' /\ c.s # STAT => TableSector(c)'
    <3>1. \A c \in held : TableBlock(c.b) /\ c.s # STAT => TableSector(c)
      BY <1>2 DEF ContentKept, EntriesFit
    <3> QED BY <1>16, <1>17, <1>19, <2>1, <2>2, <3>1
  <2>4. \A x \in Block : TableBlock(x)' => Will(x, INIT, "spare", "inode0")' \/ Will(x, INIT, "spare", "inode")'
    BY <1>2, <1>18, <1>19 DEF ContentKept, EntriesFit
  <2> QED BY <2>3, <2>4 DEF EntriesFit
<1>28. RoomFit' /\ ~ InFront'
  <2>1. PICK d \in Nat \ {0} : d = EntriesPerBlock
    BY EntriesAre
  <2>2. PICK L \in Nat : L = Len(ichain)
    BY <1>2, TableGrows
  <2>3. PICK q \in Nat : q = f \div d
    BY <2>1, Divided
  <2>4. L <= q + 1
    BY <1>2, <1>3, <2>1, <2>2, <2>3 DEF ContentKept, RoomFit
  <2>5. Newest' = f + 1 /\ Len(ichain') = L
    BY <1>9, <1>11, <2>2 DEF Newest
  <2>6. PICK z \in Nat : z = (f + 1) \div d
    BY <2>1, Divided
  <2>7. q <= z
    <3>1. f \in Nat /\ f + 1 \in Nat /\ f <= f + 1
      OBVIOUS
    <3> QED BY <2>1, <2>3, <2>6, <3>1, DivMono
  <2>8. RoomFit'
    <3>1. L <= z + 1
      BY <2>4, <2>7
    <3> QED BY <2>1, <2>5, <2>6, <3>1 DEF RoomFit, EntriesPerBlock
  <2>9. ~ InFront'
    <3>1. ~ (L > q + 1)
      BY <2>4
    <3>2. f + 1 - 1 = f
      OBVIOUS
    <3>3. InFront' <=> L > ((f + 1 - 1) \div d) + 1
      BY <2>1, <2>5 DEF InFront, EntriesPerBlock
    <3> QED BY <2>3, <3>1, <3>2, <3>3
  <2> QED BY <2>8, <2>9
<1>29. ContentKept'
  BY <1>21, <1>23, <1>24, <1>25, <1>26, <1>27, <1>28 DEF ContentKept
<1>30. PICK y : Ends(todo', y) /\ y.op = "write" /\ y.b = e
  BY <1>14
<1>31. todo' # << >> /\ ~ InAvailable(todo'[Len(todo')].b) /\ todo'[Len(todo')].op \in { "write", "spare" }
  BY <1>7, <1>30 DEF Ends
<1>32. /\ \A x \in Block : InAvailable(x) /\ Owned(x)' => Owned(x)
       /\ \A x \in Block : InAvailable(x) => Will(x, STAT, "first", "key")'
       /\ \A g \in DOMAIN files' : files'[g].open => dev.erased # LastBlock(g)'
  <2>1. \A x \in Block : InAvailable(x) /\ Owned(x)' => Owned(x)
    BY <1>2, <1>20
  <2>2. \A x \in Block : InAvailable(x) => Will(x, STAT, "first", "key")'
    BY <1>2, <1>18 DEF ListFit
  <2>3. ASSUME NEW g \in 1 .. f, files'[g].open PROVE dev.erased # LastBlock(g)'
    <3>1. CASE g = f
      BY <1>2, <1>19, <3>1
    <3>2. CASE g \in 1 .. f - 1
      BY <1>2, <1>4, <1>11, <1>19, <2>3, <3>2 DEF TakenFit
    <3> QED BY <1>11, <3>1, <3>2
  <2> QED BY <1>11, <2>1, <2>2, <2>3
<1>33. PreInv' /\ PhaseFit' /\ TakenFit' /\ ListFit' /\ DrawFit' /\ AwayFit' /\ FutureFit'
  <2>1. /\ todo = << >> /\ state = "mounted" /\ whole /\ Listing
        /\ ((plan' = PlanFAE /\ call'.for = "create") \/ (plan' = << >> /\ ~ InFront'))
        /\ call'.for \in { "create", "write" }
        /\ UNCHANGED << pre, backend, mem, dev, cache, state, whole >> /\ Plain(todo') /\ Erased(todo)' = {}
    BY <1>2, <1>9, <1>14, <1>17, <1>28
  <2> QED BY <1>31, <1>32, <2>1, PartKept
<1> QED BY <1>17, <1>29, <1>33 DEF Kept

LEMMA LinkTailKept ==
  ASSUME Trusted, SystemInv, SystemInv', Kept, LinkTail
  PROVE  Kept'
<1>0. PICK b : b = call.b
  OBVIOUS
<1>1. NextPart("tail")
  BY DEF LinkTail
<1>00. PICK f : f = call.f
  OBVIOUS
<1>2. /\ on /\ todo = << >> /\ whole /\ state = "mounted" /\ Listing /\ dirty = 0 /\ Future = held /\ plan = PlanT
      /\ b \in Used /\ b \in Block /\ b # First /\ ~ Owned(b) /\ ~ InAvailable(b) /\ dev.erased # b
      /\ Will(b, STAT, "first", "key") /\ (\A c \in held : c.b = b => c.s = STAT)
      /\ call.for = "write" /\ f \in DOMAIN files /\ files[f].open /\ files[f].sector = TAIL /\ ~ InFront
      /\ TableFit /\ FilesFit /\ PreInv /\ PhaseFit /\ TakenFit /\ ListFit /\ ContentKept
  <2> DEFINE part == "tail"
  <2>1. part \in { "inode", "entry", "tail" } /\ NextPart(part) /\ part = "tail"
    BY <1>1
  <2> HIDE DEF part
  <2>2. plan = PlanT /\ plan # PlanE
    BY <2>1, TakenParts, PlansAre
  <2> QED BY <1>0, <1>00, <2>1, <2>2, TakenParts
<1>3. f \in Live /\ Live \subseteq DOMAIN files /\ f \in Nat \ {0}
  <2>1. f \in Live /\ Live \subseteq DOMAIN files
    BY <1>2 DEF ContentKept, WriterFit, Live
  <2>2. DOMAIN files \subseteq Nat \ {0}
    BY <1>2, FilesAre
  <2> QED BY <1>2, <2>1, <2>2
<1>4. PICK l : l = LastBlock(f)
  OBVIOUS
<1>5. l \in Used /\ l \in Block /\ l # First /\ l # b /\ InChain(f, l) /\ Owned(l) /\ ~ InAvailable(l) /\ ~ TableBlock(l)
      /\ dev.erased # l
  <2>1. InChain(f, l) /\ Owned(l) /\ l \in Used
    BY <1>2, <1>3, <1>4, OwnedCells
  <2>2. l \in Block /\ l # First
    BY <2>1, BlocksAre
  <2>3. ~ TableBlock(l)
    BY <1>2, <1>3, <2>1, <2>2 DEF ContentKept, OwnedFit
  <2>4. dev.erased # l
    BY <1>2, <1>4 DEF TakenFit
  <2> QED BY <1>2, <2>1, <2>2, <2>3, <2>4 DEF ListFit
<1>6. PICK k \in Nat \ {0} : k = Len(files[f].chain)
  <2>1. files[f].chain \in Seq(Used) /\ files[f].chain # << >>
    BY <1>2 DEF TableFit
  <2> QED BY <2>1
<1>7. IsList(files[f].chain) /\ files[f].chain[k] = l
  <2>1. files[f].chain \in Seq(Used)
    BY <1>2 DEF TableFit
  <2> QED BY <1>4, <1>6, <2>1 DEF IsList, LastBlock
<1> DEFINE c == Append(files[f].chain, b)
           r == WithSector(WithChain(files[f], c), INIT)
<1>8. IsList(c) /\ Len(c) = k + 1 /\ (\A i \in 1 .. k : c[i] = files[f].chain[i]) /\ c[k + 1] = b
  BY <1>6, <1>7, ListAppend
<1> HIDE DEF c
<1>9. FileFit(r) /\ r.chain = c /\ r.sector = INIT /\ r.dead = files[f].dead /\ r.open = files[f].open
  <2> DEFINE q == WithChain(files[f], c)
  <2>0. FileFit(files[f])
    BY <1>2 DEF FilesFit
  <2>1. FileFit(q) /\ q.chain = c /\ q.dead = files[f].dead /\ q.open = files[f].open
    BY <2>0, <1>8, FileFitWith, WithFields
  <2>2. INIT \in INIT .. LastSector
    BY LastSectorIs DEF INIT
  <2> HIDE DEF q
  <2>3. FileFit(WithSector(q, INIT))
    BY <2>1, <2>2, FileFitWith
  <2>4. WithSector(q, INIT).chain = c /\ WithSector(q, INIT).sector = INIT
        /\ WithSector(q, INIT).dead = files[f].dead /\ WithSector(q, INIT).open = files[f].open
    BY <2>1, WithFields
  <2> QED BY <2>3, <2>4 DEF q
<1>10. /\ plan' = << >> /\ files' = [ files EXCEPT ![f] = r ] /\ dirty' = f /\ call' = call
       /\ todo' = Sector(l, TAIL, "file", TRUE)
       /\ UNCHANGED << pre, backend, mem, dev, cache, ichain, state, whole >>
  <2>1. /\ plan' = Tail(plan) /\ files' = [ files EXCEPT ![f] = r ] /\ dirty' = f /\ call' = call
        /\ todo' = Sector(l, TAIL, "file", TRUE)
        /\ UNCHANGED << pre, backend, layer, ichain, mounts >>
    BY <1>0, <1>00, <1>4 DEF LinkTail, Goto, WithSector, WithChain, c
  <2> QED BY <1>2, <2>1, PlansAre DEF layer, mounts
<1> HIDE DEF r
<1>11. /\ DOMAIN files' = DOMAIN files /\ Len(files') = Len(files) /\ files'[f] = r
       /\ \A g \in DOMAIN files : g # f => files'[g] = files[g]
  <2>1. DOMAIN files' = DOMAIN files /\ Len(files') = Len(files)
    BY <1>2, <1>9, <1>10, OneFile
  <2> QED BY <1>2, <1>10, <2>1
<1>12. /\ files'[f].chain = c /\ files'[f].sector = INIT /\ files'[f].dead = files[f].dead /\ files'[f].open = files[f].open
  BY <1>9, <1>11
<1> DEFINE P == SectorParts(l, TAIL, "file", TRUE)
<1>13. Does(todo', P, {}) /\ Plain(todo') /\ Whole(todo') /\ \E y : Ends(todo', y) /\ y.op = "spare" /\ y.b = l
  <2>1. Whole(todo')
    BY <1>2, PartsWhole DEF Trusted
  <2> QED BY <1>10, <2>1, SectorDoes
<1>14. /\ \A p \in P : p.b = l /\ p.s = TAIL
       /\ Part(l, TAIL, "first", "file") \in P /\ Part(l, TAIL, "spare", "file") \in P
  BY PartIsIt DEF SectorParts
<1> HIDE DEF P
<1>15. \A d \in held : d.b = l => d.s # TAIL
  <2>1. \A d \in held : d.b = l /\ d.s # STAT => d.s \in Before(TAIL)
    BY <1>2, <1>4 DEF ContentKept, WriterFit
  <2>2. TAIL \notin Before(TAIL) /\ TAIL # STAT
    BY DEF Before, INIT, TAIL, STAT
  <2> QED BY <2>1, <2>2
<1>16. /\ ScriptKept' /\ Puts(todo)' = P /\ Erased(todo)' = {} /\ held' = held /\ Future' = held \cup P
  <2> DEFINE N == {}
  <2>1. Does(todo', P, N) /\ Whole(todo') /\ call'.for # "format"
    BY <1>2, <1>10, <1>13
  <2>2. \A q \in P : \A d \in held : Cell(d) = Cell(q) => d.b \in N
    BY <1>14, <1>15 DEF Cell
  <2>3. \A q \in P : q.part = "rest" => q.b # First /\ q.s # STAT /\ q.b # dev.erased /\ N = {}
    <3>1. TAIL # STAT
      BY DEF TAIL, STAT
    <3> QED BY <1>5, <1>14, <3>1
  <2>4. N = {}
    OBVIOUS
  <2> HIDE DEF N
  <2>5. /\ ScriptKept' /\ Puts(todo)' = P /\ Erased(todo)' = N /\ held' = held
        /\ Future' = { d \in held : d.b \notin N } \cup P
    <3>1. todo = << >> /\ UNCHANGED << mem, backend, dev, whole >>
      BY <1>2, <1>10
    <3> QED BY <2>1, <2>2, <2>3, <3>1, ScriptBegins
  <2> QED BY <2>4, <2>5
<1>17. \A x, y, part, tag : Will(x, y, part, tag) => Will(x, y, part, tag)'
  BY <1>2, <1>16 DEF Will
<1>18. /\ Live' = Live
       /\ \A g \in DOMAIN files : g # f => \A x : InChain(g, x)' <=> InChain(g, x)
       /\ \A x : InChain(f, x)' <=> InChain(f, x) \/ x = b
       /\ \A x : TableBlock(x)' <=> TableBlock(x)
       /\ \A g \in DOMAIN files : g # f => LastBlock(g)' = LastBlock(g) /\ StoredSectors(g)' = StoredSectors(g)
       /\ LastBlock(f)' = b
       /\ \A j : EntryBlock(j)' = EntryBlock(j) /\ EntrySector(j)' = EntrySector(j)
       /\ \A d : TableSector(d)' <=> TableSector(d)
       /\ Newest' = Newest /\ (InFront' <=> InFront)
  <2>1. Live' = Live
    BY <1>11, <1>12 DEF Live
  <2>2. \A g \in DOMAIN files : g # f => \A x : InChain(g, x)' <=> InChain(g, x)
    BY <1>11 DEF InChain
  <2>3. \A x : InChain(f, x)' <=> InChain(f, x) \/ x = b
    <3>1. \A i \in 1 .. k + 1 : i \in 1 .. k \/ i = k + 1
      OBVIOUS
    <3>2. \A i \in 1 .. k : i \in 1 .. k + 1
      OBVIOUS
    <3>3. k + 1 \in 1 .. k + 1
      OBVIOUS
    <3> QED BY <1>6, <1>8, <1>12, <3>1, <3>2, <3>3 DEF InChain
  <2>4. \A x : TableBlock(x)' <=> TableBlock(x)
    BY <1>10 DEF TableBlock
  <2>5. \A g \in DOMAIN files : g # f => LastBlock(g)' = LastBlock(g) /\ StoredSectors(g)' = StoredSectors(g)
    BY <1>11 DEF LastBlock, StoredSectors, Before
  <2>6. LastBlock(f)' = b
    BY <1>8, <1>12 DEF LastBlock
  <2>7. \A j : EntryBlock(j)' = EntryBlock(j) /\ EntrySector(j)' = EntrySector(j)
    BY <1>10 DEF EntryBlock, EntrySector
  <2>8. Newest' = Newest
    BY <1>11 DEF Newest
  <2>9. InFront' <=> InFront
    BY <1>10, <2>8 DEF InFront, EntriesPerBlock
  <2>10. \A d : TableSector(d)' <=> TableSector(d)
    <3>1. \A g \in DOMAIN files : files'[g].dead = files[g].dead
      BY <1>11, <1>12
    <3> QED BY <1>10, <1>11, <2>7, <3>1 DEF TableSector
  <2> QED BY <2>1, <2>2, <2>3, <2>4, <2>5, <2>6, <2>7, <2>8, <2>9, <2>10
<1>19. \A x : Owned(x)' <=> Owned(x) \/ x = b
  <2>1. \A g \in Live : \A x : InChain(g, x)' <=> InChain(g, x) \/ (g = f /\ x = b)
    BY <1>3, <1>18
  <2> QED BY <1>3, <1>18, <2>1 DEF Owned
<1>20. CleanFit'
  BY <1>2, <1>5, <1>10, <1>14, <1>16, <1>19 DEF ContentKept, CleanFit
<1>21. \A g \in Live : ~ InChain(g, b)
  BY <1>2, OwnedCells
<1>22. OwnedFit'
  <2>1. \A x \in Block : Owned(x)' => Will(x, STAT, "first", "key")'
    BY <1>2, <1>17, <1>19 DEF ContentKept, OwnedFit
  <2>2. ASSUME NEW g \in Live, NEW h \in Live, NEW i \in 1 .. Len(files'[g].chain), NEW j \in 1 .. Len(files'[h].chain),
               files'[g].chain[i] = files'[h].chain[j]
        PROVE  g = h /\ i = j
    <3>1. \A i1 \in 1 .. k + 1 : i1 \in 1 .. k \/ i1 = k + 1
      OBVIOUS
    <3>2. ASSUME NEW e \in Live, NEW q \in 1 .. Len(files'[e].chain)
          PROVE  \/ q \in 1 .. Len(files[e].chain) /\ files'[e].chain[q] = files[e].chain[q] /\ InChain(e, files'[e].chain[q])
                 \/ e = f /\ q = k + 1 /\ files'[e].chain[q] = b
      <4>1. CASE e = f
        <5>1. q \in 1 .. k + 1 /\ files'[e].chain = c
          BY <1>8, <1>12, <3>2, <4>1
        <5> QED BY <1>6, <1>8, <3>1, <4>1, <5>1 DEF InChain
      <4>2. CASE e # f
        BY <1>3, <1>11, <3>2, <4>2 DEF InChain
      <4> QED BY <4>1, <4>2
    <3>3. PICK a : a = files'[g].chain[i] /\ a = files'[h].chain[j]
      BY <2>2
    <3>4. CASE a = b
      <4>1. g = f /\ i = k + 1
        BY <1>21, <3>2, <3>3, <3>4
      <4>2. h = f /\ j = k + 1
        BY <1>21, <3>2, <3>3, <3>4
      <4> QED BY <4>1, <4>2
    <3>5. CASE a # b
      <4>1. i \in 1 .. Len(files[g].chain) /\ a = files[g].chain[i]
        BY <3>2, <3>3, <3>5
      <4>2. j \in 1 .. Len(files[h].chain) /\ a = files[h].chain[j]
        BY <3>2, <3>3, <3>5
      <4>3. \A m \in 1 .. Len(files[g].chain), q \in 1 .. Len(files[h].chain) :
              files[g].chain[m] = files[h].chain[q] => g = h /\ m = q
        BY <1>2 DEF ContentKept, OwnedFit
      <4>4. files[g].chain[i] = files[h].chain[j]
        BY <4>1, <4>2
      <4> QED BY <4>1, <4>2, <4>3, <4>4
    <3> QED BY <3>4, <3>5
  <2>3. \A g \in Live' : \A x \in Block : InChain(g, x)' => ~ TableBlock(x)'
    <3>1. ~ TableBlock(b)
      BY <1>2 DEF Owned
    <3>2. \A g \in Live : \A x : InChain(g, x)' => InChain(g, x) \/ x = b
      BY <1>3, <1>18
    <3> QED BY <1>2, <1>18, <3>1, <3>2 DEF ContentKept, OwnedFit
  <2>4. \A i, j \in 1 .. Len(ichain') : ichain'[i] = ichain'[j] => i = j
    BY <1>2, <1>10 DEF ContentKept, OwnedFit
  <2>5. \A g, h \in Live' : \A i \in 1 .. Len(files'[g].chain), j \in 1 .. Len(files'[h].chain) :
           files'[g].chain[i] = files'[h].chain[j] => g = h /\ i = j
    BY <1>18, <2>2
  <2> QED BY <2>1, <2>3, <2>4, <2>5 DEF OwnedFit
<1>23. ASSUME NEW p \in StoredSectors(f)' PROVE p \in StoredSectors(f) \/ p = << l, TAIL >>
  <2>1. PICK D : D = 1 .. k
    OBVIOUS
  <2>2. PICK X : X = Before(INIT)
    OBVIOUS
  <2>3. X = {}
    BY <2>2 DEF Before, INIT, TAIL
  <2>4. StoredSectors(f)' =
          { << files'[f].chain[i], s >> : i \in 1 .. Len(files'[f].chain) - 1, s \in 1 .. LastSector }
            \cup { << files'[f].chain[Len(files'[f].chain)], s >> : s \in Before(files'[f].sector) }
    BY DEF StoredSectors, Before
  <2>5. 1 .. Len(c) - 1 = D
    BY <1>8, <2>1
  <2>6. StoredSectors(f)' = { << c[i], s >> : i \in D, s \in 1 .. LastSector } \cup { << c[Len(c)], s >> : s \in X }
    BY <1>12, <2>2, <2>4, <2>5, SMTT(30)
  <2>7. PICK i \in D, s \in 1 .. LastSector : p = << c[i], s >>
    BY <2>3, <2>6
  <2>8. c[i] = files[f].chain[i]
    BY <1>8, <2>1
  <2>9. StoredSectors(f) =
          { << files[f].chain[j], x >> : j \in 1 .. k - 1, x \in 1 .. LastSector }
            \cup { << l, x >> : x \in Before(TAIL) }
    BY <1>2, <1>6, <1>7 DEF StoredSectors
  <2>10. CASE i \in 1 .. k - 1
    BY <2>7, <2>8, <2>9, <2>10
  <2>11. CASE i = k /\ s # TAIL
    <3>1. s \in Before(TAIL)
      BY <2>11 DEF Before, TAIL, INIT
    <3> QED BY <1>7, <2>7, <2>8, <2>9, <2>11, <3>1
  <2>12. CASE i = k /\ s = TAIL
    BY <1>7, <2>7, <2>8, <2>12
  <2>13. i \in 1 .. k - 1 \/ i = k
    BY <2>1
  <2> QED BY <2>10, <2>11, <2>12, <2>13
<1>24. StoredFit'
  <2> SUFFICES ASSUME NEW g \in Live
               PROVE /\ Will(EntryBlock(g), EntrySector(g), "first", "entry")'
                     /\ \A q \in StoredSectors(g)' : Will(q[1], q[2], "first", "file")' /\ Will(q[1], q[2], "spare", "file")'
    BY <1>18 DEF StoredFit
  <2>1. /\ Will(EntryBlock(g), EntrySector(g), "first", "entry")
        /\ \A q \in StoredSectors(g) : Will(q[1], q[2], "first", "file") /\ Will(q[1], q[2], "spare", "file")
    BY <1>2 DEF ContentKept, StoredFit
  <2>2. Will(EntryBlock(g), EntrySector(g), "first", "entry")'
    BY <1>17, <1>18, <2>1 DEF Will
  <2>3. ASSUME NEW q \in StoredSectors(g)' PROVE Will(q[1], q[2], "first", "file")' /\ Will(q[1], q[2], "spare", "file")'
    <3>1. q \in StoredSectors(g) \/ q = << l, TAIL >>
      BY <1>3, <1>18, <1>23
    <3>2. CASE q \in StoredSectors(g)
      BY <1>17, <2>1, <3>2
    <3>3. CASE q = << l, TAIL >>
      <4>1. q[1] = l /\ q[2] = TAIL
        BY <3>3
      <4>2. Part(l, TAIL, "first", "file") \in Future' /\ Part(l, TAIL, "spare", "file") \in Future'
        BY <1>14, <1>16
      <4> QED BY <4>1, <4>2 DEF Part, Will
    <3> QED BY <3>1, <3>2, <3>3
  <2> QED BY <2>2, <2>3
<1>25. WriterFit'
  <2> SUFFICES ASSUME NEW g \in DOMAIN files, files'[g].open
               PROVE  g \in Live' /\ \A d \in Future' : d.b = LastBlock(g)' /\ d.s # STAT => d.s \in Before(files'[g].sector)
    BY <1>11 DEF WriterFit, Before
  <2>1. CASE g = f
    BY <1>2, <1>3, <1>5, <1>14, <1>16, <1>18, <2>1
  <2>2. CASE g # f
    <3>0. files'[g] = files[g] /\ files[g].open
      BY <1>11, <2>2
    <3>1. g \in Live /\ \A d \in Future : d.b = LastBlock(g) /\ d.s # STAT => d.s \in Before(files[g].sector)
      BY <1>2, <3>0 DEF ContentKept, WriterFit
    <3>2. InChain(g, LastBlock(g)) /\ LastBlock(g) \in Block
      BY <1>2, <3>1, OwnedCells, BlocksAre
    <3>3. LastBlock(g) # l
      BY <1>2, <1>3, <1>5, <2>2, <3>1, <3>2 DEF ContentKept, OwnedFit, InChain
    <3> QED BY <1>2, <1>14, <1>16, <1>18, <2>2, <3>0, <3>1, <3>3
  <2> QED BY <2>1, <2>2
<1>26. DirtyFit'
  <2>1. \A g \in Live' : files'[g].sector = INIT => dirty' = g
    <3>1. \A g \in Live : files[g].sector # INIT
      <4>1. \A g \in Live : g # 0
        <5>1. DOMAIN files \subseteq Nat \ {0}
          BY <1>2, FilesAre
        <5> QED BY <1>3, <5>1
      <4> QED BY <1>2, <4>1 DEF ContentKept, DirtyFit
    <3> QED BY <1>3, <1>10, <1>11, <1>18, <3>1
  <2>2. dirty' \in Live' /\ files'[dirty'].open
    BY <1>2, <1>3, <1>10, <1>12, <1>18
  <2> QED BY <2>1, <2>2 DEF DirtyFit
<1>27. EntriesFit'
  <2>1. \A d \in Future' : TableBlock(d.b)' /\ d.s # STAT => TableSector(d)'
    BY <1>2, <1>5, <1>14, <1>16, <1>18 DEF ContentKept, EntriesFit
  <2>2. \A x \in Block : TableBlock(x)' => Will(x, INIT, "spare", "inode0")' \/ Will(x, INIT, "spare", "inode")'
    BY <1>2, <1>17, <1>18 DEF ContentKept, EntriesFit
  <2> QED BY <1>10, <2>1, <2>2 DEF EntriesFit
<1>28. RoomFit'
  BY <1>2, <1>10, <1>18 DEF ContentKept, RoomFit, EntriesPerBlock
<1>29. ContentKept'
  BY <1>20, <1>22, <1>24, <1>25, <1>26, <1>27, <1>28 DEF ContentKept
<1>30. PICK y : Ends(todo', y) /\ y.op = "spare" /\ y.b = l
  BY <1>13
<1>31. todo' # << >> /\ ~ InAvailable(todo'[Len(todo')].b) /\ todo'[Len(todo')].op \in { "write", "spare" }
  BY <1>5, <1>30 DEF Ends
<1>32. /\ \A x \in Block : InAvailable(x) /\ Owned(x)' => Owned(x)
       /\ \A x \in Block : InAvailable(x) => Will(x, STAT, "first", "key")'
       /\ \A g \in DOMAIN files' : files'[g].open => dev.erased # LastBlock(g)'
  <2>1. \A x \in Block : InAvailable(x) /\ Owned(x)' => Owned(x)
    BY <1>2, <1>19
  <2>2. \A x \in Block : InAvailable(x) => Will(x, STAT, "first", "key")'
    BY <1>2, <1>17 DEF ListFit
  <2>3. \A g \in DOMAIN files' : files'[g].open => dev.erased # LastBlock(g)'
    BY <1>2, <1>11, <1>18 DEF TakenFit
  <2> QED BY <2>1, <2>2, <2>3
<1>33. PreInv' /\ PhaseFit' /\ TakenFit' /\ ListFit' /\ DrawFit' /\ AwayFit' /\ FutureFit'
  <2>1. /\ todo = << >> /\ state = "mounted" /\ whole /\ Listing
        /\ ((plan' = PlanFAE /\ call'.for = "create") \/ (plan' = << >> /\ ~ InFront'))
        /\ call'.for \in { "create", "write" }
        /\ UNCHANGED << pre, backend, mem, dev, cache, state, whole >> /\ Plain(todo') /\ Erased(todo)' = {}
    BY <1>2, <1>10, <1>13, <1>16, <1>18
  <2> QED BY <1>31, <1>32, <2>1, PartKept
<1> QED BY <1>16, <1>29, <1>33 DEF Kept

-----------------------------------------------------------------------------
(* The script of a removal.                                                *)
LEMMA DoesFirst ==
  ASSUME NEW s, Does(s, {}, {}), NEW t, NEW Q, NEW G, Does(t, Q, G)
  PROVE  Does(s \o t, Q, G)
<1> DEFINE N == {}
<1>1. Does(s, N, N) /\ Cross(N, G, Q) /\ N \cup Q = Q /\ N \cup G = G
  BY DEF Cross
<1> HIDE DEF N
<1>2. Does(s \o t, N \cup Q, N \cup G)
  BY <1>1, DoesConcat
<1> QED BY <1>1, <1>2

LEMMA FindPlain ==
  ASSUME TableFit, FilesFit, whole, inode0 = First, NEW k \in 1 .. Newest
  PROVE  Does(Find(k), {}, {}) /\ Plain(Find(k))
<1> DEFINE Y(b, s) == Op("see", b, s, "", "")
           G == { Y(b, s) : b \in Block, s \in 0 .. LastSector }
<1>1. Newest \in Nat \ {0} /\ k \in Nat /\ \A j \in 1 .. Newest : EntryBlock(j) \in Block
  BY FilesAre
<1>2. TAIL \in 0 .. LastSector /\ INIT \in 0 .. LastSector /\ inode0 \in Block
  BY LastSectorIs, BlocksAre DEF TAIL, INIT
<1>3. \A j \in 1 .. Newest : EntrySector(j) \in 0 .. LastSector /\ EntrySector(j) + 1 \in 0 .. LastSector
  BY <1>1, EntrySectorIs
<1>4. \A b, s : Y(b, s).op = "see"
  <2> SUFFICES ASSUME NEW b, NEW s PROVE Op("see", b, s, "", "").op = "see"
    OBVIOUS
  <2> QED BY DEF Op
<1> HIDE DEF Y
<1>5. (\A b \in Block, s \in 0 .. LastSector : Y(b, s) \in G) /\ \A x \in G : x.op = "see"
  BY <1>4
<1> HIDE DEF G
<1>6. \A j \in 1 .. k : Y(EntryBlock(j), TAIL) \in G /\ Y(EntryBlock(j), EntrySector(j)) \in G
  <2> SUFFICES ASSUME NEW j \in 1 .. k
               PROVE  Y(EntryBlock(j), TAIL) \in G /\ Y(EntryBlock(j), EntrySector(j)) \in G
    OBVIOUS
  <2>1. j \in 1 .. Newest
    BY <1>1
  <2>2. EntryBlock(j) \in Block /\ EntrySector(j) \in 0 .. LastSector
    BY <1>1, <1>3, <2>1
  <2> QED BY <1>2, <1>5, <2>2
<1>7. Y(inode0, TAIL) \in G /\ Y(inode0, INIT) \in G /\ Y(EntryBlock(k), EntrySector(k) + 1) \in G
  BY <1>1, <1>2, <1>3, <1>5
<1>8. Within(Find(k), G)
  <2> USE DEF Y
  <2> QED BY <1>1, <1>6, <1>7, FindWithin
<1>9. Plain(Find(k))
  BY <1>5, <1>8 DEF Within, Plain, PlainOps
<1>10. Does(Find(k), {}, {})
  BY FindLooks, LooksDo
<1> QED BY <1>9, <1>10

LEMMA InvalidatedDoes ==
  ASSUME NEW b, NEW key
  PROVE  /\ Does(Invalidated(b, key), { Part(b, STAT, "first", key) }, { b }) /\ Plain(Invalidated(b, key))
         /\ \E y : Ends(Invalidated(b, key), y) /\ y.op = "write" /\ y.b = b
<1> DEFINE p == Part(b, STAT, "first", key)
           a1 == See(b, INIT)  a2 == See(b, TAIL)  a3 == Close  a4 == Erase(b)
           a5 == Open(b, STAT)  a6 == Write(b, STAT, "first", key)
<1>1. Invalidated(b, key) = (((a1 \o a2) \o a3) \o a4) \o (a5 \o a6)
  BY DEF Invalidated, Statistics
<1>2. /\ Does(a1, {}, {}) /\ Plain(a1) /\ Does(a2, {}, {}) /\ Plain(a2) /\ Does(a3, {}, {}) /\ Plain(a3)
      /\ Does(a4, {}, { b }) /\ Plain(a4) /\ Does(a5, {}, {}) /\ Plain(a5) /\ Does(a6, { p }, {}) /\ Plain(a6)
  BY OpDoes
<1>3. \E y : a6 = << y >> /\ y.op = "write" /\ y.b = b
  BY OpFields DEF Write
<1> HIDE DEF p, a1, a2, a3, a4, a5, a6
<1>4. Does(a1 \o a2, {}, {}) /\ Plain(a1 \o a2)
  BY <1>2, DoesFirst, PlainConcat
<1>5. PICK u : u = a1 \o a2
  OBVIOUS
<1>6. Does(u \o a3, {}, {}) /\ Plain(u \o a3)
  BY <1>2, <1>4, <1>5, DoesFirst, PlainConcat
<1>7. PICK v : v = u \o a3
  OBVIOUS
<1>8. Does(v \o a4, {}, { b }) /\ Plain(v \o a4)
  BY <1>2, <1>6, <1>7, DoesFirst, PlainConcat
<1>9. Does(a5 \o a6, { p }, {}) /\ Plain(a5 \o a6)
  BY <1>2, DoesFirst, PlainConcat
<1>10. \E y : Ends(a5 \o a6, y) /\ y.op = "write" /\ y.b = b
  <2>1. PICK y : a6 = << y >> /\ y.op = "write" /\ y.b = b
    BY <1>3
  <2>2. Ends(a6, y) /\ IsList(a5)
    BY <1>2, <2>1, EndsOne DEF Plain
  <2> QED BY <2>1, <2>2, EndsConcat
<1>11. PICK w : w = v \o a4
  OBVIOUS
<1>12. PICK z : z = a5 \o a6
  OBVIOUS
<1>13. Does(w \o z, { p }, { b }) /\ Plain(w \o z)
  <2> DEFINE N == {}
  <2>1. Does(w, N, { b }) /\ Does(z, { p }, N) /\ Cross(N, N, { p }) /\ N \cup { p } = { p } /\ { b } \cup N = { b }
    BY <1>8, <1>9, <1>11, <1>12 DEF Cross
  <2> HIDE DEF N
  <2>2. Does(w \o z, N \cup { p }, { b } \cup N)
    BY <2>1, DoesConcat
  <2> QED BY <1>8, <1>9, <1>11, <1>12, <2>1, <2>2, PlainConcat
<1>14. \E y : Ends(w \o z, y) /\ y.op = "write" /\ y.b = b
  <2>1. PICK y : Ends(z, y) /\ y.op = "write" /\ y.b = b
    BY <1>10, <1>12
  <2>2. IsList(w)
    BY <1>8, <1>11 DEF Plain
  <2> QED BY <2>1, <2>2, EndsConcat
<1>15. Invalidated(b, key) = w \o z
  BY <1>1, <1>5, <1>7, <1>11, <1>12
<1> QED BY <1>13, <1>14, <1>15 DEF p

(* What is left of a chain that is removed.                                *)
Links(ch)      == { ch[i] : i \in 1 .. Len(ch) }
Left(ch, key)  == { Part(b, STAT, "first", key) : b \in Links(ch) }

LEMMA ChainDoes ==
  ASSUME NEW ch, IsList(ch), Len(ch) \in Nat \ {0}, NEW key, \A i, j \in 1 .. Len(ch) : i < j => ch[i] # ch[j],
         NEW t, t = Flat([ i \in 1 .. Len(ch) |-> Invalidated(ch[i], key) ])
  PROVE  Does(t, Left(ch, key), Links(ch)) /\ Plain(t) /\ \E y : Ends(t, y) /\ y.op = "write" /\ y.b \in Links(ch)
<1>0. PICK m : m = Len(ch)
  OBVIOUS
<1> DEFINE g == [ i \in 1 .. m |-> Invalidated(ch[i], key) ]
<1>1. m \in Nat \ {0} /\ g = [ i \in 1 .. m |-> g[i] ] /\ (\A i \in 1 .. m : g[i] = Invalidated(ch[i], key)) /\ t = Flat(g)
  BY <1>0
<1> HIDE DEF g
<1>2. ASSUME NEW i \in 1 .. m
      PROVE  Does(g[i], { Part(ch[i], STAT, "first", key) }, { ch[i] }) /\ Plain(g[i])
             /\ \E y : Ends(g[i], y) /\ y.op = "write" /\ y.b = ch[i]
  <2>1. PICK b : b = ch[i]
    OBVIOUS
  <2>2. /\ Does(Invalidated(b, key), { Part(b, STAT, "first", key) }, { b }) /\ Plain(Invalidated(b, key))
        /\ \E y : Ends(Invalidated(b, key), y) /\ y.op = "write" /\ y.b = b
    BY InvalidatedDoes
  <2> QED BY <1>1, <2>1, <2>2
<1>3. \A i \in 1 .. m : Puts(g[i]) = { Part(ch[i], STAT, "first", key) } /\ Erased(g[i]) = { ch[i] } /\ IsList(g[i]) /\ Apart(g[i])
  BY <1>2 DEF Does
<1>4. \A i, j \in 1 .. m : i < j => Cross(Puts(g[i]), Erased(g[j]), Puts(g[j]))
  <2> SUFFICES ASSUME NEW i \in 1 .. m, NEW j \in 1 .. m, i < j
               PROVE  Cross(Puts(g[i]), Erased(g[j]), Puts(g[j]))
    OBVIOUS
  <2>1. ch[i] # ch[j]
    BY <1>0
  <2>2. PICK a : a = ch[i]
    OBVIOUS
  <2>3. PICK b : b = ch[j]
    OBVIOUS
  <2>4. Cross({ Part(a, STAT, "first", key) }, { b }, { Part(b, STAT, "first", key) })
    BY <2>1, <2>2, <2>3, PartIsIt DEF Cross
  <2> QED BY <1>3, <2>2, <2>3, <2>4
<1>5. Does(Flat(g), UNION { Puts(g[i]) : i \in 1 .. m }, UNION { Erased(g[i]) : i \in 1 .. m })
  <2>1. \A i \in 1 .. m : IsList(g[i]) /\ Apart(g[i])
    BY <1>3
  <2>2. g = [ i \in 1 .. m |-> g[i] ] /\ m \in Nat
    BY <1>1
  <2> QED BY ONLY <1>4, <2>1, <2>2, DoesFlat
<1>6. UNION { Erased(g[i]) : i \in 1 .. m } = Links(ch)
  <2>1. \A i \in 1 .. m : Erased(g[i]) = { ch[i] }
    BY <1>3
  <2>2. \A b : b \in UNION { Erased(g[i]) : i \in 1 .. m } <=> \E i \in 1 .. m : b \in Erased(g[i])
    OBVIOUS
  <2>3. \A b : b \in Links(ch) <=> \E i \in 1 .. m : b = ch[i]
    BY <1>0 DEF Links
  <2>4. \A i \in 1 .. m : \A b : b \in Erased(g[i]) <=> b = ch[i]
    BY <2>1
  <2>5. \A b : (\E i \in 1 .. m : b \in Erased(g[i])) <=> \E i \in 1 .. m : b = ch[i]
    BY ONLY <2>4
  <2> QED BY ONLY <2>2, <2>3, <2>5
<1>7. UNION { Puts(g[i]) : i \in 1 .. m } = Left(ch, key)
  <2>1. \A i \in 1 .. m : Puts(g[i]) = { Part(ch[i], STAT, "first", key) }
    BY <1>3
  <2>2. \A c : c \in UNION { Puts(g[i]) : i \in 1 .. m } <=> \E i \in 1 .. m : c \in Puts(g[i])
    OBVIOUS
  <2>3. \A c : c \in Left(ch, key) <=> \E i \in 1 .. m : c = Part(ch[i], STAT, "first", key)
    BY <1>0 DEF Links, Left
  <2>4. \A i \in 1 .. m : \A c : c \in Puts(g[i]) <=> c = Part(ch[i], STAT, "first", key)
    BY <2>1
  <2>5. \A c : (\E i \in 1 .. m : c \in Puts(g[i])) <=> \E i \in 1 .. m : c = Part(ch[i], STAT, "first", key)
    BY ONLY <2>4
  <2> QED BY ONLY <2>2, <2>3, <2>5
<1>8. Plain(Flat(g))
  BY <1>1, <1>2, PlainFlat
<1>9. \E y : Ends(Flat(g), y) /\ y.op = "write" /\ y.b \in Links(ch)
  <2>0. m \in 1 .. m
    BY <1>1
  <2>1. PICK y : Ends(g[m], y) /\ y.op = "write" /\ y.b = ch[m]
    BY <1>2, <2>0
  <2>2. Ends(Flat(g), y)
    BY <1>1, <1>3, <2>1, EndsFlat
  <2> QED BY <1>0, <2>0, <2>1, <2>2 DEF Links
<1> QED BY <1>1, <1>5, <1>6, <1>7, <1>8, <1>9

LEMMA RemovalDoes ==
  ASSUME TableFit, FilesFit, whole, inode0 = First, NEW f \in 1 .. Newest, NEW ch, IsList(ch), Len(ch) \in Nat \ {0}, NEW key,
         \A i, j \in 1 .. Len(ch) : i < j => ch[i] # ch[j],
         NEW e, e = EntryBlock(f), NEW s, s = EntrySector(f) + 1, e \notin Links(ch)
  PROVE  /\ Does(Removal(f, ch, key), { Part(e, s, "first", "dead") } \cup Left(ch, key), Links(ch))
         /\ Plain(Removal(f, ch, key))
         /\ \E y : Ends(Removal(f, ch, key), y) /\ y.op = "write" /\ y.b \in Links(ch)
<1> DEFINE a1 == Find(f)  a2 == Flat([ i \in 1 .. Len(ch) |-> See(ch[i], TAIL) ])
           a3 == Open(e, s)  a4 == Write(e, s, "first", "dead")
           a5 == Flat([ i \in 1 .. Len(ch) |-> Invalidated(ch[i], key) ])
           d == Part(e, s, "first", "dead")
<1>1. Removal(f, ch, key) = (((a1 \o a2) \o a3) \o a4) \o a5
  BY DEF Removal
<1>2. Does(a1, {}, {}) /\ Plain(a1)
  BY FindPlain
<1>3. Does(a2, {}, {}) /\ Plain(a2)
  <2>0. PICK m \in Nat : m = Len(ch)
    OBVIOUS
  <2> DEFINE Y(b) == Op("see", b, TAIL, "", "")  G == { Y(b) : b \in Links(ch) }  g == [ i \in 1 .. m |-> See(ch[i], TAIL) ]
  <2>1. \A b : Y(b).op = "see"
    <3> SUFFICES ASSUME NEW b PROVE Op("see", b, TAIL, "", "").op = "see"
      OBVIOUS
    <3> QED BY DEF Op
  <2>2. g = [ i \in 1 .. m |-> g[i] ] /\ (\A i \in 1 .. m : g[i] = << Y(ch[i]) >>) /\ a2 = Flat(g)
    BY <2>0 DEF See
  <2> HIDE DEF Y, g, a2
  <2>3. (\A i \in 1 .. m : Y(ch[i]) \in G) /\ \A x \in G : x.op = "see"
    BY <2>0, <2>1 DEF Links
  <2> HIDE DEF G
  <2>4. \A i \in 1 .. m : Within(g[i], G)
    BY <2>2, <2>3, WithinOne
  <2>5. Within(a2, G)
    BY <2>2, <2>4, WithinFlat
  <2>6. IsList(a2) /\ \A i \in 1 .. Len(a2) : a2[i].op = "see"
    BY <2>3, <2>5 DEF Within
  <2> QED BY <2>6, DoesLook DEF Plain, PlainOps, Programs
<1>4. Does(a3, {}, {}) /\ Plain(a3) /\ Does(a4, { d }, {}) /\ Plain(a4)
  BY OpDoes
<1>5. Does(a5, Left(ch, key), Links(ch)) /\ Plain(a5) /\ \E y : Ends(a5, y) /\ y.op = "write" /\ y.b \in Links(ch)
  BY ChainDoes
<1>6. d.b = e
  BY PartIsIt
<1> HIDE DEF a1, a2, a3, a4, a5, d
<1>7. PICK u : u = a1 \o a2
  OBVIOUS
<1>8. Does(u, {}, {}) /\ Plain(u)
  BY <1>2, <1>3, <1>7, DoesFirst, PlainConcat
<1>9. PICK v : v = u \o a3
  OBVIOUS
<1>10. Does(v, {}, {}) /\ Plain(v)
  BY <1>4, <1>8, <1>9, DoesFirst, PlainConcat
<1>11. PICK w : w = v \o a4
  OBVIOUS
<1>12. Does(w, { d }, {}) /\ Plain(w)
  BY <1>4, <1>10, <1>11, DoesFirst, PlainConcat
<1>13. Cross({ d }, Links(ch), Left(ch, key))
  <2>1. \A c \in Left(ch, key) : c.b \in Links(ch)
    BY PartIsIt DEF Left
  <2> QED BY <1>6, <2>1 DEF Cross, Cell
<1>14. Does(w \o a5, { d } \cup Left(ch, key), Links(ch)) /\ Plain(w \o a5)
  <2> DEFINE N == {}
  <2>1. Does(w, { d }, N) /\ N \cup Links(ch) = Links(ch)
    BY <1>12
  <2> HIDE DEF N
  <2>2. Does(w \o a5, { d } \cup Left(ch, key), N \cup Links(ch))
    BY <1>5, <1>13, <2>1, DoesConcat
  <2> QED BY <1>5, <1>12, <2>1, <2>2, PlainConcat
<1>15. \E y : Ends(w \o a5, y) /\ y.op = "write" /\ y.b \in Links(ch)
  <2>1. PICK y : Ends(a5, y) /\ y.op = "write" /\ y.b \in Links(ch)
    BY <1>5
  <2>2. IsList(w)
    BY <1>12 DEF Plain
  <2> QED BY <2>1, <2>2, EndsConcat
<1>16. Removal(f, ch, key) = w \o a5
  BY <1>1, <1>7, <1>9, <1>11
<1> QED BY <1>14, <1>15, <1>16 DEF d

LEMMA RemoveKept ==
  ASSUME Trusted, SystemInv, SystemInv', Kept, NEW f \in DOMAIN files, Remove(f)
  PROVE  Kept'
<1>0. PICK ch : ch = files[f].chain
  OBVIOUS
<1> DEFINE r == WithOpen(WithDead(files[f], TRUE), FALSE)
<1>1. PICK key \in { "key", "nokey" } : Begin("rm", f, << >>, Removal(f, ch, key))
  BY <1>0 DEF Remove, Removal
<1>2. /\ Idle /\ ~ files[f].dead /\ dirty # f /\ files' = [ files EXCEPT ![f] = r ] /\ dirty' = dirty /\ ichain' = ichain
  BY DEF Trusted, Remove, WithOpen, WithDead
<1>3. /\ on /\ todo = << >> /\ plan = << >> /\ whole /\ inode0 = First /\ state = "mounted"
      /\ Future = held /\ Listing
      /\ TableFit /\ FilesFit /\ PreInv /\ PhaseFit /\ TakenFit /\ ListFit /\ ContentKept
  BY <1>2, IdleParts
<1>4. f \in Live /\ Live \subseteq DOMAIN files
  BY <1>2 DEF Live
<1>5. FileFit(r) /\ r.chain = ch /\ r.sector = files[f].sector /\ r.dead /\ ~ r.open
  <2> DEFINE q == WithDead(files[f], TRUE)
  <2>0. FileFit(files[f])
    BY <1>3 DEF FilesFit
  <2>1. FileFit(q) /\ q.chain = ch /\ q.sector = files[f].sector /\ q.dead
    BY <1>0, <2>0, FileFitWith, WithFields, ZenonT(60)
  <2> HIDE DEF q
  <2>2. /\ FileFit(WithOpen(q, FALSE)) /\ WithOpen(q, FALSE).chain = q.chain /\ WithOpen(q, FALSE).sector = q.sector
        /\ WithOpen(q, FALSE).dead = q.dead /\ ~ WithOpen(q, FALSE).open
    <3> DEFINE no == FALSE
    <3>1. ~ no
      OBVIOUS
    <3> HIDE DEF no
    <3>2. FileFit(WithOpen(q, no))
      BY <2>1, FileFitWith
    <3>3. /\ WithOpen(q, no).chain = q.chain /\ WithOpen(q, no).sector = q.sector
          /\ WithOpen(q, no).dead = q.dead /\ WithOpen(q, no).open = no
      <4>1. FileFit(q)
        BY <2>1
      <4> QED BY ONLY <4>1, WithFields
    <3>4. ~ WithOpen(q, no).open
      BY <3>1, <3>3
    <3> QED BY <3>2, <3>3, <3>4 DEF no
  <2> QED BY <2>1, <2>2 DEF q
<1> HIDE DEF r
<1>6. /\ DOMAIN files' = DOMAIN files /\ Len(files') = Len(files) /\ files'[f] = r
      /\ \A g \in DOMAIN files : g # f => files'[g] = files[g]
  <2>1. DOMAIN files' = DOMAIN files /\ Len(files') = Len(files)
    BY <1>2, <1>3, <1>5, OneFile
  <2> QED BY <1>2, <2>1
<1>7. /\ plan' = << >> /\ todo' = Removal(f, ch, key) /\ call'.for = "rm"
      /\ UNCHANGED << pre, backend, mem, dev, cache, ichain, state, whole >>
  <2>1. plan' = << >> /\ todo' = Removal(f, ch, key) /\ call' = [ for |-> "rm", f |-> f, b |-> None ]
        /\ UNCHANGED << pre, backend, layer, mounts >>
    BY <1>1 DEF Begin, Goto
  <2> QED BY <1>2, <2>1 DEF layer, mounts
<1>8. f \in 1 .. Newest /\ f \in Nat \ {0} /\ \A g \in DOMAIN files : g \in 1 .. Newest
  <2>1. Len(files) \in Nat /\ DOMAIN files = 1 .. Len(files)
    BY <1>3, FilesAre
  <2> QED BY <2>1 DEF Newest
<1>9. PICK e : e = EntryBlock(f)
  OBVIOUS
<1>10. PICK s : s = EntrySector(f) + 1
  OBVIOUS
<1>11. e \in Block /\ TableBlock(e) /\ Owned(e)
  <2>1. Owned(e) /\ TableBlock(e)
    BY <1>3, <1>4, <1>9, OwnedCells
  <2> QED BY <1>3, <2>1, OwnedCells
<1>12. s # STAT /\ s # INIT /\ s # TAIL
  <2>1. EntrySector(f) \in 4 .. LastSector - 1
    BY <1>8, EntriesAre DEF ENTRY
  <2>2. LastSector \in Nat
    BY LastSectorIs
  <2> QED BY <1>10, <2>1, <2>2 DEF STAT, INIT, TAIL
<1>13. IsList(ch) /\ Len(ch) \in Nat \ {0} /\ (\A i, j \in 1 .. Len(ch) : i < j => ch[i] # ch[j])
       /\ \A x : x \in Links(ch) <=> InChain(f, x)
  <2>1. files[f].chain \in Seq(Used) /\ files[f].chain # << >>
    BY <1>3 DEF TableFit
  <2>2. IsList(ch) /\ Len(ch) \in Nat \ {0}
    BY <1>0, <2>1 DEF IsList
  <2>3. \A i, j \in 1 .. Len(ch) : ch[i] = ch[j] => i = j
    BY <1>0, <1>3, <1>4 DEF ContentKept, OwnedFit
  <2>4. \A i, j \in 1 .. Len(ch) : i < j => ch[i] # ch[j]
    BY <2>2, <2>3
  <2> QED BY <1>0, <2>2, <2>4 DEF Links, InChain
<1>14. /\ \A x \in Links(ch) : x \in Used /\ x \in Block /\ Owned(x) /\ ~ TableBlock(x) /\ ~ InAvailable(x)
                              /\ \A g \in Live : g # f => ~ InChain(g, x)
  <2> SUFFICES ASSUME NEW x \in Links(ch)
               PROVE  /\ x \in Used /\ x \in Block /\ Owned(x) /\ ~ TableBlock(x) /\ ~ InAvailable(x)
                      /\ \A g \in Live : g # f => ~ InChain(g, x)
    OBVIOUS
  <2>1. InChain(f, x) /\ Owned(x) /\ x \in Used
    BY <1>3, <1>4, <1>13, OwnedCells
  <2>2. x \in Block
    BY <2>1, BlocksAre
  <2>3. ~ TableBlock(x)
    BY <1>3, <1>4, <2>1, <2>2 DEF ContentKept, OwnedFit
  <2>4. \A g \in Live : g # f => ~ InChain(g, x)
    BY <1>3, <1>4, <2>1 DEF ContentKept, OwnedFit, InChain
  <2>5. ~ InAvailable(x)
    BY <1>3, <2>1, <2>2 DEF ListFit
  <2> QED BY <2>1, <2>2, <2>3, <2>4, <2>5
<1>15. e \notin Links(ch)
  BY <1>11, <1>14
<1> DEFINE d == Part(e, s, "first", "dead")  P == { d } \cup Left(ch, key)  E == Links(ch)
<1>16. Does(todo', P, E) /\ Plain(todo') /\ Whole(todo') /\ \E y : Ends(todo', y) /\ y.op = "write" /\ y.b \in E
  <2>1. Whole(todo')
    BY <1>3, CallsWhole DEF Trusted
  <2>2. /\ Does(Removal(f, ch, key), P, E) /\ Plain(Removal(f, ch, key))
        /\ \E y : Ends(Removal(f, ch, key), y) /\ y.op = "write" /\ y.b \in E
    BY <1>3, <1>8, <1>9, <1>10, <1>13, <1>15, RemovalDoes
  <2> QED BY <1>7, <2>1, <2>2
<1>17. /\ d.b = e /\ d.s = s /\ d.part = "first" /\ d.tag = "dead"
       /\ \A c \in P : c = d \/ (c.b \in E /\ c.s = STAT /\ c.part = "first")
       /\ d \in P
  <2>1. \A c \in Left(ch, key) : c.b \in E /\ c.s = STAT /\ c.part = "first"
    BY PartIsIt DEF Left
  <2> QED BY <2>1, PartIsIt
<1> HIDE DEF d, P, E
<1>18. \A c \in held : ~ (c.b = e /\ c.s = s)
  <2> SUFFICES ASSUME NEW c \in held, c.b = e, c.s = s PROVE FALSE
    OBVIOUS
  <2>1. TableSector(c)
    BY <1>3, <1>11, <1>12 DEF ContentKept, EntriesFit
  <2>2. PICK k \in DOMAIN files : e = EntryBlock(k) /\ (s = EntrySector(k) \/ (s = EntrySector(k) + 1 /\ files[k].dead))
    BY <1>12, <2>1 DEF TableSector
  <2>3. EntrySector(k) # EntrySector(f) + 1 /\ (EntrySector(k) = EntrySector(f) => k = f)
    BY <1>3, <1>8, <1>9, <2>2, EntryPlaces
  <2>4. EntrySector(k) \in 4 .. LastSector - 1 /\ EntrySector(f) \in 4 .. LastSector - 1
    BY <1>8, EntriesAre DEF ENTRY
  <2>5. s = EntrySector(k) + 1 /\ files[k].dead
    BY <1>10, <2>2, <2>3
  <2>6. EntrySector(k) = EntrySector(f)
    <3>1. PICK a : a = EntrySector(k)
      OBVIOUS
    <3>2. PICK z : z = EntrySector(f)
      OBVIOUS
    <3>3. LastSector \in Nat
      BY LastSectorIs
    <3>4. a \in Nat /\ z \in Nat /\ a + 1 = z + 1
      BY <1>10, <2>4, <2>5, <3>1, <3>2, <3>3
    <3>5. a = z
      BY <3>4
    <3> QED BY <3>1, <3>2, <3>5
  <2> QED BY <1>2, <2>3, <2>5, <2>6
<1>19. /\ ScriptKept' /\ Puts(todo)' = P /\ Erased(todo)' = E /\ held' = held /\ Future' = { c \in held : c.b \notin E } \cup P
  <2>1. \A q \in P : \A c \in held : Cell(c) = Cell(q) => c.b \in E
    BY <1>17, <1>18 DEF Cell
  <2>2. \A q \in P : q.part = "rest" => q.b # First /\ q.s # STAT /\ q.b # dev.erased /\ E = {}
    BY <1>17
  <2>3. todo = << >> /\ UNCHANGED << mem, backend, dev, whole >> /\ call'.for # "format"
    BY <1>3, <1>7
  <2> QED BY <1>16, <2>1, <2>2, <2>3, ScriptBegins
<1>20. \A x, y, part, tag : Will(x, y, part, tag) /\ x \notin E => Will(x, y, part, tag)'
  BY <1>3, <1>19 DEF Will
<1>21. /\ Live' = Live \ { f }
       /\ \A g \in DOMAIN files : \A x : InChain(g, x)' <=> InChain(g, x)
       /\ \A x : TableBlock(x)' <=> TableBlock(x)
       /\ \A g \in DOMAIN files : LastBlock(g)' = LastBlock(g) /\ StoredSectors(g)' = StoredSectors(g)
       /\ \A j : EntryBlock(j)' = EntryBlock(j) /\ EntrySector(j)' = EntrySector(j)
       /\ \A c : TableSector(c) => TableSector(c)'
       /\ Newest' = Newest /\ (InFront' <=> InFront)
  <2>0. \A g \in DOMAIN files : files'[g].chain = files[g].chain /\ files'[g].sector = files[g].sector
    BY <1>0, <1>5, <1>6
  <2>1. Live' = Live \ { f }
    BY <1>5, <1>6 DEF Live
  <2>2. \A g \in DOMAIN files : \A x : InChain(g, x)' <=> InChain(g, x)
    BY <2>0 DEF InChain
  <2>3. \A x : TableBlock(x)' <=> TableBlock(x)
    BY <1>7 DEF TableBlock
  <2>4. \A g \in DOMAIN files : LastBlock(g)' = LastBlock(g) /\ StoredSectors(g)' = StoredSectors(g)
    BY <2>0 DEF LastBlock, StoredSectors, Before
  <2>5. \A j : EntryBlock(j)' = EntryBlock(j) /\ EntrySector(j)' = EntrySector(j)
    BY <1>7 DEF EntryBlock, EntrySector
  <2>6. Newest' = Newest
    BY <1>6 DEF Newest
  <2>7. InFront' <=> InFront
    BY <1>7, <2>6 DEF InFront, EntriesPerBlock
  <2>8. \A c : TableSector(c) => TableSector(c)'
    <3>1. \A g \in DOMAIN files : files[g].dead => files'[g].dead
      BY <1>5, <1>6
    <3> QED BY <1>6, <1>7, <2>5, <3>1 DEF TableSector
  <2> QED BY <2>1, <2>2, <2>3, <2>4, <2>5, <2>6, <2>7, <2>8
<1>22. \A x : Owned(x)' <=> Owned(x) /\ x \notin E
  <2>1. \A x : x \in E <=> InChain(f, x)
    BY <1>13 DEF E
  <2>2. \A x : x \in E => ~ TableBlock(x) /\ \A g \in Live : g # f => ~ InChain(g, x)
    BY <1>14 DEF E
  <2> QED BY <1>4, <1>21, <2>1, <2>2 DEF Owned
<1>23. CleanFit'
  <2>1. Owned(e)'
    BY <1>11, <1>21 DEF Owned
  <2> QED BY <1>3, <1>7, <1>17, <1>19, <1>22, <2>1 DEF ContentKept, CleanFit
<1>24. OwnedFit'
  <2>1. \A x \in Block : Owned(x)' => Will(x, STAT, "first", "key")'
    BY <1>3, <1>20, <1>22 DEF ContentKept, OwnedFit
  <2>2. \A g, h \in Live' : \A i \in 1 .. Len(files'[g].chain), j \in 1 .. Len(files'[h].chain) :
           files'[g].chain[i] = files'[h].chain[j] => g = h /\ i = j
    <3>1. Live' \subseteq Live /\ Live \subseteq DOMAIN files
      BY <1>21 DEF Live
    <3>2. \A g \in DOMAIN files : files'[g].chain = files[g].chain
      BY <1>0, <1>5, <1>6
    <3>3. \A g, h \in Live : \A i \in 1 .. Len(files[g].chain), j \in 1 .. Len(files[h].chain) :
             files[g].chain[i] = files[h].chain[j] => g = h /\ i = j
      BY <1>3 DEF ContentKept, OwnedFit
    <3>4. \A g \in Live' : g \in Live /\ files'[g].chain = files[g].chain
      BY <3>1, <3>2
    <3> QED BY <3>3, <3>4
  <2>3. \A g \in Live' : \A x \in Block : InChain(g, x)' => ~ TableBlock(x)'
    BY <1>3, <1>4, <1>21 DEF ContentKept, OwnedFit
  <2>4. \A i, j \in 1 .. Len(ichain') : ichain'[i] = ichain'[j] => i = j
    BY <1>3, <1>7 DEF ContentKept, OwnedFit
  <2> QED BY <2>1, <2>2, <2>3, <2>4 DEF OwnedFit
<1>25. StoredFit'
  <2> SUFFICES ASSUME NEW g \in Live, g # f
               PROVE /\ Will(EntryBlock(g), EntrySector(g), "first", "entry")'
                     /\ \A q \in StoredSectors(g)' : Will(q[1], q[2], "first", "file")' /\ Will(q[1], q[2], "spare", "file")'
    BY <1>21 DEF StoredFit
  <2>1. /\ Will(EntryBlock(g), EntrySector(g), "first", "entry")
        /\ \A q \in StoredSectors(g) : Will(q[1], q[2], "first", "file") /\ Will(q[1], q[2], "spare", "file")
    BY <1>3 DEF ContentKept, StoredFit
  <2>2. TableBlock(EntryBlock(g)) /\ \A q \in StoredSectors(g) : InChain(g, q[1])
    BY <1>3, OwnedCells
  <2>3. EntryBlock(g) \notin E /\ \A q \in StoredSectors(g) : q[1] \notin E
    BY <1>14, <2>2 DEF E
  <2>4. Will(EntryBlock(g), EntrySector(g), "first", "entry")'
    BY <1>20, <1>21, <2>1, <2>3 DEF Will
  <2>5. StoredSectors(g)' = StoredSectors(g)
    BY <1>4, <1>21
  <2> QED BY <1>20, <2>1, <2>3, <2>4, <2>5
<1>26. WriterFit'
  <2> SUFFICES ASSUME NEW g \in DOMAIN files, files'[g].open
               PROVE  g \in Live' /\ \A c \in Future' : c.b = LastBlock(g)' /\ c.s # STAT => c.s \in Before(files'[g].sector)
    BY <1>6 DEF WriterFit, Before
  <2>0. g # f /\ files'[g] = files[g] /\ files[g].open
    BY <1>5, <1>6
  <2>1. g \in Live /\ \A c \in Future : c.b = LastBlock(g) /\ c.s # STAT => c.s \in Before(files[g].sector)
    BY <1>3, <2>0 DEF ContentKept, WriterFit
  <2>2. InChain(g, LastBlock(g)) /\ LastBlock(g) \in Block
    BY <1>3, <2>1, OwnedCells, BlocksAre
  <2>3. LastBlock(g) # e
    BY <1>3, <1>11, <2>1, <2>2 DEF ContentKept, OwnedFit
  <2> QED BY <1>3, <1>17, <1>19, <1>21, <2>0, <2>1, <2>3
<1>27. DirtyFit'
  <2>1. \A g \in Live' : files'[g].sector = INIT => dirty' = g
    BY <1>2, <1>3, <1>4, <1>6, <1>21 DEF ContentKept, DirtyFit
  <2>2. dirty' # 0 => dirty' \in Live' /\ files'[dirty'].open
    BY <1>2, <1>3, <1>4, <1>6, <1>21 DEF ContentKept, DirtyFit
  <2> QED BY <2>1, <2>2 DEF DirtyFit
<1>28. EntriesFit'
  <2>1. TableSector(d)'
    <3>1. f \in DOMAIN files' /\ files'[f].dead
      BY <1>5, <1>6
    <3> QED BY <1>9, <1>10, <1>17, <1>21, <3>1 DEF TableSector
  <2>2. \A c \in Future' : TableBlock(c.b)' /\ c.s # STAT => TableSector(c)'
    <3>1. \A c \in held : TableBlock(c.b) /\ c.s # STAT => TableSector(c)
      BY <1>3 DEF ContentKept, EntriesFit
    <3> QED BY <1>17, <1>19, <1>21, <2>1, <3>1
  <2>3. \A x \in Block : TableBlock(x)' => Will(x, INIT, "spare", "inode0")' \/ Will(x, INIT, "spare", "inode")'
    <3>1. \A x : TableBlock(x) => x \notin E
      BY <1>14 DEF E
    <3> QED BY <1>3, <1>20, <1>21, <3>1 DEF ContentKept, EntriesFit
  <2> QED BY <1>7, <2>2, <2>3 DEF EntriesFit
<1>29. RoomFit'
  BY <1>3, <1>7, <1>21 DEF ContentKept, RoomFit, EntriesPerBlock
<1>30. ContentKept'
  BY <1>23, <1>24, <1>25, <1>26, <1>27, <1>28, <1>29 DEF ContentKept
<1>31. PICK y : Ends(todo', y) /\ y.op = "write" /\ y.b \in E
  BY <1>16
<1>32. todo' # << >> /\ ~ InAvailable(todo'[Len(todo')].b) /\ todo'[Len(todo')].op \in { "write", "spare" }
  BY <1>14, <1>31 DEF Ends, E
<1>33. /\ \A b \in Erased(todo)' : ~ Owned(b)' /\ ~ InAvailable(b)
       /\ \A b \in Block : Owned(b)' => Owned(b)
       /\ \A b \in Block : InAvailable(b) => Will(b, STAT, "first", "key")'
       /\ \A g \in DOMAIN files' : g \in DOMAIN files /\ (files'[g].open => files[g].open /\ LastBlock(g)' = LastBlock(g))
  <2>1. \A b \in Erased(todo)' : ~ Owned(b)' /\ ~ InAvailable(b)
    BY <1>14, <1>19, <1>22 DEF E
  <2>2. \A b \in Block : InAvailable(b) => Will(b, STAT, "first", "key")'
    BY <1>3, <1>14, <1>20 DEF ListFit, E
  <2>3. \A g \in DOMAIN files' : g \in DOMAIN files /\ (files'[g].open => files[g].open /\ LastBlock(g)' = LastBlock(g))
    BY <1>5, <1>6, <1>21
  <2> QED BY <1>22, <2>1, <2>2, <2>3
<1>34. PreInv' /\ PhaseFit' /\ TakenFit' /\ ListFit' /\ DrawFit' /\ AwayFit' /\ FutureFit'
  <2>1. /\ Idle /\ plan' = << >> /\ call'.for \in { "write", "rm" } /\ call'.for = "rm"
        /\ UNCHANGED << pre, backend, mem, dev, cache, ichain, state, whole >>
        /\ Plain(todo') /\ (InFront' <=> InFront)
    BY <1>2, <1>7, <1>16, <1>21
  <2> QED BY <1>32, <1>33, <2>1, BegunKept
<1> QED BY <1>19, <1>30, <1>34 DEF Kept

(* A mount forgets which files were open and looks for the inode table.    *)
LEMMA MountFiles ==
  ASSUME Facts, Mount
  PROVE  /\ DOMAIN files' = DOMAIN files /\ Len(files') = Len(files)
         /\ \A f \in DOMAIN files :
              /\ files'[f].chain = files[f].chain /\ files'[f].dead = files[f].dead
              /\ files'[f].sector = files[f].sector /\ ~ files'[f].open
<1> DEFINE no == FALSE
<1> DEFINE g == [ f \in DOMAIN files |-> WithOpen(files[f], no) ]
<1>1. files' = g
  BY DEF Mount, Remount, WithOpen
<1>2. g = [ f \in DOMAIN files |-> g[f] ]
  OBVIOUS
<1>3. ~ no
  OBVIOUS
<1>4. ASSUME NEW f \in DOMAIN files
      PROVE  /\ FileFit(g[f]) /\ g[f].chain = files[f].chain /\ g[f].dead = files[f].dead
             /\ g[f].sector = files[f].sector /\ g[f].open = no
  <2>1. FileFit(files[f])
    BY DEF Facts, FilesFit
  <2>2. g[f] = WithOpen(files[f], no)
    OBVIOUS
  <2> HIDE DEF g, no
  <2> DEFINE q == files[f]
  <2>3. FileFit(q) /\ g[f] = WithOpen(q, no)
    BY <2>1, <2>2
  <2> HIDE DEF q
  <2>4. FileFit(WithOpen(q, no))
    BY ONLY <2>3, FileFitWith
  <2>5. WithOpen(q, no).chain = q.chain /\ WithOpen(q, no).dead = q.dead
        /\ WithOpen(q, no).sector = q.sector /\ WithOpen(q, no).open = no
    BY ONLY <2>3, WithFields
  <2> QED BY <2>3, <2>4, <2>5 DEF q
<1> HIDE DEF g, no
<1>5. DOMAIN files' = DOMAIN files /\ Len(files') = Len(files)
  BY <1>1, <1>2, <1>4, FilesMade DEF Facts
<1> QED BY <1>1, <1>3, <1>4, <1>5

LEMMA MountLooks ==
  ASSUME Bad = {}, Mount
  PROVE  Within(todo', Looks) /\ plan' \in { << >>, PlanNP }
<1>1. First \in Nat /\ Inode0Max \in First + 1 .. Blocks /\ Block = 0 .. Blocks - 1 /\ Blocks \in Nat
  BY PagesAssumption
<1>2. ASSUME NEW m \in Nat, m <= Blocks - First PROVE Within(Flat([ i \in 1 .. m |-> Probed(First + i - 1) ]), Looks)
  <2>1. ASSUME NEW i \in 1 .. m PROVE Op("probe", First + i - 1, 0, "", "") \in Looks
    <3> DEFINE b == First + i - 1
    <3>1. b \in Block /\ 0 \in 0 .. LastSector
      BY <1>1, <1>2, LastSectorIs
    <3> HIDE DEF b
    <3>2. Op("probe", b, 0, "", "") \in Looks
      BY <3>1, LooksAre
    <3> QED BY <3>2 DEF b
  <2> QED BY <2>1, ProbesWithin
<1>3. ASSUME NEW b \in First .. Inode0Max - 1,
             Goto(<< "inspect", "prime" >>, Flat([ i \in 1 .. b - First + 1 |-> Probed(First + i - 1) ]))
      PROVE  Within(todo', Looks) /\ plan' = PlanNP
  <2>1. b - First + 1 \in Nat /\ b - First + 1 <= Blocks - First
    BY <1>1
  <2> QED BY <1>2, <1>3, <2>1 DEF Goto, PlanNP
<1>4. ASSUME Goto(<< >>, Flat([ i \in 1 .. Inode0Max - First |-> Probed(First + i - 1) ]))
      PROVE  Within(todo', Looks) /\ plan' = << >>
  <2>1. Inode0Max - First \in Nat /\ Inode0Max - First <= Blocks - First
    BY <1>1
  <2> QED BY <1>2, <1>4, <2>1 DEF Goto
<1> QED BY <1>3, <1>4 DEF Mount, Takes, TakesNone

LEMMA MountKept ==
  ASSUME Trusted, SystemInv, SystemInv', Kept, Mount
  PROVE  Kept'
<1>1. /\ state = "reset" /\ state' = "reset" /\ todo = << >> /\ plan = << >> /\ call'.for = "mount" /\ dirty' = 0 /\ ~ cache'.open
      /\ UNCHANGED << pre, backend, mem, dev, ichain, state, whole, on, faults >>
  BY DEF Mount, Remount
<1>2. Bad = {} /\ Facts
  BY DEF Trusted, SystemInv, MeantInv, Facts
<1>3. /\ DOMAIN files' = DOMAIN files /\ Len(files') = Len(files)
      /\ \A f \in DOMAIN files :
           /\ files'[f].chain = files[f].chain /\ files'[f].dead = files[f].dead
           /\ files'[f].sector = files[f].sector /\ ~ files'[f].open
  BY <1>2, MountFiles
<1>4. dirty = 0 /\ ~ InFront /\ PhaseFit
  BY <1>1 DEF Kept, PhaseFit
<1>5. /\ Live' = Live /\ Newest' = Newest /\ (InFront' <=> InFront) /\ (NeedsBlock' <=> NeedsBlock)
      /\ \A b : (TableBlock(b)' <=> TableBlock(b)) /\ (Owned(b)' <=> Owned(b))
      /\ \A g \in DOMAIN files : \A b : InChain(g, b)' <=> InChain(g, b)
      /\ \A k : EntryBlock(k)' = EntryBlock(k)
      /\ \A g \in DOMAIN files : LastBlock(g)' = LastBlock(g)
      /\ \A c : TableSector(c)' <=> TableSector(c)
      /\ \A g \in DOMAIN files : StoredSectors(g)' = StoredSectors(g)
  BY <1>1, <1>3, SameChains
<1>6. Within(todo', Looks) /\ plan' \in { << >>, PlanNP } /\ Whole(todo')
  BY <1>2, MountLooks, MountWhole
<1> DEFINE N == {}
<1>7. Does(todo', N, N) /\ \A i \in 1 .. Len(todo') : todo'[i].op \notin { "lists", "push", "erase" }
  BY <1>6, LooksDo
<1>8. /\ (\A p \in N : \A c \in held : Cell(c) = Cell(p) => c.b \in N)
      /\ (\A p \in N : p.part = "rest" => p.b # First /\ p.s # STAT /\ p.b # dev.erased /\ N = {})
      /\ { c \in held : c.b \notin N } \cup N = held /\ N = {}
  OBVIOUS
<1> HIDE DEF N
<1>9. /\ ScriptKept' /\ Puts(todo)' = N /\ Erased(todo)' = N /\ held' = held /\ Future = held
      /\ call'.for # "format" => Future' = { c \in held : c.b \notin N } \cup N
  BY <1>1, <1>6, <1>7, <1>8, ScriptBegins
<1>10. Future' = Future /\ \A b, s, part, tag : Will(b, s, part, tag)' <=> Will(b, s, part, tag)
  BY <1>1, <1>8, <1>9 DEF Will
<1>11. ContentKept'
  <2>1. CleanFit'
    BY <1>1, <1>5, <1>10 DEF Kept, ContentKept, CleanFit
  <2>2. OwnedFit'
    <3>1. \A f, g \in Live : \A i \in 1 .. Len(files[f].chain), j \in 1 .. Len(files[g].chain) :
            files[f].chain[i] = files[g].chain[j] => f = g /\ i = j
      BY DEF Kept, ContentKept, OwnedFit
    <3>2. Live \subseteq DOMAIN files
      BY DEF Live
    <3>3. (\A f, g \in Live : \A i \in 1 .. Len(files[f].chain), j \in 1 .. Len(files[g].chain) :
            files[f].chain[i] = files[g].chain[j] => f = g /\ i = j)'
      <4> SUFFICES ASSUME NEW f \in Live, NEW g \in Live, NEW i \in 1 .. Len(files'[f].chain),
                          NEW j \in 1 .. Len(files'[g].chain), files'[f].chain[i] = files'[g].chain[j]
                   PROVE  f = g /\ i = j
        BY <1>5
      <4>1. files'[f].chain = files[f].chain /\ files'[g].chain = files[g].chain
        BY <1>3, <3>2
      <4> QED BY <3>1, <4>1
    <3>4. (\A b \in Block : Owned(b) => Will(b, STAT, "first", "key"))'
      BY <1>5, <1>10 DEF Kept, ContentKept, OwnedFit
    <3>5. (\A f \in Live : \A b \in Block : InChain(f, b) => ~ TableBlock(b))'
      BY <1>5, <3>2 DEF Kept, ContentKept, OwnedFit
    <3>6. (\A i, j \in 1 .. Len(ichain) : ichain[i] = ichain[j] => i = j)'
      BY <1>1 DEF Kept, ContentKept, OwnedFit
    <3> QED BY <3>3, <3>4, <3>5, <3>6 DEF OwnedFit
  <2>3. StoredFit'
    <3> SUFFICES ASSUME NEW f \in Live
                 PROVE  /\ Will(EntryBlock(f), EntrySector(f), "first", "entry")'
                        /\ \A p \in StoredSectors(f) : Will(p[1], p[2], "first", "file")' /\ Will(p[1], p[2], "spare", "file")'
      <4>1. \A f \in Live : f \in DOMAIN files
        BY DEF Live
      <4> QED BY <1>5, <4>1 DEF StoredFit
    <3>1. /\ Will(EntryBlock(f), EntrySector(f), "first", "entry")
          /\ \A p \in StoredSectors(f) : Will(p[1], p[2], "first", "file") /\ Will(p[1], p[2], "spare", "file")
      BY DEF Kept, ContentKept, StoredFit
    <3>2. EntrySector(f)' = EntrySector(f)
      BY DEF EntrySector
    <3>3. Will(EntryBlock(f), EntrySector(f), "first", "entry")'
      BY <1>5, <1>10, <3>1, <3>2 DEF Will
    <3> QED BY <1>10, <3>1, <3>3
  <2>4. WriterFit'
    BY <1>3 DEF WriterFit
  <2>5. DirtyFit'
    <3>1. \A f \in Live : f \in DOMAIN files
      BY DEF Live
    <3> QED BY <1>1, <1>3, <1>4, <1>5, <3>1 DEF Kept, ContentKept, DirtyFit
  <2>6. EntriesFit'
    BY <1>1, <1>5, <1>10 DEF Kept, ContentKept, EntriesFit
  <2>7. RoomFit'
    BY <1>1, <1>5 DEF Kept, ContentKept, RoomFit
  <2> QED BY <2>1, <2>2, <2>3, <2>4, <2>5, <2>6, <2>7 DEF ContentKept
<1>12. PreInv' /\ available' = available /\ pending' = pending
  BY <1>1, PreStays
<1>13. /\ plan' \notin { PlanE, PlanIFAE, PlanT, PlanAE, PlanAIFAE, PlanAT, PlanP } /\ plan' \notin Primes /\ plan' \notin BlockTaken
       /\ plan' \notin InodePlans /\ plan' \notin WritePlans
  BY <1>6, PlansAre DEF Primes, BlockTaken, InodePlans, WritePlans
<1>14. PhaseFit'
  BY <1>1, <1>3, <1>4, <1>5, <1>13 DEF PhaseFit
<1>15. TakenFit'
  BY <1>3, <1>13 DEF TakenFit
<1>16. ListFit'
  <2>1. ~ Listing'
    BY <1>1, <1>13 DEF Listing
  <2> QED BY <1>1, <1>5, <1>9, <1>10, <1>12, <2>1, ListsStay
<1>17. DrawFit'
  BY <1>1, <1>7, <1>8, <1>9, <1>13 DEF DrawFit
<1>18. AwayFit' /\ FutureFit'
  BY <1>1 DEF AwayFit, FutureFit
<1> QED BY <1>9, <1>11, <1>12, <1>14, <1>15, <1>16, <1>17, <1>18 DEF Kept

(* What a format programs and erases.                                      *)
LEMMA DoesThen ==
  ASSUME NEW s, NEW P, NEW E, Does(s, P, E), NEW t, NEW Q, Does(t, Q, {}), \A c \in P, d \in Q : Cell(c) # Cell(d)
  PROVE  Does(s \o t, P \cup Q, E)
<1> DEFINE N == {}
<1>1. Does(t, Q, N) /\ Cross(P, N, Q) /\ E \cup N = E
  BY DEF Cross
<1> HIDE DEF N
<1>2. Does(s \o t, P \cup Q, E \cup N)
  BY <1>1, DoesConcat
<1> QED BY <1>1, <1>2

LEMMA ErasesThen ==
  ASSUME NEW s, NEW E, Does(s, {}, E), NEW t, NEW G, Does(t, {}, G)
  PROVE  Does(s \o t, {}, E \cup G)
<1> DEFINE N == {}
<1>1. Does(s, N, E) /\ Does(t, N, G) /\ Cross(N, G, N) /\ N \cup N = N
  BY DEF Cross
<1> HIDE DEF N
<1>2. Does(s \o t, N \cup N, E \cup G)
  BY <1>1, DoesConcat
<1> QED BY <1>1, <1>2 DEF N

FormatParts ==
  { Part(First, STAT, "first", "key"), Part(First, INIT, "first", "inode"), Part(First, INIT, "spare", "inode0") }

LEMMA FormatDoes ==
  ASSUME Bad = {}
  PROVE  Does(FormatScript, FormatParts, First .. Blocks - 1)
<1>1. First \in Nat /\ Blocks - First \in Nat \ {0} /\ Block = 0 .. Blocks - 1 /\ Blocks \in Nat
  BY PagesAssumption
<1>2. PICK m : m = Blocks - First
  OBVIOUS
<1> DEFINE g == [ i \in 1 .. m |-> Open(First + i - 1, STAT) \o Erase(First + i - 1) ]
           u == Flat(g)
<1>3. m \in Nat /\ g = [ i \in 1 .. m |-> g[i] ] /\ \A i \in 1 .. m : g[i] = Open(First + i - 1, STAT) \o Erase(First + i - 1)
  BY <1>1, <1>2
<1> HIDE DEF g
<1>4. ASSUME NEW i \in 1 .. m PROVE Does(g[i], {}, { First + i - 1 })
  <2>1. PICK b : b = First + i - 1
    OBVIOUS
  <2>2. Does(Open(b, STAT), {}, {}) /\ Does(Erase(b), {}, { b })
    BY OpDoes
  <2>3. PICK s : s = Open(b, STAT)
    OBVIOUS
  <2>4. PICK t : t = Erase(b)
    OBVIOUS
  <2>5. Does(s \o t, {}, { b })
    BY <2>2, <2>3, <2>4, DoesFirst
  <2> QED BY <1>3, <2>1, <2>3, <2>4, <2>5
<1>5. \A i \in 1 .. m : Puts(g[i]) = {} /\ Erased(g[i]) = { First + i - 1 } /\ IsList(g[i]) /\ Apart(g[i])
  BY <1>4 DEF Does
<1>6. Does(u, UNION { Puts(g[i]) : i \in 1 .. m }, UNION { Erased(g[i]) : i \in 1 .. m })
  <2>1. \A i \in 1 .. m : IsList(g[i]) /\ Apart(g[i])
    BY <1>5
  <2>2. \A i, j \in 1 .. m : i < j => Cross(Puts(g[i]), Erased(g[j]), Puts(g[j]))
    BY <1>5 DEF Cross
  <2>3. g = [ i \in 1 .. m |-> g[i] ] /\ m \in Nat
    BY <1>3
  <2> QED BY ONLY <2>1, <2>2, <2>3, DoesFlat
<1>7. UNION { Erased(g[i]) : i \in 1 .. m } = First .. Blocks - 1
  <2>1. \A b : b \in UNION { Erased(g[i]) : i \in 1 .. m } <=> \E i \in 1 .. m : b \in Erased(g[i])
    OBVIOUS
  <2>2. \A i \in 1 .. m : \A b : b \in Erased(g[i]) <=> b = First + i - 1
    BY <1>5
  <2>3. \A b : (\E i \in 1 .. m : b \in Erased(g[i])) <=> \E i \in 1 .. m : b = First + i - 1
    BY ONLY <2>2
  <2>4. ASSUME NEW b PROVE (\E i \in 1 .. m : b = First + i - 1) <=> b \in First .. Blocks - 1
    <3>1. ASSUME b \in First .. Blocks - 1 PROVE \E i \in 1 .. m : b = First + i - 1
      <4>1. b - First + 1 \in 1 .. m /\ b = First + (b - First + 1) - 1
        BY <1>1, <1>2, <3>1
      <4> QED BY <4>1
    <3>2. ASSUME NEW i \in 1 .. m, b = First + i - 1 PROVE b \in First .. Blocks - 1
      BY <1>1, <1>2, <3>2
    <3> QED BY <3>1, <3>2
  <2> QED BY ONLY <2>1, <2>3, <2>4
<1>8. UNION { Puts(g[i]) : i \in 1 .. m } = {}
  BY <1>5
<1> DEFINE b == First  A == First .. Blocks - 1
           h == Flat([ i \in 1 .. FirstGood - First |-> Open(First + i - 1, STAT) ])
           a1 == Open(b, STAT)  a2 == Close  a3 == Erase(b)  a4 == Open(b, STAT)  a5 == Write(b, STAT, "first", "key")
           a6 == Open(b, INIT)  a7 == Write(b, INIT, "first", "inode")  a8 == Spare(b, INIT, "inode0")
           p5 == Part(b, STAT, "first", "key")  p7 == Part(b, INIT, "first", "inode")  p8 == Part(b, INIT, "spare", "inode0")
<1>9. Does(u, {}, A)
  BY <1>6, <1>7, <1>8
<1>10. Does(h, {}, {})
  <2> DEFINE k == [ i \in 1 .. First - First |-> Open(First + i - 1, STAT) ]
  <2>1. DOMAIN k = 1 .. 0 /\ k = [ i \in 1 .. 0 |-> k[i] ] /\ h = Flat(k)
    BY <1>1, FirstGoodIs
  <2> HIDE DEF k, h
  <2>2. Len(k) = 0
    BY <2>1, ListMade
  <2>3. Flat(k) = << >>
    BY <2>2, FlatIsCat, CatZero
  <2> QED BY <2>1, <2>3, DoesNone
<1>11. FormatScript = (((((((u \o h) \o a1) \o a2) \o a3) \o (a4 \o a5)) \o a6) \o a7) \o a8
  <2>1. FirstGood = First
    BY FirstGoodIs
  <2>2. FormatScript = u \o h
    \o Open(FirstGood, STAT) \o Close \o Erase(FirstGood) \o Statistics(FirstGood, "key")
    \o Open(FirstGood, INIT) \o Write(FirstGood, INIT, "first", "inode")
    \o Spare(FirstGood, INIT, "inode0")
    BY <1>2 DEF FormatScript, g
  <2> HIDE DEF u, h
  <2> QED BY <2>1, <2>2 DEF Statistics
<1>12. /\ Does(a1, {}, {}) /\ Does(a2, {}, {}) /\ Does(a3, {}, { b }) /\ Does(a4, {}, {}) /\ Does(a5, { p5 }, {})
       /\ Does(a6, {}, {}) /\ Does(a7, { p7 }, {}) /\ Does(a8, { p8 }, {})
  BY OpDoes
<1>13. Cell(p5) # Cell(p7) /\ Cell(p5) # Cell(p8) /\ Cell(p7) # Cell(p8)
  BY PartIsIt DEF STAT, INIT
<1>14. FormatParts = { p5, p7, p8 } /\ b \in A
  BY <1>1 DEF FormatParts
<1> HIDE DEF u, h, a1, a2, a3, a4, a5, a6, a7, a8, p5, p7, p8, A, b
<1> DEFINE N == {}
<1>15. A \cup N = A /\ A \cup { b } = A /\ { p5 } \cup N = { p5 } /\ { p5 } \cup { p7 } = { p5, p7 } /\ { p5, p7 } \cup { p8 } = { p5, p7, p8 }
       /\ N \cup { p5 } = { p5 }
  BY <1>14
<1>16. /\ Does(u, N, A) /\ Does(h, N, N)
       /\ Does(a1, N, N) /\ Does(a2, N, N) /\ Does(a3, N, { b }) /\ Does(a4, N, N) /\ Does(a5, { p5 }, N)
       /\ Does(a6, N, N) /\ Does(a7, { p7 }, N) /\ Does(a8, { p8 }, N)
  BY <1>9, <1>10, <1>12
<1>17. ASSUME NEW s, NEW E, Does(s, N, E), NEW t, NEW G, Does(t, N, G) PROVE Does(s \o t, N, E \cup G)
  BY <1>17, ErasesThen
<1>18. ASSUME NEW s, NEW P, NEW E, Does(s, P, E), NEW t, NEW Q, Does(t, Q, N), \A c \in P, d \in Q : Cell(c) # Cell(d)
       PROVE  Does(s \o t, P \cup Q, E)
  BY <1>18, DoesThen
<1>19. /\ \A c \in N, d \in { p5 } : Cell(c) # Cell(d)
       /\ \A c \in { p5 }, d \in N : Cell(c) # Cell(d)
       /\ \A c \in { p5 }, d \in { p7 } : Cell(c) # Cell(d)
       /\ \A c \in { p5, p7 }, d \in { p8 } : Cell(c) # Cell(d)
  BY <1>13
<1> HIDE DEF N
<1>20. Does(u \o h, N, A)
  BY ONLY <1>15, <1>16, <1>17
<1>21. PICK v1 : v1 = u \o h
  OBVIOUS
<1>22. Does(v1 \o a1, N, A)
  BY ONLY <1>15, <1>16, <1>17, <1>20, <1>21
<1>23. PICK v2 : v2 = v1 \o a1
  OBVIOUS
<1>24. Does(v2 \o a2, N, A)
  BY ONLY <1>15, <1>16, <1>17, <1>22, <1>23
<1>25. PICK v3 : v3 = v2 \o a2
  OBVIOUS
<1>26. Does(v3 \o a3, N, A)
  BY ONLY <1>15, <1>16, <1>17, <1>24, <1>25
<1>27. PICK v4 : v4 = v3 \o a3
  OBVIOUS
<1>28. Does(a4 \o a5, { p5 }, N)
  BY ONLY <1>15, <1>16, <1>18, <1>19
<1>29. PICK w : w = a4 \o a5
  OBVIOUS
<1>30. Does(v4 \o w, { p5 }, A)
  BY ONLY <1>15, <1>18, <1>19, <1>26, <1>27, <1>28, <1>29
<1>31. PICK v5 : v5 = v4 \o w
  OBVIOUS
<1>32. Does(v5 \o a6, { p5 }, A)
  BY ONLY <1>15, <1>16, <1>18, <1>19, <1>30, <1>31
<1>33. PICK v6 : v6 = v5 \o a6
  OBVIOUS
<1>34. Does(v6 \o a7, { p5, p7 }, A)
  BY ONLY <1>15, <1>16, <1>18, <1>19, <1>32, <1>33
<1>35. PICK v7 : v7 = v6 \o a7
  OBVIOUS
<1>36. Does(v7 \o a8, { p5, p7, p8 }, A)
  BY ONLY <1>15, <1>16, <1>18, <1>19, <1>34, <1>35
<1> QED BY <1>11, <1>14, <1>21, <1>23, <1>25, <1>27, <1>29, <1>31, <1>33, <1>35, <1>36 DEF A

LEMMA NotAhead ==
  ASSUME SystemInv, Quiet
  PROVE  ~ InFront
<1>1. Newest \in Nat \ {0} /\ ichain \in Seq(Block)
  BY FilesAre DEF SystemInv, MeantInv, TableFit
<1>2. Len(ichain) \in Nat
  BY <1>1
<1>3. (Newest - 1) \div EntriesPerBlock + 1 \in Int
  BY <1>1, EntriesAre
<1> QED BY <1>2, <1>3 DEF Quiet, InFront

LEMMA FormatKept ==
  ASSUME Trusted, SystemInv, SystemInv', Kept, ~ lost, Format
  PROVE  Kept'
<1>1. /\ plan = << >> /\ todo = << >> /\ Quiet /\ state' = "reset" /\ plan' = << >> /\ todo' = FormatScript
      /\ call'.for = "format"
      /\ UNCHANGED << pre, backend, mem, dev, cache, ichain, files, dirty, whole >>
  BY DEF Format, Trusted, Goto, layer, fs
<1>2. Bad = {} /\ First \in { 0, 1 } /\ First \in Nat /\ Blocks \in Nat /\ First < Blocks /\ Block = 0 .. Blocks - 1
  BY PagesAssumption DEF Trusted
<1>3. Does(todo', FormatParts, First .. Blocks - 1)
  BY <1>1, <1>2, FormatDoes
<1>4. Whole(todo')
  <2>1. FilesFit
    BY DEF SystemInv, MeantInv
  <2> QED BY <1>2, <2>1, CallsWhole
<1>5. \A p \in FormatParts : p.b = First /\ p.s \in { STAT, INIT } /\ p.part # "rest"
  BY PartIsIt DEF FormatParts
<1>6. \A p \in FormatParts : \A c \in held : Cell(c) = Cell(p) => c.b \in First .. Blocks - 1
  <2> SUFFICES ASSUME NEW p \in FormatParts, NEW c \in held, Cell(c) = Cell(p) PROVE c.b \in First .. Blocks - 1
    OBVIOUS
  <2>1. c.b = First
    BY <1>5 DEF Cell
  <2> QED BY <1>2, <2>1
<1> HIDE DEF FormatParts
<1>7. /\ ScriptKept' /\ Puts(todo)' = FormatParts /\ Erased(todo)' = First .. Blocks - 1 /\ held' = held /\ Future = held
      /\ Future' = held
  <2>1. /\ SystemInv /\ Kept /\ todo = << >> /\ UNCHANGED << mem, backend, dev, whole >>
        /\ Does(todo', FormatParts, First .. Blocks - 1) /\ Whole(todo')
        /\ (\A p \in FormatParts : \A c \in held : Cell(c) = Cell(p) => c.b \in First .. Blocks - 1)
        /\ \A p \in FormatParts : p.part = "rest" => p.b # First /\ p.s # STAT /\ p.b # dev.erased /\ First .. Blocks - 1 = {}
    BY <1>1, <1>3, <1>4, <1>5, <1>6
  <2>2. PICK A : A = First .. Blocks - 1
    OBVIOUS
  <2>3. /\ SystemInv /\ Kept /\ todo = << >> /\ UNCHANGED << mem, backend, dev, whole >>
        /\ Does(todo', FormatParts, A) /\ Whole(todo')
        /\ (\A p \in FormatParts : \A c \in held : Cell(c) = Cell(p) => c.b \in A)
        /\ \A p \in FormatParts : p.part = "rest" => p.b # First /\ p.s # STAT /\ p.b # dev.erased /\ A = {}
    BY ONLY <2>1, <2>2
  <2>4. /\ ScriptKept' /\ Puts(todo)' = FormatParts /\ Erased(todo)' = A /\ held' = held /\ Future = held
        /\ call'.for = "format" => Future' = held
    BY ONLY <2>3, ScriptBegins
  <2> QED BY <1>1, <2>2, <2>4
<1>8. \A b : Owned(b)' <=> Owned(b)
  BY <1>1, SameFiles
<1>9. ContentKept'
  <2>1. CleanFit'
    BY <1>1, <1>7, <1>8 DEF Kept, ContentKept, CleanFit
  <2> QED BY <1>1, <1>7, <2>1, ContentDropped DEF Kept
<1>10. PreInv' /\ available' = available /\ pending' = pending
  BY <1>1, PreStays
<1>11. /\ plan' \notin Primes /\ plan' \notin BlockTaken /\ plan' \notin InodePlans /\ plan' \notin WritePlans
       /\ plan' \notin MountPlans /\ plan' \notin { PlanE, PlanIFAE, PlanT, PlanAE, PlanAIFAE, PlanAT, PlanP }
  <2>1. << >> # PlanP
    BY PlansAre
  <2> QED BY <1>1, <2>1, NoPlan DEF Primes
<1>12. PhaseFit'
  <2>1. ~ InFront'
    BY <1>1, NotAhead, SameFiles
  <2>2. dirty' = 0
    BY <1>1 DEF Quiet
  <2> QED BY <1>1, <1>11, <2>1, <2>2 DEF PhaseFit
<1>13. TakenFit'
  <2>1. \A g \in DOMAIN files' : files'[g].open => dev'.erased # LastBlock(g)'
    BY <1>1, SameFiles DEF Kept, TakenFit
  <2> QED BY <1>11, <2>1 DEF TakenFit
<1>14. ListFit'
  <2>1. ~ Listing'
    BY <1>1, <1>11 DEF Listing
  <2>2. \A b : Will(b, STAT, "first", "key")' <=> Will(b, STAT, "first", "key")
    BY <1>7 DEF Will
  <2> QED BY <1>1, <1>7, <1>8, <1>10, <2>1, <2>2, ListsStay
<1>15. DrawFit'
  BY <1>1, <1>11 DEF DrawFit
<1>16. AwayFit'
  BY <1>1 DEF AwayFit
<1>17. FutureFit'
  <2> SUFFICES ASSUME NEW c \in After(todo)' PROVE c.b \notin Used /\ (c.b = First => c.s \in { STAT, INIT })
    BY DEF FutureFit
  <2>1. After(todo)' = { d \in held : d.b \notin First .. Blocks - 1 } \cup FormatParts
    BY <1>7 DEF After
  <2>2. CASE c \in FormatParts
    BY <1>2, <1>5, <2>2 DEF Used
  <2>3. CASE c.b \notin First .. Blocks - 1
    <3>1. PICK q : q = c.b
      OBVIOUS
    <3>2. q \notin First .. Blocks - 1 => q \notin Block \ { 0, First } /\ q # First
      BY <1>2
    <3> QED BY <2>3, <3>1, <3>2 DEF Used
  <2> QED BY <2>1, <2>2, <2>3
<1> QED BY <1>7, <1>9, <1>10, <1>12, <1>13, <1>14, <1>15, <1>16, <1>17 DEF Kept

(* The lists, when neither they nor the flash change and no block can be   *)
(* taken off them.                                                         *)
LEMMA ListsRest ==
  ASSUME Kept, pending' = pending, held' = held, cache' = cache, ~ Listing'
  PROVE  ListFit'
<1>1. \A b \in pending' : b \in Used /\ Unallocated(b)' /\ ~ (cache'.open /\ cache'.block = b)
  <2> SUFFICES ASSUME NEW b \in pending PROVE b \in Used /\ Unallocated(b)' /\ ~ (cache'.open /\ cache'.block = b)
    OBVIOUS
  <2>1. b \in Used /\ Unallocated(b) /\ ~ (cache.open /\ cache.block = b)
    BY DEF Kept, ListFit
  <2>2. Unallocated(b)'
    BY <2>1 DEF Unallocated, IsInode, IsInode0, IsFileBlock, Holds
  <2> QED BY <2>1, <2>2
<1> QED BY <1>1 DEF ListFit

LEMMA PowerCutKept ==
  ASSUME Trusted, SystemInv, SystemInv', Kept, ~ lost, PowerCut
  PROVE  Kept'
<1>1. /\ plan' = << >> /\ todo' = << >> /\ state' = "reset" /\ call'.for = "none"
      /\ Quiet \/ call.for \in { "format", "mount" }
      /\ UNCHANGED << pre, backend, mem, dev, cache, ichain, files, dirty, whole >>
  BY DEF PowerCut, Trusted, Goto, layer, fs
<1>2. /\ Puts(todo)' = {} /\ Erased(todo)' = {} /\ Apart(todo)' /\ After(todo)' = held' /\ held' = held
      /\ Future' = held
  <2>1. held' = held
    BY <1>1 DEF held, Named
  <2> QED BY <1>1, <2>1, ScriptEnded DEF Future
<1>3. \A b : Owned(b)' <=> Owned(b)
  BY <1>1, SameFiles
<1>4. (\A c : Owned(c.b) => (c \in held <=> c \in Future))
      /\ (whole => \A c \in held : c.b \in Used /\ c.s # STAT => Owned(c.b))
  <2>1. CASE todo = << >> \/ call.for = "format"
    <3>1. Future = held
      <4>1. Puts(<< >>) = {} /\ Erased(<< >>) = {}
        BY DoesNone DEF Does
      <4> QED BY <2>1, <4>1 DEF Future, After
    <3> QED BY <3>1 DEF Kept, ContentKept, CleanFit
  <2>2. CASE call.for = "mount"
    <3>1. plan \in Primes \/ (Puts(todo) = {} /\ Erased(todo) = {})
      BY <2>2 DEF Kept, DrawFit
    <3> QED BY <2>2, <3>1, GivenUp
  <2> QED BY <1>1, <2>1, <2>2 DEF Quiet
<1>5. ScriptKept'
  <2>1. OnceFit'
    BY <1>2 DEF OnceFit
  <2>2. RestFit'
    BY <1>2 DEF RestFit
  <2>3. ErasedFit'
    BY <1>1, <1>2 DEF Kept, ScriptKept, ErasedFit, Sd
  <2>4. OpenedFit'
    BY <1>1 DEF OpenedFit
  <2> QED BY <2>1, <2>2, <2>3, <2>4 DEF ScriptKept
<1>6. ContentKept'
  <2>1. CleanFit'
    BY <1>1, <1>2, <1>3, <1>4 DEF CleanFit
  <2>2. \A c : Owned(c.b) => (c \in Future' <=> c \in Future)
    BY <1>2, <1>4
  <2> QED BY <1>1, <2>1, <2>2, ContentDropped DEF Kept
<1>7. PreInv' /\ pending' = pending
  BY <1>1, PreStays
<1>8. /\ plan' \notin Primes /\ plan' \notin BlockTaken /\ plan' \notin InodePlans /\ plan' \notin WritePlans
      /\ plan' \notin MountPlans /\ plan' \notin { PlanE, PlanIFAE, PlanT, PlanAE, PlanAIFAE, PlanAT, PlanP }
  <2>1. << >> # PlanP
    BY PlansAre
  <2> QED BY <1>1, <2>1, NoPlan DEF Primes
<1>9. dirty = 0 /\ ~ InFront
  BY <1>1, NotAhead DEF Quiet, Kept, PhaseFit
<1>10. PhaseFit'
  <2>1. ~ InFront'
    BY <1>1, <1>9, SameFiles
  <2> QED BY <1>1, <1>8, <1>9, <2>1 DEF PhaseFit
<1>11. TakenFit'
  <2>1. \A g \in DOMAIN files' : files'[g].open => dev'.erased # LastBlock(g)'
    BY <1>1, SameFiles DEF Kept, TakenFit
  <2> QED BY <1>8, <2>1 DEF TakenFit
<1>12. ListFit'
  BY <1>1, <1>2, <1>7, <1>8, ListsRest DEF Listing
<1>13. DrawFit'
  <2>1. Len(todo') = 0
    BY <1>1, ListNone
  <2> QED BY <1>1, <1>2, <1>8, <2>1 DEF DrawFit
<1>14. AwayFit' /\ FutureFit'
  BY <1>1 DEF AwayFit, FutureFit
<1> QED BY <1>5, <1>6, <1>7, <1>10, <1>11, <1>12, <1>13, <1>14 DEF Kept

(* Without power there is no call.                                         *)
OffFit == ~ on => plan = << >> /\ todo = << >> /\ state = "reset" /\ call.for = "none"

LEMMA OffInit == Init => OffFit
BY DEF Init, OffFit

LEMMA OffNext == OffFit /\ [Next]_vars => OffFit'
<1> SUFFICES ASSUME OffFit, [Next]_vars PROVE OffFit'
  OBVIOUS
<1>1. CASE UNCHANGED vars
  BY <1>1 DEF OffFit, vars, mounts
<1>2. ASSUME PowerCut PROVE OffFit'
  BY <1>2 DEF PowerCut, Goto, OffFit
<1>3. ASSUME PowerOn PROVE OffFit'
  BY <1>3 DEF PowerOn, OffFit
<1>4. ASSUME on, on' = on PROVE OffFit'
  BY <1>4 DEF OffFit
<1>5. ASSUME Step PROVE OffFit'
  <2> PICK x : Access(x) \/ Program(x) \/ WriteFails(x) \/ Lists(x) \/ DoErase(x) \/ EraseFails(x)
    BY <1>5 DEF Step
  <2>1. on
    BY <1>5 DEF Step
  <2>2. on' = on
    BY DEF Access, Program, WriteFails, Lists, DoErase, EraseFails, Aside, mounts
  <2> QED BY <1>4, <2>1, <2>2
<1>6. ASSUME \/ Flush \/ Allocate \/ PrimeEnds \/ AppendInode \/ WriteEntry \/ LinkTail \/ Inspect
             \/ \E b \in Block : Draw(b) \/ MisDraw(b)
      PROVE  OffFit'
  <2>1. on
    BY <1>6 DEF Flush, Allocate, PrimeEnds, AppendInode, WriteEntry, LinkTail, Inspect, Draw, MisDraw, NextPart
  <2>2. on' = on
    BY <1>6 DEF Flush, Allocate, PrimeEnds, AppendInode, WriteEntry, LinkTail, Inspect, Draw, MisDraw, mounts
  <2> QED BY <1>4, <2>1, <2>2
<1>7. ASSUME Create \/ (\E f \in DOMAIN files : Commit(f) \/ CommitTail(f) \/ Remove(f)) \/ Look
      PROVE  OffFit'
  <2>1. on
    BY <1>7 DEF Create, Commit, CommitTail, Remove, Look, Idle
  <2>2. on' = on
    BY <1>7 DEF Create, Commit, CommitTail, Remove, Look, Begin, mounts
  <2> QED BY <1>4, <2>1, <2>2
<1>8. ASSUME Format \/ Mount \/ MisMount PROVE OffFit'
  <2>1. on /\ on' = on
    BY <1>8 DEF Format, Mount, MisMount, Remount
  <2> QED BY <1>4, <2>1
<1> QED BY <1>1, <1>2, <1>3, <1>5, <1>6, <1>7, <1>8 DEF Next

LEMMA HeldBlocks ==
  ASSUME SystemInv, NEW c \in held
  PROVE  c.b \in Nat
<1>1. PICK m \in mem : c = Named(m)
  BY DEF held
<1>2. m.at \in Nat
  BY DEF SystemInv, DeviceFit
<1>3. PICK b \in Nat, p \in 0 .. PagesPerBlock - 1, i \in 0 .. SectorsPerPage : m.at = SdBlock(b, p, i)
  BY <1>2, AddressSplit
<1>4. Named(m).b = b
  BY <1>3, NamedIs
<1> QED BY <1>1, <1>4

LEMMA PowerOnKept ==
  ASSUME Trusted, SystemInv, SystemInv', Kept, OffFit, PowerOn
  PROVE  Kept'
<1>1. /\ plan = << >> /\ todo = << >> /\ state = "reset" /\ call.for = "none"
      /\ dev'.erased = None /\ ~ cache'.open /\ Reinitialize /\ pending' = {}
      /\ UNCHANGED << backend, mem, ichain, files, dirty, whole, plan, todo, call, state >>
  BY DEF PowerOn, OffFit, fs, Reinitialize
<1>2. /\ Puts(todo)' = {} /\ Erased(todo)' = {} /\ Apart(todo)' /\ After(todo)' = held' /\ held' = held
      /\ Future' = held
  <2>1. held' = held
    BY <1>1 DEF held, Named
  <2> QED BY <1>1, <2>1, ScriptEnded DEF Future
<1>3. Future = held
  <2>1. Puts(<< >>) = {} /\ Erased(<< >>) = {}
    BY DoesNone DEF Does
  <2> QED BY <1>1, <2>1 DEF Future, After
<1>4. \A b : Owned(b)' <=> Owned(b)
  BY <1>1, SameFiles
<1>5. ScriptKept'
  <2>1. OnceFit'
    BY <1>2 DEF OnceFit
  <2>2. RestFit'
    BY <1>2 DEF RestFit
  <2>3. ErasedFit'
    <3>1. \A c \in held : c.part = "rest" => c.b # First /\ c.s # STAT
      BY DEF Kept, ScriptKept, ErasedFit
    <3>2. \A c \in held : c.b # None
      BY HeldBlocks DEF None
    <3> QED BY <1>1, <1>2, <3>1, <3>2 DEF ErasedFit, Sd
  <2>4. OpenedFit'
    BY <1>1 DEF OpenedFit
  <2> QED BY <2>1, <2>2, <2>3, <2>4 DEF ScriptKept
<1>6. ContentKept'
  <2>1. CleanFit'
    BY <1>1, <1>2, <1>3, <1>4 DEF Kept, ContentKept, CleanFit
  <2>2. \A c : Owned(c.b) => (c \in Future' <=> c \in Future)
    BY <1>2, <1>3
  <2> QED BY <1>1, <2>1, <2>2, ContentDropped DEF Kept
<1>7. PreInv'
  BY <1>1, ReinitializeInv
<1>8. PhaseFit'
  <2>1. InFront' <=> InFront
    BY <1>1, SameFiles
  <2>2. dirty = 0 /\ ~ InFront
    BY <1>1 DEF Kept, PhaseFit
  <2> QED BY <1>1, <2>1, <2>2, NoPlan DEF PhaseFit, MountPlans
<1>9. TakenFit'
  <2>1. \A f \in DOMAIN files : LastBlock(f) \in Used
    BY FilesAre DEF SystemInv, MeantInv
  <2>2. \A f \in DOMAIN files : LastBlock(f) # None
    BY <2>1, PagesAssumption DEF Used, None
  <2>3. \A f \in DOMAIN files : LastBlock(f)' = LastBlock(f)
    BY <1>1, SameFiles
  <2> QED BY <1>1, <2>2, <2>3, NoPlan DEF TakenFit
<1>10. ListFit'
  <2>1. \A b : ~ InAvailable(b)'
    BY <1>1, EmptiedIs
  <2> QED BY <1>1, <2>1 DEF ListFit
<1>11. DrawFit'
  <2>1. Len(todo') = 0
    BY <1>1, ListNone
  <2> QED BY <1>1, <1>2, <2>1, NoPlan DEF DrawFit
<1>12. AwayFit' /\ FutureFit'
  BY <1>1 DEF AwayFit, FutureFit
<1> QED BY <1>5, <1>6, <1>7, <1>8, <1>9, <1>10, <1>11, <1>12 DEF Kept

LEMMA KeptStutter ==
  ASSUME SystemInv, Kept, UNCHANGED vars
  PROVE  Kept'
<1>1. UNCHANGED << pre, available, pending, nfree, n, backend, mem, dev, cache, ichain, files, dirty, state, inode0, whole, on, plan, todo, call, faults >>
  BY DEF vars, pre, layer, fs, mounts
<1>2. /\ held' = held /\ Puts(todo)' = Puts(todo) /\ Erased(todo)' = Erased(todo) /\ (Apart(todo)' <=> Apart(todo))
  BY <1>1 DEF held, Named, Puts, Erased, Apart
<1>3. After(todo)' = After(todo) /\ Future' = Future
  BY <1>1, <1>2 DEF After, Future
<1>4. \A b, s, part, tag : Will(b, s, part, tag)' <=> Will(b, s, part, tag)
  BY <1>3 DEF Will
<1>5. /\ \A b : (Owned(b)' <=> Owned(b)) /\ (TableBlock(b)' <=> TableBlock(b))
      /\ (InFront' <=> InFront) /\ (NeedsBlock' <=> NeedsBlock)
      /\ \A g : LastBlock(g)' = LastBlock(g)
  BY <1>1, SameFiles DEF NeedsBlock
<1>6. /\ (IsFull' <=> IsFull)
      /\ \A b : (Contains(b)' <=> Contains(b)) /\ (InAvailable(b)' <=> InAvailable(b)) /\ (Unallocated(b)' <=> Unallocated(b))
  BY <1>1, <1>2 DEF IsFull, Contains, InAvailable, Unallocated, IsInode, IsInode0, IsFileBlock, Holds
<1>7. PreInv'
  BY <1>1, PreStays
<1>8. ScriptKept'
  BY <1>1, <1>2 DEF Kept, ScriptKept, OnceFit, RestFit, ErasedFit, OpenedFit, Sd
<1>9. ContentKept'
  <2>1. CleanFit'
    BY <1>1, <1>3, <1>5 DEF Kept, ContentKept, CleanFit
  <2> QED BY <1>1, <1>3, <2>1, ContentDropped DEF Kept
<1>10. PhaseFit'
  BY <1>1, <1>5 DEF Kept, PhaseFit
<1>11. TakenFit'
  BY <1>1, <1>2, <1>4, <1>5 DEF Kept, TakenFit
<1>12. ListFit'
  BY <1>1, <1>4, <1>5, <1>6 DEF Kept, ListFit, Listing
<1>13. DrawFit'
  BY <1>1, <1>2, <1>4, <1>5, <1>6 DEF Kept, DrawFit
<1>14. AwayFit'
  BY <1>1, <1>6 DEF Kept, AwayFit, Primed
<1>15. FutureFit'
  BY <1>1, <1>3 DEF Kept, FutureFit
<1> QED BY <1>7, <1>8, <1>9, <1>10, <1>11, <1>12, <1>13, <1>14, <1>15 DEF Kept

LEMMA KeptInit == ASSUME Init PROVE Kept /\ OffFit
<1>1. /\ mem = {} /\ ichain = << >> /\ files = << >> /\ dirty = 0 /\ dev.erased = None /\ dev.block = None /\ ~ cache.open
      /\ state = "reset" /\ ~ whole /\ on /\ plan = << >> /\ todo = << >> /\ call.for = "none" /\ PreInit
  BY DEF Init
<1>2. held = {}
  BY <1>1 DEF held
<1>3. Puts(<< >>) = {} /\ Erased(<< >>) = {} /\ Apart(<< >>)
  BY DoesNone DEF Does
<1>4. Future = {}
  BY <1>1, <1>2, <1>3 DEF Future, After
<1>5. Len(<< >>) = 0
  BY ListNone
<1>6. /\ Live = {} /\ \A b : ~ Owned(b)
  <2>1. DOMAIN files = 1 .. 0
    BY <1>1
  <2>2. Live = {}
    BY <2>1 DEF Live
  <2> QED BY <1>1, <1>5, <2>2 DEF Owned, TableBlock
<1>7. DOMAIN files = {}
  BY <1>1
<1>8. PreInv /\ pending = {} /\ available = << >>
  BY <1>1, PreInitInv DEF PreInit
<1>9. ScriptKept
  BY <1>1, <1>2, <1>3 DEF ScriptKept, OnceFit, RestFit, ErasedFit, OpenedFit
<1>10. ContentKept
  <2>1. CleanFit /\ StoredFit /\ WriterFit /\ DirtyFit /\ RoomFit
    BY <1>1, <1>4, <1>6, <1>7 DEF CleanFit, StoredFit, WriterFit, DirtyFit, RoomFit
  <2>2. OwnedFit
    <3>1. \A i, j \in 1 .. Len(ichain) : ichain[i] = ichain[j] => i = j
      BY <1>1, <1>5
    <3> QED BY <1>6, <3>1 DEF OwnedFit
  <2>3. EntriesFit
    BY <1>1, <1>6 DEF EntriesFit, Owned
  <2> QED BY <2>1, <2>2, <2>3 DEF ContentKept
<1>11. ~ InFront
  <2>1. Newest = 1
    BY <1>1, <1>5 DEF Newest
  <2>2. PICK q : q = (Newest - 1) \div EntriesPerBlock
    OBVIOUS
  <2>3. q \in Nat
    BY <2>1, <2>2, EntriesAre
  <2>4. ~ 0 > q + 1
    BY <2>3
  <2>5. Len(ichain) = 0
    BY <1>1, <1>5
  <2> QED BY ONLY <2>2, <2>4, <2>5 DEF InFront
<1>12. PhaseFit
  BY <1>1, <1>7, <1>11, NoPlan DEF PhaseFit, MountPlans
<1>13. TakenFit
  BY <1>1, <1>7, NoPlan DEF TakenFit
<1>14. ListFit
  <2>1. \A b : ~ InAvailable(b)
    BY <1>5, <1>8 DEF InAvailable
  <2> QED BY <1>8, <2>1 DEF ListFit
<1>15. DrawFit
  BY <1>1, <1>3, <1>5, NoPlan DEF DrawFit
<1>16. AwayFit /\ FutureFit
  BY <1>1 DEF AwayFit, FutureFit
<1> QED BY <1>8, <1>9, <1>10, <1>12, <1>13, <1>14, <1>15, <1>16, OffInit DEF Kept

(* Reads are trusted, and writes.                                          *)
LEMMA NoMisread == ASSUME Trusted PROVE ~ Misread
BY DEF Trusted, Misread, MayFail

LEMMA NotLost ==
  ASSUME Trusted, ~ lost, [Next]_vars
  PROVE  ~ lost'
<1>1. CASE UNCHANGED vars
  BY <1>1 DEF vars, layer
<1>2. CASE Step
  BY <1>2, TrustedStep
<1>3. CASE Flush \/ Allocate \/ PrimeEnds \/ AppendInode \/ WriteEntry \/ LinkTail \/ Inspect \/ \E b \in Block : Draw(b)
  BY <1>3 DEF Flush, Allocate, PrimeEnds, AppendInode, WriteEntry, LinkTail, Inspect, Draw, layer
<1>4. CASE Create \/ (\E f \in DOMAIN files : Commit(f) \/ CommitTail(f) \/ Remove(f)) \/ Look
  BY <1>4 DEF Create, Commit, CommitTail, Remove, Look, Begin, layer
<1>5. CASE Format \/ Mount \/ PowerCut \/ PowerOn
  BY <1>5 DEF Format, Mount, PowerCut, PowerOn, layer
<1>6. ~ MisMount /\ \A b \in Block : ~ MisDraw(b)
  BY NoMisread DEF MisMount, MisDraw
<1> QED BY <1>1, <1>2, <1>3, <1>4, <1>5, <1>6 DEF Next

LEMMA KeptNext ==
  ASSUME Trusted, SystemInv, SystemInv', Kept, ~ lost, OffFit, [Next]_vars
  PROVE  Kept'
<1>1. CASE UNCHANGED vars
  BY <1>1, KeptStutter
<1>2. CASE Step
  BY <1>2, KeptStep
<1>3. CASE Flush
  BY <1>3, FlushKept
<1>4. CASE Allocate
  BY <1>4, AllocateKept
<1>5. CASE PrimeEnds
  BY <1>5, PrimeEndsKept
<1>6. ASSUME NEW b \in Block, Draw(b) PROVE Kept'
  BY <1>6, DrawKept
<1>7. CASE Create
  BY <1>7, CreateKept
<1>8. CASE AppendInode
  BY <1>8, AppendInodeKept
<1>9. CASE WriteEntry
  BY <1>9, WriteEntryKept
<1>10. CASE LinkTail
  BY <1>10, LinkTailKept
<1>11. ASSUME NEW f \in DOMAIN files, Commit(f) PROVE Kept'
  BY <1>11, CommitKept
<1>12. ASSUME NEW f \in DOMAIN files, CommitTail(f) PROVE Kept'
  BY <1>12, CommitTailKept
<1>13. ASSUME NEW f \in DOMAIN files, Remove(f) PROVE Kept'
  BY <1>13, RemoveKept
<1>14. CASE Look
  BY <1>14, LookKept
<1>15. CASE Format
  BY <1>15, FormatKept
<1>16. CASE Mount
  BY <1>16, MountKept
<1>17. CASE Inspect
  BY <1>17, InspectKept
<1>18. CASE PowerCut
  BY <1>18, PowerCutKept
<1>19. CASE PowerOn
  BY <1>19, PowerOnKept
<1>20. ~ MisMount /\ \A b \in Block : ~ MisDraw(b)
  BY NoMisread DEF MisMount, MisDraw
<1> QED BY <1>1, <1>2, <1>3, <1>4, <1>5, <1>6, <1>7, <1>8, <1>9, <1>10, <1>11, <1>12, <1>13, <1>14, <1>15, <1>16,
           <1>17, <1>18, <1>19, <1>20 DEF Next

KeptInv == SystemInv /\ Kept /\ ~ lost /\ OffFit

LEMMA KeptAlways == ASSUME Trusted PROVE Spec => []KeptInv
<1>1. Bad = {} /\ "reads_hold" \in PageRules
  BY DEF Trusted
<1>2. Init => KeptInv
  BY <1>1, SystemInit, KeptInit DEF KeptInv, Init
<1>3. KeptInv /\ [Next]_vars => KeptInv'
  <2> SUFFICES ASSUME SystemInv, Kept, ~ lost, OffFit, [Next]_vars PROVE SystemInv' /\ Kept' /\ ~ lost' /\ OffFit'
    BY DEF KeptInv
  <2>1. SystemInv'
    BY <1>1, SystemNext
  <2>2. Kept'
    BY <2>1, KeptNext
  <2>3. OffFit' /\ ~ lost'
    BY OffNext, NotLost
  <2> QED BY <2>1, <2>2, <2>3
<1> QED BY <1>2, <1>3, PTL DEF Spec

(* A block that waits to be put to use has not been put to use             *)
(* (flogfs.c:1752): it is taken off the list when its page is opened, and  *)
(* the page that is left open is never one of a block on the list.         *)
THEOREM PendingStaysBlank == ASSUME Trusted PROVE Spec => []PendingIsBlank
<1>1. KeptInv => PendingIsBlank
  BY DEF KeptInv, Kept, ListFit, PendingIsBlank
<1> QED BY <1>1, KeptAlways, PTL

LEMMA StoredNow ==
  ASSUME KeptInv
  PROVE  FilesKept
<1> SUFFICES ASSUME todo = << >>, NEW f \in DOMAIN files, ~ files[f].dead
             PROVE  /\ Holds(EntryBlock(f), EntrySector(f), "first", "entry")
                    /\ \A p \in StoredSectors(f) :
                         Holds(p[1], p[2], "first", "file") /\ Holds(p[1], p[2], "spare", "file")
  BY DEF FilesKept
<1>1. Puts(<< >>) = {} /\ Erased(<< >>) = {}
  BY DoesNone DEF Does
<1>2. Future = held
  BY <1>1 DEF Future, After
<1>3. f \in Live
  BY DEF Live
<1>4. \A b, s, part, tag : Will(b, s, part, tag) <=> Holds(b, s, part, tag)
  BY <1>2 DEF Will, Holds
<1>5. StoredFit
  BY DEF KeptInv, Kept, ContentKept
<1> QED BY <1>3, <1>4, <1>5 DEF StoredFit

(* Nothing that was stored of a file that was not removed is gone          *)
(* (flogfs.c:539, 1922, flogfs_arduino_sd.cpp:86-92, 117-122), whatever    *)
(* was formatted, mounted, created, written, removed and read since,       *)
(* wherever power was cut that the rules of use allow, and whichever       *)
(* erases of format, mount and priming failed, half done.  What is trusted *)
(* is that reads and writes do not fail: of a write that does nobody hears *)
(* (flogfs_arduino_sd.cpp:125, 132), and the sector is not stored.         *)
THEOREM FilesStayKept == ASSUME Trusted PROVE Spec => []FilesKept
BY StoredNow, KeptAlways, PTL

LEMMA FlashStep ==
  ASSUME Trusted, SystemInv, Kept, Step
  PROVE  Flash!Next
<1>1. PICK x : x = Head(todo) /\ todo # << >> /\ (Access(x) \/ Program(x) \/ Lists(x) \/ DoErase(x) \/ EraseFails(x))
  BY TrustedStep
<1>2. /\ Access(x) \/ Lists(x) => held' = held
      /\ EraseFails(x) => held' \subseteq held /\ \A c \in held : c.b # x.b => c \in held'
      /\ Program(x) => held' = held \cup { Content(x) }
      /\ DoErase(x) => held' = { c \in held : c.b # x.b }
  BY <1>1, StepHeld
<1>3. CASE Access(x) \/ Lists(x)
  <2>1. x.op \notin { "write", "spare", "erase" }
    BY <1>3 DEF Access, Lists
  <2>2. Flash!Other
    BY <1>1, <1>2, <1>3, <2>1 DEF Flash!Other, Flash!Programs
  <2> QED BY <2>2 DEF Flash!Next
<1>4. CASE Program(x)
  <2>1. Programs(x)
    BY <1>4 DEF Program, Programs
  <2>2. Content(x) \in Puts(todo) /\ Cell(Content(x)) = Cell(x) /\ x.b \notin Erased(todo)
    BY <1>1, <2>1, ProgrammedIs
  <2>3. ASSUME NEW c \in held, c.b = x.b, c.s = x.s, c.part = x.part PROVE FALSE
    <3>1. Cell(c) = Cell(Content(x))
      BY <2>2, <2>3 DEF Cell
    <3>2. c.b \in Erased(todo)
      BY <2>2, <3>1 DEF Kept, ScriptKept, OnceFit
    <3> QED BY <2>2, <2>3, <3>2
  <2>4. \A c \in held : Flash!Cell(c) # Flash!Cell(x)
    BY <2>3 DEF Flash!Cell
  <2>5. Flash!Program
    BY <1>1, <1>2, <1>4, <2>1, <2>4 DEF Flash!Program, Flash!Programs, Programs, Content
  <2> QED BY <2>5 DEF Flash!Next
<1>5. CASE DoErase(x)
  <2>1. x.op = "erase"
    BY <1>5 DEF DoErase
  <2>2. Flash!Erase
    BY <1>1, <1>2, <1>5, <2>1 DEF Flash!Erase
  <2> QED BY <2>2 DEF Flash!Next
<1>6. CASE EraseFails(x)
  <2>1. x.op = "erase"
    BY <1>6 DEF EraseFails
  <2>2. Flash!EraseFails
    BY <1>1, <1>2, <1>6, <2>1 DEF Flash!EraseFails
  <2> QED BY <2>2 DEF Flash!Next
<1> QED BY <1>1, <1>3, <1>4, <1>5, <1>6

LEMMA FlashNext ==
  ASSUME Trusted, KeptInv, [Next]_vars
  PROVE  [Flash!Next]_(Flash!flashVars)
<1>1. SystemInv /\ Kept /\ OffFit /\ ~ MisMount /\ \A b \in Block : ~ MisDraw(b)
  BY NoMisread DEF KeptInv, MisMount, MisDraw
<1>2. CASE Step
  BY <1>1, <1>2, FlashStep
<1>3. ASSUME mem' = mem, todo = << >> PROVE Flash!Next
  <2>1. held' = held
    BY <1>3 DEF held, Named
  <2>2. Nothing.op = "none"
    BY DEF Nothing, Op
  <2>3. Flash!Other
    BY <1>3, <2>1, <2>2 DEF Flash!Other, Flash!Programs
  <2> QED BY <2>3 DEF Flash!Next
<1>4. CASE Flush \/ Allocate \/ PrimeEnds \/ AppendInode \/ WriteEntry \/ LinkTail \/ Inspect \/ \E b \in Block : Draw(b)
  <2>1. mem' = mem /\ todo = << >>
    BY <1>4 DEF Flush, Allocate, PrimeEnds, AppendInode, WriteEntry, LinkTail, Inspect, Draw, NextPart, layer
  <2> QED BY <1>3, <2>1
<1>5. CASE Create \/ (\E f \in DOMAIN files : Commit(f) \/ CommitTail(f) \/ Remove(f)) \/ Look
  <2>1. mem' = mem /\ todo = << >>
    BY <1>5 DEF Create, Commit, CommitTail, Remove, Look, Idle, Begin, layer
  <2> QED BY <1>3, <2>1
<1>6. CASE Format \/ Mount \/ PowerOn
  <2>1. mem' = mem /\ todo = << >>
    BY <1>1, <1>6 DEF Format, Mount, Remount, PowerOn, OffFit, layer
  <2> QED BY <1>3, <2>1
<1>7. CASE PowerCut
  <2>1. mem' = mem /\ on' = FALSE
    BY <1>7 DEF PowerCut, layer
  <2>2. held' = held
    BY <2>1 DEF held, Named
  <2>3. Flash!Cut
    BY <2>1, <2>2 DEF Flash!Cut
  <2> QED BY <2>3 DEF Flash!Next
<1>8. CASE UNCHANGED vars
  <2>1. mem' = mem /\ todo' = todo /\ on' = on /\ lost' = lost
    BY <1>8 DEF vars, layer, mounts
  <2>2. held' = held
    BY <2>1 DEF held, Named
  <2>3. UNCHANGED Flash!flashVars
    BY <2>1, <2>2 DEF Flash!flashVars
  <2> QED BY <2>3
<1> QED BY <1>1, <1>2, <1>4, <1>5, <1>6, <1>7, <1>8 DEF Next

(* Through cache_status, the backend's open page and its shortcut for the  *)
(* block erased last (flogfs.c:1742-1763, flogfs_arduino_sd.cpp:104-131),  *)
(* the memory does what the file system asks of the blocks it names: it    *)
(* programs no part twice between erases, overwrites nothing beside what   *)
(* it programs, and erases one block, or a part of it when the erase       *)
(* fails.  That no write fails is trusted, as it is by the file system.    *)
THEOREM FlashIsImplemented == ASSUME Trusted PROVE Spec => ImplementsFlash
<1>1. Init => Flash!Init
  <2> SUFFICES ASSUME Init PROVE Flash!Init
    OBVIOUS
  <2>1. mem = {} /\ todo = << >> /\ ~ lost
    BY DEF Init
  <2>2. held = {}
    BY <2>1 DEF held
  <2>3. Nothing.op = "none"
    BY DEF Nothing, Op
  <2> QED BY <2>1, <2>2, <2>3 DEF Flash!Init
<1>2. KeptInv /\ [Next]_vars => [Flash!Next]_(Flash!flashVars)
  BY FlashNext
<1> QED BY <1>1, <1>2, KeptAlways, PTL DEF Spec, ImplementsFlash, Flash!Spec

=============================================================================
