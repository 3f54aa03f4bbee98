--------------------------- MODULE FlogPagesProofs ---------------------------
(***************************************************************************)
(* Proofs about FlogPages, for a flash of any number of blocks of any      *)
(* number of pages, any number of files, draws and power cuts.             *)
(*                                                                         *)
(* The invariant speaks of a script as a whole: which operation may follow *)
(* which, that the first one to program stands where its page was opened,  *)
(* and which operations the part of a call at hand may hold at all.        *)
(***************************************************************************)
EXTENDS FlogPages, FlogPreallocProofs, Induction, SequenceTheorems

-----------------------------------------------------------------------------
(* Lists.                                                                  *)

IsList(t) == \E S : t \in Seq(S)

LEMMA ListLen ==
  ASSUME NEW t, IsList(t)
  PROVE  Len(t) \in Nat /\ DOMAIN t = 1 .. Len(t) /\ (t = << >> <=> Len(t) = 0)
<1>1. PICK S : t \in Seq(S)
  BY DEF IsList
<1>2. Len(t) \in Nat /\ DOMAIN t = 1 .. Len(t)
  BY <1>1
<1>3. t = << >> <=> Len(t) = 0
  BY <1>1, EmptySeq
<1> QED BY <1>2, <1>3

LEMMA ListConcat ==
  ASSUME NEW s, NEW t, IsList(s), IsList(t)
  PROVE  /\ IsList(s \o t) /\ Len(s \o t) = Len(s) + Len(t)
         /\ \A i \in 1 .. Len(s) : (s \o t)[i] = s[i]
         /\ \A i \in 1 .. Len(t) : (s \o t)[Len(s) + i] = t[i]
<1>1. PICK S : s \in Seq(S)
  BY DEF IsList
<1>2. PICK T : t \in Seq(T)
  BY DEF IsList
<1> DEFINE U == S \cup T
<1>3. s \in Seq(U) /\ t \in Seq(U)
  BY <1>1, <1>2
<1> HIDE DEF U
<1>4. s \o t \in Seq(U) /\ Len(s \o t) = Len(s) + Len(t)
  BY <1>3
<1>5. \A i \in 1 .. Len(s) : (s \o t)[i] = s[i]
  BY <1>3
<1>6. \A i \in 1 .. Len(t) : (s \o t)[Len(s) + i] = t[i]
  BY <1>3
<1> QED BY <1>4, <1>5, <1>6 DEF IsList

LEMMA ListOne ==
  ASSUME NEW y
  PROVE  IsList(<< y >>) /\ Len(<< y >>) = 1 /\ << y >>[1] = y
<1>1. << y >> \in Seq({ y }) /\ Len(<< y >>) = 1 /\ << y >>[1] = y
  OBVIOUS
<1> QED BY <1>1 DEF IsList

LEMMA ListNone == IsList(<< >>) /\ Len(<< >>) = 0
<1>1. << >> \in Seq({}) /\ Len(<< >>) = 0
  OBVIOUS
<1> QED BY <1>1 DEF IsList

LEMMA ListSnoc ==
  ASSUME NEW t, NEW y, IsList(t)
  PROVE  /\ IsList(t \o << y >>) /\ Len(t \o << y >>) = Len(t) + 1
         /\ \A i \in 1 .. Len(t) : (t \o << y >>)[i] = t[i]
         /\ (t \o << y >>)[Len(t) + 1] = y
<1>1. IsList(<< y >>) /\ Len(<< y >>) = 1 /\ << y >>[1] = y
  BY ListOne
<1>2. (t \o << y >>)[Len(t) + 1] = << y >>[1]
  BY <1>1, ListConcat
<1> QED BY <1>1, <1>2, ListConcat

LEMMA ListTail ==
  ASSUME NEW t, IsList(t), t # << >>
  PROVE  /\ IsList(Tail(t)) /\ Len(Tail(t)) = Len(t) - 1 /\ Len(t) \in Nat \ {0}
         /\ \A i \in 1 .. Len(t) - 1 : Tail(t)[i] = t[i + 1]
         /\ Head(t) = t[1]
<1>1. PICK S : t \in Seq(S)
  BY DEF IsList
<1>2. Len(t) \in Nat \ {0}
  BY <1>1, EmptySeq
<1>3. Tail(t) \in Seq(S) /\ Len(Tail(t)) = Len(t) - 1
  BY <1>1, <1>2
<1>4. \A i \in 1 .. Len(t) - 1 : Tail(t)[i] = t[i + 1]
  BY <1>1, <1>2
<1> QED BY <1>1, <1>2, <1>3, <1>4 DEF IsList

LEMMA ListMade ==
  ASSUME NEW m \in Nat, NEW g, DOMAIN g = 1 .. m, g = [ i \in 1 .. m |-> g[i] ]
  PROVE  IsList(g) /\ Len(g) = m
<1> DEFINE S == { g[i] : i \in 1 .. m }
<1>1. g \in [ 1 .. m -> S ]
  OBVIOUS
<1>2. g \in Seq(S) /\ Len(g) = m
  <2> HIDE DEF S
  <2> QED BY <1>1
<1> QED BY <1>2 DEF IsList

LEMMA ListAppend ==
  ASSUME NEW t, NEW y, IsList(t)
  PROVE  /\ IsList(Append(t, y)) /\ Len(Append(t, y)) = Len(t) + 1
         /\ \A i \in 1 .. Len(t) : Append(t, y)[i] = t[i]
         /\ Append(t, y)[Len(t) + 1] = y
<1>1. PICK S : t \in Seq(S)
  BY DEF IsList
<1> DEFINE U == S \cup { y }
<1>2. t \in Seq(U) /\ y \in U
  BY <1>1
<1> HIDE DEF U
<1>3. Append(t, y) \in Seq(U) /\ Len(Append(t, y)) = Len(t) + 1
  BY <1>2
<1>4. \A i \in 1 .. Len(t) : Append(t, y)[i] = t[i]
  BY <1>2
<1>5. Append(t, y)[Len(t) + 1] = y
  BY <1>2
<1> QED BY <1>3, <1>4, <1>5 DEF IsList

-----------------------------------------------------------------------------
(* Scripts.                                                                *)

Programs(x) == x.op \in { "write", "spare" }

(* What may come next: x is followed by y, and w by x by y.                *)
MayFollow(x, y) ==
  /\ Programs(y) => x.op \in { "open", "write", "spare" } /\ x.b = y.b /\ x.s = y.s
  /\ y.op = "erase" => x.op = "close" \/ (x.op \in { "open", "see", "probe" } /\ x.b = y.b)
  /\ x.op = "raw" => y.op = "see" /\ y.b = x.b /\ y.s = STAT

MayFollow2(w, x, y) ==
  x.op = "close" /\ y.op = "erase" => w.op \in { "open", "see" } /\ w.b = y.b

Steady(t) ==
  /\ \A i \in 1 .. Len(t) : i > 1 => MayFollow(t[i - 1], t[i])
  /\ \A i \in 1 .. Len(t) : i > 2 => MayFollow2(t[i - 2], t[i - 1], t[i])

Opens(x) == x.op \notin { "write", "spare", "erase", "close" }

(* A script that ends in w and x.                                          *)
Runs(t, w, x) ==
  /\ IsList(t) /\ t # << >> /\ Steady(t) /\ Opens(t[1])
  /\ t[Len(t)] = x /\ (Len(t) > 1 => t[Len(t) - 1] = w) /\ (Len(t) = 1 => w = Nothing)

(* A script that may stand behind any other.                               *)
Whole(t) ==
  /\ IsList(t) /\ Steady(t)
  /\ t # << >> => Opens(t[1]) /\ t[Len(t)].op # "raw"

LEMMA Starts ==
  ASSUME NEW y, Opens(y)
  PROVE  Runs(<< y >>, Nothing, y)
<1>1. IsList(<< y >>) /\ Len(<< y >>) = 1 /\ << y >>[1] = y /\ << y >> # << >>
  BY ListOne
<1> DEFINE u == << y >>
<1>2. IsList(u) /\ Len(u) = 1 /\ u[1] = y /\ u # << >>
  BY <1>1
<1> HIDE DEF u
<1>3. Steady(u)
  BY <1>2 DEF Steady
<1>4. Runs(u, Nothing, y)
  BY <1>2, <1>3 DEF Runs
<1> QED BY <1>4 DEF u

LEMMA Then ==
  ASSUME NEW t, NEW w, NEW x, NEW y, Runs(t, w, x), MayFollow(x, y), MayFollow2(w, x, y)
  PROVE  Runs(t \o << y >>, x, y)
<1> DEFINE u == t \o << y >>
<1>1. IsList(t) /\ t # << >> /\ Steady(t) /\ Opens(t[1]) /\ t[Len(t)] = x
      /\ (Len(t) > 1 => t[Len(t) - 1] = w)
  BY DEF Runs
<1>2. Len(t) \in Nat /\ Len(t) > 0
  BY <1>1, ListLen
<1>3. IsList(u) /\ Len(u) = Len(t) + 1 /\ (\A i \in 1 .. Len(t) : u[i] = t[i]) /\ u[Len(t) + 1] = y
  BY <1>1, ListSnoc
<1> HIDE DEF u
<1>4. ASSUME NEW i \in 1 .. Len(u), i > 1 PROVE MayFollow(u[i - 1], u[i])
  <2>1. CASE i = Len(u)
    <3>1. u[i] = y /\ u[i - 1] = x
      BY <1>1, <1>2, <1>3, <2>1
    <3> QED BY <3>1
  <2>2. CASE i # Len(u)
    <3>1. i \in 1 .. Len(t) /\ i - 1 \in 1 .. Len(t)
      BY <1>2, <1>3, <1>4, <2>2
    <3>2. u[i] = t[i] /\ u[i - 1] = t[i - 1]
      BY <1>3, <3>1
    <3> QED BY <1>1, <1>4, <3>1, <3>2 DEF Steady
  <2> QED BY <2>1, <2>2
<1>5. ASSUME NEW i \in 1 .. Len(u), i > 2 PROVE MayFollow2(u[i - 2], u[i - 1], u[i])
  <2>1. CASE i = Len(u)
    <3>1. u[i] = y /\ u[i - 1] = x /\ u[i - 2] = w
      BY <1>1, <1>2, <1>3, <1>5, <2>1
    <3> QED BY <3>1
  <2>2. CASE i # Len(u)
    <3>1. i \in 1 .. Len(t) /\ i - 1 \in 1 .. Len(t) /\ i - 2 \in 1 .. Len(t)
      BY <1>2, <1>3, <1>5, <2>2
    <3>2. u[i] = t[i] /\ u[i - 1] = t[i - 1] /\ u[i - 2] = t[i - 2]
      BY <1>3, <3>1
    <3> QED BY <1>1, <1>5, <3>1, <3>2 DEF Steady
  <2> QED BY <2>1, <2>2
<1>6. Steady(u)
  BY <1>4, <1>5 DEF Steady
<1>7. u # << >> /\ u[1] = t[1] /\ u[Len(u)] = y /\ u[Len(u) - 1] = x /\ Len(u) > 1
  BY <1>1, <1>2, <1>3, ListLen
<1>8. Runs(u, x, y)
  BY <1>1, <1>3, <1>6, <1>7 DEF Runs
<1> QED BY <1>8 DEF u

LEMMA RunsWhole ==
  ASSUME NEW t, NEW w, NEW x, Runs(t, w, x), x.op # "raw"
  PROVE  Whole(t)
  BY DEF Runs, Whole

LEMMA WholeNone == Whole(<< >>)
  BY ListNone DEF Whole, Steady

LEMMA WholeConcat ==
  ASSUME NEW s, NEW t, Whole(s), Whole(t)
  PROVE  Whole(s \o t)
<1> DEFINE u == s \o t
<1>1. IsList(s) /\ IsList(t) /\ Steady(s) /\ Steady(t)
      /\ (s # << >> => Opens(s[1]) /\ s[Len(s)].op # "raw")
      /\ (t # << >> => Opens(t[1]) /\ t[Len(t)].op # "raw")
  BY DEF Whole
<1>2. Len(s) \in Nat /\ Len(t) \in Nat /\ (s = << >> <=> Len(s) = 0) /\ (t = << >> <=> Len(t) = 0)
  BY <1>1, ListLen
<1>3. IsList(u) /\ Len(u) = Len(s) + Len(t) /\ (\A i \in 1 .. Len(s) : u[i] = s[i])
      /\ (\A i \in 1 .. Len(t) : u[Len(s) + i] = t[i])
  BY <1>1, ListConcat
<1> HIDE DEF u
<1>4. u = << >> <=> Len(u) = 0
  BY <1>3, ListLen
<1>5. \A i \in 1 .. Len(u) : i > Len(s) => i - Len(s) \in 1 .. Len(t) /\ u[i] = t[i - Len(s)]
  <2> SUFFICES ASSUME NEW i \in 1 .. Len(u), i > Len(s)
               PROVE  i - Len(s) \in 1 .. Len(t) /\ u[i] = t[i - Len(s)]
    OBVIOUS
  <2>1. i - Len(s) \in 1 .. Len(t) /\ Len(s) + (i - Len(s)) = i
    BY <1>2, <1>3
  <2> QED BY <1>3, <2>1
<1>6. ASSUME NEW i \in 1 .. Len(u), i > 1 PROVE MayFollow(u[i - 1], u[i])
  <2>1. CASE i <= Len(s)
    <3>1. i \in 1 .. Len(s) /\ i - 1 \in 1 .. Len(s)
      BY <1>2, <1>6, <2>1
    <3>2. u[i] = s[i] /\ u[i - 1] = s[i - 1]
      BY <1>3, <3>1
    <3> QED BY <1>1, <1>6, <3>1, <3>2 DEF Steady
  <2>2. CASE i = Len(s) + 1
    <3>1. Len(s) > 0 /\ Len(t) > 0 /\ u[i - 1] = s[Len(s)] /\ u[i] = t[1]
      BY <1>2, <1>3, <1>6, <2>2
    <3>2. Opens(t[1]) /\ s[Len(s)].op # "raw"
      BY <1>1, <1>2, <3>1
    <3> QED BY <3>1, <3>2 DEF Opens, MayFollow, Programs
  <2>3. CASE i > Len(s) + 1
    <3>1. i - Len(s) \in 1 .. Len(t) /\ u[i] = t[i - Len(s)] /\ i - Len(s) > 1
      BY <1>2, <1>5, <2>3
    <3>2. u[i - 1] = t[(i - Len(s)) - 1]
      BY <1>2, <1>3, <1>5, <2>3
    <3> QED BY <1>1, <3>1, <3>2 DEF Steady
  <2> QED BY <1>2, <2>1, <2>2, <2>3
<1>7. ASSUME NEW i \in 1 .. Len(u), i > 2 PROVE MayFollow2(u[i - 2], u[i - 1], u[i])
  <2>1. CASE i <= Len(s)
    <3>1. i \in 1 .. Len(s) /\ i - 1 \in 1 .. Len(s) /\ i - 2 \in 1 .. Len(s)
      BY <1>2, <1>7, <2>1
    <3>2. u[i] = s[i] /\ u[i - 1] = s[i - 1] /\ u[i - 2] = s[i - 2]
      BY <1>3, <3>1
    <3> QED BY <1>1, <1>7, <3>1, <3>2 DEF Steady
  <2>2. CASE i = Len(s) + 1
    <3>1. Len(t) > 0 /\ u[i] = t[1]
      BY <1>2, <1>3, <1>7, <2>2
    <3>2. Opens(u[i])
      BY <1>1, <1>2, <3>1
    <3> QED BY <3>2 DEF Opens, MayFollow2
  <2>3. CASE i = Len(s) + 2
    <3>1. Len(t) > 1 /\ u[i - 1] = t[1]
      BY <1>2, <1>3, <1>5, <1>7, <2>3
    <3>2. Opens(u[i - 1])
      BY <1>1, <1>2, <3>1
    <3> QED BY <3>2 DEF Opens, MayFollow2
  <2>4. CASE i > Len(s) + 2
    <3> DEFINE j == i - Len(s)
    <3>1. j \in 1 .. Len(t) /\ u[i] = t[j] /\ j > 2
      BY <1>2, <1>5, <2>4
    <3>2. /\ i - 1 \in 1 .. Len(u) /\ i - 1 > Len(s) /\ (i - 1) - Len(s) = j - 1
          /\ i - 2 \in 1 .. Len(u) /\ i - 2 > Len(s) /\ (i - 2) - Len(s) = j - 2
      BY <1>2, <1>3, <2>4
    <3>3. u[i - 1] = t[j - 1] /\ u[i - 2] = t[j - 2]
      BY <1>5, <3>2
    <3> HIDE DEF j
    <3> QED BY <1>1, <3>1, <3>3 DEF Steady
  <2> QED BY <1>2, <2>1, <2>2, <2>3, <2>4
<1>8. Steady(u)
  BY <1>6, <1>7 DEF Steady
<1>9. u # << >> => Opens(u[1]) /\ u[Len(u)].op # "raw"
  <2> SUFFICES ASSUME u # << >> PROVE Opens(u[1]) /\ u[Len(u)].op # "raw"
    OBVIOUS
  <2>1. Len(s) + Len(t) > 0
    BY <1>2, <1>3, <1>4
  <2>2. Opens(u[1])
    <3>1. CASE Len(s) > 0
      BY <1>1, <1>2, <1>3, <3>1
    <3>2. CASE Len(s) = 0
      <4>1. Len(t) > 0 /\ u[0 + 1] = t[1]
        BY <1>2, <1>3, <2>1, <3>2
      <4> QED BY <1>1, <1>2, <4>1
    <3> QED BY <1>2, <3>1, <3>2
  <2>3. u[Len(u)].op # "raw"
    <3>1. CASE Len(t) > 0
      <4>1. u[Len(u)] = t[Len(t)]
        BY <1>2, <1>3, <3>1
      <4> QED BY <1>1, <1>2, <3>1, <4>1
    <3>2. CASE Len(t) = 0
      <4>1. Len(s) > 0 /\ u[Len(u)] = s[Len(s)]
        BY <1>2, <1>3, <2>1, <3>2
      <4> QED BY <1>1, <1>2, <4>1
    <3> QED BY <1>2, <3>1, <3>2
  <2> QED BY <2>2, <2>3
<1>10. Whole(u)
  BY <1>3, <1>8, <1>9 DEF Whole
<1> QED BY <1>10 DEF u

LEMMA FlatIsCat == ASSUME NEW ss PROVE Flat(ss) = Cat(ss, Len(ss))
  BY DEF Flat, Cat

LEMMA WholeFlat ==
  ASSUME NEW m \in Nat, NEW g, IsList(g), Len(g) = m, \A i \in 1 .. m : Whole(g[i])
  PROVE  Whole(Flat(g))
<1> DEFINE T == { k \in 0 .. m : Whole(Cat(g, k)) }
<1>1. 0 \in T
  BY CatZero, WholeNone
<1>2. ASSUME NEW k \in 0 .. m - 1, k \in T PROVE k + 1 \in T
  <2>1. k \in Nat /\ k + 1 \in 1 .. m
    OBVIOUS
  <2>2. Cat(g, k + 1) = Cat(g, k) \o g[k + 1]
    BY <2>1, CatStep
  <2>3. Whole(Cat(g, k)) /\ Whole(g[k + 1])
    BY <1>2, <2>1
  <2>4. Whole(Cat(g, k + 1))
    BY <2>2, <2>3, WholeConcat
  <2> QED BY <2>1, <2>4
<1>3. 0 .. m \subseteq T
  <2> HIDE DEF T
  <2> QED BY <1>1, <1>2, UpTo
<1> QED BY <1>3, FlatIsCat

LEMMA WholeThen ==
  ASSUME NEW t, NEW y, Whole(t), Opens(y)
  PROVE  \E w : Runs(t \o << y >>, w, y)
<1>1. IsList(t) /\ Steady(t) /\ (t # << >> => Opens(t[1]) /\ t[Len(t)].op # "raw")
  BY DEF Whole
<1>2. Len(t) \in Nat /\ (t = << >> <=> Len(t) = 0)
  BY <1>1, ListLen
<1>3. CASE t = << >>
  <2>1. IsList(<< >> \o << y >>) /\ Len(<< >> \o << y >>) = 0 + 1 /\ (<< >> \o << y >>)[0 + 1] = y
    BY ListNone, ListSnoc
  <2> DEFINE u == << >> \o << y >>
  <2>2. IsList(u) /\ Len(u) = 1 /\ u[1] = y
    BY <2>1
  <2> HIDE DEF u
  <2>3. u # << >> /\ Steady(u)
    BY <2>2, ListNone DEF Steady
  <2>4. Runs(u, Nothing, y)
    BY <2>2, <2>3 DEF Runs
  <2> QED BY <1>3, <2>4 DEF u
<1>4. CASE t # << >>
  <2> DEFINE x == t[Len(t)]
             w == IF Len(t) = 1 THEN Nothing ELSE t[Len(t) - 1]
  <2>1. Runs(t, w, x)
    BY <1>1, <1>2, <1>4 DEF Runs
  <2>2. MayFollow(x, y) /\ MayFollow2(w, x, y)
    BY <1>1, <1>4 DEF Opens, MayFollow, MayFollow2, Programs
  <2> HIDE DEF x, w
  <2>3. Runs(t \o << y >>, x, y)
    BY <2>1, <2>2, Then
  <2> QED BY <2>3
<1> QED BY <1>3, <1>4

LEMMA WholeOne ==
  ASSUME NEW y, Opens(y), y.op # "raw"
  PROVE  Whole(<< y >>)
  BY Starts, RunsWhole

LEMMA ConcatPair ==
  ASSUME NEW t, NEW x, NEW y, IsList(t)
  PROVE  t \o (<< x >> \o << y >>) = (t \o << x >>) \o << y >>
<1>1. PICK S : t \in Seq(S)
  BY DEF IsList
<1> DEFINE U == S \cup { x, y }
<1>2. t \in Seq(U) /\ << x >> \in Seq(U) /\ << y >> \in Seq(U)
  BY <1>1
<1> HIDE DEF U
<1> QED BY <1>2

-----------------------------------------------------------------------------
(* Every part of a call is such a script, if no block is bad.              *)

LEMMA WholeSingle ==
  ASSUME NEW b, NEW s
  PROVE  Whole(Open(b, s)) /\ Whole(See(b, s)) /\ Whole(Probe(b)) /\ Whole(Listed(b)) /\ Whole(ListsAnew)
<1>1. \A o \in { "open", "see", "probe", "push", "lists" } : \A c : \A v :
        Opens(Op(o, c, v, "", "")) /\ Op(o, c, v, "", "").op # "raw"
  BY DEF Opens, Op
<1>2. \A o \in { "open", "see", "probe", "push", "lists" } : \A c : \A v :
        Whole(<< Op(o, c, v, "", "") >>)
  BY <1>1, WholeOne
<1> QED BY <1>2 DEF Open, See, Probe, Listed, ListsAnew

LEMMA RunOpen ==
  ASSUME NEW t, NEW b, NEW s, Whole(t)
  PROVE  \E w : Runs(t \o Open(b, s), w, Op("open", b, s, "", ""))
<1>1. Opens(Op("open", b, s, "", ""))
  BY DEF Opens, Op
<1> QED BY <1>1, WholeThen DEF Open

LEMMA RunProgram ==
  ASSUME NEW t, NEW w, NEW o, NEW b, NEW s, NEW part, NEW tag, Runs(t, w, Op(o, b, s, part, tag)),
         o \in { "open", "write", "spare" },
         NEW o2 \in { "write", "spare" }, NEW part2, NEW tag2
  PROVE  Runs(t \o << Op(o2, b, s, part2, tag2) >>, Op(o, b, s, part, tag), Op(o2, b, s, part2, tag2))
<1> DEFINE x == Op(o, b, s, part, tag)  y == Op(o2, b, s, part2, tag2)
<1>1. MayFollow(x, y) /\ MayFollow2(w, x, y)
  BY DEF MayFollow, MayFollow2, Programs, Op
<1>2. Runs(t, w, x)
  OBVIOUS
<1> HIDE DEF x, y
<1>3. Runs(t \o << y >>, x, y)
  BY <1>1, <1>2, Then
<1> QED BY <1>3 DEF x, y

LEMMA RunEnds ==
  ASSUME NEW t, NEW w, NEW o, NEW b, NEW s, NEW part, NEW tag, Runs(t, w, Op(o, b, s, part, tag)), o # "raw"
  PROVE  Whole(t)
<1>1. Op(o, b, s, part, tag).op # "raw"
  BY DEF Op
<1> QED BY <1>1, RunsWhole

LEMMA WholeWrite ==
  ASSUME NEW t, NEW b, NEW s, NEW part, NEW tag, Whole(t)
  PROVE  /\ Runs(t \o Open(b, s) \o Write(b, s, part, tag), Op("open", b, s, "", ""), Op("write", b, s, part, tag))
         /\ Whole(t \o Open(b, s) \o Write(b, s, part, tag))
<1>1. PICK w : Runs(t \o Open(b, s), w, Op("open", b, s, "", ""))
  BY RunOpen
<1> DEFINE u == t \o Open(b, s)
<1> HIDE DEF u
<1>2. Runs(u \o Write(b, s, part, tag), Op("open", b, s, "", ""), Op("write", b, s, part, tag))
  BY <1>1, RunProgram DEF Write, u
<1>3. Whole(u \o Write(b, s, part, tag))
  BY <1>2, RunEnds
<1> QED BY <1>2, <1>3 DEF u

LEMMA NoneConcat == ASSUME NEW t, IsList(t) PROVE << >> \o t = t /\ t \o << >> = t
<1>1. PICK S : t \in Seq(S)
  BY DEF IsList
<1> QED BY <1>1

LEMMA StatisticsWhole == ASSUME NEW b, NEW key PROVE Whole(Statistics(b, key))
<1>1. << >> \o Open(b, STAT) = Open(b, STAT)
  BY WholeSingle, NoneConcat DEF Whole
<1>2. Whole(<< >> \o Open(b, STAT) \o Write(b, STAT, "first", key))
  BY WholeWrite, WholeNone
<1> QED BY <1>1, <1>2 DEF Statistics

LEMMA SectorWhole ==
  ASSUME NEW b, NEW s, NEW t, NEW both \in BOOLEAN
  PROVE  Whole(Sector(b, s, t, both))
<1>1. << >> \o Open(b, s) = Open(b, s)
  BY WholeSingle, NoneConcat DEF Whole
<1> DEFINE u == Open(b, s) \o Write(b, s, "first", t)
<1>2. Runs(u, Op("open", b, s, "", ""), Op("write", b, s, "first", t))
  BY <1>1, WholeWrite, WholeNone
<1>3. IsList(u)
  BY <1>2 DEF Runs
<1> HIDE DEF u
<1>4. CASE both
  <2>1. Runs(u \o Write(b, s, "rest", t), Op("write", b, s, "first", t), Op("write", b, s, "rest", t))
    BY <1>2, RunProgram DEF Write
  <2> DEFINE v == u \o Write(b, s, "rest", t)
  <2> HIDE DEF v
  <2>2. Runs(v \o Spare(b, s, t), Op("write", b, s, "rest", t), Op("spare", b, s, "spare", t))
    BY <2>1, RunProgram DEF Spare, v
  <2>3. Whole(v \o Spare(b, s, t))
    BY <2>2, RunEnds
  <2> QED BY <1>4, <2>3 DEF Sector, u, v
<1>5. CASE ~ both
  <2>1. Runs(u \o Spare(b, s, t), Op("write", b, s, "first", t), Op("spare", b, s, "spare", t))
    BY <1>2, RunProgram DEF Spare
  <2>2. Whole(u \o Spare(b, s, t))
    BY <2>1, RunEnds
  <2>3. u \o << >> = u
    BY <1>3, NoneConcat
  <2> QED BY <1>5, <2>2, <2>3 DEF Sector, u
<1> QED BY <1>4, <1>5

(* A list made of whole scripts, one after the other.                      *)
LEMMA FlatMade ==
  ASSUME NEW m \in Nat, NEW g, g = [ i \in 1 .. m |-> g[i] ], \A i \in 1 .. m : Whole(g[i])
  PROVE  Whole(Flat(g))
<1>1. DOMAIN g = 1 .. m
  <2> DEFINE h == [ i \in 1 .. m |-> g[i] ]
  <2>1. DOMAIN h = 1 .. m
    OBVIOUS
  <2> HIDE DEF h
  <2>2. g = h
    BY DEF h
  <2> QED BY <2>1, <2>2
<1>2. IsList(g) /\ Len(g) = m
  BY <1>1, ListMade
<1> QED BY <1>2, WholeFlat

LEMMA FindWhole ==
  ASSUME NEW k \in Nat
  PROVE  Whole(Find(k))
<1>1. Whole(IterStart)
  BY WholeSingle, WholeConcat DEF IterStart
<1> DEFINE g == [ j \in 1 .. k |-> IterAt(j) \o See(EntryBlock(j), EntrySector(j)) ]
<1>2. ASSUME NEW j \in 1 .. k PROVE Whole(g[j])
  <2>1. Whole(IterAt(j))
    BY WholeSingle, WholeNone DEF IterAt
  <2>2. Whole(IterAt(j) \o See(EntryBlock(j), EntrySector(j)))
    BY <2>1, WholeSingle, WholeConcat
  <2> QED BY <2>2
<1>3. g = [ j \in 1 .. k |-> g[j] ]
  OBVIOUS
<1> HIDE DEF g
<1>4. Whole(Flat(g))
  BY <1>2, <1>3, FlatMade
<1>5. Whole(IF k = Newest THEN << >> ELSE See(EntryBlock(k), EntrySector(k) + 1))
  BY WholeSingle, WholeNone
<1>6. Whole(IterStart \o Flat(g))
  BY <1>1, <1>4, WholeConcat
<1> DEFINE e == IF k = Newest THEN << >> ELSE See(EntryBlock(k), EntrySector(k) + 1)
<1> HIDE DEF e
<1>7. Whole(IterStart \o Flat(g) \o e)
  BY <1>5, <1>6, WholeConcat DEF e
<1> QED BY <1>7 DEF Find, e, g

(* An erase in the block that was just looked at.                          *)
LEMMA RunErase ==
  ASSUME NEW t, NEW w, NEW o \in { "open", "see", "probe" }, NEW b, NEW s, Runs(t, w, Op(o, b, s, "", ""))
  PROVE  Whole(t \o Erase(b))
<1> DEFINE x == Op(o, b, s, "", "")  y == Op("erase", b, 0, "", "")
<1>1. MayFollow(x, y) /\ MayFollow2(w, x, y) /\ y.op # "raw"
  BY DEF MayFollow, MayFollow2, Programs, Op
<1>2. Runs(t, w, x)
  OBVIOUS
<1> HIDE DEF x, y
<1>3. Runs(t \o << y >>, x, y)
  BY <1>1, <1>2, Then
<1>4. Whole(t \o << y >>)
  BY <1>1, <1>3, RunsWhole
<1> QED BY <1>4 DEF y, Erase

LEMMA RunClose ==
  ASSUME NEW t, NEW w, NEW x, Runs(t, w, x), x.op # "raw"
  PROVE  Runs(t \o Close, x, Op("close", None, 0, "", "")) /\ Whole(t \o Close)
<1> DEFINE y == Op("close", None, 0, "", "")
<1>1. MayFollow(x, y) /\ MayFollow2(w, x, y) /\ y.op # "raw"
  BY DEF MayFollow, MayFollow2, Programs, Op
<1> HIDE DEF y
<1>2. Runs(t \o << y >>, x, y)
  BY <1>1, Then
<1>3. Whole(t \o << y >>)
  BY <1>1, <1>2, RunsWhole
<1> QED BY <1>2, <1>3 DEF y, Close

LEMMA RunCloseErase ==
  ASSUME NEW t, NEW w, NEW o \in { "open", "see" }, NEW b, NEW s, Runs(t, w, Op(o, b, s, "", ""))
  PROVE  Whole(t \o Close \o Erase(b))
<1> DEFINE v == Op(o, b, s, "", "")  x == Op("close", None, 0, "", "")  y == Op("erase", b, 0, "", "")
<1>1. MayFollow(x, y) /\ MayFollow2(v, x, y) /\ y.op # "raw" /\ v.op # "raw"
  BY DEF MayFollow, MayFollow2, Programs, Op
<1>2. Runs(t, w, v)
  OBVIOUS
<1> HIDE DEF y, v
<1>3. Runs(t \o Close, v, x)
  BY <1>1, <1>2, RunClose
<1> HIDE DEF x
<1>4. Runs(t \o Close \o << y >>, x, y)
  BY <1>1, <1>3, Then
<1>5. Whole(t \o Close \o << y >>)
  BY <1>1, <1>4, RunsWhole
<1> QED BY <1>5 DEF y, Erase

LEMMA DrawWhole ==
  ASSUME NEW b
  PROVE  /\ Whole(Probe(b) \o Erase(b) \o Statistics(b, "key") \o Listed(b))
         /\ Whole(Probe(b) \o Listed(b)) /\ Whole(Probe(b))
<1>1. Runs(Probe(b), Nothing, Op("probe", b, 0, "", ""))
  <2>1. Opens(Op("probe", b, 0, "", ""))
    BY DEF Opens, Op
  <2> QED BY <2>1, Starts DEF Probe
<1>2. Whole(Probe(b) \o Erase(b))
  BY <1>1, RunErase
<1>3. Whole(Probe(b) \o Erase(b) \o Statistics(b, "key"))
  BY <1>2, StatisticsWhole, WholeConcat
<1>4. Whole(Probe(b) \o Erase(b) \o Statistics(b, "key") \o Listed(b))
  BY <1>3, WholeSingle, WholeConcat
<1> QED BY <1>4, WholeSingle, WholeConcat

LEMMA OpenWriteWhole ==
  ASSUME NEW b, NEW s, NEW part, NEW tag
  PROVE  Whole(Open(b, s) \o Write(b, s, part, tag))
<1>1. << >> \o Open(b, s) = Open(b, s)
  BY WholeSingle, NoneConcat DEF Whole
<1> QED BY <1>1, WholeWrite, WholeNone

LEMMA AppendWhole ==
  ASSUME NEW e, NEW b
  PROVE  Whole(Open(e, TAIL) \o Write(e, TAIL, "first", "tail") \o Open(b, INIT) \o InodeHead(b))
<1> DEFINE u == Open(e, TAIL) \o Write(e, TAIL, "first", "tail")
<1>1. Whole(u)
  BY OpenWriteWhole
<1> HIDE DEF u
<1> DEFINE v == u \o Open(b, INIT)
<1>2. PICK w : Runs(v, w, Op("open", b, INIT, "", ""))
  BY <1>1, RunOpen
<1>3. IsList(v)
  BY <1>2 DEF Runs
<1> HIDE DEF v
<1>4. Runs(v \o Write(b, INIT, "first", "inode"), Op("open", b, INIT, "", ""), Op("write", b, INIT, "first", "inode"))
  BY <1>2, RunProgram DEF Write
<1> DEFINE z == v \o Write(b, INIT, "first", "inode")
<1> HIDE DEF z
<1>5. Runs(z \o Spare(b, INIT, "inode"), Op("write", b, INIT, "first", "inode"), Op("spare", b, INIT, "spare", "inode"))
  BY <1>4, RunProgram DEF Spare, z
<1>6. Whole(z \o Spare(b, INIT, "inode"))
  BY <1>5, RunEnds
<1>7. v \o InodeHead(b) = z \o Spare(b, INIT, "inode")
  BY <1>3, ConcatPair DEF z, InodeHead, Write, Spare
<1> QED BY <1>6, <1>7 DEF u, v

LEMMA InvalidatedWhole ==
  ASSUME NEW b, NEW key
  PROVE  Whole(Invalidated(b, key))
<1>1. PICK w : Runs(See(b, INIT) \o See(b, TAIL), w, Op("see", b, TAIL, "", ""))
  <2>1. Opens(Op("see", b, TAIL, "", ""))
    BY DEF Opens, Op
  <2> QED BY <2>1, WholeSingle, WholeThen DEF See
<1> DEFINE u == See(b, INIT) \o See(b, TAIL)
<1> HIDE DEF u
<1>2. Whole(u \o Close \o Erase(b))
  BY <1>1, RunCloseErase DEF u
<1>3. Whole(u \o Close \o Erase(b) \o Statistics(b, key))
  BY <1>2, StatisticsWhole, WholeConcat
<1> QED BY <1>3 DEF u, Invalidated

(* The script of flogfs_rm.                                                *)
Removal(f, ch, key) ==
  Find(f) \o Flat([ i \in 1 .. Len(ch) |-> See(ch[i], TAIL) ])
    \o Open(EntryBlock(f), EntrySector(f) + 1)
    \o Write(EntryBlock(f), EntrySector(f) + 1, "first", "dead")
    \o Flat([ i \in 1 .. Len(ch) |-> Invalidated(ch[i], key) ])

LEMMA RemovalWhole ==
  ASSUME NEW f \in Nat, NEW ch, IsList(ch), NEW key
  PROVE  Whole(Removal(f, ch, key))
<1>1. Len(ch) \in Nat
  BY ListLen
<1> DEFINE g == [ i \in 1 .. Len(ch) |-> See(ch[i], TAIL) ]
           h == [ i \in 1 .. Len(ch) |-> Invalidated(ch[i], key) ]
<1>2. (\A i \in 1 .. Len(ch) : Whole(g[i])) /\ g = [ i \in 1 .. Len(ch) |-> g[i] ]
  BY WholeSingle
<1>3. (\A i \in 1 .. Len(ch) : Whole(h[i])) /\ h = [ i \in 1 .. Len(ch) |-> h[i] ]
  BY InvalidatedWhole
<1> HIDE DEF g, h
<1>4. Whole(Flat(g)) /\ Whole(Flat(h))
  BY <1>1, <1>2, <1>3, FlatMade
<1>5. Whole(Find(f) \o Flat(g))
  BY <1>4, FindWhole, WholeConcat
<1> DEFINE e == EntryBlock(f)  s == EntrySector(f) + 1
<1> HIDE DEF e, s
<1>6. Whole(Find(f) \o Flat(g) \o Open(e, s) \o Write(e, s, "first", "dead"))
  BY <1>5, WholeWrite
<1>7. Whole(Find(f) \o Flat(g) \o Open(e, s) \o Write(e, s, "first", "dead") \o Flat(h))
  BY <1>4, <1>6, WholeConcat
<1> QED BY <1>7 DEF Removal, e, s, g, h

LEMMA WalkedWhole ==
  ASSUME NEW b
  PROVE  Whole(Walked(b))
<1>1. Whole(Raw(b) \o See(b, STAT))
  <2> DEFINE x == Op("raw", b, 0, "", "")  y == Op("see", b, STAT, "", "")
  <2>1. Opens(x) /\ MayFollow(x, y) /\ MayFollow2(Nothing, x, y) /\ y.op # "raw"
    BY DEF Opens, MayFollow, MayFollow2, Programs, Op, Nothing
  <2> HIDE DEF x, y
  <2>2. Runs(<< x >> \o << y >>, x, y)
    BY <2>1, Starts, Then
  <2>3. Whole(<< x >> \o << y >>)
    BY <2>1, <2>2, RunsWhole
  <2> QED BY <2>3 DEF Raw, See, x, y
<1>2. ASSUME NEW t, NEW s, Whole(t) PROVE Whole(t \o See(b, s) \o Close)
  <2>1. Opens(Op("see", b, s, "", "")) /\ Op("see", b, s, "", "").op # "raw"
    BY DEF Opens, Op
  <2>2. PICK w : Runs(t \o See(b, s), w, Op("see", b, s, "", ""))
    BY <1>2, <2>1, WholeThen DEF See
  <2> QED BY <2>1, <2>2, RunClose
<1> DEFINE u == Probe(b) \o See(b, TAIL) \o Close
<1>3. Whole(u)
  BY <1>2, WholeSingle
<1>4. Whole(See(b, LastSector) \o Close)
  <2>1. Opens(Op("see", b, LastSector, "", "")) /\ Op("see", b, LastSector, "", "").op # "raw"
    BY DEF Opens, Op
  <2>2. Runs(See(b, LastSector), Nothing, Op("see", b, LastSector, "", ""))
    BY <2>1, Starts DEF See
  <2> QED BY <2>1, <2>2, RunClose
<1>5. Whole(IF Unallocated(b) THEN << >> ELSE See(b, LastSector) \o Close)
  BY <1>4, WholeNone
<1> HIDE DEF u
<1>6. Whole(u \o (IF Unallocated(b) THEN << >> ELSE See(b, LastSector) \o Close))
  BY <1>3, <1>5, WholeConcat
<1> QED BY <1>1, <1>6 DEF Walked, u

(* The first good block is the first, if no block is bad.                  *)
LEMMA FirstGoodIs ==
  ASSUME Bad = {}
  PROVE  FirstGood = First
<1>1. Block = 0 .. Blocks - 1 /\ First \in Block
  BY PagesAssumption
<1>2. First \in Nat /\ First \in First .. Blocks - 1
  BY <1>1
<1> DEFINE P(b) == b \notin Bad /\ \A c \in First .. b - 1 : c \in Bad
<1>3. P(First) /\ \A b \in First .. Blocks - 1 : P(b) => b = First
  <2>1. ASSUME NEW b \in First .. Blocks - 1, P(b) PROVE b = First
    <3>1. SUFFICES ASSUME b # First PROVE FALSE
      OBVIOUS
    <3>2. First \in First .. b - 1
      BY <1>1, <1>2, <3>1
    <3> QED BY <2>1, <3>2
  <2> QED BY <1>2, <2>1
<1> HIDE DEF P
<1>4. (CHOOSE b \in First .. Blocks - 1 : P(b)) = First
  BY <1>2, <1>3
<1> QED BY <1>4 DEF FirstGood, P

LEMMA FormatWhole ==
  ASSUME Bad = {}
  PROVE  Whole(FormatScript)
<1>1. Block = 0 .. Blocks - 1 /\ First \in Block
  BY PagesAssumption
<1>2. First \in Nat /\ Blocks - First \in Nat
  BY <1>1, PagesAssumption
<1> DEFINE g == [ i \in 1 .. Blocks - First |-> Open(First + i - 1, STAT) \o Erase(First + i - 1) ]
           h == [ i \in 1 .. FirstGood - First |-> Open(First + i - 1, STAT) ]
<1>3. ASSUME NEW b PROVE Whole(Open(b, STAT) \o Erase(b))
  <2>1. Opens(Op("open", b, STAT, "", ""))
    BY DEF Opens, Op
  <2>2. Runs(Open(b, STAT), Nothing, Op("open", b, STAT, "", ""))
    BY <2>1, Starts DEF Open
  <2> QED BY <2>2, RunErase
<1>4. Whole(Flat(g))
  <2>1. (\A i \in 1 .. Blocks - First : Whole(g[i])) /\ g = [ i \in 1 .. Blocks - First |-> g[i] ]
    BY <1>3
  <2> HIDE DEF g
  <2> QED BY <1>2, <2>1, FlatMade
<1>5. Whole(Flat(h))
  <2>1. FirstGood - First \in Nat
    BY <1>2, FirstGoodIs
  <2>2. (\A i \in 1 .. FirstGood - First : Whole(h[i])) /\ h = [ i \in 1 .. FirstGood - First |-> h[i] ]
    BY WholeSingle
  <2> HIDE DEF h
  <2> QED BY <2>1, <2>2, FlatMade
<1> DEFINE b == FirstGood
<1> HIDE DEF b, g, h
<1> DEFINE u1 == Flat(g) \o Flat(h)
           u2 == u1 \o Open(b, STAT) \o Close \o Erase(b)
           u3 == u2 \o Statistics(b, "key")
           u4 == u3 \o Open(b, INIT) \o Write(b, INIT, "first", "inode")
           u5 == u4 \o Spare(b, INIT, "inode0")
<1>6. Whole(u1)
  BY <1>4, <1>5, WholeConcat
<1> HIDE DEF u1
<1>7. Whole(u2)
  <2>1. PICK w : Runs(u1 \o Open(b, STAT), w, Op("open", b, STAT, "", ""))
    BY <1>6, RunOpen
  <2> QED BY <2>1, RunCloseErase
<1> HIDE DEF u2
<1>8. Whole(u3)
  BY <1>7, StatisticsWhole, WholeConcat
<1> HIDE DEF u3
<1>9. Runs(u4, Op("open", b, INIT, "", ""), Op("write", b, INIT, "first", "inode"))
  BY <1>8, WholeWrite
<1> HIDE DEF u4
<1>10. Runs(u5, Op("write", b, INIT, "first", "inode"), Op("spare", b, INIT, "spare", "inode0"))
  BY <1>9, RunProgram DEF Spare
<1>11. Whole(u5)
  BY <1>10, RunEnds
<1> QED BY <1>11 DEF FormatScript, u1, u2, u3, u4, u5, b, g, h

LEMMA ProbesWhole ==
  ASSUME Bad = {}, NEW m \in Nat
  PROVE  Whole(Flat([ i \in 1 .. m |-> Probed(First + i - 1) ]))
<1> DEFINE g == [ i \in 1 .. m |-> Probed(First + i - 1) ]
<1>1. (\A i \in 1 .. m : Whole(g[i])) /\ g = [ i \in 1 .. m |-> g[i] ]
  BY WholeSingle DEF Probed
<1> HIDE DEF g
<1>2. Whole(Flat(g))
  BY <1>1, FlatMade
<1> QED BY <1>2 DEF g

-----------------------------------------------------------------------------
(* What is read or written is read or written in the page that is meant.   *)

At(b, s) == dev.block = b /\ dev.page = s \div SectorsPerPage

Fit == /\ dev = [ block |-> dev.block, page |-> dev.page, erased |-> dev.erased ]
       /\ cache = [ open |-> cache.open, block |-> cache.block, page |-> cache.page ]

(* cache_status is right, unless a page was opened behind its back that is *)
(* the next one to be read.                                                *)
CacheTrue ==
  on /\ cache.open =>
    \/ dev.block = cache.block /\ dev.page = cache.page
    \/ todo # << >> /\ todo[1].op = "see" /\ todo[1].s = STAT /\ At(todo[1].b, STAT)

(* What is written now, or erased now or after a close, stands where it    *)
(* belongs.                                                                *)
Standing ==
  todo # << >> =>
    /\ Programs(todo[1]) => At(todo[1].b, todo[1].s)
    /\ todo[1].op = "erase" => dev.block = todo[1].b
    /\ Len(todo) > 1 /\ todo[1].op = "close" /\ todo[2].op = "erase" => dev.block = todo[2].b

(* Files are records with chains that are lists.                           *)
FileFit(r) ==
  /\ r = [ chain |-> r.chain, sector |-> r.sector, dead |-> r.dead, open |-> r.open ]
  /\ IsList(r.chain) /\ r.sector \in INIT .. LastSector

FilesFit == IsList(files) /\ \A f \in DOMAIN files : FileFit(files[f])

Script == IsList(todo) /\ Steady(todo) /\ (todo # << >> => todo[Len(todo)].op # "raw")

DeviceInv == Fit /\ Script /\ CacheTrue /\ Standing /\ (~ on => todo = << >>)

LEMMA DeviceMeant == DeviceInv => PageMeant
<1> SUFFICES ASSUME DeviceInv, on, todo # << >>
             PROVE  LET x == Head(todo)
                        here == dev.block = x.b /\ dev.page = x.s \div SectorsPerPage IN
                    /\ x.op \in { "write", "spare" } => here
                    /\ x.op \in { "open", "see" } /\ Cached(x.b, x.s) => here
  BY DEF PageMeant
<1>1. Head(todo) = todo[1]
  BY ListTail DEF DeviceInv, Script
<1>2. Programs(todo[1]) => At(todo[1].b, todo[1].s)
  BY DEF DeviceInv, Standing
<1>3. Cached(todo[1].b, todo[1].s) => At(todo[1].b, todo[1].s)
  <2>1. CASE dev.block = cache.block /\ dev.page = cache.page
    BY <2>1 DEF Cached, At
  <2>2. CASE todo[1].s = STAT /\ At(todo[1].b, STAT)
    BY <2>2
  <2>3. CASE ~ cache.open
    BY <2>3 DEF Cached
  <2> QED BY <2>1, <2>2, <2>3 DEF DeviceInv, CacheTrue
<1> QED BY <1>1, <1>2, <1>3 DEF Programs, At

LEMMA ScriptTail ==
  ASSUME Script, todo # << >>, todo' = Tail(todo)
  PROVE  /\ Script' /\ Head(todo) = todo[1] /\ Len(todo) \in Nat \ {0} /\ Len(todo') = Len(todo) - 1
         /\ \A i \in 1 .. Len(todo) - 1 : todo'[i] = todo[i + 1]
         /\ (todo' # << >> => MayFollow(todo[1], todo'[1]))
         /\ (Len(todo') > 1 => MayFollow2(todo[1], todo'[1], todo'[2]))
         /\ (todo[1].op = "raw" => todo' # << >>)
<1> DEFINE t == todo
<1>0. IsList(t) /\ Steady(t) /\ t[Len(t)].op # "raw"
  BY DEF Script
<1> DEFINE u == Tail(t)
<1>1. /\ IsList(u) /\ Len(u) = Len(t) - 1 /\ Len(t) \in Nat \ {0}
      /\ (\A i \in 1 .. Len(t) - 1 : u[i] = t[i + 1]) /\ Head(t) = t[1]
  BY <1>0, ListTail
<1>2. todo' = u
  OBVIOUS
<1> HIDE DEF u, t
<1>3. u = << >> <=> Len(u) = 0
  BY <1>1, ListLen
<1>4. ASSUME NEW i \in 1 .. Len(u) PROVE u[i] = t[i + 1] /\ i + 1 \in 1 .. Len(t) /\ i + 1 > 1 /\ (i + 1) - 1 = i
  BY <1>1
<1>5. ASSUME NEW i \in 1 .. Len(u), i > 1 PROVE MayFollow(u[i - 1], u[i])
  <2>1. i - 1 \in 1 .. Len(u) /\ (i - 1) + 1 = i
    BY <1>1, <1>5
  <2>2. u[i - 1] = t[i] /\ u[i] = t[i + 1]
    BY <1>4, <2>1
  <2> QED BY <1>0, <1>4, <2>2 DEF Steady
<1>6. ASSUME NEW i \in 1 .. Len(u), i > 2 PROVE MayFollow2(u[i - 2], u[i - 1], u[i])
  <2>1. i - 1 \in 1 .. Len(u) /\ (i - 1) + 1 = i /\ i - 2 \in 1 .. Len(u) /\ (i - 2) + 1 = i - 1
        /\ (i + 1) - 2 = i - 1 /\ i + 1 > 2
    BY <1>1, <1>6
  <2>2. u[i - 1] = t[i] /\ u[i] = t[i + 1] /\ u[i - 2] = t[i - 1]
    BY <1>4, <2>1
  <2> QED BY <1>0, <1>4, <2>1, <2>2 DEF Steady
<1>7. Steady(u)
  BY <1>5, <1>6 DEF Steady
<1>8. u # << >> => u[Len(u)].op # "raw" /\ MayFollow(t[1], u[1])
  <2> SUFFICES ASSUME u # << >> PROVE u[Len(u)].op # "raw" /\ MayFollow(t[1], u[1])
    OBVIOUS
  <2>1. Len(u) > 0 /\ Len(u) \in 1 .. Len(u) /\ Len(u) + 1 = Len(t) /\ 1 \in 1 .. Len(u) /\ 1 + 1 = 2 /\ 2 - 1 = 1
        /\ 2 \in 1 .. Len(t) /\ 2 > 1
    BY <1>1, <1>3
  <2>2. u[Len(u)] = t[Len(t)] /\ u[1] = t[2]
    BY <1>1, <2>1
  <2>3. MayFollow(t[2 - 1], t[2])
    BY <1>0, <2>1 DEF Steady
  <2> QED BY <1>0, <2>1, <2>2, <2>3
<1>9. Len(u) > 1 => MayFollow2(t[1], u[1], u[2])
  <2> SUFFICES ASSUME Len(u) > 1 PROVE MayFollow2(t[1], u[1], u[2])
    OBVIOUS
  <2>1. u[1] = t[2] /\ u[2] = t[3] /\ 3 \in 1 .. Len(t) /\ 3 > 2
    BY <1>1
  <2>2. MayFollow2(t[3 - 2], t[3 - 1], t[3])
    BY <1>0, <2>1 DEF Steady
  <2>3. 3 - 2 = 1 /\ 3 - 1 = 2
    OBVIOUS
  <2> QED BY <2>1, <2>2, <2>3
<1>10. t[1].op = "raw" => u # << >>
  <2>1. u = << >> => Len(t) = 1
    BY <1>1, <1>3
  <2> QED BY <1>0, <2>1
<1> QED BY <1>1, <1>2, <1>7, <1>8, <1>9, <1>10 DEF Script, t

(* A part of a call begins.                                                *)
LEMMA DeviceGo ==
  ASSUME DeviceInv, todo = << >>, on, Whole(todo'), UNCHANGED << dev, cache, on >>
  PROVE  DeviceInv'
<1>1. Fit' /\ CacheTrue /\ dev' = dev /\ cache' = cache /\ on' = on
  BY DEF DeviceInv, Fit
<1>2. CacheTrue'
  BY <1>1 DEF CacheTrue, At
<1>3. Script' /\ Standing'
  <2> DEFINE t == todo'
  <2>1. IsList(t) /\ Steady(t) /\ (t # << >> => Opens(t[1]) /\ t[Len(t)].op # "raw")
    BY DEF Whole
  <2>2. Script'
    BY <2>1 DEF Script
  <2>3. t # << >> => /\ ~ Programs(t[1]) /\ t[1].op # "erase" /\ t[1].op # "close"
    BY <2>1 DEF Opens, Programs
  <2> QED BY <2>2, <2>3 DEF Standing
<1> QED BY <1>1, <1>2, <1>3 DEF DeviceInv

(* The running part is given up.                                           *)
LEMMA DeviceStops ==
  ASSUME DeviceInv, todo' = << >>, Fit',
         on' /\ cache'.open => dev'.block = cache'.block /\ dev'.page = cache'.page
  PROVE  DeviceInv'
<1>1. Script'
  BY ListNone DEF Script, Steady
<1> QED BY <1>1 DEF DeviceInv, Standing, CacheTrue

(* An operation that leaves the device and cache_status alone.             *)
LEMMA DevicePasses ==
  ASSUME DeviceInv, on, todo # << >>, todo' = Tail(todo), on' = on, cache' = cache,
         dev'.block = dev.block, dev'.page = dev.page,
         dev' = [ block |-> dev'.block, page |-> dev'.page, erased |-> dev'.erased ],
         Head(todo).op \in { "write", "spare", "erase", "push", "lists" }
  PROVE  DeviceInv'
<1>1. Script
  BY DEF DeviceInv
<1>2. /\ Script' /\ Head(todo) = todo[1]
      /\ (todo' # << >> => MayFollow(todo[1], todo'[1]))
      /\ (Len(todo') > 1 => MayFollow2(todo[1], todo'[1], todo'[2]))
  BY <1>1, ScriptTail
<1> DEFINE x == todo[1]
<1>3. x.op \in { "write", "spare", "erase", "push", "lists" }
  BY <1>2
<1>4. CacheTrue'
  BY <1>3 DEF DeviceInv, CacheTrue
<1>5. Standing'
  <2> SUFFICES ASSUME todo' # << >>
               PROVE  /\ Programs(todo'[1]) => dev'.block = todo'[1].b /\ dev'.page = todo'[1].s \div SectorsPerPage
                      /\ todo'[1].op # "erase"
                      /\ ~ (Len(todo') > 1 /\ todo'[1].op = "close" /\ todo'[2].op = "erase")
    BY DEF Standing, At
  <2>1. todo'[1].op # "erase"
    BY <1>2, <1>3 DEF MayFollow
  <2>2. ~ (Len(todo') > 1 /\ todo'[1].op = "close" /\ todo'[2].op = "erase")
    BY <1>2, <1>3 DEF MayFollow2
  <2>3. ASSUME Programs(todo'[1]) PROVE dev'.block = todo'[1].b /\ dev'.page = todo'[1].s \div SectorsPerPage
    <3>1. x.op \in { "write", "spare" } /\ x.b = todo'[1].b /\ x.s = todo'[1].s
      BY <1>2, <1>3, <2>3 DEF MayFollow
    <3>2. At(x.b, x.s)
      BY <3>1 DEF DeviceInv, Standing, Programs
    <3> QED BY <3>1, <3>2 DEF At
  <2> QED BY <2>1, <2>2, <2>3
<1> QED BY <1>2, <1>4, <1>5 DEF DeviceInv, Fit

LEMMA DeviceAccess ==
  ASSUME DeviceInv, on, todo # << >>, Access(Head(todo))
  PROVE  DeviceInv'
<1>1. Script
  BY DEF DeviceInv
<1>2. todo' = Tail(todo) /\ on' = on
  BY DEF Access, Goto, Aside, mounts
<1>3. /\ Script' /\ Head(todo) = todo[1]
      /\ (todo' # << >> => MayFollow(todo[1], todo'[1]))
      /\ (Len(todo') > 1 => MayFollow2(todo[1], todo'[1], todo'[2]))
      /\ (todo[1].op = "raw" => todo' # << >>)
  BY <1>1, <1>2, ScriptTail
<1> DEFINE x == todo[1]
<1>4. Access(x)
  BY <1>3
<1>5. ASSUME NEW z, dev' = DevOpened(x.b, z)
      PROVE  dev' = [ block |-> dev'.block, page |-> dev'.page, erased |-> dev'.erased ]
             /\ dev'.block = x.b /\ dev'.page = z
  BY <1>5 DEF DevOpened
<1>6. ASSUME \/ dev'.block = x.b /\ x.op \in { "open", "see", "probe", "raw" }
             \/ x.op = "close" /\ dev' = dev,
             x.op \in { "open", "see" } => dev'.page = x.s \div SectorsPerPage
      PROVE  Standing'
  <2> SUFFICES ASSUME todo' # << >>
               PROVE  /\ Programs(todo'[1]) => dev'.block = todo'[1].b /\ dev'.page = todo'[1].s \div SectorsPerPage
                      /\ todo'[1].op = "erase" => dev'.block = todo'[1].b
                      /\ Len(todo') > 1 /\ todo'[1].op = "close" /\ todo'[2].op = "erase"
                           => dev'.block = todo'[2].b
    BY DEF Standing, At
  <2>1. Programs(todo'[1]) => dev'.block = todo'[1].b /\ dev'.page = todo'[1].s \div SectorsPerPage
    BY <1>3, <1>6 DEF MayFollow, At
  <2>2. todo'[1].op = "erase" => dev'.block = todo'[1].b
    <3> SUFFICES ASSUME todo'[1].op = "erase" PROVE dev'.block = todo'[1].b
      OBVIOUS
    <3>1. CASE x.op # "close"
      BY <1>3, <1>6, <3>1 DEF MayFollow
    <3>2. CASE x.op = "close"
      <4>1. Len(todo) > 1 /\ todo'[1] = todo[2]
        <5> DEFINE t == todo
        <5>1. IsList(t) /\ t # << >>
          BY DEF DeviceInv, Script
        <5>2. IsList(Tail(t)) /\ Len(Tail(t)) = Len(t) - 1 /\ Len(t) \in Nat
              /\ \A i \in 1 .. Len(t) - 1 : Tail(t)[i] = t[i + 1]
          BY <5>1, ListTail
        <5>3. Len(Tail(t)) # 0 /\ Len(Tail(t)) \in Nat
          BY <1>2, <5>2, ListLen
        <5>4. 1 \in 1 .. Len(t) - 1 /\ 1 + 1 = 2
          BY <5>2, <5>3
        <5> QED BY <1>2, <5>2, <5>3, <5>4
      <4>2. dev.block = todo[2].b
        BY <3>2, <4>1 DEF DeviceInv, Standing
      <4> QED BY <1>6, <3>2, <4>1, <4>2
    <3> QED BY <3>1, <3>2
  <2>3. ASSUME Len(todo') > 1, todo'[1].op = "close", todo'[2].op = "erase"
        PROVE  dev'.block = todo'[2].b
    <3>1. x.op \in { "open", "see" } /\ x.b = todo'[2].b
      BY <1>3, <2>3 DEF MayFollow2
    <3> QED BY <1>6, <3>1
  <2> QED BY <2>1, <2>2, <2>3
<1>7. CASE x.op \in { "open", "see" } /\ OpenPage(x.b, x.s)
  <2>1. CASE Cached(x.b, x.s)
    <3>1. dev' = dev /\ cache' = cache
      BY <1>7, <2>1 DEF OpenPage
    <3>2. At(x.b, x.s) /\ cache.block = x.b /\ cache.page = x.s \div SectorsPerPage
      BY <2>1 DEF DeviceInv, CacheTrue, Cached, At
    <3>3. CacheTrue'
      BY <3>1, <3>2 DEF CacheTrue, At
    <3>4. Standing'
      BY <1>6, <1>7, <3>1, <3>2 DEF At
    <3> QED BY <1>2, <1>3, <3>1, <3>3, <3>4 DEF DeviceInv, Fit
  <2>2. CASE ~ Cached(x.b, x.s)
    <3> DEFINE p == x.s \div SectorsPerPage
    <3>1. dev' = DevOpened(x.b, p) /\ cache' = [ open |-> TRUE, block |-> x.b, page |-> p ]
      BY <1>7, <2>2 DEF OpenPage
    <3>2. dev' = [ block |-> dev'.block, page |-> dev'.page, erased |-> dev'.erased ]
          /\ dev'.block = x.b /\ dev'.page = p
      BY <1>5, <3>1
    <3>3. cache'.block = x.b /\ cache'.page = p
          /\ cache' = [ open |-> cache'.open, block |-> cache'.block, page |-> cache'.page ]
      BY <3>1
    <3>4. CacheTrue'
      BY <3>2, <3>3 DEF CacheTrue
    <3>5. Standing'
      BY <1>6, <1>7, <3>2
    <3>6. Fit'
      BY <3>2, <3>3 DEF Fit
    <3> QED BY <1>2, <1>3, <3>4, <3>5, <3>6 DEF DeviceInv
  <2> QED BY <2>1, <2>2
<1>8. CASE x.op = "raw" /\ dev' = DevOpened(x.b, 0) /\ UNCHANGED << pre, cache >>
  <2>1. dev' = [ block |-> dev'.block, page |-> dev'.page, erased |-> dev'.erased ]
        /\ dev'.block = x.b /\ dev'.page = 0 /\ cache' = cache
    BY <1>5, <1>8
  <2>2. todo' # << >> /\ todo'[1].op = "see" /\ todo'[1].b = x.b /\ todo'[1].s = STAT
    BY <1>3, <1>8 DEF MayFollow
  <2>3. STAT \div SectorsPerPage = 0
    BY DEF STAT, SectorsPerPage
  <2>4. CacheTrue'
    BY <2>1, <2>2, <2>3 DEF CacheTrue, At
  <2>5. Standing'
    BY <1>6, <1>8, <2>1
  <2>6. Fit'
    BY <2>1 DEF DeviceInv, Fit
  <2> QED BY <1>2, <1>3, <2>4, <2>5, <2>6 DEF DeviceInv
<1>9. CASE x.op = "probe" /\ ProbePage(x.b)
  <2>1. dev' = DevOpened(x.b, 0) /\ cache' = [ open |-> FALSE, block |-> x.b, page |-> 0 ]
    BY <1>9 DEF ProbePage
  <2>2. dev' = [ block |-> dev'.block, page |-> dev'.page, erased |-> dev'.erased ] /\ dev'.block = x.b
    BY <1>5, <2>1
  <2>3. ~ cache'.open /\ cache' = [ open |-> cache'.open, block |-> cache'.block, page |-> cache'.page ]
    BY <2>1
  <2>4. CacheTrue'
    BY <2>3 DEF CacheTrue
  <2>5. Standing'
    BY <1>6, <1>9, <2>2
  <2>6. Fit'
    BY <2>2, <2>3 DEF Fit
  <2> QED BY <1>2, <1>3, <2>4, <2>5, <2>6 DEF DeviceInv
<1>10. CASE x.op = "close" /\ cache' = [ cache EXCEPT !.open = FALSE ] /\ UNCHANGED << pre, dev >>
  <2>1. dev' = dev
    BY <1>10
  <2>2. ~ cache'.open /\ cache' = [ open |-> cache'.open, block |-> cache'.block, page |-> cache'.page ]
    BY <1>10 DEF DeviceInv, Fit
  <2>3. CacheTrue'
    BY <2>2 DEF CacheTrue
  <2>4. Standing'
    BY <1>6, <1>10, <2>1
  <2>5. Fit'
    BY <2>1, <2>2 DEF DeviceInv, Fit
  <2> QED BY <1>2, <1>3, <2>3, <2>4, <2>5 DEF DeviceInv
<1> QED BY <1>4, <1>7, <1>8, <1>9, <1>10 DEF Access

(* The files keep their form.                                              *)
LEMMA FilesMade ==
  ASSUME FilesFit, files' = [ f \in DOMAIN files |-> files'[f] ],
         \A f \in DOMAIN files : FileFit(files'[f])
  PROVE  FilesFit' /\ DOMAIN files' = DOMAIN files /\ Len(files') = Len(files)
<1> DEFINE g == files'
<1>1. IsList(files)
  BY DEF FilesFit
<1>2. Len(files) \in Nat /\ DOMAIN files = 1 .. Len(files)
  BY <1>1, ListLen
<1> DEFINE h == [ f \in DOMAIN files |-> g[f] ]
<1>3. DOMAIN h = DOMAIN files
  OBVIOUS
<1>4. g = h
  OBVIOUS
<1> HIDE DEF h
<1>5. DOMAIN g = 1 .. Len(files) /\ g = [ i \in 1 .. Len(files) |-> g[i] ]
  BY <1>2, <1>3, <1>4
<1>6. \A f \in DOMAIN g : FileFit(g[f])
  BY <1>3, <1>4
<1> HIDE DEF g
<1>7. IsList(g) /\ Len(g) = Len(files)
  BY <1>2, <1>5, ListMade
<1> QED BY <1>2, <1>5, <1>6, <1>7 DEF FilesFit, FileFit, g

LEMMA LastSectorIs == LastSector \in Nat /\ LastSector >= 7 /\ LastSector + 1 = 4 * PagesPerBlock
<1>1. PagesPerBlock \in Nat /\ PagesPerBlock > 1
  BY PagesAssumption
<1> QED BY <1>1 DEF LastSector, SectorsPerPage

LEMMA NextSectorIs ==
  ASSUME NEW s \in INIT .. LastSector
  PROVE  NextSector(s) \in INIT .. LastSector /\ NextSector(s) # INIT
  BY LastSectorIs DEF NextSector, INIT, TAIL

(* One field of a file is set.                                             *)
WithChain(r, c)  == [ r EXCEPT !.chain = c ]
WithSector(r, s) == [ r EXCEPT !.sector = s ]
WithDead(r, d)   == [ r EXCEPT !.dead = d ]
WithOpen(r, o)   == [ r EXCEPT !.open = o ]

File(c, s, d, o) == [ chain |-> c, sector |-> s, dead |-> d, open |-> o ]

LEMMA FileIs ==
  ASSUME NEW c, NEW s, NEW d, NEW o
  PROVE  /\ File(c, s, d, o).chain = c /\ File(c, s, d, o).sector = s
         /\ File(c, s, d, o).dead = d /\ File(c, s, d, o).open = o
  BY DEF File

LEMMA FileWith ==
  ASSUME NEW r, NEW c, NEW s, NEW d, NEW o, r = File(c, s, d, o), NEW x
  PROVE  /\ WithChain(r, x) = File(x, s, d, o) /\ WithSector(r, x) = File(c, x, d, o)
         /\ WithDead(r, x) = File(c, s, x, o) /\ WithOpen(r, x) = File(c, s, d, x)
<1>1. WithChain(r, x) = File(x, s, d, o)
  BY DEF File, WithChain
<1>2. WithSector(r, x) = File(c, x, d, o)
  BY DEF File, WithSector
<1>3. WithDead(r, x) = File(c, s, x, o)
  BY DEF File, WithDead
<1>4. WithOpen(r, x) = File(c, s, d, x)
  BY DEF File, WithOpen
<1> QED BY <1>1, <1>2, <1>3, <1>4

LEMMA FileFitIs ==
  ASSUME NEW r
  PROVE  FileFit(r) <=> \E c, s, d, o : r = File(c, s, d, o) /\ IsList(c) /\ s \in INIT .. LastSector
<1>1. ASSUME FileFit(r) PROVE r = File(r.chain, r.sector, r.dead, r.open)
  BY <1>1 DEF FileFit, File
<1>2. ASSUME NEW c, NEW s, NEW d, NEW o, r = File(c, s, d, o), IsList(c), s \in INIT .. LastSector
      PROVE  FileFit(r)
  <2>1. r.chain = c /\ r.sector = s /\ r.dead = d /\ r.open = o
    BY <1>2, FileIs
  <2>2. r = [ chain |-> r.chain, sector |-> r.sector, dead |-> r.dead, open |-> r.open ]
    BY <1>2, <2>1 DEF File
  <2> QED BY <1>2, <2>1, <2>2 DEF FileFit
<1>3. ASSUME FileFit(r)
      PROVE  \E c, s, d, o : r = File(c, s, d, o) /\ IsList(c) /\ s \in INIT .. LastSector
  BY <1>1, <1>3 DEF FileFit
<1> QED BY <1>2, <1>3

LEMMA FileFitWith ==
  ASSUME NEW r, FileFit(r), NEW x
  PROVE  /\ IsList(x) => FileFit(WithChain(r, x))
         /\ x \in INIT .. LastSector => FileFit(WithSector(r, x))
         /\ FileFit(WithDead(r, x)) /\ FileFit(WithOpen(r, x))
<1>1. PICK c, s, d, o : r = File(c, s, d, o) /\ IsList(c) /\ s \in INIT .. LastSector
  BY FileFitIs
<1>2. /\ WithChain(r, x) = File(x, s, d, o) /\ WithSector(r, x) = File(c, x, d, o)
      /\ WithDead(r, x) = File(c, s, x, o) /\ WithOpen(r, x) = File(c, s, d, x)
  BY <1>1, FileWith
<1> QED BY <1>1, <1>2, FileFitIs

(* One file changes.                                                       *)
LEMMA OneFile ==
  ASSUME FilesFit, NEW f, NEW r, f \in DOMAIN files => FileFit(r),
         files' = [ files EXCEPT ![f] = r ]
  PROVE  FilesFit' /\ DOMAIN files' = DOMAIN files /\ Len(files') = Len(files)
<1> DEFINE g == files'
<1>1. g = [ i \in DOMAIN files |-> IF i = f THEN r ELSE files[i] ]
  OBVIOUS
<1>2. \A i \in DOMAIN files : g[i] = IF i = f THEN r ELSE files[i]
  BY <1>1
<1>3. \A i \in DOMAIN files : FileFit(g[i])
  BY <1>2 DEF FilesFit
<1>4. g = [ i \in DOMAIN files |-> g[i] ]
  BY <1>1
<1> QED BY <1>3, <1>4, FilesMade

LEMMA FilesAppend ==
  ASSUME FilesFit, NEW r, FileFit(r), files' = Append(files, r)
  PROVE  FilesFit'
<1> DEFINE g == files'
<1>1. IsList(files) /\ Len(files) \in Nat /\ DOMAIN files = 1 .. Len(files)
  BY ListLen DEF FilesFit
<1>2. IsList(g) /\ Len(g) = Len(files) + 1 /\ (\A i \in 1 .. Len(files) : g[i] = files[i])
      /\ g[Len(files) + 1] = r
  BY <1>1, ListAppend
<1> HIDE DEF g
<1>3. DOMAIN g = 1 .. Len(files) + 1
  BY <1>2, ListLen
<1>4. ASSUME NEW i \in DOMAIN g PROVE FileFit(g[i])
  <2>1. CASE i = Len(files) + 1
    BY <1>2, <2>1
  <2>2. CASE i # Len(files) + 1
    <3>1. i \in 1 .. Len(files)
      BY <1>1, <1>3, <2>2
    <3> QED BY <1>1, <1>2, <3>1 DEF FilesFit
  <2> QED BY <2>1, <2>2
<1> QED BY <1>2, <1>4 DEF FilesFit, g

LEMMA FillIs ==
  ASSUME NEW s \in INIT .. LastSector
  PROVE  /\ IsList(Fill(s)) /\ Len(Fill(s)) \in Nat \ {0} /\ Fill(s) = [ i \in 1 .. Len(Fill(s)) |-> Fill(s)[i] ]
         /\ \A i \in 1 .. Len(Fill(s)) : Fill(s)[i] = s + i - 1 /\ Fill(s)[i] \in INIT .. LastSector
<1>1. CASE s < ENTRY
  <2>1. Fill(s) = << s >>
    BY <1>1 DEF Fill
  <2>2. IsList(<< s >>) /\ Len(<< s >>) = 1 /\ << s >>[1] = s /\ << s >> = [ i \in 1 .. 1 |-> << s >>[i] ]
    BY ListOne
  <2> QED BY <2>1, <2>2
<1>2. CASE ~ (s < ENTRY)
  <2> DEFINE m == LastSector - s + 1
             g == [ i \in 1 .. m |-> s + i - 1 ]
  <2>1. Fill(s) = g
    BY <1>2 DEF Fill
  <2>2. m \in Nat \ {0}
    BY LastSectorIs DEF INIT
  <2>3. DOMAIN g = 1 .. m /\ g = [ i \in 1 .. m |-> g[i] ] /\ \A i \in 1 .. m : g[i] = s + i - 1
    OBVIOUS
  <2>4. \A i \in 1 .. m : s + i - 1 \in INIT .. LastSector
    BY LastSectorIs DEF INIT
  <2> HIDE DEF g
  <2>5. IsList(g) /\ Len(g) = m
    BY <2>2, <2>3, ListMade
  <2> QED BY <2>1, <2>2, <2>3, <2>4, <2>5
<1> QED BY <1>1, <1>2

LEMMA CommitFilesFit ==
  ASSUME FilesFit, NEW f \in DOMAIN files, Commit(f)
  PROVE  FilesFit'
<1> DEFINE ss == Fill(files[f].sector)
           v == NextSector(ss[Len(ss)])
           r == WithSector(files[f], v)
<1>1. FileFit(files[f])
  BY DEF FilesFit
<1>2. ss[Len(ss)] \in INIT .. LastSector
  <2>1. files[f].sector \in INIT .. LastSector
    BY <1>1 DEF FileFit
  <2>2. Len(ss) \in Nat \ {0} /\ \A i \in 1 .. Len(ss) : ss[i] \in INIT .. LastSector
    BY <2>1, FillIs
  <2> QED BY <2>2
<1>3. files' = [ files EXCEPT ![f] = r ]
  BY DEF Commit, WithSector
<1>4. v \in INIT .. LastSector
  BY <1>2, NextSectorIs
<1> HIDE DEF ss, v
<1>5. FileFit(r)
  BY <1>1, <1>4, FileFitWith
<1> HIDE DEF r
<1> QED BY <1>3, <1>5, OneFile

LEMMA FilesFitNext ==
  ASSUME FilesFit, [Next]_vars
  PROVE  FilesFit'
<1>0. UNCHANGED files => FilesFit'
  BY DEF FilesFit
<1>1. ASSUME files' = << >> PROVE FilesFit'
  <2> DEFINE g == files'
  <2>1. IsList(g) /\ Len(g) = 0
    BY <1>1, ListNone
  <2>2. DOMAIN g = 1 .. 0
    BY <2>1, ListLen
  <2> QED BY <2>1, <2>2 DEF FilesFit
<1>2. ASSUME NEW f, files' = Committed(f) PROVE FilesFit'
  <2> DEFINE v == NextSector(files[f].sector)
             r == WithSector(files[f], v)
  <2>1. files' = [ files EXCEPT ![f] = r ]
    BY <1>2 DEF Committed, WithSector
  <2>2. f \in DOMAIN files => FileFit(r)
    <3> SUFFICES ASSUME f \in DOMAIN files PROVE FileFit(r)
      OBVIOUS
    <3>1. FileFit(files[f])
      BY DEF FilesFit
    <3>2. v \in INIT .. LastSector
      BY <3>1, NextSectorIs DEF FileFit
    <3> HIDE DEF v
    <3> QED BY <3>1, <3>2, FileFitWith
  <2> HIDE DEF r
  <2> QED BY <2>1, <2>2, OneFile
<1>3. CASE Step
  <2>1. UNCHANGED files \/ files' = << >>
    BY <1>3 DEF Step, Access, Program, WriteFails, Lists, DoErase, EraseFails, Aside, FormatBegun, fs
  <2> QED BY <1>0, <1>1, <2>1
<1>4. CASE Flush
  BY <1>0, <1>2, <1>4 DEF Flush
<1>5. CASE Allocate \/ PrimeEnds \/ (\E b \in Block : Draw(b) \/ MisDraw(b)) \/ Create \/ AppendInode
           \/ (\E f \in DOMAIN files : CommitTail(f)) \/ Look \/ Format \/ Inspect \/ PowerCut \/ PowerOn
  <2>1. UNCHANGED files
    BY <1>5 DEF Allocate, PrimeEnds, Draw, MisDraw, Create, AppendInode, CommitTail, Look, Format, Inspect, PowerCut, PowerOn, fs
  <2> QED BY <1>0, <2>1
<1>6. CASE WriteEntry
  <2> DEFINE r == [ chain |-> << call.b >>, sector |-> INIT, dead |-> FALSE, open |-> TRUE ]
  <2>1. files' = Append(files, r)
    BY <1>6 DEF WriteEntry
  <2>2. IsList(<< call.b >>)
    BY ListOne
  <2>3. FileFit(r)
    BY <2>2, LastSectorIs DEF FileFit, INIT
  <2> HIDE DEF r
  <2> QED BY <2>1, <2>3, FilesAppend
<1>7. CASE LinkTail
  <2> DEFINE f == call.f
             c == Append(files[f].chain, call.b)
             r == WithSector(WithChain(files[f], c), INIT)
  <2>1. files' = [ files EXCEPT ![f] = r ]
    BY <1>7 DEF LinkTail, WithSector, WithChain
  <2>2. f \in DOMAIN files => FileFit(r)
    <3> SUFFICES ASSUME f \in DOMAIN files PROVE FileFit(r)
      OBVIOUS
    <3>1. FileFit(files[f])
      BY DEF FilesFit
    <3>2. IsList(c)
      BY <3>1, ListAppend DEF FileFit
    <3> HIDE DEF c
    <3>3. FileFit(WithChain(files[f], c))
      BY <3>1, <3>2, FileFitWith
    <3>4. INIT \in INIT .. LastSector
      BY LastSectorIs DEF INIT
    <3> QED BY <3>3, <3>4, FileFitWith
  <2> HIDE DEF r, f
  <2> QED BY <2>1, <2>2, OneFile
<1>8. ASSUME NEW f \in DOMAIN files, Remove(f) PROVE FilesFit'
  <2> DEFINE r == WithOpen(WithDead(files[f], TRUE), FALSE)
  <2>1. files' = [ files EXCEPT ![f] = r ]
    BY <1>8 DEF Remove, WithOpen, WithDead
  <2>2. FileFit(r)
    <3>1. FileFit(files[f])
      BY DEF FilesFit
    <3> QED BY <3>1, FileFitWith
  <2> HIDE DEF r
  <2> QED BY <2>1, <2>2, OneFile
<1>9. CASE Mount \/ MisMount
  <2> DEFINE g == [ f \in DOMAIN files |-> WithOpen(files[f], FALSE) ]
  <2>1. files' = g
    BY <1>9 DEF Mount, MisMount, Remount, WithOpen
  <2>2. g = [ f \in DOMAIN files |-> g[f] ]
    OBVIOUS
  <2>3. ASSUME NEW f \in DOMAIN files PROVE FileFit(g[f])
    <3>1. FileFit(files[f])
      BY DEF FilesFit
    <3>2. g[f] = WithOpen(files[f], FALSE)
      OBVIOUS
    <3> HIDE DEF g
    <3> QED BY <3>1, <3>2, FileFitWith
  <2> HIDE DEF g
  <2> QED BY <2>1, <2>2, <2>3, FilesMade
<1>10. CASE UNCHANGED vars
  BY <1>0, <1>10 DEF vars, fs
<1> QED BY <1>3, <1>4, <1>5, <1>6, <1>7, <1>8, <1>9, <1>10, CommitFilesFit DEF Next

(* What the parts of calls leave to do is a script.                        *)
LEMMA PartsWhole ==
  ASSUME Bad = {}, FilesFit,
         \/ Flush \/ Allocate \/ PrimeEnds \/ (\E b \in Block : Draw(b) \/ MisDraw(b)) \/ AppendInode
         \/ WriteEntry \/ LinkTail \/ Inspect
  PROVE  todo = << >> /\ on /\ Whole(todo') /\ UNCHANGED << dev, cache, on >>
<1>0. IsList(files) /\ Len(files) \in Nat /\ DOMAIN files = 1 .. Len(files)
  BY ListLen DEF FilesFit
<1>1. CASE Flush
  <2>1. FALSE \in BOOLEAN
    OBVIOUS
  <2>2. todo' = << >> \/ todo' = Sector(LastBlock(dirty), files[dirty].sector, "file", FALSE)
    BY <1>1 DEF Flush, Goto
  <2>3. Whole(todo')
    BY <2>1, <2>2, WholeNone, SectorWhole
  <2> QED BY <1>1, <2>3 DEF Flush, NextPart, layer, mounts
<1>2. CASE Allocate
  <2>1. todo' = << >>
    BY <1>2 DEF Allocate, Goto
  <2> QED BY <1>2, <2>1, WholeNone DEF Allocate, NextPart, layer, mounts
<1>3. CASE PrimeEnds
  <2>1. todo' = << >>
    BY <1>3 DEF PrimeEnds, Goto
  <2> QED BY <1>3, <2>1, WholeNone DEF PrimeEnds, NextPart, layer
<1>4. ASSUME NEW b \in Block, Draw(b) \/ MisDraw(b)
      PROVE  todo = << >> /\ on /\ Whole(todo') /\ UNCHANGED << dev, cache, on >>
  <2>1. \/ todo' = Probe(b) \o Erase(b) \o Statistics(b, "key") \o Listed(b)
        \/ todo' = Probe(b) \o Listed(b) \/ todo' = Probe(b)
    BY <1>4 DEF Draw, MisDraw, Drawn, Goto
  <2>2. Whole(todo')
    BY <2>1, DrawWhole
  <2> QED BY <1>4, <2>2 DEF Draw, MisDraw, NextPart, layer, mounts
<1>5. CASE AppendInode
  <2> DEFINE e == EntryBlock(Newest)
  <2>1. todo' = Open(e, TAIL) \o Write(e, TAIL, "first", "tail") \o Open(call.b, INIT) \o InodeHead(call.b)
    BY <1>5 DEF AppendInode, Goto
  <2> HIDE DEF e
  <2>2. Whole(todo')
    BY <2>1, AppendWhole
  <2> QED BY <1>5, <2>2 DEF AppendInode, NextPart, layer, mounts
<1>6. CASE WriteEntry
  <2> DEFINE e == EntryBlock(Newest)  s == EntrySector(Newest)
  <2>1. todo' = Open(e, s) \o Write(e, s, "first", "entry")
    BY <1>6 DEF WriteEntry, Goto
  <2> HIDE DEF e, s
  <2>2. Whole(todo')
    BY <2>1, OpenWriteWhole
  <2> QED BY <1>6, <2>2 DEF WriteEntry, NextPart, layer, mounts
<1>7. CASE LinkTail
  <2>1. TRUE \in BOOLEAN
    OBVIOUS
  <2>2. todo' = Sector(LastBlock(call.f), TAIL, "file", TRUE)
    BY <1>7 DEF LinkTail, Goto
  <2>3. Whole(todo')
    BY <2>1, <2>2, SectorWhole
  <2> QED BY <1>7, <2>3 DEF LinkTail, NextPart, layer, mounts
<1>8. CASE Inspect
  <2>1. todo' = Find(Newest) \o ListsAnew
    BY <1>8 DEF Inspect, Goto
  <2>2. Newest \in Nat
    BY <1>0 DEF Newest
  <2>3. Whole(Find(Newest)) /\ Whole(ListsAnew)
    BY <2>2, FindWhole, WholeSingle
  <2>4. Whole(todo')
    BY <2>1, <2>3, WholeConcat
  <2> QED BY <1>8, <2>4 DEF Inspect, NextPart, layer, mounts
<1> QED BY <1>1, <1>2, <1>3, <1>4, <1>5, <1>6, <1>7, <1>8

(* What the calls begin with is a script.                                  *)
LEMMA CallsWhole ==
  ASSUME Bad = {}, FilesFit,
         \/ Create \/ (\E f \in DOMAIN files : Commit(f) \/ CommitTail(f) \/ Remove(f))
         \/ Look \/ Format
  PROVE  todo = << >> /\ on /\ Whole(todo') /\ UNCHANGED << dev, cache, on >>
<1>0. IsList(files) /\ Len(files) \in Nat /\ DOMAIN files = 1 .. Len(files)
  BY ListLen DEF FilesFit
<1>1. CASE Create
  <2>1. Newest \in Nat
    BY <1>0 DEF Newest
  <2>2. todo' = Find(Newest)
    BY <1>1 DEF Create, Begin, Goto
  <2>3. Whole(todo')
    BY <2>1, <2>2, FindWhole
  <2> QED BY <1>1, <2>3 DEF Create, Begin, Idle, layer, mounts
<1>2. ASSUME NEW f \in DOMAIN files, Commit(f)
      PROVE  todo = << >> /\ on /\ Whole(todo') /\ UNCHANGED << dev, cache, on >>
  <2> DEFINE ss == Fill(files[f].sector)
             g == [ i \in DOMAIN ss |-> Sector(LastBlock(f), ss[i], "file", TRUE) ]
  <2>1. todo' = Flat(g)
    BY <1>2 DEF Commit, Begin, Goto
  <2>2. IsList(ss) /\ Len(ss) \in Nat
    <3>1. files[f].sector \in INIT .. LastSector
      BY DEF FilesFit, FileFit
    <3> QED BY <3>1, FillIs
  <2>3. DOMAIN ss = 1 .. Len(ss)
    BY <2>2, ListLen
  <2> HIDE DEF ss
  <2>4. TRUE \in BOOLEAN
    OBVIOUS
  <2>5. (\A i \in 1 .. Len(ss) : Whole(g[i])) /\ g = [ i \in 1 .. Len(ss) |-> g[i] ]
    BY <2>3, <2>4, SectorWhole
  <2> HIDE DEF g
  <2>6. Whole(todo')
    BY <2>1, <2>2, <2>5, FlatMade
  <2> QED BY <1>2, <2>6 DEF Commit, Begin, Idle, layer, mounts
<1>3. ASSUME NEW f \in DOMAIN files, CommitTail(f)
      PROVE  todo = << >> /\ on /\ Whole(todo') /\ UNCHANGED << dev, cache, on >>
  <2>1. todo' = << >>
    BY <1>3 DEF CommitTail, Begin, Goto
  <2> QED BY <1>3, <2>1, WholeNone DEF CommitTail, Begin, Idle, layer, mounts
<1>4. ASSUME NEW f \in DOMAIN files, Remove(f)
      PROVE  todo = << >> /\ on /\ Whole(todo') /\ UNCHANGED << dev, cache, on >>
  <2> DEFINE ch == files[f].chain
  <2>1. PICK key \in { "key", "nokey" } :
          Begin("rm", f, << >>,
            Find(f) \o Flat([ i \in 1 .. Len(ch) |-> See(ch[i], TAIL) ])
              \o Open(EntryBlock(f), EntrySector(f) + 1)
              \o Write(EntryBlock(f), EntrySector(f) + 1, "first", "dead")
              \o Flat([ i \in 1 .. Len(ch) |-> Invalidated(ch[i], key) ]))
    BY <1>4 DEF Remove
  <2>2. f \in Nat /\ IsList(ch)
    BY <1>0 DEF FilesFit, FileFit
  <2> HIDE DEF ch
  <2>3. Whole(todo')
    BY <2>1, <2>2, RemovalWhole DEF Begin, Goto, Removal
  <2>4. Idle
    BY <1>4 DEF Remove
  <2> QED BY <2>1, <2>3, <2>4 DEF Begin, Idle, layer, mounts
<1>5. CASE Look
  <2>1. Whole(todo')
    <3>1. ASSUME NEW b, NEW s, todo' = See(b, s) PROVE Whole(todo')
      BY <3>1, WholeSingle
    <3>2. ASSUME NEW b, NEW s, NEW r, todo' = See(b, s) \o See(b, r) PROVE Whole(todo')
      BY <3>2, WholeSingle, WholeConcat
    <3> DEFINE g == [ i \in 1 .. Blocks |-> Walked(i - 1) ]
    <3>3. Blocks \in Nat
      BY PagesAssumption
    <3>4. (\A i \in 1 .. Blocks : Whole(g[i])) /\ g = [ i \in 1 .. Blocks |-> g[i] ]
      BY WalkedWhole
    <3> HIDE DEF g
    <3>5. Whole(Flat(g))
      BY <3>3, <3>4, FlatMade
    <3>6. (\E b, s : todo' = See(b, s)) \/ (\E b, s, r : todo' = See(b, s) \o See(b, r)) \/ todo' = Flat(g)
      BY <1>5 DEF Look, Begin, Goto, g
    <3> QED BY <3>1, <3>2, <3>5, <3>6
  <2> QED BY <1>5, <2>1 DEF Look, Begin, Idle, layer, mounts
<1>6. CASE Format
  <2>1. todo' = FormatScript
    BY <1>6 DEF Format, Goto
  <2>2. Whole(todo')
    BY <2>1, FormatWhole
  <2> QED BY <1>6, <2>2 DEF Format, layer
<1> QED BY <1>1, <1>2, <1>3, <1>4, <1>5, <1>6

LEMMA MountWhole ==
  ASSUME Bad = {}, Mount \/ MisMount
  PROVE  Whole(todo')
<1>1. First \in Nat /\ Inode0Max \in First + 1 .. Blocks /\ Blocks \in Nat
  BY PagesAssumption
<1>2. ASSUME NEW m \in Nat, todo' = Flat([ i \in 1 .. m |-> Probed(First + i - 1) ])
      PROVE  Whole(todo')
  BY <1>2, ProbesWhole
<1>3. \/ \E b \in First .. Inode0Max - 1 : todo' = Flat([ i \in 1 .. b - First + 1 |-> Probed(First + i - 1) ])
      \/ todo' = Flat([ i \in 1 .. Inode0Max - First |-> Probed(First + i - 1) ])
  BY DEF Mount, MisMount, Takes, TakesNone, Goto
<1>4. CASE \E b \in First .. Inode0Max - 1 : todo' = Flat([ i \in 1 .. b - First + 1 |-> Probed(First + i - 1) ])
  <2>1. PICK b \in First .. Inode0Max - 1 : todo' = Flat([ i \in 1 .. b - First + 1 |-> Probed(First + i - 1) ])
    BY <1>4
  <2>2. b - First + 1 \in Nat
    BY <1>1
  <2> QED BY <1>2, <2>1, <2>2
<1>5. CASE todo' = Flat([ i \in 1 .. Inode0Max - First |-> Probed(First + i - 1) ])
  <2>1. Inode0Max - First \in Nat
    BY <1>1
  <2> QED BY <1>2, <1>5, <2>1
<1> QED BY <1>3, <1>4, <1>5

LEMMA DeviceStep ==
  ASSUME DeviceInv, Step
  PROVE  DeviceInv'
<1> DEFINE x == Head(todo)
<1>1. on /\ todo # << >>
      /\ (Access(x) \/ Program(x) \/ WriteFails(x) \/ Lists(x) \/ DoErase(x) \/ EraseFails(x))
  BY DEF Step
<1>2. CASE Access(x)
  BY <1>1, <1>2, DeviceAccess
<1>3. dev = [ block |-> dev.block, page |-> dev.page, erased |-> dev.erased ] /\ Fit
  BY DEF DeviceInv, Fit
<1>4. ASSUME NEW e, dev' = [ dev EXCEPT !.erased = e ]
      PROVE  dev'.block = dev.block /\ dev'.page = dev.page
             /\ dev' = [ block |-> dev'.block, page |-> dev'.page, erased |-> dev'.erased ]
  BY <1>3, <1>4
<1>5. CASE Program(x) \/ WriteFails(x)
  <2>1. todo' = Tail(todo) /\ on' = on /\ cache' = cache /\ dev' = dev /\ x.op \in { "write", "spare" }
    BY <1>5 DEF Program, WriteFails, Goto
  <2> QED BY <1>1, <1>3, <2>1, DevicePasses
<1>6. CASE Lists(x)
  <2>1. todo' = Tail(todo) /\ on' = on /\ cache' = cache /\ dev' = dev /\ x.op \in { "push", "lists" }
    BY <1>6 DEF Lists, Goto, layer, Aside, mounts
  <2> QED BY <1>1, <1>3, <2>1, DevicePasses
<1>7. CASE DoErase(x)
  <2>1. todo' = Tail(todo) /\ on' = on /\ cache' = cache /\ x.op = "erase"
        /\ \E e : dev' = [ dev EXCEPT !.erased = e ]
    BY <1>7 DEF DoErase, Goto
  <2> QED BY <1>1, <1>4, <2>1, DevicePasses
<1>8. CASE EraseFails(x)
  <2>1. (todo' = Tail(todo) \/ todo' = << >>) /\ on' = on /\ cache' = cache /\ x.op = "erase"
        /\ \E e : dev' = [ dev EXCEPT !.erased = e ]
    BY <1>8 DEF EraseFails, Goto
  <2>2. CASE todo' = Tail(todo)
    BY <1>1, <1>4, <2>1, <2>2, DevicePasses
  <2>3. CASE todo' = << >>
    <3>1. Fit' /\ dev'.block = dev.block /\ dev'.page = dev.page
      BY <1>3, <1>4, <2>1 DEF Fit
    <3>2. cache.open => dev.block = cache.block /\ dev.page = cache.page
      <4>1. Head(todo) = todo[1]
        BY <1>1, ListTail DEF DeviceInv, Script
      <4>2. todo[1].op # "see"
        BY <2>1, <4>1
      <4> QED BY <1>1, <4>2 DEF DeviceInv, CacheTrue
    <3> QED BY <2>1, <2>3, <3>1, <3>2, DeviceStops
  <2> QED BY <2>1, <2>2, <2>3
<1> QED BY <1>1, <1>2, <1>5, <1>6, <1>7, <1>8

MeantInv == DeviceInv /\ FilesFit

LEMMA MeantInit == Init => MeantInv
<1> SUFFICES ASSUME Init PROVE MeantInv
  OBVIOUS
<1>1. todo = << >> /\ ~ cache.open /\ Fit
  BY DEF Init, Fit
<1>2. Script
  BY <1>1, ListNone DEF Script, Steady
<1>3. DeviceInv
  BY <1>1, <1>2 DEF DeviceInv, CacheTrue, Standing
<1>4. FilesFit
  <2>1. files = << >>
    BY DEF Init
  <2>2. IsList(files) /\ DOMAIN files = 1 .. 0
    BY <2>1, ListNone, ListLen
  <2> QED BY <2>2 DEF FilesFit
<1> QED BY <1>3, <1>4 DEF MeantInv

LEMMA MeantNext ==
  ASSUME Bad = {}, MeantInv, [Next]_vars
  PROVE  MeantInv'
<1>0. DeviceInv /\ FilesFit /\ FilesFit'
  BY FilesFitNext DEF MeantInv
<1>1. CASE Step
  BY <1>0, <1>1, DeviceStep DEF MeantInv
<1>2. CASE \/ Flush \/ Allocate \/ PrimeEnds \/ (\E b \in Block : Draw(b) \/ MisDraw(b)) \/ AppendInode
           \/ WriteEntry \/ LinkTail \/ Inspect
  <2>1. todo = << >> /\ on /\ Whole(todo') /\ UNCHANGED << dev, cache, on >>
    BY <1>0, <1>2, PartsWhole
  <2> QED BY <1>0, <2>1, DeviceGo DEF MeantInv
<1>3. CASE \/ Create \/ (\E f \in DOMAIN files : Commit(f) \/ CommitTail(f) \/ Remove(f))
           \/ Look \/ Format
  <2>1. todo = << >> /\ on /\ Whole(todo') /\ UNCHANGED << dev, cache, on >>
    BY <1>0, <1>3, CallsWhole
  <2> QED BY <1>0, <2>1, DeviceGo DEF MeantInv
<1>4. CASE Mount \/ MisMount
  <2>1. on' = on /\ on /\ dev' = dev /\ cache' = [ open |-> FALSE, block |-> 0, page |-> 0 ]
    BY <1>4 DEF Mount, MisMount, Remount
  <2>2. Whole(todo')
    BY <1>4, MountWhole
  <2>3. ~ cache'.open /\ Fit'
    BY <1>0, <2>1 DEF DeviceInv, Fit
  <2>4. Script' /\ Standing'
    <3> DEFINE t == todo'
    <3>1. IsList(t) /\ Steady(t) /\ (t # << >> => Opens(t[1]) /\ t[Len(t)].op # "raw")
      BY <2>2 DEF Whole
    <3>2. Script'
      BY <3>1 DEF Script
    <3>3. t # << >> => /\ ~ Programs(t[1]) /\ t[1].op # "erase" /\ t[1].op # "close"
      BY <3>1 DEF Opens, Programs
    <3> QED BY <3>2, <3>3 DEF Standing
  <2> QED BY <1>0, <2>1, <2>3, <2>4 DEF MeantInv, DeviceInv, CacheTrue
<1>5. CASE PowerCut
  <2>1. todo' = << >> /\ on' = FALSE /\ dev' = dev /\ cache' = cache
    BY <1>5 DEF PowerCut, Goto, layer
  <2>2. Fit'
    BY <1>0, <2>1 DEF DeviceInv, Fit
  <2> QED BY <1>0, <2>1, <2>2, DeviceStops DEF MeantInv
<1>6. CASE PowerOn
  <2>1. todo = << >> /\ todo' = todo
    BY <1>0, <1>6 DEF PowerOn, DeviceInv
  <2>2. ~ cache'.open /\ Fit'
    BY <1>6 DEF PowerOn, Fit
  <2> QED BY <1>0, <2>1, <2>2, DeviceStops DEF MeantInv
<1>7. CASE UNCHANGED vars
  <2>1. UNCHANGED << dev, cache, todo, on >>
    BY <1>7 DEF vars, layer, mounts
  <2>2. DeviceInv'
    BY <1>0, <2>1 DEF DeviceInv, Fit, Script, CacheTrue, Standing, At
  <2> QED BY <1>0, <2>2 DEF MeantInv
<1> QED BY <1>1, <1>2, <1>3, <1>4, <1>5, <1>6, <1>7 DEF Next

(***************************************************************************)
(* Whatever is read or written is read or written in the page that is      *)
(* meant (flogfs.c:1742-1763), with any backend and whatever the calls,    *)
(* the failing erases, writes and reads, and the power cuts, if no block   *)
(* is bad.                                                                 *)
(***************************************************************************)
THEOREM PagesAreMeant == ASSUME Bad = {} PROVE Spec => []PageMeant
<1>1. Init => MeantInv
  BY MeantInit
<1>2. MeantInv /\ [Next]_vars => MeantInv'
  BY MeantNext
<1>3. MeantInv => PageMeant
  BY DeviceMeant DEF MeantInv
<1> QED BY <1>1, <1>2, <1>3, PTL DEF Spec

-----------------------------------------------------------------------------
(* Where things lie in the memory.                                         *)

LEMMA Quotient ==
  ASSUME NEW e \in Nat \ {0}, NEW q \in Nat, NEW r \in 0 .. e - 1
  PROVE  (q * e + r) \div e = q /\ (q * e + r) % e = r /\ q * e + r \in Nat
<1> DEFINE a == q * e + r  d == a \div e  m == a % e
<1>0. q * e \in Nat /\ r \in Nat
  OBVIOUS
<1>1. a \in Nat
  BY <1>0
<1>2. d \in Int /\ m \in 0 .. e - 1 /\ a = e * d + m
  BY <1>1
<1>3. a = e * q + r
  OBVIOUS
<1> HIDE DEF a, d, m
<1>4. e * (q - d) = m - r
  BY <1>2, <1>3
<1>5. ~ (q > d)
  <2> SUFFICES ASSUME q > d PROVE FALSE
    OBVIOUS
  <2>1. q - d \in Int /\ q - d >= 1
    BY <1>2
  <2>2. e * (q - d) >= e
    BY <2>1
  <2> QED BY <1>2, <1>4, <2>2
<1>6. ~ (d > q)
  <2> SUFFICES ASSUME d > q PROVE FALSE
    OBVIOUS
  <2>1. d - q \in Int /\ d - q >= 1
    BY <1>2
  <2>2. e * (d - q) >= e
    BY <2>1
  <2>3. e * (d - q) = r - m
    BY <1>2, <1>4
  <2> QED BY <1>2, <2>2, <2>3
<1>7. d = q /\ m = r
  <2>1. d = q
    BY <1>2, <1>5, <1>6
  <2> QED BY <1>2, <1>3, <2>1
<1> QED BY <1>1, <1>7 DEF a, d, m

LEMMA Divided ==
  ASSUME NEW e \in Nat \ {0}, NEW a \in Nat
  PROVE  a \div e \in Nat /\ a % e \in 0 .. e - 1 /\ a = (a \div e) * e + (a % e)
  OBVIOUS

PageSize == SectorsPerPage + 1
BlockSize == PageSize * PagesPerBlock

LEMMA SizesAre == PageSize = 5 /\ BlockSize \in Nat \ {0} /\ PagesPerBlock \in Nat \ {0} /\ BlockSize = 5 * PagesPerBlock
  BY PagesAssumption DEF PageSize, BlockSize, SectorsPerPage

LEMMA AddressIs ==
  ASSUME NEW b \in Nat, NEW p \in 0 .. PagesPerBlock - 1, NEW i \in 0 .. SectorsPerPage
  PROVE  /\ SdBlock(b, p, i) \in Nat
         /\ SdBlock(b, p, i) % (SectorsPerPage + 1) = i
         /\ (SdBlock(b, p, i) \div (SectorsPerPage + 1)) % PagesPerBlock = p
         /\ SdBlock(b, p, i) \div ((SectorsPerPage + 1) * PagesPerBlock) = b
         /\ SdBlock(b, p, i) = b * BlockSize + (5 * p + i)
<1>1. PagesPerBlock \in Nat \ {0} /\ BlockSize \in Nat \ {0} /\ BlockSize = 5 * PagesPerBlock /\ PageSize = 5
  BY SizesAre
<1> DEFINE c == b * PagesPerBlock + p
<1>2. c \in Nat /\ c % PagesPerBlock = p
  BY <1>1, Quotient
<1> DEFINE a == SdBlock(b, p, i)
<1>3. a = c * 5 + i
  BY DEF SdBlock, SectorsPerPage
<1>4. i \in 0 .. 5 - 1
  BY DEF SectorsPerPage
<1>5. a \in Nat /\ a % 5 = i /\ a \div 5 = c
  <2> HIDE DEF c, a
  <2> QED BY <1>2, <1>3, <1>4
<1>6. a = b * BlockSize + (5 * p + i)
  <2>1. c * 5 = b * (5 * PagesPerBlock) + 5 * p
    BY <1>1
  <2> HIDE DEF c, a
  <2>2. b * (5 * PagesPerBlock) \in Nat /\ 5 * p \in Nat /\ i \in Nat
    BY <1>1, <1>4
  <2> QED BY <1>1, <1>3, <2>1, <2>2
<1>7. 5 * p + i \in 0 .. BlockSize - 1
  BY <1>1, <1>4
<1>8. a \div BlockSize = b
  <2> DEFINE r == 5 * p + i
  <2> HIDE DEF r, a
  <2> QED BY <1>1, <1>6, <1>7, Quotient DEF r
<1> HIDE DEF a, c
<1> QED BY <1>2, <1>5, <1>6, <1>8 DEF a, PageSize, BlockSize, SectorsPerPage

LEMMA AddressSplit ==
  ASSUME NEW a \in Nat
  PROVE  \E b \in Nat : \E p \in 0 .. PagesPerBlock - 1 : \E i \in 0 .. SectorsPerPage : a = SdBlock(b, p, i)
<1>1. PagesPerBlock \in Nat \ {0}
  BY SizesAre
<1> DEFINE c == a \div 5  i == a % 5
<1>2. c \in Nat /\ i \in 0 .. 4 /\ a = c * 5 + i
  OBVIOUS
<1> HIDE DEF c, i
<1> DEFINE b == c \div PagesPerBlock  p == c % PagesPerBlock
<1>3. b \in Nat /\ p \in 0 .. PagesPerBlock - 1 /\ c = b * PagesPerBlock + p
  BY <1>1, <1>2, Divided
<1> HIDE DEF b, p
<1>4. a = SdBlock(b, p, i)
  BY <1>2, <1>3 DEF SdBlock, SectorsPerPage
<1>5. i \in 0 .. SectorsPerPage
  BY <1>2 DEF SectorsPerPage
<1> QED BY <1>3, <1>4, <1>5

\* What an address within a page of a block is named.
Cell(c) == << c.b, c.s, c.part >>

SectorOf(p, i, part) == p * SectorsPerPage + (IF i = SectorsPerPage THEN part ELSE i)
PartOf(i, part) == IF i = SectorsPerPage THEN "spare" ELSE IF part = 0 THEN "first" ELSE "rest"

LEMMA NamedIs ==
  ASSUME NEW m, NEW b \in Nat, NEW p \in 0 .. PagesPerBlock - 1, NEW i \in 0 .. SectorsPerPage,
         m.at = SdBlock(b, p, i)
  PROVE  /\ Named(m) = [ b |-> b, s |-> SectorOf(p, i, m.part), part |-> PartOf(i, m.part), tag |-> m.tag ]
         /\ Named(m).b = b /\ Named(m).s = SectorOf(p, i, m.part) /\ Named(m).part = PartOf(i, m.part)
         /\ Named(m).tag = m.tag
<1>1. /\ m.at % (SectorsPerPage + 1) = i
      /\ (m.at \div (SectorsPerPage + 1)) % PagesPerBlock = p
      /\ m.at \div ((SectorsPerPage + 1) * PagesPerBlock) = b
  BY AddressIs
<1>2. Named(m) = [ b |-> b, s |-> SectorOf(p, i, m.part), part |-> PartOf(i, m.part), tag |-> m.tag ]
  BY <1>1 DEF Named, SectorOf, PartOf
<1> QED BY <1>2

\* A sector as a page and a place in it.
LEMMA SectorSplit ==
  ASSUME NEW s \in 0 .. LastSector
  PROVE  /\ s \div SectorsPerPage \in 0 .. PagesPerBlock - 1
         /\ s % SectorsPerPage \in 0 .. SectorsPerPage - 1
         /\ s = (s \div SectorsPerPage) * SectorsPerPage + (s % SectorsPerPage)
<1>1. LastSector + 1 = 4 * PagesPerBlock /\ LastSector \in Nat /\ PagesPerBlock \in Nat
  BY LastSectorIs, PagesAssumption
<1>2. s \in Nat /\ s <= LastSector
  BY <1>1
<1>3. s \div 4 \in Nat /\ s % 4 \in 0 .. 3 /\ s = (s \div 4) * 4 + (s % 4)
  BY <1>2
<1>4. s \div 4 <= PagesPerBlock - 1
  BY <1>1, <1>2, <1>3
<1> QED BY <1>1, <1>3, <1>4 DEF SectorsPerPage

\* Operations that program, as the file system issues them.
Programming(x) ==
  /\ x.b \in Block /\ x.s \in 0 .. LastSector
  /\ \/ x.op = "write" /\ x.part \in { "first", "rest" }
     \/ x.op = "spare" /\ x.part = "spare"

Content(x) == [ b |-> x.b, s |-> x.s, part |-> x.part, tag |-> x.tag ]

LEMMA BlockIs == ASSUME NEW b \in Block PROVE b \in Nat /\ b < Blocks
  BY PagesAssumption

\* The page of an operation, and which sd block of the page it is about.
PageFor(x) == x.s \div SectorsPerPage
SlotFor(x) == IF x.op = "spare" THEN SectorsPerPage ELSE x.s % SectorsPerPage
PlaceFor(x) == Place(x.b, PageFor(x), x)

LEMMA PlaceIs ==
  ASSUME NEW x, Programming(x)
  PROVE  /\ PageFor(x) \in 0 .. PagesPerBlock - 1 /\ SlotFor(x) \in 0 .. SectorsPerPage
         /\ PlaceFor(x).at = SdBlock(x.b, PageFor(x), SlotFor(x))
         /\ PlaceFor(x).part \in 0 .. SectorsPerPage - 1
         /\ SectorOf(PageFor(x), SlotFor(x), PlaceFor(x).part) = x.s
         /\ PartOf(SlotFor(x), PlaceFor(x).part) = x.part
         /\ PlaceFor(x) = [ at |-> PlaceFor(x).at, part |-> PlaceFor(x).part ]
<1> DEFINE p == PageFor(x)
           q == PlaceFor(x)
           i == SlotFor(x)
           z == x.s % SectorsPerPage
<1>1. p \in 0 .. PagesPerBlock - 1 /\ z \in 0 .. SectorsPerPage - 1 /\ x.s = p * SectorsPerPage + z
  BY SectorSplit DEF Programming, PageFor
<1>2. SectorsPerPage = 4
  BY DEF SectorsPerPage
<1>3. CASE x.op = "spare"
  <2>1. q = [ at |-> SdBlock(x.b, p, SectorsPerPage), part |-> z ] /\ i = SectorsPerPage
    BY <1>3 DEF Place, PlaceFor, SlotFor
  <2> HIDE DEF p, z, q, i
  <2>2. q.at = SdBlock(x.b, p, i) /\ q.part = z
    BY <2>1
  <2>3. SectorOf(p, i, q.part) = x.s /\ PartOf(i, q.part) = x.part
    BY <1>1, <1>3, <2>1, <2>2 DEF SectorOf, PartOf, Programming
  <2> QED BY <1>1, <1>2, <2>1, <2>2, <2>3 DEF p, q, i
<1>4. CASE x.op # "spare"
  <2>0. x.op = "write" /\ x.part \in { "first", "rest" }
    BY <1>4 DEF Programming
  <2>1. q = [ at |-> SdBlock(x.b, p, z), part |-> IF x.part = "first" THEN 0 ELSE 1 ] /\ i = z
    BY <1>4 DEF Place, PlaceFor, SlotFor
  <2> HIDE DEF p, z, q, i
  <2>2. q.at = SdBlock(x.b, p, i) /\ q.part = IF x.part = "first" THEN 0 ELSE 1
    BY <2>1
  <2>3. i # SectorsPerPage
    BY <1>1, <1>2, <2>1
  <2>4. SectorOf(p, i, q.part) = x.s
    BY <1>1, <2>1, <2>3 DEF SectorOf
  <2>5. PartOf(i, q.part) = x.part
    BY <2>0, <2>2, <2>3 DEF PartOf
  <2> QED BY <1>1, <1>2, <2>0, <2>1, <2>2, <2>4, <2>5 DEF p, q, i
<1> QED BY <1>3, <1>4

(* What programming leaves alone, and what it adds.                        *)
LEMMA HeldProgrammed ==
  ASSUME NEW x, Programming(x), dev.block = x.b, dev.page = x.s \div SectorsPerPage,
         mem' = MemWritten(x), \A m \in mem : m.at \in Nat
  PROVE  /\ \A c \in held' : c \in held \/ c = Content(x)
         /\ Content(x) \in held'
         /\ \A c \in held : c.b # x.b \/ c.s # x.s => c \in held'
         /\ \A c \in held : Cell(c) # Cell(x) /\ (~ Sd \/ Preserves(x)) => c \in held'
         /\ \A c \in held : c.part = "spare" /\ x.part # "spare" => c \in held'
<1> DEFINE p == PageFor(x)
           q == PlaceFor(x)
           i == SlotFor(x)
           w == [ at |-> q.at, part |-> q.part, tag |-> x.tag ]
<1>1. /\ p \in 0 .. PagesPerBlock - 1 /\ i \in 0 .. SectorsPerPage
      /\ q.at = SdBlock(x.b, p, i) /\ q.part \in 0 .. SectorsPerPage - 1
      /\ SectorOf(p, i, q.part) = x.s /\ PartOf(i, q.part) = x.part
  BY PlaceIs
<1>0. q = [ at |-> q.at, part |-> q.part ]
  BY PlaceIs
<1>2. mem' = { m \in mem : m.at # q.at \/ (PlaceOf(m) # q /\ (~ Sd \/ Preserves(x))) } \cup { w }
  BY DEF MemWritten, PageFor, PlaceFor
<1>3. x.b \in Nat
  BY BlockIs DEF Programming
<1> HIDE DEF p, q, i
<1>4. w.at = SdBlock(x.b, p, i) /\ w.part = q.part /\ w.tag = x.tag
  BY <1>1
<1> HIDE DEF w
<1>5. Named(w) = Content(x)
  <2>1. Named(w) = [ b |-> x.b, s |-> SectorOf(p, i, w.part), part |-> PartOf(i, w.part), tag |-> w.tag ]
    BY <1>1, <1>3, <1>4, NamedIs
  <2> QED BY <1>1, <1>4, <2>1 DEF Content
<1>6. held' = { Named(m) : m \in mem' }
  BY DEF held, Named
<1>7. ASSUME NEW m \in mem, m \notin mem'
      PROVE  Named(m).b = x.b /\ Named(m).s = x.s /\ (Named(m).part = "spare" <=> x.part = "spare")
             /\ ((~ Sd \/ Preserves(x)) => Named(m).part = x.part)
  <2>1. m.at = q.at /\ ~ (PlaceOf(m) # q /\ (~ Sd \/ Preserves(x)))
    BY <1>2, <1>7
  <2>2. Named(m).b = x.b /\ Named(m).s = SectorOf(p, i, m.part) /\ Named(m).part = PartOf(i, m.part)
    BY <1>1, <1>3, <2>1, NamedIs
  <2>3. CASE x.op = "spare"
    <3>1. Preserves(x)
      BY <2>3 DEF Preserves
    <3>2. PlaceOf(m) = q
      BY <2>1, <3>1
    <3>3. m.part = q.part
      BY <1>0, <3>2 DEF PlaceOf
    <3> QED BY <1>1, <2>2, <3>3
  <2>4. CASE x.op # "spare"
    <3>0. i # SectorsPerPage /\ x.part # "spare"
      <4>1. x.op = "write" /\ x.part # "spare"
        BY <2>4 DEF Programming
      <4>2. i = x.s % SectorsPerPage
        BY <2>4 DEF i, SlotFor
      <4>3. x.s % SectorsPerPage \in 0 .. SectorsPerPage - 1
        BY SectorSplit DEF Programming
      <4> QED BY <4>1, <4>2, <4>3 DEF SectorsPerPage
    <3>1. Named(m).s = x.s /\ Named(m).part # "spare"
      BY <1>1, <2>2, <3>0 DEF SectorOf, PartOf
    <3>2. (~ Sd \/ Preserves(x)) => m.part = q.part
      BY <1>0, <2>1 DEF PlaceOf
    <3> QED BY <1>1, <2>2, <3>0, <3>1, <3>2
  <2> QED BY <2>3, <2>4
<1>8. ASSUME NEW c \in held,
             \/ c.b # x.b \/ c.s # x.s
             \/ Cell(c) # Cell(x) /\ (~ Sd \/ Preserves(x))
             \/ c.part = "spare" /\ x.part # "spare"
      PROVE  c \in held'
  <2>1. PICK m \in mem : c = Named(m)
    BY DEF held
  <2>2. m \in mem'
    <3> SUFFICES ASSUME m \notin mem' PROVE FALSE
      OBVIOUS
    <3>1. c.b = x.b /\ c.s = x.s /\ (c.part = "spare" <=> x.part = "spare")
          /\ ((~ Sd \/ Preserves(x)) => c.part = x.part)
      BY <1>7, <2>1
    <3> QED BY <1>8, <3>1 DEF Cell
  <2> QED BY <1>6, <2>1, <2>2
<1>9. \A c \in held' : c \in held \/ c = Content(x)
  <2> SUFFICES ASSUME NEW c \in held' PROVE c \in held \/ c = Content(x)
    OBVIOUS
  <2>1. PICK m \in mem' : c = Named(m)
    BY <1>6
  <2>2. m \in mem \/ m = w
    BY <1>2
  <2> QED BY <1>5, <2>1, <2>2 DEF held
<1>10. Content(x) \in held'
  BY <1>2, <1>5, <1>6
<1> QED BY <1>8, <1>9, <1>10

\* The places of a block.
LEMMA BlockStarts ==
  ASSUME NEW b \in Nat
  PROVE  /\ SdBlock(b, 0, 0) = b * BlockSize /\ SdBlock(b, 0, 0) \in Nat
         /\ SdBlock(b + 1, 0, 0) = SdBlock(b, 0, 0) + BlockSize /\ BlockSize \in Nat \ {0}
<1>1. 0 \in 0 .. PagesPerBlock - 1 /\ 0 \in 0 .. SectorsPerPage /\ BlockSize \in Nat \ {0}
  BY SizesAre DEF SectorsPerPage
<1>2. ASSUME NEW d \in Nat PROVE SdBlock(d, 0, 0) = d * BlockSize /\ SdBlock(d, 0, 0) \in Nat
  <2>1. SdBlock(d, 0, 0) = d * BlockSize + (5 * 0 + 0) /\ SdBlock(d, 0, 0) \in Nat
    BY <1>1, AddressIs
  <2>2. d * BlockSize \in Nat
    BY <1>1
  <2> QED BY <2>1, <2>2
<1>3. (b + 1) * BlockSize = b * BlockSize + BlockSize /\ b + 1 \in Nat
  BY <1>1
<1> QED BY <1>1, <1>2, <1>3

LEMMA BlockOfPlace ==
  ASSUME NEW b \in Nat, NEW m, m.at \in Nat
  PROVE  m.at \in SdBlock(b, 0, 0) .. SdBlock(b + 1, 0, 0) - 1 <=> Named(m).b = b
<1>1. BlockSize \in Nat \ {0} /\ b * BlockSize \in Nat
  BY SizesAre
<1>2. SdBlock(b, 0, 0) = b * BlockSize /\ SdBlock(b + 1, 0, 0) = b * BlockSize + BlockSize
  BY BlockStarts
<1> DEFINE d == m.at \div BlockSize  r == m.at % BlockSize
<1>3. Named(m).b = d
  BY DEF Named, BlockSize, PageSize
<1>4. d \in Nat /\ r \in 0 .. BlockSize - 1 /\ m.at = d * BlockSize + r
  BY <1>1, Divided
<1> HIDE DEF d, r
<1>5. CASE d = b
  BY <1>1, <1>2, <1>3, <1>4, <1>5
<1>6. CASE d < b
  <2>1. (d + 1) * BlockSize <= b * BlockSize /\ (d + 1) * BlockSize = d * BlockSize + BlockSize
        /\ d * BlockSize \in Nat
    BY <1>1, <1>4, <1>6
  <2>2. m.at < b * BlockSize
    BY <1>1, <1>4, <2>1
  <2> QED BY <1>1, <1>2, <1>3, <1>4, <1>6, <2>2
<1>7. CASE d > b
  <2>1. (b + 1) * BlockSize <= d * BlockSize /\ (b + 1) * BlockSize = b * BlockSize + BlockSize
        /\ d * BlockSize \in Nat
    BY <1>1, <1>4, <1>7
  <2>2. m.at >= b * BlockSize + BlockSize
    BY <1>1, <1>4, <2>1
  <2> QED BY <1>1, <1>2, <1>3, <1>4, <1>7, <2>2
<1> QED BY <1>4, <1>5, <1>6, <1>7

(* An erase takes its block and nothing else; the card's own takes from    *)
(* the next block too.                                                     *)
LEMMA HeldErased ==
  ASSUME NEW b \in Block, backend # "sd_erase", mem' = MemErased(b), \A m \in mem : m.at \in Nat
  PROVE  held' = { c \in held : c.b # b }
<1>1. b \in Nat
  BY BlockIs
<1>2. mem' = { m \in mem : m.at \notin SdBlock(b, 0, 0) .. SdBlock(b + 1, 0, 0) - 1 }
  BY DEF MemErased, ErasedRange
<1>3. held' = { Named(m) : m \in mem' } /\ held = { Named(m) : m \in mem }
  BY DEF held, Named
<1>4. \A m \in mem : m \in mem' <=> Named(m).b # b
  BY <1>1, <1>2, BlockOfPlace
<1>5. mem' \subseteq mem
  BY <1>2
<1> QED BY <1>3, <1>4, <1>5

LEMMA HeldErasedWide ==
  ASSUME NEW b \in Block, mem' = MemErased(b), \A m \in mem : m.at \in Nat
  PROVE  /\ mem' \subseteq mem /\ held' \subseteq held /\ \A c \in held' : c.b # b
         /\ \A c \in held : c.b # b /\ c.b # b + 1 => c \in held'
<1>1. b \in Nat /\ b + 1 \in Nat
  BY BlockIs
<1> DEFINE R == SdBlock(b, 0, 0) .. SdBlock(b + 1, 0, 0) - 1
           N == SdBlock(b + 1, 0, 0) .. SdBlock(b + 1 + 1, 0, 0) - 1
<1>2. mem' = { m \in mem : m.at \notin ErasedRange(b) }
  BY DEF MemErased
<1>3. held' = { Named(m) : m \in mem' } /\ held = { Named(m) : m \in mem }
  BY DEF held, Named
<1>4. R \subseteq ErasedRange(b) /\ ErasedRange(b) \subseteq R \cup N
  <2>1. SdBlock(b, 0, 0) \in Nat /\ SdBlock(b + 1, 0, 0) \in Nat /\ SdBlock(b + 1 + 1, 0, 0) \in Nat
        /\ SdBlock(b + 1, 0, 0) > SdBlock(b, 0, 0) /\ SdBlock(b + 1 + 1, 0, 0) > SdBlock(b + 1, 0, 0)
    <3>1. ASSUME NEW d \in Nat
          PROVE  SdBlock(d, 0, 0) \in Nat /\ SdBlock(d + 1, 0, 0) \in Nat /\ SdBlock(d + 1, 0, 0) > SdBlock(d, 0, 0)
      <4> DEFINE x == SdBlock(d, 0, 0)  y == SdBlock(d + 1, 0, 0)
      <4>1. x \in Nat /\ y = x + BlockSize /\ BlockSize \in Nat \ {0}
        BY BlockStarts
      <4> HIDE DEF x, y
      <4>2. y \in Nat /\ y > x
        BY <4>1
      <4> QED BY <4>1, <4>2 DEF x, y
    <3> QED BY <1>1, <3>1
  <2>2. ErasedRange(b) = SdBlock(b, 0, 0) .. SdBlock(b + 1, 0, 0) \/ ErasedRange(b) = R
    BY DEF ErasedRange
  <2> QED BY <2>1, <2>2
<1>5. \A m \in mem : (m.at \in R <=> Named(m).b = b) /\ (m.at \in N <=> Named(m).b = b + 1)
  BY <1>1, BlockOfPlace
<1> HIDE DEF R, N
<1>6. mem' \subseteq mem /\ \A m \in mem : m \in mem' => Named(m).b # b
  BY <1>2, <1>4, <1>5
<1>7. \A m \in mem : Named(m).b # b /\ Named(m).b # b + 1 => m \in mem'
  BY <1>2, <1>4, <1>5
<1> QED BY <1>3, <1>6, <1>7

(* A failing erase takes something of this block, if it takes anything the *)
(* key too, and nothing else but with the card's own.                      *)
LEMMA HeldHalfErased ==
  ASSUME NEW b \in Block, NEW stop \in EraseStops(b), mem' = MemHalfErased(b, stop), \A m \in mem : m.at \in Nat
  PROVE  /\ mem' \subseteq mem /\ held' \subseteq held
         /\ \A c \in held : c.b # b /\ c.b # b + 1 => c \in held'
         /\ backend # "sd_erase" => \A c \in held : c.b # b => c \in held'
         /\ mem' # mem => ~ Keyed(b)'
<1> DEFINE z == SdBlock(b, 0, 0)  y == SdBlock(b + 1, 0, 0)  w == SdBlock(b + 1 + 1, 0, 0)
<1>1. b \in Nat /\ b + 1 \in Nat
  BY BlockIs
<1>2. z \in Nat /\ y \in Nat /\ w \in Nat /\ y > z /\ w > y
  <2>1. ASSUME NEW d \in Nat
        PROVE  SdBlock(d, 0, 0) \in Nat /\ SdBlock(d + 1, 0, 0) \in Nat /\ SdBlock(d + 1, 0, 0) > SdBlock(d, 0, 0)
    <3> DEFINE u == SdBlock(d, 0, 0)  v == SdBlock(d + 1, 0, 0)
    <3>1. u \in Nat /\ v = u + BlockSize /\ BlockSize \in Nat \ {0}
      BY BlockStarts
    <3> HIDE DEF u, v
    <3>2. v \in Nat /\ v > u
      BY <3>1
    <3> QED BY <3>1, <3>2 DEF u, v
  <2> QED BY <1>1, <2>1
<1>3. mem' = { m \in mem : m.at \notin z .. stop - 1 }
  BY DEF MemHalfErased
<1>4. stop \in Nat /\ z <= stop /\ stop <= y + 1 /\ (backend # "sd_erase" => stop <= y)
  BY <1>2 DEF EraseStops
<1>5. held' = { Named(m) : m \in mem' } /\ held = { Named(m) : m \in mem }
  BY DEF held, Named
<1>6. \A m \in mem : (m.at \in z .. y - 1 <=> Named(m).b = b) /\ (m.at \in y .. w - 1 <=> Named(m).b = b + 1)
  BY <1>1, BlockOfPlace
<1> HIDE DEF z, y, w
<1>7. \A m \in mem : Named(m).b # b /\ Named(m).b # b + 1 => m \in mem'
  BY <1>2, <1>3, <1>4, <1>6
<1>8. ASSUME backend # "sd_erase" PROVE \A m \in mem : Named(m).b # b => m \in mem'
  BY <1>2, <1>3, <1>4, <1>6, <1>8
<1>9. ASSUME mem' # mem, Keyed(b)' PROVE FALSE
  <2> DEFINE c == [ b |-> b, s |-> STAT, part |-> "first", tag |-> "key" ]
  <2>1. c.b = b /\ c.s = 0 /\ c.part = "first" /\ c \in held'
    BY <1>9 DEF Keyed, Holds, STAT
  <2> HIDE DEF c
  <2>2. PICK m \in mem' : c = Named(m)
    BY <1>5, <2>1
  <2>3. m \in mem /\ m.at \in Nat /\ m.at \notin z .. stop - 1
    BY <1>3, <2>2
  <2>4. PICK d \in Nat, q \in 0 .. PagesPerBlock - 1, i \in 0 .. SectorsPerPage : m.at = SdBlock(d, q, i)
    BY <2>3, AddressSplit
  <2>5. Named(m).b = d /\ Named(m).s = SectorOf(q, i, m.part) /\ Named(m).part = PartOf(i, m.part)
    BY <2>4, NamedIs
  <2>6. i # SectorsPerPage
    BY <2>1, <2>2, <2>5 DEF PartOf
  <2>7. q * SectorsPerPage + i = 0 /\ d = b
    BY <2>1, <2>2, <2>5, <2>6 DEF SectorOf
  <2>8. q = 0 /\ i = 0
    <3>1. q \in Nat /\ i \in Nat
      BY SizesAre DEF SectorsPerPage
    <3> QED BY <2>7, <3>1 DEF SectorsPerPage
  <2>9. m.at = z
    BY <2>4, <2>7, <2>8 DEF z
  <2>10. stop # z
    <3> SUFFICES ASSUME stop = z PROVE FALSE
      OBVIOUS
    <3>1. z .. stop - 1 = {}
      BY <1>2
    <3> QED BY <1>3, <1>9, <3>1
  <2> QED BY <1>2, <1>4, <2>3, <2>9, <2>10
<1> QED BY <1>3, <1>5, <1>7, <1>8, <1>9

-----------------------------------------------------------------------------
(* The operations of which a script is made.                               *)

Within(t, G) == IsList(t) /\ \A i \in 1 .. Len(t) : t[i] \in G

LEMMA WithinNone == ASSUME NEW G PROVE Within(<< >>, G)
  BY ListNone DEF Within

LEMMA WithinOne == ASSUME NEW G, NEW y \in G PROVE Within(<< y >>, G)
<1>1. IsList(<< y >>) /\ Len(<< y >>) = 1 /\ << y >>[1] = y
  BY ListOne
<1> QED BY <1>1 DEF Within

LEMMA WithinConcat ==
  ASSUME NEW G, NEW s, NEW t, Within(s, G), Within(t, G)
  PROVE  Within(s \o t, G)
<1> DEFINE u == s \o t
<1>1. IsList(s) /\ IsList(t)
  BY DEF Within
<1>2. Len(s) \in Nat /\ Len(t) \in Nat
  BY <1>1, ListLen
<1>3. /\ IsList(u) /\ Len(u) = Len(s) + Len(t)
      /\ \A i \in 1 .. Len(s) : u[i] = s[i]
      /\ \A i \in 1 .. Len(t) : u[Len(s) + i] = t[i]
  BY <1>1, ListConcat
<1> HIDE DEF u
<1>4. ASSUME NEW i \in 1 .. Len(u) PROVE u[i] \in G
  <2>1. CASE i <= Len(s)
    <3>1. i \in 1 .. Len(s)
      BY <1>2, <1>3, <2>1
    <3> QED BY <1>3, <3>1 DEF Within
  <2>2. CASE i > Len(s)
    <3>1. i - Len(s) \in 1 .. Len(t) /\ Len(s) + (i - Len(s)) = i
      BY <1>2, <1>3, <2>2
    <3>2. u[i] = t[i - Len(s)]
      BY <1>3, <3>1
    <3> QED BY <3>1, <3>2 DEF Within
  <2> QED BY <1>2, <1>3, <2>1, <2>2
<1> QED BY <1>3, <1>4 DEF Within, u

LEMMA WithinFlat ==
  ASSUME NEW G, NEW m \in Nat, NEW g, g = [ i \in 1 .. m |-> g[i] ], \A i \in 1 .. m : Within(g[i], G)
  PROVE  Within(Flat(g), G)
<1>0. DOMAIN g = 1 .. m
  <2> DEFINE h == [ i \in 1 .. m |-> g[i] ]
  <2>1. DOMAIN h = 1 .. m
    OBVIOUS
  <2> HIDE DEF h
  <2>2. g = h
    BY DEF h
  <2> QED BY <2>1, <2>2
<1>1. IsList(g) /\ Len(g) = m
  BY <1>0, ListMade
<1> DEFINE T == { k \in 0 .. m : Within(Cat(g, k), G) }
<1>2. 0 \in T
  BY CatZero, WithinNone
<1>3. ASSUME NEW k \in 0 .. m - 1, k \in T PROVE k + 1 \in T
  <2>1. k \in Nat /\ k + 1 \in 1 .. m /\ k + 1 \in 0 .. m
    OBVIOUS
  <2>2. Cat(g, k + 1) = Cat(g, k) \o g[k + 1]
    BY <2>1, CatStep
  <2>3. Within(Cat(g, k), G) /\ Within(g[k + 1], G)
    BY <1>3, <2>1
  <2>4. Within(Cat(g, k + 1), G)
    BY <2>2, <2>3, WithinConcat
  <2> QED BY <2>1, <2>4
<1>4. 0 .. m \subseteq T
  <2> HIDE DEF T
  <2> QED BY <1>2, <1>3, UpTo
<1> QED BY <1>1, <1>4, FlatIsCat

LEMMA WithinTail ==
  ASSUME NEW G, NEW t, Within(t, G), t # << >>
  PROVE  Within(Tail(t), G) /\ Head(t) \in G
<1>1. IsList(t)
  BY DEF Within
<1>2. /\ IsList(Tail(t)) /\ Len(Tail(t)) = Len(t) - 1 /\ Len(t) \in Nat \ {0}
      /\ \A i \in 1 .. Len(t) - 1 : Tail(t)[i] = t[i + 1]
      /\ Head(t) = t[1]
  BY <1>1, ListTail
<1>3. ASSUME NEW i \in 1 .. Len(Tail(t)) PROVE Tail(t)[i] \in G
  <2>1. i \in 1 .. Len(t) - 1 /\ i + 1 \in 1 .. Len(t)
    BY <1>2
  <2>2. Tail(t)[i] = t[i + 1]
    BY <1>2, <2>1
  <2> QED BY <2>1, <2>2 DEF Within
<1>4. t[1] \in G
  BY <1>2 DEF Within
<1> QED BY <1>2, <1>3, <1>4 DEF Within

LEMMA WithinMore ==
  ASSUME NEW G, NEW H, NEW t, Within(t, G), G \subseteq H
  PROVE  Within(t, H)
  BY DEF Within

LEMMA StatisticsWithin ==
  ASSUME NEW G, NEW b, NEW key, Op("open", b, STAT, "", "") \in G, Op("write", b, STAT, "first", key) \in G
  PROVE  Within(Statistics(b, key), G)
  BY WithinOne, WithinConcat DEF Statistics, Open, Write

LEMMA SectorWithin ==
  ASSUME NEW G, NEW b, NEW s, NEW t, NEW both,
         Op("open", b, s, "", "") \in G, Op("write", b, s, "first", t) \in G,
         both => Op("write", b, s, "rest", t) \in G, Op("spare", b, s, "spare", t) \in G
  PROVE  Within(Sector(b, s, t, both), G)
<1>1. Within(Open(b, s) \o Write(b, s, "first", t), G)
  BY WithinOne, WithinConcat DEF Open, Write
<1>2. Within(IF both THEN Write(b, s, "rest", t) ELSE << >>, G)
  BY WithinOne, WithinNone DEF Write
<1>3. Within(Spare(b, s, t), G)
  BY WithinOne DEF Spare
<1> DEFINE u == Open(b, s) \o Write(b, s, "first", t)
           v == IF both THEN Write(b, s, "rest", t) ELSE << >>
<1> HIDE DEF u, v
<1>4. Within(u \o v, G)
  BY <1>1, <1>2, WithinConcat DEF u, v
<1>5. Within(u \o v \o Spare(b, s, t), G)
  BY <1>3, <1>4, WithinConcat
<1> QED BY <1>5 DEF Sector, u, v

LEMMA FindWithin ==
  ASSUME NEW G, NEW k \in Nat, Op("see", inode0, TAIL, "", "") \in G, Op("see", inode0, INIT, "", "") \in G,
         \A j \in 1 .. k : /\ Op("see", EntryBlock(j), TAIL, "", "") \in G
                           /\ Op("see", EntryBlock(j), EntrySector(j), "", "") \in G,
         k # Newest => Op("see", EntryBlock(k), EntrySector(k) + 1, "", "") \in G
  PROVE  Within(Find(k), G)
<1>1. Within(IterStart, G)
  BY WithinOne, WithinConcat DEF IterStart, See
<1> DEFINE g == [ j \in 1 .. k |-> IterAt(j) \o See(EntryBlock(j), EntrySector(j)) ]
<1>2. ASSUME NEW j \in 1 .. k PROVE Within(g[j], G)
  <2>1. Within(IterAt(j), G)
    BY WithinOne, WithinNone DEF IterAt, See
  <2>2. Within(See(EntryBlock(j), EntrySector(j)), G)
    BY WithinOne DEF See
  <2>3. Within(IterAt(j) \o See(EntryBlock(j), EntrySector(j)), G)
    BY <2>1, <2>2, WithinConcat
  <2> QED BY <2>3
<1>3. g = [ j \in 1 .. k |-> g[j] ]
  OBVIOUS
<1> HIDE DEF g
<1>4. Within(Flat(g), G)
  BY <1>2, <1>3, WithinFlat
<1> DEFINE e == IF k = Newest THEN << >> ELSE See(EntryBlock(k), EntrySector(k) + 1)
<1>5. Within(e, G)
  BY WithinOne, WithinNone DEF See
<1> HIDE DEF e
<1>6. Within(IterStart \o Flat(g), G)
  BY <1>1, <1>4, WithinConcat
<1>7. Within(IterStart \o Flat(g) \o e, G)
  BY <1>5, <1>6, WithinConcat
<1> QED BY <1>7 DEF Find, e, g

LEMMA InvalidatedWithin ==
  ASSUME NEW G, NEW b, NEW key, Op("see", b, INIT, "", "") \in G, Op("see", b, TAIL, "", "") \in G,
         Op("close", None, 0, "", "") \in G, Op("erase", b, 0, "", "") \in G,
         Op("open", b, STAT, "", "") \in G, Op("write", b, STAT, "first", key) \in G
  PROVE  Within(Invalidated(b, key), G)
<1>1. Within(See(b, INIT) \o See(b, TAIL), G)
  BY WithinOne, WithinConcat DEF See
<1>2. Within(See(b, INIT) \o See(b, TAIL) \o Close, G)
  BY <1>1, WithinOne, WithinConcat DEF Close
<1>3. Within(See(b, INIT) \o See(b, TAIL) \o Close \o Erase(b), G)
  BY <1>2, WithinOne, WithinConcat DEF Erase
<1>4. Within(See(b, INIT) \o See(b, TAIL) \o Close \o Erase(b) \o Statistics(b, key), G)
  BY <1>3, StatisticsWithin, WithinConcat
<1> QED BY <1>4 DEF Invalidated

LEMMA RemovalWithin ==
  ASSUME NEW G, NEW f, NEW ch, NEW key, IsList(ch), Within(Find(f), G),
         Op("open", EntryBlock(f), EntrySector(f) + 1, "", "") \in G,
         Op("write", EntryBlock(f), EntrySector(f) + 1, "first", "dead") \in G,
         \A i \in 1 .. Len(ch) : Op("see", ch[i], TAIL, "", "") \in G /\ Within(Invalidated(ch[i], key), G)
  PROVE  Within(Removal(f, ch, key), G)
<1>1. Len(ch) \in Nat
  BY ListLen
<1> DEFINE g == [ i \in 1 .. Len(ch) |-> See(ch[i], TAIL) ]
           h == [ i \in 1 .. Len(ch) |-> Invalidated(ch[i], key) ]
<1>2. (\A i \in 1 .. Len(ch) : Within(g[i], G)) /\ g = [ i \in 1 .. Len(ch) |-> g[i] ]
  BY WithinOne DEF See
<1>3. (\A i \in 1 .. Len(ch) : Within(h[i], G)) /\ h = [ i \in 1 .. Len(ch) |-> h[i] ]
  OBVIOUS
<1> HIDE DEF g, h
<1>4. Within(Flat(g), G) /\ Within(Flat(h), G)
  BY <1>1, <1>2, <1>3, WithinFlat
<1>5. Within(Find(f) \o Flat(g), G)
  BY <1>4, WithinConcat
<1> DEFINE e == EntryBlock(f)  s == EntrySector(f) + 1  u == Find(f) \o Flat(g)
<1> HIDE DEF e, s, u
<1>6. Within(u \o Open(e, s), G)
  BY <1>5, WithinOne, WithinConcat DEF u, e, s, Open
<1>7. Within(u \o Open(e, s) \o Write(e, s, "first", "dead"), G)
  BY <1>6, WithinOne, WithinConcat DEF e, s, Write
<1>8. Within(u \o Open(e, s) \o Write(e, s, "first", "dead") \o Flat(h), G)
  BY <1>4, <1>7, WithinConcat
<1> QED BY <1>8 DEF Removal, e, s, u, g, h

LEMMA WalkedWithin ==
  ASSUME NEW G, NEW b, Op("raw", b, 0, "", "") \in G, Op("probe", b, 0, "", "") \in G,
         \A s \in { STAT, TAIL, LastSector } : Op("see", b, s, "", "") \in G,
         Op("close", None, 0, "", "") \in G
  PROVE  Within(Walked(b), G)
<1>1. /\ Within(Raw(b), G) /\ Within(Probe(b), G) /\ Within(Close, G)
      /\ Within(See(b, STAT), G) /\ Within(See(b, TAIL), G) /\ Within(See(b, LastSector), G)
  BY WithinOne DEF Raw, Probe, See, Close
<1>2. Within(Raw(b) \o See(b, STAT), G)
  BY <1>1, WithinConcat
<1>3. Within(Probe(b) \o See(b, TAIL), G)
  BY <1>1, WithinConcat
<1>4. Within(Probe(b) \o See(b, TAIL) \o Close, G)
  BY <1>1, <1>3, WithinConcat
<1>5. Within(See(b, LastSector) \o Close, G)
  BY <1>1, WithinConcat
<1> DEFINE v == IF Unallocated(b) THEN << >> ELSE See(b, LastSector) \o Close
<1>6. Within(v, G)
  BY <1>5, WithinNone
<1> HIDE DEF v
<1>7. Within(Probe(b) \o See(b, TAIL) \o Close \o v, G)
  BY <1>4, <1>6, WithinConcat
<1> QED BY <1>2, <1>7 DEF Walked, v

LEMMA AppendWithin ==
  ASSUME NEW G, NEW e, NEW b, Op("open", e, TAIL, "", "") \in G, Op("write", e, TAIL, "first", "tail") \in G,
         Op("open", b, INIT, "", "") \in G, Op("write", b, INIT, "first", "inode") \in G,
         Op("spare", b, INIT, "spare", "inode") \in G
  PROVE  Within(Open(e, TAIL) \o Write(e, TAIL, "first", "tail") \o Open(b, INIT) \o InodeHead(b), G)
<1>1. Within(Open(e, TAIL) \o Write(e, TAIL, "first", "tail"), G)
  BY WithinOne, WithinConcat DEF Open, Write
<1>2. Within(Open(e, TAIL) \o Write(e, TAIL, "first", "tail") \o Open(b, INIT), G)
  BY <1>1, WithinOne, WithinConcat DEF Open
<1>3. Within(InodeHead(b), G)
  BY WithinOne, WithinConcat DEF InodeHead, Write, Spare
<1> QED BY <1>2, <1>3, WithinConcat

LEMMA ProbesWithin ==
  ASSUME Bad = {}, NEW G, NEW m \in Nat, \A i \in 1 .. m : Op("probe", First + i - 1, 0, "", "") \in G
  PROVE  Within(Flat([ i \in 1 .. m |-> Probed(First + i - 1) ]), G)
<1> DEFINE g == [ i \in 1 .. m |-> Probed(First + i - 1) ]
<1>1. (\A i \in 1 .. m : Within(g[i], G)) /\ g = [ i \in 1 .. m |-> g[i] ]
  BY WithinOne DEF Probed, Probe
<1> HIDE DEF g
<1>2. Within(Flat(g), G)
  BY <1>1, WithinFlat
<1> QED BY <1>2 DEF g

-----------------------------------------------------------------------------
(* What the table, the files and the running call look like.               *)

Used == Block \ { 0, First }   \* blocks that are handed out

(* The parts of the calls that have parts, as they come to be done.        *)
PlanE      == << "entry" >>
PlanPE     == << "prime", "entry" >>
PlanAE     == << "allocate", "entry" >>
PlanFAE    == << "flush", "allocate", "entry" >>
PlanIFAE   == << "inode", "flush", "allocate", "entry" >>
PlanPIFAE  == << "prime", "inode", "flush", "allocate", "entry" >>
PlanAIFAE  == << "allocate", "inode", "flush", "allocate", "entry" >>
PlanFAIFAE == << "flush", "allocate", "inode", "flush", "allocate", "entry" >>
PlanT      == << "tail" >>
PlanPT     == << "prime", "tail" >>
PlanAT     == << "allocate", "tail" >>
PlanFAT    == << "flush", "allocate", "tail" >>
PlanP      == << "prime" >>
PlanNP     == << "inspect", "prime" >>

EntryPlans  == { PlanE, PlanPE, PlanAE, PlanFAE }
InodePlans  == { PlanIFAE, PlanPIFAE, PlanAIFAE, PlanFAIFAE }
CreatePlans == EntryPlans \cup InodePlans
WritePlans  == { PlanT, PlanPT, PlanAT, PlanFAT }
MountPlans  == { PlanP, PlanNP }
Primes      == { PlanP, PlanPE, PlanPIFAE, PlanPT }
BlockTaken  == { PlanE, PlanPE, PlanIFAE, PlanPIFAE, PlanT, PlanPT }

(* The table has a place for entry k.                                      *)
Grown(k) == Len(ichain) >= ((k - 1) \div EntriesPerBlock) + 1

PlanFit ==
  /\ call = [ for |-> call.for, f |-> call.f, b |-> call.b ]
  /\ plan # << >> =>
       \/ call.for = "create" /\ plan \in CreatePlans /\ call.f = Newest
       \/ call.for = "write" /\ plan \in WritePlans /\ call.f \in DOMAIN files
       \/ call.for = "mount" /\ plan \in MountPlans
  /\ plan \in BlockTaken => call.b \in Used
  /\ plan \in EntryPlans => Grown(Newest + 1)

(* The page operations of every call but a format.                         *)
Request ==
  [ op : { "open", "see", "raw", "probe", "close", "erase", "write", "spare", "push", "lists" },
    b : Block \cup { None }, s : 0 .. LastSector, part : { "", "first", "rest", "spare" },
    tag : { "", "key", "nokey", "inode", "entry", "dead", "tail", "file" } ]

Gentle ==
  { x \in Request :
      /\ x.op \in { "open", "see", "raw", "probe" } => x.b \in Block
      /\ x.op \in { "erase", "push" } => x.b \in Used
      /\ Programs(x) => Programming(x) /\ (x.b = First => x.op = "write" /\ x.s # STAT) }

Calm == { x \in Gentle : x.op # "erase" }

Allowed == IF call.for = "rm" \/ plan \in Primes THEN Gentle ELSE Calm

(* A format, from its last erase.                                          *)
Setup ==
  << Op("open", First, STAT, "", ""), Op("close", None, 0, "", ""), Op("erase", First, 0, "", ""),
     Op("open", First, STAT, "", ""), Op("write", First, STAT, "first", "key"),
     Op("open", First, INIT, "", ""), Op("write", First, INIT, "first", "inode"),
     Op("spare", First, INIT, "spare", "inode0") >>

Clearing(x) == x.op \in { "open", "erase" } /\ x.b \in Block /\ x.s = STAT

FormatFit ==
  todo # << >> =>
    /\ plan = << >>
    /\ \A i \in 1 .. Len(todo) : i > Len(todo) - 8 => todo[i] = Setup[i - (Len(todo) - 8)]
    /\ \A i \in 1 .. Len(todo) : i <= Len(todo) - 8 => Clearing(todo[i])
    /\ whole => /\ Len(todo) > 8
                /\ \/ todo[1].op = "erase" /\ todo[1].b = First
                   \/ todo[1].op = "open" /\ todo[2].op = "erase" /\ todo[2].b = First
    /\ ~ lost /\ Len(todo) <= 3 => Keyed(First)
    /\ Len(todo) <= 5 => ~ IsInode0(First)

ScriptFit == IF call.for = "format" THEN FormatFit ELSE Within(todo, Allowed)

(* The flash as it was formatted: it has a first inode block that a mount  *)
(* finds, unless a write was lost, and has none when no format ended.      *)
Rooted == Keyed(First) /\ IsInode0(First)

TableFit ==
  /\ whole => ichain # << >> /\ ichain[1] = First /\ Grown(Newest)
  /\ whole /\ ~ lost => Rooted
  /\ Rooted => whole
  /\ ~ whole => files = << >> /\ ichain = << >> /\ dirty = 0
  /\ \A b \in Block : IsInode0(b) => b = First
  /\ ichain \in Seq(Block)
  /\ \A f \in DOMAIN files : files[f].chain \in Seq(Used) /\ files[f].chain # << >>
  /\ dirty \in 0 .. Len(files) /\ (dirty # 0 => files[dirty].sector = INIT)

MountFit ==
  /\ inode0 \in { First, None }
  /\ call.for = "mount" => (inode0 # None => whole) /\ (whole /\ ~ lost => inode0 # None)
  /\ state = "mounted" \/ plan # << >> => whole /\ inode0 = First /\ Rooted
  /\ call.for = "format" => state = "reset" /\ plan = << >>

DeviceFit ==
  /\ backend \in Backends /\ state \in { "reset", "mounted" } /\ faults \in 0 .. MaxFaults
  /\ dev.block \in Block \cup { None } /\ dev.erased \in Block \cup { None }
  /\ dev.page \in 0 .. PagesPerBlock - 1
  /\ \A m \in mem : m.at \in 0 .. SdBlock(Blocks, 0, 0) - 1
  /\ available \in Seq(Used) /\ n = Len(available)

SystemInv == MeantInv /\ PlanFit /\ ScriptFit /\ TableFit /\ MountFit /\ DeviceFit

LEMMA PlansAre ==
  /\ PlanE # << >> /\ Head(PlanE) = "entry" /\ Tail(PlanE) = << >>
  /\ PlanPE # << >> /\ Head(PlanPE) = "prime" /\ Tail(PlanPE) = PlanE
  /\ PlanAE # << >> /\ Head(PlanAE) = "allocate" /\ Tail(PlanAE) = PlanE
  /\ PlanFAE # << >> /\ Head(PlanFAE) = "flush" /\ Tail(PlanFAE) = PlanAE
  /\ PlanIFAE # << >> /\ Head(PlanIFAE) = "inode" /\ Tail(PlanIFAE) = PlanFAE
  /\ PlanPIFAE # << >> /\ Head(PlanPIFAE) = "prime" /\ Tail(PlanPIFAE) = PlanIFAE
  /\ PlanAIFAE # << >> /\ Head(PlanAIFAE) = "allocate" /\ Tail(PlanAIFAE) = PlanIFAE
  /\ PlanFAIFAE # << >> /\ Head(PlanFAIFAE) = "flush" /\ Tail(PlanFAIFAE) = PlanAIFAE
  /\ PlanT # << >> /\ Head(PlanT) = "tail" /\ Tail(PlanT) = << >>
  /\ PlanPT # << >> /\ Head(PlanPT) = "prime" /\ Tail(PlanPT) = PlanT
  /\ PlanAT # << >> /\ Head(PlanAT) = "allocate" /\ Tail(PlanAT) = PlanT
  /\ PlanFAT # << >> /\ Head(PlanFAT) = "flush" /\ Tail(PlanFAT) = PlanAT
  /\ PlanP # << >> /\ Head(PlanP) = "prime" /\ Tail(PlanP) = << >>
  /\ PlanNP # << >> /\ Head(PlanNP) = "inspect" /\ Tail(PlanNP) = PlanP
BY DEF PlanE, PlanPE, PlanAE, PlanFAE, PlanIFAE, PlanPIFAE, PlanAIFAE, PlanFAIFAE, PlanT, PlanPT, PlanAT, PlanFAT, PlanP, PlanNP

LEMMA ListSame ==
  ASSUME NEW s, NEW t, IsList(s), IsList(t), Len(s) = Len(t), \A i \in 1 .. Len(s) : s[i] = t[i]
  PROVE  s = t
<1>1. PICK S, T : s \in Seq(S) /\ t \in Seq(T)
  BY DEF IsList
<1>2. Seq(S) \subseteq Seq(S \cup T) /\ Seq(T) \subseteq Seq(S \cup T)
  OBVIOUS
<1> QED BY <1>1, <1>2, SeqEqual

LEMMA SameConcat ==
  ASSUME NEW s, NEW t, NEW u, IsList(s), IsList(t), IsList(u), Len(u) = Len(s) + Len(t),
         \A i \in 1 .. Len(s) : u[i] = s[i], \A i \in 1 .. Len(t) : u[Len(s) + i] = t[i]
  PROVE  s \o t = u
<1> DEFINE v == s \o t
<1>1. IsList(v) /\ Len(v) = Len(u) /\ (\A i \in 1 .. Len(s) : v[i] = s[i])
      /\ (\A i \in 1 .. Len(t) : v[Len(s) + i] = t[i]) /\ Len(s) \in Nat /\ Len(t) \in Nat
  BY ListConcat, ListLen
<1> HIDE DEF v
<1>2. ASSUME NEW i \in 1 .. Len(v) PROVE v[i] = u[i]
  <2>1. i \in 1 .. Len(s) \/ i - Len(s) \in 1 .. Len(t)
    BY <1>1
  <2>2. i - Len(s) \in 1 .. Len(t) => Len(s) + (i - Len(s)) = i
    BY <1>1
  <2> QED BY <1>1, <2>1, <2>2
<1>3. v = u
  BY <1>1, <1>2, ListSame
<1> QED BY <1>3 DEF v

LEMMA PrefixedIs ==
  ASSUME NEW y, NEW t, NEW u, IsList(t), IsList(u), Len(u) = 1 + Len(t), u[1] = y,
         \A i \in 1 .. Len(t) : u[1 + i] = t[i]
  PROVE  << y >> \o t = u
<1> DEFINE s == << y >>
<1>1. IsList(s) /\ Len(s) = 1 /\ s[1] = y
  BY ListOne
<1> HIDE DEF s
<1>2. \A i \in 1 .. Len(s) : u[i] = s[i]
  BY <1>1
<1>3. \A i \in 1 .. Len(t) : u[Len(s) + i] = t[i]
  BY <1>1
<1>4. s \o t = u
  BY <1>1, <1>2, <1>3, SameConcat
<1> QED BY <1>4 DEF s

LEMMA PlansPrimed ==
  /\ << "prime" >> \o PlanE = PlanPE /\ << "prime" >> \o PlanIFAE = PlanPIFAE
  /\ << "prime" >> \o PlanT = PlanPT
  /\ << "flush", "allocate", "inode" >> \o << "flush", "allocate", "entry" >> = PlanFAIFAE
  /\ << >> \o << "flush", "allocate", "entry" >> = PlanFAE
<1> DEFINE S == { "flush", "allocate", "inode", "entry", "prime", "tail" }
<1>1. /\ IsList(PlanE) /\ IsList(PlanPE) /\ IsList(PlanFAE) /\ IsList(PlanIFAE) /\ IsList(PlanPIFAE)
      /\ IsList(PlanFAIFAE) /\ IsList(PlanT) /\ IsList(PlanPT) /\ IsList(<< "prime" >>)
      /\ IsList(<< "flush", "allocate", "inode" >>)
  <2>1. /\ PlanE \in Seq(S) /\ PlanPE \in Seq(S) /\ PlanFAE \in Seq(S) /\ PlanIFAE \in Seq(S)
        /\ PlanPIFAE \in Seq(S) /\ PlanFAIFAE \in Seq(S) /\ PlanT \in Seq(S) /\ PlanPT \in Seq(S)
        /\ << "prime" >> \in Seq(S) /\ << "flush", "allocate", "inode" >> \in Seq(S)
    BY DEF PlanE, PlanPE, PlanFAE, PlanIFAE, PlanPIFAE, PlanFAIFAE, PlanT, PlanPT
  <2> QED BY <2>1 DEF IsList
<1>2. << "prime" >> \o PlanE = PlanPE
  <2>1. Len(PlanPE) = 1 + Len(PlanE) /\ PlanPE[1] = "prime" /\ \A i \in 1 .. Len(PlanE) : PlanPE[1 + i] = PlanE[i]
    BY DEF PlanE, PlanPE
  <2> QED BY <1>1, <2>1, PrefixedIs
<1>3. << "prime" >> \o PlanIFAE = PlanPIFAE
  <2>1. Len(PlanPIFAE) = 1 + Len(PlanIFAE) /\ PlanPIFAE[1] = "prime"
        /\ \A i \in 1 .. Len(PlanIFAE) : PlanPIFAE[1 + i] = PlanIFAE[i]
    BY DEF PlanIFAE, PlanPIFAE
  <2> QED BY <1>1, <2>1, PrefixedIs
<1>4. << "prime" >> \o PlanT = PlanPT
  <2>1. Len(PlanPT) = 1 + Len(PlanT) /\ PlanPT[1] = "prime" /\ \A i \in 1 .. Len(PlanT) : PlanPT[1 + i] = PlanT[i]
    BY DEF PlanT, PlanPT
  <2> QED BY <1>1, <2>1, PrefixedIs
<1>5. << "flush", "allocate", "inode" >> \o PlanFAE = PlanFAIFAE
  <2> DEFINE s == << "flush", "allocate", "inode" >>
  <2>1. Len(PlanFAIFAE) = Len(s) + Len(PlanFAE) /\ (\A i \in 1 .. Len(s) : PlanFAIFAE[i] = s[i])
        /\ \A i \in 1 .. Len(PlanFAE) : PlanFAIFAE[Len(s) + i] = PlanFAE[i]
    BY DEF PlanFAE, PlanFAIFAE
  <2>2. IsList(s)
    BY <1>1
  <2> HIDE DEF s
  <2>3. s \o PlanFAE = PlanFAIFAE
    BY <1>1, <2>1, <2>2, SameConcat
  <2> QED BY <2>3 DEF s
<1>6. << >> \o PlanFAE = PlanFAE
  BY <1>1, NoneConcat
<1> QED BY <1>2, <1>3, <1>4, <1>5, <1>6 DEF PlanFAE

(* What may come next, from the part that is done.                         *)
LEMMA PlanHeads ==
  ASSUME plan # << >>, plan \in CreatePlans \cup WritePlans \cup MountPlans
  PROVE  /\ Head(plan) = "entry" => plan = PlanE
         /\ Head(plan) = "inode" => plan = PlanIFAE
         /\ Head(plan) = "tail" => plan = PlanT
         /\ Head(plan) = "inspect" => plan = PlanNP
         /\ Head(plan) = "prime" => plan \in Primes
         /\ Head(plan) = "allocate" => plan \in { PlanAE, PlanAIFAE, PlanAT }
         /\ Head(plan) = "flush" => plan \in { PlanFAE, PlanFAIFAE, PlanFAT }
BY PlansAre DEF CreatePlans, EntryPlans, InodePlans, WritePlans, MountPlans, Primes

-----------------------------------------------------------------------------
(* The page operations the calls issue.                                    *)

LEMMA BlocksAre ==
  /\ Blocks \in Nat /\ Block = 0 .. Blocks - 1 /\ First \in Block /\ First \in { 0, 1 }
  /\ Used \subseteq Block /\ Block \subseteq Nat /\ None \notin Block
  /\ \A b \in Used : b # First /\ b # 0 /\ b + 1 # First
BY PagesAssumption DEF Used, None

LEMMA OpFields ==
  ASSUME NEW o, NEW b, NEW s, NEW part, NEW tag
  PROVE  /\ Op(o, b, s, part, tag).op = o /\ Op(o, b, s, part, tag).b = b /\ Op(o, b, s, part, tag).s = s
         /\ Op(o, b, s, part, tag).part = part /\ Op(o, b, s, part, tag).tag = tag
BY DEF Op

LEMMA RequestIs ==
  ASSUME NEW b \in Block \cup { None }, NEW s \in 0 .. LastSector,
         NEW o \in { "open", "see", "raw", "probe", "close", "erase", "write", "spare", "push", "lists" },
         NEW part \in { "", "first", "rest", "spare" },
         NEW tag \in { "", "key", "nokey", "inode", "entry", "dead", "tail", "file" }
  PROVE  Op(o, b, s, part, tag) \in Request
BY DEF Op, Request

LEMMA CalmGentle == Calm \subseteq Gentle /\ Calm \subseteq Allowed /\ Allowed \subseteq Gentle
BY DEF Calm, Allowed

LEMMA LooksCalm ==
  ASSUME NEW b \in Block, NEW s \in 0 .. LastSector
  PROVE  /\ Op("open", b, s, "", "") \in Calm /\ Op("see", b, s, "", "") \in Calm
         /\ Op("raw", b, 0, "", "") \in Calm /\ Op("probe", b, 0, "", "") \in Calm
<1>1. 0 \in 0 .. LastSector
  BY LastSectorIs
<1>2. ASSUME NEW o \in { "open", "see", "raw", "probe" }, NEW r \in 0 .. LastSector
      PROVE  Op(o, b, r, "", "") \in Calm
  <2>1. Op(o, b, r, "", "") \in Request
    BY RequestIs
  <2>2. Op(o, b, r, "", "").op = o /\ Op(o, b, r, "", "").b = b
    BY DEF Op
  <2> QED BY <2>1, <2>2 DEF Calm, Gentle, Programs
<1> QED BY <1>1, <1>2

LEMMA OthersCalm ==
  /\ Op("close", None, 0, "", "") \in Calm /\ Op("lists", None, 0, "", "") \in Calm
  /\ \A b \in Used : Op("push", b, 0, "", "") \in Calm /\ Op("erase", b, 0, "", "") \in Gentle
<1>1. 0 \in 0 .. LastSector
  BY LastSectorIs
<1>2. ASSUME NEW o \in { "close", "lists" } PROVE Op(o, None, 0, "", "") \in Calm
  <2>1. Op(o, None, 0, "", "") \in Request
    BY <1>1, RequestIs
  <2>2. Op(o, None, 0, "", "").op = o
    BY DEF Op
  <2> QED BY <2>1, <2>2 DEF Calm, Gentle, Programs
<1>3. ASSUME NEW o \in { "push", "erase" }, NEW b \in Used
      PROVE  Op(o, b, 0, "", "") \in Gentle /\ (o = "push" => Op(o, b, 0, "", "") \in Calm)
  <2>1. Op(o, b, 0, "", "") \in Request
    BY <1>1, RequestIs, BlocksAre
  <2>2. Op(o, b, 0, "", "").op = o /\ Op(o, b, 0, "", "").b = b
    BY DEF Op
  <2> QED BY <2>1, <2>2 DEF Calm, Gentle, Programs
<1> QED BY <1>2, <1>3

LEMMA WritesCalm ==
  ASSUME NEW b \in Block, NEW s \in 0 .. LastSector, b # First \/ s # STAT,
         NEW part \in { "first", "rest" },
         NEW tag \in { "key", "nokey", "inode", "entry", "dead", "tail", "file" }
  PROVE  /\ Op("write", b, s, part, tag) \in Calm
         /\ b # First => Op("spare", b, s, "spare", tag) \in Calm
<1>1. Op("write", b, s, part, tag) \in Request /\ Op("spare", b, s, "spare", tag) \in Request
  BY RequestIs
<1> DEFINE w == Op("write", b, s, part, tag)  r == Op("spare", b, s, "spare", tag)
<1>2. w.op = "write" /\ w.b = b /\ w.s = s /\ w.part = part /\ w.tag = tag
      /\ r.op = "spare" /\ r.b = b /\ r.s = s /\ r.part = "spare" /\ r.tag = tag
  BY OpFields
<1>3. w \in Request /\ r \in Request
  BY <1>1
<1> HIDE DEF w, r
<1>4. w \in Calm
  BY <1>2, <1>3 DEF Calm, Gentle, Programs, Programming
<1>5. b # First => r \in Calm
  BY <1>2, <1>3 DEF Calm, Gentle, Programs, Programming
<1> QED BY <1>4, <1>5 DEF w, r

-----------------------------------------------------------------------------
(* The inode table has an entry for each file and one more.                *)

LEMMA DivStep ==
  ASSUME NEW e \in Nat \ {0}, NEW k \in Nat \ {0}
  PROVE  /\ (k - 1) \div e \in Nat /\ k \div e \in Nat /\ k \div e <= (k - 1) \div e + 1
         /\ k % e # 0 => k \div e = (k - 1) \div e
<1> DEFINE q == k \div e  r == k % e
<1>1. q \in Nat /\ r \in 0 .. e - 1 /\ k = q * e + r
  BY Divided
<1> HIDE DEF q, r
<1>2. CASE r # 0
  <2>1. r - 1 \in 0 .. e - 1 /\ k - 1 = q * e + (r - 1)
    BY <1>1, <1>2
  <2>2. (q * e + (r - 1)) \div e = q
    BY <1>1, <2>1, Quotient
  <2> QED BY <1>1, <2>1, <2>2 DEF q, r
<1>3. CASE r = 0
  <2>1. q # 0 /\ q - 1 \in Nat
    BY <1>1, <1>3
  <2>2. q * e = (q - 1) * e + e /\ e - 1 \in 0 .. e - 1
    BY <1>1, <2>1
  <2>3. k - 1 = (q - 1) * e + (e - 1)
    BY <1>1, <1>3, <2>1, <2>2
  <2>4. ((q - 1) * e + (e - 1)) \div e = q - 1
    BY <2>1, <2>2, Quotient
  <2> QED BY <1>1, <1>3, <2>1, <2>3, <2>4 DEF q, r
<1> QED BY <1>2, <1>3

LEMMA DivMono ==
  ASSUME NEW e \in Nat \ {0}, NEW a \in Nat, NEW b \in Nat, a <= b
  PROVE  a \div e <= b \div e
<1> DEFINE p == a \div e  q == b \div e  r == a % e  s == b % e
<1>1. p \in Nat /\ q \in Nat /\ r \in 0 .. e - 1 /\ s \in 0 .. e - 1 /\ a = p * e + r /\ b = q * e + s
  BY Divided
<1> HIDE DEF p, q, r, s
<1>2. ~ (q < p)
  <2> SUFFICES ASSUME q < p PROVE FALSE
    OBVIOUS
  <2>1. (q + 1) * e <= p * e /\ (q + 1) * e = q * e + e
    BY <1>1
  <2> QED BY <1>1, <2>1
<1> QED BY <1>1, <1>2 DEF p, q

LEMMA EntriesAre ==
  /\ EntriesPerBlock \in Nat \ {0}
  /\ \A k \in Nat \ {0} : EntrySector(k) \in ENTRY .. LastSector - 1 /\ EntrySector(k) + 1 \in ENTRY .. LastSector
<1>1. PagesPerBlock \in Nat /\ PagesPerBlock > 1 /\ LastSector = 4 * PagesPerBlock - 1
  BY PagesAssumption DEF LastSector, SectorsPerPage
<1>2. LastSector - ENTRY + 1 = 2 * (2 * PagesPerBlock - 2)
  BY <1>1 DEF ENTRY
<1>3. EntriesPerBlock = 2 * PagesPerBlock - 2
  BY <1>1, <1>2 DEF EntriesPerBlock
<1>4. ASSUME NEW k \in Nat \ {0} PROVE EntrySector(k) \in ENTRY .. LastSector - 1
  <2>1. (k - 1) % EntriesPerBlock \in 0 .. EntriesPerBlock - 1
    BY <1>1, <1>3
  <2> QED BY <1>1, <1>3, <2>1 DEF EntrySector, ENTRY
<1> QED BY <1>1, <1>3, <1>4 DEF ENTRY

LEMMA GrownMore ==
  ASSUME NEW j \in Nat \ {0}, NEW k \in 1 .. j, Grown(j), ichain \in Seq(Block)
  PROVE  Grown(k) /\ EntryBlock(k) \in Block
<1>1. EntriesPerBlock \in Nat \ {0} /\ k - 1 \in Nat /\ j - 1 \in Nat /\ k - 1 <= j - 1
  BY EntriesAre
<1> DEFINE p == (k - 1) \div EntriesPerBlock  q == (j - 1) \div EntriesPerBlock
<1>2. p <= q /\ p \in Nat /\ q \in Nat
  BY <1>1, DivMono, Divided
<1>3. Len(ichain) >= q + 1 /\ Len(ichain) \in Nat
  BY DEF Grown
<1> HIDE DEF p, q
<1>4. p + 1 \in 1 .. Len(ichain)
  BY <1>2, <1>3
<1>5. ichain[p + 1] \in Block
  BY <1>4
<1> QED BY <1>2, <1>3, <1>5 DEF Grown, EntryBlock, p

LEMMA GrownNext ==
  ASSUME NEW k \in Nat \ {0}, Grown(k), ichain \in Seq(Block)
  PROVE  /\ k % EntriesPerBlock # 0 => Grown(k + 1)
         /\ Len(ichain') = Len(ichain) + 1 => Grown(k + 1)'
<1>1. EntriesPerBlock \in Nat \ {0}
  BY EntriesAre
<1> DEFINE p == (k - 1) \div EntriesPerBlock  q == k \div EntriesPerBlock
<1>2. p \in Nat /\ q \in Nat /\ q <= p + 1 /\ (k % EntriesPerBlock # 0 => q = p)
  BY <1>1, DivStep
<1>3. Len(ichain) >= p + 1 /\ Len(ichain) \in Nat /\ (k + 1) - 1 = k
  BY DEF Grown
<1>4. Grown(k + 1) <=> Len(ichain) >= q + 1
  BY <1>3 DEF Grown
<1>5. Grown(k + 1)' <=> Len(ichain') >= q + 1
  BY <1>3 DEF Grown, EntriesPerBlock
<1> HIDE DEF p, q
<1> QED BY <1>2, <1>3, <1>4, <1>5

-----------------------------------------------------------------------------
(* What stays as it is.                                                    *)

LEMMA TableStays ==
  ASSUME TableFit, mem' = mem, lost => lost', ichain' = ichain, whole' = whole, files' = files, dirty' = dirty
  PROVE  TableFit'
BY DEF TableFit, Rooted, Keyed, IsInode0, Holds, held, Named, Grown, Newest, EntriesPerBlock

LEMMA TableFiles ==
  ASSUME TableFit, FilesFit', mem' = mem, lost => lost', ichain' = ichain, whole' = whole,
         DOMAIN files' = DOMAIN files, Len(files') = Len(files),
         \A f \in DOMAIN files : files'[f].chain \in Seq(Used) /\ files'[f].chain # << >>,
         dirty' \in 0 .. Len(files), dirty' # 0 => files'[dirty'].sector = INIT, ~ whole => dirty' = 0
  PROVE  TableFit'
<1>1. /\ (whole => ichain # << >> /\ ichain[1] = First /\ Grown(Newest))'
      /\ (whole /\ ~ lost => Rooted)' /\ (Rooted => whole)'
      /\ (\A b \in Block : IsInode0(b) => b = First)' /\ (ichain \in Seq(Block))'
  BY DEF TableFit, Rooted, Keyed, IsInode0, Holds, held, Named, Grown, Newest, EntriesPerBlock
<1>2. (~ whole => files = << >> /\ ichain = << >> /\ dirty = 0)'
  <2> SUFFICES ASSUME ~ whole' PROVE files' = << >> /\ ichain' = << >> /\ dirty' = 0
    OBVIOUS
  <2>1. files = << >> /\ ichain = << >>
    BY DEF TableFit
  <2>2. Len(files) = 0
    BY <2>1, ListNone
  <2>3. IsList(files')
    BY DEF FilesFit
  <2>4. files' = << >>
    BY <2>2, <2>3, ListLen
  <2> QED BY <2>1, <2>4
<1>3. (/\ \A f \in DOMAIN files : files[f].chain \in Seq(Used) /\ files[f].chain # << >>
       /\ dirty \in 0 .. Len(files) /\ (dirty # 0 => files[dirty].sector = INIT))'
  BY DEF Used
<1> QED BY <1>1, <1>2, <1>3 DEF TableFit

LEMMA MountHeld ==
  ASSUME MountFit, UNCHANGED << state, inode0, whole >>, lost => lost', Rooted => Rooted',
         call'.for = call.for \/ call'.for \notin { "mount", "format" },
         plan' # << >> => plan # << >> \/ state = "mounted", call.for = "format" => plan' = << >>
  PROVE  MountFit'
BY DEF MountFit, None

LEMMA RootedStays == ASSUME mem' = mem PROVE Rooted' <=> Rooted
BY DEF Rooted, Keyed, IsInode0, Holds, held, Named

LEMMA MountStays ==
  ASSUME MountFit, mem' = mem, UNCHANGED << state, inode0, whole >>, lost => lost',
         call'.for = call.for \/ call'.for \notin { "mount", "format" },
         plan' # << >> => plan # << >> \/ state = "mounted", call.for = "format" => plan' = << >>
  PROVE  MountFit'
BY MountHeld, RootedStays

LEMMA DeviceStays ==
  ASSUME DeviceFit, UNCHANGED << backend, mem, dev, state, faults, available, n >>
  PROVE  DeviceFit'
BY DEF DeviceFit, Used, None, SdBlock

LEMMA ScriptCalm ==
  ASSUME call'.for # "format", Within(todo', Calm)
  PROVE  ScriptFit'
<1>1. Within(todo', Calm) /\ Within(todo', Gentle)
  BY WithinMore, CalmGentle
<1>2. (Allowed = Calm \/ Allowed = Gentle)'
  BY DEF Allowed
<1> QED BY <1>1, <1>2 DEF ScriptFit, Within, Calm, Gentle, Request, Programming, Programs, Used

LEMMA ScriptGentle ==
  ASSUME call'.for # "format", Within(todo', Gentle), call'.for = "rm" \/ plan' \in Primes
  PROVE  ScriptFit'
<1>1. (Allowed = Gentle)'
  BY DEF Allowed, Primes, PlanP, PlanPE, PlanPIFAE, PlanPT
<1> QED BY <1>1 DEF ScriptFit, Within, Gentle, Request, Programming, Programs, Used

-----------------------------------------------------------------------------
(* The parts of calls.                                                     *)

Facts == PlanFit /\ TableFit /\ MountFit /\ DeviceFit /\ FilesFit

LEMMA FilesAre ==
  ASSUME TableFit, FilesFit
  PROVE  /\ IsList(files) /\ Len(files) \in Nat /\ DOMAIN files = 1 .. Len(files) /\ Newest \in Nat \ {0}
         /\ \A f \in DOMAIN files : LastBlock(f) \in Used
         /\ whole => \A k \in 1 .. Newest : EntryBlock(k) \in Block
<1>1. IsList(files) /\ Len(files) \in Nat /\ DOMAIN files = 1 .. Len(files) /\ Newest \in Nat \ {0}
  BY ListLen DEF FilesFit, Newest
<1>2. \A f \in DOMAIN files : LastBlock(f) \in Used
  BY DEF TableFit, LastBlock
<1>3. ASSUME whole, NEW k \in 1 .. Newest PROVE EntryBlock(k) \in Block
  BY <1>1, <1>3, GrownMore DEF TableFit
<1> QED BY <1>1, <1>2, <1>3

(* What the part to be done next is.                                       *)
LEMMA PartIs ==
  ASSUME Facts, NEW part, NextPart(part)
  PROVE  /\ on /\ todo = << >> /\ plan # << >> /\ Head(plan) = part /\ whole /\ inode0 = First /\ Rooted
         /\ plan \in CreatePlans \cup WritePlans \cup MountPlans
         /\ call.for \in { "create", "write", "mount" }
BY DEF Facts, NextPart, PlanFit, MountFit

LEMMA SectorCalm ==
  ASSUME NEW b \in Used, NEW s \in INIT .. LastSector, NEW both \in BOOLEAN
  PROVE  Within(Sector(b, s, "file", both), Calm)
<1>1. s \in 0 .. LastSector /\ b \in Block /\ b # First
  BY BlocksAre, LastSectorIs DEF INIT
<1>2. Op("open", b, s, "", "") \in Calm
  BY <1>1, LooksCalm
<1>3. /\ Op("write", b, s, "first", "file") \in Calm /\ Op("write", b, s, "rest", "file") \in Calm
      /\ Op("spare", b, s, "spare", "file") \in Calm
  BY <1>1, WritesCalm
<1> QED BY <1>2, <1>3, SectorWithin

LEMMA NewestStays ==
  ASSUME Len(files') = Len(files)
  PROVE  /\ Newest' = Newest
         /\ ichain' = ichain => (Grown(Newest + 1) <=> Grown(Newest + 1)') /\ (Grown(Newest) <=> Grown(Newest)')
BY DEF Newest, Grown, EntriesPerBlock

LEMMA FlushFits ==
  ASSUME Facts, FilesFit', Flush
  PROVE  PlanFit' /\ ScriptFit' /\ TableFit' /\ MountFit' /\ DeviceFit'
<1>1. /\ on /\ todo = << >> /\ plan # << >> /\ Head(plan) = "flush" /\ whole
      /\ plan \in { PlanFAE, PlanFAIFAE, PlanFAT } /\ call.for \in { "create", "write", "mount" }
  BY PartIs, PlanHeads DEF Flush
<1>2. plan' = Tail(plan) /\ UNCHANGED << pre, backend, layer, ichain, mounts, call, faults >>
  BY DEF Flush, Goto
<1>3. DOMAIN files' = DOMAIN files /\ Len(files') = Len(files)
      /\ (\A f \in DOMAIN files : files'[f].chain = files[f].chain) /\ dirty' = 0
      /\ Within(todo', Calm)
  <2>1. CASE dirty = 0
    <3>1. files' = files /\ dirty' = dirty /\ todo' = << >>
      BY <2>1 DEF Flush, Goto
    <3> QED BY <2>1, <3>1, WithinNone
  <2>2. CASE dirty # 0
    <3>1. files' = Committed(dirty) /\ dirty' = 0
          /\ todo' = Sector(LastBlock(dirty), files[dirty].sector, "file", FALSE)
      BY <2>2 DEF Flush, Goto
    <3>2. dirty \in DOMAIN files /\ LastBlock(dirty) \in Used
      BY <2>2, FilesAre DEF Facts, TableFit
    <3>3. FileFit(files[dirty]) /\ files[dirty].sector \in INIT .. LastSector
      BY <3>2 DEF Facts, FilesFit, FileFit
    <3> DEFINE r == WithSector(files[dirty], NextSector(files[dirty].sector))
    <3>4. files' = [ files EXCEPT ![dirty] = r ]
      BY <3>1 DEF Committed, WithSector
    <3>5. FileFit(r) /\ r.chain = files[dirty].chain
      <4>1. NextSector(files[dirty].sector) \in INIT .. LastSector
        BY <3>3, NextSectorIs
      <4>2. FileFit(r)
        BY <3>3, <4>1, FileFitWith
      <4>3. r.chain = files[dirty].chain
        BY <3>3, FileWith, FileIs DEF FileFit, File
      <4> QED BY <4>2, <4>3
    <3> HIDE DEF r
    <3>6. DOMAIN files' = DOMAIN files /\ Len(files') = Len(files)
      BY <3>4, <3>5, OneFile DEF Facts
    <3>7. \A f \in DOMAIN files : files'[f].chain = files[f].chain
      BY <3>2, <3>4, <3>5, FilesAre DEF Facts
    <3>8. FALSE \in BOOLEAN
      OBVIOUS
    <3>9. Within(todo', Calm)
      BY <3>1, <3>2, <3>3, <3>8, SectorCalm
    <3> QED BY <3>1, <3>6, <3>7, <3>9
  <2> QED BY <2>1, <2>2
<1>4. PlanFit'
  <2>1. plan' \in { PlanAE, PlanAIFAE, PlanAT }
    BY <1>1, <1>2, PlansAre
  <2>2. plan \in EntryPlans <=> plan' \in EntryPlans
    BY <1>1, <1>2, PlansAre DEF EntryPlans
  <2>3. plan' \notin BlockTaken /\ plan' # << >>
    BY <2>1, PlansAre DEF BlockTaken
  <2>4. CASE call.for = "create"
    <3>1. plan \in CreatePlans /\ call.f = Newest
      BY <1>1, <2>4 DEF Facts, PlanFit
    <3>2. plan' \in CreatePlans
      BY <1>1, <1>2, <3>1, PlansAre DEF CreatePlans, EntryPlans, InodePlans
    <3> QED BY <1>2, <1>3, <2>2, <2>3, <2>4, <3>1, <3>2, NewestStays DEF Facts, PlanFit
  <2>5. CASE call.for = "write"
    <3>1. plan \in WritePlans /\ call.f \in DOMAIN files
      BY <1>1, <2>5 DEF Facts, PlanFit
    <3>2. plan' \in WritePlans /\ plan' \notin EntryPlans
      BY <1>1, <1>2, <3>1, PlansAre DEF WritePlans, EntryPlans
    <3> QED BY <1>2, <1>3, <2>3, <2>5, <3>1, <3>2 DEF Facts, PlanFit
  <2>6. CASE call.for = "mount"
    <3>1. plan \in MountPlans
      BY <1>1, <2>6 DEF Facts, PlanFit
    <3>2. FALSE
      BY <1>1, <3>1, PlansAre DEF MountPlans
    <3> QED BY <3>2
  <2> QED BY <1>1, <2>4, <2>5, <2>6
<1>5. ScriptFit'
  BY <1>1, <1>2, <1>3, ScriptCalm
<1>6. TableFit'
  <2>1. 0 \in 0 .. Len(files)
    BY FilesAre DEF Facts
  <2> QED BY <1>1, <1>2, <1>3, <2>1, TableFiles DEF Facts, TableFit, layer, mounts
<1>7. MountFit'
  BY <1>1, <1>2, MountStays DEF Facts, layer, mounts
<1>8. DeviceFit'
  BY <1>2, DeviceStays DEF Facts, layer, mounts, pre
<1> QED BY <1>4, <1>5, <1>6, <1>7, <1>8

LEMMA CallIs ==
  ASSUME PlanFit, NEW b, call' = [ call EXCEPT !.b = b ]
  PROVE  call' = [ for |-> call'.for, f |-> call'.f, b |-> call'.b ]
         /\ call'.for = call.for /\ call'.f = call.f /\ call'.b = b
BY DEF PlanFit

LEMMA PlanStops ==
  ASSUME plan' = << >>, call' = [ for |-> call'.for, f |-> call'.f, b |-> call'.b ]
  PROVE  PlanFit'
<1>1. << >> \notin BlockTaken /\ << >> \notin EntryPlans
  BY PlansAre DEF BlockTaken, EntryPlans
<1>2. plan' \notin BlockTaken' /\ plan' \notin EntryPlans'
  BY <1>1 DEF BlockTaken, EntryPlans, PlanE, PlanPE, PlanAE, PlanFAE, PlanIFAE, PlanPIFAE, PlanT, PlanPT
<1> QED BY <1>2 DEF PlanFit

LEMMA AllocateFits ==
  ASSUME Facts, FilesFit', Allocate
  PROVE  PlanFit' /\ ScriptFit' /\ TableFit' /\ MountFit' /\ DeviceFit'
<1>1. /\ on /\ todo = << >> /\ plan # << >> /\ Head(plan) = "allocate" /\ whole
      /\ plan \in { PlanAE, PlanAIFAE, PlanAT } /\ call.for \in { "create", "write", "mount" }
  BY PartIs, PlanHeads DEF Allocate
<1>2. todo' = << >> /\ UNCHANGED << backend, layer, fs, mounts, faults >>
  BY DEF Allocate, Goto
<1>3. /\ call' = [ for |-> call'.for, f |-> call'.f, b |-> call'.b ]
      /\ call'.for = call.for /\ call'.f = call.f
  <2>1. CASE IsEmpty
    <3>1. call' = call
      BY <2>1 DEF Allocate
    <3> QED BY <3>1 DEF Facts, PlanFit
  <2>2. CASE ~ IsEmpty
    <3>1. call' = [ call EXCEPT !.b = Head(available) ]
      BY <2>2 DEF Allocate
    <3> QED BY <3>1, CallIs DEF Facts
  <2> QED BY <2>1, <2>2
<1>4. CASE IsEmpty
  <2>1. plan' = << >> /\ UNCHANGED << available, n >>
    BY <1>4 DEF Allocate, Goto, pre
  <2>2. PlanFit'
    BY <1>3, <2>1, PlanStops
  <2>3. DeviceFit'
    BY <1>2, <2>1, DeviceStays DEF Facts, layer, mounts
  <2>4. MountFit'
    BY <1>2, <1>3, <2>1, MountStays DEF Facts, layer, mounts
  <2> QED BY <1>1, <1>2, <1>3, <2>2, <2>3, <2>4, TableStays, ScriptCalm, WithinNone DEF Facts, fs, layer, mounts
<1>5. CASE ~ IsEmpty
  <2>1. Pop /\ call' = [ call EXCEPT !.b = Head(available) ]
        /\ (plan' = << "prime" >> \o Tail(plan) \/ plan' = Tail(plan))
    BY <1>5 DEF Allocate, Goto
  <2>2. available \in Seq(Used) /\ n = Len(available) /\ n # 0
    BY <1>5 DEF Facts, DeviceFit, IsEmpty
  <2>3. available' = Tail(available) /\ n' = n - 1
    BY <2>1 DEF Pop
  <2>4. Head(available) \in Used /\ available' \in Seq(Used) /\ n' = Len(available')
    BY <2>2, <2>3
  <2>5. call'.b \in Used
    BY <2>1, <2>4, CallIs DEF Facts
  <2>6. plan' \in { PlanE, PlanPE, PlanIFAE, PlanPIFAE, PlanT, PlanPT }
        /\ (plan = PlanAE <=> plan' \in { PlanE, PlanPE }) /\ (plan = PlanAT <=> plan' \in { PlanT, PlanPT })
    BY <1>1, <2>1, PlansAre, PlansPrimed
  <2>7. plan' # << >> /\ (plan' \in EntryPlans => plan = PlanAE)
    BY <2>6, PlansAre DEF EntryPlans
  <2>8. PlanFit'
    <3>1. Len(files') = Len(files) /\ DOMAIN files' = DOMAIN files /\ ichain' = ichain
      BY <1>2 DEF fs
    <3>2. Newest' = Newest /\ (plan' \in EntryPlans => Grown(Newest + 1)')
      BY <2>7, <3>1, NewestStays DEF Facts, PlanFit, EntryPlans
    <3>3. call'.b \in Used'
      BY <2>5 DEF Used
    <3>4. CASE plan = PlanAT
      <4>1. call.for = "write" /\ call.f \in DOMAIN files
        BY <3>4, PlansAre DEF Facts, PlanFit, CreatePlans, EntryPlans, InodePlans, MountPlans
      <4>2. plan' \in WritePlans
        BY <2>6, <3>4 DEF WritePlans
      <4> QED BY <1>3, <3>1, <3>2, <3>3, <4>1, <4>2 DEF PlanFit, WritePlans
    <3>5. CASE plan # PlanAT
      <4>1. call.for = "create" /\ call.f = Newest
        BY <1>1, <3>5, PlansAre DEF Facts, PlanFit, WritePlans, MountPlans
      <4>2. plan' \in CreatePlans
        BY <2>6, <3>5 DEF CreatePlans, EntryPlans, InodePlans
      <4> QED BY <1>3, <3>1, <3>2, <3>3, <4>1, <4>2 DEF PlanFit, CreatePlans
    <3> QED BY <3>4, <3>5
  <2>9. DeviceFit'
    BY <1>2, <2>4 DEF Facts, DeviceFit, layer, mounts, Used, None, SdBlock
  <2>10. MountFit'
    BY <1>1, <1>2, <1>3, MountStays DEF Facts, layer, mounts
  <2> QED BY <1>1, <1>2, <1>3, <2>8, <2>9, <2>10, TableStays, ScriptCalm, WithinNone DEF Facts, fs, layer, mounts
<1> QED BY <1>4, <1>5

(* The lists are full, or priming gave up.                                 *)
LEMMA PrimeDone ==
  ASSUME PlanFit, plan \in Primes, plan' = Tail(plan), call' = call, UNCHANGED fs
  PROVE  PlanFit'
<1>1. plan' \in { << >>, PlanE, PlanIFAE, PlanT } /\ (plan = PlanP <=> plan' = << >>)
      /\ (plan = PlanPE <=> plan' = PlanE) /\ (plan = PlanPT <=> plan' = PlanT)
  BY PlansAre DEF Primes
<1>2. call' = [ for |-> call'.for, f |-> call'.f, b |-> call'.b ]
  BY DEF PlanFit
<1>3. CASE plan' = << >>
  BY <1>2, <1>3, PlanStops
<1>4. CASE plan' # << >>
  <2>1. call'.b \in Used'
    BY <1>1, <1>4 DEF PlanFit, Primes, BlockTaken, Used
  <2>2. Len(files') = Len(files) /\ DOMAIN files' = DOMAIN files /\ ichain' = ichain /\ Newest' = Newest
    BY NewestStays DEF fs
  <2>3. plan' \in EntryPlans => Grown(Newest + 1)'
    <3>1. plan' \in EntryPlans => plan' = PlanE
      BY <1>1, <1>4, PlansAre DEF EntryPlans
    <3> QED BY <1>1, <2>2, <3>1, NewestStays DEF PlanFit, EntryPlans
  <2>4. CASE plan = PlanPT
    <3>1. call.for = "write" /\ call.f \in DOMAIN files
      BY <2>4, PlansAre DEF PlanFit, CreatePlans, EntryPlans, InodePlans, MountPlans
    <3>2. plan' \in WritePlans
      BY <1>1, <2>4 DEF WritePlans
    <3> QED BY <1>2, <2>1, <2>2, <2>3, <3>1, <3>2 DEF PlanFit, WritePlans
  <2>5. CASE plan # PlanPT
    <3>0. plan \in { PlanPE, PlanPIFAE }
      BY <1>1, <1>4, <2>5 DEF Primes
    <3>1. call.for = "create" /\ call.f = Newest
      BY <3>0, PlansAre DEF PlanFit, WritePlans, MountPlans
    <3>2. plan' \in CreatePlans
      BY <3>0, PlansAre DEF CreatePlans, EntryPlans, InodePlans
    <3> QED BY <1>2, <2>1, <2>2, <2>3, <3>1, <3>2 DEF PlanFit, CreatePlans
  <2> QED BY <2>4, <2>5
<1> QED BY <1>3, <1>4

LEMMA PrimeEndsFits ==
  ASSUME Facts, FilesFit', PrimeEnds
  PROVE  PlanFit' /\ ScriptFit' /\ TableFit' /\ MountFit' /\ DeviceFit'
<1>1. /\ on /\ todo = << >> /\ plan # << >> /\ Head(plan) = "prime" /\ whole /\ inode0 = First /\ Rooted
      /\ plan \in Primes /\ call.for \in { "create", "write", "mount" }
  BY PartIs, PlanHeads DEF PrimeEnds
<1>2. /\ todo' = << >> /\ plan' = Tail(plan) /\ state' = IF call.for = "mount" THEN "mounted" ELSE state
      /\ UNCHANGED << pre, backend, layer, fs, inode0, whole, on, call, faults >>
  BY DEF PrimeEnds, Goto
<1>3. PlanFit'
  BY <1>1, <1>2, PrimeDone DEF Facts
<1>4. MountFit'
  BY <1>1, <1>2, RootedStays DEF Facts, MountFit, None, layer
<1>5. DeviceFit'
  BY <1>2 DEF Facts, DeviceFit, layer, pre, Used, None, SdBlock
<1> QED BY <1>1, <1>2, <1>3, <1>4, <1>5, TableStays, ScriptCalm, WithinNone DEF Facts, fs, layer

LEMMA DrawWithin ==
  ASSUME NEW b \in Block, b # 0, TableFit, Rooted
  PROVE  /\ ~ Keyed(b) => Within(Probe(b) \o Erase(b) \o Statistics(b, "key") \o Listed(b), Gentle)
         /\ Unallocated(b) => Within(Probe(b) \o Listed(b), Gentle)
         /\ Within(Probe(b), Gentle)
<1>1. Op("probe", b, 0, "", "") \in Gentle /\ Within(Probe(b), Gentle)
  <2>1. 0 \in 0 .. LastSector
    BY LastSectorIs
  <2>2. Op("probe", b, 0, "", "") \in Gentle
    BY <2>1, LooksCalm, CalmGentle
  <2> QED BY <2>2, WithinOne DEF Probe
<1>2. ASSUME b \in Used PROVE Within(Listed(b), Gentle)
  <2>1. Op("push", b, 0, "", "") \in Gentle
    BY <1>2, OthersCalm, CalmGentle
  <2> QED BY <2>1, WithinOne DEF Listed
<1>3. ASSUME ~ Keyed(b) PROVE Within(Probe(b) \o Erase(b) \o Statistics(b, "key") \o Listed(b), Gentle)
  <2>1. b \in Used /\ b # First
    BY <1>3 DEF Rooted, Used
  <2>2. Within(Erase(b), Gentle)
    <3>1. Op("erase", b, 0, "", "") \in Gentle
      BY <2>1, OthersCalm
    <3> QED BY <3>1, WithinOne DEF Erase
  <2>3. Within(Statistics(b, "key"), Gentle)
    <3>1. STAT \in 0 .. LastSector
      BY LastSectorIs DEF STAT
    <3>2. Op("open", b, STAT, "", "") \in Gentle /\ Op("write", b, STAT, "first", "key") \in Gentle
      BY <2>1, <3>1, LooksCalm, WritesCalm, CalmGentle
    <3> QED BY <3>2, StatisticsWithin
  <2>4. Within(Probe(b) \o Erase(b), Gentle)
    BY <1>1, <2>2, WithinConcat
  <2>5. Within(Probe(b) \o Erase(b) \o Statistics(b, "key"), Gentle)
    BY <2>3, <2>4, WithinConcat
  <2> QED BY <1>2, <2>1, <2>5, WithinConcat
<1>4. ASSUME Unallocated(b) PROVE Within(Probe(b) \o Listed(b), Gentle)
  <2>1. b \in Used
    BY <1>4 DEF Rooted, Used, Unallocated, IsInode
  <2> QED BY <1>1, <1>2, <2>1, WithinConcat
<1> QED BY <1>1, <1>3, <1>4

LEMMA DrawFits ==
  ASSUME Bad = {}, Facts, FilesFit', NEW b \in Block, Draw(b)
  PROVE  PlanFit' /\ ScriptFit' /\ TableFit' /\ MountFit' /\ DeviceFit'
<1>1. /\ on /\ todo = << >> /\ plan # << >> /\ Rooted /\ plan \in Primes
      /\ call.for \in { "create", "write", "mount" } /\ NextPart("prime")
  BY PartIs, PlanHeads DEF Draw
<1>2. plan' = plan /\ UNCHANGED << pre, backend, layer, fs, mounts, call, faults >> /\ b # 0
      /\ todo' = (IF ~ Keyed(b)
                    THEN Probe(b) \o Erase(b) \o Statistics(b, "key") \o Listed(b)
                   ELSE IF Unallocated(b) THEN Probe(b) \o Listed(b) ELSE Probe(b))
  BY DEF Draw, Drawn, Goto, Drawable
<1>3. Within(todo', Gentle)
  BY <1>1, <1>2, DrawWithin DEF Facts
<1>4. ScriptFit'
  BY <1>1, <1>2, <1>3, ScriptGentle
<1>5. PlanFit'
  BY <1>2 DEF Facts, PlanFit, fs, Newest, Grown, EntriesPerBlock, Used, CreatePlans, WritePlans, MountPlans,
    EntryPlans, InodePlans, BlockTaken, PlanE, PlanPE, PlanAE, PlanFAE, PlanIFAE, PlanPIFAE, PlanAIFAE,
    PlanFAIFAE, PlanT, PlanPT, PlanAT, PlanFAT, PlanP, PlanNP
<1>6. MountFit'
  BY <1>1, <1>2, MountStays DEF Facts, layer, mounts
<1>7. TableFit' /\ DeviceFit'
  BY <1>2, TableStays, DeviceStays DEF Facts, layer, mounts, fs, pre
<1> QED BY <1>4, <1>5, <1>6, <1>7

LEMMA EntrySectorIs ==
  ASSUME NEW j \in Nat \ {0}
  PROVE  /\ EntrySector(j) \in 0 .. LastSector /\ EntrySector(j) + 1 \in 0 .. LastSector
         /\ EntrySector(j) # STAT /\ EntrySector(j) + 1 # STAT
<1> DEFINE s == EntrySector(j)
<1>1. s \in ENTRY .. LastSector - 1 /\ LastSector \in Nat
  BY EntriesAre, LastSectorIs
<1> HIDE DEF s
<1>2. s \in 0 .. LastSector /\ s + 1 \in 0 .. LastSector /\ s # STAT /\ s + 1 # STAT
  BY <1>1 DEF ENTRY, STAT
<1> QED BY <1>2 DEF s

LEMMA FindCalm ==
  ASSUME TableFit, FilesFit, whole, inode0 = First, NEW k \in 1 .. Newest
  PROVE  Within(Find(k), Calm)
<1>1. Newest \in Nat \ {0} /\ k \in Nat /\ \A j \in 1 .. Newest : EntryBlock(j) \in Block
  BY FilesAre
<1>2. TAIL \in 0 .. LastSector /\ INIT \in 0 .. LastSector /\ inode0 \in Block
  BY LastSectorIs, BlocksAre DEF TAIL, INIT
<1>3. \A j \in 1 .. Newest : EntrySector(j) \in 0 .. LastSector /\ EntrySector(j) + 1 \in 0 .. LastSector
  BY <1>1, EntrySectorIs
<1>4. Op("see", inode0, TAIL, "", "") \in Calm /\ Op("see", inode0, INIT, "", "") \in Calm
  BY <1>2, LooksCalm
<1>5. ASSUME NEW j \in 1 .. k
      PROVE  /\ Op("see", EntryBlock(j), TAIL, "", "") \in Calm
             /\ Op("see", EntryBlock(j), EntrySector(j), "", "") \in Calm
  <2>1. j \in 1 .. Newest
    BY <1>1
  <2> QED BY <1>1, <1>2, <1>3, <2>1, LooksCalm
<1>6. Op("see", EntryBlock(k), EntrySector(k) + 1, "", "") \in Calm
  BY <1>1, <1>3, LooksCalm
<1> QED BY <1>1, <1>4, <1>5, <1>6, FindWithin

LEMMA InspectFits ==
  ASSUME Facts, FilesFit', Inspect
  PROVE  PlanFit' /\ ScriptFit' /\ TableFit' /\ MountFit' /\ DeviceFit'
<1>1. /\ on /\ todo = << >> /\ plan = PlanNP /\ whole /\ inode0 = First
      /\ call.for \in { "create", "write", "mount" }
  BY PartIs, PlanHeads DEF Inspect
<1>2. todo' = Find(Newest) \o ListsAnew /\ plan' = Tail(plan)
      /\ UNCHANGED << pre, backend, layer, fs, mounts, call, faults >>
  BY DEF Inspect, Goto
<1>3. plan' = PlanP /\ call.for = "mount"
  BY <1>1, <1>2, PlansAre DEF Facts, PlanFit, CreatePlans, EntryPlans, InodePlans, WritePlans
<1>4. PlanFit'
  <2>1. plan' # << >> /\ plan' \in MountPlans /\ plan' \notin BlockTaken /\ plan' \notin EntryPlans
    BY <1>3, PlansAre DEF MountPlans, BlockTaken, EntryPlans
  <2> QED BY <1>2, <1>3, <2>1 DEF Facts, PlanFit, MountPlans
<1>5. Within(todo', Calm)
  <2>1. Newest \in 1 .. Newest
    BY FilesAre DEF Facts
  <2>2. Within(Find(Newest), Calm)
    BY <1>1, <2>1, FindCalm DEF Facts
  <2>3. Within(ListsAnew, Calm)
    BY OthersCalm, WithinOne DEF ListsAnew
  <2> QED BY <1>2, <2>2, <2>3, WithinConcat
<1>6. ScriptFit'
  BY <1>1, <1>2, <1>5, ScriptCalm
<1>7. MountFit'
  BY <1>1, <1>2, MountStays DEF Facts, layer, mounts
<1>8. TableFit' /\ DeviceFit'
  BY <1>2, TableStays, DeviceStays DEF Facts, layer, mounts, fs, pre
<1> QED BY <1>4, <1>6, <1>7, <1>8

(* One file changes.                                                       *)
LEMMA WithFields ==
  ASSUME NEW r, FileFit(r), NEW x
  PROVE  /\ WithChain(r, x).chain = x /\ WithChain(r, x).sector = r.sector
         /\ WithChain(r, x).dead = r.dead /\ WithChain(r, x).open = r.open
         /\ WithSector(r, x).chain = r.chain /\ WithSector(r, x).sector = x
         /\ WithSector(r, x).dead = r.dead /\ WithSector(r, x).open = r.open
         /\ WithDead(r, x).chain = r.chain /\ WithDead(r, x).sector = r.sector
         /\ WithDead(r, x).dead = x /\ WithDead(r, x).open = r.open
         /\ WithOpen(r, x).chain = r.chain /\ WithOpen(r, x).sector = r.sector
         /\ WithOpen(r, x).dead = r.dead /\ WithOpen(r, x).open = x
<1>1. PICK c, s, d, o : r = File(c, s, d, o)
  BY FileFitIs
<1> QED BY <1>1, FileWith, FileIs

LEMMA TableOneFile ==
  ASSUME TableFit, FilesFit, whole, mem' = mem, lost' = lost, ichain' = ichain, whole' = whole,
         NEW f \in DOMAIN files, NEW r, FileFit(r), r.chain \in Seq(Used), r.chain # << >>,
         files' = [ files EXCEPT ![f] = r ],
         \/ dirty' = 0
         \/ dirty' = f /\ r.sector = INIT
         \/ dirty' = dirty /\ dirty # f
  PROVE  TableFit' /\ DOMAIN files' = DOMAIN files /\ Len(files') = Len(files)
<1>1. FilesFit' /\ DOMAIN files' = DOMAIN files /\ Len(files') = Len(files)
  BY OneFile
<1>2. Len(files) \in Nat /\ DOMAIN files = 1 .. Len(files)
  BY FilesAre
<1>3. dirty' \in 0 .. Len(files) /\ (dirty' # 0 => files'[dirty'].sector = INIT)
  BY <1>2 DEF TableFit
<1>4. \A g \in DOMAIN files : files'[g].chain \in Seq(Used) /\ files'[g].chain # << >>
  BY DEF TableFit
<1> QED BY <1>1, <1>3, <1>4, TableFiles

LEMMA AppendInodeFits ==
  ASSUME Facts, FilesFit', AppendInode
  PROVE  PlanFit' /\ ScriptFit' /\ TableFit' /\ MountFit' /\ DeviceFit'
<1>1. /\ on /\ todo = << >> /\ plan = PlanIFAE /\ whole /\ inode0 = First /\ Rooted
      /\ call.for \in { "create", "write", "mount" }
  BY PartIs, PlanHeads DEF AppendInode
<1> DEFINE e == EntryBlock(Newest)  b == call.b
<1>2. /\ plan' = Tail(plan) /\ ichain' = Append(ichain, b)
      /\ todo' = Open(e, TAIL) \o Write(e, TAIL, "first", "tail") \o Open(b, INIT) \o InodeHead(b)
      /\ UNCHANGED << pre, backend, layer, files, dirty, mounts, call, faults >>
  BY DEF AppendInode, Goto
<1>3. e \in Block /\ b \in Used /\ b \in Block /\ b # First
  <2>1. e \in Block
    BY <1>1, FilesAre DEF Facts
  <2>2. b \in Used
    BY <1>1 DEF Facts, PlanFit, BlockTaken
  <2> QED BY <2>1, <2>2, BlocksAre
<1> HIDE DEF e, b
<1>4. ichain \in Seq(Block) /\ ichain # << >> /\ ichain[1] = First /\ Grown(Newest)
  BY <1>1 DEF Facts, TableFit
<1>5. /\ ichain' \in Seq(Block) /\ ichain' # << >> /\ ichain'[1] = First /\ Len(ichain') = Len(ichain) + 1
  BY <1>2, <1>3, <1>4
<1>6. Grown(Newest)' /\ Grown(Newest + 1)'
  <2>1. PICK k : k = Newest /\ k \in Nat \ {0}
    BY FilesAre DEF Facts
  <2>2. Newest' = k
    BY <1>2, <2>1 DEF Newest
  <2>3. Grown(k + 1)'
    BY <1>4, <1>5, <2>1, GrownNext
  <2>4. Grown(k)'
    <3>1. Len(ichain) \in Nat /\ Len(ichain) >= ((k - 1) \div EntriesPerBlock) + 1
      BY <1>4, <2>1 DEF Grown
    <3>2. (k - 1) \div EntriesPerBlock \in Nat
      BY <2>1, EntriesAre, Divided
    <3> DEFINE q == (k - 1) \div EntriesPerBlock
    <3>3. Grown(k)' <=> Len(ichain') >= q + 1
      BY DEF Grown, EntriesPerBlock
    <3> HIDE DEF q
    <3>4. q \in Nat /\ Len(ichain) >= q + 1
      BY <3>1, <3>2 DEF q
    <3> QED BY <1>5, <3>1, <3>3, <3>4
  <2> QED BY <2>2, <2>3, <2>4 DEF Grown, EntriesPerBlock
<1>7. PlanFit'
  <2>1. plan' = PlanFAE
    BY <1>1, <1>2, PlansAre
  <2>2. call.for = "create" /\ call.f = Newest
    BY <1>1, PlansAre DEF Facts, PlanFit, WritePlans, MountPlans
  <2>3. plan' # << >> /\ plan' \in CreatePlans /\ plan' \notin BlockTaken
    BY <2>1, PlansAre DEF CreatePlans, EntryPlans, BlockTaken
  <2>4. Newest' = Newest
    BY <1>2 DEF Newest
  <2> QED BY <1>2, <1>6, <2>2, <2>3, <2>4 DEF Facts, PlanFit, BlockTaken, CreatePlans
<1>8. ScriptFit'
  <2>1. TAIL \in 0 .. LastSector /\ INIT \in 0 .. LastSector /\ TAIL # STAT /\ INIT # STAT
    BY LastSectorIs DEF TAIL, INIT, STAT
  <2>2. Op("open", e, TAIL, "", "") \in Calm /\ Op("open", b, INIT, "", "") \in Calm
    BY <1>3, <2>1, LooksCalm
  <2>3. /\ Op("write", e, TAIL, "first", "tail") \in Calm
        /\ Op("write", b, INIT, "first", "inode") \in Calm /\ Op("spare", b, INIT, "spare", "inode") \in Calm
    BY <1>3, <2>1, WritesCalm
  <2>4. Within(todo', Calm)
    BY <1>2, <2>2, <2>3, AppendWithin
  <2> QED BY <1>1, <1>2, <2>4, ScriptCalm
<1>9. TableFit'
  <2>1. (whole /\ Rooted /\ \A c \in Block : IsInode0(c) => c = First)'
    BY <1>1, <1>2 DEF Facts, TableFit, Rooted, Keyed, IsInode0, Holds, held, Named, layer, mounts
  <2> QED BY <1>1, <1>2, <1>5, <1>6, <2>1 DEF Facts, TableFit, mounts, Used
<1>10. MountFit' /\ DeviceFit'
  BY <1>1, <1>2, MountStays, DeviceStays DEF Facts, layer, mounts, pre
<1> QED BY <1>7, <1>8, <1>9, <1>10

LEMMA WriteEntryFits ==
  ASSUME Facts, FilesFit', WriteEntry
  PROVE  PlanFit' /\ ScriptFit' /\ TableFit' /\ MountFit' /\ DeviceFit'
<1>1. /\ on /\ todo = << >> /\ plan = PlanE /\ whole /\ inode0 = First /\ Rooted
      /\ call.for \in { "create", "write", "mount" }
  BY PartIs, PlanHeads DEF WriteEntry
<1> DEFINE e == EntryBlock(Newest)  s == EntrySector(Newest)
           r == [ chain |-> << call.b >>, sector |-> INIT, dead |-> FALSE, open |-> TRUE ]
<1>2. /\ plan' = Tail(plan) /\ files' = Append(files, r) /\ dirty' = call.f
      /\ todo' = Open(e, s) \o Write(e, s, "first", "entry")
      /\ UNCHANGED << pre, backend, layer, ichain, mounts, call, faults >>
  BY DEF WriteEntry, Goto
<1>3. e \in Block /\ s \in 0 .. LastSector /\ s # STAT
  BY <1>1, FilesAre, EntrySectorIs DEF Facts
<1>4. call.b \in Used /\ call.f = Newest /\ Grown(Newest + 1)
  BY <1>1, PlansAre DEF Facts, PlanFit, BlockTaken, EntryPlans, WritePlans, MountPlans
<1>5. r.chain = << call.b >> /\ r.sector = INIT
  OBVIOUS
<1> HIDE DEF r, e, s
<1>6. IsList(files) /\ Len(files) \in Nat /\ DOMAIN files = 1 .. Len(files)
  BY FilesAre DEF Facts
<1>7. /\ Len(files') = Len(files) + 1 /\ DOMAIN files' = 1 .. Len(files) + 1
      /\ (\A i \in 1 .. Len(files) : files'[i] = files[i]) /\ files'[Len(files) + 1] = r
  <2>1. IsList(files') /\ Len(files') = Len(files) + 1
        /\ (\A i \in 1 .. Len(files) : files'[i] = files[i]) /\ files'[Len(files) + 1] = r
    BY <1>2, <1>6, ListAppend
  <2> QED BY <2>1, ListLen
<1>8. PlanFit'
  <2>1. plan' = << >>
    BY <1>1, <1>2, PlansAre
  <2> QED BY <1>2, <2>1, PlanStops DEF Facts, PlanFit
<1>9. ScriptFit'
  <2>1. Op("open", e, s, "", "") \in Calm /\ Op("write", e, s, "first", "entry") \in Calm
    BY <1>3, LooksCalm, WritesCalm
  <2>2. Within(Open(e, s), Calm) /\ Within(Write(e, s, "first", "entry"), Calm)
    BY <2>1, WithinOne DEF Open, Write
  <2>3. Within(todo', Calm)
    BY <1>2, <2>2, WithinConcat
  <2> QED BY <1>1, <1>2, <2>3, ScriptCalm
<1>10. TableFit'
  <2>1. (/\ whole /\ Rooted /\ (\A c \in Block : IsInode0(c) => c = First)
         /\ ichain # << >> /\ ichain[1] = First /\ ichain \in Seq(Block) /\ whole)'
    BY <1>1, <1>2 DEF Facts, TableFit, Rooted, Keyed, IsInode0, Holds, held, Named, layer, mounts
  <2>2. Grown(Newest)'
    <3>1. Newest' = Newest + 1
      BY <1>6, <1>7 DEF Newest
    <3> QED BY <1>2, <1>4, <3>1 DEF Grown, EntriesPerBlock
  <2>3. ASSUME NEW f \in DOMAIN files' PROVE files'[f].chain \in Seq(Used) /\ files'[f].chain # << >>
    <3>1. CASE f \in 1 .. Len(files)
      BY <1>6, <1>7, <3>1 DEF Facts, TableFit
    <3>2. CASE f = Len(files) + 1
      <4>1. << call.b >> \in Seq(Used) /\ << call.b >> # << >>
        BY <1>4
      <4> QED BY <1>5, <1>7, <3>2, <4>1
    <3> QED BY <1>6, <1>7, <3>1, <3>2
  <2>4. dirty' \in 0 .. Len(files') /\ files'[dirty'].sector = INIT
    BY <1>2, <1>4, <1>5, <1>6, <1>7 DEF Newest
  <2> QED BY <2>1, <2>2, <2>3, <2>4 DEF TableFit, Used
<1>11. MountFit' /\ DeviceFit'
  BY <1>1, <1>2, MountStays, DeviceStays DEF Facts, layer, mounts, pre
<1> QED BY <1>8, <1>9, <1>10, <1>11

LEMMA LinkTailFits ==
  ASSUME Facts, FilesFit', LinkTail
  PROVE  PlanFit' /\ ScriptFit' /\ TableFit' /\ MountFit' /\ DeviceFit'
<1>1. /\ on /\ todo = << >> /\ plan = PlanT /\ whole /\ inode0 = First
      /\ call.for \in { "create", "write", "mount" }
  BY PartIs, PlanHeads DEF LinkTail
<1> DEFINE f == call.f
           c == Append(files[f].chain, call.b)
           r == WithSector(WithChain(files[f], c), INIT)
<1>2. /\ plan' = Tail(plan) /\ files' = [ files EXCEPT ![f] = r ] /\ dirty' = f
      /\ todo' = Sector(LastBlock(f), TAIL, "file", TRUE)
      /\ UNCHANGED << pre, backend, layer, ichain, mounts, call, faults >>
  BY DEF LinkTail, Goto, WithSector, WithChain
<1>3. call.b \in Used /\ f \in DOMAIN files
  BY <1>1, PlansAre DEF Facts, PlanFit, BlockTaken, CreatePlans, EntryPlans, InodePlans, MountPlans
<1>4. FileFit(files[f]) /\ files[f].chain \in Seq(Used)
  BY <1>3 DEF Facts, TableFit, FilesFit
<1>5. c \in Seq(Used) /\ c # << >> /\ IsList(c)
  BY <1>3, <1>4 DEF IsList
<1> HIDE DEF c
<1>6. FileFit(r) /\ r.chain = c /\ r.sector = INIT
  <2> DEFINE q == WithChain(files[f], c)
  <2>1. FileFit(q) /\ q.chain = c
    BY <1>4, <1>5, FileFitWith, WithFields
  <2>2. INIT \in INIT .. LastSector
    BY LastSectorIs DEF INIT
  <2> HIDE DEF q
  <2>3. FileFit(WithSector(q, INIT))
    BY <2>1, <2>2, FileFitWith
  <2>4. WithSector(q, INIT).chain = c /\ WithSector(q, INIT).sector = INIT
    BY <2>1, WithFields
  <2> QED BY <2>3, <2>4 DEF q
<1> HIDE DEF r, f
<1>7. TableFit'
  <2>1. TableFit /\ FilesFit /\ whole /\ mem' = mem /\ lost' = lost /\ ichain' = ichain /\ whole' = whole
    BY <1>1, <1>2 DEF Facts, layer, mounts
  <2>2. /\ f \in DOMAIN files /\ FileFit(r) /\ r.chain \in Seq(Used) /\ r.chain # << >>
        /\ files' = [ files EXCEPT ![f] = r ] /\ dirty' = f /\ r.sector = INIT
    BY <1>2, <1>3, <1>5, <1>6
  <2> QED BY <2>1, <2>2, TableOneFile
<1>8. PlanFit'
  <2>1. plan' = << >>
    BY <1>1, <1>2, PlansAre
  <2> QED BY <1>2, <2>1, PlanStops DEF Facts, PlanFit
<1>9. ScriptFit'
  <2>1. TRUE \in BOOLEAN /\ TAIL \in INIT .. LastSector
    BY LastSectorIs DEF TAIL, INIT
  <2>2. LastBlock(f) \in Used
    BY <1>3, FilesAre DEF Facts
  <2>3. Within(todo', Calm)
    BY <1>2, <2>1, <2>2, SectorCalm
  <2> QED BY <1>1, <1>2, <2>3, ScriptCalm
<1>10. MountFit' /\ DeviceFit'
  BY <1>1, <1>2, MountStays, DeviceStays DEF Facts, layer, mounts, pre
<1> QED BY <1>7, <1>8, <1>9, <1>10

-----------------------------------------------------------------------------
(* The calls on a mounted file system.                                     *)

LEMMA BeginIs ==
  ASSUME Facts, Idle, NEW for, for \notin { "mount", "format" }, NEW f, NEW p, NEW t, Begin(for, f, p, t)
  PROVE  /\ on /\ whole /\ inode0 = First /\ todo = << >> /\ plan = << >> /\ plan' = p /\ todo' = t
         /\ call' = [ for |-> call'.for, f |-> call'.f, b |-> call'.b ]
         /\ call'.for = for /\ call'.f = f /\ call'.b = None
         /\ mem' = mem /\ lost' = lost /\ whole' = whole /\ inode0' = inode0 /\ MountFit' /\ DeviceFit'
<1>1. /\ on /\ whole /\ inode0 = First /\ todo = << >> /\ plan = << >> /\ state = "mounted" /\ Rooted
  BY DEF Facts, Idle, MountFit
<1>2. /\ plan' = p /\ todo' = t /\ call' = [ for |-> for, f |-> f, b |-> None ]
      /\ UNCHANGED << pre, backend, layer, mounts, faults >>
  BY DEF Begin, Goto
<1>3. MountFit'
  BY <1>1, <1>2, RootedStays DEF Facts, MountFit, layer, mounts, None
<1>4. DeviceFit'
  BY <1>2, DeviceStays DEF Facts, layer, mounts, pre
<1> QED BY <1>1, <1>2, <1>3, <1>4 DEF layer, mounts

LEMMA CreateFits ==
  ASSUME Facts, FilesFit', Create
  PROVE  PlanFit' /\ ScriptFit' /\ TableFit' /\ MountFit' /\ DeviceFit'
<1> DEFINE p == (IF NeedsBlock THEN << "flush", "allocate", "inode" >> ELSE << >>)
                  \o << "flush", "allocate", "entry" >>
<1>1. Idle /\ Begin("create", Newest, p, Find(Newest)) /\ UNCHANGED fs
  BY DEF Create
<1>2. p = IF NeedsBlock THEN PlanFAIFAE ELSE PlanFAE
  BY PlansPrimed
<1> HIDE DEF p
<1>3. /\ whole /\ inode0 = First /\ plan' = p /\ todo' = Find(Newest)
      /\ call' = [ for |-> call'.for, f |-> call'.f, b |-> call'.b ]
      /\ call'.for = "create" /\ call'.f = Newest
      /\ mem' = mem /\ lost' = lost /\ whole' = whole /\ MountFit' /\ DeviceFit'
  BY <1>1, BeginIs
<1>4. Newest \in Nat \ {0} /\ Newest \in 1 .. Newest /\ Newest' = Newest /\ ichain' = ichain
  BY <1>1, FilesAre DEF Facts, fs, Newest
<1>5. PlanFit'
  <2>1. plan' \in { PlanFAIFAE, PlanFAE } /\ (plan' = PlanFAE => ~ NeedsBlock)
    BY <1>2, <1>3, PlansAre
  <2>2. plan' # << >> /\ plan' \in CreatePlans /\ plan' \notin BlockTaken
        /\ (plan' \in EntryPlans => plan' = PlanFAE)
    BY <2>1, PlansAre DEF CreatePlans, EntryPlans, InodePlans, BlockTaken
  <2>3. ~ NeedsBlock => Grown(Newest + 1)
    <3>1. Grown(Newest) /\ ichain \in Seq(Block)
      BY <1>3 DEF Facts, TableFit
    <3> QED BY <1>4, <3>1, GrownNext DEF NeedsBlock
  <2>4. plan' \in EntryPlans => Grown(Newest + 1)'
    BY <1>4, <2>1, <2>2, <2>3 DEF Grown, EntriesPerBlock
  <2> QED BY <1>3, <1>4, <2>2, <2>4 DEF PlanFit, CreatePlans, BlockTaken, EntryPlans
<1>6. ScriptFit'
  <2>1. Within(todo', Calm)
    BY <1>3, <1>4, FindCalm DEF Facts
  <2> QED BY <1>3, <2>1, ScriptCalm
<1>7. TableFit'
  BY <1>1, <1>3, TableStays DEF Facts, fs
<1> QED BY <1>3, <1>5, <1>6, <1>7

LEMMA CommitFits ==
  ASSUME Facts, FilesFit', NEW f \in DOMAIN files, Commit(f)
  PROVE  PlanFit' /\ ScriptFit' /\ TableFit' /\ MountFit' /\ DeviceFit'
<1> DEFINE ss == Fill(files[f].sector)
           g == [ i \in DOMAIN ss |-> Sector(LastBlock(f), ss[i], "file", TRUE) ]
           r == WithSector(files[f], NextSector(ss[Len(ss)]))
<1>1. /\ Idle /\ Begin("write", f, << >>, Flat(g)) /\ files' = [ files EXCEPT ![f] = r ]
      /\ dirty' = (IF dirty = f THEN 0 ELSE dirty) /\ ichain' = ichain
  BY DEF Commit, WithSector
<1>2. /\ FileFit(files[f]) /\ files[f].chain \in Seq(Used) /\ files[f].chain # << >>
      /\ files[f].sector \in INIT .. LastSector
  BY DEF Facts, FilesFit, TableFit, FileFit
<1>3. IsList(ss) /\ Len(ss) \in Nat \ {0} /\ \A i \in 1 .. Len(ss) : ss[i] \in INIT .. LastSector
  BY <1>2, FillIs
<1>4. DOMAIN ss = 1 .. Len(ss)
  BY <1>3, ListLen
<1> HIDE DEF ss
<1>5. Within(Flat(g), Calm)
  <2>1. LastBlock(f) \in Used /\ TRUE \in BOOLEAN
    BY FilesAre DEF Facts
  <2>2. \A i \in 1 .. Len(ss) : Within(Sector(LastBlock(f), ss[i], "file", TRUE), Calm)
    BY <1>3, <2>1, SectorCalm
  <2>3. g = [ i \in 1 .. Len(ss) |-> g[i] ] /\ \A i \in 1 .. Len(ss) : Within(g[i], Calm)
    BY <1>4, <2>2
  <2> HIDE DEF g
  <2> QED BY <1>3, <2>3, WithinFlat
<1> HIDE DEF g
<1>6. FileFit(r) /\ r.chain = files[f].chain
  <2> DEFINE t == NextSector(ss[Len(ss)])
  <2>1. t \in INIT .. LastSector
    BY <1>3, NextSectorIs
  <2>2. r = WithSector(files[f], t)
    OBVIOUS
  <2> HIDE DEF t, r
  <2>3. FileFit(WithSector(files[f], t)) /\ WithSector(files[f], t).chain = files[f].chain
    BY <1>2, <2>1, FileFitWith, WithFields
  <2> QED BY <2>2, <2>3
<1> HIDE DEF r
<1>7. /\ whole /\ plan' = << >> /\ todo' = Flat(g)
      /\ call' = [ for |-> call'.for, f |-> call'.f, b |-> call'.b ]
      /\ call'.for = "write" /\ mem' = mem /\ lost' = lost /\ whole' = whole /\ MountFit' /\ DeviceFit'
  BY <1>1, BeginIs
<1>8. TableFit'
  <2>1. TableFit /\ FilesFit /\ r.chain \in Seq(Used) /\ r.chain # << >>
        /\ (dirty' = 0 \/ (dirty' = dirty /\ dirty # f))
    BY <1>1, <1>2, <1>6 DEF Facts
  <2> QED BY <1>1, <1>6, <1>7, <2>1, TableOneFile
<1> QED BY <1>5, <1>7, <1>8, PlanStops, ScriptCalm

LEMMA CommitTailFits ==
  ASSUME Facts, FilesFit', NEW f \in DOMAIN files, CommitTail(f)
  PROVE  PlanFit' /\ ScriptFit' /\ TableFit' /\ MountFit' /\ DeviceFit'
<1>1. Idle /\ Begin("write", f, PlanFAT, << >>) /\ UNCHANGED fs
  BY DEF CommitTail, PlanFAT
<1>2. /\ plan' = PlanFAT /\ todo' = << >>
      /\ call' = [ for |-> call'.for, f |-> call'.f, b |-> call'.b ]
      /\ call'.for = "write" /\ call'.f = f
      /\ mem' = mem /\ lost' = lost /\ whole' = whole /\ MountFit' /\ DeviceFit'
  BY <1>1, BeginIs
<1>3. PlanFit'
  <2>1. plan' # << >> /\ plan' \in WritePlans /\ plan' \notin BlockTaken /\ plan' \notin EntryPlans
    BY <1>2, PlansAre DEF WritePlans, BlockTaken, EntryPlans
  <2> QED BY <1>1, <1>2, <2>1 DEF PlanFit, WritePlans, fs
<1> QED BY <1>1, <1>2, <1>3, ScriptCalm, WithinNone, TableStays DEF Facts, fs

LEMMA RemoveFits ==
  ASSUME Facts, FilesFit', NEW f \in DOMAIN files, Remove(f)
  PROVE  PlanFit' /\ ScriptFit' /\ TableFit' /\ MountFit' /\ DeviceFit'
<1> DEFINE ch == files[f].chain
           r  == WithOpen(WithDead(files[f], TRUE), FALSE)
<1>1. PICK key \in { "key", "nokey" } : Begin("rm", f, << >>, Removal(f, ch, key))
  BY DEF Remove, Removal
<1>2. Idle /\ files' = [ files EXCEPT ![f] = r ] /\ dirty' = (IF dirty = f THEN 0 ELSE dirty) /\ ichain' = ichain
  BY DEF Remove, WithOpen, WithDead
<1>3. FileFit(files[f]) /\ ch \in Seq(Used) /\ ch # << >> /\ IsList(ch)
  BY DEF Facts, FilesFit, TableFit, FileFit
<1> HIDE DEF ch
<1>4. FileFit(r) /\ r.chain = ch
  <2> DEFINE q == WithDead(files[f], TRUE)
  <2>1. FileFit(q) /\ q.chain = ch
    BY <1>3, FileFitWith, WithFields DEF ch
  <2> HIDE DEF q
  <2>2. FileFit(WithOpen(q, FALSE)) /\ WithOpen(q, FALSE).chain = q.chain
    BY <2>1, FileFitWith, WithFields
  <2> QED BY <2>1, <2>2 DEF q
<1> HIDE DEF r
<1>5. /\ whole /\ inode0 = First /\ plan' = << >> /\ todo' = Removal(f, ch, key)
      /\ call' = [ for |-> call'.for, f |-> call'.f, b |-> call'.b ]
      /\ call'.for = "rm" /\ mem' = mem /\ lost' = lost /\ whole' = whole /\ MountFit' /\ DeviceFit'
  BY <1>1, <1>2, BeginIs
<1>6. TableFit'
  <2>1. TableFit /\ FilesFit /\ r.chain \in Seq(Used) /\ r.chain # << >>
        /\ (dirty' = 0 \/ (dirty' = dirty /\ dirty # f))
    BY <1>2, <1>3, <1>4 DEF Facts
  <2> QED BY <1>2, <1>4, <1>5, <2>1, TableOneFile
<1>7. Within(todo', Gentle)
  <2>1. f \in 1 .. Newest /\ f \in Nat \ {0} /\ EntryBlock(f) \in Block
    <3>1. Len(files) \in Nat /\ DOMAIN files = 1 .. Len(files) /\ \A k \in 1 .. Newest : EntryBlock(k) \in Block
      BY <1>5, FilesAre DEF Facts
    <3>2. f \in 1 .. Newest /\ f \in Nat \ {0}
      BY <3>1 DEF Newest
    <3> QED BY <3>1, <3>2
  <2>2. Within(Find(f), Gentle)
    BY <1>5, <2>1, FindCalm, WithinMore, CalmGentle DEF Facts
  <2> DEFINE e == EntryBlock(f)  s == EntrySector(f) + 1
  <2>3. Op("open", e, s, "", "") \in Gentle /\ Op("write", e, s, "first", "dead") \in Gentle
    <3>1. e \in Block /\ s \in 0 .. LastSector /\ s # STAT
      BY <2>1, EntrySectorIs
    <3> HIDE DEF e, s
    <3> QED BY <3>1, LooksCalm, WritesCalm, CalmGentle
  <2>4. ASSUME NEW i \in 1 .. Len(ch)
        PROVE  Op("see", ch[i], TAIL, "", "") \in Gentle /\ Within(Invalidated(ch[i], key), Gentle)
    <3> DEFINE b == ch[i]
    <3>1. b \in Used /\ b \in Block /\ b # First
      <4>1. ch[i] \in Used
        BY <1>3
      <4> QED BY <4>1, BlocksAre
    <3> HIDE DEF b
    <3>2. TAIL \in 0 .. LastSector /\ INIT \in 0 .. LastSector /\ STAT \in 0 .. LastSector
      BY LastSectorIs DEF TAIL, INIT, STAT
    <3>3. /\ Op("see", b, INIT, "", "") \in Gentle /\ Op("see", b, TAIL, "", "") \in Gentle
          /\ Op("close", None, 0, "", "") \in Gentle /\ Op("erase", b, 0, "", "") \in Gentle
          /\ Op("open", b, STAT, "", "") \in Gentle
      BY <3>1, <3>2, LooksCalm, OthersCalm, CalmGentle
    <3>4. Op("write", b, STAT, "first", key) \in Gentle
      BY <3>1, <3>2, WritesCalm, CalmGentle
    <3>5. Within(Invalidated(b, key), Gentle)
      BY <3>3, <3>4, InvalidatedWithin
    <3> QED BY <3>3, <3>5 DEF b
  <2>5. Within(Removal(f, ch, key), Gentle)
    BY <1>3, <2>2, <2>3, <2>4, RemovalWithin
  <2> QED BY <1>5, <2>5
<1> QED BY <1>5, <1>6, <1>7, PlanStops, ScriptGentle

LEMMA LookFits ==
  ASSUME Facts, FilesFit', Look
  PROVE  PlanFit' /\ ScriptFit' /\ TableFit' /\ MountFit' /\ DeviceFit'
<1>1. Idle /\ UNCHANGED fs
  BY DEF Look
<1>2. ASSUME NEW for \in { "read", "ls", "walk" }, NEW f, NEW t, Begin(for, f, << >>, t), Within(t, Calm)
      PROVE  PlanFit' /\ ScriptFit' /\ TableFit' /\ MountFit' /\ DeviceFit'
  <2>1. for \notin { "mount", "format" } /\ for # "format"
    OBVIOUS
  <2>2. /\ plan' = << >> /\ todo' = t
        /\ call' = [ for |-> call'.for, f |-> call'.f, b |-> call'.b ]
        /\ call'.for = for /\ mem' = mem /\ lost' = lost /\ whole' = whole /\ MountFit' /\ DeviceFit'
    BY <1>1, <1>2, <2>1, BeginIs
  <2> QED BY <1>1, <1>2, <2>1, <2>2, PlanStops, ScriptCalm, TableStays DEF Facts, fs
<1>3. whole /\ TableFit /\ FilesFit
  BY <1>1 DEF Facts, Idle, MountFit
<1>4. /\ Len(files) \in Nat /\ DOMAIN files = 1 .. Len(files) /\ Newest = Len(files) + 1
      /\ \A k \in 1 .. Newest : EntryBlock(k) \in Block
  BY <1>3, FilesAre DEF Newest
<1>5. STAT \in 0 .. LastSector /\ INIT \in 0 .. LastSector /\ TAIL \in 0 .. LastSector /\ LastSector \in 0 .. LastSector
  BY LastSectorIs DEF STAT, INIT, TAIL
<1>6. ASSUME NEW b \in Block, NEW s \in 0 .. LastSector PROVE Within(See(b, s), Calm)
  BY LooksCalm, WithinOne DEF See
<1>7. CASE \E f \in DOMAIN files : \E i \in DOMAIN files[f].chain : \E s \in { INIT, LastSector } :
             ~ files[f].dead /\ Begin("read", f, << >>, See(files[f].chain[i], s))
  <2>0. PICK f \in DOMAIN files : \E i \in DOMAIN files[f].chain : \E s \in { INIT, LastSector } :
          Begin("read", f, << >>, See(files[f].chain[i], s))
    BY <1>7
  <2>1. PICK i \in DOMAIN files[f].chain, s \in { INIT, LastSector } :
          Begin("read", f, << >>, See(files[f].chain[i], s))
    BY <2>0
  <2>2. files[f].chain[i] \in Block
    <3> DEFINE c == files[f].chain
    <3>1. c \in Seq(Used) /\ i \in DOMAIN c
      BY <1>3 DEF TableFit
    <3> HIDE DEF c
    <3>2. c[i] \in Used
      BY <3>1
    <3> QED BY <3>2, BlocksAre DEF c
  <2>3. Within(See(files[f].chain[i], s), Calm)
    BY <1>5, <1>6, <2>2
  <2> QED BY <1>2, <2>1, <2>3
<1>8. CASE \E k \in DOMAIN files :
             Begin("ls", k, << >>, See(EntryBlock(k), EntrySector(k)) \o See(EntryBlock(k), EntrySector(k) + 1))
  <2>1. PICK k \in DOMAIN files :
             Begin("ls", k, << >>, See(EntryBlock(k), EntrySector(k)) \o See(EntryBlock(k), EntrySector(k) + 1))
    BY <1>8
  <2>2. EntryBlock(k) \in Block /\ EntrySector(k) \in 0 .. LastSector /\ EntrySector(k) + 1 \in 0 .. LastSector
    BY <1>4, EntrySectorIs
  <2>3. Within(See(EntryBlock(k), EntrySector(k)), Calm) /\ Within(See(EntryBlock(k), EntrySector(k) + 1), Calm)
    BY <1>6, <2>2
  <2>4. Within(See(EntryBlock(k), EntrySector(k)) \o See(EntryBlock(k), EntrySector(k) + 1), Calm)
    BY <2>3, WithinConcat
  <2> QED BY <1>2, <2>1, <2>4
<1>9. CASE Begin("walk", 0, << >>, Flat([ i \in 1 .. Blocks |-> Walked(i - 1) ]))
  <2> DEFINE g == [ i \in 1 .. Blocks |-> Walked(i - 1) ]
  <2>1. ASSUME NEW i \in 1 .. Blocks PROVE Within(Walked(i - 1), Calm)
    <3> DEFINE b == i - 1
    <3>1. b \in Block
      BY BlocksAre
    <3> HIDE DEF b
    <3>2. /\ Op("raw", b, 0, "", "") \in Calm /\ Op("probe", b, 0, "", "") \in Calm
          /\ \A s \in { STAT, TAIL, LastSector } : Op("see", b, s, "", "") \in Calm
          /\ Op("close", None, 0, "", "") \in Calm
      BY <1>5, <3>1, LooksCalm, OthersCalm
    <3> QED BY <3>2, WalkedWithin DEF b
  <2>2. Blocks \in Nat /\ g = [ i \in 1 .. Blocks |-> g[i] ] /\ \A i \in 1 .. Blocks : Within(g[i], Calm)
    BY <2>1, BlocksAre
  <2>3. Begin("walk", 0, << >>, Flat(g))
    BY <1>9
  <2> HIDE DEF g
  <2>4. Within(Flat(g), Calm)
    BY <2>2, WithinFlat
  <2> QED BY <1>2, <2>3, <2>4
<1> QED BY <1>7, <1>8, <1>9 DEF Look

-----------------------------------------------------------------------------
(* Format, power and mount.                                                *)

LEMMA PowerFits ==
  ASSUME Facts, FilesFit', PowerCut \/ (PowerOn /\ todo = << >>)
  PROVE  PlanFit' /\ ScriptFit' /\ TableFit' /\ MountFit' /\ DeviceFit'
<1>1. CASE PowerCut
  <2>1. /\ state' = "reset" /\ inode0' = None /\ plan' = << >> /\ todo' = << >>
        /\ call' = [ for |-> "none", f |-> 0, b |-> None ]
        /\ UNCHANGED << pre, backend, layer, fs, whole, faults >>
    BY <1>1 DEF PowerCut, Goto
  <2>2. call' = [ for |-> call'.for, f |-> call'.f, b |-> call'.b ] /\ call'.for = "none"
    BY <2>1
  <2>3. MountFit'
    BY <2>1, <2>2 DEF MountFit, None
  <2>4. DeviceFit'
    BY <2>1 DEF Facts, DeviceFit, layer, pre, Used, None, SdBlock
  <2> QED BY <2>1, <2>2, <2>3, <2>4, PlanStops, ScriptCalm, WithinNone, TableStays DEF Facts, layer, fs
<1>2. CASE PowerOn /\ todo = << >>
  <2>1. /\ Reinitialize /\ dev' = [ block |-> None, page |-> 0, erased |-> None ]
        /\ UNCHANGED << backend, mem, lost, fs, state, inode0, whole, plan, todo, call, faults >>
    BY <1>2 DEF PowerOn
  <2>2. PlanFit'
    BY <2>1 DEF Facts, PlanFit, fs, Newest, Grown, EntriesPerBlock, Used, CreatePlans, WritePlans, MountPlans,
      EntryPlans, InodePlans, BlockTaken, PlanE, PlanPE, PlanAE, PlanFAE, PlanIFAE, PlanPIFAE, PlanAIFAE,
      PlanFAIFAE, PlanT, PlanPT, PlanAT, PlanFAT, PlanP, PlanNP
  <2>3. ScriptFit'
    <3>1. todo' = << >>
      BY <1>2, <2>1
    <3> QED BY <3>1, ScriptCalm, WithinNone DEF ScriptFit, FormatFit
  <2>4. MountFit'
    BY <2>1, RootedStays DEF Facts, MountFit, None
  <2>5. DeviceFit'
    <3>1. available' = << >> /\ n' = 0
      BY <2>1 DEF Reinitialize
    <3>2. available' \in Seq(Used) /\ n' = Len(available')
      BY <3>1
    <3>3. 0 \in 0 .. PagesPerBlock - 1
      BY PagesAssumption
    <3> QED BY <2>1, <3>2, <3>3 DEF Facts, DeviceFit, Used, None, SdBlock
  <2> QED BY <2>1, <2>2, <2>3, <2>4, <2>5, TableStays DEF Facts, fs
<1> QED BY <1>1, <1>2

LEMMA MountFits ==
  ASSUME Bad = {}, Facts, FilesFit', Mount
  PROVE  PlanFit' /\ ScriptFit' /\ TableFit' /\ MountFit' /\ DeviceFit'
<1>1. /\ state = "reset" /\ dirty' = 0 /\ call' = [ for |-> "mount", f |-> 0, b |-> None ]
      /\ UNCHANGED << pre, backend, mem, dev, lost, ichain, state, whole, on, faults >>
  BY DEF Mount, Remount
<1>2. call' = [ for |-> call'.for, f |-> call'.f, b |-> call'.b ] /\ call'.for = "mount"
  BY <1>1
<1>3. First \in Nat /\ Inode0Max \in First + 1 .. Blocks /\ Block = 0 .. Blocks - 1 /\ Blocks \in Nat /\ None = -1
  BY PagesAssumption DEF None
<1>4. TableFit'
  <2> DEFINE g == [ f \in DOMAIN files |-> WithOpen(files[f], FALSE) ]
  <2>1. files' = g
    BY DEF Mount, Remount, WithOpen
  <2>2. g = [ f \in DOMAIN files |-> g[f] ]
    OBVIOUS
  <2>3. ASSUME NEW f \in DOMAIN files PROVE FileFit(g[f]) /\ g[f].chain = files[f].chain
    <3>1. FileFit(files[f])
      BY DEF Facts, FilesFit
    <3>2. g[f] = WithOpen(files[f], FALSE)
      OBVIOUS
    <3> HIDE DEF g
    <3> DEFINE q == files[f]
    <3>3. FileFit(q) /\ g[f] = WithOpen(q, FALSE)
      BY <3>1, <3>2
    <3> HIDE DEF q
    <3>4. FileFit(WithOpen(q, FALSE))
      BY <3>3, FileFitWith
    <3>5. WithOpen(q, FALSE).chain = q.chain
      BY <3>3, WithFields
    <3> QED BY <3>3, <3>4, <3>5 DEF q
  <2> HIDE DEF g
  <2>4. DOMAIN files' = DOMAIN files /\ Len(files') = Len(files)
    BY <2>1, <2>2, <2>3, FilesMade DEF Facts
  <2>5. \A f \in DOMAIN files : files'[f].chain \in Seq(Used) /\ files'[f].chain # << >>
    BY <2>1, <2>3 DEF Facts, TableFit
  <2>6. 0 \in 0 .. Len(files)
    BY FilesAre DEF Facts
  <2> QED BY <1>1, <2>4, <2>5, <2>6, TableFiles DEF Facts
<1>5. DeviceFit'
  BY <1>1, DeviceStays DEF Facts, pre
<1>6. ASSUME NEW m \in Nat, m <= Blocks - First PROVE Within(Flat([ i \in 1 .. m |-> Probed(First + i - 1) ]), Calm)
  <2>1. ASSUME NEW i \in 1 .. m PROVE Op("probe", First + i - 1, 0, "", "") \in Calm
    <3> DEFINE b == First + i - 1
    <3>1. b \in Block /\ 0 \in 0 .. LastSector
      BY <1>3, <1>6, LastSectorIs
    <3> HIDE DEF b
    <3>2. Op("probe", b, 0, "", "") \in Calm
      BY <3>1, LooksCalm
    <3> QED BY <3>2 DEF b
  <2> QED BY <2>1, ProbesWithin
<1>7. ASSUME NEW b \in First .. Inode0Max - 1, Found(b), inode0' = b,
             Goto(<< "inspect", "prime" >>, Flat([ i \in 1 .. b - First + 1 |-> Probed(First + i - 1) ]))
      PROVE  PlanFit' /\ ScriptFit' /\ MountFit'
  <2>1. b \in Block /\ Keyed(b) /\ IsInode0(b)
    BY <1>3, <1>7 DEF Found, IsFirstInode
  <2>2. whole /\ b = First /\ Rooted
    BY <2>1 DEF Facts, TableFit, Rooted
  <2>3. plan' = PlanNP
    BY <1>7 DEF Goto, PlanNP
  <2>4. plan' # << >> /\ plan' \in MountPlans /\ plan' \notin BlockTaken /\ plan' \notin EntryPlans
    BY <2>3, PlansAre DEF MountPlans, BlockTaken, EntryPlans
  <2>5. PlanFit'
    BY <1>2, <2>4 DEF PlanFit, MountPlans
  <2>6. ScriptFit'
    <3>1. b - First + 1 \in Nat /\ b - First + 1 <= Blocks - First
      BY <1>3
    <3>2. Within(todo', Calm)
      BY <1>6, <1>7, <3>1 DEF Goto
    <3> QED BY <1>2, <3>2, ScriptCalm
  <2>7. MountFit'
    BY <1>1, <1>2, <1>3, <1>7, <2>2, RootedStays DEF MountFit, None
  <2> QED BY <2>5, <2>6, <2>7
<1>8. ASSUME \A b \in First .. Inode0Max - 1 : ~ Found(b), inode0' = None,
             Goto(<< >>, Flat([ i \in 1 .. Inode0Max - First |-> Probed(First + i - 1) ]))
      PROVE  PlanFit' /\ ScriptFit' /\ MountFit'
  <2>1. ~ (whole /\ ~ lost)
    <3> SUFFICES ASSUME whole, ~ lost PROVE FALSE
      OBVIOUS
    <3>1. IsFirstInode(First)
      BY DEF Facts, TableFit, Rooted, IsFirstInode
    <3>2. First \in First .. Inode0Max - 1 /\ \A c \in First .. First - 1 : ~ IsFirstInode(c)
      BY <1>3
    <3> QED BY <1>8, <3>1, <3>2 DEF Found
  <2>2. plan' = << >> /\ PlanFit'
    BY <1>2, <1>8, PlanStops DEF Goto
  <2>3. ScriptFit'
    <3>1. Inode0Max - First \in Nat /\ Inode0Max - First <= Blocks - First
      BY <1>3
    <3>2. Within(todo', Calm)
      BY <1>6, <1>8, <3>1 DEF Goto
    <3> QED BY <1>2, <3>2, ScriptCalm
  <2>4. MountFit'
    BY <1>1, <1>2, <1>8, <2>1, <2>2 DEF MountFit, None
  <2> QED BY <2>2, <2>3, <2>4
<1> QED BY <1>4, <1>5, <1>7, <1>8 DEF Mount, Takes, TakesNone

(* The script of a format: it ends as Setup, and begins by erasing the     *)
(* first block.                                                            *)
Begun(t, u, k) ==
  /\ IsList(t) /\ Len(t) = Len(u) + k
  /\ \A i \in 1 .. Len(u) : t[i] = u[i]
  /\ \A i \in 1 .. k : t[Len(u) + i] = Setup[i]

LEMMA BegunOne ==
  ASSUME NEW u, IsList(u), NEW k \in Nat, NEW t, Begun(t, u, k), NEW j, j = k + 1, NEW y, y = Setup[j],
         NEW v, v = t \o << y >>
  PROVE  Begun(v, u, j)
<1>1. Len(u) \in Nat
  BY ListLen
<1>2. IsList(t) /\ Len(t) = Len(u) + k
  BY DEF Begun
<1>3. IsList(v) /\ Len(v) = Len(t) + 1 /\ (\A i \in 1 .. Len(t) : v[i] = t[i]) /\ v[Len(t) + 1] = y
  BY <1>2, ListSnoc
<1>4. \A i \in 1 .. Len(u) : v[i] = u[i]
  BY <1>1, <1>2, <1>3 DEF Begun
<1>5. ASSUME NEW i \in 1 .. k + 1 PROVE v[Len(u) + i] = Setup[i]
  <2>1. CASE i = k + 1
    <3>1. Len(u) + i = Len(t) + 1
      BY <1>1, <1>2, <2>1
    <3> QED BY <1>3, <2>1, <3>1
  <2>2. CASE i # k + 1
    <3>1. i \in 1 .. k /\ Len(u) + i \in 1 .. Len(t)
      BY <1>1, <1>2, <2>2
    <3> QED BY <1>3, <3>1 DEF Begun
  <2> QED BY <2>1, <2>2
<1>6. Len(v) = Len(u) + (k + 1)
  BY <1>1, <1>2, <1>3
<1> QED BY <1>3, <1>4, <1>5, <1>6 DEF Begun

LEMMA PairIs ==
  ASSUME NEW x, NEW y, NEW w, w = << x, y >>
  PROVE  IsList(w) /\ Len(w) = 2 /\ w[1] = x /\ w[2] = y
<1>1. w \in Seq({ x, y }) /\ Len(w) = 2 /\ w[1] = x /\ w[2] = y
  OBVIOUS
<1> QED BY <1>1 DEF IsList

LEMMA PairSame ==
  ASSUME NEW x, NEW y
  PROVE  << x >> \o << y >> = << x, y >>
<1> DEFINE t == << y >>  u == << x, y >>
<1>1. IsList(t) /\ Len(t) = 1 /\ t[1] = y
  BY ListOne
<1>2. IsList(u) /\ Len(u) = 2 /\ u[1] = x /\ u[2] = y
  BY PairIs
<1> HIDE DEF t, u
<1>3. \A i \in 1 .. Len(t) : u[1 + i] = t[i]
  <2> SUFFICES ASSUME NEW i \in 1 .. Len(t) PROVE u[1 + i] = t[i]
    OBVIOUS
  <2>1. i = 1 /\ 1 + i = 2
    BY <1>1
  <2> QED BY <1>1, <1>2, <2>1
<1>4. Len(u) = 1 + Len(t)
  BY <1>1, <1>2
<1>5. << x >> \o t = u
  BY <1>1, <1>2, <1>3, <1>4, PrefixedIs
<1> QED BY <1>5 DEF t, u

LEMMA SetupIs ==
  /\ Len(Setup) = 8
  /\ Setup[1] = Op("open", First, STAT, "", "") /\ Setup[2] = Op("close", None, 0, "", "")
  /\ Setup[3] = Op("erase", First, 0, "", "") /\ Setup[4] = Op("open", First, STAT, "", "")
  /\ Setup[5] = Op("write", First, STAT, "first", "key") /\ Setup[6] = Op("open", First, INIT, "", "")
  /\ Setup[7] = Op("write", First, INIT, "first", "inode") /\ Setup[8] = Op("spare", First, INIT, "spare", "inode0")
BY DEF Setup

(* What stands first in a list of lists stands first in all of it.         *)
LEMMA FlatFirst ==
  ASSUME NEW m \in Nat \ {0}, NEW g, g = [ i \in 1 .. m |-> g[i] ], \A i \in 1 .. m : IsList(g[i])
  PROVE  IsList(Flat(g)) /\ Len(Flat(g)) >= Len(g[1]) /\ \A i \in 1 .. Len(g[1]) : Flat(g)[i] = g[1][i]
<1>0. DOMAIN g = 1 .. m
  <2> DEFINE h == [ i \in 1 .. m |-> g[i] ]
  <2>1. DOMAIN h = 1 .. m
    OBVIOUS
  <2> HIDE DEF h
  <2>2. g = h
    BY DEF h
  <2> QED BY <2>1, <2>2
<1>1. IsList(g) /\ Len(g) = m
  BY <1>0, ListMade
<1> DEFINE u == g[1]
           P(t) == IsList(t) /\ Len(t) >= Len(u) /\ \A i \in 1 .. Len(u) : t[i] = u[i]
           T == { k \in 0 .. m : IsList(Cat(g, k)) /\ (k > 0 => P(Cat(g, k))) }
<1>2. 0 \in T
  BY CatZero, ListNone
<1>3. ASSUME NEW k \in 0 .. m - 1, k \in T PROVE k + 1 \in T
  <2>1. k \in Nat /\ k + 1 \in 1 .. m /\ k + 1 \in 0 .. m
    OBVIOUS
  <2> DEFINE s == Cat(g, k)  t == g[k + 1]
  <2>2. Cat(g, k + 1) = s \o t
    BY <2>1, CatStep
  <2>3. IsList(s) /\ IsList(t) /\ (k > 0 => P(s)) /\ IsList(u) /\ (k = 0 => s = << >> /\ t = u)
    BY <1>3, <2>1, CatZero
  <2> HIDE DEF s, t, u
  <2>4. IsList(s \o t) /\ Len(s \o t) = Len(s) + Len(t) /\ (\A i \in 1 .. Len(s) : (s \o t)[i] = s[i])
        /\ Len(s) \in Nat /\ Len(t) \in Nat /\ Len(u) \in Nat
    BY <2>3, ListConcat, ListLen
  <2>5. P(s \o t)
    <3>1. CASE k = 0
      <4>1. s \o t = u
        BY <2>3, <3>1, NoneConcat
      <4> QED BY <2>3, <2>4, <4>1
    <3>2. CASE k # 0
      <4>1. P(s)
        BY <2>3, <3>2
      <4> QED BY <2>4, <4>1
    <3> QED BY <3>1, <3>2
  <2> QED BY <2>1, <2>2, <2>4, <2>5
<1>4. 0 .. m \subseteq T
  <2> HIDE DEF T
  <2> QED BY <1>2, <1>3, UpTo
<1>5. P(Cat(g, m))
  BY <1>4
<1> QED BY <1>1, <1>5, FlatIsCat

ClearOps == [ op : { "open", "erase" }, b : Block, s : { STAT }, part : { "" }, tag : { "" } ]

LEMMA FormatScriptIs ==
  ASSUME Bad = {}
  PROVE  /\ IsList(FormatScript) /\ Len(FormatScript) > 9
         /\ \A i \in 1 .. Len(FormatScript) : i > Len(FormatScript) - 8 =>
               FormatScript[i] = Setup[i - (Len(FormatScript) - 8)]
         /\ \A i \in 1 .. Len(FormatScript) : i <= Len(FormatScript) - 8 => Clearing(FormatScript[i])
         /\ FormatScript[1].op = "open" /\ FormatScript[2].op = "erase" /\ FormatScript[2].b = First
<1>1. First \in Nat /\ Blocks - First \in Nat \ {0} /\ Block = 0 .. Blocks - 1 /\ Blocks \in Nat
  BY PagesAssumption
<1> DEFINE m == Blocks - First
           g == [ i \in 1 .. m |-> Open(First + i - 1, STAT) \o Erase(First + i - 1) ]
           u == Flat(g)
<1>2. g = [ i \in 1 .. m |-> g[i] ] /\ g[1] = Open(First, STAT) \o Erase(First)
  <2>1. First + 1 - 1 = First
    BY <1>1
  <2> QED BY <1>1, <2>1
<1>3. ASSUME NEW i \in 1 .. m PROVE Within(g[i], ClearOps)
  <2> DEFINE b == First + i - 1
  <2>1. b \in Block
    BY <1>1
  <2>2. g[i] = Open(b, STAT) \o Erase(b)
    OBVIOUS
  <2> HIDE DEF b, g
  <2>3. Op("open", b, STAT, "", "") \in ClearOps /\ Op("erase", b, 0, "", "") \in ClearOps
    BY <2>1 DEF ClearOps, Op, STAT
  <2>4. Within(Open(b, STAT), ClearOps) /\ Within(Erase(b), ClearOps)
    BY <2>3, WithinOne DEF Open, Erase
  <2> QED BY <2>2, <2>4, WithinConcat
<1> DEFINE w == g[1]  x1 == Op("open", First, STAT, "", "")  x2 == Op("erase", First, 0, "", "")
<1>4. w = << x1, x2 >>
  <2>1. w = << x1 >> \o << x2 >>
    BY <1>2 DEF Open, Erase
  <2> HIDE DEF g, x1, x2, w
  <2>2. << x1 >> \o << x2 >> = << x1, x2 >>
    BY PairSame
  <2> QED BY <2>1, <2>2
<1> HIDE DEF g, x1, x2
<1>5. IsList(w) /\ Len(w) = 2 /\ w[1] = x1 /\ w[2] = x2
  <2> HIDE DEF w
  <2> QED BY <1>4, PairIs
<1>6. Within(u, ClearOps)
  BY <1>1, <1>2, <1>3, WithinFlat
<1>7. IsList(u) /\ Len(u) \in Nat /\ Len(u) >= 2 /\ u[1] = x1 /\ u[2] = x2
  <2>1. Len(u) >= Len(w) /\ \A i \in 1 .. Len(w) : u[i] = w[i]
    BY <1>1, <1>2, <1>3, FlatFirst DEF Within
  <2> HIDE DEF u, w
  <2>2. IsList(u)
    BY <1>6 DEF Within
  <2>3. Len(u) \in Nat
    BY <2>2, ListLen
  <2>4. 1 \in 1 .. Len(w) /\ 2 \in 1 .. Len(w)
    BY <1>5
  <2>5. u[1] = w[1] /\ u[2] = w[2]
    BY <2>1, <2>4
  <2> QED BY <1>5, <2>1, <2>2, <2>3, <2>5
<1> DEFINE b == First
           v1 == u \o Open(b, STAT)
           v2 == v1 \o Close
           v3 == v2 \o Erase(b)
           v4 == v3 \o Open(b, STAT)
           v5 == v4 \o Write(b, STAT, "first", "key")
           v6 == v5 \o Open(b, INIT)
           v7 == v6 \o Write(b, INIT, "first", "inode")
           v8 == v7 \o Spare(b, INIT, "inode0")
<1>8. FormatScript = v8
  <2>1. FirstGood = First
    BY FirstGoodIs
  <2>2. u \o Flat([ i \in 1 .. FirstGood - First |-> Open(First + i - 1, STAT) ]) = u
    <3> DEFINE h == [ i \in 1 .. First - First |-> Open(First + i - 1, STAT) ]
    <3>1. DOMAIN h = 1 .. 0 /\ h = [ i \in 1 .. 0 |-> h[i] ]
      BY <1>1
    <3> HIDE DEF h
    <3>2. Len(h) = 0
      BY <3>1, ListMade
    <3>3. Flat(h) = << >>
      BY <3>2, FlatIsCat, CatZero
    <3> QED BY <1>7, <2>1, <3>3, NoneConcat DEF h
  <2>3. FormatScript = u \o Flat([ i \in 1 .. FirstGood - First |-> Open(First + i - 1, STAT) ])
    \o Open(FirstGood, STAT) \o Close \o Erase(FirstGood) \o Statistics(FirstGood, "key")
    \o Open(FirstGood, INIT) \o Write(FirstGood, INIT, "first", "inode")
    \o Spare(FirstGood, INIT, "inode0")
    BY DEF FormatScript, g
  <2>4. FormatScript = v3 \o Statistics(b, "key") \o Open(b, INIT) \o Write(b, INIT, "first", "inode")
                         \o Spare(b, INIT, "inode0")
    BY <2>1, <2>2, <2>3
  <2>5. v3 \o Statistics(b, "key") = v5
    <3>1. IsList(v3)
      <4>1. IsList(Open(b, STAT)) /\ IsList(Close) /\ IsList(Erase(b))
        BY ListOne DEF Open, Close, Erase
      <4>2. IsList(v1)
        BY <1>7, <4>1, ListConcat
      <4> HIDE DEF v1
      <4>3. IsList(v2)
        BY <4>1, <4>2, ListConcat
      <4> HIDE DEF v2
      <4> QED BY <4>1, <4>3, ListConcat
    <3> DEFINE x == Op("open", b, STAT, "", "")  y == Op("write", b, STAT, "first", "key")
    <3>2. Statistics(b, "key") = << x >> \o << y >> /\ v5 = (v3 \o << x >>) \o << y >>
      BY DEF Statistics, Open, Write
    <3> HIDE DEF v3, x, y
    <3>3. v3 \o (<< x >> \o << y >>) = (v3 \o << x >>) \o << y >>
      BY <3>1, ConcatPair
    <3> QED BY <3>2, <3>3
  <2> HIDE DEF v3
  <2> QED BY <2>4, <2>5
<1> HIDE DEF u
<1>9. Begun(u, u, 0)
  <2>1. IsList(u)
    BY <1>7
  <2>2. Len(u) \in Nat
    BY <2>1, ListLen
  <2> QED BY <2>1, <2>2 DEF Begun
<1>0. IsList(u)
  BY <1>7
<1>10. Begun(v1, u, 1)
  <2> DEFINE y == Op("open", b, STAT, "", "")
  <2>1. v1 = u \o << y >> /\ y = Setup[1]
    BY SetupIs DEF Open
  <2>2. 0 \in Nat /\ 1 = 0 + 1
    OBVIOUS
  <2> HIDE DEF y, v1
  <2> QED BY <1>0, <1>9, <2>1, <2>2, BegunOne
<1> HIDE DEF v1
<1>11. Begun(v2, u, 2)
  <2> DEFINE y == Op("close", None, 0, "", "")
  <2>1. v2 = v1 \o << y >> /\ y = Setup[2]
    BY SetupIs DEF Close
  <2>2. 1 \in Nat /\ 2 = 1 + 1
    OBVIOUS
  <2> HIDE DEF y, v2
  <2> QED BY <1>0, <1>10, <2>1, <2>2, BegunOne
<1> HIDE DEF v2
<1>12. Begun(v3, u, 3)
  <2> DEFINE y == Op("erase", b, 0, "", "")
  <2>1. v3 = v2 \o << y >> /\ y = Setup[3]
    BY SetupIs DEF Erase
  <2>2. 2 \in Nat /\ 3 = 2 + 1
    OBVIOUS
  <2> HIDE DEF y, v3
  <2> QED BY <1>0, <1>11, <2>1, <2>2, BegunOne
<1> HIDE DEF v3
<1>13. Begun(v4, u, 4)
  <2> DEFINE y == Op("open", b, STAT, "", "")
  <2>1. v4 = v3 \o << y >> /\ y = Setup[4]
    BY SetupIs DEF Open
  <2>2. 3 \in Nat /\ 4 = 3 + 1
    OBVIOUS
  <2> HIDE DEF y, v4
  <2> QED BY <1>0, <1>12, <2>1, <2>2, BegunOne
<1> HIDE DEF v4
<1>14. Begun(v5, u, 5)
  <2> DEFINE y == Op("write", b, STAT, "first", "key")
  <2>1. v5 = v4 \o << y >> /\ y = Setup[5]
    BY SetupIs DEF Write
  <2>2. 4 \in Nat /\ 5 = 4 + 1
    OBVIOUS
  <2> HIDE DEF y, v5
  <2> QED BY <1>0, <1>13, <2>1, <2>2, BegunOne
<1> HIDE DEF v5
<1>15. Begun(v6, u, 6)
  <2> DEFINE y == Op("open", b, INIT, "", "")
  <2>1. v6 = v5 \o << y >> /\ y = Setup[6]
    BY SetupIs DEF Open
  <2>2. 5 \in Nat /\ 6 = 5 + 1
    OBVIOUS
  <2> HIDE DEF y, v6
  <2> QED BY <1>0, <1>14, <2>1, <2>2, BegunOne
<1> HIDE DEF v6
<1>16. Begun(v7, u, 7)
  <2> DEFINE y == Op("write", b, INIT, "first", "inode")
  <2>1. v7 = v6 \o << y >> /\ y = Setup[7]
    BY SetupIs DEF Write
  <2>2. 6 \in Nat /\ 7 = 6 + 1
    OBVIOUS
  <2> HIDE DEF y, v7
  <2> QED BY <1>0, <1>15, <2>1, <2>2, BegunOne
<1> HIDE DEF v7
<1>17. Begun(v8, u, 8)
  <2> DEFINE y == Op("spare", b, INIT, "spare", "inode0")
  <2>1. v8 = v7 \o << y >> /\ y = Setup[8]
    BY SetupIs DEF Spare
  <2>2. 7 \in Nat /\ 8 = 7 + 1
    OBVIOUS
  <2> HIDE DEF y, v8
  <2> QED BY <1>0, <1>16, <2>1, <2>2, BegunOne
<1> HIDE DEF v8
<1>18. /\ IsList(v8) /\ Len(v8) = Len(u) + 8 /\ Len(u) \in Nat
       /\ \A i \in 1 .. Len(u) : v8[i] = u[i]
       /\ \A i \in 1 .. 8 : v8[Len(u) + i] = Setup[i]
  BY <1>7, <1>17, ListLen DEF Begun
<1>19. ASSUME NEW i \in 1 .. Len(v8), i > Len(v8) - 8 PROVE v8[i] = Setup[i - (Len(v8) - 8)]
  <2> DEFINE j == i - Len(u)
  <2>1. j \in 1 .. 8 /\ i = Len(u) + j /\ i - (Len(v8) - 8) = j
    BY <1>18, <1>19
  <2> HIDE DEF j
  <2> QED BY <1>18, <2>1
<1>20. ASSUME NEW i \in 1 .. Len(v8), i <= Len(v8) - 8 PROVE Clearing(v8[i])
  <2>1. i \in 1 .. Len(u) /\ v8[i] = u[i]
    BY <1>18, <1>20
  <2>2. u[i] \in ClearOps
    BY <1>6, <2>1 DEF Within
  <2> QED BY <2>1, <2>2 DEF ClearOps, Clearing
<1>21. v8[1].op = "open" /\ v8[2].op = "erase" /\ v8[2].b = First
  <2>0. 1 \in 1 .. Len(u) /\ 2 \in 1 .. Len(u)
    BY <1>7, <1>18
  <2>1. v8[1] = u[1] /\ v8[2] = u[2]
    BY <1>18, <2>0
  <2>2. x1.op = "open" /\ x2.op = "erase" /\ x2.b = First
    BY DEF Op, x1, x2
  <2> HIDE DEF x1, x2
  <2> QED BY <1>7, <2>1, <2>2
<1>22. Len(v8) > 9
  BY <1>7, <1>18
<1> QED BY <1>8, <1>18, <1>19, <1>20, <1>21, <1>22

LEMMA FormatFits ==
  ASSUME Bad = {}, Facts, FilesFit', Format
  PROVE  PlanFit' /\ ScriptFit' /\ TableFit' /\ MountFit' /\ DeviceFit'
<1>1. /\ state' = "reset" /\ plan' = << >> /\ todo' = FormatScript
      /\ call' = [ for |-> "format", f |-> 0, b |-> None ]
      /\ UNCHANGED << pre, backend, layer, fs, inode0, whole, on, faults >>
  BY DEF Format, Goto
<1>2. call' = [ for |-> call'.for, f |-> call'.f, b |-> call'.b ] /\ call'.for = "format"
  BY <1>1
<1>3. ScriptFit'
  <2> DEFINE t == todo'
  <2>1. /\ IsList(t) /\ Len(t) > 9
        /\ \A i \in 1 .. Len(t) : i > Len(t) - 8 => t[i] = Setup[i - (Len(t) - 8)]
        /\ \A i \in 1 .. Len(t) : i <= Len(t) - 8 => Clearing(t[i])
        /\ t[1].op = "open" /\ t[2].op = "erase" /\ t[2].b = First
    BY <1>1, FormatScriptIs
  <2>2. Len(t) > 8 /\ ~ (Len(t) <= 3) /\ ~ (Len(t) <= 5)
    <3>1. Len(t) \in Nat
      BY <2>1, ListLen
    <3> QED BY <2>1, <3>1
  <2> QED BY <1>1, <1>2, <2>1, <2>2 DEF ScriptFit, FormatFit, Setup, Clearing, Op
<1>4. MountFit'
  BY <1>1, <1>2 DEF Facts, MountFit, None
<1>5. DeviceFit'
  BY <1>1 DEF Facts, DeviceFit, layer, pre, Used, None, SdBlock
<1> QED BY <1>1, <1>2, <1>3, <1>4, <1>5, PlanStops, TableStays DEF Facts, layer, fs

-----------------------------------------------------------------------------
(* The page operations.                                                    *)

LEMMA PlanStays ==
  ASSUME PlanFit, UNCHANGED << plan, call, files, ichain >>
  PROVE  PlanFit'
BY DEF PlanFit, Newest, Grown, EntriesPerBlock, Used, CreatePlans, WritePlans, MountPlans,
  EntryPlans, InodePlans, BlockTaken, PlanE, PlanPE, PlanAE, PlanFAE, PlanIFAE, PlanPIFAE, PlanAIFAE,
  PlanFAIFAE, PlanT, PlanPT, PlanAT, PlanFAT, PlanP, PlanNP

LEMMA PlacesWithin ==
  ASSUME NEW x, Programming(x)
  PROVE  PlaceFor(x).at \in 0 .. SdBlock(Blocks, 0, 0) - 1
<1> DEFINE p == PageFor(x)  i == SlotFor(x)  b == x.b  a == PlaceFor(x).at  z == SdBlock(Blocks, 0, 0)
<1>1. p \in 0 .. PagesPerBlock - 1 /\ i \in 0 .. SectorsPerPage /\ a = SdBlock(b, p, i)
  BY PlaceIs
<1>2. b \in Nat /\ b < Blocks /\ Blocks \in Nat
  BY BlockIs, BlocksAre DEF Programming
<1> HIDE DEF p, i, b
<1>3. a \in Nat /\ a = b * BlockSize + (5 * p + i)
  BY <1>1, <1>2, AddressIs
<1>4. z = Blocks * BlockSize /\ z \in Nat /\ BlockSize \in Nat /\ BlockSize = 5 * PagesPerBlock /\ PagesPerBlock \in Nat
  BY <1>2, BlockStarts, SizesAre
<1> HIDE DEF a, z
<1>5. 5 * p + i < BlockSize /\ 5 * p + i \in Nat
  BY <1>1, <1>4 DEF SectorsPerPage
<1>6. (b + 1) * BlockSize <= Blocks * BlockSize /\ (b + 1) * BlockSize = b * BlockSize + BlockSize
      /\ b * BlockSize \in Nat
  BY <1>2, <1>4
<1>7. a < z
  <2> DEFINE u == b * BlockSize  v == Blocks * BlockSize  w == 5 * p + i
  <2>1. u \in Nat /\ u + BlockSize <= v /\ a = u + w /\ z = v /\ w < BlockSize /\ w \in Nat
    BY <1>3, <1>4, <1>5, <1>6
  <2> HIDE DEF u, v, w
  <2> QED BY <1>4, <2>1
<1> QED BY <1>3, <1>4, <1>7 DEF a, z

LEMMA AccessIs ==
  ASSUME DeviceFit, NEW x, Access(x),
         x.op \in { "open", "see", "raw", "probe" } => x.b \in Block /\ x.s \in 0 .. LastSector
  PROVE  /\ DeviceFit' /\ plan' = plan /\ todo' = Tail(todo)
         /\ UNCHANGED << backend, mem, lost, fs, mounts, call, faults >>
<1>1. plan' = plan /\ todo' = Tail(todo) /\ UNCHANGED << backend, mem, lost, fs, mounts, call, faults >>
  BY DEF Access, Goto, Aside
<1>2. UNCHANGED << available, n >>
  BY DEF Access, OpenPage, ProbePage, RemovePending, pre
<1>3. /\ dev'.block \in Block \cup { None } /\ dev'.erased \in Block \cup { None }
      /\ dev'.page \in 0 .. PagesPerBlock - 1
  <2>1. ASSUME NEW p \in 0 .. PagesPerBlock - 1, x.b \in Block, dev' = DevOpened(x.b, p)
        PROVE  /\ dev'.block \in Block \cup { None } /\ dev'.erased \in Block \cup { None }
               /\ dev'.page \in 0 .. PagesPerBlock - 1
    BY <2>1 DEF DevOpened, DeviceFit
  <2>2. 0 \in 0 .. PagesPerBlock - 1
    BY PagesAssumption
  <2>3. CASE x.op \in { "open", "see" } /\ OpenPage(x.b, x.s)
    <3>1. x.s \div SectorsPerPage \in 0 .. PagesPerBlock - 1 /\ x.b \in Block
      BY <2>3, SectorSplit
    <3> QED BY <2>1, <2>3, <3>1 DEF OpenPage, DeviceFit
  <2>4. CASE x.op = "raw" /\ dev' = DevOpened(x.b, 0)
    BY <2>1, <2>2, <2>4
  <2>5. CASE x.op = "probe" /\ ProbePage(x.b)
    BY <2>1, <2>2, <2>5 DEF ProbePage
  <2>6. CASE x.op = "close" /\ UNCHANGED << pre, dev >>
    BY <2>6 DEF DeviceFit
  <2> QED BY <2>3, <2>4, <2>5, <2>6 DEF Access
<1> QED BY <1>1, <1>2, <1>3 DEF DeviceFit, mounts, Used, None, SdBlock

LEMMA ProgramIs ==
  ASSUME DeviceFit, DeviceInv, todo # << >>, NEW x, x = Head(todo), Program(x), Programming(x)
  PROVE  /\ DeviceFit' /\ plan' = plan /\ todo' = Tail(todo)
         /\ \A c \in held' : c \in held \/ c = Content(x)
         /\ Content(x) \in held'
         /\ \A c \in held : c.b # x.b \/ c.s # x.s => c \in held'
         /\ \A c \in held : c.part = "spare" /\ x.part # "spare" => c \in held'
         /\ UNCHANGED << backend, lost, files, dirty, state, inode0, on, call, faults >>
<1>1. /\ plan' = plan /\ todo' = Tail(todo) /\ mem' = MemWritten(x)
      /\ UNCHANGED << pre, backend, dev, cache, lost, files, dirty, state, inode0, on, call, faults >>
  BY DEF Program, Goto
<1>2. dev.block = x.b /\ dev.page = x.s \div SectorsPerPage
  <2>1. Head(todo) = todo[1]
    BY ListTail DEF DeviceInv, Script
  <2>2. Programs(todo[1])
    BY <2>1 DEF Program, Programs
  <2> QED BY <2>1, <2>2 DEF DeviceInv, Standing, At
<1>3. \A m \in mem : m.at \in Nat
  <2>1. SdBlock(Blocks, 0, 0) \in Nat
    BY BlockStarts, BlocksAre
  <2> QED BY <2>1 DEF DeviceFit
<1>4. \A m \in mem' : m.at \in 0 .. SdBlock(Blocks, 0, 0) - 1
  <2>1. PlaceFor(x) = Place(dev.block, dev.page, x)
    BY <1>2 DEF PlaceFor, PageFor
  <2>2. \A m \in mem' : m \in mem \/ m.at = PlaceFor(x).at
    BY <1>1, <2>1 DEF MemWritten
  <2> QED BY <2>2, PlacesWithin DEF DeviceFit
<1>5. DeviceFit'
  BY <1>1, <1>4 DEF DeviceFit, pre, Used, None, SdBlock
<1> QED BY <1>1, <1>2, <1>3, <1>5, HeldProgrammed

LEMMA EraseIs ==
  ASSUME DeviceFit, NEW x, DoErase(x), x.b \in Block
  PROVE  /\ DeviceFit' /\ plan' = plan /\ todo' = Tail(todo) /\ FormatBegun
         /\ held' \subseteq held /\ \A c \in held' : c.b # x.b
         /\ \A c \in held : c.b # x.b /\ c.b # x.b + 1 => c \in held'
         /\ UNCHANGED << backend, state, inode0, on, call, faults >>
<1>1. /\ plan' = plan /\ todo' = Tail(todo) /\ mem' = MemErased(x.b) /\ FormatBegun
      /\ UNCHANGED << pre, backend, cache, state, inode0, on, call, faults >>
      /\ dev' = [ dev EXCEPT !.erased = IF Sd THEN x.b ELSE @ ]
  BY DEF DoErase, Goto
<1>2. \A m \in mem : m.at \in Nat
  <2>1. SdBlock(Blocks, 0, 0) \in Nat
    BY BlockStarts, BlocksAre
  <2> QED BY <2>1 DEF DeviceFit
<1>3. /\ mem' \subseteq mem /\ held' \subseteq held /\ \A c \in held' : c.b # x.b
      /\ \A c \in held : c.b # x.b /\ c.b # x.b + 1 => c \in held'
  BY <1>1, <1>2, HeldErasedWide
<1>4. DeviceFit'
  BY <1>1, <1>3 DEF DeviceFit, pre, Used, None, SdBlock
<1> QED BY <1>1, <1>3, <1>4

LEMMA WriteFailsIs ==
  ASSUME DeviceFit, NEW x, WriteFails(x)
  PROVE  /\ DeviceFit' /\ plan' = plan /\ todo' = Tail(todo) /\ mem' = mem /\ lost' = TRUE /\ FormatDone(x)
         /\ UNCHANGED << backend, files, dirty, state, inode0, on, call >>
<1>1. /\ plan' = plan /\ todo' = Tail(todo) /\ lost' = TRUE /\ FormatDone(x)
      /\ faults < MaxFaults /\ faults' = faults + 1
      /\ UNCHANGED << pre, backend, mem, dev, cache, files, dirty, state, inode0, on, call >>
  BY DEF WriteFails, MayFail, Goto
<1>2. faults' \in 0 .. MaxFaults
  BY <1>1, PagesAssumption DEF DeviceFit
<1>3. DeviceFit'
  BY <1>1, <1>2 DEF DeviceFit, pre, Used, None, SdBlock
<1> QED BY <1>1, <1>3

KeyOf(b) == [ b |-> b, s |-> STAT, part |-> "first", tag |-> "key" ]

LEMMA EraseFailsIs ==
  ASSUME DeviceFit, NEW x, EraseFails(x), x.b \in Block
  PROVE  /\ DeviceFit' /\ held' \subseteq held
         /\ \A c \in held : c.b # x.b /\ c.b # x.b + 1 => c \in held'
         /\ backend # "sd_erase" => \A c \in held : c.b # x.b => c \in held'
         /\ mem' # mem => KeyOf(x.b) \notin held'
         /\ IF mem' = mem THEN UNCHANGED << whole, lost, fs >> ELSE FormatBegun
         /\ UNCHANGED << state, inode0, on, call >>
         /\ call.for \in { "format", "mount" } => plan' = << >> /\ todo' = << >>
         /\ call.for = "rm" => plan' = plan /\ todo' = Tail(todo)
         /\ call.for \notin { "format", "mount", "rm" } => plan' = Tail(plan) /\ todo' = << >>
<1>1. /\ dev' = [ dev EXCEPT !.erased = x.b ] /\ faults < MaxFaults /\ faults' = faults + 1
      /\ IF mem' = mem THEN UNCHANGED << whole, lost, fs >> ELSE FormatBegun
      /\ UNCHANGED << pre, backend, cache, state, inode0, on, call >>
  BY DEF EraseFails
<1>2. /\ call.for \in { "format", "mount" } => plan' = << >> /\ todo' = << >>
      /\ call.for = "rm" => plan' = plan /\ todo' = Tail(todo)
      /\ call.for \notin { "format", "mount", "rm" } => plan' = Tail(plan) /\ todo' = << >>
  BY DEF EraseFails, Goto
<1>3. faults' \in 0 .. MaxFaults
  BY <1>1, PagesAssumption DEF DeviceFit
<1>4. \A m \in mem : m.at \in Nat
  <2>1. SdBlock(Blocks, 0, 0) \in Nat
    BY BlockStarts, BlocksAre
  <2> QED BY <2>1 DEF DeviceFit
<1>5. PICK stop \in EraseStops(x.b) : mem' = MemHalfErased(x.b, stop)
  BY DEF EraseFails
<1>6. /\ mem' \subseteq mem /\ held' \subseteq held
      /\ \A c \in held : c.b # x.b /\ c.b # x.b + 1 => c \in held'
      /\ backend # "sd_erase" => \A c \in held : c.b # x.b => c \in held'
      /\ mem' # mem => KeyOf(x.b) \notin held'
  <2> DEFINE b == x.b
  <2>1. b \in Block /\ stop \in EraseStops(b) /\ mem' = MemHalfErased(b, stop)
    BY <1>5
  <2> HIDE DEF b
  <2>2. /\ mem' \subseteq mem /\ held' \subseteq held
        /\ \A c \in held : c.b # b /\ c.b # b + 1 => c \in held'
        /\ backend # "sd_erase" => \A c \in held : c.b # b => c \in held'
        /\ mem' # mem => ~ Keyed(b)'
    BY <1>4, <2>1, HeldHalfErased
  <2>3. Keyed(b)' <=> KeyOf(b) \in held'
    BY DEF Keyed, Holds, KeyOf, STAT
  <2> QED BY <2>2, <2>3 DEF b
<1>7. DeviceFit'
  BY <1>1, <1>3, <1>6 DEF DeviceFit, pre, Used, None, SdBlock
<1> QED BY <1>1, <1>2, <1>6, <1>7

\* Nothing of what the table rests on was touched.
LEMMA TableHeld ==
  ASSUME TableFit, UNCHANGED << fs, whole >>, lost => lost',
         \A b \in Block : IsInode0(b)' => IsInode0(b), Rooted => Rooted', Rooted' => whole
  PROVE  TableFit'
<1>1. (Grown(Newest) <=> Grown(Newest)') /\ ichain' = ichain /\ files' = files /\ dirty' = dirty /\ whole' = whole
  BY DEF fs, Grown, Newest, EntriesPerBlock
<1> QED BY <1>1 DEF TableFit, Used

(* Another block was erased, or a part of it.                              *)
LEMMA RootKept ==
  ASSUME NEW e, e # First, e + 1 # First, held' \subseteq held,
         \A c \in held : c.b # e /\ c.b # e + 1 => c \in held'
  PROVE  Rooted <=> Rooted'
<1> DEFINE k == [ b |-> First, s |-> STAT, part |-> "first", tag |-> "key" ]
           i == [ b |-> First, s |-> INIT, part |-> "spare", tag |-> "inode0" ]
<1>1. k.b = First /\ i.b = First
  OBVIOUS
<1>2. (k \in held <=> k \in held') /\ (i \in held <=> i \in held')
  <2> HIDE DEF k, i
  <2> QED BY <1>1
<1> QED BY <1>2 DEF Rooted, Keyed, IsInode0, Holds, STAT, INIT

(* A page operation of a call that is not a format.                        *)
LEMMA GentleStep ==
  ASSUME Facts, DeviceInv, ScriptFit, call.for # "format", Step
  PROVE  PlanFit' /\ ScriptFit' /\ TableFit' /\ MountFit' /\ DeviceFit'
<1> DEFINE x == Head(todo)
<1>1. on /\ todo # << >> /\ (Access(x) \/ Program(x) \/ WriteFails(x) \/ Lists(x) \/ DoErase(x) \/ EraseFails(x))
  BY DEF Step
<1>2. PlanFit /\ TableFit /\ MountFit /\ DeviceFit /\ Within(todo, Allowed)
  BY DEF Facts, ScriptFit
<1>3. Within(Tail(todo), Allowed) /\ x \in Allowed /\ x \in Gentle
  BY <1>1, <1>2, WithinTail, CalmGentle
<1>4. call' = call => Within(<< >>, Calm) /\ call'.for # "format"
  BY WithinNone
<1>5. ASSUME plan' = plan, call' = call, todo' = Tail(todo) PROVE ScriptFit'
  <2>1. CASE Allowed = Calm
    BY <1>3, <1>4, <1>5, <2>1, ScriptCalm
  <2>2. CASE Allowed # Calm
    <3>1. Allowed = Gentle /\ (call'.for = "rm" \/ plan' \in Primes)
      BY <1>5, <2>2 DEF Allowed
    <3> QED BY <1>3, <1>4, <1>5, <3>1, ScriptGentle
  <2> QED BY <2>1, <2>2
<1> HIDE DEF x
<1>6. CASE Access(x)
  <2>1. x.op \in { "open", "see", "raw", "probe" } => x.b \in Block /\ x.s \in 0 .. LastSector
    BY <1>3 DEF Gentle, Request
  <2>2. /\ DeviceFit' /\ plan' = plan /\ todo' = Tail(todo)
        /\ UNCHANGED << backend, mem, lost, fs, mounts, call, faults >>
    BY <1>2, <1>6, <2>1, AccessIs
  <2>3. TableFit' /\ MountFit' /\ PlanFit'
    BY <1>2, <2>2, TableStays, MountStays, PlanStays DEF fs, mounts
  <2> QED BY <1>5, <2>2, <2>3
<1>7. CASE Program(x)
  <2>1. Programming(x) /\ (x.b = First => x.op = "write" /\ x.s # STAT) /\ x.tag # "inode0"
    BY <1>3, <1>7 DEF Program, Programs, Gentle, Request
  <2>2. /\ DeviceFit' /\ plan' = plan /\ todo' = Tail(todo)
        /\ \A c \in held' : c \in held \/ c = Content(x)
        /\ \A c \in held : c.b # x.b \/ c.s # x.s => c \in held'
        /\ \A c \in held : c.part = "spare" /\ x.part # "spare" => c \in held'
        /\ UNCHANGED << backend, lost, files, dirty, state, inode0, on, call, faults >>
    BY <1>1, <1>2, <1>7, <2>1, ProgramIs DEF x
  <2>3. UNCHANGED << whole, ichain >>
    BY <1>7 DEF Program, FormatDone
  <2>4. \A b \in Block : IsInode0(b)' => IsInode0(b)
    BY <2>1, <2>2 DEF IsInode0, Holds, Content, INIT
  <2>5. (Rooted => Rooted') /\ (Rooted' => whole)
    <3> DEFINE k == [ b |-> First, s |-> STAT, part |-> "first", tag |-> "key" ]
               i == [ b |-> First, s |-> INIT, part |-> "spare", tag |-> "inode0" ]
    <3>1. k \in held <=> k \in held'
      <4>1. k.b # x.b \/ k.s # x.s
        BY <2>1
      <4>2. k # Content(x)
        BY <4>1 DEF Content
      <4> HIDE DEF k
      <4> QED BY <2>2, <4>1, <4>2
    <3>2. i \in held => i \in held'
      <4>1. i.b # x.b \/ (i.part = "spare" /\ x.part # "spare")
        BY <2>1 DEF Programming
      <4> HIDE DEF i
      <4> QED BY <2>2, <4>1
    <3>3. Keyed(First)' <=> Keyed(First)
      BY <3>1 DEF Keyed, Holds, STAT
    <3>4. IsInode0(First) <=> IsInode0(First)'
      BY <2>4, <3>2, BlocksAre DEF IsInode0, Holds, INIT
    <3>5. Rooted => whole
      BY <1>2 DEF TableFit
    <3> QED BY <3>3, <3>4, <3>5 DEF Rooted
  <2>6. TableFit'
    BY <1>2, <2>2, <2>3, <2>4, <2>5, TableHeld DEF fs
  <2>7. MountFit' /\ PlanFit'
    BY <1>2, <2>2, <2>3, <2>5, MountHeld, PlanStays
  <2> QED BY <1>5, <2>2, <2>6, <2>7
<1>8. CASE WriteFails(x)
  <2>1. /\ DeviceFit' /\ plan' = plan /\ todo' = Tail(todo) /\ mem' = mem /\ lost' = TRUE /\ FormatDone(x)
        /\ UNCHANGED << backend, files, dirty, state, inode0, on, call >>
    BY <1>2, <1>8, WriteFailsIs
  <2>2. UNCHANGED << whole, ichain >>
    BY <2>1 DEF FormatDone
  <2> QED BY <1>2, <1>5, <2>1, <2>2, TableStays, MountStays, PlanStays
<1>9. CASE Lists(x)
  <2>1. /\ plan' = plan /\ todo' = Tail(todo) /\ UNCHANGED << layer, backend, fs, mounts, call, faults >>
        /\ ((x.op = "push" /\ Push(x.b)) \/ Reinitialize)
    BY <1>9 DEF Lists, Goto, Aside
  <2>2. available' \in Seq(Used) /\ n' = Len(available')
    <3>1. CASE x.op = "push" /\ Push(x.b)
      <4>1. x.b \in Used
        BY <1>3, <3>1 DEF Gentle
      <4>2. available' = Append(available, x.b) /\ n' = n + 1 /\ available \in Seq(Used) /\ n = Len(available)
        BY <1>2, <3>1 DEF Push, DeviceFit
      <4> DEFINE b == x.b
      <4>3. b \in Used /\ available' = Append(available, b)
        BY <4>1, <4>2
      <4> HIDE DEF b
      <4> QED BY <4>2, <4>3
    <3>2. CASE Reinitialize
      BY <3>2 DEF Reinitialize
    <3> QED BY <2>1, <3>1, <3>2
  <2>3. DeviceFit'
    BY <1>2, <2>1, <2>2 DEF DeviceFit, layer, mounts, Used, None, SdBlock
  <2>4. TableFit' /\ MountFit' /\ PlanFit'
    BY <1>2, <2>1, TableStays, MountStays, PlanStays DEF fs, mounts, layer
  <2> QED BY <1>5, <2>1, <2>3, <2>4
<1>10. CASE DoErase(x)
  <2>1. x.b \in Used
    BY <1>3, <1>10 DEF DoErase, Gentle
  <2>2. x.b \in Block /\ x.b # First /\ x.b + 1 # First
    BY <2>1, BlocksAre
  <2>3. /\ DeviceFit' /\ plan' = plan /\ todo' = Tail(todo) /\ FormatBegun
        /\ held' \subseteq held
        /\ \A c \in held : c.b # x.b /\ c.b # x.b + 1 => c \in held'
        /\ UNCHANGED << backend, state, inode0, on, call, faults >>
    BY <1>2, <1>10, <2>2, EraseIs
  <2>4. UNCHANGED << whole, lost, fs >>
    BY <2>3 DEF FormatBegun
  <2>5. \A b \in Block : IsInode0(b)' => IsInode0(b)
    BY <2>3 DEF IsInode0, Holds, INIT
  <2>6. (Rooted => Rooted') /\ (Rooted' => whole)
    BY <1>2, <2>2, <2>3, RootKept DEF TableFit
  <2>7. TableFit'
    BY <1>2, <2>4, <2>5, <2>6, TableHeld
  <2>8. MountFit' /\ PlanFit'
    BY <1>2, <2>3, <2>4, <2>6, MountHeld, PlanStays DEF fs
  <2> QED BY <1>5, <2>3, <2>7, <2>8
<1>11. CASE EraseFails(x)
  <2>1. x.op = "erase" /\ x.b \in Block /\ x.b \in Used
    BY <1>3, <1>11, BlocksAre DEF EraseFails, Gentle
  <2>2. /\ DeviceFit' /\ held' \subseteq held
        /\ \A c \in held : c.b # x.b /\ c.b # x.b + 1 => c \in held'
        /\ IF mem' = mem THEN UNCHANGED << whole, lost, fs >> ELSE FormatBegun
        /\ UNCHANGED << state, inode0, on, call >>
        /\ call.for \in { "format", "mount" } => plan' = << >> /\ todo' = << >>
        /\ call.for = "rm" => plan' = plan /\ todo' = Tail(todo)
        /\ call.for \notin { "format", "mount", "rm" } => plan' = Tail(plan) /\ todo' = << >>
    BY <1>2, <1>11, <2>1, EraseFailsIs
  <2>3. UNCHANGED << whole, lost, fs >>
    BY <2>2 DEF FormatBegun
  <2>4. (Rooted => Rooted') /\ (Rooted' => whole)
    <3>1. x.b # First /\ x.b + 1 # First
      BY <2>1, BlocksAre
    <3> QED BY <1>2, <2>2, <3>1, RootKept DEF TableFit
  <2>5. TableFit'
    <3>1. \A b \in Block : IsInode0(b)' => IsInode0(b)
      BY <2>2 DEF IsInode0, Holds, INIT
    <3> QED BY <1>2, <2>3, <2>4, <3>1, TableHeld
  <2>6. call.for = "rm" \/ plan \in Primes
    BY <1>3, <2>1 DEF Allowed, Calm
  <2>7. call' = [ for |-> call'.for, f |-> call'.f, b |-> call'.b ]
    BY <1>2, <2>2 DEF PlanFit
  <2>8. CASE call.for = "mount"
    <3>1. plan' = << >> /\ todo' = << >>
      BY <2>2, <2>8
    <3> QED BY <1>2, <1>4, <2>2, <2>5, <2>7, <2>3, <2>4, <3>1, MountHeld, PlanStops, ScriptCalm
  <2>9. CASE call.for = "rm"
    <3>1. plan' = plan /\ todo' = Tail(todo)
      BY <2>2, <2>9
    <3> QED BY <1>2, <1>5, <2>2, <2>5, <2>3, <2>4, <3>1, MountHeld, PlanStays DEF fs
  <2>10. CASE call.for \notin { "mount", "rm" }
    <3>1. plan' = Tail(plan) /\ todo' = << >> /\ plan \in Primes
      BY <2>2, <2>6, <2>10
    <3>2. plan # << >>
      BY <3>1, PlansAre DEF Primes
    <3>3. PlanFit'
      BY <1>2, <2>2, <2>3, <3>1, PrimeDone
    <3> QED BY <1>2, <1>4, <2>2, <2>5, <2>3, <2>4, <3>1, <3>2, <3>3, MountHeld, ScriptCalm
  <2> QED BY <2>8, <2>9, <2>10
<1> QED BY <1>1, <1>6, <1>7, <1>8, <1>9, <1>10, <1>11 DEF x

LEMMA UpToEight ==
  ASSUME NEW k \in Nat, k > 0
  PROVE  /\ k > 8 \/ k = 8 \/ k = 7 \/ k = 6 \/ k = 5 \/ k = 4 \/ k = 3 \/ k = 2 \/ k = 1
         /\ k > 8 => k > 5 /\ k # 4 /\ (k # 9 => k > 9)
OBVIOUS

(* A format, from what is left of it.                                      *)
LEMMA FormatHead ==
  ASSUME FormatFit, IsList(todo), todo # << >>
  PROVE  /\ Len(todo) \in Nat \ {0} /\ Head(todo) = todo[1] /\ plan = << >>
         /\ Len(todo) > 8 => Clearing(todo[1])
         /\ Len(todo) <= 8 => todo[1] = Setup[9 - Len(todo)] /\ ~ whole
         /\ whole /\ todo[1].op = "open" => Len(todo) > 9 /\ todo[2].op = "erase" /\ todo[2].b = First
         /\ whole /\ todo[1].op = "erase" => todo[1].b = First
<1> DEFINE L == Len(todo)
<1>1. L \in Nat \ {0} /\ Head(todo) = todo[1]
  BY ListTail
<1>2. 1 \in 1 .. L
  BY <1>1
<1>3. L > 8 => Clearing(todo[1])
  BY <1>1, <1>2 DEF FormatFit
<1>4. L <= 8 => todo[1] = Setup[9 - L]
  <2>1. 1 - (L - 8) = 9 - L
    BY <1>1
  <2>2. L <= 8 => 1 > L - 8
    BY <1>1
  <2> QED BY <1>2, <2>1, <2>2 DEF FormatFit
<1>5. L <= 8 => ~ whole
  BY <1>1 DEF FormatFit
<1>6. ASSUME whole, todo[1].op = "open" PROVE L > 9 /\ todo[2].op = "erase" /\ todo[2].b = First
  <2>1. L > 8 /\ todo[2].op = "erase" /\ todo[2].b = First
    BY <1>6 DEF FormatFit
  <2>2. L # 9
    <3> SUFFICES ASSUME L = 9 PROVE FALSE
      OBVIOUS
    <3>1. 2 \in 1 .. L /\ 2 > L - 8 /\ 2 - (L - 8) = 1
      OBVIOUS
    <3>2. todo[2] = Setup[1]
      BY <3>1 DEF FormatFit
    <3>3. Setup[1].op = "open"
      <4> DEFINE y == Op("open", First, STAT, "", "")
      <4>1. y.op = "open"
        BY DEF Op
      <4>2. Setup[1] = y
        BY SetupIs
      <4> HIDE DEF y
      <4> QED BY <4>1, <4>2
    <3> QED BY <2>1, <3>2, <3>3
  <2>3. L \in Nat /\ L > 8
    BY <1>1, <2>1
  <2> HIDE DEF L
  <2>4. L > 9
    BY <2>2, <2>3, UpToEight
  <2> QED BY <2>1, <2>4 DEF L
<1>7. ASSUME whole, todo[1].op = "erase" PROVE todo[1].b = First
  BY <1>7 DEF FormatFit
<1>8. plan = << >>
  BY DEF FormatFit
<1> QED BY <1>1, <1>3, <1>4, <1>5, <1>6, <1>7, <1>8

(* Which operation of a format does what.                                  *)
LEMMA FormatOps ==
  ASSUME FormatFit, IsList(todo), todo # << >>, NEW x, x = todo[1], NEW L \in Nat, L = Len(todo)
  PROVE  /\ x.op \in { "open", "close", "erase", "write", "spare" }
         /\ x.op \in { "open", "erase" } => x.b \in Block /\ x.s \in 0 .. LastSector
         /\ x.op = "erase" => L > 5
         /\ x.op = "close" => L = 7
         /\ L = 4 => x.op = "write"
         /\ L = 6 => x.op = "erase" /\ x.b = First
         /\ x.op = "write" => \/ L = 4 /\ x = Op("write", First, STAT, "first", "key")
                              \/ L = 2 /\ x = Op("write", First, INIT, "first", "inode")
         /\ x.op = "spare" => L = 1 /\ x = Op("spare", First, INIT, "spare", "inode0")
<1>1. L \in Nat \ {0} /\ (L > 8 => Clearing(x)) /\ (L <= 8 => x = Setup[9 - L])
  BY FormatHead
<1>2. STAT \in 0 .. LastSector /\ INIT \in 0 .. LastSector /\ 0 \in 0 .. LastSector /\ First \in Block
  BY LastSectorIs, BlocksAre DEF STAT, INIT
<1>0. L \in Nat /\ L > 0
  BY <1>1
<1>3. ASSUME L > 8 PROVE x.op \in { "open", "erase" } /\ x.b \in Block /\ x.s \in 0 .. LastSector /\ L > 5 /\ L # 4
  <2>1. x.op \in { "open", "erase" } /\ x.b \in Block /\ x.s \in 0 .. LastSector
    BY <1>1, <1>2, <1>3 DEF Clearing
  <2>2. L > 5 /\ L # 4
    BY <1>0, <1>3, UpToEight
  <2> QED BY <2>1, <2>2
<1>4. ASSUME L = 8 PROVE x.op = "open" /\ x.b \in Block /\ x.s \in 0 .. LastSector
  <2> DEFINE y == Op("open", First, STAT, "", "")
  <2>1. x = y
    <3>1. 9 - L = 1 /\ L <= 8
      BY <1>4
    <3>2. x = Setup[1]
      BY <1>1, <3>1
    <3> QED BY <3>2, SetupIs
  <2>2. y.op = "open" /\ y.b = First /\ y.s = STAT
    BY DEF Op
  <2> HIDE DEF y
  <2> QED BY <1>2, <2>1, <2>2
<1>5. ASSUME L = 7 PROVE x.op = "close"
  <2> DEFINE y == Op("close", None, 0, "", "")
  <2>1. x = y
    <3>1. 9 - L = 2 /\ L <= 8
      BY <1>5
    <3>2. x = Setup[2]
      BY <1>1, <3>1
    <3> QED BY <3>2, SetupIs
  <2>2. y.op = "close"
    BY DEF Op
  <2> HIDE DEF y
  <2> QED BY <1>2, <2>1, <2>2
<1>6. ASSUME L = 6 PROVE x.op = "erase" /\ x.b = First /\ x.b \in Block /\ x.s \in 0 .. LastSector
  <2> DEFINE y == Op("erase", First, 0, "", "")
  <2>1. x = y
    <3>1. 9 - L = 3 /\ L <= 8
      BY <1>6
    <3>2. x = Setup[3]
      BY <1>1, <3>1
    <3> QED BY <3>2, SetupIs
  <2>2. y.op = "erase" /\ y.b = First /\ y.s = 0
    BY DEF Op
  <2> HIDE DEF y
  <2> QED BY <1>2, <2>1, <2>2
<1>7. ASSUME L = 5 PROVE x.op = "open" /\ x.b \in Block /\ x.s \in 0 .. LastSector
  <2> DEFINE y == Op("open", First, STAT, "", "")
  <2>1. x = y
    <3>1. 9 - L = 4 /\ L <= 8
      BY <1>7
    <3>2. x = Setup[4]
      BY <1>1, <3>1
    <3> QED BY <3>2, SetupIs
  <2>2. y.op = "open" /\ y.b = First /\ y.s = STAT
    BY DEF Op
  <2> HIDE DEF y
  <2> QED BY <1>2, <2>1, <2>2
<1>8. ASSUME L = 4 PROVE x.op = "write" /\ x = Op("write", First, STAT, "first", "key")
  <2> DEFINE y == Op("write", First, STAT, "first", "key")
  <2>1. x = y
    <3>1. 9 - L = 5 /\ L <= 8
      BY <1>8
    <3>2. x = Setup[5]
      BY <1>1, <3>1
    <3> QED BY <3>2, SetupIs
  <2>2. y.op = "write"
    BY DEF Op
  <2> QED BY <1>2, <2>1, <2>2 DEF y
<1>9. ASSUME L = 3 PROVE x.op = "open" /\ x.b \in Block /\ x.s \in 0 .. LastSector
  <2> DEFINE y == Op("open", First, INIT, "", "")
  <2>1. x = y
    <3>1. 9 - L = 6 /\ L <= 8
      BY <1>9
    <3>2. x = Setup[6]
      BY <1>1, <3>1
    <3> QED BY <3>2, SetupIs
  <2>2. y.op = "open" /\ y.b = First /\ y.s = INIT
    BY DEF Op
  <2> HIDE DEF y
  <2> QED BY <1>2, <2>1, <2>2
<1>10. ASSUME L = 2 PROVE x.op = "write" /\ x = Op("write", First, INIT, "first", "inode")
  <2> DEFINE y == Op("write", First, INIT, "first", "inode")
  <2>1. x = y
    <3>1. 9 - L = 7 /\ L <= 8
      BY <1>10
    <3>2. x = Setup[7]
      BY <1>1, <3>1
    <3> QED BY <3>2, SetupIs
  <2>2. y.op = "write"
    BY DEF Op
  <2> QED BY <1>2, <2>1, <2>2 DEF y
<1>11. ASSUME L = 1 PROVE x.op = "spare" /\ x = Op("spare", First, INIT, "spare", "inode0")
  <2> DEFINE y == Op("spare", First, INIT, "spare", "inode0")
  <2>1. x = y
    <3>1. 9 - L = 8 /\ L <= 8
      BY <1>11
    <3>2. x = Setup[8]
      BY <1>1, <3>1
    <3> QED BY <3>2, SetupIs
  <2>2. y.op = "spare"
    BY DEF Op
  <2> QED BY <1>2, <2>1, <2>2 DEF y
<1>12. L > 8 \/ L = 8 \/ L = 7 \/ L = 6 \/ L = 5 \/ L = 4 \/ L = 3 \/ L = 2 \/ L = 1
  BY <1>0, UpToEight
<1>13. x.op \in { "open", "close", "erase", "write", "spare" }
  BY <1>3, <1>4, <1>5, <1>6, <1>7, <1>8, <1>9, <1>10, <1>11, <1>12
<1>14. x.op \in { "open", "erase" } => x.b \in Block /\ x.s \in 0 .. LastSector
  BY <1>3, <1>4, <1>5, <1>6, <1>7, <1>8, <1>9, <1>10, <1>11, <1>12
<1>15. x.op = "erase" => L > 5
  <2>1. x.op = "erase" => L > 8 \/ L = 6
    BY <1>3, <1>4, <1>5, <1>6, <1>7, <1>8, <1>9, <1>10, <1>11, <1>12
  <2>2. L = 6 => L > 5
    OBVIOUS
  <2> QED BY <1>3, <2>1, <2>2
<1>17. (L = 4 => x.op = "write") /\ (x.op = "close" => L = 7)
  BY <1>3, <1>4, <1>5, <1>6, <1>7, <1>8, <1>9, <1>10, <1>11, <1>12
<1>16. (x.op = "write" => L = 4 \/ L = 2) /\ (x.op = "spare" => L = 1)
  BY <1>3, <1>4, <1>5, <1>6, <1>7, <1>8, <1>9, <1>10, <1>11, <1>12
<1> QED BY <1>6, <1>8, <1>10, <1>11, <1>13, <1>14, <1>15, <1>16, <1>17

LEMMA FormatGoes ==
  ASSUME FormatFit, IsList(todo), todo # << >>, todo' = Tail(todo), plan' = plan,
         whole' => \/ Len(todo) = 1
                   \/ whole /\ todo[1].op = "open",
         ~ lost' /\ Len(todo) <= 4 => Keyed(First)',
         1 < Len(todo) /\ Len(todo) <= 6 => ~ IsInode0(First)'
  PROVE  FormatFit'
<1> DEFINE u == todo'  L == Len(todo)
<1>1. /\ IsList(u) /\ Len(u) = L - 1 /\ L \in Nat \ {0}
      /\ \A i \in 1 .. L - 1 : u[i] = todo[i + 1]
  BY ListTail
<1>2. plan = << >> /\ (whole /\ todo[1].op = "open" => L > 9 /\ todo[2].op = "erase" /\ todo[2].b = First)
  BY FormatHead
<1>3. ASSUME NEW i \in 1 .. Len(u), i > Len(u) - 8 PROVE u[i] = Setup[i - (Len(u) - 8)]
  <2>1. i + 1 \in 1 .. L /\ i + 1 > L - 8 /\ (i + 1) - (L - 8) = i - (Len(u) - 8) /\ u[i] = todo[i + 1]
    BY <1>1, <1>3
  <2>2. todo[i + 1] = Setup[(i + 1) - (L - 8)]
    BY <2>1 DEF FormatFit
  <2> QED BY <2>1, <2>2
<1>4. ASSUME NEW i \in 1 .. Len(u), i <= Len(u) - 8 PROVE Clearing(u[i])
  <2>1. i + 1 \in 1 .. L /\ i + 1 <= L - 8 /\ u[i] = todo[i + 1]
    BY <1>1, <1>4
  <2> QED BY <2>1 DEF FormatFit
<1>5. ASSUME u # << >>, whole' PROVE Len(u) > 8 /\ u[1].op = "erase" /\ u[1].b = First
  <2>1. L # 1
    BY <1>1, <1>5, ListLen
  <2>2. L > 9 /\ todo[2].op = "erase" /\ todo[2].b = First
    BY <1>2, <1>5, <2>1
  <2>3. 1 \in 1 .. L - 1 /\ 1 + 1 = 2 /\ Len(u) > 8
    BY <1>1, <2>2
  <2>4. u[1] = todo[2]
    BY <1>1, <2>3
  <2> QED BY <2>2, <2>3, <2>4
<1>6. (~ lost' /\ Len(u) <= 3 => Keyed(First)') /\ (u # << >> /\ Len(u) <= 5 => ~ IsInode0(First)')
  <2>1. u # << >> => Len(u) # 0
    BY <1>1, ListLen
  <2> QED BY <1>1, <2>1
<1>7. (Setup = Setup') /\ plan' = << >>
  BY <1>2 DEF Setup, Op
<1> QED BY <1>3, <1>4, <1>5, <1>6, <1>7 DEF FormatFit, Clearing

LEMMA FormatStep ==
  ASSUME Facts, DeviceInv, ScriptFit, call.for = "format", Step
  PROVE  PlanFit' /\ ScriptFit' /\ TableFit' /\ MountFit' /\ DeviceFit'
<1> DEFINE x == Head(todo)  L == Len(todo)
<1>1. on /\ todo # << >> /\ (Access(x) \/ Program(x) \/ WriteFails(x) \/ Lists(x) \/ DoErase(x) \/ EraseFails(x))
  BY DEF Step
<1>2. PlanFit /\ TableFit /\ MountFit /\ DeviceFit /\ FormatFit /\ IsList(todo)
  BY DEF Facts, ScriptFit, DeviceInv, Script
<1>3. L \in Nat \ {0} /\ x = todo[1] /\ plan = << >> /\ (L <= 8 => ~ whole)
      /\ (whole /\ x.op = "erase" => x.b = First)
  BY <1>1, <1>2, FormatHead
<1>4. /\ x.op \in { "open", "close", "erase", "write", "spare" }
      /\ x.op \in { "open", "erase" } => x.b \in Block /\ x.s \in 0 .. LastSector
      /\ x.op = "erase" => L > 5
      /\ x.op = "close" => L = 7
      /\ L = 4 => x.op = "write"
      /\ L = 6 => x.op = "erase" /\ x.b = First
      /\ x.op = "write" => \/ L = 4 /\ x = Op("write", First, STAT, "first", "key")
                           \/ L = 2 /\ x = Op("write", First, INIT, "first", "inode")
      /\ x.op = "spare" => L = 1 /\ x = Op("spare", First, INIT, "spare", "inode0")
  BY <1>1, <1>2, <1>3, FormatOps
<1>5. ASSUME call' = call, FormatFit' PROVE ScriptFit'
  BY <1>5 DEF ScriptFit
<1>6. ASSUME plan' = plan, call' = call PROVE PlanFit'
  BY <1>2, <1>3, <1>6, PlanStops DEF PlanFit
<1>7. ASSUME plan' = << >>, call' = call, UNCHANGED << state, inode0 >> PROVE MountFit'
  BY <1>2, <1>7 DEF MountFit, None
<1>8. ASSUME plan' = << >>, todo' = << >> PROVE FormatFit'
  BY <1>8 DEF FormatFit
<1>9. (~ lost /\ L <= 3 => Keyed(First)) /\ (L <= 5 => ~ IsInode0(First))
  BY <1>1, <1>2 DEF FormatFit
<1>0. todo[1] = x /\ Len(todo) = L /\ x = Head(todo)
  BY <1>3
<1> HIDE DEF x, L
<1> DEFINE k == [ b |-> First, s |-> STAT, part |-> "first", tag |-> "key" ]
           w == [ b |-> First, s |-> INIT, part |-> "spare", tag |-> "inode0" ]
<1>10. (Keyed(First) <=> k \in held) /\ (Keyed(First)' <=> k \in held')
       /\ (IsInode0(First) <=> w \in held) /\ (IsInode0(First)' <=> w \in held')
  BY DEF Keyed, IsInode0, Holds, STAT, INIT
<1>16. ASSUME whole' = FALSE, files' = << >>, ichain' = << >>, dirty' = 0, held' \subseteq held, ~ Rooted'
       PROVE  TableFit'
  <2>1. DOMAIN files' = {} /\ Len(files') = 0 /\ ichain' \in Seq(Block)
    BY <1>16
  <2>2. \A b \in Block : IsInode0(b)' => IsInode0(b)
    BY <1>16 DEF IsInode0, Holds, INIT
  <2> QED BY <1>2, <1>16, <2>1, <2>2 DEF TableFit
<1>17. ASSUME whole' = TRUE, ichain' = << First >>, files' = << >>, dirty' = 0,
              ~ lost' => Rooted', \A b \in Block : IsInode0(b)' => b = First
       PROVE  TableFit'
  <2>1. ichain' \in Seq(Block) /\ ichain' # << >> /\ ichain'[1] = First /\ Len(ichain') = 1
    BY <1>17, BlocksAre
  <2>2. Len(files') = 0 /\ DOMAIN files' = {}
    BY <1>17
  <2>3. Grown(Newest)'
    <3>1. Newest' = 1
      BY <2>2 DEF Newest
    <3>2. (Newest' - 1) \div EntriesPerBlock = 0
      <4>1. EntriesPerBlock \in Nat \ {0}
        BY EntriesAre
      <4> DEFINE e == EntriesPerBlock
      <4> HIDE DEF e
      <4>2. e \in Nat \ {0} => 0 \div e = 0
        OBVIOUS
      <4> QED BY <3>1, <4>1, <4>2 DEF e
    <3>3. Grown(Newest)' <=> Len(ichain') >= ((Newest' - 1) \div EntriesPerBlock) + 1
      BY DEF Grown, EntriesPerBlock
    <3> QED BY <2>1, <3>2, <3>3
  <2> QED BY <1>17, <2>1, <2>2, <2>3 DEF TableFit
<1>11. CASE Access(x)
  <2>1. x.op \in { "open", "see", "raw", "probe" } => x.b \in Block /\ x.s \in 0 .. LastSector
    BY <1>4
  <2>2. /\ DeviceFit' /\ plan' = plan /\ todo' = Tail(todo)
        /\ UNCHANGED << backend, mem, lost, fs, mounts, call, faults >>
    BY <1>2, <1>11, <2>1, AccessIs
  <2>3. TableFit' /\ MountFit'
    BY <1>2, <1>3, <1>7, <2>2, TableStays DEF fs, mounts
  <2>4. x.op \in { "open", "close" }
    BY <1>4, <1>11 DEF Access
  <2>5. whole' => whole /\ x.op = "open"
    BY <1>3, <1>4, <2>2, <2>4 DEF mounts
  <2>6. (~ lost' /\ L <= 4 => Keyed(First)') /\ (L <= 6 => ~ IsInode0(First)')
    <3>1. L # 4 /\ L # 6
      BY <1>4, <2>4
    <3>2. held' = held
      BY <2>2 DEF held, Named
    <3> QED BY <1>3, <1>9, <1>10, <2>2, <3>1, <3>2
  <2>7. FormatFit'
    BY <1>1, <1>2, <1>3, <2>2, <2>5, <2>6, <1>0, FormatGoes
  <2> QED BY <1>5, <1>6, <2>2, <2>3, <2>7
<1>12. CASE Program(x)
  <2>1. x.op \in { "write", "spare" } /\ L <= 4 /\ ~ whole
    BY <1>3, <1>4, <1>12 DEF Program
  <2>2. /\ x.op = "write" => /\ x.b = First /\ x.part = "first"
                             /\ \/ L = 4 /\ x.s = STAT /\ x.tag = "key"
                                \/ L = 2 /\ x.s = INIT /\ x.tag = "inode"
        /\ x.op = "spare" => L = 1 /\ x.b = First /\ x.s = INIT /\ x.part = "spare" /\ x.tag = "inode0"
    BY <1>4, OpFields
  <2>3. Programming(x)
    <3>1. STAT \in 0 .. LastSector /\ INIT \in 0 .. LastSector /\ First \in Block
      BY LastSectorIs, BlocksAre DEF STAT, INIT
    <3> QED BY <2>1, <2>2, <3>1 DEF Programming
  <2>4. /\ DeviceFit' /\ plan' = plan /\ todo' = Tail(todo)
        /\ \A c \in held' : c \in held \/ c = Content(x)
        /\ Content(x) \in held'
        /\ \A c \in held : c.b # x.b \/ c.s # x.s => c \in held'
        /\ UNCHANGED << backend, lost, files, dirty, state, inode0, on, call, faults >>
    BY <1>0, <1>1, <1>2, <1>12, <2>3, ProgramIs
  <2>5. files = << >> /\ ichain = << >> /\ dirty = 0 /\ \A b \in Block : ~ IsInode0(b)
    <3>1. L <= 5
      BY <1>3, <2>1
    <3> QED BY <1>2, <1>9, <2>1, <3>1 DEF TableFit
  <2>6. ASSUME ~ lost' PROVE Keyed(First)'
    <3>1. CASE L = 4
      <4>1. Content(x) = k
        BY <1>4, <2>2, <3>1 DEF Content
      <4> QED BY <1>10, <2>4, <4>1
    <3>2. CASE L # 4
      <4>1. k \in held
        <5>1. L <= 3
          BY <1>3, <2>1, <3>2
        <5> HIDE DEF k
        <5> QED BY <1>9, <1>10, <2>4, <2>6, <5>1
      <4>2. x.s # k.s
        BY <2>1, <2>2, <3>2 DEF STAT, INIT
      <4> HIDE DEF k
      <4> QED BY <1>10, <2>4, <4>1, <4>2
    <3> QED BY <3>1, <3>2
  <2>7. CASE x.op = "write"
    <3>1. UNCHANGED << whole, ichain >>
      BY <1>12, <2>7 DEF Program, FormatDone
    <3>2. \A b \in Block : ~ IsInode0(b)'
      BY <2>2, <2>4, <2>5, <2>7 DEF IsInode0, Holds, Content, INIT
    <3>3. TableFit'
      BY <1>2, <2>1, <2>4, <2>5, <3>1, <3>2, TableHeld, BlocksAre DEF fs, Rooted
    <3>4. FormatFit'
      BY <1>1, <1>2, <2>1, <2>4, <2>6, <3>1, <3>2, <1>0, BlocksAre, FormatGoes
    <3> QED BY <1>3, <1>5, <1>6, <1>7, <2>4, <3>3, <3>4
  <2>8. CASE x.op = "spare"
    <3>1. whole' = TRUE /\ ichain' = << x.b >> /\ x.b = First /\ L = 1
      BY <1>12, <2>2, <2>8 DEF Program, FormatDone
    <3>2. Content(x) = w
      BY <2>2, <2>8 DEF Content
    <3>3. \A b \in Block : IsInode0(b)' => b = First
      BY <2>2, <2>4, <2>5, <2>8, <3>2 DEF IsInode0, Holds, INIT
    <3>4. IsInode0(First)'
      BY <1>10, <2>4, <3>2
    <3>5. ~ lost' => Rooted'
      BY <2>6, <3>4 DEF Rooted
    <3>6. TableFit'
      BY <1>17, <2>4, <2>5, <3>1, <3>3, <3>5
    <3>7. FormatFit'
      BY <1>1, <1>2, <2>4, <2>6, <3>1, <1>0, FormatGoes
    <3> QED BY <1>3, <1>5, <1>6, <1>7, <2>4, <3>6, <3>7
  <2> QED BY <2>1, <2>7, <2>8
<1>18. CASE WriteFails(x)
  <2>1. /\ DeviceFit' /\ plan' = plan /\ todo' = Tail(todo) /\ mem' = mem /\ lost' = TRUE /\ FormatDone(x)
        /\ UNCHANGED << backend, files, dirty, state, inode0, on, call >>
    BY <1>2, <1>18, WriteFailsIs
  <2>2. x.op \in { "write", "spare" } /\ L <= 4 /\ L <= 5 /\ ~ whole
    BY <1>3, <1>4, <1>18 DEF WriteFails
  <2>3. held' = held /\ ~ IsInode0(First)' /\ files = << >> /\ dirty = 0
    <3>1. held' = held
      BY <2>1 DEF held, Named
    <3> QED BY <1>2, <1>9, <1>10, <2>2, <3>1 DEF TableFit
  <2>4. CASE x.op = "write"
    <3>1. UNCHANGED << whole, ichain >>
      BY <2>1, <2>4 DEF FormatDone
    <3>2. TableFit' /\ FormatFit'
      BY <1>0, <1>1, <1>2, <2>1, <2>2, <2>3, <3>1, TableStays, FormatGoes
    <3> QED BY <1>3, <1>5, <1>6, <1>7, <2>1, <3>2
  <2>5. CASE x.op = "spare"
    <3>1. whole' = TRUE /\ ichain' = << First >> /\ L = 1
      BY <1>4, <2>1, <2>5, OpFields DEF FormatDone
    <3>2. \A b \in Block : IsInode0(b)' => b = First
      BY <1>2, <2>3 DEF TableFit, IsInode0, Holds, INIT
    <3>3. TableFit' /\ FormatFit'
      BY <1>0, <1>1, <1>2, <1>17, <2>1, <2>3, <3>1, <3>2, FormatGoes
    <3> QED BY <1>3, <1>5, <1>6, <1>7, <2>1, <3>3
  <2> QED BY <2>2, <2>4, <2>5
<1>13. CASE Lists(x)
  BY <1>4, <1>13 DEF Lists
<1>14. CASE DoErase(x)
  <2>1. x.op = "erase" /\ x.b \in Block /\ L > 5
    BY <1>4, <1>14 DEF DoErase
  <2>2. /\ DeviceFit' /\ plan' = plan /\ todo' = Tail(todo) /\ FormatBegun
        /\ held' \subseteq held /\ \A c \in held' : c.b # x.b
        /\ UNCHANGED << backend, state, inode0, on, call, faults >>
    BY <1>2, <1>14, <2>1, EraseIs
  <2>3. whole' = FALSE /\ lost' = FALSE /\ files' = << >> /\ ichain' = << >> /\ dirty' = 0
    BY <2>2 DEF FormatBegun
  <2>4. ~ Rooted' /\ (x.b = First => ~ IsInode0(First)')
    <3>1. x.b = First => ~ Keyed(First)' /\ ~ IsInode0(First)'
      BY <2>2 DEF Keyed, IsInode0, Holds, STAT, INIT
    <3>2. Rooted' => Rooted
      BY <1>10, <2>2 DEF Rooted
    <3>3. Rooted => x.b = First
      BY <1>2, <1>3, <2>1 DEF TableFit
    <3> QED BY <3>1, <3>2, <3>3 DEF Rooted
  <2>5. TableFit'
    BY <1>16, <2>2, <2>3, <2>4
  <2>6. FormatFit'
    <3>1. ~ (L <= 4) /\ (L <= 6 => ~ IsInode0(First)')
      BY <1>3, <1>4, <2>1, <2>4
    <3> QED BY <1>1, <1>2, <1>3, <2>1, <2>2, <2>3, <3>1, <1>0, FormatGoes
  <2> QED BY <1>3, <1>5, <1>6, <1>7, <2>2, <2>5, <2>6
<1>15. CASE EraseFails(x)
  <2>1. x.op = "erase" /\ x.b \in Block
    BY <1>4, <1>15 DEF EraseFails
  <2>2. /\ DeviceFit' /\ held' \subseteq held /\ (mem' # mem => KeyOf(x.b) \notin held')
        /\ IF mem' = mem THEN UNCHANGED << whole, lost, fs >> ELSE FormatBegun
        /\ UNCHANGED << state, inode0, on, call >> /\ plan' = << >> /\ todo' = << >>
    BY <1>2, <1>15, <2>1, EraseFailsIs
  <2>3. TableFit'
    <3>1. CASE mem' = mem
      BY <1>2, <2>2, <3>1, TableStays DEF fs
    <3>2. CASE mem' # mem
      <4>1. whole' = FALSE /\ files' = << >> /\ ichain' = << >> /\ dirty' = 0
        BY <2>2, <3>2 DEF FormatBegun
      <4>2. ~ Rooted'
        <5>1. x.b = First => ~ Keyed(First)'
          BY <2>2, <3>2 DEF Keyed, Holds, KeyOf, STAT
        <5>2. Rooted' => Rooted
          BY <1>10, <2>2 DEF Rooted
        <5>3. Rooted => x.b = First
          BY <1>2, <1>3, <2>1 DEF TableFit
        <5> QED BY <5>1, <5>2, <5>3 DEF Rooted
      <4> QED BY <1>16, <2>2, <4>1, <4>2
    <3> QED BY <3>1, <3>2
  <2> QED BY <1>3, <1>5, <1>6, <1>7, <1>8, <2>2, <2>3
<1> QED BY <1>0, <1>1, <1>11, <1>12, <1>13, <1>14, <1>15, <1>18
-----------------------------------------------------------------------------
(* All together.                                                           *)

LEMMA SystemInit == Init => SystemInv
<1> SUFFICES ASSUME Init PROVE SystemInv
  OBVIOUS
<1>1. /\ mem = {} /\ lost = FALSE /\ ichain = << >> /\ files = << >> /\ dirty = 0 /\ state = "reset" /\ inode0 = None
      /\ whole = FALSE /\ plan = << >> /\ todo = << >> /\ faults = 0 /\ backend \in Backends
      /\ dev = [ block |-> None, page |-> 0, erased |-> None ]
      /\ call = [ for |-> "none", f |-> 0, b |-> None ] /\ available = << >> /\ n = 0
  BY DEF Init, PreInit
<1>2. MeantInv
  BY MeantInit
<1>3. PlanFit
  <2>1. << >> \notin BlockTaken /\ << >> \notin EntryPlans
    BY PlansAre DEF BlockTaken, EntryPlans
  <2> QED BY <1>1, <2>1 DEF PlanFit
<1>4. ScriptFit
  <2>1. call.for = "none"
    BY <1>1
  <2> QED BY <1>1, <2>1, WithinNone DEF ScriptFit
<1>5. TableFit
  <2>1. held = {} /\ DOMAIN files = {} /\ Len(files) = 0 /\ ichain \in Seq(Block)
    BY <1>1 DEF held
  <2> QED BY <1>1, <2>1 DEF TableFit, Rooted, IsInode0, Holds
<1>6. MountFit
  <2>1. call.for = "none"
    BY <1>1
  <2> QED BY <1>1, <2>1 DEF MountFit
<1>7. DeviceFit
  <2>1. 0 \in 0 .. PagesPerBlock - 1 /\ 0 \in 0 .. MaxFaults /\ available \in Seq(Used) /\ n = Len(available)
    BY <1>1, PagesAssumption
  <2>2. dev.block = None /\ dev.page = 0 /\ dev.erased = None
    BY <1>1
  <2> QED BY <1>1, <2>1, <2>2 DEF DeviceFit
<1> QED BY <1>2, <1>3, <1>4, <1>5, <1>6, <1>7 DEF SystemInv

LEMMA SystemNext ==
  ASSUME Bad = {}, "reads_hold" \in PageRules, SystemInv, [Next]_vars
  PROVE  SystemInv'
<1>1. MeantInv' /\ FilesFit' /\ MeantInv /\ DeviceInv
  BY MeantNext DEF SystemInv, MeantInv
<1>2. Facts /\ ScriptFit
  BY <1>1 DEF SystemInv, Facts, MeantInv
<1> DEFINE Fits == PlanFit /\ ScriptFit /\ TableFit /\ MountFit /\ DeviceFit
<1>3. CASE Step
  <2>1. CASE call.for = "format"
    BY <1>1, <1>2, <1>3, <2>1, FormatStep DEF SystemInv
  <2>2. CASE call.for # "format"
    BY <1>1, <1>2, <1>3, <2>2, GentleStep DEF SystemInv
  <2> QED BY <2>1, <2>2
<1>4. CASE Flush
  BY <1>1, <1>2, <1>4, FlushFits DEF SystemInv
<1>5. CASE Allocate
  BY <1>1, <1>2, <1>5, AllocateFits DEF SystemInv
<1>6. CASE PrimeEnds
  BY <1>1, <1>2, <1>6, PrimeEndsFits DEF SystemInv
<1>7. ASSUME NEW b \in Block, Draw(b) PROVE SystemInv'
  BY <1>1, <1>2, <1>7, DrawFits DEF SystemInv
<1>8. CASE Create
  BY <1>1, <1>2, <1>8, CreateFits DEF SystemInv
<1>9. CASE AppendInode
  BY <1>1, <1>2, <1>9, AppendInodeFits DEF SystemInv
<1>10. CASE WriteEntry
  BY <1>1, <1>2, <1>10, WriteEntryFits DEF SystemInv
<1>11. CASE LinkTail
  BY <1>1, <1>2, <1>11, LinkTailFits DEF SystemInv
<1>12. ASSUME NEW f \in DOMAIN files, Commit(f) PROVE SystemInv'
  BY <1>1, <1>2, <1>12, CommitFits DEF SystemInv
<1>13. ASSUME NEW f \in DOMAIN files, CommitTail(f) PROVE SystemInv'
  BY <1>1, <1>2, <1>13, CommitTailFits DEF SystemInv
<1>14. ASSUME NEW f \in DOMAIN files, Remove(f) PROVE SystemInv'
  BY <1>1, <1>2, <1>14, RemoveFits DEF SystemInv
<1>15. CASE Look
  BY <1>1, <1>2, <1>15, LookFits DEF SystemInv
<1>16. CASE Format
  BY <1>1, <1>2, <1>16, FormatFits DEF SystemInv
<1>17. CASE Mount
  BY <1>1, <1>2, <1>17, MountFits DEF SystemInv
<1>18. CASE Inspect
  BY <1>1, <1>2, <1>18, InspectFits DEF SystemInv
<1>19. CASE PowerCut
  BY <1>1, <1>2, <1>19, PowerFits DEF SystemInv
<1>20. CASE PowerOn
  <2>1. todo = << >>
    BY <1>1, <1>20 DEF PowerOn, DeviceInv
  <2> QED BY <1>1, <1>2, <1>20, <2>1, PowerFits DEF SystemInv
<1>21. CASE UNCHANGED vars
  <2>1. UNCHANGED << pre, backend, layer, fs, mounts, plan, todo, call, faults >>
    BY <1>21 DEF vars
  <2>2. PlanFit' /\ TableFit' /\ MountFit' /\ DeviceFit'
    BY <1>2, <2>1, PlanStays, TableStays, DeviceStays, RootedStays DEF Facts, fs, mounts, layer, pre, MountFit, None
  <2>3. ScriptFit'
    <3>1. CASE call.for = "format"
      BY <1>2, <2>1, <3>1 DEF ScriptFit, FormatFit, Keyed, IsInode0, Holds, held, Named, mounts, layer,
        Setup, Clearing, Op
    <3>2. CASE call.for # "format"
      <4>1. Within(todo', Allowed) /\ call'.for # "format" /\ plan' = plan /\ call' = call
        BY <1>2, <2>1, <3>2 DEF ScriptFit
      <4>2. CASE Allowed = Calm
        BY <4>1, <4>2, ScriptCalm
      <4>3. CASE Allowed # Calm
        <5>1. Allowed = Gentle /\ (call'.for = "rm" \/ plan' \in Primes)
          BY <4>1, <4>3 DEF Allowed
        <5> QED BY <4>1, <5>1, ScriptGentle
      <4> QED BY <4>2, <4>3
    <3> QED BY <3>1, <3>2
  <2> QED BY <1>1, <2>2, <2>3 DEF SystemInv
<1>22. ASSUME NEW b \in Block, MisDraw(b) PROVE FALSE
  BY <1>22 DEF MisDraw, Misread, MayFail
<1>23. CASE MisMount
  BY <1>23 DEF MisMount, Misread, MayFail
<1> QED BY <1>3, <1>4, <1>5, <1>6, <1>7, <1>8, <1>9, <1>10, <1>11, <1>12, <1>13, <1>14, <1>15,
           <1>16, <1>17, <1>18, <1>19, <1>20, <1>21, <1>22, <1>23 DEF Next

LEMMA SystemTyped == SystemInv => PagesTypeOK
<1> SUFFICES ASSUME SystemInv PROVE PagesTypeOK
  OBVIOUS
<1>1. \A f \in DOMAIN files : files[f].sector \in INIT .. LastSector /\ files[f].chain \in Seq(Block)
  <2>1. Used \subseteq Block
    BY BlocksAre
  <2>2. Seq(Used) \subseteq Seq(Block)
    BY <2>1
  <2> QED BY <2>2 DEF SystemInv, MeantInv, FilesFit, FileFit, TableFit
<1>2. inode0 \in Block \cup { None }
  BY BlocksAre DEF SystemInv, MountFit
<1> QED BY <1>1, <1>2 DEF PagesTypeOK, SystemInv, TableFit, DeviceFit

LEMMA SystemMounts == SystemInv => MountFindsFormat
BY DEF SystemInv, MountFit, TableFit, MountFindsFormat, None

(***************************************************************************)
(* What the calls, the two backends and their page hold stays in its       *)
(* ranges: nothing is written past the end of the memory                   *)
(* (flogfs_linux_mmap.cpp:85-101, flogfs_arduino_sd.cpp:104-131), a file   *)
(* that left a block dirty is a file that exists, and stands at its init   *)
(* sector (flogfs.c:884-896, 1922).                                        *)
(***************************************************************************)
THEOREM PagesTyped ==
  ASSUME Bad = {}, "reads_hold" \in PageRules PROVE Spec => []PagesTypeOK
<1>1. Init => SystemInv
  BY SystemInit
<1>2. SystemInv /\ [Next]_vars => SystemInv'
  BY SystemNext
<1>3. SystemInv => PagesTypeOK
  BY SystemTyped
<1> QED BY <1>1, <1>2, <1>3, PTL DEF Spec

(***************************************************************************)
(* A mount finds an inode table only when a format came to its end and no  *)
(* other has erased anything since, and does find it unless a write was    *)
(* lost (flogfs.c:382-468, 569-601), with any backend: with the wide erase *)
(* of the card (flogfs_arduino_sd.cpp:86-92), erases that fail half way    *)
(* and writes that fail (125, 132); reads are trusted.                     *)
(***************************************************************************)
THEOREM MountsFindFormat ==
  ASSUME Bad = {}, "reads_hold" \in PageRules PROVE Spec => []MountFindsFormat
<1>1. Init => SystemInv
  BY SystemInit
<1>2. SystemInv /\ [Next]_vars => SystemInv'
  BY SystemNext
<1>3. SystemInv => MountFindsFormat
  BY SystemMounts
<1> QED BY <1>1, <1>2, <1>3, PTL DEF Spec

=============================================================================
