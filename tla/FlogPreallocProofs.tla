------------------------- MODULE FlogPreallocProofs -------------------------
(***************************************************************************)
(* Proofs about the preallocation lists, for any set of blocks and any     *)
(* number of slots.  There is one lemma per operation, so that a module    *)
(* that calls the operations can cite them for its own steps.              *)
(***************************************************************************)
EXTENDS FlogPrealloc, FiniteSetTheorems, SequenceTheorems, TLAPS

PreInv == PreTypeOK /\ SlotsConserved /\ ListedOnce

(* Emptying the lists establishes the invariant.                           *)
LEMMA ReinitializeInv ==
  ASSUME Reinitialize
  PROVE  PreInv'
<1>1. nfree' = Slots /\ available' = << >> /\ pending' = {} /\ n' = 0
  BY DEF Reinitialize
<1>2. IsFiniteSet({}) /\ Cardinality({}) = 0
  BY FS_EmptySet
<1>3. PreTypeOK'
  BY <1>1, SlotsAssumption DEF PreTypeOK
<1>4. SlotsConserved'
  BY <1>1, <1>2, SlotsAssumption DEF SlotsConserved
<1>5. ListedOnce'
  BY <1>1 DEF ListedOnce
<1> QED BY <1>3, <1>4, <1>5 DEF PreInv

(* A block that is on no list may be pushed while a slot is free.          *)
LEMMA PushInv ==
  ASSUME PreInv, NEW b \in Block, ~ Contains(b), ~ IsFull, Push(b)
  PROVE  PreInv'
<1> USE DEF PreInv
<1>1. /\ nfree' = nfree - 1 /\ available' = Append(available, b)
      /\ n' = n + 1 /\ pending' = pending
  BY DEF Push
<1>2. /\ available \in Seq(Block) /\ Len(available) \in Nat
      /\ nfree \in 1 .. Slots /\ n = Len(available)
      /\ IsFiniteSet(pending) /\ Cardinality(pending) \in Nat
      /\ nfree + n + Cardinality(pending) = Slots
  BY FS_CardinalityType, SlotsAssumption DEF PreTypeOK, SlotsConserved, IsFull
<1>3. /\ available' \in Seq(Block) /\ Len(available') = Len(available) + 1
      /\ \A i \in 1 .. Len(available) : available'[i] = available[i]
      /\ available'[Len(available) + 1] = b
  BY <1>1, <1>2
<1>4. PreTypeOK'
  BY <1>1, <1>2, <1>3, SlotsAssumption DEF PreTypeOK
<1>5. SlotsConserved'
  BY <1>1, <1>2, <1>3 DEF SlotsConserved
<1>6. ListedOnce'
  <2>1. b \notin pending /\ \A i \in 1 .. Len(available) : available[i] # b
    BY DEF Contains, InAvailable
  <2> QED BY <1>1, <1>2, <1>3, <2>1 DEF ListedOnce
<1> QED BY <1>4, <1>5, <1>6

(* The head of the list may be popped when there is one.                   *)
LEMMA PopInv ==
  ASSUME PreInv, available # << >>, Pop
  PROVE  PreInv'
<1> USE DEF PreInv
<1>1. /\ available' = Tail(available) /\ n' = n - 1 /\ nfree' = nfree
      /\ pending' = pending \cup { Head(available) }
  BY DEF Pop
<1>2. /\ available \in Seq(Block) /\ Len(available) \in Nat \ {0}
      /\ nfree \in 0 .. Slots /\ n = Len(available)
      /\ IsFiniteSet(pending) /\ Cardinality(pending) \in Nat
      /\ nfree + n + Cardinality(pending) = Slots
  BY EmptySeq, FS_CardinalityType DEF PreTypeOK, SlotsConserved
<1>3. /\ Head(available) = available[1] /\ available[1] \in Block
      /\ available' \in Seq(Block) /\ Len(available') = Len(available) - 1
      /\ \A i \in 1 .. Len(available) - 1 : available'[i] = available[i + 1]
  BY <1>1, <1>2, ElementOfSeq
<1>4. available[1] \notin pending
  BY <1>2 DEF ListedOnce
<1>5. /\ IsFiniteSet(pending')
      /\ Cardinality(pending') = Cardinality(pending) + 1
  BY <1>1, <1>2, <1>3, <1>4, FS_AddElement
<1>6. PreTypeOK'
  BY <1>1, <1>2, <1>3 DEF PreTypeOK
<1>7. SlotsConserved'
  BY <1>1, <1>2, <1>3, <1>5 DEF SlotsConserved
<1>8. ListedOnce'
  <2>1. ASSUME NEW i \in 1 .. Len(available'), NEW j \in 1 .. Len(available'),
               available'[i] = available'[j]
        PROVE  i = j
    <3>1. i + 1 \in 1 .. Len(available) /\ j + 1 \in 1 .. Len(available)
      BY <1>2, <1>3
    <3>2. available[i + 1] = available[j + 1]
      BY <1>2, <1>3, <2>1
    <3>3. i + 1 = j + 1
      BY <3>1, <3>2 DEF ListedOnce
    <3> QED BY <3>3
  <2>2. ASSUME NEW i \in 1 .. Len(available')
        PROVE  available'[i] \notin pending'
    <3>1. i + 1 \in 1 .. Len(available) /\ 1 \in 1 .. Len(available) /\ i + 1 # 1
      BY <1>2, <1>3
    <3>2. available[i + 1] # available[1]
      BY <3>1 DEF ListedOnce
    <3>3. available[i + 1] \notin pending
      BY <3>1 DEF ListedOnce
    <3> QED BY <1>1, <1>2, <1>3, <3>2, <3>3
  <2> QED BY <2>1, <2>2 DEF ListedOnce
<1> QED BY <1>6, <1>7, <1>8

(* Any block may be taken off the pending list, on it or not.              *)
LEMMA RemovePendingInv ==
  ASSUME PreInv, NEW b, RemovePending(b)
  PROVE  PreInv'
<1> USE DEF PreInv
<1>1. /\ pending' = pending \ { b } /\ available' = available /\ n' = n
      /\ nfree' = IF b \in pending THEN nfree + 1 ELSE nfree
  BY DEF RemovePending
<1>2. /\ nfree \in 0 .. Slots /\ n = Len(available) /\ n \in Nat
      /\ IsFiniteSet(pending) /\ Cardinality(pending) \in Nat
      /\ nfree + n + Cardinality(pending) = Slots
  BY FS_CardinalityType DEF PreTypeOK, SlotsConserved
<1>3. /\ IsFiniteSet(pending')
      /\ Cardinality(pending') = IF b \in pending THEN Cardinality(pending) - 1
                                                  ELSE Cardinality(pending)
      /\ Cardinality(pending') \in Nat
  BY <1>1, <1>2, FS_RemoveElement, FS_CardinalityType
<1>4. nfree' + n' + Cardinality(pending') = Slots /\ nfree' \in Nat
  BY <1>1, <1>2, <1>3
<1>5. PreTypeOK'
  BY <1>1, <1>2, <1>3, <1>4, SlotsAssumption DEF PreTypeOK
<1>6. SlotsConserved'
  BY <1>1, <1>2, <1>3, <1>4 DEF SlotsConserved
<1>7. ListedOnce'
  BY <1>1 DEF ListedOnce
<1> QED BY <1>5, <1>6, <1>7

LEMMA PreStutter == PreInv /\ UNCHANGED pre => PreInv'
  BY DEF PreInv, PreTypeOK, SlotsConserved, ListedOnce, pre

LEMMA PreInitInv == PreInit => PreInv
<1> SUFFICES ASSUME PreInit PROVE PreInv
  OBVIOUS
<1>1. nfree = Slots /\ available = << >> /\ pending = {} /\ n = 0
  BY DEF PreInit
<1>2. IsFiniteSet({}) /\ Cardinality({}) = 0
  BY FS_EmptySet
<1> QED BY <1>1, <1>2, SlotsAssumption
        DEF PreInv, PreTypeOK, SlotsConserved, ListedOnce

LEMMA PreNextInv == PreInv /\ [PreNext]_pre => PreInv'
<1> SUFFICES ASSUME PreInv, [PreNext]_pre PROVE PreInv'
  OBVIOUS
<1>1. ASSUME NEW b \in Block, ~ Contains(b), ~ IsFull, Push(b) PROVE PreInv'
  BY <1>1, PushInv
<1>2. CASE available # << >> /\ Pop
  BY <1>2, PopInv
<1>3. ASSUME NEW b \in Block, RemovePending(b) PROVE PreInv'
  BY <1>3, RemovePendingInv
<1>4. CASE Reinitialize
  BY <1>4, ReinitializeInv
<1>5. CASE UNCHANGED pre
  BY <1>5, PreStutter
<1> QED BY <1>1, <1>2, <1>3, <1>4, <1>5 DEF PreNext

(***************************************************************************)
(* Whatever the order of the calls, the lists hold blocks of the flash and *)
(* their lengths stay within FS_PREALLOCATE_SIZE (flogfs.c:470-485,        *)
(* 1636-1740).                                                             *)
(***************************************************************************)
THEOREM PreTypeCorrect == PreSpec => []PreTypeOK
<1>1. PreInit => PreInv
  BY PreInitInv
<1>2. PreInv /\ [PreNext]_pre => PreInv'
  BY PreNextInv
<1>3. PreInv => PreTypeOK
  BY DEF PreInv
<1> QED BY <1>1, <1>2, <1>3, PTL DEF PreSpec

(***************************************************************************)
(* Whatever the order of the calls, every slot stays on exactly one list,  *)
(* no block is listed twice and the counter is the length of the list      *)
(* (flogfs.c:470-485, 1636-1740).                                          *)
(***************************************************************************)
THEOREM PreallocCorrect == PreSpec => [](PreTypeOK /\ SlotsConserved /\ ListedOnce)
<1>1. PreInit => PreInv
  BY PreInitInv
<1>2. PreInv /\ [PreNext]_pre => PreInv'
  BY PreNextInv
<1>3. PreInv => PreTypeOK /\ SlotsConserved /\ ListedOnce
  BY DEF PreInv
<1> QED BY <1>1, <1>2, <1>3, PTL DEF PreSpec

=============================================================================
