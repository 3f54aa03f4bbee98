---------------------------- MODULE FlogPrealloc ----------------------------
(***************************************************************************)
(* The preallocation lists of src/src/flogfs.c (flog_prealloc_list_t).     *)
(*                                                                         *)
(* FS_PREALLOCATE_SIZE entries move between three linked lists:            *)
(*                                                                         *)
(*   free       entries that hold no block                                 *)
(*   available  entries that hold a block ready to be handed out           *)
(*   pending    entries whose block was handed out but not opened yet      *)
(*                                                                         *)
(* An entry of the free list is just a slot, so the list is its length;    *)
(* available is consumed in FIFO order, so it is a sequence; the pending   *)
(* list is only ever searched by block number, so it is a set.  n is the   *)
(* counter the code keeps next to the lists.  The age carried by an entry  *)
(* never influences which entry is taken and is left out.                  *)
(*                                                                         *)
(* The module is used twice: FlogFS extends it and calls the operations    *)
(* where the file system does, and PreSpec, which lets them be called in   *)
(* any order their assertions allow, is the contract FlogFS is shown to    *)
(* respect.                                                                *)
(***************************************************************************)
EXTENDS Integers, Sequences, FiniteSets

CONSTANTS
  Block,   \* the blocks of the flash
  Slots    \* FS_PREALLOCATE_SIZE

ASSUME SlotsAssumption == Slots \in Nat \ {0}

VARIABLES
  nfree,      \* length of flogfs.prealloc.free
  available,  \* flogfs.prealloc.available, head first
  pending,    \* the blocks of flogfs.prealloc.pending
  n           \* flogfs.prealloc.n

pre == << nfree, available, pending, n >>

-----------------------------------------------------------------------------
(* The operations, as the rest of the file system calls them.              *)

\* flog_prealloc_initialize
PreInit ==
  /\ nfree = Slots
  /\ available = << >>
  /\ pending = {}
  /\ n = 0

\* flog_prealloc_initialize, on the running system
Reinitialize ==
  /\ nfree' = Slots
  /\ available' = << >>
  /\ pending' = {}
  /\ n' = 0

InAvailable(b) == \E i \in 1 .. Len(available) : available[i] = b

\* Deliberately wrong: only the pending list is searched.
ContainsPending(b) == b \in pending

\* flog_prealloc_contains: an entry of the free list holds no block.
Contains(b) == InAvailable(b) \/ b \in pending

\* flog_prealloc_is_empty, flog_prealloc_is_full
IsEmpty == n = 0
IsFull  == nfree = 0

\* flog_prealloc_push
Push(b) ==
  /\ nfree' = nfree - 1
  /\ available' = Append(available, b)
  /\ n' = n + 1
  /\ UNCHANGED pending

\* flog_prealloc_pop: the head of available becomes pending.
Pop ==
  /\ available' = Tail(available)
  /\ n' = n - 1
  /\ pending' = pending \cup { Head(available) }
  /\ UNCHANGED nfree

\* Deliberately wrong: the slot is unlinked but not given back.
RemovePendingLosesSlot(b) ==
  /\ pending' = pending \ { b }
  /\ UNCHANGED << nfree, available, n >>

\* Deliberately wrong: an entry is freed though the block was not found.
RemovePendingAlwaysFrees(b) ==
  /\ pending' = pending \ { b }
  /\ nfree' = nfree + 1
  /\ UNCHANGED << available, n >>

\* flog_prealloc_block_remove_pending, called whenever a page of b is opened.
RemovePending(b) ==
  /\ pending' = pending \ { b }
  /\ nfree' = IF b \in pending THEN nfree + 1 ELSE nfree
  /\ UNCHANGED << available, n >>

-----------------------------------------------------------------------------
(* The contract: any operation may come next, provided the assertions at   *)
(* its head hold.                                                          *)

PreNext ==
  \/ \E b \in Block : ~ Contains(b) /\ ~ IsFull /\ Push(b)
  \/ available # << >> /\ Pop
  \/ \E b \in Block : RemovePending(b)
  \/ Reinitialize

PreSpec == PreInit /\ [][PreNext]_pre

PreTypeOK ==
  /\ nfree \in 0 .. Slots
  /\ available \in Seq(Block)
  /\ pending \in SUBSET Block
  /\ n \in 0 .. Slots

(***************************************************************************)
(* No entry is lost or forged (flogfs.c:1679-1740): every slot is on       *)
(* exactly one of the three lists, and the counter that decides whether    *)
(* the system is out of space is the length of the available list.         *)
(***************************************************************************)
SlotsConserved ==
  /\ n = Len(available)
  /\ IsFiniteSet(pending)
  /\ nfree + Len(available) + Cardinality(pending) = Slots

(***************************************************************************)
(* A block is listed once: flog_prealloc_push asserts that the block is    *)
(* not on a list already (flogfs.c:1707), so that no two calls of          *)
(* flog_prealloc_pop return the same block while it is still listed.       *)
(***************************************************************************)
ListedOnce ==
  /\ \A i, j \in 1 .. Len(available) :
       available[i] = available[j] => i = j
  /\ \A i \in 1 .. Len(available) : available[i] \notin pending

=============================================================================
