---------------------------- MODULE FlogSDProofs ----------------------------
(***************************************************************************)
(* Proofs about the SD card driver, for a card of any size, any range of   *)
(* millis(), and any number of faults and resets.                          *)
(*                                                                         *)
(* The invariant has three parts.  Control is about the driver alone:      *)
(* which call is at which command, and how long it has waited.  CardInv is *)
(* about what the card serves at each of these.  HeldInv is about the data *)
(* and needs a card that carries out the erases it has begun.              *)
(***************************************************************************)
EXTENDS FlogSD, TLAPS

-----------------------------------------------------------------------------
(* The invariant.                                                          *)

\* The commands and waits of each call.
Stages(name) ==
  CASE name = "none"  -> { "none" }
    [] name = "open"  -> { "CMD0", "CMD8", "CMD55", "ACMD41", "CMD58", "CMD9", "token" }
    [] name = "read"  -> { "CMD17", "token" }
    [] name = "write" -> { "CMD24", "data", "programming", "CMD13" }
    [] name = "erase" -> { "CMD9", "token", "CMD32", "CMD33", "CMD38", "erasing" }

CallInv ==
  /\ op \in [ name : { "none", "open", "read", "write", "erase" },
              b : SdBlock \cup { NoBlock }, to : SdBlock \cup { NoBlock }, v : Value ]
  /\ op.name = "none" <=> op = NoCall
  /\ at \in Stages(op.name)
  /\ op.name \in { "read", "write", "erase" } => opened /\ op.b \in SdBlock
  /\ op.name = "erase" => op.to \in SdBlock /\ op.b <= op.to
  /\ op.name = "open" => ~ opened

ClockInv ==
  /\ clock \in 0 .. Period - 1 /\ since \in 0 .. Period - 1 /\ t0 \in 0 .. Period - 1
  /\ waited \in 0 .. ERASE_TIMEOUT
  /\ waited = Elapsed(since)

Control ==
  /\ CallInv /\ ClockInv
  /\ op = NoCall => cs = "high"
  /\ may \in [ SdBlock -> SUBSET Value ]

\* A state of the present card.
CardOK(c) ==
  /\ c \in [ kind : { card.kind }, single : { card.single },
             mode : { "power", "idle", "ready" }, app : BOOLEAN,
             serves : { "none", "csd", "block", "data", "program", "erase" },
             b : SdBlock \cup { NoBlock }, to : SdBlock \cup { NoBlock },
             job : { c.job }, failed : BOOLEAN ]
  /\ DOMAIN c.job \subseteq SdBlock
  /\ \A b \in DOMAIN c.job : c.job[b] \in Value
  /\ DOMAIN c.job # {} => c.serves \in { "program", "erase" }
  /\ c.serves = "data" => c.b \in SdBlock

CardType ==
  /\ CardOK(card)
  /\ [ kind |-> card.kind, single |-> card.single ] \in Cards
  /\ store \in [ SdBlock -> Value ]

\* The driver has found out what kind of card there is.
Known == type = "SDHC" <=> card.kind = "sdhc"

TypeInv ==
  /\ type \in { "none", "SD1", "SD2", "SDHC" }
  /\ opened => Known
  /\ op.name = "open" =>
       /\ at # "CMD0" => ~ Busy
       /\ at \in { "CMD55", "ACMD41" } => type \in { "SD1", "SD2" }
       /\ at = "CMD58" => type = "SD2"
       /\ at \in { "CMD9", "token" } => Known

\* What the card is at belongs to the running call.
ServesInv ==
  /\ at = "data" /\ card.serves = "data" => card.b = op.b
  /\ at = "token" /\ op.name = "read" /\ card.serves \in { "csd", "block" }
       => card.serves = "block" /\ card.b = op.b
  /\ at \in { "CMD32", "CMD33", "CMD38" } => ~ Busy
  /\ at \in { "CMD33", "CMD38" } => card.b = op.b
  /\ at = "CMD38" => card.to = op.to

CardInv == CardType /\ TypeInv /\ ServesInv

\* Each block holds what it may, were the running call to fail now, and so
\* it does when the card is through with what it is at.
BlocksHeld ==
  /\ \A b \in SdBlock : store[b] \in MayHold(b, FALSE)
  /\ \A b \in DOMAIN card.job : card.job[b] \in MayHold(b, FALSE)

Written == card.failed \/ store[op.b] = op.v

HeldInv ==
  /\ BlocksHeld
  /\ at = "programming" =>
       IF Busy THEN DOMAIN card.job = { op.b } /\ card.job[op.b] = op.v ELSE Written
  /\ at = "CMD13" => ~ Busy /\ Written
  /\ at = "erasing" =>
       IF Busy
         THEN card.serves = "erase" /\ \A b \in op.b .. op.to :
                b \in DOMAIN card.job /\ card.job[b] = Erased
         ELSE \A b \in op.b .. op.to : store[b] = Erased
  /\ op = NoCall /\ last.name = "read" /\ last.ok => last.v \in may[last.b]

-----------------------------------------------------------------------------
(* The clock.                                                              *)

(* Reads of millis() that differ by less than a period, subtracted.        *)
LEMMA ElapsedIs ==
  ASSUME NEW p \in Nat \ {0}, NEW c \in 0 .. p - 1, NEW t \in 0 .. p - 1
  PROVE  (c - t) % p = IF t <= c THEN c - t ELSE c - t + p
<1> DEFINE d == (c - t) \div p  r == (c - t) % p
<1>1. d \in Int /\ p * d \in Int /\ c - t = p * d + r /\ r \in 0 .. p - 1
  OBVIOUS
<1>2. ASSUME NEW x \in Int, NEW y \in Int, x <= y PROVE p * x <= p * y
  BY <1>2
<1>3. p * 0 = 0 /\ p * 1 = p /\ p * (-1) = - p /\ p * (-2) = - p - p
  OBVIOUS
<1> HIDE DEF d, r
<1>4. d \in { -1, 0 }
  <2>1. ~ (1 <= d)
    BY <1>1, <1>2, <1>3
  <2>2. ~ (d <= -2)
    BY <1>1, <1>2, <1>3
  <2> QED BY <1>1, <2>1, <2>2
<1>5. r = IF t <= c THEN c - t ELSE c - t + p
  BY <1>1, <1>3, <1>4
<1> QED BY <1>5 DEF r

(* millis() ticks on.                                                      *)
LEMMA Tick ==
  ASSUME NEW p \in Nat \ {0}, NEW c \in 0 .. p - 1
  PROVE  (c + 1) % p = IF c + 1 = p THEN 0 ELSE c + 1
<1> DEFINE d == (c + 1) \div p  r == (c + 1) % p
<1>1. d \in Int /\ p * d \in Int /\ c + 1 = p * d + r /\ r \in 0 .. p - 1
  OBVIOUS
<1>2. ASSUME NEW x \in Int, NEW y \in Int, x <= y PROVE p * x <= p * y
  BY <1>2
<1>3. p * 0 = 0 /\ p * 1 = p /\ p * (-1) = - p /\ p * 2 = p + p
  OBVIOUS
<1> HIDE DEF d, r
<1>4. d \in { 0, 1 }
  <2>1. ~ (2 <= d)
    BY <1>1, <1>2, <1>3
  <2>2. ~ (d <= -1)
    BY <1>1, <1>2, <1>3
  <2> QED BY <1>1, <2>1, <2>2
<1>5. r = IF c + 1 = p THEN 0 ELSE c + 1
  BY <1>1, <1>3, <1>4
<1> QED BY <1>5 DEF r

(* A wait gets longer by one poll as long as it is far from a period.      *)
LEMMA KeepClock ==
  ASSUME ClockInv, Keep, Elapsed(since) < ERASE_TIMEOUT
  PROVE  ClockInv'
<1>1. Period \in Nat \ {0} /\ Period > 5
  BY SDAssumption DEF ERASE_TIMEOUT, FLUSH_TIMEOUT
<1>2. /\ clock \in 0 .. Period - 1 /\ since \in 0 .. Period - 1 /\ t0 \in 0 .. Period - 1
      /\ waited \in 0 .. 2 /\ waited = (clock - since) % Period
  BY DEF ClockInv, Elapsed, ERASE_TIMEOUT
<1>3. /\ clock' = (clock + 1) % Period /\ waited' = waited + 1
      /\ since' = since /\ t0' = t0
  BY DEF Keep
<1>4. clock' = IF clock + 1 = Period THEN 0 ELSE clock + 1
  BY <1>1, <1>2, <1>3, Tick
<1>5. clock' \in 0 .. Period - 1
  BY <1>1, <1>2, <1>4
<1>6. waited = IF since <= clock THEN clock - since ELSE clock - since + Period
  BY <1>1, <1>2, ElapsedIs
<1>7. (clock' - since) % Period
        = IF since <= clock' THEN clock' - since ELSE clock' - since + Period
  BY <1>1, <1>2, <1>5, ElapsedIs
<1>8. waited' = (clock' - since) % Period
  BY <1>1, <1>2, <1>3, <1>4, <1>6, <1>7
<1> QED BY <1>2, <1>3, <1>5, <1>8 DEF ClockInv, Elapsed, ERASE_TIMEOUT

(* A new wait, at any time.                                                *)
LEMMA FreshClock ==
  ASSUME NEW c \in 0 .. Period - 1, clock' = c, since' = c, waited' = 0, t0' \in 0 .. Period - 1
  PROVE  ClockInv'
<1>1. Period \in Nat \ {0}
  BY SDAssumption DEF ERASE_TIMEOUT, FLUSH_TIMEOUT
<1>2. 0 % Period = 0
  <2>1. \A x \in 0 .. Period - 1 : (x - 0) % Period = x
    BY <1>1, ElapsedIs
  <2>2. 0 \in 0 .. Period - 1
    BY <1>1
  <2> QED BY <1>1, <2>1, <2>2
<1>3. clock' - since' = 0
  <2>1. c \in Int
    BY <1>1
  <2>2. c - c = 0
    BY <2>1
  <2> QED BY <2>2
<1> QED BY <1>2, <1>3 DEF ClockInv, Elapsed, ERASE_TIMEOUT

-----------------------------------------------------------------------------
(* What the driver alone does.                                             *)

\* The driver is about to go to stage l of the running call.
LEMMA GotoKeeps ==
  ASSUME Control, op # NoCall, NEW l \in Stages(op.name),
         NEW c \in 0 .. Period - 1, GotoAt(l, c)
  PROVE  Control'
<1>1. /\ at' = l /\ since' = c /\ waited' = 0 /\ clock' = c
      /\ t0' = t0 /\ op' = op /\ may' = may /\ opened' = opened
  BY DEF GotoAt, calls
<1>2. CallInv'
  BY <1>1 DEF Control, CallInv
<1>3. ClockInv'
  BY <1>1, FreshClock DEF Control, ClockInv
<1> QED BY <1>1, <1>2, <1>3 DEF Control

LEMMA ClockTypes ==
  ASSUME Control
  PROVE  clock \in 0 .. Period - 1 /\ (clock + 1) % Period \in 0 .. Period - 1
<1>1. Period \in Nat \ {0} /\ clock \in 0 .. Period - 1
  BY SDAssumption DEF ERASE_TIMEOUT, FLUSH_TIMEOUT, Control, ClockInv
<1> QED BY <1>1, Tick

LEMMA KeepKeeps ==
  ASSUME Control, op # NoCall, Keep, Elapsed(since) < ERASE_TIMEOUT
  PROVE  Control'
<1>1. at' = at /\ op' = op /\ may' = may /\ opened' = opened
  BY DEF Keep, calls
<1>2. CallInv'
  BY <1>1 DEF Control, CallInv
<1>3. ClockInv'
  BY KeepClock DEF Control
<1> QED BY <1>1, <1>2, <1>3 DEF Control

(* What a block may hold is known values, however the call ends.           *)
LEMMA MayHoldType ==
  ASSUME Control, NEW b \in SdBlock, NEW ok \in BOOLEAN
  PROVE  MayHold(b, ok) \in SUBSET Value
<1>1. may[b] \in SUBSET Value /\ op.v \in Value /\ Erased \in Value
  BY SDAssumption DEF Control, CallInv
<1> QED BY <1>1 DEF MayHold

LEMMA ReturnKeeps ==
  ASSUME Control, op # NoCall, NEW ok \in BOOLEAN, NEW v, Return(ok, v, "high")
  PROVE  Control'
<1>1. /\ at' = "none" /\ since' = 0 /\ waited' = 0 /\ t0' = 0 /\ clock' = 0
      /\ cs' = "high" /\ op' = NoCall
      /\ may' = [ b \in SdBlock |-> MayHold(b, ok) ]
  BY DEF Return
<1>2. CallInv'
  BY <1>1, SDAssumption DEF CallInv, NoCall, Stages
<1>3. ClockInv'
  <2>1. 0 \in 0 .. Period - 1
    BY SDAssumption DEF ERASE_TIMEOUT, FLUSH_TIMEOUT
  <2> QED BY <1>1, <2>1, FreshClock
<1>4. may' \in [ SdBlock -> SUBSET Value ]
  BY <1>1, MayHoldType
<1> QED BY <1>1, <1>2, <1>3, <1>4 DEF Control

-----------------------------------------------------------------------------
(* What the card answers, and what it is at then.                          *)

(* A busy card leaves a command alone; else the command is carried out, or *)
(* lost, or its answer is lost.                                            *)
LEMMA AnswerIs ==
  ASSUME NEW c, NEW r \in Answer(c)
  PROVE  /\ at = c /\ flushed
         /\ \/ Busy /\ r.s = READY /\ r.card = card
            \/ ~ Busy /\ r.s = NONE /\ r.card = card
            \/ ~ Busy /\ \E q \in Reactions(c) : r.card = q.card /\ r.s \in { q.s, NONE }
<1>1. at = c /\ flushed /\ r \in Replies(c)
  BY DEF Answer
<1>2. CASE Busy
  BY <1>1, <1>2 DEF Replies, R
<1>3. CASE ~ Busy
  BY <1>1, <1>3 DEF Replies, R
<1> QED BY <1>1, <1>2, <1>3

(* A command with an address is carried out, or changes nothing.           *)
LEMMA OnBlockIs ==
  ASSUME NEW a, NEW c, NEW q, q = OnBlock(a, c)
  PROVE  \/ q.card = card /\ q.s # READY
         \/ q.card = c /\ q.s = READY /\ Addressed(a) \in SdBlock
BY DEF OnBlock, R, ILLEGAL, ADDRESS, READY

(* No command but the one that erases makes the card busy.                 *)
LEMMA SameJob ==
  ASSUME CardOK(card), NEW c \in Commands \ { "CMD38" }, NEW q \in Reactions(c)
  PROVE  q.card.job = card.job
<1> DEFINE a == Address(op.b)  z == Address(op.to)
<1>1. \A x, y : R(x, y).card = y
  BY DEF R
<1>2. \A what, b : Serves(what, b).job = card.job
  BY DEF CardOK, Serves
<1>3. CASE c \in { "CMD8", "CMD58" }
  BY <1>1, <1>3 DEF Reactions
<1>4. CASE c = "CMD0"
  <2> DEFINE k == [ Serves("none", NoBlock) EXCEPT !.mode = "idle", !.app = FALSE ]
  <2>1. k.job = card.job
    BY DEF Serves, CardOK
  <2> HIDE DEF k
  <2>2. q.card = k
    BY <1>1, <1>4 DEF Reactions, k
  <2> QED BY <2>1, <2>2
<1>5. CASE c \in { "CMD55", "ACMD41", "CMD13" }
  <2> DEFINE k0 == [ card EXCEPT !.app = TRUE ]
             k1 == [ card EXCEPT !.app = FALSE ]
             k2 == [ card EXCEPT !.app = FALSE, !.mode = "ready" ]
             k3 == [ card EXCEPT !.failed = FALSE ]
  <2>1. k0.job = card.job /\ k1.job = card.job /\ k2.job = card.job /\ k3.job = card.job
    BY DEF CardOK
  <2> HIDE DEF k0, k1, k2, k3
  <2>2. c = "CMD55" => q.card = k0
    BY <1>1 DEF Reactions, k0
  <2>3. c = "CMD13" => q.card = k3
    BY <1>1 DEF Reactions, k3
  <2>4. c = "ACMD41" => q.card \in { card, k1, k2 }
    <3>1. c = "ACMD41" => q \in { R(ILLEGAL, card), R(IDLE, k1), R(READY, k2) }
      BY DEF Reactions, GetsReady, k1, k2
    <3> QED BY <1>1, <3>1
  <2> QED BY <1>5, <2>1, <2>2, <2>3, <2>4
<1>6. CASE c = "CMD9"
  <2>1. q.card = Serves("csd", NoBlock)
    BY <1>1, <1>6 DEF Reactions
  <2> QED BY <1>2, <2>1
<1>7. CASE c \in { "CMD17", "CMD24" }
  <2>1. \E k \in { Serves("block", Addressed(a)), Serves("data", Addressed(a)) } : q = OnBlock(a, k)
    BY <1>7 DEF Reactions
  <2>2. q.card \in { card, Serves("block", Addressed(a)), Serves("data", Addressed(a)) }
    BY <2>1, OnBlockIs
  <2> QED BY <1>2, <2>2
<1>8. CASE c \in { "CMD32", "CMD33" }
  <2> DEFINE k0 == [ card EXCEPT !.b = Addressed(a) ]
             k1 == [ card EXCEPT !.to = Addressed(z) ]
  <2>1. k0.job = card.job /\ k1.job = card.job
    BY DEF CardOK
  <2> HIDE DEF k0, k1
  <2>2. q = OnBlock(a, k0) \/ q = OnBlock(z, k1)
    BY <1>8 DEF Reactions, k0, k1
  <2>3. q.card \in { card, k0, k1 }
    BY <2>2, OnBlockIs
  <2> QED BY <2>1, <2>3
<1> QED BY <1>3, <1>4, <1>5, <1>6, <1>7, <1>8 DEF Commands

LEMMA ServesOK ==
  ASSUME CardOK(card), ~ Busy, NEW what \in { "none", "csd", "block" },
         NEW b \in SdBlock \cup { NoBlock }
  PROVE  CardOK(Serves(what, b))
BY DEF CardOK, Serves, Busy

(* Whatever the card is asked, it stays a card.                            *)
LEMMA ReactionOK ==
  ASSUME Control, CardInv, ~ Busy, NEW c \in Commands, at = c, NEW q \in Reactions(c)
  PROVE  CardOK(q.card)
<1> DEFINE a == Address(op.b)  z == Address(op.to)
<1>1. CardOK(card) /\ DOMAIN card.job = {}
  BY DEF CardInv, CardType, Busy
<1>2. CASE c = "CMD0"
  <2>1. q.card = [ Serves("none", NoBlock) EXCEPT !.mode = "idle", !.app = FALSE ]
    BY <1>2 DEF Reactions, R
  <2> QED BY <1>1, <2>1 DEF CardOK, Serves
<1>3. CASE c \in { "CMD8", "CMD58" }
  BY <1>1, <1>3 DEF Reactions, R
<1>4. CASE c = "CMD55"
  <2>1. q.card = [ card EXCEPT !.app = TRUE ]
    BY <1>4 DEF Reactions, R
  <2> QED BY <1>1, <2>1 DEF CardOK
<1>5. CASE c = "ACMD41"
  <2>1. \/ q.card = card
        \/ q.card = [ card EXCEPT !.app = FALSE ]
        \/ q.card = [ card EXCEPT !.app = FALSE, !.mode = "ready" ]
    <3>1. \/ q = R(ILLEGAL, card)
          \/ q = R(IDLE, [ card EXCEPT !.app = FALSE ])
          \/ q \in GetsReady
      BY <1>5 DEF Reactions
    <3>2. q \in GetsReady => q = R(READY, [ card EXCEPT !.app = FALSE, !.mode = "ready" ])
      BY DEF GetsReady
    <3>3. \A x, y : R(x, y).card = y
      BY DEF R
    <3> QED BY <3>1, <3>2, <3>3
  <2> QED BY <1>1, <2>1 DEF CardOK
<1>6. CASE c = "CMD9"
  <2>1. q.card = Serves("csd", NoBlock)
    BY <1>6 DEF Reactions, R
  <2> QED BY <1>1, <2>1, ServesOK
<1>7. CASE c = "CMD17"
  <2>1. q = OnBlock(a, Serves("block", Addressed(a)))
    BY <1>7 DEF Reactions
  <2>2. q.card = card \/ (q.card = Serves("block", Addressed(a)) /\ Addressed(a) \in SdBlock)
    BY <2>1, OnBlockIs
  <2> QED BY <1>1, <2>2, ServesOK
<1>8. CASE c = "CMD24"
  <2>1. q = OnBlock(a, Serves("data", Addressed(a)))
    BY <1>8 DEF Reactions
  <2>2. q.card = card \/ (q.card = Serves("data", Addressed(a)) /\ Addressed(a) \in SdBlock)
    BY <2>1, OnBlockIs
  <2> QED BY <1>1, <2>2 DEF CardOK, Serves
<1>9. CASE c = "CMD13"
  <2>1. q.card = [ card EXCEPT !.failed = FALSE ]
    BY <1>9 DEF Reactions, R
  <2> QED BY <1>1, <2>1 DEF CardOK
<1>10. CASE c = "CMD32"
  <2>1. q = OnBlock(a, [ card EXCEPT !.b = Addressed(a) ])
    BY <1>10 DEF Reactions
  <2>2. q.card = card \/ (q.card = [ card EXCEPT !.b = Addressed(a) ] /\ Addressed(a) \in SdBlock)
    BY <2>1, OnBlockIs
  <2> QED BY <1>1, <2>2 DEF CardOK
<1>11. CASE c = "CMD33"
  <2>1. q = OnBlock(z, [ card EXCEPT !.to = Addressed(z) ])
    BY <1>11 DEF Reactions
  <2>2. q.card = card \/ (q.card = [ card EXCEPT !.to = Addressed(z) ] /\ Addressed(z) \in SdBlock)
    BY <2>1, OnBlockIs
  <2> QED BY <1>1, <2>2 DEF CardOK
<1>12. CASE c = "CMD38"
  <2>1. q.card = [ card EXCEPT !.serves = "erase", !.job = [ b \in card.b .. card.to |-> Erased ] ]
    BY <1>12 DEF Reactions, R, Serves
  <2>2. card.b \in SdBlock /\ card.to \in SdBlock
    BY <1>12 DEF CardInv, ServesInv, Control, CallInv, Stages
  <2>3. card.b .. card.to \subseteq SdBlock
    <3>1. card.b \in Nat /\ card.to \in Nat /\ 0 .. card.to \subseteq SdBlock
      BY <2>2, SDAssumption
    <3> QED BY <3>1
  <2> DEFINE j == [ b \in card.b .. card.to |-> Erased ]
  <2>4. DOMAIN j \subseteq SdBlock /\ \A b \in DOMAIN j : j[b] \in Value
    BY <2>3, SDAssumption
  <2> HIDE DEF j
  <2>5. /\ q.card.job = j /\ q.card.serves = "erase"
        /\ q.card \in [ kind : { card.kind }, single : { card.single },
             mode : { "power", "idle", "ready" }, app : BOOLEAN,
             serves : { "none", "csd", "block", "data", "program", "erase" },
             b : SdBlock \cup { NoBlock }, to : SdBlock \cup { NoBlock },
             job : { j }, failed : BOOLEAN ]
    BY <1>1, <2>1 DEF CardOK, j
  <2> QED BY <2>4, <2>5 DEF CardOK
<1> QED BY <1>2, <1>3, <1>4, <1>5, <1>6, <1>7, <1>8, <1>9, <1>10, <1>11, <1>12 DEF Commands

LEMMA AnswerOK ==
  ASSUME Control, CardInv, NEW c \in Commands, NEW r \in Answer(c), Took(r)
  PROVE  CardOK(card') /\ card' = r.card /\ store' = store /\ at = c
<1>1. card' = r.card /\ store' = store
  BY DEF Took
<1>2. CardOK(card)
  BY DEF CardInv, CardType
<1> QED BY <1>1, <1>2, AnswerIs, ReactionOK

(* What stays a card keeps its type.                                       *)
LEMMA CardTypeKept ==
  ASSUME CardType, CardOK(card'), store' \in [ SdBlock -> Value ]
  PROVE  CardType' /\ card'.kind = card.kind
<1>1. card'.kind = card.kind /\ card'.single = card.single
  BY DEF CardOK
<1>2. CardOK(card)'
  BY <1>1 DEF CardOK
<1> QED BY <1>1, <1>2 DEF CardType

-----------------------------------------------------------------------------
(* The steps of the driver.                                                *)

\* Which call is at a stage.
LEMMA CallAt ==
  ASSUME Control
  PROVE  /\ op # NoCall <=> at # "none"
         /\ at \in { "CMD0", "CMD8", "CMD55", "ACMD41", "CMD58" } => op.name = "open"
         /\ at = "CMD9" => op.name \in { "open", "erase" }
         /\ at = "token" => op.name \in { "open", "erase", "read" }
         /\ at = "CMD17" => op.name = "read"
         /\ at \in { "CMD24", "data", "programming", "CMD13" } => op.name = "write"
         /\ at \in { "CMD32", "CMD33", "CMD38", "erasing" } => op.name = "erase"
BY DEF Control, CallInv, Stages

\* A call returns.
LEMMA ReturnCard ==
  ASSUME Control, CardInv, op # NoCall, NEW ok \in BOOLEAN, NEW v, Return(ok, v, "high"),
         CardOK(card'), store' \in [ SdBlock -> Value ], type' = type,
         op.name = "open" /\ ok => Known
  PROVE  Control' /\ CardInv'
<1>1. Control'
  BY ReturnKeeps
<1>2. CardType' /\ card'.kind = card.kind
  BY CardTypeKept DEF CardInv
<1>3. at' = "none" /\ op'.name = "none" /\ opened' = IF op.name = "open" THEN ok ELSE opened
  BY DEF Return, NoCall
<1>4. TypeInv'
  BY <1>2, <1>3 DEF CardInv, TypeInv, Known
<1>5. ServesInv'
  BY <1>3 DEF ServesInv
<1> QED BY <1>1, <1>2, <1>4, <1>5 DEF CardInv

\* A call fails, as it may at any point.
LEMMA FailedKeeps ==
  ASSUME Control, CardInv, op # NoCall, Failed,
         CardOK(card'), store' \in [ SdBlock -> Value ], type' = type
  PROVE  Control' /\ CardInv'
BY ReturnCard DEF Failed

LEMMA SucceededKeeps ==
  ASSUME Control, CardInv, op # NoCall, Succeeded,
         CardOK(card'), store' \in [ SdBlock -> Value ], type' = type,
         op.name = "open" => Known
  PROVE  Control' /\ CardInv'
BY ReturnCard DEF Succeeded

\* A call other than open goes on.
LEMMA GotoCard ==
  ASSUME Control, CardInv, op.name \in { "read", "write", "erase" },
         NEW l \in Stages(op.name), Goto(l),
         CardOK(card'), store' \in [ SdBlock -> Value ], type' = type, ServesInv'
  PROVE  Control' /\ CardInv'
<1>1. op # NoCall /\ clock \in 0 .. Period - 1
  BY ClockTypes DEF NoCall
<1>2. Control'
  BY <1>1, GotoKeeps DEF Goto
<1>3. CardType' /\ card'.kind = card.kind
  BY CardTypeKept DEF CardInv
<1>4. op' = op /\ opened' = opened
  BY DEF Goto, GotoAt, calls
<1>5. TypeInv'
  BY <1>3, <1>4 DEF CardInv, TypeInv, Known
<1> QED BY <1>2, <1>3, <1>5 DEF CardInv

\* flogfs_arduino_sd_open goes on.
LEMMA GotoOpen ==
  ASSUME Control, CardInv, op.name = "open",
         NEW l \in { "CMD0", "CMD8", "CMD55", "ACMD41", "CMD58", "CMD9", "token" },
         NEW c \in 0 .. Period - 1, GotoAt(l, c),
         CardOK(card'), store' = store, type' \in { "none", "SD1", "SD2", "SDHC" },
         l # "CMD0" => ~ Busy',
         l \in { "CMD55", "ACMD41" } => type' \in { "SD1", "SD2" },
         l = "CMD58" => type' = "SD2",
         l \in { "CMD9", "token" } => Known'
  PROVE  Control' /\ CardInv'
<1>1. op # NoCall /\ l \in Stages(op.name)
  BY DEF NoCall, Stages
<1>2. Control'
  BY <1>1, GotoKeeps
<1>3. CardType' /\ card'.kind = card.kind
  BY CardTypeKept DEF CardInv, CardType
<1>4. op' = op /\ opened' = opened /\ at' = l /\ ~ opened
  BY DEF GotoAt, calls, Control, CallInv
<1>5. TypeInv'
  BY <1>4 DEF TypeInv
<1>6. ServesInv'
  BY <1>4 DEF ServesInv
<1> QED BY <1>2, <1>3, <1>5, <1>6 DEF CardInv

\* The driver polls once more, or goes on from a flush.
LEMMA StayKeeps ==
  ASSUME Control, CardInv, op # NoCall,
         \/ Keep /\ Elapsed(since) < ERASE_TIMEOUT
         \/ UNCHANGED << at, since, waited, t0, clock, cs, calls >>,
         card' = card, store' = store, type' = type
  PROVE  Control' /\ CardInv'
<1>1. at' = at /\ op' = op /\ opened' = opened
  BY DEF Keep, calls
<1>2. Control'
  <2>1. CASE Keep /\ Elapsed(since) < ERASE_TIMEOUT
    BY <2>1, KeepKeeps
  <2>2. CASE UNCHANGED << at, since, waited, t0, clock, cs, calls >>
    BY <2>2 DEF calls, Control, CallInv, ClockInv, Elapsed
  <2> QED BY <2>1, <2>2
<1>3. CardInv'
  <2>1. CardType'
    BY DEF CardInv, CardType, CardOK
  <2>2. TypeInv'
    BY <1>1 DEF CardInv, TypeInv, Known, Busy
  <2>3. ServesInv'
    BY <1>1 DEF CardInv, ServesInv, Busy
  <2> QED BY <2>1, <2>2, <2>3 DEF CardInv
<1> QED BY <1>2, <1>3

LEMMA CardFacts ==
  ASSUME Control, CardInv
  PROVE  CardOK(card) /\ store \in [ SdBlock -> Value ]
BY DEF CardInv, CardType

LEMMA FlushKeeps ==
  ASSUME Control, CardInv, Flush
  PROVE  Control' /\ CardInv'
<1>1. op # NoCall /\ card' = card /\ store' = store /\ type' = type
  BY CallAt DEF Flush, Commands
<1>2. CASE Busy /\ Within(since, FLUSH_TIMEOUT)
  <2>1. Keep /\ Elapsed(since) < FLUSH_TIMEOUT
    BY <1>2 DEF Flush, Within
  <2>2. Elapsed(since) < ERASE_TIMEOUT
    BY <2>1 DEF FLUSH_TIMEOUT, ERASE_TIMEOUT, Control, ClockInv
  <2> QED BY <1>1, <2>1, <2>2, StayKeeps
<1>3. CASE ~ (Busy /\ Within(since, FLUSH_TIMEOUT))
  <2>1. UNCHANGED << at, since, waited, t0, clock, cs, calls >>
    BY <1>3 DEF Flush
  <2> QED BY <1>1, <2>1, StayKeeps
<1> QED BY <1>2, <1>3

-----------------------------------------------------------------------------
(* sd_raw_initialize.                                                      *)

(* CMD0 is answered with the idle state only by a card that is not busy.   *)
LEMMA GoIdleKeeps ==
  ASSUME Control, CardInv, GoIdle
  PROVE  Control' /\ CardInv'
<1>1. PICK r \in Answer("CMD0") :
        /\ Took(r) /\ type' = type
        /\ \/ r.s = IDLE /\ Goto("CMD8")
           \/ Failed
           \/ TryAgain("CMD0")
  BY DEF GoIdle
<1>2. CardOK(card') /\ card' = r.card /\ store' = store /\ at = "CMD0"
  BY <1>1, AnswerOK DEF Commands
<1>3. op # NoCall /\ op.name = "open" /\ type \in { "none", "SD1", "SD2", "SDHC" }
  BY <1>2, CallAt DEF CardInv, TypeInv
<1>4. CASE r.s = IDLE /\ Goto("CMD8")
  <2>1. ~ Busy
    BY <1>4, AnswerIs DEF IDLE, READY
  <2>2. r.card.job = card.job
    <3>1. \A q \in Reactions("CMD0") : q.card.job = card.job
      BY CardFacts, SameJob DEF Commands
    <3> QED BY <3>1, AnswerIs
  <2>3. ~ Busy'
    BY <2>1, <2>2, <1>2 DEF Busy
  <2> QED BY <1>1, <1>2, <1>3, <1>4, <2>3, ClockTypes, GotoOpen DEF Goto
<1>5. CASE Failed
  BY <1>1, <1>2, <1>3, <1>5, CardFacts, FailedKeeps
<1>6. CASE TryAgain("CMD0")
  BY <1>1, <1>2, <1>3, <1>6, ClockTypes, GotoOpen DEF TryAgain
<1> QED BY <1>1, <1>4, <1>5, <1>6

(* No command of sd_raw_initialize starts what makes the card busy.        *)
LEMMA OpenQuiet ==
  ASSUME Control, CardInv, NEW c \in { "CMD8", "CMD55", "ACMD41", "CMD58", "CMD9" },
         op.name = "open", NEW r \in Answer(c), Took(r)
  PROVE  /\ CardOK(card') /\ store' = store /\ ~ Busy /\ ~ Busy'
         /\ r.s # NONE => \E q \in Reactions(c) : r.card = q.card /\ r.s = q.s
<1>1. CardOK(card') /\ card' = r.card /\ store' = store /\ at = c
  BY AnswerOK DEF Commands
<1>2. ~ Busy
  BY <1>1 DEF CardInv, TypeInv
<1>3. \A q \in Reactions(c) : q.card.job = card.job
  BY CardFacts, SameJob DEF Commands
<1>4. ~ Busy'
  <2>1. card'.job = card.job
    BY <1>1, <1>2, <1>3, AnswerIs
  <2> QED BY <1>2, <2>1 DEF Busy
<1> QED BY <1>1, <1>2, <1>4, AnswerIs

LEMMA CheckVersionKeeps ==
  ASSUME Control, CardInv, CheckVersion
  PROVE  Control' /\ CardInv'
<1>1. PICK r \in Answer("CMD8") :
        Took(r) /\ type' \in { "SD1", "SD2" } /\ Goto("CMD55")
  BY DEF CheckVersion
<1>2. op.name = "open"
  BY <1>1, AnswerOK, CallAt DEF Commands
<1> QED BY <1>1, <1>2, OpenQuiet, ClockTypes, GotoOpen DEF Goto

LEMMA WrongEchoKeeps ==
  ASSUME Control, CardInv, WrongEcho
  PROVE  Control' /\ CardInv'
<1>1. PICK r \in Answer("CMD8") : card' = r.card
  BY DEF WrongEcho
<1>2. Failed /\ type' = type /\ store' = store
  BY DEF WrongEcho
<1>3. at = "CMD8" /\ op # NoCall
  BY AnswerIs, CallAt
<1>4. CardOK(card')
  BY <1>1, <1>3, AnswerIs, ReactionOK, CardFacts DEF Commands
<1> QED BY <1>2, <1>3, <1>4, CardFacts, FailedKeeps

LEMMA AppCommandKeeps ==
  ASSUME Control, CardInv, AppCommand
  PROVE  Control' /\ CardInv'
<1>1. PICK r \in Answer("CMD55") : Took(r) /\ type' = type /\ Goto("ACMD41")
  BY DEF AppCommand
<1>2. op.name = "open" /\ at = "CMD55"
  BY <1>1, AnswerOK, CallAt DEF Commands
<1>3. type \in { "SD1", "SD2" }
  BY <1>2 DEF CardInv, TypeInv
<1> QED BY <1>1, <1>2, <1>3, OpenQuiet, ClockTypes, GotoOpen DEF Goto

(* A card of high capacity gets ready only for a driver that took it for   *)
(* no older than SD2, which then reads what it is.                         *)
LEMMA GetReadyKeeps ==
  ASSUME Control, CardInv, GetReady
  PROVE  Control' /\ CardInv'
<1>1. PICK r \in Answer("ACMD41") :
        /\ Took(r) /\ type' = type
        /\ \/ r.s = READY /\ type = "SD2" /\ Goto("CMD58")
           \/ r.s = READY /\ type # "SD2" /\ Goto("CMD9")
           \/ Failed
           \/ TryAgain("CMD55")
  BY DEF GetReady
<1>2. op.name = "open" /\ at = "ACMD41" /\ op # NoCall
  BY <1>1, AnswerOK, CallAt DEF Commands
<1>3. type \in { "SD1", "SD2" }
  BY <1>2 DEF CardInv, TypeInv
<1>4. CardOK(card') /\ store' = store /\ ~ Busy'
  BY <1>1, <1>2, OpenQuiet
<1>5. CASE r.s = READY /\ type = "SD2" /\ Goto("CMD58")
  BY <1>1, <1>2, <1>4, <1>5, ClockTypes, GotoOpen DEF Goto
<1>6. CASE r.s = READY /\ type # "SD2" /\ Goto("CMD9")
  <2>1. PICK q \in Reactions("ACMD41") : q.s = READY
    BY <1>1, <1>2, <1>6, OpenQuiet DEF READY, NONE
  <2>2. \A x, y : R(x, y).s = x
    BY DEF R
  <2>3. q \in GetsReady
    BY <2>1, <2>2 DEF Reactions, READY, IDLE, ILLEGAL
  <2>4. card.kind # "sdhc"
    BY <1>6, <2>3 DEF GetsReady
  <2>5. card'.kind = card.kind
    BY <1>4 DEF CardOK
  <2>6. Known'
    BY <1>1, <1>3, <1>6, <2>4, <2>5 DEF Known
  <2> QED BY <1>1, <1>2, <1>3, <1>4, <1>6, <2>6, ClockTypes, GotoOpen DEF Goto
<1>7. CASE Failed
  BY <1>1, <1>2, <1>4, <1>7, CardFacts, FailedKeeps
<1>8. CASE TryAgain("CMD55")
  BY <1>1, <1>2, <1>3, <1>4, <1>8, ClockTypes, GotoOpen DEF TryAgain
<1> QED BY <1>1, <1>5, <1>6, <1>7, <1>8

LEMMA ReadOcrKeeps ==
  ASSUME Control, CardInv, ReadOcr
  PROVE  Control' /\ CardInv'
<1>1. PICK r \in Answer("CMD58") :
        /\ Took(r)
        /\ \/ Failed /\ type' = type
           \/ Goto("CMD9") /\ type' = IF card.kind = "sdhc" THEN "SDHC" ELSE type
  BY DEF ReadOcr
<1>2. op.name = "open" /\ at = "CMD58" /\ op # NoCall
  BY <1>1, AnswerOK, CallAt DEF Commands
<1>3. type = "SD2"
  BY <1>2 DEF CardInv, TypeInv
<1>4. CardOK(card') /\ store' = store /\ ~ Busy'
  BY <1>1, <1>2, OpenQuiet
<1>5. card'.kind = card.kind
  BY <1>4 DEF CardOK
<1>6. CASE Failed /\ type' = type
  BY <1>2, <1>4, <1>6, CardFacts, FailedKeeps
<1>7. CASE Goto("CMD9") /\ type' = IF card.kind = "sdhc" THEN "SDHC" ELSE type
  <2>1. Known' /\ type' \in { "SD2", "SDHC" }
    BY <1>3, <1>5, <1>7 DEF Known
  <2> QED BY <1>2, <1>4, <1>7, <2>1, ClockTypes, GotoOpen DEF Goto
<1> QED BY <1>1, <1>6, <1>7

-----------------------------------------------------------------------------
(* From the first command of a call to its end.                            *)

(* Driver and card mean the same block by an address.                      *)
LEMMA AddressMeant ==
  ASSUME Known, NEW b \in SdBlock
  PROVE  Addressed(Address(b)) = b
<1>1. b \in Nat
  BY SDAssumption
<1>2. (b * 512) \div 512 = b
  BY <1>1
<1> QED BY <1>2 DEF Known, Addressed, Address

LEMMA OpenedMeans ==
  ASSUME Control, CardInv, op.name \in { "read", "write", "erase" }
  PROVE  /\ opened /\ Known /\ op.b \in SdBlock /\ Addressed(Address(op.b)) = op.b
         /\ op.name = "erase" => op.to \in SdBlock /\ Addressed(Address(op.to)) = op.to
<1>1. opened /\ op.b \in SdBlock /\ op.name = "erase" => op.to \in SdBlock
  BY DEF Control, CallInv
<1>2. opened /\ Known /\ op.b \in SdBlock
  BY DEF Control, CallInv, CardInv, TypeInv
<1> QED BY <1>1, <1>2, AddressMeant

(* What is left of a register or a block that has not been sent.           *)
LEMMA ServesNothing ==
  ASSUME Control, CardInv, ~ Busy, card' = Serves("none", NoBlock), store' = store
  PROVE  CardOK(card') /\ store' \in [ SdBlock -> Value ] /\ ~ Busy' /\ card'.serves = "none"
<1>1. CardOK(card) /\ store \in [ SdBlock -> Value ]
  BY CardFacts
<1>2. CardOK(card')
  BY <1>1, ServesOK
<1>3. card'.job = card.job /\ card'.serves = "none"
  BY <1>1 DEF Serves, CardOK
<1> QED BY <1>1, <1>2, <1>3 DEF Busy

LEMMA RegisterFailedKeeps ==
  ASSUME Control, CardInv, at \in { "CMD9", "token" }, op.name \in { "open", "erase" },
         RegisterFailed, CardOK(card'), store' \in [ SdBlock -> Value ], type' = type
  PROVE  Control' /\ CardInv'
<1>1. op # NoCall /\ (op.name = "open" => Known)
  BY DEF NoCall, CardInv, TypeInv
<1>2. CASE op.name = "open"
  BY <1>1, <1>2, SucceededKeeps DEF RegisterFailed
<1>3. CASE op.name = "erase"
  BY <1>1, <1>3, FailedKeeps DEF RegisterFailed
<1> QED BY <1>2, <1>3

LEMMA ReadCsdKeeps ==
  ASSUME Control, CardInv, ReadCsd
  PROVE  Control' /\ CardInv'
<1>1. PICK r \in Answer("CMD9") :
        Took(r) /\ type' = type /\ (RegisterFailed \/ Goto("token"))
  BY DEF ReadCsd
<1>2. CardOK(card') /\ store' = store /\ at = "CMD9"
  BY <1>1, AnswerOK DEF Commands
<1>3. op.name \in { "open", "erase" }
  BY <1>2, CallAt
<1>4. CASE RegisterFailed
  BY <1>1, <1>2, <1>3, <1>4, CardFacts, RegisterFailedKeeps
<1>5. CASE Goto("token") /\ op.name = "open"
  <2>1. type \in { "none", "SD1", "SD2", "SDHC" } /\ Known /\ card'.kind = card.kind
    BY <1>2, <1>5 DEF CardInv, TypeInv, CardOK
  <2>2. Known'
    BY <1>1, <2>1 DEF Known
  <2>3. ~ Busy'
    BY <1>1, <1>5, OpenQuiet
  <2> QED BY <1>1, <1>2, <1>5, <2>1, <2>2, <2>3, ClockTypes, GotoOpen DEF Goto
<1>6. CASE Goto("token") /\ op.name = "erase"
  <2>1. ServesInv'
    BY <1>6 DEF Goto, GotoAt, calls, ServesInv
  <2>2. "token" \in Stages("erase")
    BY DEF Stages
  <2> QED BY <1>1, <1>2, <1>6, <2>1, <2>2, CardFacts, GotoCard
<1> QED BY <1>1, <1>3, <1>4, <1>5, <1>6

LEMMA TokenComesKeeps ==
  ASSUME Control, CardInv, TokenComes
  PROVE  Control' /\ CardInv'
<1>1. /\ at = "token" /\ ~ Busy /\ type' = type /\ store' = store
      /\ card' = Serves("none", NoBlock)
  BY DEF TokenComes, Sending, Polls
<1>2. CardOK(card') /\ store' \in [ SdBlock -> Value ] /\ ~ Busy'
  BY <1>1, ServesNothing
<1>3. op.name \in { "open", "erase", "read" } /\ op # NoCall
  BY <1>1, CallAt
<1>4. CASE op.name = "read"
  <2>1. Return(TRUE, store[card.b], "high")
    BY <1>4 DEF TokenComes
  <2> QED BY <1>1, <1>2, <1>3, <1>4, <2>1, ReturnCard
<1>5. CASE op.name = "open"
  <2>1. Succeeded
    BY <1>5 DEF TokenComes
  <2>2. Known
    BY <1>1, <1>5 DEF CardInv, TypeInv
  <2> QED BY <1>1, <1>2, <1>3, <2>1, <2>2, SucceededKeeps
<1>6. CASE op.name = "erase"
  <2>1. Goto("CMD32") \/ Failed
    BY <1>6 DEF TokenComes
  <2>2. CASE Failed
    BY <1>1, <1>2, <1>3, <2>2, FailedKeeps
  <2>3. CASE Goto("CMD32")
    <3>1. ServesInv'
      BY <1>2, <2>3 DEF Goto, GotoAt, calls, ServesInv
    <3>2. "CMD32" \in Stages("erase")
      BY DEF Stages
    <3> QED BY <1>1, <1>2, <1>6, <2>3, <3>1, <3>2, GotoCard
  <2> QED BY <2>1, <2>2, <2>3
<1> QED BY <1>3, <1>4, <1>5, <1>6

LEMMA TokenFailsKeeps ==
  ASSUME Control, CardInv, at = "token", TokenFails,
         CardOK(card'), store' \in [ SdBlock -> Value ], type' = type
  PROVE  Control' /\ CardInv'
<1>1. op.name \in { "open", "erase", "read" } /\ op # NoCall
  BY CallAt
<1>2. CASE op.name = "read"
  BY <1>1, <1>2, FailedKeeps DEF TokenFails
<1>3. CASE op.name \in { "open", "erase" }
  BY <1>3, RegisterFailedKeeps DEF TokenFails
<1> QED BY <1>1, <1>2, <1>3

LEMMA TokenWrongKeeps ==
  ASSUME Control, CardInv, TokenWrong
  PROVE  Control' /\ CardInv'
<1>1. at = "token" /\ TokenFails /\ type' = type /\ store' = store
  BY DEF TokenWrong, Polls
<1>2. card' = card \/ (~ Busy /\ card' = Serves("none", NoBlock))
  BY DEF TokenWrong, Sending
<1>3. CardOK(card') /\ store' \in [ SdBlock -> Value ]
  BY <1>1, <1>2, CardFacts, ServesNothing
<1> QED BY <1>1, <1>3, TokenFailsKeeps

LEMMA TokenAwaitedKeeps ==
  ASSUME Control, CardInv, TokenAwaited
  PROVE  Control' /\ CardInv'
<1>1. at = "token" /\ ~ Busy /\ type' = type /\ store' = store /\ op # NoCall
  BY CallAt DEF TokenAwaited, Polls
<1>2. CASE Over(since, READ_TIMEOUT)
  <2>1. TokenFails /\ card' = Serves("none", NoBlock)
    BY <1>2 DEF TokenAwaited
  <2> QED BY <1>1, <2>1, ServesNothing, TokenFailsKeeps
<1>3. CASE ~ Over(since, READ_TIMEOUT)
  <2>1. Keep /\ card' = card
    BY <1>3 DEF TokenAwaited
  <2>2. Elapsed(since) < ERASE_TIMEOUT
    BY <1>3 DEF Over, READ_TIMEOUT, ERASE_TIMEOUT, Control, ClockInv
  <2> QED BY <1>1, <2>1, <2>2, StayKeeps
<1> QED BY <1>2, <1>3

(* A command with an address answers that it is ready only if the card     *)
(* goes for the block the driver means, or is busy.                        *)
LEMMA BlockServed ==
  ASSUME Control, CardInv, NEW c \in { "CMD17", "CMD24" }, NEW r \in Answer(c), r.s = READY,
         op.name \in { "read", "write" }
  PROVE  \/ Busy /\ r.card = card
         \/ ~ Busy /\ r.card = Serves(IF c = "CMD17" THEN "block" ELSE "data", op.b)
<1> DEFINE what == IF c = "CMD17" THEN "block" ELSE "data"
<1>1. Addressed(Address(op.b)) = op.b
  BY OpenedMeans
<1>2. ASSUME NEW q \in Reactions(c), q.s = READY PROVE q.card = Serves(what, op.b)
  <2>1. q = OnBlock(Address(op.b), Serves(what, op.b))
    BY <1>1, <1>2 DEF Reactions
  <2> QED BY <1>2, <2>1, OnBlockIs
<1> HIDE DEF what
<1>3. (Busy /\ r.card = card) \/ (~ Busy /\ r.card = Serves(what, op.b))
  BY <1>2, AnswerIs DEF READY, NONE
<1> QED BY <1>3 DEF what

LEMMA ServedFields ==
  ASSUME CardOK(card), NEW what, NEW b
  PROVE  Serves(what, b).serves = what /\ Serves(what, b).b = b /\ Serves(what, b).job = card.job
BY DEF CardOK, Serves

LEMMA ReadBlockKeeps ==
  ASSUME Control, CardInv, ReadBlock
  PROVE  Control' /\ CardInv'
<1>1. PICK r \in Answer("CMD17") :
        Took(r) /\ type' = type /\ (Failed \/ (r.s = READY /\ Goto("token")))
  BY DEF ReadBlock
<1>2. CardOK(card') /\ card' = r.card /\ store' = store /\ at = "CMD17"
  BY <1>1, AnswerOK DEF Commands
<1>3. op.name = "read" /\ op # NoCall
  BY <1>2, CallAt
<1>4. CASE Failed
  BY <1>1, <1>2, <1>3, <1>4, CardFacts, FailedKeeps
<1>5. CASE r.s = READY /\ Goto("token")
  <2>1. card'.serves \in { "program", "erase" } \/ (card'.serves = "block" /\ card'.b = op.b)
    <3>1. (Busy /\ card' = card) \/ card' = Serves("block", op.b)
      BY <1>2, <1>3, <1>5, BlockServed
    <3>2. CardOK(card)
      BY CardFacts
    <3>3. Busy => card.serves \in { "program", "erase" }
      BY <3>2 DEF CardOK, Busy
    <3> QED BY <3>1, <3>2, <3>3, ServedFields
  <2>2. ServesInv'
    BY <1>5, <2>1 DEF Goto, GotoAt, calls, ServesInv
  <2>3. "token" \in Stages("read")
    BY DEF Stages
  <2> QED BY <1>1, <1>2, <1>3, <1>5, <2>2, <2>3, CardFacts, GotoCard
<1> QED BY <1>1, <1>4, <1>5

LEMMA WriteBlockKeeps ==
  ASSUME Control, CardInv, WriteBlock
  PROVE  Control' /\ CardInv'
<1>1. PICK r \in Answer("CMD24") :
        Took(r) /\ type' = type /\ (Failed \/ (r.s = READY /\ Goto("data")))
  BY DEF WriteBlock
<1>2. CardOK(card') /\ card' = r.card /\ store' = store /\ at = "CMD24"
  BY <1>1, AnswerOK DEF Commands
<1>3. op.name = "write" /\ op # NoCall
  BY <1>2, CallAt
<1>4. CASE Failed
  BY <1>1, <1>2, <1>3, <1>4, CardFacts, FailedKeeps
<1>5. CASE r.s = READY /\ Goto("data")
  <2>1. card'.serves \in { "program", "erase" } \/ (card'.serves = "data" /\ card'.b = op.b)
    <3>1. (Busy /\ card' = card) \/ card' = Serves("data", op.b)
      BY <1>2, <1>3, <1>5, BlockServed
    <3>2. CardOK(card)
      BY CardFacts
    <3>3. Busy => card.serves \in { "program", "erase" }
      BY <3>2 DEF CardOK, Busy
    <3> QED BY <3>1, <3>2, <3>3, ServedFields
  <2>2. ServesInv'
    BY <1>5, <2>1 DEF Goto, GotoAt, calls, ServesInv
  <2>3. "data" \in Stages("write")
    BY DEF Stages
  <2> QED BY <1>1, <1>2, <1>3, <1>5, <2>2, <2>3, CardFacts, GotoCard
<1> QED BY <1>1, <1>4, <1>5

\* What the card programs is one block.
LEMMA JobAccepted ==
  ASSUME Control, CardInv, DataAccepted
  PROVE  /\ CardOK(card') /\ op.name = "write" /\ card.b = op.b /\ card'.failed = card.failed
         /\ DOMAIN card'.job = { op.b } /\ card'.job[op.b] = op.v /\ card'.serves = "program"
<1>1. /\ at = "data" /\ card.serves = "data" /\ ~ Busy
      /\ card' = [ Serves("program", NoBlock) EXCEPT !.job = [ b \in { card.b } |-> op.v ] ]
  BY DEF DataAccepted, Accepts
<1>2. card.b = op.b /\ card.b \in SdBlock /\ op.v \in Value /\ op.name = "write"
  BY <1>1, CallAt DEF CardInv, ServesInv, CardType, CardOK, Control, CallInv
<1> DEFINE j == [ b \in { card.b } |-> op.v ]
<1>3. DOMAIN j = { op.b } /\ j[op.b] = op.v
  BY <1>2
<1> HIDE DEF j
<1>4. CardOK(card)
  BY CardFacts
<1>5. /\ card'.job = j /\ card'.serves = "program" /\ card'.failed = card.failed
      /\ card' \in [ kind : { card.kind }, single : { card.single },
           mode : { "power", "idle", "ready" }, app : BOOLEAN,
           serves : { "none", "csd", "block", "data", "program", "erase" },
           b : SdBlock \cup { NoBlock }, to : SdBlock \cup { NoBlock },
           job : { j }, failed : BOOLEAN ]
  BY <1>1, <1>4 DEF CardOK, Serves, j
<1>6. CardOK(card')
  BY <1>2, <1>3, <1>5 DEF CardOK
<1> QED BY <1>2, <1>3, <1>5, <1>6

LEMMA DataAcceptedKeeps ==
  ASSUME Control, CardInv, DataAccepted
  PROVE  Control' /\ CardInv'
<1>1. Goto("programming") /\ type' = type /\ store' = store
  BY DEF DataAccepted, Polls
<1>2. CardOK(card') /\ op.name = "write"
  BY JobAccepted
<1>3. ServesInv'
  BY <1>1 DEF Goto, GotoAt, calls, ServesInv
<1>4. "programming" \in Stages("write")
  BY DEF Stages
<1> QED BY <1>1, <1>2, <1>3, <1>4, CardFacts, GotoCard

LEMMA DataRefusedKeeps ==
  ASSUME Control, CardInv, DataRefused
  PROVE  Control' /\ CardInv'
<1>1. at = "data" /\ Failed /\ type' = type /\ store' = store /\ op # NoCall
  BY CallAt DEF DataRefused, Polls
<1>2. card' = card \/ (~ Busy /\ card' = Serves("none", NoBlock))
  BY DEF DataRefused, Accepts
<1>3. CardOK(card') /\ store' \in [ SdBlock -> Value ]
  BY <1>1, <1>2, CardFacts, ServesNothing
<1> QED BY <1>1, <1>3, FailedKeeps

LEMMA ProgrammingKeeps ==
  ASSUME Control, CardInv, Programming
  PROVE  Control' /\ CardInv'
<1>1. at = "programming" /\ card' = card /\ type' = type /\ store' = store
  BY DEF Programming, Polls
<1>2. op.name = "write" /\ op # NoCall
  BY <1>1, CallAt
<1>3. CASE ~ Busy /\ Goto("CMD13")
  <2>1. ServesInv'
    BY <1>3 DEF Goto, GotoAt, calls, ServesInv
  <2>2. "CMD13" \in Stages("write")
    BY DEF Stages
  <2> QED BY <1>1, <1>2, <1>3, <2>1, <2>2, CardFacts, GotoCard
<1>4. CASE Within(since, WRITE_TIMEOUT) /\ Keep
  <2>1. Elapsed(since) < ERASE_TIMEOUT
    BY <1>4 DEF Within, WRITE_TIMEOUT, ERASE_TIMEOUT, Control, ClockInv
  <2> QED BY <1>1, <1>2, <1>4, <2>1, StayKeeps
<1>5. CASE Failed
  BY <1>1, <1>2, <1>5, CardFacts, FailedKeeps
<1> QED BY <1>3, <1>4, <1>5 DEF Programming

LEMMA WriteStatusKeeps ==
  ASSUME Control, CardInv, WriteStatus
  PROVE  Control' /\ CardInv'
<1>1. PICK r \in Answer("CMD13") : Took(r) /\ type' = type /\ (Failed \/ Succeeded)
  BY DEF WriteStatus
<1>2. CardOK(card') /\ store' = store /\ at = "CMD13"
  BY <1>1, AnswerOK DEF Commands
<1>3. op.name = "write" /\ op # NoCall
  BY <1>2, CallAt
<1> QED BY <1>1, <1>2, <1>3, CardFacts, FailedKeeps, SucceededKeeps

(* The card takes the first and the last block of an erase as the driver   *)
(* means them, and begins what the driver asked for.                       *)
LEMMA EraseAnswer ==
  ASSUME Control, CardInv, NEW c \in { "CMD32", "CMD33", "CMD38" }, NEW r \in Answer(c),
         r.s = READY
  PROVE  /\ op.name = "erase" /\ ~ Busy
         /\ c = "CMD32" => r.card = [ card EXCEPT !.b = op.b ]
         /\ c = "CMD33" => r.card = [ card EXCEPT !.to = op.to ]
         /\ c = "CMD38" => r.card = [ Serves("erase", card.b) EXCEPT
                                        !.job = [ b \in op.b .. op.to |-> Erased ] ]
<1>1. at = c /\ op.name = "erase"
  BY AnswerIs, CallAt
<1>2. ~ Busy
  BY <1>1 DEF CardInv, ServesInv
<1>3. PICK q \in Reactions(c) : r.card = q.card /\ q.s = READY
  BY <1>2, AnswerIs DEF READY, NONE
<1>4. Addressed(Address(op.b)) = op.b /\ Addressed(Address(op.to)) = op.to
  BY <1>1, OpenedMeans
<1>5. CASE c = "CMD32"
  <2>1. q = OnBlock(Address(op.b), [ card EXCEPT !.b = op.b ])
    BY <1>4, <1>5 DEF Reactions
  <2>2. q.card = [ card EXCEPT !.b = op.b ]
    BY <1>3, <2>1, OnBlockIs
  <2> QED BY <1>1, <1>2, <1>3, <1>5, <2>2
<1>6. CASE c = "CMD33"
  <2>1. q = OnBlock(Address(op.to), [ card EXCEPT !.to = op.to ])
    BY <1>4, <1>6 DEF Reactions
  <2>2. q.card = [ card EXCEPT !.to = op.to ]
    BY <1>3, <2>1, OnBlockIs
  <2> QED BY <1>1, <1>2, <1>3, <1>6, <2>2
<1>7. CASE c = "CMD38"
  <2> DEFINE k == [ card EXCEPT !.serves = "erase",
                      !.job = [ b \in card.b .. card.to |-> Erased ] ]
  <2>1. q = R(READY, k)
    BY <1>7 DEF Reactions
  <2>2. card.b = op.b /\ card.to = op.to
    BY <1>1, <1>7 DEF CardInv, ServesInv
  <2>3. CardOK(card)
    BY CardFacts
  <2>4. k = [ Serves("erase", card.b) EXCEPT !.job = [ b \in op.b .. op.to |-> Erased ] ]
    BY <2>2, <2>3 DEF CardOK, Serves
  <2> HIDE DEF k
  <2>5. q.card = k
    BY <2>1 DEF R
  <2> QED BY <1>1, <1>2, <1>3, <1>7, <2>4, <2>5
<1> QED BY <1>5, <1>6, <1>7

LEMMA EraseBlocksKeeps ==
  ASSUME Control, CardInv, EraseBlocks
  PROVE  Control' /\ CardInv'
<1>1. PICK c \in { "CMD32", "CMD33", "CMD38" }, l \in { "CMD33", "CMD38", "erasing" } :
        EraseCommand(c, l) /\ << c, l >> \in { << "CMD32", "CMD33" >>, << "CMD33", "CMD38" >>,
                                               << "CMD38", "erasing" >> }
  BY DEF EraseBlocks
<1>2. PICK r \in Answer(c) :
        Took(r) /\ type' = type /\ (Failed \/ (r.s = READY /\ Goto(l)))
  BY <1>1 DEF EraseCommand
<1>3. CardOK(card') /\ card' = r.card /\ store' = store /\ at = c
  BY <1>2, AnswerOK DEF Commands
<1>4. op.name = "erase" /\ op # NoCall
  BY <1>3, CallAt
<1>5. CASE Failed
  BY <1>2, <1>3, <1>4, <1>5, CardFacts, FailedKeeps
<1>6. CASE r.s = READY /\ Goto(l)
  <2>1. at' = l /\ op' = op
    BY <1>6 DEF Goto, GotoAt, calls
  <2>2. CardOK(card) /\ ~ Busy /\ DOMAIN card.job = {}
    BY <1>6, CardFacts, EraseAnswer DEF Busy
  <2>3. ServesInv'
    <3>1. CASE c = "CMD32" /\ l = "CMD33"
      <4>1. card' = [ card EXCEPT !.b = op.b ]
        BY <1>3, <1>6, <3>1, EraseAnswer
      <4>2. card'.b = op.b /\ card'.job = card.job
        BY <2>2, <4>1 DEF CardOK
      <4> QED BY <2>1, <2>2, <3>1, <4>2 DEF ServesInv, Busy
    <3>2. CASE c = "CMD33" /\ l = "CMD38"
      <4>1. card' = [ card EXCEPT !.to = op.to ]
        BY <1>3, <1>6, <3>2, EraseAnswer
      <4>2. card'.b = card.b /\ card'.to = op.to /\ card'.job = card.job
        BY <2>2, <4>1 DEF CardOK
      <4>3. card.b = op.b
        BY <1>3, <3>2 DEF CardInv, ServesInv
      <4> QED BY <2>1, <2>2, <3>2, <4>2, <4>3 DEF ServesInv, Busy
    <3>3. CASE c = "CMD38" /\ l = "erasing"
      BY <2>1, <3>3 DEF ServesInv
    <3> QED BY <1>1, <3>1, <3>2, <3>3
  <2>4. l \in Stages("erase")
    BY DEF Stages
  <2> QED BY <1>2, <1>3, <1>4, <1>6, <2>3, <2>4, CardFacts, GotoCard
<1> QED BY <1>2, <1>5, <1>6

LEMMA ErasingKeeps ==
  ASSUME Control, CardInv, Erasing
  PROVE  Control' /\ CardInv'
<1>1. at = "erasing" /\ card' = card /\ type' = type /\ store' = store
  BY DEF Erasing, Polls
<1>2. op.name = "erase" /\ op # NoCall
  BY <1>1, CallAt
<1>3. CASE Succeeded
  BY <1>1, <1>2, <1>3, CardFacts, SucceededKeeps
<1>4. CASE Within(since, ERASE_TIMEOUT) /\ Keep
  <2>1. Elapsed(since) < ERASE_TIMEOUT
    BY <1>4 DEF Within
  <2> QED BY <1>1, <1>2, <1>4, <2>1, StayKeeps
<1>5. CASE Failed
  BY <1>1, <1>2, <1>5, CardFacts, FailedKeeps
<1> QED BY <1>3, <1>4, <1>5 DEF Erasing

LEMMA DriverKeeps ==
  ASSUME Control, CardInv, Driver
  PROVE  Control' /\ CardInv'
BY FlushKeeps, GoIdleKeeps, CheckVersionKeeps, WrongEchoKeeps, AppCommandKeeps, GetReadyKeeps,
   ReadOcrKeeps, ReadCsdKeeps, TokenComesKeeps, TokenWrongKeeps, TokenAwaitedKeeps,
   ReadBlockKeeps, WriteBlockKeeps, DataAcceptedKeeps, DataRefusedKeeps, ProgrammingKeeps,
   WriteStatusKeeps, EraseBlocksKeeps, ErasingKeeps DEF Driver

-----------------------------------------------------------------------------
(* The card, calls and resets.                                             *)

(* The card is through with a job, and has carried it out or not.          *)
LEMMA DoneIs ==
  ASSUME Control, CardInv, CardDone
  PROVE  /\ CardOK(card') /\ store' \in [ SdBlock -> Value ] /\ Busy /\ ~ Busy'
         /\ card'.serves = "none"
         /\ \/ /\ \A b \in SdBlock : store'[b] = IF b \in DOMAIN card.job THEN card.job[b] ELSE store[b]
               /\ card'.failed = card.failed
            \/ /\ store' = store /\ card'.failed = TRUE
               /\ card.serves = "erase" => "erases_hold" \notin CardRules
<1> DEFINE k0 == [ Serves("none", NoBlock) EXCEPT !.job = << >>, !.to = NoBlock ]
           k1 == [ Serves("none", NoBlock) EXCEPT !.job = << >>, !.to = NoBlock, !.failed = TRUE ]
<1>1. CardOK(card) /\ store \in [ SdBlock -> Value ]
  BY CardFacts
<1>2. DOMAIN << >> = {}
  OBVIOUS
<1>3. CardOK(k0) /\ k0.job = << >> /\ k0.serves = "none" /\ k0.failed = card.failed
  BY <1>1, <1>2 DEF CardOK, Serves
<1>4. CardOK(k1) /\ k1.job = << >> /\ k1.serves = "none" /\ k1.failed = TRUE
  BY <1>1, <1>2 DEF CardOK, Serves
<1>5. Busy /\ \/ /\ card' = k0
                 /\ store' = [ b \in SdBlock |-> IF b \in DOMAIN card.job THEN card.job[b] ELSE store[b] ]
              \/ /\ card' = k1 /\ store' = store
                 /\ card.serves = "erase" => "erases_hold" \notin CardRules
  BY DEF CardDone
<1> HIDE DEF k0, k1
<1>6. store' \in [ SdBlock -> Value ]
  BY <1>1, <1>5 DEF CardOK
<1> QED BY <1>2, <1>3, <1>4, <1>5, <1>6 DEF Busy

LEMMA CardDoneKeeps ==
  ASSUME Control, CardInv, CardDone
  PROVE  Control' /\ CardInv'
<1>1. /\ at' = at /\ op' = op /\ opened' = opened /\ type' = type /\ cs' = cs /\ may' = may
      /\ clock' = clock /\ since' = since /\ waited' = waited /\ t0' = t0
  BY DEF CardDone, wait, calls
<1>2. Control'
  BY <1>1 DEF Control, CallInv, ClockInv, Elapsed
<1>3. CardType' /\ card'.kind = card.kind
  BY DoneIs, CardTypeKept DEF CardInv
<1>4. TypeInv'
  BY <1>1, <1>3, DoneIs DEF CardInv, TypeInv, Known
<1>5. ServesInv'
  BY <1>1, DoneIs DEF CardInv, ServesInv
<1> QED BY <1>2, <1>3, <1>4, <1>5 DEF CardInv

LEMMA BeginKeeps ==
  ASSUME Control, CardInv,
         NEW c \in [ name : { "open", "read", "write", "erase" },
                     b : SdBlock \cup { NoBlock }, to : SdBlock \cup { NoBlock }, v : Value ],
         NEW l \in { "CMD0", "CMD17", "CMD24", "CMD9" }, l \in Stages(c.name), Begin(c, l),
         c.name \in { "read", "write", "erase" } => opened /\ c.b \in SdBlock,
         c.name = "erase" => c.to \in SdBlock /\ c.b <= c.to,
         c.name = "open" => ~ opened /\ l = "CMD0"
  PROVE  Control' /\ CardInv'
<1>1. /\ at' = l /\ op' = c /\ waited' = 0
      /\ UNCHANGED << may, opened, type, card, store >>
  BY DEF Begin
<1>2. c # NoCall
  BY DEF NoCall
<1>3. CallInv'
  BY <1>1, <1>2 DEF CallInv, NoCall
<1>4. ClockInv'
  <2>1. 0 \in 0 .. Period - 1 /\ Starts \subseteq 0 .. Period - 1
    BY SDAssumption DEF ERASE_TIMEOUT, FLUSH_TIMEOUT
  <2>2. PICK t \in Starts : clock' = t /\ since' = t /\ t0' = IF l = "CMD0" THEN t ELSE 0
    BY DEF Begin
  <2>3. t \in 0 .. Period - 1 /\ t0' \in 0 .. Period - 1
    BY <2>1, <2>2
  <2> QED BY <1>1, <2>2, <2>3, FreshClock
<1>5. Control'
  BY <1>1, <1>2, <1>3, <1>4 DEF Control
<1>6. CardType' /\ card'.kind = card.kind
  BY <1>1 DEF CardInv, CardType, CardOK
<1>7. TypeInv'
  BY <1>1, <1>6 DEF CardInv, TypeInv, Known
<1>8. ServesInv'
  BY <1>1 DEF ServesInv
<1> QED BY <1>5, <1>6, <1>7, <1>8 DEF CardInv

LEMMA CallsKeep ==
  ASSUME Control, CardInv,
         \/ Open
         \/ \E b \in SdBlock : \/ Read(b) \/ \E v \in Value : Write(b, v)
                               \/ \E to \in SdBlock : Erase(b, to)
  PROVE  Control' /\ CardInv'
<1> USE DEF Call, Stages
<1>1. Erased \in Value
  BY SDAssumption
<1>2. CASE Open
  BY <1>1, <1>2, BeginKeeps DEF Open
<1>3. ASSUME NEW b \in SdBlock, Read(b) PROVE Control' /\ CardInv'
  BY <1>1, <1>3, BeginKeeps DEF Read
<1>4. ASSUME NEW b \in SdBlock, NEW v \in Value, Write(b, v) PROVE Control' /\ CardInv'
  BY <1>4, BeginKeeps DEF Write
<1>5. ASSUME NEW b \in SdBlock, NEW to \in SdBlock, Erase(b, to) PROVE Control' /\ CardInv'
  BY <1>1, <1>5, BeginKeeps DEF Erase
<1> QED BY <1>2, <1>3, <1>4, <1>5

LEMMA ResetKeeps ==
  ASSUME Control, CardInv, Reset
  PROVE  Control' /\ CardInv'
<1>1. /\ at' = "none" /\ since' = 0 /\ waited' = 0 /\ t0' = 0 /\ clock' = 0
      /\ cs' = "high" /\ type' = "none" /\ opened' = FALSE /\ op' = NoCall
      /\ may' = [ b \in SdBlock |-> MayHold(b, FALSE) ] /\ card' = card /\ store' = store
  BY DEF Reset
<1>2. CallInv'
  BY <1>1, SDAssumption DEF CallInv, NoCall, Stages
<1>3. ClockInv'
  <2>1. 0 \in 0 .. Period - 1
    BY SDAssumption DEF ERASE_TIMEOUT, FLUSH_TIMEOUT
  <2> QED BY <1>1, <2>1, FreshClock
<1>4. Control'
  BY <1>1, <1>2, <1>3, MayHoldType DEF Control
<1>5. CardType'
  BY <1>1 DEF CardInv, CardType, CardOK
<1>6. TypeInv' /\ ServesInv'
  BY <1>1 DEF TypeInv, ServesInv, NoCall
<1> QED BY <1>4, <1>5, <1>6 DEF CardInv

-----------------------------------------------------------------------------
(* The invariant of driver and card.                                       *)

LEMMA SdInit ==
  ASSUME Init
  PROVE  Control /\ CardInv
<1>1. /\ at = "none" /\ since = 0 /\ waited = 0 /\ t0 = 0 /\ clock = 0
      /\ cs = "high" /\ type = "none" /\ opened = FALSE /\ op = NoCall
      /\ store = [ b \in SdBlock |-> Erased ] /\ may = [ b \in SdBlock |-> { Erased } ]
  BY DEF Init
<1>2. Erased \in Value /\ Period \in Nat \ {0} /\ 0 \in 0 .. Period - 1
  BY SDAssumption DEF ERASE_TIMEOUT, FLUSH_TIMEOUT
<1>3. Elapsed(since) = 0
  <2>1. (0 - 0) % Period = 0
    <3>1. \A x \in 0 .. Period - 1 : (x - 0) % Period = x
      BY <1>2, ElapsedIs
    <3> QED BY <1>2, <3>1
  <2> QED BY <1>1, <2>1 DEF Elapsed
<1>4. Control
  BY <1>1, <1>2, <1>3 DEF Control, CallInv, ClockInv, NoCall, Stages, ERASE_TIMEOUT
<1>5. PICK c \in Cards :
        card = [ kind |-> c.kind, single |-> c.single, mode |-> "power", app |-> FALSE,
                 serves |-> "none", b |-> NoBlock, to |-> NoBlock, job |-> << >>, failed |-> FALSE ]
  BY DEF Init
<1>6. c \in [ kind : { "sd1", "sd2", "sdhc" }, single : BOOLEAN ]
  BY SDAssumption
<1>7. DOMAIN << >> = {}
  OBVIOUS
<1>8. CardOK(card)
  BY <1>5, <1>6, <1>7 DEF CardOK
<1>9. [ kind |-> card.kind, single |-> card.single ] \in Cards
  <2>1. [ kind |-> card.kind, single |-> card.single ] = c
    BY <1>5, <1>6
  <2> QED BY <2>1
<1>10. CardType
  BY <1>1, <1>2, <1>8, <1>9 DEF CardType
<1>11. TypeInv /\ ServesInv
  BY <1>1 DEF TypeInv, ServesInv, NoCall
<1> QED BY <1>4, <1>10, <1>11 DEF CardInv

LEMMA SdNext ==
  ASSUME Control, CardInv, [Next]_vars
  PROVE  Control' /\ CardInv'
<1>1. CASE UNCHANGED vars
  <2>1. /\ at' = at /\ op' = op /\ opened' = opened /\ type' = type /\ cs' = cs /\ may' = may
        /\ clock' = clock /\ since' = since /\ waited' = waited /\ t0' = t0
        /\ card' = card /\ store' = store
    BY <1>1 DEF vars, wait, calls
  <2>2. Control'
    BY <2>1 DEF Control, CallInv, ClockInv, Elapsed
  <2>3. CardType'
    BY <2>1 DEF CardInv, CardType, CardOK
  <2>4. TypeInv' /\ ServesInv'
    BY <2>1 DEF CardInv, TypeInv, ServesInv, Known, Busy
  <2> QED BY <2>2, <2>3, <2>4 DEF CardInv
<1>2. CASE Next
  BY <1>2, DriverKeeps, CardDoneKeeps, ResetKeeps, CallsKeep DEF Next
<1> QED BY <1>1, <1>2

LEMMA SdAlways == Spec => [](Control /\ CardInv)
<1>1. Init => Control /\ CardInv
  BY SdInit
<1>2. Control /\ CardInv /\ [Next]_vars => (Control /\ CardInv)'
  BY SdNext
<1> QED BY <1>1, <1>2, PTL DEF Spec

(***************************************************************************)
(* The types of the driver and the card.  No wait lasts longer than the    *)
(* longest timeout, and no erase leaves the card (sd_raw.cpp:29-40,        *)
(* 165-172, 315-318, 402-423).                                             *)
(***************************************************************************)
THEOREM SdTypeCorrect == Spec => []SdTypeOK
<1>1. Control /\ CardInv => SdTypeOK
  <2> SUFFICES ASSUME Control, CardInv PROVE SdTypeOK
    OBVIOUS
  <2>1. at \in Commands \cup Waits \cup { "none" } /\ (at = "none" <=> op = NoCall)
    BY DEF Control, CallInv, Stages, Commands, Waits, NoCall
  <2> QED BY <2>1 DEF SdTypeOK, Control, ClockInv, CardInv, CardType, CardOK, TypeInv
<1> QED BY <1>1, SdAlways, PTL

(***************************************************************************)
(* Chip select is high between calls, whichever way the last one ended     *)
(* (sd_raw.cpp:80-84, 160, 199, 325, 421).                                 *)
(***************************************************************************)
THEOREM AlwaysDeselected == Spec => []Deselected
<1>1. Control => Deselected
  BY DEF Control, Deselected
<1> QED BY <1>1, SdAlways, PTL

(***************************************************************************)
(* An open card and the driver mean the same block by an address           *)
(* (sd_raw.cpp:119-158, 222, 303, 407), for any card, even if an answer to *)
(* CMD8 was lost: the card then does not get ready.                        *)
(***************************************************************************)
THEOREM AddressesAgree == Spec => []AddressAgrees
<1>1. Control /\ CardInv => AddressAgrees
  BY AddressMeant DEF CardInv, TypeInv, AddressAgrees
<1> QED BY <1>1, SdAlways, PTL

(* A step of the driver that fails at a wait has waited.                   *)
LEMMA FailsInTime ==
  ASSUME Control, CardInv, Next, at \in { "programming", "erasing" }, op' = NoCall, ~ last'.ok
  PROVE  waited >= (IF at = "erasing" THEN ERASE_TIMEOUT ELSE WRITE_TIMEOUT)
<1>1. waited = Elapsed(since) /\ waited \in Int
  BY DEF Control, ClockInv
<1>2. op # NoCall
  BY CallAt
<1>3. Programming \/ Erasing
  <2>1. ~ Reset
    <3>1. Reset => last' = NoReturn
      BY DEF Reset
    <3>2. NoReturn.ok = TRUE
      BY DEF NoReturn
    <3> QED BY <3>1, <3>2
  <2>2. ~ CardDone
    BY <1>2 DEF CardDone, calls
  <2>3. ~ Flush
    BY DEF Flush, Commands
  <2>4. \A c \in Commands : Answer(c) = {}
    BY DEF Answer, Commands
  <2>5. ~ (Open \/ \E b \in SdBlock : \/ Read(b) \/ \E v \in Value : Write(b, v)
                                      \/ \E to \in SdBlock : Erase(b, to))
    BY DEF Open, Read, Write, Erase, Begin, Call, NoCall
  <2>6. ~ (GoIdle \/ CheckVersion \/ WrongEcho \/ AppCommand \/ GetReady \/ ReadOcr \/ ReadCsd)
    BY <2>4 DEF GoIdle, CheckVersion, WrongEcho, AppCommand, GetReady, ReadOcr, ReadCsd, Commands
  <2>7. ~ (TokenComes \/ TokenWrong \/ TokenAwaited \/ DataAccepted \/ DataRefused)
    BY DEF TokenComes, TokenWrong, TokenAwaited, DataAccepted, DataRefused
  <2>8. ~ (ReadBlock \/ WriteBlock \/ WriteStatus \/ EraseBlocks)
    BY <2>4 DEF ReadBlock, WriteBlock, WriteStatus, EraseBlocks, EraseCommand, Commands
  <2> QED BY <2>1, <2>2, <2>3, <2>5, <2>6, <2>7, <2>8 DEF Next, Driver
<1>4. ~ Keep /\ ~ Goto("CMD13")
  BY <1>2 DEF Keep, Goto, GotoAt, calls
<1>5. ~ Succeeded
  <2>1. Succeeded => last' = [ name |-> op.name, b |-> op.b, v |-> op.v, ok |-> TRUE ]
    BY DEF Succeeded, Return
  <2>2. [ name |-> op.name, b |-> op.b, v |-> op.v, ok |-> TRUE ].ok = TRUE
    OBVIOUS
  <2> QED BY <2>1, <2>2
<1>6. CASE Programming
  <2>1. at = "programming" /\ ~ Within(since, WRITE_TIMEOUT)
    BY <1>4, <1>6 DEF Programming
  <2> QED BY <1>1, <2>1 DEF Within, WRITE_TIMEOUT
<1>7. CASE Erasing
  <2>1. at = "erasing" /\ ~ Within(since, ERASE_TIMEOUT)
    BY <1>4, <1>5, <1>7 DEF Erasing
  <2> QED BY <1>1, <2>1 DEF Within, ERASE_TIMEOUT
<1> QED BY <1>3, <1>6, <1>7

(***************************************************************************)
(* No write and no erase is given up for lost before its time, wherever    *)
(* millis() stood and however it wraps (sd_raw.cpp:29-40, 316, 417).       *)
(***************************************************************************)
THEOREM TimeoutsNotHasty == Spec => NoHastyTimeout
<1>1. Control /\ CardInv /\ [Next]_vars =>
        [ (at \in { "programming", "erasing" } /\ op' = NoCall /\ ~ last'.ok)
            => waited >= (IF at = "erasing" THEN ERASE_TIMEOUT ELSE WRITE_TIMEOUT) ]_vars
  BY FailsInTime
<1> QED BY <1>1, SdAlways, PTL DEF Spec, NoHastyTimeout

-----------------------------------------------------------------------------
(* The data.                                                               *)

\* What the card is at fits what its blocks may hold.
JobFits(ok) == \A b \in DOMAIN card'.job : card'.job[b] \in MayHold(b, ok)

LEMMA SameMay ==
  ASSUME op' = op, may' = may, NEW b, NEW ok
  PROVE  MayHold(b, ok)' = MayHold(b, ok)
BY DEF MayHold

LEMMA NoMay ==
  ASSUME op = NoCall, NEW b, NEW ok
  PROVE  MayHold(b, ok) = may[b]
BY DEF MayHold, NoCall

LEMMA NoMayNext ==
  ASSUME op' = NoCall, NEW b, NEW ok
  PROVE  MayHold(b, ok)' = may'[b]
BY DEF MayHold, NoCall

(* A command changes what the card is at only if it is the one that        *)
(* erases, and then as the running call may.                               *)
LEMMA AnswerFits ==
  ASSUME Control, CardInv, HeldInv, NEW c \in Commands, NEW r \in Answer(c)
  PROVE  /\ \A b \in DOMAIN r.card.job : r.card.job[b] \in MayHold(b, FALSE)
         /\ c # "CMD38" => r.card.job = card.job
<1>1. CardOK(card) /\ at = c
  BY CardFacts, AnswerIs
<1>2. \A b \in DOMAIN card.job : card.job[b] \in MayHold(b, FALSE)
  BY DEF HeldInv, BlocksHeld
<1>3. CASE c # "CMD38"
  BY <1>1, <1>2, <1>3, AnswerIs, SameJob
<1>4. CASE c = "CMD38"
  <2>1. op.name = "erase" /\ card.b = op.b /\ card.to = op.to
    BY <1>1, <1>4, CallAt DEF CardInv, ServesInv
  <2> DEFINE j == [ b \in op.b .. op.to |-> Erased ]
             k == [ card EXCEPT !.serves = "erase", !.job = j ]
  <2>2. \A q \in Reactions(c) : q = R(READY, k)
    BY <1>4, <2>1 DEF Reactions
  <2>3. k.job = j
    BY <1>1 DEF CardOK
  <2>4. \A b \in DOMAIN j : j[b] \in MayHold(b, FALSE)
    BY <2>1 DEF MayHold
  <2> HIDE DEF j, k
  <2>5. \A q \in Reactions(c) : q.card = k
    BY <2>2 DEF R
  <2>6. r.card = card \/ r.card.job = j
    BY <2>3, <2>5, AnswerIs
  <2> QED BY <1>2, <1>4, <2>4, <2>6
<1> QED BY <1>3, <1>4

\* A call returns, and each block holds what the result tells.
LEMMA ReturnHeld ==
  ASSUME Control, CardInv, HeldInv, op # NoCall, NEW ok \in BOOLEAN, NEW v,
         Return(ok, v, "high"), store' = store, CardOK(card'), JobFits(ok),
         \A b \in SdBlock : store[b] \in MayHold(b, ok),
         ok /\ op.name = "read" => op.b \in SdBlock /\ v \in MayHold(op.b, ok)
  PROVE  HeldInv'
<1>1. /\ at' = "none" /\ op' = NoCall
      /\ last' = [ name |-> op.name, b |-> op.b, v |-> v, ok |-> ok ]
      /\ may' = [ b \in SdBlock |-> MayHold(b, ok) ]
  BY DEF Return
<1>2. BlocksHeld'
  <2>1. \A b \in SdBlock : MayHold(b, FALSE)' = MayHold(b, ok)
    BY <1>1, NoMayNext
  <2>2. DOMAIN card'.job \subseteq SdBlock
    BY DEF CardOK
  <2> QED BY <2>1, <2>2 DEF BlocksHeld, JobFits
<1>3. last'.name = op.name /\ last'.b = op.b /\ last'.v = v /\ last'.ok = ok
  BY <1>1
<1>4. last'.name = "read" /\ last'.ok => last'.v \in may'[last'.b]
  BY <1>1, <1>3
<1> QED BY <1>1, <1>2, <1>4 DEF HeldInv

LEMMA FailedHeld ==
  ASSUME Control, CardInv, HeldInv, op # NoCall, Failed, store' = store, CardOK(card'),
         JobFits(FALSE)
  PROVE  HeldInv'
BY ReturnHeld DEF Failed, HeldInv, BlocksHeld

\* A call goes on to a stage that has no claim on the data.
LEMMA GotoHeld ==
  ASSUME Control, CardInv, HeldInv, op # NoCall, NEW l, NEW c, GotoAt(l, c), store' = store,
         l \notin { "programming", "CMD13", "erasing" }, JobFits(FALSE)
  PROVE  HeldInv'
<1>1. at' = l /\ op' = op /\ may' = may /\ last' = last
  BY DEF GotoAt, calls
<1>2. BlocksHeld'
  BY <1>1, SameMay DEF HeldInv, BlocksHeld, JobFits
<1> QED BY <1>1, <1>2 DEF HeldInv

LEMMA StayHeld ==
  ASSUME Control, CardInv, HeldInv,
         UNCHANGED << at, op, may, last, card, store >>
  PROVE  HeldInv'
<1>1. BlocksHeld'
  BY SameMay DEF HeldInv, BlocksHeld
<1> QED BY <1>1 DEF HeldInv, Busy, Written

LEMMA KeepIs ==
  ASSUME Keep
  PROVE  UNCHANGED << at, op, may, last >>
BY DEF Keep, calls

(* A step that only takes an answer, and goes on or fails.                 *)
LEMMA AnswerHeld ==
  ASSUME Control, CardInv, HeldInv, NEW c \in Commands, NEW r \in Answer(c), Took(r),
         \/ Failed
         \/ \E l : Goto(l) /\ l \notin { "programming", "CMD13", "erasing" }
         \/ \E l : TryAgain(l) /\ l \notin { "programming", "CMD13", "erasing" }
  PROVE  HeldInv'
<1>1. CardOK(card') /\ card' = r.card /\ store' = store /\ at = c
  BY AnswerOK
<1>2. op # NoCall /\ JobFits(FALSE)
  BY ZenonT(30), <1>1, CallAt, AnswerFits DEF JobFits, Commands
<1> QED BY <1>1, <1>2, FailedHeld, GotoHeld DEF Goto, TryAgain

LEMMA OpenHeld ==
  ASSUME Control, CardInv, HeldInv,
         GoIdle \/ CheckVersion \/ WrongEcho \/ AppCommand \/ GetReady \/ ReadOcr
  PROVE  HeldInv'
<1>1. CASE GoIdle
  BY <1>1, AnswerHeld DEF GoIdle, Commands
<1>2. CASE CheckVersion
  BY <1>2, AnswerHeld DEF CheckVersion, Commands
<1>3. CASE AppCommand
  BY <1>3, AnswerHeld DEF AppCommand, Commands
<1>4. CASE GetReady
  BY <1>4, AnswerHeld DEF GetReady, Commands
<1>5. CASE ReadOcr
  BY <1>5, AnswerHeld DEF ReadOcr, Commands
<1>6. CASE WrongEcho
  <2>1. PICK r \in Answer("CMD8") : card' = r.card
    BY <1>6 DEF WrongEcho
  <2>2. Failed /\ store' = store
    BY <1>6 DEF WrongEcho
  <2>3. at = "CMD8" /\ op # NoCall
    BY AnswerIs, CallAt
  <2>4. CardOK(card') /\ JobFits(FALSE)
    BY ZenonT(30), <2>1, <2>3, AnswerIs, ReactionOK, CardFacts, AnswerFits DEF Commands, JobFits
  <2> QED BY <2>2, <2>3, <2>4, FailedHeld
<1> QED BY <1>1, <1>2, <1>3, <1>4, <1>5, <1>6

LEMMA RegisterFailedHeld ==
  ASSUME Control, CardInv, HeldInv, op.name \in { "open", "erase" }, RegisterFailed,
         store' = store, CardOK(card'), JobFits(FALSE)
  PROVE  HeldInv'
<1>1. op # NoCall
  BY DEF NoCall
<1>2. CASE op.name = "open"
  <2>1. \A b : MayHold(b, TRUE) = MayHold(b, FALSE)
    BY <1>2 DEF MayHold
  <2>2. Succeeded
    BY <1>2 DEF RegisterFailed
  <2>3. \A b \in SdBlock : store[b] \in MayHold(b, TRUE)
    BY <2>1 DEF HeldInv, BlocksHeld
  <2>4. JobFits(TRUE)
    BY <2>1 DEF JobFits
  <2> QED BY <1>1, <1>2, <2>2, <2>3, <2>4, ReturnHeld DEF Succeeded
<1>3. CASE op.name = "erase"
  BY <1>1, <1>3, FailedHeld DEF RegisterFailed
<1> QED BY <1>2, <1>3

LEMMA ReadCsdHeld ==
  ASSUME Control, CardInv, HeldInv, ReadCsd
  PROVE  HeldInv'
<1>1. PICK r \in Answer("CMD9") :
        Took(r) /\ type' = type /\ (RegisterFailed \/ Goto("token"))
  BY DEF ReadCsd
<1>2. CardOK(card') /\ card' = r.card /\ store' = store /\ at = "CMD9"
  BY <1>1, AnswerOK DEF Commands
<1>3. op.name \in { "open", "erase" } /\ op # NoCall /\ JobFits(FALSE)
  BY <1>2, CallAt, AnswerFits DEF JobFits, Commands
<1> QED BY <1>1, <1>2, <1>3, RegisterFailedHeld, GotoHeld DEF Goto

\* Nothing has been begun by a card that is not busy.
LEMMA NotBusyFits ==
  ASSUME ~ Busy', NEW ok
  PROVE  JobFits(ok)
BY DEF Busy, JobFits

LEMMA TokenHeld ==
  ASSUME Control, CardInv, HeldInv, TokenComes \/ TokenWrong \/ TokenAwaited
  PROVE  HeldInv'
<1>1. at = "token" /\ store' = store /\ op.name \in { "open", "erase", "read" } /\ op # NoCall
  BY CallAt DEF TokenComes, TokenWrong, TokenAwaited, Polls
<1>2. ASSUME TokenFails, CardOK(card'), JobFits(FALSE) PROVE HeldInv'
  <2>1. CASE op.name = "read"
    BY <1>1, <1>2, <2>1, FailedHeld DEF TokenFails
  <2>2. CASE op.name \in { "open", "erase" }
    BY <1>1, <1>2, <2>2, RegisterFailedHeld DEF TokenFails
  <2> QED BY <1>1, <2>1, <2>2
<1>3. card' = card => CardOK(card') /\ JobFits(FALSE)
  BY CardFacts DEF HeldInv, BlocksHeld, JobFits
<1>4. ~ Busy /\ card' = Serves("none", NoBlock) => CardOK(card') /\ ~ Busy'
  BY <1>1, ServesNothing
<1>5. CASE TokenComes
  <2>1. CardOK(card') /\ ~ Busy' /\ ~ Busy /\ card.serves \in { "csd", "block" }
    BY <1>4, <1>5 DEF TokenComes, Sending
  <2>2. CASE op.name = "read"
    <3>1. Return(TRUE, store[card.b], "high")
      BY <1>5, <2>2 DEF TokenComes
    <3>2. card.b = op.b /\ op.b \in SdBlock
      BY <1>1, <2>1, <2>2, OpenedMeans DEF CardInv, ServesInv
    <3>3. \A b : MayHold(b, TRUE) = MayHold(b, FALSE)
      BY <2>2 DEF MayHold
    <3>4. \A b \in SdBlock : store[b] \in MayHold(b, TRUE)
      BY <3>3 DEF HeldInv, BlocksHeld
    <3>5. store[card.b] \in MayHold(op.b, TRUE) /\ JobFits(TRUE)
      BY <2>1, <3>2, <3>4, NotBusyFits
    <3> QED BY <1>1, <2>1, <3>1, <3>2, <3>4, <3>5, ReturnHeld
  <2>3. CASE op.name = "open"
    <3>1. RegisterFailed
      BY <1>5, <2>3 DEF TokenComes, RegisterFailed
    <3> QED BY <1>1, <2>1, <2>3, <3>1, NotBusyFits, RegisterFailedHeld
  <2>4. CASE op.name = "erase"
    <3>1. Goto("CMD32") \/ Failed
      BY <1>5, <2>4 DEF TokenComes
    <3> QED BY <1>1, <2>1, <3>1, NotBusyFits, FailedHeld, GotoHeld DEF Goto
  <2> QED BY <1>1, <2>2, <2>3, <2>4
<1>6. CASE TokenWrong
  <2>1. TokenFails /\ (card' = card \/ (~ Busy /\ card' = Serves("none", NoBlock)))
    BY <1>6 DEF TokenWrong, Sending
  <2> QED BY <1>2, <1>3, <1>4, <2>1, NotBusyFits
<1>7. CASE TokenAwaited
  <2>1. \/ TokenFails /\ ~ Busy /\ card' = Serves("none", NoBlock)
        \/ Keep /\ card' = card
    BY <1>7 DEF TokenAwaited
  <2> QED BY <1>1, <1>2, <1>4, <2>1, NotBusyFits, KeepIs, StayHeld
<1> QED BY <1>5, <1>6, <1>7

LEMMA BlockHeld ==
  ASSUME Control, CardInv, HeldInv, ReadBlock \/ WriteBlock
  PROVE  HeldInv'
<1>1. CASE ReadBlock
  BY <1>1, AnswerHeld DEF ReadBlock, Commands
<1>2. CASE WriteBlock
  BY <1>2, AnswerHeld DEF WriteBlock, Commands
<1> QED BY <1>1, <1>2

(* What is programmed is the value of the call, in its block.              *)
LEMMA DataAcceptedHeld ==
  ASSUME Control, CardInv, HeldInv, DataAccepted
  PROVE  HeldInv'
<1>1. /\ at' = "programming" /\ op' = op /\ may' = may /\ last' = last /\ store' = store
  BY DEF DataAccepted, Polls, Goto, GotoAt, calls
<1>2. /\ DOMAIN card'.job = { op.b } /\ card'.job[op.b] = op.v /\ op.name = "write"
  BY JobAccepted
<1>3. BlocksHeld'
  <2>1. op.v \in MayHold(op.b, FALSE)
    BY <1>2 DEF MayHold
  <2> QED BY <1>1, <1>2, <2>1, SameMay DEF HeldInv, BlocksHeld
<1>4. op' # NoCall
  BY <1>1, <1>2 DEF NoCall
<1>5. Busy'
  BY <1>2 DEF Busy
<1> QED BY <1>1, <1>2, <1>3, <1>4, <1>5 DEF HeldInv

LEMMA DataRefusedHeld ==
  ASSUME Control, CardInv, HeldInv, DataRefused
  PROVE  HeldInv'
<1>1. at = "data" /\ Failed /\ store' = store /\ op # NoCall
  BY CallAt DEF DataRefused, Polls
<1>2. card' = card \/ (~ Busy /\ card' = Serves("none", NoBlock))
  BY DEF DataRefused, Accepts
<1>3. card' = card => CardOK(card') /\ JobFits(FALSE)
  BY CardFacts DEF HeldInv, BlocksHeld, JobFits
<1>4. ~ Busy /\ card' = Serves("none", NoBlock) => CardOK(card') /\ ~ Busy'
  BY <1>1, ServesNothing
<1> QED BY <1>1, <1>2, <1>3, <1>4, NotBusyFits, FailedHeld

LEMMA ProgrammingHeld ==
  ASSUME Control, CardInv, HeldInv, Programming
  PROVE  HeldInv'
<1>1. at = "programming" /\ card' = card /\ store' = store /\ op # NoCall
  BY CallAt DEF Programming, Polls
<1>2. CardOK(card') /\ JobFits(FALSE)
  BY <1>1, CardFacts DEF HeldInv, BlocksHeld, JobFits
<1>3. CASE ~ Busy /\ Goto("CMD13")
  <2>1. at' = "CMD13" /\ op' = op /\ may' = may /\ last' = last
    BY <1>3 DEF Goto, GotoAt, calls
  <2>2. Written
    BY <1>1, <1>3 DEF HeldInv
  <2>3. BlocksHeld'
    BY <1>1, <2>1, SameMay DEF HeldInv, BlocksHeld
  <2> QED BY <1>1, <1>3, <2>1, <2>2, <2>3 DEF HeldInv, Busy, Written
<1>4. CASE Keep
  BY <1>1, <1>4, KeepIs, StayHeld
<1>5. CASE Failed
  BY <1>1, <1>2, <1>5, FailedHeld
<1> QED BY <1>3, <1>4, <1>5 DEF Programming

(* A write succeeds only when the card has said that it is programmed.     *)
LEMMA WriteStatusHeld ==
  ASSUME Control, CardInv, HeldInv, WriteStatus
  PROVE  HeldInv'
<1>1. PICK r \in Answer("CMD13") : Took(r) /\ (Failed \/ (~ card.failed /\ Succeeded))
  BY DEF WriteStatus
<1>2. CASE Failed
  BY <1>1, <1>2, AnswerHeld DEF Commands
<1>3. CASE ~ card.failed /\ Succeeded
  <2>1. CardOK(card') /\ card' = r.card /\ store' = store /\ at = "CMD13"
    BY <1>1, AnswerOK DEF Commands
  <2>2. op.name = "write" /\ op # NoCall
    BY <2>1, CallAt
  <2>3. ~ Busy /\ store[op.b] = op.v
    BY <1>3, <2>1 DEF HeldInv, Written
  <2>4. ~ Busy'
    BY <2>1, <2>3, AnswerFits DEF Busy, Commands
  <2>5. \A b \in SdBlock : store[b] \in MayHold(b, TRUE)
    BY <2>2, <2>3 DEF HeldInv, BlocksHeld, MayHold
  <2> QED BY <1>3, <2>1, <2>2, <2>4, <2>5, NotBusyFits, ReturnHeld DEF Succeeded
<1> QED BY <1>1, <1>2, <1>3

(* The erase that the driver waits for is the one it asked for.            *)
LEMMA EraseBlocksHeld ==
  ASSUME Control, CardInv, HeldInv, EraseBlocks
  PROVE  HeldInv'
<1>1. CASE EraseCommand("CMD32", "CMD33")
  BY <1>1, AnswerHeld DEF EraseCommand, Commands
<1>2. CASE EraseCommand("CMD33", "CMD38")
  BY <1>2, AnswerHeld DEF EraseCommand, Commands
<1>3. CASE EraseCommand("CMD38", "erasing")
  <2>1. PICK r \in Answer("CMD38") : Took(r) /\ (Failed \/ (r.s = READY /\ Goto("erasing")))
    BY <1>3 DEF EraseCommand
  <2>2. CASE Failed
    BY <2>1, <2>2, AnswerHeld DEF Commands
  <2>3. CASE r.s = READY /\ Goto("erasing")
    <3>1. CardOK(card') /\ card' = r.card /\ store' = store /\ at = "CMD38"
      BY <2>1, AnswerOK DEF Commands
    <3>2. at' = "erasing" /\ op' = op /\ may' = may /\ last' = last
      BY <2>3 DEF Goto, GotoAt, calls
    <3>3. op # NoCall /\ op.b \in SdBlock /\ op.to \in SdBlock /\ op.b <= op.to
      BY <3>1, CallAt, OpenedMeans DEF Control, CallInv
    <3> DEFINE j == [ b \in op.b .. op.to |-> Erased ]
    <3>4. card'.job = j /\ card'.serves = "erase"
      <4>1. r.card = [ Serves("erase", card.b) EXCEPT !.job = j ]
        BY <2>3, EraseAnswer
      <4>2. CardOK(card)
        BY CardFacts
      <4> HIDE DEF j
      <4> QED BY <3>1, <4>1, <4>2 DEF CardOK, Serves
    <3>5. DOMAIN j = op.b .. op.to /\ \A b \in op.b .. op.to : j[b] = Erased
      OBVIOUS
    <3> HIDE DEF j
    <3>6. op.b \in DOMAIN card'.job
      <4>1. op.b \in Nat /\ op.to \in Nat
        BY <3>3, SDAssumption
      <4>2. op.b \in op.b .. op.to
        BY <3>3, <4>1
      <4> QED BY <3>4, <3>5, <4>2
    <3>7. BlocksHeld'
      <4>1. \A b \in DOMAIN card'.job : card'.job[b] \in MayHold(b, FALSE)
        BY <3>1, AnswerFits DEF Commands
      <4> QED BY <3>1, <3>2, <4>1, SameMay DEF HeldInv, BlocksHeld
    <3> QED BY <3>2, <3>3, <3>4, <3>5, <3>6, <3>7 DEF HeldInv, Busy
  <2> QED BY <2>1, <2>2, <2>3
<1> QED BY <1>1, <1>2, <1>3 DEF EraseBlocks

LEMMA ErasingHeld ==
  ASSUME Control, CardInv, HeldInv, Erasing
  PROVE  HeldInv'
<1>1. at = "erasing" /\ card' = card /\ store' = store /\ op.name = "erase" /\ op # NoCall
  BY CallAt DEF Erasing, Polls
<1>2. CardOK(card') /\ JobFits(FALSE)
  BY <1>1, CardFacts DEF HeldInv, BlocksHeld, JobFits
<1>3. CASE ~ Busy /\ Succeeded
  <2>1. \A b \in op.b .. op.to : store[b] = Erased
    BY <1>1, <1>3 DEF HeldInv
  <2>2. \A b \in SdBlock : store[b] \in MayHold(b, TRUE)
    BY <1>1, <2>1 DEF HeldInv, BlocksHeld, MayHold
  <2>3. ~ Busy'
    BY <1>1, <1>3 DEF Busy
  <2> QED BY <1>1, <1>2, <1>3, <2>2, <2>3, NotBusyFits, ReturnHeld DEF Succeeded
<1>4. CASE Keep
  BY <1>1, <1>4, KeepIs, StayHeld
<1>5. CASE Failed
  BY <1>1, <1>2, <1>5, FailedHeld
<1> QED BY <1>3, <1>4, <1>5 DEF Erasing

(* The card ends late, or early: what it programs is what a call asked     *)
(* for that has not been followed by a success.                            *)
LEMMA CardDoneHeld ==
  ASSUME Control, CardInv, HeldInv, CardDone, "erases_hold" \in CardRules
  PROVE  HeldInv'
<1>1. at' = at /\ op' = op /\ may' = may /\ last' = last
  BY DEF CardDone, calls
<1>2. Busy /\ ~ Busy' /\ CardOK(card) /\ store \in [ SdBlock -> Value ]
  BY DoneIs, CardFacts
<1>3. \/ /\ \A b \in SdBlock : store'[b] = IF b \in DOMAIN card.job THEN card.job[b] ELSE store[b]
         /\ card'.failed = card.failed
      \/ store' = store /\ card'.failed = TRUE /\ card.serves # "erase"
  BY DoneIs
<1>4. BlocksHeld'
  <2>1. \A b \in SdBlock : store'[b] \in MayHold(b, FALSE)
    BY <1>3 DEF HeldInv, BlocksHeld
  <2> QED BY <1>1, <1>2, <2>1, SameMay DEF BlocksHeld, Busy
<1>5. at # "CMD13"
  BY <1>2 DEF HeldInv
<1>6. CASE at = "programming"
  <2>1. DOMAIN card.job = { op.b } /\ card.job[op.b] = op.v
    BY <1>2, <1>6 DEF HeldInv
  <2>2. op.b \in SdBlock /\ op # NoCall
    BY <1>6, CallAt, OpenedMeans
  <2>3. card'.failed \/ store'[op.b] = op.v
    BY <1>3, <2>1, <2>2
  <2> QED BY <1>1, <1>2, <1>4, <1>6, <2>2, <2>3 DEF HeldInv, Written
<1>7. CASE at = "erasing"
  <2>1. card.serves = "erase" /\ \A b \in op.b .. op.to : b \in DOMAIN card.job /\ card.job[b] = Erased
    BY <1>2, <1>7 DEF HeldInv
  <2>2. DOMAIN card.job \subseteq SdBlock /\ op # NoCall
    BY <1>2, <1>7, CallAt DEF CardOK
  <2>3. \A b \in op.b .. op.to : store'[b] = Erased
    BY <1>3, <2>1, <2>2
  <2> QED BY <1>1, <1>2, <1>4, <1>7, <2>2, <2>3 DEF HeldInv
<1>8. CASE at \notin { "programming", "CMD13", "erasing" }
  BY <1>1, <1>4, <1>8 DEF HeldInv
<1> QED BY <1>5, <1>6, <1>7, <1>8

(* A call that begins leaves what each block may hold.                     *)
LEMMA BeginHeld ==
  ASSUME Control, CardInv, HeldInv, NEW c, NEW l \in { "CMD0", "CMD17", "CMD24", "CMD9" },
         c.name # "none", Begin(c, l)
  PROVE  HeldInv'
<1>1. /\ op = NoCall /\ op' = c /\ at' = l /\ may' = may /\ store' = store /\ card' = card
  <2>1. op.name = "none"
    BY DEF Begin
  <2> QED BY <2>1 DEF Begin, Control, CallInv
<1>2. op' # NoCall
  BY <1>1 DEF NoCall
<1>3. \A b : MayHold(b, FALSE) = may[b] /\ may[b] \subseteq MayHold(b, FALSE)'
  BY <1>1, NoMay DEF MayHold
<1>4. BlocksHeld'
  BY ZenonT(30), <1>1, <1>3 DEF HeldInv, BlocksHeld, CardInv, CardType, CardOK
<1> QED BY <1>1, <1>2, <1>4 DEF HeldInv

LEMMA CallsHeld ==
  ASSUME Control, CardInv, HeldInv,
         \/ Open
         \/ \E b \in SdBlock : \/ Read(b) \/ \E v \in Value : Write(b, v)
                               \/ \E to \in SdBlock : Erase(b, to)
  PROVE  HeldInv'
<1> USE DEF Call
<1>1. CASE Open
  BY <1>1, BeginHeld DEF Open
<1>2. ASSUME NEW b \in SdBlock, Read(b) PROVE HeldInv'
  BY <1>2, BeginHeld DEF Read
<1>3. ASSUME NEW b \in SdBlock, NEW v \in Value, Write(b, v) PROVE HeldInv'
  BY <1>3, BeginHeld DEF Write
<1>4. ASSUME NEW b \in SdBlock, NEW to \in SdBlock, Erase(b, to) PROVE HeldInv'
  BY <1>4, BeginHeld DEF Erase
<1> QED BY <1>1, <1>2, <1>3, <1>4

(* After a reset it is not known how the call would have ended.            *)
LEMMA ResetHeld ==
  ASSUME Control, CardInv, HeldInv, Reset
  PROVE  HeldInv'
<1>1. /\ at' = "none" /\ op' = NoCall /\ last' = NoReturn /\ card' = card /\ store' = store
      /\ may' = [ b \in SdBlock |-> MayHold(b, FALSE) ]
  BY DEF Reset
<1>2. \A b \in SdBlock : MayHold(b, FALSE)' = MayHold(b, FALSE)
  BY <1>1, NoMayNext
<1>3. BlocksHeld'
  BY ZenonT(30), <1>1, <1>2, CardFacts DEF HeldInv, BlocksHeld, CardOK
<1>4. last'.name # "read"
  BY <1>1 DEF NoReturn
<1> QED BY <1>1, <1>3, <1>4 DEF HeldInv

LEMMA DriverHeld ==
  ASSUME Control, CardInv, HeldInv, Driver
  PROVE  HeldInv'
<1>1. CASE Flush
  <2>1. card' = card /\ store' = store
    BY <1>1 DEF Flush
  <2>2. Keep \/ UNCHANGED << at, since, waited, t0, clock, cs, calls >>
    BY <1>1 DEF Flush
  <2> QED BY <2>1, <2>2, KeepIs, StayHeld DEF calls
<1> QED BY <1>1, OpenHeld, ReadCsdHeld, TokenHeld, BlockHeld, DataAcceptedHeld, DataRefusedHeld,
          ProgrammingHeld, WriteStatusHeld, EraseBlocksHeld, ErasingHeld DEF Driver

LEMMA HeldNext ==
  ASSUME Control, CardInv, HeldInv, [Next]_vars, "erases_hold" \in CardRules
  PROVE  HeldInv'
<1>1. CASE UNCHANGED vars
  BY <1>1, StayHeld DEF vars, calls
<1>2. CASE Next
  BY <1>2, DriverHeld, CardDoneHeld, ResetHeld, CallsHeld DEF Next
<1> QED BY <1>1, <1>2

LEMMA HeldInit ==
  ASSUME Init
  PROVE  HeldInv
<1>1. /\ at = "none" /\ op = NoCall /\ last = NoReturn /\ card.job = << >>
      /\ store = [ b \in SdBlock |-> Erased ] /\ may = [ b \in SdBlock |-> { Erased } ]
  BY DEF Init
<1>2. BlocksHeld
  <2>1. \A b \in SdBlock : MayHold(b, FALSE) = may[b]
    BY <1>1, NoMay
  <2>2. DOMAIN << >> = {}
    OBVIOUS
  <2> QED BY <1>1, <2>1, <2>2 DEF BlocksHeld
<1>3. last.name # "read"
  BY <1>1 DEF NoReturn
<1> QED BY <1>1, <1>2, <1>3 DEF HeldInv

(***************************************************************************)
(* With a card that carries out the erases it has begun, every block holds *)
(* what the calls told of it, and a read returns that, though answers are  *)
(* lost, the card is busy for long and the processor starts anew           *)
(* (sd_raw.cpp:208-251, 296-327, 385-424).  Without that rule it is false: *)
(* sd_raw_erase does not ask for the status of the card.                   *)
(***************************************************************************)
THEOREM DataHeld == "erases_hold" \in CardRules /\ Spec => []HoldsWhatWasTold
<1> SUFFICES ASSUME "erases_hold" \in CardRules PROVE Spec => []HoldsWhatWasTold
  OBVIOUS
<1>1. Init => Control /\ CardInv /\ HeldInv
  BY SdInit, HeldInit
<1>2. (Control /\ CardInv /\ HeldInv) /\ [Next]_vars => (Control /\ CardInv /\ HeldInv)'
  BY SdNext, HeldNext
<1>3. Control /\ CardInv /\ HeldInv => HoldsWhatWasTold
  <2> SUFFICES ASSUME HeldInv, op = NoCall
               PROVE  /\ \A b \in SdBlock : store[b] \in may[b]
                      /\ last.name = "read" /\ last.ok => last.v \in may[last.b]
    BY DEF HoldsWhatWasTold
  <2> QED BY NoMay DEF HeldInv, BlocksHeld
<1> QED BY <1>1, <1>2, <1>3, PTL DEF Spec

=============================================================================
