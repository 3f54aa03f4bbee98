------------------------------- MODULE FlogSD -------------------------------
(***************************************************************************)
(* The SD card driver of src/backends/arduino-sd/sd_raw.cpp, and the card  *)
(* at the other end of the bus.                                            *)
(*                                                                         *)
(* The driver is a sequential program that polls: it selects the card,     *)
(* waits for the bus to read 0xff, sends a command, and takes the first    *)
(* byte with a clear top bit for the card's answer.  The card answers, is  *)
(* silent, takes its time over a write or an erase and holds the bus at    *)
(* zero meanwhile, whether the driver waits for it or has given up.        *)
(*                                                                         *)
(* Time is what millis() tells: it passes while the driver polls in vain,  *)
(* and it wraps.  Between calls it passes as it likes, and is left at 0.   *)
(***************************************************************************)
EXTENDS Integers, FiniteSets

CONSTANTS
  SdBlock,    \* the blocks of 512 bytes of the card
  Value,      \* what a block may hold
  Erased,     \* what an erased block holds
  Cards,      \* cards that are tried: a kind, and whether a block can be erased
  Period,     \* millis() counts modulo this; 2^32
  Starts,     \* bound: what millis() tells when a call begins
  MaxFaults,  \* bound: answers lost, data rejected or not programmed
  MaxResets,  \* bound: resets of the processor
  CardRules   \* what the card is trusted with, see below

\* The timeouts of sd_raw.cpp (300 ms, SD_RAW_INIT_TIMEOUT, ...), in units
\* that keep their order.
FLUSH_TIMEOUT == 1
INIT_TIMEOUT  == 2
READ_TIMEOUT  == 1
WRITE_TIMEOUT == 2
ERASE_TIMEOUT == 3

\* The blocks of a card are numbered from 0 without a gap.
ASSUME SDAssumption ==
  /\ SdBlock \subseteq Nat /\ \A b \in SdBlock : 0 .. b \subseteq SdBlock
  /\ Erased \in Value
  /\ Cards \subseteq [ kind : { "sd1", "sd2", "sdhc" }, single : BOOLEAN ]
  /\ Starts \subseteq 0 .. Period - 1 /\ Period \in Nat /\ Period > ERASE_TIMEOUT + 2 * FLUSH_TIMEOUT

(***************************************************************************)
(*   erases_hold   the card carries out every erase it has begun: the      *)
(*                 driver does not ask for its status after one, as it     *)
(*                 does after a write                                      *)
(***************************************************************************)
ASSUME CardRulesAssumption == CardRules \subseteq { "erases_hold" }

VARIABLES
  at,       \* where the driver is: a command, a wait, or "none"
  flushed,  \* in a command: sd_raw_flush has returned
  since,    \* t0 of the present wait
  waited,   \* the time it has lasted
  t0,       \* t0 of sd_raw_initialize
  clock,    \* millis()
  cs,       \* level of the chip select pin
  type,     \* sd->type
  opened,   \* flogfs_arduino_sd_open has succeeded
  op,       \* the running call
  last,     \* the call that returned last, and what it returned
  card,     \* the card's side of the protocol
  store,    \* what its blocks hold
  may,      \* what each block may hold, by what the calls returned
  faults,   \* faults so far
  resets    \* resets so far

wait  == << flushed, since, waited >>
calls == << op, last, may, opened >>
vars  == << at, wait, t0, clock, cs, type, calls, card, store, faults, resets >>

NoBlock  == -1
NoCall   == [ name |-> "none", b |-> NoBlock, to |-> NoBlock, v |-> Erased ]
NoReturn == [ name |-> "none", b |-> NoBlock, v |-> Erased, ok |-> TRUE ]

Commands == { "CMD0", "CMD8", "CMD55", "ACMD41", "CMD58", "CMD9", "CMD17", "CMD24",
              "CMD13", "CMD32", "CMD33", "CMD38" }
Waits    == { "token", "data", "programming", "erasing" }

-----------------------------------------------------------------------------
(* The card.                                                               *)

READY   == 0     \* R1_READY_STATE, and what a busy card makes of the bus
IDLE    == 1     \* R1_IDLE_STATE
ILLEGAL == 5     \* R1_IDLE_STATE + R1_ILLEGAL_COMMAND
ADDRESS == 64    \* address out of range
NONE    == 255   \* no answer: sd_raw_command has read 0xff to the end

Busy == DOMAIN card.job # {}

\* Blocks are addressed by their first byte, unless the card is of high
\* capacity.
Address(b) == IF type # "SDHC" THEN b * 512 ELSE b
Addressed(a) == IF card.kind = "sdhc" THEN a ELSE a \div 512

R(s, c) == [ s |-> s, card |-> c ]

Serves(what, b) == [ card EXCEPT !.serves = what, !.b = b ]

OnBlock(a, c) ==
  IF card.mode # "ready" THEN R(ILLEGAL, card)
  ELSE IF Addressed(a) \notin SdBlock THEN R(ADDRESS, card) ELSE R(READY, c)

\* A card of high capacity gets ready only for a host that knows them.
GetsReady ==
  IF card.kind # "sdhc" \/ type = "SD2"
    THEN { R(READY, [ card EXCEPT !.app = FALSE, !.mode = "ready" ]) } ELSE {}

\* What the card may do with a command that reaches it.
Reactions(c) ==
  CASE c = "CMD0"   -> { R(IDLE, [ Serves("none", NoBlock) EXCEPT
                                     !.mode = "idle", !.app = FALSE ]) }
    [] c = "CMD8"   -> { R(IF card.kind = "sd1" THEN ILLEGAL ELSE IDLE, card) }
    [] c = "CMD55"  -> { R(IDLE, [ card EXCEPT !.app = TRUE ]) }
    [] c = "ACMD41" -> IF ~ card.app THEN { R(ILLEGAL, card) }
                       ELSE { R(IDLE, [ card EXCEPT !.app = FALSE ]) } \cup GetsReady
    [] c = "CMD58"  -> { R(READY, card) }
    [] c = "CMD9"   -> { R(READY, Serves("csd", NoBlock)) }
    [] c = "CMD17"  -> { OnBlock(Address(op.b), Serves("block", Addressed(Address(op.b)))) }
    [] c = "CMD24"  -> { OnBlock(Address(op.b), Serves("data", Addressed(Address(op.b)))) }
    [] c = "CMD13"  -> { R(READY, [ card EXCEPT !.failed = FALSE ]) }
    [] c = "CMD32"  -> { OnBlock(Address(op.b), [ card EXCEPT !.b = Addressed(Address(op.b)) ]) }
    [] c = "CMD33"  -> { OnBlock(Address(op.to), [ card EXCEPT !.to = Addressed(Address(op.to)) ]) }
    [] c = "CMD38"  -> { R(READY, [ card EXCEPT !.serves = "erase",
                                      !.job = [ b \in card.b .. card.to |-> Erased ] ]) }

\* A busy card does not take a command, and holds the bus at zero.  Else a
\* command may be lost, or the answer to it.
Replies(c) ==
  IF Busy THEN { R(READY, card) }
  ELSE Reactions(c)
         \cup (IF faults < MaxFaults
                 THEN { R(NONE, card) } \cup { R(NONE, r.card) : r \in Reactions(c) } ELSE {})

\* The card ends what it is busy with: all is programmed, or nothing is.
CardDone ==
  /\ Busy
  /\ \/ /\ store' = [ b \in SdBlock |-> IF b \in DOMAIN card.job THEN card.job[b] ELSE store[b] ]
        /\ card' = [ Serves("none", NoBlock) EXCEPT !.job = << >>, !.to = NoBlock ]
        /\ UNCHANGED faults
     \/ /\ faults < MaxFaults /\ faults' = faults + 1
        /\ card.serves = "erase" => "erases_hold" \notin CardRules
        /\ card' = [ Serves("none", NoBlock) EXCEPT !.job = << >>, !.to = NoBlock, !.failed = TRUE ]
        /\ UNCHANGED store
  /\ UNCHANGED << at, wait, t0, clock, cs, type, calls, resets >>

-----------------------------------------------------------------------------
(* Time, and where the driver goes next.                                   *)

\* Deliberately wrong: the difference is not taken modulo 2^32.
ElapsedSigned(t) == clock - t

\* (uint32_t)millis() - t
Elapsed(t) == (clock - t) % Period

\* Deliberately wrong: the clock is compared with a deadline.
WithinDeadline(t, timeout) == clock < (t + timeout) % Period

Within(t, timeout) == Elapsed(t) < timeout    \* sd_raw_flush goes on
Over(t, timeout) == Elapsed(t) > timeout    \* the other loops give up

\* To label l, with the time at c.  sd_raw_command lowers chip select.
GotoAt(l, c) ==
  /\ at' = l /\ flushed' = FALSE /\ since' = c /\ waited' = 0
  /\ clock' = c
  /\ cs' = IF l \in Commands THEN "low" ELSE cs
  /\ UNCHANGED << t0, calls >>

Goto(l) == GotoAt(l, clock)
TryAgain(l) == GotoAt(l, (clock + 1) % Period)

Keep ==
  /\ clock' = (clock + 1) % Period /\ waited' = waited + 1
  /\ UNCHANGED << at, flushed, since, t0, cs, calls >>

\* What block b may hold after the running call has returned.
MayHold(b, ok) ==
  CASE op.name = "write" /\ b = op.b            -> IF ok THEN { op.v } ELSE may[b] \cup { op.v }
    [] op.name = "erase" /\ b \in op.b .. op.to -> IF ok THEN { Erased } ELSE may[b] \cup { Erased }
    [] OTHER                                    -> may[b]

Return(ok, v, pin) ==
  /\ at' = "none" /\ flushed' = FALSE /\ since' = 0 /\ waited' = 0 /\ t0' = 0
  /\ cs' = pin
  /\ op' = NoCall
  /\ last' = [ name |-> op.name, b |-> op.b, v |-> v, ok |-> ok ]
  /\ may' = [ b \in SdBlock |-> MayHold(b, ok) ]
  /\ opened' = IF op.name = "open" THEN ok ELSE opened
  /\ clock' = 0

\* Deliberately wrong: an error leaves the card selected.
FailedSelected == Return(FALSE, op.v, cs)

\* sd_raw_error
Failed == Return(FALSE, op.v, "high")
Succeeded == Return(TRUE, op.v, "high")

-----------------------------------------------------------------------------
(* sd_raw_command: select, flush, send, poll for the answer.               *)

Flush ==
  /\ at \in Commands /\ ~ flushed
  /\ IF Busy /\ Within(since, FLUSH_TIMEOUT)
       THEN Keep
       ELSE flushed' = TRUE /\ UNCHANGED << at, since, waited, t0, clock, cs, calls >>
  /\ UNCHANGED << type, card, store, faults, resets >>

Answer(c) == IF at = c /\ flushed THEN Replies(c) ELSE {}

Took(r) ==
  /\ card' = r.card
  /\ faults' = IF r.s = NONE THEN faults + 1 ELSE faults
  /\ UNCHANGED << store, resets >>

\* & R1_ILLEGAL_COMMAND: a bit of an answer that did not come, too
Illegal(s) == s \in { ILLEGAL, NONE }

-----------------------------------------------------------------------------
(* sd_raw_initialize, and then the size of the card is read.               *)

GoIdle ==
  \E r \in Answer("CMD0") :
    /\ Took(r)
    /\ \/ r.s = IDLE /\ Goto("CMD8")
       \/ r.s # IDLE /\ Over(t0, INIT_TIMEOUT) /\ Failed
       \/ r.s # IDLE /\ ~ Over(t0, INIT_TIMEOUT) /\ TryAgain("CMD0")
    /\ UNCHANGED type

\* The last byte of the answer to CMD8 echoes 0xaa, or is garbled.
CheckVersion ==
  \E r \in Answer("CMD8") :
    /\ Took(r)
    /\ IF Illegal(r.s)
         THEN type' = "SD1" /\ Goto("CMD55")
         ELSE type' = "SD2" /\ Goto("CMD55")

WrongEcho ==
  /\ faults < MaxFaults /\ faults' = faults + 1
  /\ \E r \in Answer("CMD8") : ~ Illegal(r.s) /\ card' = r.card
  /\ Failed
  /\ UNCHANGED << type, store, resets >>

\* sd_raw_acommand does not look at the answer to CMD55.
AppCommand == \E r \in Answer("CMD55") : Took(r) /\ Goto("ACMD41") /\ UNCHANGED type

\* Deliberately wrong: the loop does not give up.
GetReadyForever ==
  \E r \in Answer("ACMD41") :
    /\ Took(r)
    /\ IF r.s = READY THEN Goto(IF type = "SD2" THEN "CMD58" ELSE "CMD9")
                       ELSE TryAgain("CMD55")
    /\ UNCHANGED type

GetReady ==
  \E r \in Answer("ACMD41") :
    /\ Took(r)
    /\ \/ r.s = READY /\ type = "SD2" /\ Goto("CMD58")
       \/ r.s = READY /\ type # "SD2" /\ Goto("CMD9")
       \/ r.s # READY /\ Over(t0, INIT_TIMEOUT) /\ Failed
       \/ r.s # READY /\ ~ Over(t0, INIT_TIMEOUT) /\ TryAgain("CMD55")
    /\ UNCHANGED type

\* Deliberately wrong: the card of high capacity is not told from the other.
ReadOcrSame ==
  \E r \in Answer("CMD58") :
    /\ Took(r)
    /\ IF r.s # READY THEN Failed /\ UNCHANGED type ELSE Goto("CMD9") /\ UNCHANGED type

ReadOcr ==
  \E r \in Answer("CMD58") :
    /\ Took(r)
    /\ IF r.s # READY
         THEN Failed /\ UNCHANGED type
         ELSE Goto("CMD9") /\ type' = IF card.kind = "sdhc" THEN "SDHC" ELSE type

\* sd_raw_read_register fails: flogfs_arduino_sd_open takes that for a size
\* of 0 and succeeds, and sd_raw_erase gives up.
RegisterFailed == IF op.name = "open" THEN Succeeded ELSE Failed

ReadCsd ==
  \E r \in Answer("CMD9") :
    /\ Took(r)
    /\ IF r.s # READY THEN RegisterFailed ELSE Goto("token")
    /\ UNCHANGED type

-----------------------------------------------------------------------------
(* sd_wait_start_block, and the data after it.                             *)

Polls == UNCHANGED << type, store, resets >>

Sending == card.serves \in { "csd", "block" } /\ ~ Busy

TokenFails == IF op.name = "read" THEN Failed ELSE RegisterFailed

\* The token has come, and all of the data follows.
TokenComes ==
  /\ at = "token" /\ Sending
  /\ CASE op.name = "read"  -> Return(TRUE, store[card.b], "high")
       [] op.name = "open"  -> Succeeded
       [] op.name = "erase" -> IF card.single THEN Goto("CMD32") ELSE Failed
  /\ card' = Serves("none", NoBlock)
  /\ UNCHANGED faults /\ Polls

\* A byte that is not the token: the bus is held at zero, or an error token.
TokenWrong ==
  /\ at = "token"
  /\ \/ Busy /\ UNCHANGED << faults, card >>
     \/ /\ Sending /\ faults < MaxFaults /\ faults' = faults + 1
        /\ card' = Serves("none", NoBlock)
  /\ TokenFails
  /\ Polls

\* Nothing yet.  A card that has not sent in time does not send at all.
TokenAwaited ==
  /\ at = "token" /\ ~ Busy
  /\ IF Over(since, READ_TIMEOUT)
       THEN TokenFails /\ card' = Serves("none", NoBlock)
       ELSE Keep /\ UNCHANGED card
  /\ UNCHANGED faults /\ Polls

-----------------------------------------------------------------------------
(* sd_raw_read_data, sd_raw_write_block and sd_raw_erase from their first  *)
(* command on.                                                             *)

ReadBlock ==
  \E r \in Answer("CMD17") :
    Took(r) /\ UNCHANGED type /\ IF r.s # READY THEN Failed ELSE Goto("token")

WriteBlock ==
  \E r \in Answer("CMD24") :
    Took(r) /\ UNCHANGED type /\ IF r.s # READY THEN Failed ELSE Goto("data")

Accepts == card.serves = "data" /\ ~ Busy

\* sd_raw_write_data: the data, and the card's response to it.
DataAccepted ==
  /\ at = "data" /\ Accepts
  /\ card' = [ Serves("program", NoBlock) EXCEPT !.job = [ b \in { card.b } |-> op.v ] ]
  /\ Goto("programming")
  /\ UNCHANGED faults /\ Polls

DataRefused ==
  /\ at = "data"
  /\ \/ ~ Accepts /\ UNCHANGED << faults, card >>
     \/ /\ Accepts /\ faults < MaxFaults /\ faults' = faults + 1
        /\ card' = Serves("none", NoBlock)
  /\ Failed
  /\ Polls

Programming ==
  /\ at = "programming"
  /\ \/ ~ Busy /\ Goto("CMD13")
     \/ Busy /\ Within(since, WRITE_TIMEOUT) /\ Keep
     \/ Busy /\ ~ Within(since, WRITE_TIMEOUT) /\ Failed
  /\ UNCHANGED << card, faults >> /\ Polls

\* The second byte of the answer tells whether programming has failed.
WriteStatus ==
  \E r \in Answer("CMD13") :
    Took(r) /\ UNCHANGED type /\ IF r.s # READY \/ card.failed THEN Failed ELSE Succeeded

EraseCommand(c, next) ==
  \E r \in Answer(c) :
    Took(r) /\ UNCHANGED type /\ IF r.s # READY THEN Failed ELSE Goto(next)

EraseBlocks ==
  EraseCommand("CMD32", "CMD33") \/ EraseCommand("CMD33", "CMD38")
    \/ EraseCommand("CMD38", "erasing")

\* Deliberately wrong: the driver does not wait for the erase.
ErasingUnawaited ==
  at = "erasing" /\ Succeeded /\ UNCHANGED << card, faults >> /\ Polls

Erasing ==
  /\ at = "erasing"
  /\ \/ ~ Busy /\ Succeeded
     \/ Busy /\ Within(since, ERASE_TIMEOUT) /\ Keep
     \/ Busy /\ ~ Within(since, ERASE_TIMEOUT) /\ Failed
  /\ UNCHANGED << card, faults >> /\ Polls

-----------------------------------------------------------------------------
(* Calls, of which only flogfs_arduino_sd_open may come first.             *)

Begin(c, l) ==
  /\ op.name = "none"
  /\ op' = c /\ last' = NoReturn
  /\ \E t \in Starts : clock' = t /\ since' = t /\ t0' = IF l = "CMD0" THEN t ELSE 0
  /\ at' = l /\ flushed' = FALSE /\ waited' = 0
  /\ cs' = "low"
  /\ UNCHANGED << may, opened, type, card, store, faults, resets >>

Call(name, b, to, v) == [ name |-> name, b |-> b, to |-> to, v |-> v ]

Open == ~ opened /\ Begin(Call("open", NoBlock, NoBlock, Erased), "CMD0")
Read(b) == opened /\ Begin(Call("read", b, NoBlock, Erased), "CMD17")
Write(b, v)  == opened /\ Begin(Call("write", b, NoBlock, v), "CMD24")
Erase(b, to) == opened /\ b <= to /\ Begin(Call("erase", b, to, Erased), "CMD9")

\* The processor starts anew, and the card keeps what it is at.
Reset ==
  /\ resets < MaxResets /\ resets' = resets + 1
  /\ at' = "none" /\ flushed' = FALSE /\ since' = 0 /\ waited' = 0 /\ t0' = 0
  /\ cs' = "high" /\ type' = "none" /\ opened' = FALSE
  /\ op' = NoCall /\ last' = NoReturn
  /\ may' = [ b \in SdBlock |-> MayHold(b, FALSE) ]
  /\ clock' = 0
  /\ UNCHANGED << card, store, faults >>

Init ==
  /\ at = "none" /\ flushed = FALSE /\ since = 0 /\ waited = 0 /\ t0 = 0
  /\ clock = 0
  /\ cs = "high" /\ type = "none" /\ opened = FALSE
  /\ op = NoCall /\ last = NoReturn
  /\ \E c \in Cards :
       card = [ kind |-> c.kind, single |-> c.single, mode |-> "power", app |-> FALSE,
                serves |-> "none", b |-> NoBlock, to |-> NoBlock, job |-> << >>,
                failed |-> FALSE ]
  /\ store = [ b \in SdBlock |-> Erased ] /\ may = [ b \in SdBlock |-> { Erased } ]
  /\ faults = 0 /\ resets = 0

Driver ==
  \/ Flush \/ GoIdle \/ CheckVersion \/ WrongEcho \/ AppCommand \/ GetReady \/ ReadOcr
  \/ ReadCsd \/ TokenComes \/ TokenWrong \/ TokenAwaited
  \/ ReadBlock \/ WriteBlock \/ DataAccepted \/ DataRefused \/ Programming \/ WriteStatus
  \/ EraseBlocks \/ Erasing

Next ==
  \/ Driver \/ CardDone \/ Reset \/ Open
  \/ \E b \in SdBlock : \/ Read(b) \/ \E v \in Value : Write(b, v)
                        \/ \E to \in SdBlock : Erase(b, to)

(* The driver is one thread that polls and is not blocked; the card owes   *)
(* nothing.                                                                *)
Spec == Init /\ [][Next]_vars /\ WF_vars(Driver)

-----------------------------------------------------------------------------
(* Properties.                                                             *)

SdTypeOK ==
  /\ at \in Commands \cup Waits \cup { "none" } /\ (at = "none" <=> op = NoCall)
  /\ clock \in 0 .. Period - 1 /\ since \in 0 .. Period - 1 /\ t0 \in 0 .. Period - 1
  /\ waited \in 0 .. ERASE_TIMEOUT
  /\ type \in { "none", "SD1", "SD2", "SDHC" }
  /\ [ kind |-> card.kind, single |-> card.single ] \in Cards /\ card.mode \in { "power", "idle", "ready" }
  /\ DOMAIN card.job \subseteq SdBlock
  /\ store \in [ SdBlock -> Value ] /\ may \in [ SdBlock -> SUBSET Value ]

(***************************************************************************)
(* No call returns with the card selected, on whatever path it leaves      *)
(* (sd_raw.cpp:80-84, 160, 199, 325, 421): the bus is shared.              *)
(***************************************************************************)
Deselected == op = NoCall => cs = "high"

(***************************************************************************)
(* Once the card is open, driver and card agree on how blocks are          *)
(* addressed (sd_raw.cpp:119-158, 222, 303, 407), though a lost answer to  *)
(* CMD8 is taken for that of an old card.                                  *)
(***************************************************************************)
AddressAgrees == opened => \A b \in SdBlock : Addressed(Address(b)) = b

(***************************************************************************)
(* Between calls, every block holds what the calls told: what was written  *)
(* or erased last with success, or what a failed call was about, which the *)
(* card may still carry out, but not over a later success; and a read      *)
(* returns that (sd_raw.cpp:208-251, 296-327, 385-424).                    *)
(***************************************************************************)
HoldsWhatWasTold ==
  op = NoCall =>
    /\ \A b \in SdBlock : store[b] \in may[b]
    /\ last.name = "read" /\ last.ok => last.v \in may[last.b]

(***************************************************************************)
(* A write or an erase is given up for lost only when its time is over,    *)
(* wherever millis() stood when it began (sd_raw.cpp:29-40, 316, 417).     *)
(***************************************************************************)
NoHastyTimeout ==
  [][ (at \in { "programming", "erasing" } /\ op' = NoCall /\ ~ last'.ok)
        => waited >= (IF at = "erasing" THEN ERASE_TIMEOUT ELSE WRITE_TIMEOUT) ]_vars

(***************************************************************************)
(* Every call returns, whatever the card does (sd_raw.cpp:29-40, 110-142,  *)
(* 165-172): a card that stays busy, or never gets ready, is given up.     *)
(***************************************************************************)
CallReturns == op # NoCall ~> op = NoCall

=============================================================================
