------------------------------- MODULE SdSpi -------------------------------
(***************************************************************************)
(* The SD card driver (drivers/storage/custom_sd_spi_sdmmc): it finds out  *)
(* what card there is when the device is initialised, and from then on     *)
(* threads read and write blocks, one call at a time under a mutex.        *)
(*                                                                         *)
(* Commands go out whether the card is busy or not; only the data of a     *)
(* write waits for it, for SD_BUSY_RETRY_COUNT polls at most.  The answer  *)
(* to CMD8 is compared with R1_ILLEGAL_CMD alone, which no idle card       *)
(* sends: a version 1 card goes the way of a version 2 card, so that the   *)
(* branch for it (lines 315-331) is not part of the model.                 *)
(***************************************************************************)
EXTENDS SdCard, Sequences

CONSTANTS
  Thread,    \* the threads that use the disk; each writes its own content
  InitTries, \* 0xFFFF
  Word       \* 2^32, where retry wraps

NoThread == "none"

ASSUME SdSpiAssumption ==
  /\ Thread \subseteq Content \ {"blank", "lost", "spoilt", NoThread}
  /\ InitTries \in Nat \ {0} /\ Word \in Nat /\ Word > InitTries

VARIABLES
  boot,             \* where sd_spi_init() is
  retry,            \* retry of the loop with CMD41
  card_type,
  write_protected,
  lock,             \* the thread that holds the mutex
  selected,         \* CS
  pc, call,         \* per thread: where its call is, and its arguments
  i, ret, buf,      \* per thread: blocks done, the result, and what was read
  stranded          \* history: a stop token could not be sent

initVars == <<boot, retry, card_type, write_protected>>
callVars == <<pc, call, i, ret, buf>>
vars     == <<cardVars, initVars, callVars, lock, selected, stranded>>

NoCall == [op |-> "read", first |-> 0, count |-> 0]
Call   == [op : {"read", "write"}, first : Block, count : Nat]

TypeOK ==
  /\ CardTypeOK
  /\ boot \in {"start", "cmd0", "cmd8", "acmd41", "cmd58", "csd", "ready", "failed"}
  /\ retry \in 0 .. Word - 1
  /\ card_type \in {"ERR", "V2", "V2HC"} /\ write_protected \in BOOLEAN
  /\ lock \in Thread \cup {NoThread} /\ selected \in BOOLEAN
  /\ pc \in [Thread -> {"idle", "announce", "cmd", "data", "stop", "return"}]
  /\ call \in [Thread -> Call \cup {NoCall}]
  /\ i \in [Thread -> Nat] /\ ret \in [Thread -> {"ok", "EIO", "EBUSY"}]
  /\ buf \in [Thread -> Seq(Content)]
  /\ stranded \in BOOLEAN

Init ==
  /\ CardInit
  /\ boot = "start" /\ retry = 0 /\ card_type = "ERR" /\ write_protected = FALSE
  /\ lock = NoThread /\ selected = FALSE
  /\ pc = [t \in Thread |-> "idle"] /\ call = [t \in Thread |-> NoCall]
  /\ i = [t \in Thread |-> 0] /\ ret = [t \in Thread |-> "ok"]
  /\ buf = [t \in Thread |-> <<>>]
  /\ stranded = FALSE

-----------------------------------------------------------------------------
(* sd_spi_init() and sd_spi_card_init().  Every command selects the card;  *)
(* only the reading of the CSD deselects it, whether it fails or not.      *)

Booting(from, to) ==
  /\ boot = from
  /\ boot' = to
  /\ selected' = (to \notin {"cmd0", "csd"} /\ from \notin {"start", "csd"})
  /\ UNCHANGED <<callVars, lock, stranded>>

\* Its pins are not ready or there is no card.
InitGivesUp ==
  /\ Booting("start", "failed")
  /\ UNCHANGED <<cardVars, retry, card_type, write_protected>>

sd_spi_init ==
  /\ Booting("start", "cmd0")
  /\ write_protected' \in BOOLEAN
  /\ UNCHANGED <<cardVars, retry, card_type>>

GoIdle ==
  /\ Booting("cmd0", IF mode = "idle" THEN "cmd8" ELSE "failed")
  /\ card_type' = "ERR"
  /\ UNCHANGED <<cardVars, retry, write_protected>>

\* CMD8; without the echo the card is asked for its CSD as it is.
CheckVersion ==
  /\ \/ /\ kind # "V1" /\ mode = "idle"
        /\ Booting("cmd8", "acmd41")
        /\ retry' = InitTries
     \/ /\ Booting("cmd8", "csd")
        /\ UNCHANGED retry
  /\ UNCHANGED <<cardVars, card_type, write_protected>>

CardIsReady ==
  /\ mode = "idle"
  /\ Booting("acmd41", "cmd58")
  /\ mode' = "tran"
  /\ UNCHANGED <<kind, busy, disk, unsaved, next, erase, retry, card_type, write_protected>>

CardIsNotReady ==
  /\ Booting("acmd41", IF retry = 0 THEN "cmd58" ELSE "acmd41")
  /\ retry' = (retry - 1) % Word
  /\ UNCHANGED <<cardVars, card_type, write_protected>>

\* A card that was ready at the last try has left retry at zero.
\* retry is of no use afterwards.
ReadOcr ==
  /\ IF mode = "tran" /\ retry # 0
       THEN Booting("cmd58", "csd") /\ card_type' = kind
       ELSE Booting("cmd58", "failed") /\ UNCHANGED card_type
  /\ retry' = 0
  /\ UNCHANGED <<cardVars, write_protected>>

\* Mutant: the version of the CSD is not looked at.
AlwaysV2 == "V2"

CsdType == IF kind = "V2HC" THEN "V2HC" ELSE "V2"

\* The capacity may also be zero: it is computed in 32 bits.
GetCapacity ==
  /\ \/ /\ mode = "tran"
        /\ Booting("csd", "ready")
        /\ card_type' = CsdType
     \/ /\ Booting("csd", "failed")
        /\ UNCHANGED card_type
  /\ UNCHANGED <<cardVars, retry, write_protected>>

CardInitStep ==
  \/ sd_spi_init \/ GoIdle \/ CheckVersion \/ CardIsReady \/ CardIsNotReady
  \/ ReadOcr \/ GetCapacity

-----------------------------------------------------------------------------
(* A call of sd_spi_disk_read() or sd_spi_disk_write().                    *)

Multi(t) == call[t].count # 1
Done(t)  == i[t] >= call[t].count

\* One block is addressed in bytes unless the card has high capacity.
Addr(t) ==
  IF card_type = "V2HC" THEN call[t].first ELSE call[t].first * BlockSize

Goes(t, where) == pc' = [pc EXCEPT ![t] = where]

\* The blocks a caller may ask for; it asks for none of them as well.
Requests ==
  {c \in [op : {"read", "write"}, first : Block, count : 0 .. Size] :
     /\ c.first + c.count <= Size
     /\ c.op = "write" => ~write_protected}

\* Mutant: reading does without the mutex.
LocksToWrite(c) == c.op = "write"

\* Every one of the four functions takes the mutex.
Locks(c) == c.op \in {"read", "write"}

\* A caller that waits for the mutex has done nothing yet.  Writing to a
\* protected card is refused before the mutex is asked for.
Lock(t) ==
  /\ boot = "ready" /\ pc[t] = "idle"
  /\ \E c \in Requests :
       /\ call' = [call EXCEPT ![t] = c]
       /\ Locks(c) => lock = NoThread
       /\ lock' = IF Locks(c) THEN t ELSE lock
       /\ Goes(t, IF c.op = "write" /\ c.count # 1 THEN "announce" ELSE "cmd")
  /\ UNCHANGED <<cardVars, initVars, i, ret, buf, selected, stranded>>

\* CMD55 and CMD23; whether the card heard them is not looked at.
PreErase(t) ==
  /\ pc[t] = "announce"
  /\ Announce(call[t].first .. call[t].first + call[t].count - 1)
  /\ Goes(t, "cmd")
  /\ selected' = TRUE
  /\ UNCHANGED <<initVars, call, i, ret, buf, lock, stranded>>

TransferMode(t) ==
  IF call[t].op = "read" THEN IF Multi(t) THEN "many" ELSE "one"
                         ELSE IF Multi(t) THEN "rcvm" ELSE "rcv"

\* Mutant: a failed block ends the call at once.
ReturnOnError(t, done, ok) ==
  IF ~Multi(t) \/ ~ok THEN "return" ELSE IF done < call[t].count THEN "data" ELSE "stop"

AfterBlock(t, done, ok) ==
  IF ~Multi(t) THEN "return" ELSE IF ok /\ done < call[t].count THEN "data" ELSE "stop"

SendCommand(t) ==
  /\ pc[t] = "cmd"
  /\ \E r1 \in {"ok", "error"} :
       /\ Transfer(Addr(t), TransferMode(t), r1)
       /\ ret' = [ret EXCEPT ![t] = IF r1 = "ok" THEN "ok" ELSE "EIO"]
       /\ Goes(t, IF r1 # "ok" THEN "return" ELSE IF Done(t) THEN "stop" ELSE "data")
  /\ selected' = TRUE
  /\ UNCHANGED <<initVars, call, i, buf, lock, stranded>>

\* The bookkeeping of the loops over the blocks.
BlockDone(t, result) ==
  /\ ret' = [ret EXCEPT ![t] = result]
  /\ i' = [i EXCEPT ![t] = @ + 1]
  /\ Goes(t, AfterBlock(t, i[t] + 1, result = "ok"))
  /\ UNCHANGED <<initVars, call, lock, selected, stranded>>

recv_data(t) ==
  /\ pc[t] = "data" /\ call[t].op = "read"
  /\ \/ \E value \in Content :
          /\ Fetched(value)
          /\ buf' = [buf EXCEPT ![t] = Append(@, value)]
          /\ BlockDone(t, "ok")
     \/ /\ NoToken
        /\ UNCHANGED buf
        /\ BlockDone(t, "EIO")

\* With the last block of several the stop token goes out in place of the
\* start token, and then no data.
StopsInsteadOf(t) == Multi(t) /\ i[t] = call[t].count - 1

CardBusy(t) ==
  /\ pc[t] = "data" /\ call[t].op = "write" /\ busy
  /\ BlockDone(t, "EBUSY")
  /\ UNCHANGED <<cardVars, buf>>

\* Mutant: the data response is read and not looked at.
AcceptAlways(t) == Refuses /\ BlockDone(t, "ok")

CardRefuses(t) == Refuses /\ BlockDone(t, "EIO")

send_block(t) ==
  /\ pc[t] = "data" /\ call[t].op = "write" /\ ~busy
  /\ UNCHANGED buf
  /\ IF StopsInsteadOf(t)
       THEN StopWriting /\ BlockDone(t, "ok")
       ELSE (Programs(t, TransferMode(t)) /\ BlockDone(t, "ok")) \/ CardRefuses(t)

\* CMD12, after a failed block too.
StopRead(t) ==
  /\ pc[t] = "stop" /\ call[t].op = "read"
  /\ StopReading
  /\ Goes(t, "return")
  /\ UNCHANGED <<initVars, call, i, ret, buf, lock, selected, stranded>>

\* The last stop token waits for the card too, and may not be sent.
StopWrite(t) ==
  /\ pc[t] = "stop" /\ call[t].op = "write"
  /\ IF busy THEN Stays ELSE StopWriting
  /\ stranded' = (stranded \/ (busy /\ mode = "rcvm"))
  /\ Goes(t, "return")
  /\ UNCHANGED <<initVars, call, i, ret, buf, lock, selected>>

Return(t) ==
  /\ pc[t] = "return"
  /\ selected' = FALSE
  /\ lock' = IF lock = t THEN NoThread ELSE lock
  /\ Goes(t, "idle")
  /\ call' = [call EXCEPT ![t] = NoCall]
  /\ i' = [i EXCEPT ![t] = 0] /\ ret' = [ret EXCEPT ![t] = "ok"]
  /\ buf' = [buf EXCEPT ![t] = <<>>]
  /\ UNCHANGED <<cardVars, initVars, stranded>>

ThreadStep(t) ==
  \/ Lock(t) \/ PreErase(t) \/ SendCommand(t) \/ recv_data(t)
  \/ CardBusy(t) \/ send_block(t) \/ StopRead(t) \/ StopWrite(t) \/ Return(t)

Card ==
  /\ CardHasProgrammed \/ CardPulled
  /\ UNCHANGED <<initVars, callVars, lock, selected, stranded>>

Next == CardInitStep \/ InitGivesUp \/ Card \/ \E t \in Thread : ThreadStep(t)

Spec == Init /\ [][Next]_vars

-----------------------------------------------------------------------------
(* Between two calls the card is deselected and expects a command: however *)
(* a transfer ended, it was brought to its end.  Only a stop token that a  *)
(* busy card did not let through breaks this, and for good.                *)
TransferClosed ==
  lock = NoThread /\ boot = "ready" =>
    ~selected /\ (mode \in {"tran", "deaf"} \/ stranded)

Returning(t, op) == pc[t] = "return" /\ call[t].op = op /\ ret[t] = "ok"

(* A read that reports success has delivered every block that was asked    *)
(* for, from the place that was asked for, and as it is on the card.       *)
ReadIsCurrent ==
  \A t \in Thread : Returning(t, "read") =>
    buf[t] = [k \in 1 .. call[t].count |-> disk[call[t].first + k - 1]]

\* Blocks that t wrote and the card took, spoilt by the card since or not.
HoldsData(t, blocks) == \A k \in blocks : disk[call[t].first + k] \in {t, "spoilt"}

(* A write that reports success has brought a single block to its place on *)
(* the card, and of several blocks all but the last - unless an earlier    *)
(* write was left open: the card may then take the blocks of the next one  *)
(* for its own.  That is as far as success goes: the driver reports it     *)
(* when the card accepts a block, and neither waits until it is programmed *)
(* nor asks whether it was, so that a block may still be spoilt.           *)
WriteLands ==
  stranded \/ \A t \in Thread : Returning(t, "write") =>
    HoldsData(t, 0 .. IF Multi(t) THEN call[t].count - 2 ELSE 0)

(* "Write multiple blocks to SD card": a write that reports success has    *)
(* put all its blocks on the card.                                         *)
WriteIsComplete ==
  \A t \in Thread : Returning(t, "write") => HoldsData(t, 0 .. call[t].count - 1)

(* A block changes only by a call that writes it, not by a wrong address  *)
(* or a call of another thread - but for a write that was left open, and a *)
(* block that the card took from its writer and then spoilt.               *)
OwnBlocksOnly ==
  [][stranded \/ \A b \in Block : disk'[b] # disk[b] =>
       \/ b \in unsaved /\ disk'[b] = "spoilt"
       \/ \E t \in Thread :
            /\ lock = t /\ call[t].op = "write"
            /\ b \in call[t].first .. call[t].first + call[t].count - 1]_vars

=============================================================================
