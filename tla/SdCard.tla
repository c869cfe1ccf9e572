------------------------------- MODULE SdCard -------------------------------
(***************************************************************************)
(* An SD card on SPI, as the driver in custom_sd_spi_sdmmc.c sees it.  It  *)
(* is not part of this repository.                                         *)
(*                                                                         *)
(* Assumed of every card: it answers commands in the state they are legal  *)
(* in, and not while it waits for the data of a write; while it programs a *)
(* block it holds the line low, which reads as zero bytes, and takes no    *)
(* command; it gives a block up that was not fetched in time; and blocks   *)
(* announced for pre-erasing that never come may be lost.  A block it has  *)
(* taken is not yet saved: programming may fail, of which only CMD13 would *)
(* tell, and one of several may be kept in a buffer until the transfer     *)
(* ends.  A card that is pulled may spoil what it has not saved, but no    *)
(* other block; pulled, or put back without being initialised, it does not *)
(* answer.                                                                 *)
(***************************************************************************)
EXTENDS Integers

CONSTANTS
  Size,       \* blocks of the card
  BlockSize,  \* SD_BLOCK_SIZE
  Content     \* what a block may hold

ASSUME SdCardAssumption ==
  /\ Size \in Nat \ {0} /\ BlockSize \in Nat \ {0, 1}
  /\ {"blank", "lost", "spoilt"} \subseteq Content

VARIABLES
  kind,   \* "V1", "V2" or "V2HC"
  mode,   \* "idle", "tran", sending ("one", "many"), receiving ("rcv", "rcvm"), "deaf"
  busy,   \* it programs what it was sent
  disk,   \* the content of each block
  unsaved,\* blocks taken and not known to be saved
  next,   \* the block the transfer is at
  erase   \* blocks announced and not written yet

cardVars == <<kind, mode, busy, disk, unsaved, next, erase>>

Block == 0 .. Size - 1

Kind == {"V1", "V2", "V2HC"}
Mode == {"idle", "tran", "one", "many", "rcv", "rcvm", "deaf"}

CardTypeOK ==
  /\ kind \in Kind /\ mode \in Mode /\ busy \in BOOLEAN
  /\ disk \in [Block -> Content] /\ next \in Nat
  /\ {unsaved, erase} \subseteq SUBSET Block

CardInit ==
  /\ kind \in Kind
  /\ mode \in {"idle", "deaf"} /\ busy = FALSE
  /\ disk = [b \in Block |-> "blank"] /\ next = 0
  /\ unsaved = {} /\ erase = {}

\* What was not saved may turn out spoilt, what was only announced lost.
Leaves(writing, announced) ==
  \E bad \in SUBSET writing, gone \in {{}, announced} :
    disk' = [b \in Block |-> IF b \in bad THEN "spoilt"
                            ELSE IF b \in gone THEN "lost" ELSE disk[b]]

\* Between two blocks of several, only its buffer has become free.
CardHasProgrammed ==
  /\ busy
  /\ busy' = FALSE
  /\ IF mode = "rcvm" THEN UNCHANGED <<disk, unsaved>>
                      ELSE Leaves(unsaved, {}) /\ unsaved' = {}
  /\ UNCHANGED <<kind, mode, next, erase>>

CardPulled ==
  /\ Leaves(unsaved, IF mode = "rcvm" THEN erase ELSE {})
  /\ mode' = "deaf" /\ busy' = FALSE /\ next' = 0 /\ unsaved' = {} /\ erase' = {}
  /\ UNCHANGED kind

\* Only high-capacity cards count in blocks.
Addressed(addr) ==
  IF kind = "V2HC" THEN {addr} \cap Block
  ELSE {b \in Block : b * BlockSize = addr}

Stays == UNCHANGED cardVars

(* The answer to CMD17, CMD18, CMD24 and CMD25, and the mode they lead to. *)
(* Zero bytes of a busy card read like an R1 without an error.             *)
Transfer(addr, to, r1) ==
  CASE busy -> r1 = "ok" /\ Stays
    [] ~busy /\ mode = "tran" ->
         \/ /\ r1 = "ok"
            /\ \E b \in Addressed(addr) : next' = b
            /\ mode' = to
            /\ erase' = IF to = "rcvm" THEN erase ELSE {}
            /\ UNCHANGED <<kind, busy, disk, unsaved>>
         \/ /\ r1 = "error"
            /\ erase' = {}
            /\ UNCHANGED <<kind, mode, busy, disk, unsaved, next>>
    [] OTHER -> r1 = "error" /\ Stays

\* ACMD23 announces what the CMD25 after it will write; a card that is busy
\* misses it.
Announce(blocks) ==
  /\ erase' \in {erase} \cup (IF mode = "tran" /\ ~busy THEN {blocks \cap Block} ELSE {})
  /\ UNCHANGED <<kind, mode, busy, disk, unsaved, next>>

Ends  == IF mode = "one" THEN "tran" ELSE mode
After == IF mode \in {"many", "rcvm"} THEN next + 1 ELSE 0

\* A block with its start token, past the last block an error instead.
Fetched(got) ==
  /\ mode \in {"one", "many"} /\ next \in Block
  /\ got = disk[next]
  /\ mode' = Ends /\ next' = After
  /\ UNCHANGED <<kind, busy, disk, unsaved, erase>>

NoToken ==
  /\ mode' = Ends
  /\ next' = IF mode = "one" THEN 0 ELSE next
  /\ UNCHANGED <<kind, busy, disk, unsaved, erase>>

StopReading ==
  IF mode = "many"
    THEN mode' = "tran" /\ next' = 0 /\ UNCHANGED <<kind, busy, disk, unsaved, erase>>
    ELSE Stays

\* A block after the start token for one block or for many.
Programs(value, awaited) ==
  /\ mode = awaited /\ next \in Block
  /\ disk' = [disk EXCEPT ![next] = value]
  /\ busy' = TRUE /\ unsaved' = unsaved \cup {next}
  /\ next' = After /\ erase' = erase \ {next}
  /\ mode' = IF mode = "rcv" THEN "tran" ELSE mode
  /\ UNCHANGED kind

Refuses ==
  IF mode = "rcv"
    THEN mode' = "tran" /\ next' = 0 /\ UNCHANGED <<kind, busy, disk, unsaved, erase>>
    ELSE Stays

\* The stop token; a card that does not wait for data ignores it.
StopWriting ==
  IF mode = "rcvm"
    THEN /\ mode' = "tran" /\ busy' = TRUE /\ next' = 0 /\ erase' = {}
         /\ Leaves({}, erase)
         /\ UNCHANGED <<kind, unsaved>>
    ELSE Stays

=============================================================================
