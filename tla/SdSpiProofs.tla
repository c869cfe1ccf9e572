---------------------------- MODULE SdSpiProofs ----------------------------
(***************************************************************************)
(* Proofs about SdSpi, for cards of any size, any number of threads and    *)
(* any number of tries.                                                    *)
(***************************************************************************)
EXTENDS SdSpi, SequenceTheorems, TLAPS

USE SdCardAssumption, SdSpiAssumption

-----------------------------------------------------------------------------
(* Types.                                                                  *)

\* A card that stops short spoils or loses nothing but what it was left with.
LEMMA LeftBehind ==
  ASSUME CardTypeOK, NEW writing \in SUBSET Block, NEW announced \in SUBSET Block,
         Leaves(writing, announced)
  PROVE  /\ disk' \in [Block -> Content]
         /\ \A b \in Block : \/ disk'[b] = disk[b]
                             \/ b \in writing /\ disk'[b] = "spoilt"
                             \/ b \in announced /\ disk'[b] = "lost"
         /\ writing = {} /\ announced = {} => disk' = disk
<1>1. PICK bad \in SUBSET writing, gone \in {{}, announced} :
        disk' = [b \in Block |-> IF b \in bad THEN "spoilt"
                                ELSE IF b \in gone THEN "lost" ELSE disk[b]]
  BY DEF Leaves
<1>2. disk \in [Block -> Content]
  BY DEF CardTypeOK
<1>3. ASSUME writing = {}, announced = {} PROVE disk' = disk
  <2>1. disk' = [b \in Block |-> disk[b]]
    BY <1>1, <1>3
  <2>. QED BY <1>2, <2>1
<1>. QED BY <1>1, <1>2, <1>3

\* Whatever the card is sent, it stays a card.
LEMMA CardType ==
  ASSUME CardTypeOK,
         \/ CardHasProgrammed \/ CardPulled \/ Stays \/ NoToken \/ StopReading
         \/ Refuses \/ StopWriting \/ CardIsReady
         \/ \E blocks : Announce(blocks)
         \/ \E addr, r1 : \E to \in Mode : Transfer(addr, to, r1)
         \/ \E got : Fetched(got)
         \/ \E value \in Content : \E awaited : Programs(value, awaited)
  PROVE  CardTypeOK'
<1> USE DEF CardTypeOK, Mode, Kind
<1>1. CASE CardHasProgrammed
  <2>1. disk' \in [Block -> Content]
    <3>1. disk' = disk \/ Leaves(unsaved, {})
      BY <1>1, Zenon DEF CardHasProgrammed
    <3>. QED BY <3>1, LeftBehind
  <2>2. busy' = FALSE /\ unsaved' \in {unsaved, {}} /\ UNCHANGED <<kind, mode, next, erase>>
    BY <1>1 DEF CardHasProgrammed
  <2>. QED BY <2>1, <2>2
<1>2. CASE CardPulled
  <2>1. disk' \in [Block -> Content]
    <3>1. Leaves(unsaved, {}) \/ Leaves(unsaved, erase)
      BY <1>2 DEF CardPulled
    <3>. QED BY <3>1, LeftBehind
  <2>2. /\ mode' = "deaf" /\ busy' = FALSE /\ next' = 0 /\ unsaved' = {} /\ erase' = {}
        /\ UNCHANGED kind
    BY <1>2, Zenon DEF CardPulled
  <2>. QED BY <2>1, <2>2
<1>3. CASE Stays
  BY <1>3 DEF Stays, cardVars
<1>4. CASE NoToken
  BY <1>4 DEF NoToken, Ends
<1>5. CASE StopReading
  BY <1>5 DEF StopReading, Stays, cardVars
<1>6. CASE Refuses
  BY <1>6 DEF Refuses, Stays, cardVars
<1>7. CASE StopWriting
  <2>1. CASE Stays
    BY <2>1 DEF Stays, cardVars
  <2>2. CASE mode = "rcvm"
    <3>1. Leaves({}, erase)
      BY <1>7, <2>2, Zenon DEF StopWriting
    <3>2. disk' \in [Block -> Content]
      BY <3>1, LeftBehind
    <3>3. /\ mode' = "tran" /\ busy' = TRUE /\ next' = 0 /\ erase' = {}
          /\ UNCHANGED <<kind, unsaved>>
      BY <1>7, <2>2, Zenon DEF StopWriting
    <3>. QED BY <3>2, <3>3
  <2>. QED BY <1>7, <2>1, <2>2 DEF StopWriting
<1>8. CASE CardIsReady
  BY <1>8 DEF CardIsReady
<1>9. ASSUME NEW blocks, Announce(blocks) PROVE CardTypeOK'
  BY <1>9 DEF Announce
<1>10. ASSUME NEW addr, NEW r1, NEW to \in Mode, Transfer(addr, to, r1) PROVE CardTypeOK'
  <2>1. CASE Stays
    BY <2>1 DEF Stays, cardVars
  <2>2. CASE /\ next' \in Block /\ mode' = to /\ erase' \in {erase, {}}
             /\ UNCHANGED <<kind, busy, disk, unsaved>>
    BY <2>2 DEF Block
  <2>3. CASE erase' = {} /\ UNCHANGED <<kind, mode, busy, disk, unsaved, next>>
    BY <2>3
  <2>4. \A b \in Addressed(addr) : b \in Block
    BY DEF Addressed
  <2>. QED BY <1>10, <2>1, <2>2, <2>3, <2>4 DEF Transfer
<1>11. ASSUME NEW got, Fetched(got) PROVE CardTypeOK'
  BY <1>11 DEF Fetched, Ends, After
<1>12. ASSUME NEW value \in Content, NEW awaited, Programs(value, awaited) PROVE CardTypeOK'
  BY <1>12 DEF Programs, After
<1>. QED BY <1>1, <1>2, <1>3, <1>4, <1>5, <1>6, <1>7, <1>8, <1>9, <1>10, <1>11, <1>12

\* What the threads' calls keep of theirs.
CallsType ==
  /\ lock \in Thread \cup {NoThread} /\ selected \in BOOLEAN
  /\ pc \in [Thread -> {"idle", "announce", "cmd", "data", "stop", "return"}]
  /\ call \in [Thread -> Call \cup {NoCall}]
  /\ i \in [Thread -> Nat] /\ ret \in [Thread -> {"ok", "EIO", "EBUSY"}]
  /\ buf \in [Thread -> Seq(Content)]
  /\ stranded \in BOOLEAN

InitType ==
  /\ boot \in {"start", "cmd0", "cmd8", "acmd41", "cmd58", "csd", "ready", "failed"}
  /\ retry \in 0 .. Word - 1
  /\ card_type \in {"ERR", "V2", "V2HC"} /\ write_protected \in BOOLEAN

\* A version 1 card never gets as far as ACMD41: it does not echo CMD8.
EchoSeen == boot \in {"acmd41", "cmd58"} => kind # "V1"

LEMMA InitStepType ==
  ASSUME TypeOK, EchoSeen, CardInitStep \/ InitGivesUp
  PROVE  CallsType' /\ InitType' /\ EchoSeen'
<1> USE DEF TypeOK, InitType
<1>1. CallsType'
  BY Zenon DEF CardInitStep, InitGivesUp, sd_spi_init, GoIdle, CheckVersion, CardIsReady,
    CardIsNotReady, ReadOcr, GetCapacity, Booting, callVars, CallsType
<1>2. retry' \in 0 .. Word - 1
  <2>1. InitTries \in 0 .. Word - 1 /\ (retry - 1) % Word \in 0 .. Word - 1 /\ 0 \in 0 .. Word - 1
    OBVIOUS
  <2>. QED BY <2>1, Zenon DEF CardInitStep, InitGivesUp, sd_spi_init, GoIdle, CheckVersion,
          CardIsReady, CardIsNotReady, ReadOcr, GetCapacity, TypeOK
<1>3. boot' \in {"start", "cmd0", "cmd8", "acmd41", "cmd58", "csd", "ready", "failed"}
  BY DEF CardInitStep, InitGivesUp, sd_spi_init, GoIdle, CheckVersion, CardIsReady,
    CardIsNotReady, ReadOcr, GetCapacity, Booting
<1>4. card_type' \in {"ERR", "V2", "V2HC"}
  <2>1. \/ card_type' \in {card_type, "ERR", CsdType}
        \/ boot = "cmd58" /\ card_type' = kind
    BY DEF CardInitStep, InitGivesUp, sd_spi_init, GoIdle, CheckVersion, CardIsReady,
      CardIsNotReady, ReadOcr, GetCapacity, Booting
  <2>. QED BY <2>1 DEF CsdType, EchoSeen, CardTypeOK, Kind
<1>5. write_protected' \in BOOLEAN
  BY Zenon DEF CardInitStep, InitGivesUp, sd_spi_init, GoIdle, CheckVersion, CardIsReady,
    CardIsNotReady, ReadOcr, GetCapacity
<1>6. EchoSeen'
  <2>1. kind' = kind
    BY Zenon DEF CardInitStep, InitGivesUp, sd_spi_init, GoIdle, CheckVersion, CardIsReady,
      CardIsNotReady, ReadOcr, GetCapacity, cardVars
  <2>2. boot' \in {"acmd41", "cmd58"} => boot \in {"acmd41", "cmd58"} \/ kind # "V1"
    BY DEF CardInitStep, InitGivesUp, sd_spi_init, GoIdle, CheckVersion, CardIsReady,
      CardIsNotReady, ReadOcr, GetCapacity, Booting
  <2>. QED BY <2>1, <2>2 DEF EchoSeen
<1>. QED BY <1>1, <1>2, <1>3, <1>4, <1>5, <1>6

\* A step of a thread.
LEMMA ThreadStepType ==
  ASSUME TypeOK, NEW t \in Thread, ThreadStep(t)
  PROVE  CallsType' /\ UNCHANGED <<initVars, kind>>
<1>1. UNCHANGED <<initVars, kind>>
  BY Zenon DEF ThreadStep, Lock, PreErase, SendCommand, recv_data, CardBusy, send_block,
    StopRead, StopWrite, Return, BlockDone, Announce, Transfer, Fetched, NoToken, Stays,
    StopReading, StopWriting, Programs, CardRefuses, Refuses, cardVars
<1>2. pc' \in [Thread -> {"idle", "announce", "cmd", "data", "stop", "return"}]
  BY DEF TypeOK, ThreadStep, Lock, PreErase, SendCommand, recv_data, CardBusy, send_block,
    StopRead, StopWrite, Return, BlockDone, CardRefuses, Goes, AfterBlock
<1>3. call' \in [Thread -> Call \cup {NoCall}]
  <2>1. Requests \subseteq Call
    BY DEF Requests, Call
  <2>2. call' = call \/ \E c \in Requests \cup {NoCall} : call' = [call EXCEPT ![t] = c]
    BY Zenon DEF ThreadStep, Lock, PreErase, SendCommand, recv_data, CardBusy, send_block,
      StopRead, StopWrite, Return, BlockDone, CardRefuses
  <2>. QED BY <2>1, <2>2 DEF TypeOK
<1>4. i' \in [Thread -> Nat] /\ ret' \in [Thread -> {"ok", "EIO", "EBUSY"}]
  <2>1. ASSUME NEW r \in {"ok", "EIO", "EBUSY"}, BlockDone(t, r)
        PROVE  i' \in [Thread -> Nat] /\ ret' \in [Thread -> {"ok", "EIO", "EBUSY"}]
    BY <2>1 DEF BlockDone, TypeOK
  <2>2. CASE SendCommand(t)
    BY <2>2 DEF SendCommand, TypeOK
  <2>3. CASE Return(t)
    BY <2>3 DEF Return, TypeOK
  <2>4. CASE i' = i /\ ret' = ret
    BY <2>4 DEF TypeOK
  <2>5. recv_data(t) \/ CardBusy(t) \/ send_block(t) =>
          \E r \in {"ok", "EIO", "EBUSY"} : BlockDone(t, r)
    BY DEF recv_data, CardBusy, send_block, CardRefuses
  <2>6. Lock(t) \/ PreErase(t) \/ StopRead(t) \/ StopWrite(t) => i' = i /\ ret' = ret
    BY Zenon DEF Lock, PreErase, StopRead, StopWrite
  <2>. QED BY <2>1, <2>2, <2>3, <2>4, <2>5, <2>6, Zenon DEF ThreadStep
<1>5. buf' \in [Thread -> Seq(Content)]
  <2>1. \A value \in Content : Append(buf[t], value) \in Seq(Content)
    BY AppendProperties DEF TypeOK
  <2>2. <<>> \in Seq(Content)
    OBVIOUS
  <2>3. \/ buf' = buf \/ buf' = [buf EXCEPT ![t] = <<>>]
        \/ \E value \in Content : buf' = [buf EXCEPT ![t] = Append(@, value)]
    BY Zenon DEF ThreadStep, Lock, PreErase, SendCommand, recv_data, CardBusy, send_block,
      StopRead, StopWrite, Return
  <2>4. buf' = buf \/ \E v \in Seq(Content) : buf' = [buf EXCEPT ![t] = v]
    BY <2>1, <2>2, <2>3
  <2>. QED BY <2>4 DEF TypeOK
<1>6. lock' \in Thread \cup {NoThread} /\ {selected', stranded'} \subseteq BOOLEAN
  BY Zenon DEF TypeOK, ThreadStep, Lock, PreErase, SendCommand, recv_data, CardBusy,
    send_block, StopRead, StopWrite, Return, BlockDone, CardRefuses
<1>. QED BY <1>1, <1>2, <1>3, <1>4, <1>5, <1>6 DEF CallsType

LEMMA CardStepType ==
  ASSUME TypeOK, [Next]_vars
  PROVE  CardTypeOK'
<1>1. CASE CardInitStep \/ InitGivesUp
  <2>1. CardIsReady \/ UNCHANGED cardVars
    BY <1>1, Zenon DEF CardInitStep, InitGivesUp, sd_spi_init, GoIdle, CheckVersion,
      CardIsNotReady, ReadOcr, GetCapacity
  <2>. QED BY <2>1, CardType DEF TypeOK, Stays
<1>2. CASE Card
  BY <1>2, CardType DEF Card, TypeOK
<1>3. ASSUME NEW t \in Thread, ThreadStep(t) PROVE CardTypeOK'
  <2>1. TransferMode(t) \in Mode
    BY DEF TransferMode, Mode
  <2>. QED BY <1>3, <2>1, CardType DEF TypeOK, ThreadStep, Lock, PreErase, SendCommand,
          recv_data, CardBusy, send_block, StopRead, StopWrite, Return, CardRefuses, Stays
<1>4. CASE UNCHANGED vars
  BY <1>4, CardType DEF vars, TypeOK, Stays
<1>. QED BY <1>1, <1>2, <1>3, <1>4 DEF Next

LEMMA Types == Spec => [](TypeOK /\ EchoSeen)
<1> DEFINE Inv == TypeOK /\ EchoSeen
<1>1. Init => Inv
  <2> SUFFICES ASSUME Init PROVE Inv
    OBVIOUS
  <2>1. CardTypeOK
    BY DEF Init, CardInit, CardTypeOK, Mode, Kind
  <2>2. InitType /\ EchoSeen
    <3>1. 0 \in 0 .. Word - 1
      OBVIOUS
    <3>2. boot = "start" /\ boot \notin {"acmd41", "cmd58"}
      BY DEF Init
    <3>. QED BY <3>1, <3>2, Zenon DEF Init, InitType, EchoSeen
  <2>3. <<>> \in Seq(Content)
    OBVIOUS
  <2>4. CallsType
    BY <2>3 DEF Init, CallsType
  <2>. QED BY <2>1, <2>2, <2>4 DEF TypeOK, CallsType, InitType
<1>2. Inv /\ [Next]_vars => Inv'
  <2> SUFFICES ASSUME Inv, [Next]_vars PROVE Inv'
    OBVIOUS
  <2>1. CardTypeOK'
    BY CardStepType
  <2>2. CallsType' /\ InitType' /\ EchoSeen'
    <3>1. CASE CardInitStep \/ InitGivesUp
      BY <3>1, InitStepType
    <3>2. CASE Card
      BY <3>2 DEF Card, CardHasProgrammed, CardPulled, initVars, callVars, TypeOK, CallsType,
        InitType, EchoSeen
    <3>3. ASSUME NEW t \in Thread, ThreadStep(t) PROVE CallsType' /\ InitType' /\ EchoSeen'
      BY <3>3, ThreadStepType DEF initVars, TypeOK, InitType, EchoSeen
    <3>4. CASE UNCHANGED vars
      BY <3>4 DEF vars, cardVars, initVars, callVars, TypeOK, CallsType, InitType, EchoSeen
    <3>. QED BY <3>1, <3>2, <3>3, <3>4 DEF Next
  <2>. QED BY <2>1, <2>2 DEF TypeOK, CallsType, InitType
<1>. QED BY <1>1, <1>2, PTL DEF Spec

(* The variables of the driver and of the card keep their types.  The type *)
(* of the card a driver finds is never "V1", whatever card it is.          *)
THEOREM TypeCorrect == Spec => []TypeOK
BY Types, PTL

-----------------------------------------------------------------------------
(* Transfers are closed.                                                   *)

\* The card waits for a command, or has stopped listening.
Rest == {"tran", "deaf"}

\* What the card may be doing while a call of t is at a place.
Doing(t, where) ==
  IF where \in {"data", "stop"} THEN Rest \cup {TransferMode(t)} ELSE Rest

Owners ==
  /\ \A t \in Thread : pc[t] # "idle" <=> lock = t
  /\ boot # "ready" => lock = NoThread /\ mode \in {"idle", "tran", "deaf"}
  /\ boot = "ready" /\ lock = NoThread => ~selected

\* A card that programs is not being read, and what it has not saved it is
\* still programming or keeps in its buffer.
Working ==
  /\ busy => mode \in {"tran", "rcvm", "deaf"}
  /\ unsaved # {} => busy \/ mode = "rcvm"

\* Nothing has been transferred before the command, and nothing is stopped
\* after a single block.
Places ==
  /\ Working
  /\ \A t \in Thread :
       /\ pc[t] \in {"idle", "announce", "cmd"} => i[t] = 0
       /\ pc[t] = "stop" => Multi(t)

Modes ==
  stranded \/
    /\ boot = "ready" /\ lock = NoThread => mode \in Rest
    /\ \A t \in Thread : pc[t] # "idle" => mode \in Doing(t, pc[t])

IInv == Owners /\ Places /\ Modes

\* How a step of the thread that holds the mutex keeps the invariant.
LEMMA HolderMoves ==
  ASSUME TypeOK, TypeOK', IInv, NEW t \in Thread, lock = t, lock' = t, boot' = boot,
         NEW where \in {"announce", "cmd", "data", "stop", "return"},
         pc' = [pc EXCEPT ![t] = where],
         \A u \in Thread \ {t} : i'[u] = i[u] /\ call'[u] = call[u],
         where \in {"announce", "cmd"} => i'[t] = 0,
         where = "stop" => Multi(t)',
         Working',
         stranded' \/ mode' \in Doing(t, where)'
  PROVE  IInv'
<1>1. \A u \in Thread \ {t} : pc[u] = "idle" /\ pc'[u] = "idle"
  BY DEF IInv, Owners, TypeOK
<1>2. pc'[t] = where /\ boot = "ready" /\ t # NoThread
  BY DEF IInv, Owners, TypeOK
<1>3. Owners'
  BY <1>1, <1>2 DEF Owners
<1>4. Places'
  BY <1>1, <1>2 DEF IInv, Places
<1>5. Modes'
  BY <1>1, <1>2 DEF Modes
<1>. QED BY <1>3, <1>4, <1>5 DEF IInv

LEMMA HolderSteps ==
  ASSUME TypeOK, TypeOK', IInv, NEW t \in Thread, ThreadStep(t), ~Lock(t), ~Return(t)
  PROVE  IInv'
<1> USE DEF TypeOK
<1>1. pc[t] \in {"announce", "cmd", "data", "stop"} /\ lock' = lock /\ boot' = boot
  BY DEF ThreadStep, PreErase, SendCommand, recv_data, CardBusy, send_block, StopRead,
    StopWrite, BlockDone, CardRefuses, initVars
<1>2. lock = t /\ call' = call /\ \A u \in Thread \ {t} : i'[u] = i[u]
  <2>1. lock = t
    BY <1>1 DEF IInv, Owners
  <2>. QED BY <2>1 DEF ThreadStep, PreErase, SendCommand, recv_data, CardBusy, send_block,
          StopRead, StopWrite, BlockDone, CardRefuses
<1>3. Multi(t)' = Multi(t) /\ TransferMode(t)' = TransferMode(t)
  BY <1>2, Zenon DEF Multi, TransferMode
<1>4. /\ Working
      /\ stranded \/ mode \in Doing(t, pc[t])
  BY <1>1 DEF IInv, Places, Modes
<1>5. ASSUME NEW where \in {"cmd", "data", "stop", "return"}, pc' = [pc EXCEPT ![t] = where],
             where = "cmd" => i'[t] = 0, where = "stop" => Multi(t),
             Working',
             stranded' \/ mode' \in Doing(t, where)
      PROVE  IInv'
  <2>1. Doing(t, where)' = Doing(t, where)
    BY <1>3 DEF Doing
  <2>2. stranded' \/ mode' \in Doing(t, where)'
    BY <1>5, <2>1
  <2>3. where = "stop" => Multi(t)'
    BY <1>3, <1>5
  <2>4. lock = t /\ lock' = t /\ boot' = boot
    BY <1>1, <1>2
  <2>5. \A u \in Thread \ {t} : i'[u] = i[u] /\ call'[u] = call[u]
    BY <1>2
  <2>. QED BY <1>5, <2>2, <2>3, <2>4, <2>5, HolderMoves
<1>6. CASE PreErase(t)
  BY <1>4, <1>5, <1>6 DEF PreErase, Announce, Goes, Doing, IInv, Places, Working
<1>7. CASE SendCommand(t)
  <2>1. PICK r1 \in {"ok", "error"} :
          /\ Transfer(Addr(t), TransferMode(t), r1)
          /\ Goes(t, IF r1 # "ok" THEN "return" ELSE IF Done(t) THEN "stop" ELSE "data")
    BY <1>7 DEF SendCommand
  <2>2. /\ busy' = busy /\ unsaved' = unsaved /\ stranded' = stranded
        /\ \/ mode' = mode
           \/ ~busy /\ mode = "tran" /\ r1 = "ok" /\ mode' = TransferMode(t)
    BY <1>7, <2>1, Zenon DEF SendCommand, Transfer, Stays, cardVars
  <2>3. Done(t) => Multi(t)
    BY <1>7 DEF SendCommand, Done, Multi, IInv, Places, Call, NoCall
  <2>4. stranded \/ mode \in Rest
    BY <1>4, <1>7 DEF SendCommand, Doing
  <2>5. Working'
    BY <1>4, <2>2 DEF Working
  <2>6. CASE r1 # "ok"
    BY <1>5, <2>1, <2>2, <2>4, <2>5, <2>6 DEF Goes, Doing
  <2>7. CASE r1 = "ok" /\ Done(t)
    BY <1>5, <2>1, <2>2, <2>3, <2>4, <2>5, <2>7 DEF Goes, Doing
  <2>8. CASE r1 = "ok" /\ ~Done(t)
    BY <1>5, <2>1, <2>2, <2>4, <2>5, <2>8 DEF Goes, Doing
  <2>. QED BY <2>6, <2>7, <2>8
<1>8. ASSUME NEW r, BlockDone(t, r), stranded \/ mode' \in Rest \cup {TransferMode(t)},
             ~Multi(t) => stranded \/ mode' \in Rest,
             Working'
      PROVE  IInv'
  <2>1. PICK where \in {"data", "stop", "return"} :
          /\ pc' = [pc EXCEPT ![t] = where] /\ stranded' = stranded
          /\ IF Multi(t) THEN where \in {"data", "stop"} ELSE where = "return"
    BY <1>8 DEF BlockDone, Goes, AfterBlock
  <2>. QED BY <1>5, <1>8, <2>1 DEF Doing
<1>9. CASE recv_data(t)
  <2>1. PICK r : BlockDone(t, r)
    BY <1>9 DEF recv_data
  <2>2. mode' = Ends /\ busy' = busy /\ unsaved' = unsaved
    BY <1>9 DEF recv_data, Fetched, NoToken
  <2>3. Working'
    BY <1>4, <2>2 DEF Working, Ends
  <2>. QED BY <1>4, <1>8, <1>9, <2>1, <2>2, <2>3 DEF recv_data, Ends, TransferMode, Doing, Rest
<1>10. CASE CardBusy(t)
  BY <1>4, <1>8, <1>10 DEF CardBusy, cardVars, TransferMode, Doing, Rest, Working
<1>11. CASE send_block(t)
  <2>1. pc[t] = "data" /\ call[t].op = "write" /\ ~busy
    BY <1>11 DEF send_block
  <2>2. CASE StopsInsteadOf(t)
    <3>1. Multi(t) /\ StopWriting /\ BlockDone(t, "ok")
      BY <1>11, <2>2 DEF send_block, StopsInsteadOf
    <3>2. \/ mode = "rcvm" /\ mode' = "tran" /\ busy' = TRUE
          \/ UNCHANGED <<mode, busy, unsaved>>
      BY <3>1, Zenon DEF StopWriting, Stays, cardVars
    <3>3. Working'
      BY <1>4, <3>2 DEF Working
    <3>. QED BY <1>4, <1>8, <2>1, <3>1, <3>2, <3>3 DEF TransferMode, Doing, Rest
  <2>3. CASE Programs(t, TransferMode(t)) /\ BlockDone(t, "ok")
    <3>1. Working'
      BY <2>1, <2>3 DEF Programs, TransferMode, Working
    <3>. QED BY <1>4, <1>8, <2>1, <2>3, <3>1 DEF Programs, TransferMode, Doing, Rest
  <2>4. CASE CardRefuses(t)
    <3>1. (mode = "rcv" /\ mode' = "tran") \/ (mode # "rcv" /\ mode' = mode)
      BY <2>4, Zenon DEF CardRefuses, Refuses, Stays, cardVars
    <3>2. busy' = busy /\ unsaved' = unsaved
      BY <2>4, Zenon DEF CardRefuses, Refuses, Stays, cardVars
    <3>3. Working'
      BY <1>4, <2>1, <3>1, <3>2 DEF Working
    <3>. QED BY <1>4, <1>8, <2>1, <2>4, <3>1, <3>3 DEF CardRefuses, TransferMode, Doing, Rest
  <2>. QED BY <1>11, <2>2, <2>3, <2>4 DEF send_block
<1>12. CASE StopRead(t)
  <2>1. /\ busy' = busy /\ unsaved' = unsaved
        /\ (mode = "many" /\ mode' = "tran") \/ (mode # "many" /\ mode' = mode)
    BY <1>12, Zenon DEF StopRead, StopReading, Stays, cardVars
  <2>2. Multi(t)
    BY <1>12 DEF StopRead, IInv, Places
  <2>3. Working'
    BY <1>4, <2>1 DEF Working
  <2>. QED BY <1>4, <1>5, <1>12, <2>1, <2>2, <2>3 DEF StopRead, Goes, TransferMode, Doing, Rest
<1>13. CASE StopWrite(t)
  <2>1. \/ mode = "rcvm" /\ mode' = "tran" /\ busy' = TRUE
        \/ mode = "rcvm" /\ stranded' /\ UNCHANGED <<mode, busy, unsaved>>
        \/ mode # "rcvm" /\ UNCHANGED <<mode, busy, unsaved>>
    BY <1>13, Zenon DEF StopWrite, StopWriting, Stays, cardVars
  <2>2. Multi(t) /\ (stranded => stranded')
    BY <1>13 DEF StopWrite, IInv, Places
  <2>3. Working'
    BY <1>4, <2>1 DEF Working
  <2>. QED BY <1>4, <1>5, <1>13, <2>1, <2>2, <2>3 DEF StopWrite, Goes, TransferMode, Doing, Rest
<1>. QED BY <1>6, <1>7, <1>9, <1>10, <1>11, <1>12, <1>13 DEF ThreadStep

\* Taking the mutex and giving it back.
LEMMA OwnerChanges ==
  ASSUME TypeOK, TypeOK', IInv, NEW t \in Thread, Lock(t) \/ Return(t)
  PROVE  IInv'
<1> USE DEF TypeOK
<1>1. CASE Lock(t)
  <2>1. PICK c \in Requests :
          /\ call' = [call EXCEPT ![t] = c]
          /\ Locks(c) => lock = NoThread
          /\ lock' = IF Locks(c) THEN t ELSE lock
          /\ Goes(t, IF c.op = "write" /\ c.count # 1 THEN "announce" ELSE "cmd")
    BY <1>1 DEF Lock
  <2>2. lock = NoThread /\ lock' = t /\ boot = "ready" /\ pc[t] = "idle"
    BY <1>1, <2>1 DEF Lock, Locks, Requests
  <2>3. /\ UNCHANGED <<mode, busy, unsaved, boot, i, selected, stranded>>
    BY <1>1, Zenon DEF Lock, cardVars, initVars
  <2>4. PICK where \in {"announce", "cmd"} : pc' = [pc EXCEPT ![t] = where]
    BY <2>1 DEF Goes
  <2>5. \A u \in Thread : pc[u] = "idle" /\ u # NoThread
    BY <2>2 DEF IInv, Owners
  <2>6. \A u \in Thread : pc'[u] = IF u = t THEN where ELSE "idle"
    BY <2>4, <2>5
  <2>7. Owners'
    BY <2>2, <2>3, <2>5, <2>6 DEF Owners
  <2>8. Places'
    BY <2>2, <2>3, <2>5, <2>6 DEF IInv, Places, Working
  <2>9. Modes'
    BY <2>2, <2>3, <2>6 DEF IInv, Modes, Doing
  <2>. QED BY <2>7, <2>8, <2>9 DEF IInv
<1>2. CASE Return(t)
  <2>1. pc[t] = "return" /\ lock = t /\ t # NoThread /\ boot = "ready"
    BY <1>2 DEF Return, IInv, Owners
  <2>2. /\ lock' = NoThread /\ selected' = FALSE /\ pc' = [pc EXCEPT ![t] = "idle"]
        /\ i' = [i EXCEPT ![t] = 0]
        /\ UNCHANGED <<mode, busy, unsaved, boot, stranded>>
    BY <1>2, <2>1, Zenon DEF Return, Goes, cardVars, initVars
  <2>3. \A u \in Thread : pc'[u] = "idle" /\ u # NoThread
    BY <2>1, <2>2 DEF IInv, Owners
  <2>4. stranded \/ mode \in Rest
    BY <2>1 DEF IInv, Modes, Doing
  <2>5. Owners'
    BY <2>1, <2>2, <2>3 DEF Owners
  <2>6. Places'
    BY <2>2, <2>3 DEF IInv, Places, Working
  <2>7. Modes'
    BY <2>2, <2>3, <2>4 DEF Modes
  <2>. QED BY <2>5, <2>6, <2>7 DEF IInv
<1>. QED BY <1>1, <1>2

\* Until the driver is ready nobody holds the mutex.
LEMMA InitKeepsInv ==
  ASSUME TypeOK, TypeOK', IInv, CardInitStep \/ InitGivesUp
  PROVE  IInv'
<1> USE DEF TypeOK
<1>1. boot # "ready" /\ UNCHANGED <<lock, pc, call, i, stranded, busy, unsaved>>
  BY DEF CardInitStep, InitGivesUp, sd_spi_init, GoIdle, CheckVersion, CardIsReady,
    CardIsNotReady, ReadOcr, GetCapacity, Booting, callVars, cardVars
<1>2. /\ mode' = mode \/ mode' = "tran"
      /\ boot' = "ready" => mode' = "tran" /\ ~selected'
  BY <1>1 DEF CardInitStep, InitGivesUp, sd_spi_init, GoIdle, CheckVersion, CardIsReady,
    CardIsNotReady, ReadOcr, GetCapacity, Booting, cardVars
<1>3. lock = NoThread /\ \A t \in Thread : pc[t] = "idle" /\ t # NoThread
  BY <1>1 DEF IInv, Owners
<1>4. Owners'
  BY <1>1, <1>2, <1>3 DEF IInv, Owners
<1>5. Places'
  BY <1>1, <1>2, <1>3 DEF IInv, Owners, Places, Working
<1>6. Modes'
  BY <1>1, <1>2, <1>3 DEF Modes, Rest
<1>. QED BY <1>4, <1>5, <1>6 DEF IInv

\* What the card does on its own.
LEMMA CardAlone ==
  ASSUME TypeOK, Card
  PROVE  /\ UNCHANGED <<kind, boot, card_type, lock, selected, pc, call, i, ret, buf, stranded>>
         /\ busy' = FALSE
         /\ \/ UNCHANGED <<mode, next, erase>>
            \/ mode' = "deaf" /\ erase' = {}
         /\ unsaved' = {} \/ (mode = "rcvm" /\ UNCHANGED <<mode, unsaved>>)
         /\ \A b \in Block : \/ disk'[b] = disk[b]
                             \/ b \in unsaved /\ disk'[b] = "spoilt"
                             \/ b \in erase /\ mode = "rcvm" /\ disk'[b] = "lost"
         /\ unsaved = {} /\ mode # "rcvm" => disk' = disk
<1>1. UNCHANGED <<kind, boot, card_type, lock, selected, pc, call, i, ret, buf, stranded>>
  BY DEF Card, CardHasProgrammed, CardPulled, initVars, callVars
<1>2. /\ busy' = FALSE
      /\ UNCHANGED <<mode, next, erase>> \/ (mode' = "deaf" /\ erase' = {})
      /\ unsaved' = {} \/ (mode = "rcvm" /\ UNCHANGED <<mode, unsaved>>)
  BY DEF Card, CardHasProgrammed, CardPulled
<1>3. \/ disk' = disk
      \/ Leaves(unsaved, {})
      \/ mode = "rcvm" /\ Leaves(unsaved, erase)
  BY DEF Card, CardHasProgrammed, CardPulled
<1>4. CardTypeOK /\ {} \in SUBSET Block /\ unsaved \in SUBSET Block /\ erase \in SUBSET Block
  BY DEF TypeOK, CardTypeOK
<1>5. CASE disk' = disk
  BY <1>1, <1>2, <1>5
<1>6. CASE Leaves(unsaved, {})
  BY <1>1, <1>2, <1>4, <1>6, LeftBehind
<1>7. CASE mode = "rcvm" /\ Leaves(unsaved, erase)
  BY <1>1, <1>2, <1>4, <1>7, LeftBehind
<1>. QED BY <1>3, <1>5, <1>6, <1>7

LEMMA Invariance == Spec => []IInv
<1>1. Init => IInv
  <2> SUFFICES ASSUME Init PROVE IInv
    OBVIOUS
  <2>1. Owners
    BY DEF Init, CardInit, Owners
  <2>2. Places /\ Modes
    BY DEF Init, CardInit, Places, Working, Modes
  <2>. QED BY <2>1, <2>2 DEF IInv
<1>2. TypeOK /\ TypeOK' /\ IInv /\ [Next]_vars => IInv'
  <2> SUFFICES ASSUME TypeOK, TypeOK', IInv, [Next]_vars PROVE IInv'
    OBVIOUS
  <2>1. CASE CardInitStep \/ InitGivesUp
    BY <2>1, InitKeepsInv
  <2>2. CASE Card
    <3>1. /\ UNCHANGED <<boot, lock, selected, pc, call, i, stranded>> /\ busy' = FALSE
          /\ mode' \in {mode, "deaf"}
          /\ unsaved' # {} => mode' = "rcvm"
      BY <2>2, CardAlone
    <3>. QED BY <3>1 DEF IInv, Owners, Places, Working, Modes, Multi, Doing, Rest, TransferMode
  <2>3. ASSUME NEW t \in Thread, ThreadStep(t) PROVE IInv'
    BY <2>3, HolderSteps, OwnerChanges
  <2>4. CASE UNCHANGED vars
    BY <2>4 DEF vars, cardVars, initVars, callVars, IInv, Owners, Places, Working, Modes,
      Multi, Doing, Rest, TransferMode
  <2>. QED BY <2>1, <2>2, <2>3, <2>4 DEF Next
<1>. QED BY <1>1, <1>2, TypeCorrect, PTL DEF Spec

(* However a transfer ended, it was brought to its end before the mutex is *)
(* given back: the card is deselected and expects a command, whatever the  *)
(* size of the card and however many threads there are.  A stop token that *)
(* a busy card did not let through is the only way out.                    *)
THEOREM TransfersAreClosed == Spec => []TransferClosed
<1>1. IInv => TransferClosed
  BY DEF IInv, Owners, Modes, Rest, TransferClosed
<1>. QED BY <1>1, Invariance, PTL

(* At most one call is under way: a thread that is in one holds the mutex. *)
THEOREM OneCallAtATime ==
  Spec => [](\A t, u \in Thread : pc[t] # "idle" /\ pc[u] # "idle" => t = u)
<1>1. IInv => \A t, u \in Thread : pc[t] # "idle" /\ pc[u] # "idle" => t = u
  BY DEF IInv, Owners
<1>. QED BY <1>1, Invariance, PTL

-----------------------------------------------------------------------------
(* No call touches the blocks of another.                                  *)

Asked(t) == call[t].first .. call[t].first + call[t].count - 1

\* The driver counts in the units the card counts in.
TypeIsKnown == boot = "ready" => (card_type = "V2HC" <=> kind = "V2HC")

\* Only writes are announced.
Announcing == \A t \in Thread : pc[t] = "announce" => call[t].op = "write"

\* A card that receives expects the block the loop is at.
Aimed ==
  \A t \in Thread : pc[t] = "data" =>
    /\ i[t] < call[t].count
    /\ stranded \/ mode \notin {"rcv", "rcvm"} \/ next = call[t].first + i[t]

\* Blocks that may be lost belong to the write that has announced them.
Announced ==
  \/ stranded \/ erase = {}
  \/ \E t \in Thread :
       /\ lock = t /\ call[t].op = "write" /\ erase \subseteq Asked(t)
       /\ \/ pc[t] = "cmd" /\ mode = "tran" /\ ~busy
          \/ pc[t] \in {"data", "stop"} /\ mode = "rcvm"

Targets == TypeIsKnown /\ Announcing /\ Aimed /\ Announced

LEMMA SameBlock ==
  ASSUME NEW b \in Nat, NEW f \in Nat, b * BlockSize = f * BlockSize
  PROVE  b = f
<1>1. (b - f) * BlockSize = 0
  OBVIOUS
<1>. QED BY <1>1

\* The command leads a card that is ready to the first block of the call.
LEMMA CommandAims ==
  ASSUME TypeOK, TypeIsKnown, boot = "ready", NEW t \in Thread,
         NEW b \in Addressed(Addr(t))
  PROVE  b = call[t].first
<1>1. call[t].first \in Nat /\ b \in Nat
  BY DEF TypeOK, Call, NoCall, Block, Addressed
<1>2. CASE kind = "V2HC"
  BY <1>2 DEF TypeIsKnown, Addressed, Addr
<1>3. CASE kind # "V2HC"
  <2>1. b * BlockSize = call[t].first * BlockSize
    BY <1>3 DEF TypeIsKnown, Addressed, Addr
  <2>. QED BY <1>1, <2>1, SameBlock
<1>. QED BY <1>2, <1>3

\* What every step inside a call leaves alone.
LEMMA HolderFrame ==
  ASSUME TypeOK, IInv, NEW t \in Thread, ThreadStep(t), ~Lock(t), ~Return(t)
  PROVE  /\ pc[t] \in {"announce", "cmd", "data", "stop"}
         /\ pc'[t] \in {"cmd", "data", "stop", "return"}
         /\ boot = "ready" /\ lock = t /\ call' = call
         /\ UNCHANGED <<boot, kind, card_type, lock>>
         /\ \A u \in Thread \ {t} : pc[u] = "idle" /\ pc'[u] = "idle" /\ buf'[u] = buf[u]
         /\ stranded => stranded'
<1> USE DEF TypeOK
<1>1. pc[t] \in {"announce", "cmd", "data", "stop"} /\ UNCHANGED <<boot, kind, card_type>>
  BY DEF ThreadStep, PreErase, SendCommand, recv_data, CardBusy, send_block, StopRead,
    StopWrite, BlockDone, CardRefuses, initVars, Announce, Transfer, Fetched, NoToken, Stays,
    StopReading, StopWriting, Programs, Refuses, cardVars
<1>2. lock = t /\ boot = "ready" /\ \A u \in Thread \ {t} : pc[u] = "idle"
  BY <1>1 DEF IInv, Owners
<1>3. /\ lock' = lock /\ call' = call
      /\ \A u \in Thread \ {t} : pc'[u] = "idle" /\ buf'[u] = buf[u]
      /\ pc'[t] \in {"cmd", "data", "stop", "return"}
      /\ stranded => stranded'
  BY <1>2 DEF ThreadStep, PreErase, SendCommand, recv_data, CardBusy, send_block,
    StopRead, StopWrite, BlockDone, CardRefuses, Goes, AfterBlock
<1>. QED BY <1>1, <1>2, <1>3

\* A step of the thread that holds the mutex: where it goes and what the
\* card makes of it.
LEMMA HolderAims ==
  ASSUME TypeOK, IInv, Targets, NEW t \in Thread, ThreadStep(t), ~Lock(t), ~Return(t)
  PROVE  Targets'
<1> USE DEF TypeOK
<1>1. /\ pc[t] \in {"announce", "cmd", "data", "stop"}
      /\ UNCHANGED <<boot, kind, card_type>>
  BY HolderFrame
<1>2. lock = t /\ boot = "ready" /\ \A u \in Thread \ {t} : pc[u] = "idle"
  BY HolderFrame
<1>3. /\ lock' = lock /\ call' = call /\ \A u \in Thread \ {t} : pc'[u] = "idle"
      /\ pc'[t] # "announce"
  BY HolderFrame
<1>4. TypeIsKnown' /\ Announcing'
  BY <1>1, <1>3 DEF Targets, TypeIsKnown, Announcing
<1>5. stranded => stranded'
  BY HolderFrame
<1>6. Asked(t)' = Asked(t) /\ TransferMode(t)' = TransferMode(t)
  BY <1>3 DEF Asked, TransferMode, Multi
<1>7. ASSUME pc'[t] = "data" =>
               /\ i'[t] < call[t].count
               /\ stranded \/ mode' \notin {"rcv", "rcvm"} \/ next' = call[t].first + i'[t],
             \/ stranded' \/ erase' = {}
             \/ /\ call[t].op = "write" /\ erase' \subseteq Asked(t)
                /\ \/ pc'[t] = "cmd" /\ mode' = "tran" /\ ~busy'
                   \/ pc'[t] \in {"data", "stop"} /\ mode' = "rcvm"
      PROVE  Targets'
  <2>1. Aimed'
    BY <1>3, <1>5, <1>7 DEF Aimed
  <2>2. Announced'
    BY <1>2, <1>3, <1>6, <1>7 DEF Announced
  <2>. QED BY <1>4, <2>1, <2>2 DEF Targets
<1>8. /\ pc[t] = "data" => /\ i[t] < call[t].count
                           /\ \/ stranded \/ mode \notin {"rcv", "rcvm"}
                              \/ next = call[t].first + i[t]
      /\ \/ stranded \/ erase = {}
         \/ /\ call[t].op = "write" /\ erase \subseteq Asked(t)
            /\ \/ pc[t] = "cmd" /\ mode = "tran" /\ ~busy
               \/ pc[t] \in {"data", "stop"} /\ mode = "rcvm"
      /\ call[t].count \in Nat /\ call[t].first \in Nat /\ i[t] \in Nat
  BY <1>2 DEF Targets, Aimed, Announced, Call, NoCall, Block
<1>9. stranded \/ mode \in Doing(t, pc[t])
  BY <1>1 DEF IInv, Modes
<1>10. CASE PreErase(t)
  <2>1. pc'[t] = "cmd" /\ mode' = mode /\ busy' = busy
    BY <1>10 DEF PreErase, Goes, Announce
  <2>2. erase' = erase \/ (mode = "tran" /\ ~busy /\ erase' \subseteq Asked(t))
    BY <1>10 DEF PreErase, Announce, Asked
  <2>3. call[t].op = "write"
    BY <1>10 DEF PreErase, Targets, Announcing
  <2>. QED BY <1>5, <1>7, <1>8, <1>10, <2>1, <2>2, <2>3 DEF PreErase
<1>11. CASE SendCommand(t)
  <2>1. PICK r1 \in {"ok", "error"} :
          /\ Transfer(Addr(t), TransferMode(t), r1)
          /\ Goes(t, IF r1 # "ok" THEN "return" ELSE IF Done(t) THEN "stop" ELSE "data")
    BY <1>11 DEF SendCommand
  <2>2. /\ pc[t] = "cmd" /\ i[t] = 0 /\ i' = i /\ stranded' = stranded
        /\ stranded \/ mode \in Rest
    BY <1>9, <1>11 DEF SendCommand, IInv, Places, Doing
  <2>3. /\ r1 # "ok" => pc'[t] = "return"
        /\ r1 = "ok" => pc'[t] \in {"data", "stop"}
        /\ pc'[t] = "data" => i[t] < call[t].count
    BY <1>8, <2>1 DEF Goes, Done
  <2>4. CASE Stays /\ ~(mode = "tran" /\ ~busy)
    BY <1>7, <1>8, <2>2, <2>3, <2>4 DEF Stays, cardVars, Rest
  <2>5. CASE /\ mode = "tran" /\ ~busy /\ r1 = "ok"
             /\ \E b \in Addressed(Addr(t)) : next' = b
             /\ mode' = TransferMode(t)
             /\ erase' = IF TransferMode(t) = "rcvm" THEN erase ELSE {}
    <3>1. next' = call[t].first
      BY <1>2, <2>5, CommandAims DEF Targets
    <3>. QED BY <1>7, <1>8, <2>2, <2>3, <2>5, <3>1
  <2>6. CASE r1 = "error" /\ erase' = {}
    BY <1>7, <2>3, <2>6
  <2>. QED BY <2>1, <2>4, <2>5, <2>6 DEF Transfer
<1>12. ASSUME NEW r, BlockDone(t, r),
              \/ stranded \/ mode' \notin {"rcv", "rcvm"} \/ r # "ok"
              \/ mode = mode' /\ next' = next + 1,
              \/ stranded \/ erase' = {}
              \/ erase' \subseteq erase /\ mode' = mode /\ call[t].op = "write",
              pc[t] = "data"
       PROVE  Targets'
  <2>1. i'[t] = i[t] + 1 /\ stranded' = stranded
    BY <1>12 DEF BlockDone
  <2>2. /\ pc'[t] = "data" => r = "ok" /\ i[t] + 1 < call[t].count
        /\ Multi(t) => pc'[t] \in {"data", "stop"}
    BY <1>12 DEF BlockDone, Goes, AfterBlock
  <2>3. mode = "rcvm" => stranded \/ Multi(t)
    BY <1>9, <1>12 DEF Doing, Rest, TransferMode
  <2>4. pc'[t] = "data" =>
          /\ i'[t] < call[t].count
          /\ stranded \/ mode' \notin {"rcv", "rcvm"} \/ next' = call[t].first + i'[t]
    <3> SUFFICES ASSUME pc'[t] = "data"
                 PROVE  /\ i[t] + 1 < call[t].count
                        /\ \/ stranded \/ mode' \notin {"rcv", "rcvm"}
                           \/ next' = call[t].first + (i[t] + 1)
      BY <2>1
    <3>1. r = "ok" /\ i[t] + 1 < call[t].count
      BY <2>2
    <3>2. \/ stranded \/ mode' \notin {"rcv", "rcvm"}
          \/ mode = mode' /\ next' = next + 1
      BY <1>12, <3>1
    <3>3. stranded \/ mode \notin {"rcv", "rcvm"} \/ next = call[t].first + i[t]
      BY <1>8, <1>12
    <3>4. call[t].first \in Nat /\ i[t] \in Nat
      BY <1>8
    <3>5. next = call[t].first + i[t] => next + 1 = call[t].first + (i[t] + 1)
      <4>1. \A a, b \in Nat : (a + b) + 1 = a + (b + 1)
        OBVIOUS
      <4>2. (call[t].first + i[t]) + 1 = call[t].first + (i[t] + 1)
        BY <3>4, <4>1, Zenon
      <4>. QED BY <4>2, Zenon
    <3>. QED BY <3>1, <3>2, <3>3, <3>5
  <2>5. \/ stranded' \/ erase' = {}
        \/ /\ call[t].op = "write" /\ erase' \subseteq Asked(t)
           /\ pc'[t] \in {"data", "stop"} /\ mode' = "rcvm"
    <3>1. CASE stranded \/ erase' = {}
      BY <2>1, <3>1
    <3>2. CASE ~stranded /\ erase' # {}
      <4>1. erase' \subseteq erase /\ mode' = mode /\ erase # {}
        BY <1>12, <3>2
      <4>2. call[t].op = "write" /\ erase \subseteq Asked(t) /\ mode = "rcvm"
        BY <1>8, <1>12, <3>2, <4>1
      <4>. QED BY <2>2, <2>3, <3>2, <4>1, <4>2
    <3>. QED BY <3>1, <3>2
  <2>. QED BY <1>7, <2>4, <2>5
<1>13. CASE recv_data(t)
  <2>1. PICK r : BlockDone(t, r)
    BY <1>13 DEF recv_data
  <2>2. /\ pc[t] = "data" /\ call[t].op = "read"
        /\ mode' = Ends /\ erase' = erase /\ stranded' = stranded
    BY <1>13, <2>1 DEF recv_data, Fetched, NoToken, BlockDone
  <2>3. stranded \/ mode \notin {"rcv", "rcvm"}
    BY <1>9, <2>2 DEF Doing, Rest, TransferMode
  <2>4. stranded \/ (erase' = {} /\ mode' \notin {"rcv", "rcvm"})
    BY <1>8, <2>2, <2>3 DEF Ends
  <2>. QED BY <1>12, <2>1, <2>2, <2>4
<1>14. CASE CardBusy(t)
  BY <1>12, <1>14 DEF CardBusy, cardVars
<1>15. CASE send_block(t)
  <2>1. pc[t] = "data" /\ call[t].op = "write"
    BY <1>15 DEF send_block
  <2>2. CASE StopsInsteadOf(t)
    <3>1. StopWriting /\ BlockDone(t, "ok") /\ ~(i[t] + 1 < call[t].count)
      BY <1>8, <1>15, <2>2 DEF send_block, StopsInsteadOf
    <3>2. \/ mode' = "tran" /\ erase' = {}
          \/ mode # "rcvm" /\ Stays
      BY <3>1, Zenon DEF StopWriting
    <3>3. pc'[t] # "data" /\ stranded' = stranded
      BY <1>8, <3>1 DEF BlockDone, Goes, AfterBlock
    <3>. QED BY <1>7, <1>8, <2>1, <3>2, <3>3 DEF Stays, cardVars
  <2>3. CASE Programs(t, TransferMode(t)) /\ BlockDone(t, "ok")
    <3>1. mode = "rcv" => stranded \/ erase = {}
      BY <1>8, <2>1
    <3>2. \/ mode = "rcv" /\ mode' = "tran"
          \/ mode = "rcvm" /\ mode' = mode /\ next' = next + 1
      BY <2>1, <2>3 DEF Programs, After, TransferMode
    <3>3. erase' \subseteq erase
      BY <2>3 DEF Programs
    <3>. QED BY <1>12, <2>1, <2>3, <3>1, <3>2, <3>3
  <2>4. CASE CardRefuses(t)
    <3>1. Refuses /\ BlockDone(t, "EIO") /\ UNCHANGED erase
      BY <2>4, Zenon DEF CardRefuses, Refuses, Stays, cardVars
    <3>2. mode' = mode \/ mode = "rcv"
      BY <3>1, Zenon DEF Refuses, Stays, cardVars
    <3>3. mode = "rcv" => stranded \/ erase = {}
      BY <1>8, <2>1
    <3>. QED BY <1>12, <2>1, <3>1, <3>2, <3>3
  <2>. QED BY <1>15, <2>2, <2>3, <2>4 DEF send_block
<1>16. CASE StopRead(t)
  <2>1. /\ pc'[t] = "return" /\ stranded' = stranded /\ erase' = erase
        /\ pc[t] = "stop" /\ call[t].op = "read"
    BY <1>16 DEF StopRead, Goes, StopReading, Stays, cardVars
  <2>. QED BY <1>7, <1>8, <2>1
<1>17. CASE StopWrite(t)
  <2>1. pc'[t] = "return" /\ pc[t] = "stop"
    BY <1>17 DEF StopWrite, Goes
  <2>2. \/ mode = "rcvm" /\ (stranded' \/ erase' = {})
        \/ mode # "rcvm" /\ erase' = erase
    BY <1>17, Zenon DEF StopWrite, StopWriting, Stays, cardVars
  <2>. QED BY <1>5, <1>7, <1>8, <2>1, <2>2
<1>. QED BY <1>10, <1>11, <1>13, <1>14, <1>15, <1>16, <1>17 DEF ThreadStep

LEMMA TargetsKept == Spec => []Targets
<1>1. Init => Targets
  BY DEF Init, CardInit, Targets, TypeIsKnown, Announcing, Aimed, Announced
<1>2. TypeOK /\ IInv /\ Targets /\ [Next]_vars => Targets'
  <2> SUFFICES ASSUME TypeOK, IInv, Targets, [Next]_vars PROVE Targets'
    OBVIOUS
  <2> USE DEF TypeOK
  <2>1. CASE CardInitStep \/ InitGivesUp
    <3>1. /\ UNCHANGED <<lock, pc, call, i, stranded, erase, kind>>
          /\ boot # "ready"
          /\ boot' = "ready" => card_type' = CsdType
      BY <2>1 DEF CardInitStep, InitGivesUp, sd_spi_init, GoIdle, CheckVersion, CardIsReady,
        CardIsNotReady, ReadOcr, GetCapacity, Booting, callVars, cardVars
    <3>2. \A t \in Thread : pc[t] = "idle" /\ lock # t
      BY <3>1 DEF IInv, Owners
    <3>. QED BY <3>1, <3>2 DEF Targets, TypeIsKnown, Announcing, Aimed, Announced, CsdType
  <2>2. CASE Card
    <3>1. /\ UNCHANGED <<boot, card_type, kind, lock, pc, call, i, stranded>>
          /\ busy' = FALSE
          /\ \/ UNCHANGED <<mode, next, erase>>
             \/ mode' = "deaf" /\ erase' = {}
      BY <2>2, CardAlone
    <3>. QED BY <3>1 DEF Targets, TypeIsKnown, Announcing, Aimed, Announced, Asked
  <2>3. ASSUME NEW t \in Thread, Lock(t) \/ Return(t) PROVE Targets'
    <3>1. /\ UNCHANGED <<boot, card_type, kind, mode, next, erase, busy, stranded>>
          /\ pc'[t] # "data" /\ pc[t] \in {"idle", "return"}
          /\ pc'[t] = "announce" => call'[t].op = "write"
          /\ \A u \in Thread \ {t} : pc'[u] = pc[u] /\ call'[u] = call[u] /\ i'[u] = i[u]
      BY <2>3 DEF Lock, Return, Goes, cardVars, initVars
    <3>2. stranded \/ erase = {}
      <4>1. CASE Lock(t)
        BY <4>1 DEF Lock, Locks, Requests, Targets, Announced, IInv, Owners
      <4>2. CASE Return(t)
        BY <4>2, <3>1 DEF Return, Targets, Announced, IInv, Owners
      <4>. QED BY <2>3, <4>1, <4>2
    <3>3. TypeIsKnown' /\ Announced'
      BY <3>1, <3>2 DEF Targets, TypeIsKnown, Announced
    <3>4. \A u \in Thread : pc'[u] \in {"data", "announce"} =>
            u = t \/ (pc'[u] = pc[u] /\ call'[u] = call[u] /\ i'[u] = i[u])
      BY <3>1
    <3>5. Announcing'
      BY <3>1, <3>4 DEF Targets, Announcing
    <3>6. Aimed'
      BY <3>1, <3>4 DEF Targets, Aimed
    <3>. QED BY <3>3, <3>5, <3>6 DEF Targets
  <2>4. ASSUME NEW t \in Thread, ThreadStep(t), ~Lock(t), ~Return(t) PROVE Targets'
    BY <2>4, HolderAims
  <2>5. CASE UNCHANGED vars
    BY <2>5 DEF vars, cardVars, initVars, callVars, Targets, TypeIsKnown,
      Announcing, Aimed, Announced, Asked
  <2>. QED BY <2>1, <2>2, <2>3, <2>4, <2>5 DEF Next
<1>. QED BY <1>1, <1>2, TypeCorrect, Invariance, PTL DEF Spec

\* A stop loses no block that was not announced and left out.
LEMMA StopLoses ==
  ASSUME TypeOK, StopWriting
  PROVE  /\ \A b \in Block : disk'[b] # disk[b] => b \in erase
         /\ erase' \subseteq erase /\ mode' \in {mode, "tran"}
<1>1. CASE Stays
  BY <1>1 DEF Stays, cardVars
<1>2. CASE mode = "rcvm"
  <2>1. Leaves({}, erase) /\ erase' = {} /\ mode' = "tran"
    BY <1>2, Zenon DEF StopWriting
  <2>2. CardTypeOK /\ erase \in SUBSET Block
    BY DEF TypeOK, CardTypeOK
  <2>. QED BY <2>1, <2>2, LeftBehind
<1>. QED BY <1>1, <1>2 DEF StopWriting

(* A block of the card changes only by a call that writes it, for cards of *)
(* any size and kind: byte and block addresses are not mixed up, and what  *)
(* is announced for erasing is given up with the write that announced it.  *)
(* What the card spoils on its own is what it had taken and not yet saved. *)
THEOREM BlocksAreOwn == Spec => OwnBlocksOnly
<1> DEFINE Own == stranded \/ \A b \in Block : disk'[b] # disk[b] =>
                    \/ b \in unsaved /\ disk'[b] = "spoilt"
                    \/ \E t \in Thread :
                         /\ lock = t /\ call[t].op = "write"
                         /\ b \in call[t].first .. call[t].first + call[t].count - 1
<1>1. TypeOK /\ IInv /\ Targets /\ [Next]_vars => [Own]_vars
  <2> SUFFICES ASSUME TypeOK, IInv, Targets, [Next]_vars PROVE Own \/ UNCHANGED vars
    OBVIOUS
  <2>1. CASE UNCHANGED disk
    BY <2>1
  <2>2. ASSUME NEW t \in Thread, send_block(t) \/ StopWrite(t) PROVE Own
    <3>1. lock = t /\ call[t].op = "write" /\ pc[t] \in {"data", "stop"}
      BY <2>2 DEF send_block, StopWrite, IInv, Owners
    <3>2. CASE StopWriting
      <4>1. \A b \in Block : disk'[b] # disk[b] => b \in erase
        BY <3>2, StopLoses
      <4>2. stranded \/ erase \subseteq Asked(t)
        BY <3>1 DEF Targets, Announced
      <4>. QED BY <3>1, <4>1, <4>2 DEF Asked
    <3>3. CASE send_block(t) /\ Programs(t, TransferMode(t))
      <4>1. pc[t] = "data" /\ mode \in {"rcv", "rcvm"}
        BY <3>1, <3>3 DEF send_block, Programs, TransferMode
      <4>2. stranded \/ (next = call[t].first + i[t] /\ i[t] < call[t].count)
        BY <4>1 DEF Targets, Aimed
      <4>3. disk' = [disk EXCEPT ![next] = t]
        BY <3>3 DEF Programs
      <4>4. \A b \in Block : disk'[b] # disk[b] => b = next
        BY <4>3 DEF TypeOK, CardTypeOK
      <4>5. i[t] \in Nat /\ call[t].first \in Nat /\ call[t].count \in Nat
        BY DEF TypeOK, Call, NoCall, Block
      <4>. QED BY <3>1, <4>2, <4>4, <4>5
    <3>4. CASE UNCHANGED disk
      BY <3>4
    <3>. QED BY <2>2, <3>2, <3>3, <3>4 DEF send_block, StopWrite, CardRefuses, Refuses, Stays,
            cardVars
  <2>4. CASE Card
    <3>1. \A b \in Block : disk'[b] # disk[b] =>
            (b \in unsaved /\ disk'[b] = "spoilt") \/ (b \in erase /\ mode = "rcvm")
      BY <2>4, CardAlone
    <3>2. \/ stranded \/ mode # "rcvm" \/ erase = {}
          \/ \E t \in Thread : lock = t /\ call[t].op = "write" /\ erase \subseteq Asked(t)
      BY DEF Targets, Announced
    <3>. QED BY <3>1, <3>2 DEF Asked
  <2>3. UNCHANGED disk \/ Card \/ \E t \in Thread : send_block(t) \/ StopWrite(t)
    BY Zenon DEF Next, CardInitStep, InitGivesUp, sd_spi_init, GoIdle, CheckVersion,
      CardIsReady, CardIsNotReady, ReadOcr, GetCapacity, ThreadStep, Lock, PreErase, SendCommand,
      recv_data, CardBusy, StopRead, Return, Announce,
      Transfer, Fetched, NoToken, StopReading, Stays, cardVars, vars
  <2>. QED BY <2>1, <2>2, <2>3, <2>4
<1>. QED BY <1>1, TypeCorrect, Invariance, TargetsKept, PTL DEF Spec, OwnBlocksOnly

-----------------------------------------------------------------------------
(* A call that succeeds has done what it was asked for.                    *)

\* The blocks read so far are in the buffer, and a card that has delivered
\* one has nothing left to save.
Got(t) ==
  /\ Len(buf[t]) = i[t]
  /\ i[t] # 0 => unsaved = {} /\ mode # "rcvm"
  /\ \A k \in 1 .. i[t] : buf[t][k] = disk[call[t].first + k - 1]

\* The blocks written so far are on the card, or spoilt by it, but for the
\* last of several, and a stop cannot lose them.
Put(t) ==
  /\ \A k \in 0 .. i[t] - 1 :
       \/ Multi(t) /\ k = call[t].count - 1
       \/ disk[call[t].first + k] \in {t, "spoilt"}
  /\ \A b \in erase : b >= call[t].first + i[t]

Delivered(t) ==
  /\ call[t].first + call[t].count <= Size
  /\ pc[t] \in {"idle", "announce", "cmd"} => buf[t] = <<>>
  /\ pc[t] = "data" =>
       ret[t] = "ok" /\ (mode \in {"one", "many"} => next = call[t].first + i[t])
  /\ pc[t] \in {"stop", "return"} /\ ret[t] = "ok" => i[t] = call[t].count
  /\ pc[t] \in {"data", "stop", "return"} /\ ret[t] = "ok" =>
       IF call[t].op = "read" THEN Got(t) ELSE stranded \/ Put(t)

LEMMA WithinCard ==
  ASSUME NEW f \in Nat, NEW n \in Nat, f + n <= Size, NEW k \in 0 .. n - 1
  PROVE  f + k \in Block
BY DEF Block

\* A block already written is on the card and will not be lost.
LEMMA PutWithin ==
  ASSUME NEW t \in Thread, Put(t), call[t].first \in Nat, i[t] \in Nat,
         call[t].first + i[t] <= Size, NEW k \in 0 .. i[t] - 1
  PROVE  call[t].first + k \in Block \ erase
<1>1. call[t].first + k \in Block
  BY WithinCard
<1>2. call[t].first + k < call[t].first + i[t]
  OBVIOUS
<1>3. call[t].first + k \notin erase
  BY <1>2 DEF Put
<1>. QED BY <1>1, <1>3

\* A card that sends is being read.
Reading ==
  mode \in {"one", "many"} => \E t \in Thread :
    pc[t] \in {"data", "stop"} /\ call[t].op = "read" /\ mode = TransferMode(t)

LEMMA HolderDelivers ==
  ASSUME TypeOK, TypeOK', IInv, Targets, Reading, NEW t \in Thread, Delivered(t),
         ThreadStep(t), ~Lock(t), ~Return(t)
  PROVE  Delivered(t)' /\ Reading'
<1> USE DEF TypeOK
<1>1. /\ pc[t] \in {"announce", "cmd", "data", "stop"} /\ boot = "ready" /\ lock = t
      /\ call' = call /\ (stranded => stranded')
      /\ pc'[t] \in {"cmd", "data", "stop", "return"}
      /\ \A u \in Thread \ {t} : pc[u] = "idle" /\ pc'[u] = "idle"
  BY HolderFrame
<1>2. Multi(t)' = Multi(t) /\ TransferMode(t)' = TransferMode(t)
  BY <1>1, Zenon DEF Multi, TransferMode
<1>3. /\ call[t].count \in Nat /\ call[t].first \in Nat /\ i[t] \in Nat /\ i'[t] \in Nat
      /\ call[t].op \in {"read", "write"}
  BY DEF Call, NoCall, Block
<1>4. mode \in {"one", "many"} =>
        pc[t] \in {"data", "stop"} /\ call[t].op = "read" /\ mode = TransferMode(t)
  BY <1>1 DEF Reading
<1>5. ASSUME mode' \in {"one", "many"} =>
               pc'[t] \in {"data", "stop"} /\ call[t].op = "read" /\ mode' = TransferMode(t)
      PROVE  Reading'
  BY <1>1, <1>2, <1>5 DEF Reading
<1>6. /\ stranded \/ erase = {} \/ erase \subseteq Asked(t)
      /\ pc[t] = "stop" => Multi(t)
      /\ pc[t] = "data" => /\ i[t] < call[t].count
                           /\ \/ stranded \/ mode \notin {"rcv", "rcvm"}
                              \/ next = call[t].first + i[t]
  BY <1>1 DEF IInv, Places, Targets, Announced, Aimed
<1>7. stranded \/ mode \in Doing(t, pc[t])
  BY <1>1 DEF IInv, Modes
<1>8. /\ call[t].first + call[t].count <= Size
      /\ pc[t] \in {"announce", "cmd"} => buf[t] = <<>> /\ i[t] = 0
  BY DEF Delivered, IInv, Places
<1>9. CASE PreErase(t)
  <2>1. pc[t] = "announce" /\ pc'[t] = "cmd" /\ buf' = buf /\ mode' = mode
    BY <1>9 DEF PreErase, Goes, Announce
  <2>. QED BY <1>1, <1>4, <1>5, <1>8, <2>1 DEF Delivered
<1>10. CASE SendCommand(t)
  <2>1. PICK r1 \in {"ok", "error"} :
          /\ Transfer(Addr(t), TransferMode(t), r1)
          /\ ret' = [ret EXCEPT ![t] = IF r1 = "ok" THEN "ok" ELSE "EIO"]
          /\ Goes(t, IF r1 # "ok" THEN "return" ELSE IF Done(t) THEN "stop" ELSE "data")
    BY <1>10 DEF SendCommand
  <2>2. pc[t] = "cmd" /\ i' = i /\ buf' = buf /\ stranded' = stranded
    BY <1>10 DEF SendCommand
  <2>3. /\ r1 # "ok" => pc'[t] = "return" /\ ret'[t] # "ok"
        /\ r1 = "ok" => pc'[t] \in {"data", "stop"} /\ ret'[t] = "ok"
        /\ pc'[t] = "stop" => i[t] >= call[t].count
    BY <2>1 DEF Goes, Done
  <2>4. /\ disk' = disk /\ erase' \subseteq erase
        /\ \/ mode' = mode
           \/ /\ r1 = "ok" /\ mode' = TransferMode(t)
              /\ \E b \in Addressed(Addr(t)) : next' = b
    BY <2>1, Zenon DEF Transfer, Stays, cardVars
  <2>5. mode' \in {"one", "many"} =>
          r1 = "ok" /\ mode' = TransferMode(t) /\ next' = call[t].first
    <3>1. mode \notin {"one", "many"}
      BY <1>4, <2>2
    <3>. QED BY <1>1, <2>4, <3>1, CommandAims DEF Targets
  <2>6. Reading'
    <3>1. TransferMode(t) \in {"one", "many"} => call[t].op = "read"
      BY DEF TransferMode
    <3>. QED BY <1>5, <2>3, <2>5, <3>1
  <2>7. Got(t)'
    BY <1>8, <2>2 DEF Got
  <2>8. stranded' \/ Put(t)'
    BY <1>1, <1>3, <1>6, <1>8, <2>2, <2>4 DEF Put, Asked
  <2>. QED BY <1>1, <1>3, <1>8, <2>2, <2>3, <2>5, <2>6, <2>7, <2>8 DEF Delivered
<1>11. ASSUME NEW r, BlockDone(t, r), pc[t] = "data",
              mode' # "one" /\ (mode' = "many" => mode = "many"),
              r = "ok" => IF call[t].op = "read" THEN Got(t)' ELSE stranded' \/ Put(t)',
              r = "ok" /\ mode' = "many" => next' = next + 1
       PROVE  Delivered(t)' /\ Reading'
  <2>1. i'[t] = i[t] + 1 /\ ret'[t] = r
    BY <1>11 DEF BlockDone
  <2>2. /\ pc'[t] = "data" => r = "ok" /\ Multi(t) /\ i[t] + 1 < call[t].count
        /\ pc'[t] \in {"stop", "return"} /\ r = "ok" => i[t] + 1 = call[t].count
        /\ Multi(t) => pc'[t] \in {"data", "stop"}
        /\ pc'[t] \in {"data", "stop", "return"}
    BY <1>3, <1>6, <1>11 DEF BlockDone, Goes, AfterBlock, Multi
  <2>3. mode' = "many" => Multi(t) /\ call[t].op = "read" /\ TransferMode(t) = "many"
    BY <1>4, <1>11 DEF TransferMode
  <2>4. mode' \in {"one", "many"} /\ pc'[t] = "data" => next' = call[t].first + i'[t]
    <3>1. mode = "many" => next = call[t].first + i[t]
      BY <1>11 DEF Delivered
    <3>. QED BY <1>3, <1>11, <2>1, <2>2, <3>1
  <2>5. Reading'
    BY <1>5, <1>11, <2>2, <2>3
  <2>. QED BY <1>1, <1>8, <1>11, <2>1, <2>2, <2>4, <2>5 DEF Delivered
<1>12. CASE recv_data(t)
  <2>1. pc[t] = "data" /\ call[t].op = "read" /\ ret[t] = "ok" /\ mode' = Ends /\ disk' = disk
    BY <1>12 DEF recv_data, Fetched, NoToken, Delivered
  <2>2. mode' \in {"one", "many"} => mode' = mode /\ mode = "many"
    BY <2>1 DEF Ends
  <2>3. ASSUME NEW value \in Content, Fetched(value), buf' = [buf EXCEPT ![t] = Append(@, value)],
               BlockDone(t, "ok")
        PROVE  Delivered(t)' /\ Reading'
    <3>1. Got(t) /\ next = call[t].first + i[t] /\ value = disk[next]
      BY <2>1, <2>3 DEF Delivered, Fetched
    <3>2. buf[t] \in Seq(Content) /\ buf'[t] = Append(buf[t], value) /\ i'[t] = i[t] + 1
      BY <2>3 DEF BlockDone
    <3>3. /\ Len(buf'[t]) = i[t] + 1 /\ buf'[t][i[t] + 1] = value
          /\ \A k \in 1 .. i[t] : buf'[t][k] = buf[t][k]
      BY <3>1, <3>2, AppendProperties DEF Got
    <3>4. Got(t)'
      <4>1. unsaved' = {} /\ mode' # "rcvm"
        BY <2>1, <2>3 DEF Fetched, Ends, IInv, Places, Working
      <4>. QED BY <1>1, <1>3, <2>1, <3>1, <3>2, <3>3, <4>1 DEF Got
    <3>5. mode' = "many" => next' = next + 1
      BY <2>2, <2>3 DEF Fetched, After
    <3>. QED BY <1>11, <2>1, <2>2, <2>3, <3>4, <3>5
  <2>4. CASE BlockDone(t, "EIO")
    BY <1>11, <2>1, <2>2, <2>4
  <2>. QED BY <1>12, <2>3, <2>4 DEF recv_data
<1>13. CASE CardBusy(t)
  BY <1>4, <1>11, <1>13 DEF CardBusy, cardVars
<1>14. CASE send_block(t)
  <2>1. pc[t] = "data" /\ call[t].op = "write" /\ ret[t] = "ok" /\ (stranded \/ Put(t))
    BY <1>14 DEF send_block, Delivered
  <2>2. mode \notin {"one", "many"}
    BY <1>4, <2>1
  <2>3. CASE StopsInsteadOf(t)
    <3>1. /\ StopWriting /\ BlockDone(t, "ok") /\ Multi(t) /\ i[t] = call[t].count - 1
          /\ i'[t] = i[t] + 1
      BY <1>14, <2>3 DEF send_block, StopsInsteadOf, BlockDone
    <3>2. (\A b \in Block \ erase : disk'[b] = disk[b]) /\ mode' \in {mode, "tran"}
      BY <3>1, StopLoses
    <3>3. stranded \/ erase' = {}
      <4>1. stranded \/ erase = {} \/ mode = "rcvm"
        BY <1>1, <2>1 DEF Targets, Announced
      <4>. QED BY <3>1, <4>1 DEF StopWriting, Stays, cardVars
    <3>4. stranded' \/ Put(t)'
      <4> SUFFICES ASSUME ~stranded PROVE Put(t)'
        BY <1>1
      <4> HIDE DEF TypeOK
      <4>0. Put(t) /\ call[t].first + i[t] <= Size
        BY <1>3, <1>8, <2>1, <3>1
      <4>1. \A k \in 0 .. i[t] - 1 : call[t].first + k \in Block \ erase
        BY <1>3, <4>0, PutWithin
      <4>2. \A k \in 0 .. i[t] - 1 : disk[call[t].first + k] \in {t, "spoilt"}
        BY <1>3, <2>1, <3>1 DEF Put
      <4>3. \A k \in 0 .. i[t] - 1 : disk'[call[t].first + k] \in {t, "spoilt"}
        BY <3>2, <4>1, <4>2
      <4>. QED BY <1>1, <1>2, <1>3, <3>1, <3>3, <4>3 DEF Put
    <3>. QED BY <1>11, <2>1, <2>2, <3>1, <3>2, <3>4
  <2>4. CASE Programs(t, TransferMode(t)) /\ BlockDone(t, "ok")
    <3>1. /\ mode = TransferMode(t) /\ mode \in {"rcv", "rcvm"} /\ next \in Block
          /\ disk' = [disk EXCEPT ![next] = t] /\ erase' = erase \ {next}
          /\ mode' \in {mode, "tran"} /\ i'[t] = i[t] + 1
      BY <2>1, <2>4 DEF Programs, TransferMode, BlockDone
    <3>2. stranded \/ (next = call[t].first + i[t] /\ Put(t))
      BY <1>6, <2>1, <3>1
    <3>3. stranded' \/ Put(t)'
      <4> SUFFICES ASSUME ~stranded PROVE Put(t)'
        BY <1>1
      <4>1. disk \in [Block -> Content] /\ \A b \in erase : b \in Nat
        BY DEF CardTypeOK, Block
      <4> HIDE DEF TypeOK
      <4>2. call[t].first + (i[t] + 1) <= Size
        BY <1>3, <1>6, <1>8, <2>1
      <4>3. ASSUME NEW k \in 0 .. i[t]
            PROVE  \/ Multi(t) /\ k = call[t].count - 1
                   \/ disk'[call[t].first + k] \in {t, "spoilt"}
        <5>1. CASE k = i[t]
          BY <3>1, <3>2, <4>1, <5>1
        <5>2. CASE k # i[t]
          <6>1. k \in 0 .. i[t] - 1 /\ call[t].first + k # next
            BY <1>3, <3>2, <5>2
          <6>2. call[t].first + k \in Block
            <7>1. i[t] + 1 \in Nat /\ k \in 0 .. i[t] + 1 - 1
              BY <1>3
            <7>. QED BY <1>3, <4>2, <7>1, WithinCard
          <6>3. disk'[call[t].first + k] = disk[call[t].first + k]
            BY <3>1, <4>1, <6>1, <6>2
          <6>. QED BY <3>2, <6>1, <6>3 DEF Put
        <5>. QED BY <5>1, <5>2
      <4>4. ASSUME NEW b \in erase' PROVE b >= call[t].first + (i[t] + 1)
        <5>1. b \in erase /\ b # call[t].first + i[t]
          BY <3>1, <3>2
        <5>2. b >= call[t].first + i[t] /\ b \in Nat
          BY <3>2, <4>1, <5>1 DEF Put
        <5>. QED BY <1>3, <5>1, <5>2
      <4>5. 0 .. i'[t] - 1 = 0 .. i[t]
        BY <1>3, <3>1
      <4>6. \A k \in 0 .. i'[t] - 1 :
              \/ Multi(t)' /\ k = call'[t].count - 1
              \/ disk'[call'[t].first + k] \in {t, "spoilt"}
        BY <1>1, <1>2, <4>3, <4>5
      <4>7. \A b \in erase' : b >= call'[t].first + i'[t]
        BY <1>1, <3>1, <4>4
      <4>. QED BY <4>6, <4>7 DEF Put
    <3>. QED BY <1>11, <2>1, <2>2, <2>4, <3>1, <3>3
  <2>5. CASE CardRefuses(t)
    <3>1. BlockDone(t, "EIO") /\ mode' \in {mode, "tran"}
      BY <2>5, Zenon DEF CardRefuses, Refuses, Stays, cardVars
    <3>. QED BY <1>11, <2>1, <2>2, <3>1
  <2>. QED BY <1>14, <2>3, <2>4, <2>5 DEF send_block
<1>15. CASE StopRead(t)
  <2>1. /\ pc[t] = "stop" /\ pc'[t] = "return" /\ call[t].op = "read"
        /\ UNCHANGED <<i, ret, buf, stranded>>
    BY <1>15 DEF StopRead, Goes
  <2>2. disk' = disk /\ mode' \notin {"one", "many"}
    BY <1>4, <1>6, <1>15, <2>1 DEF StopRead, StopReading, Stays, cardVars, TransferMode
  <2>3. Got(t) => Got(t)'
    <3>1. unsaved' = unsaved /\ mode' \in {mode, "tran"}
      BY <1>15, Zenon DEF StopRead, StopReading, Stays, cardVars
    <3>. QED BY <1>1, <2>1, <2>2, <3>1 DEF Got
  <2>. QED BY <1>1, <1>5, <1>8, <2>1, <2>2, <2>3 DEF Delivered
<1>16. CASE StopWrite(t)
  <2>1. /\ pc[t] = "stop" /\ pc'[t] = "return" /\ call[t].op = "write"
        /\ UNCHANGED <<i, ret, buf>>
    BY <1>16 DEF StopWrite, Goes
  <2>2. Stays \/ StopWriting
    BY <1>16 DEF StopWrite
  <2>3. /\ \A b \in Block \ erase : disk'[b] = disk[b]
        /\ erase' \subseteq erase /\ mode' \in {mode, "tran"}
    <3>1. CASE Stays
      BY <3>1 DEF Stays, cardVars
    <3>2. CASE StopWriting
      BY <3>2, StopLoses
    <3>. QED BY <2>2, <3>1, <3>2
  <2>4. ret[t] = "ok" => stranded' \/ Put(t)'
    <3> SUFFICES ASSUME ~stranded, ret[t] = "ok" PROVE Put(t)'
      BY <1>1
    <3>1. Put(t) /\ i[t] = call[t].count
      BY <2>1 DEF Delivered
    <3>2. \A k \in 0 .. i[t] - 1 : call[t].first + k \in Block \ erase
      BY <1>3, <1>8, <3>1, PutWithin
    <3>3. \A k \in 0 .. i[t] - 1 : disk'[call[t].first + k] = disk[call[t].first + k]
      BY <2>3, <3>2
    <3>4. \A b \in erase' : b >= call[t].first + i[t]
      BY <2>3, <3>1 DEF Put
    <3>5. \A k \in 0 .. i[t] - 1 :
            \/ Multi(t) /\ k = call[t].count - 1
            \/ disk'[call[t].first + k] \in {t, "spoilt"}
      BY <3>1, <3>3 DEF Put
    <3>. QED BY <1>1, <1>2, <2>1, <3>4, <3>5 DEF Put
  <2>5. Reading'
    BY <1>4, <1>5, <2>1, <2>3
  <2>. QED BY <1>1, <1>8, <2>1, <2>4, <2>5 DEF Delivered
<1>. QED BY <1>9, <1>10, <1>12, <1>13, <1>14, <1>15, <1>16 DEF ThreadStep

LEMMA AllDelivered == Spec => [](Reading /\ \A t \in Thread : Delivered(t))
<1> DEFINE Inv == Reading /\ \A t \in Thread : Delivered(t)
<1>1. Init => Inv
  BY DEF Init, CardInit, Reading, Delivered, NoCall
<1>2. TypeOK /\ TypeOK' /\ IInv /\ Targets /\ Inv /\ [Next]_vars => Inv'
  <2> SUFFICES ASSUME TypeOK, TypeOK', IInv, Targets, Inv, [Next]_vars PROVE Inv'
    OBVIOUS
  <2> USE DEF TypeOK
  <2>1. ASSUME \A t \in Thread : pc[t] = "idle", UNCHANGED <<pc, call, buf>>,
               mode' \in {"idle", "tran"} \/ mode' = mode
        PROVE  Inv'
    BY <2>1 DEF Reading, Delivered
  <2>2. CASE CardInitStep \/ InitGivesUp
    <3>1. /\ UNCHANGED <<pc, call, buf>> /\ (mode' = "tran" \/ mode' = mode)
          /\ \A t \in Thread : pc[t] = "idle" /\ t # NoThread
      BY <2>2 DEF CardInitStep, InitGivesUp, sd_spi_init, GoIdle, CheckVersion, CardIsReady,
        CardIsNotReady, ReadOcr, GetCapacity, Booting, callVars, cardVars, IInv, Owners
    <3>. QED BY <2>1, <3>1
  <2>3. CASE Card
    <3>1. /\ UNCHANGED <<pc, call, buf, i, ret, stranded>>
          /\ \/ UNCHANGED <<mode, next, erase>>
             \/ mode' = "deaf" /\ erase' = {}
      BY <2>3, CardAlone
    <3>2. Reading'
      BY <3>1 DEF Reading, TransferMode, Multi
    <3>3. ASSUME NEW t \in Thread PROVE Delivered(t)'
      <4>1. /\ call[t].count \in Nat /\ call[t].first \in Nat /\ i[t] \in Nat
            /\ call[t].first + call[t].count <= Size
        BY DEF Call, NoCall, Block, Delivered
      <4>2. ASSUME Got(t) PROVE Got(t)'
        <5>1. CASE i[t] = 0
          BY <3>1, <4>2, <5>1 DEF Got
        <5>2. CASE i[t] # 0
          <6>1. unsaved = {} /\ mode # "rcvm"
            BY <4>2, <5>2 DEF Got
          <6>2. disk' = disk /\ unsaved' = {} /\ mode' # "rcvm"
            BY <2>3, <6>1, CardAlone
          <6>. QED BY <3>1, <4>2, <6>2 DEF Got
        <5>. QED BY <5>1, <5>2
      <4>3. ASSUME Put(t), i[t] <= call[t].count PROVE Put(t)'
        <5>1. call[t].first + i[t] <= Size
          BY <4>1, <4>3
        <5>2. ASSUME NEW k \in 0 .. i[t] - 1, disk[call[t].first + k] \in {t, "spoilt"}
              PROVE  disk'[call[t].first + k] \in {t, "spoilt"}
          <6>1. call[t].first + k \in Block \ erase
            BY <4>1, <4>3, <5>1, PutWithin
          <6>. QED BY <2>3, <5>2, <6>1, CardAlone
        <5>3. Multi(t)' = Multi(t) /\ erase' \subseteq erase
          BY <3>1 DEF Multi
        <5>. QED BY <3>1, <4>3, <5>2, <5>3 DEF Put
      <4>4. pc[t] = "data" => i[t] <= call[t].count
        BY <4>1 DEF Targets, Aimed
      <4>5. mode' \in {"one", "many"} => mode' = mode /\ next' = next
        BY <3>1
      <4>. QED BY <3>1, <4>1, <4>2, <4>3, <4>4, <4>5 DEF Delivered
    <3>. QED BY <3>2, <3>3
  <2>4. ASSUME NEW t \in Thread, Lock(t) \/ Return(t) PROVE Inv'
    <3>1. /\ UNCHANGED mode /\ pc'[t] \in {"idle", "announce", "cmd"} /\ buf'[t] = <<>>
          /\ call'[t].first + call'[t].count <= Size
      BY <2>4 DEF Lock, Return, Goes, cardVars, Requests, NoCall, Delivered
    <3>2. \A u \in Thread \ {t} : pc'[u] = "idle" /\ buf'[u] = buf[u] /\ call'[u] = call[u]
                                  /\ pc[u] = "idle"
      BY <2>4 DEF Lock, Return, Goes, Locks, Requests, IInv, Owners
    <3>3. pc[t] \notin {"data", "stop"}
      BY <2>4 DEF Lock, Return
    <3>. QED BY <3>1, <3>2, <3>3 DEF Reading, Delivered
  <2>5. ASSUME NEW t \in Thread, ThreadStep(t), ~Lock(t), ~Return(t) PROVE Inv'
    <3>1. Delivered(t)' /\ Reading'
      BY <2>5, HolderDelivers
    <3>2. call' = call
          /\ \A u \in Thread \ {t} : pc[u] = "idle" /\ pc'[u] = "idle" /\ buf'[u] = buf[u]
      BY <2>5, HolderFrame
    <3>3. \A u \in Thread \ {t} : Delivered(u)'
      BY <3>2 DEF Delivered
    <3>. QED BY <3>1, <3>3
  <2>6. CASE UNCHANGED vars
    <3>1. UNCHANGED <<pc, call, buf, i, ret, disk, unsaved, stranded, mode, next, erase>>
      BY <2>6 DEF vars, cardVars, callVars
    <3>. QED BY <3>1 DEF Reading, Delivered, Got, Put, Multi, TransferMode
  <2>. QED BY <2>2, <2>3, <2>4, <2>5, <2>6 DEF Next
<1>. QED BY <1>1, <1>2, TypeCorrect, Invariance, TargetsKept, PTL DEF Spec

(* A read that reports success has delivered every block it was asked for, *)
(* as it is on the card: whatever the card is and whoever else uses it,    *)
(* also when an earlier write was left open.                               *)
THEOREM ReadsAreCurrent == Spec => []ReadIsCurrent
<1>1. TypeOK /\ (\A t \in Thread : Delivered(t)) => ReadIsCurrent
  <2> SUFFICES ASSUME TypeOK, NEW t \in Thread, Delivered(t), Returning(t, "read")
               PROVE  buf[t] = [k \in 1 .. call[t].count |-> disk[call[t].first + k - 1]]
    BY DEF ReadIsCurrent
  <2>1. Got(t) /\ i[t] = call[t].count /\ buf[t] \in Seq(Content)
    BY DEF Delivered, Returning, TypeOK
  <2>2. buf[t] = [k \in 1 .. Len(buf[t]) |-> buf[t][k]]
    BY <2>1, LenProperties
  <2>. QED BY <2>1, <2>2 DEF Got
<1>. QED BY <1>1, AllDelivered, TypeCorrect, PTL

(* A write that reports success has had its data taken by the card, each   *)
(* block at its own place, but for the last of several, and unless an      *)
(* earlier write was left open: a block that the card refused or was too   *)
(* busy for is never counted as written, and no block that was counted is  *)
(* given up as announced only.  What the card has taken it may still       *)
(* spoil: the driver does not wait to see it saved.                        *)
THEOREM WritesLand == Spec => []WriteLands
<1>1. TypeOK /\ (\A t \in Thread : Delivered(t)) => WriteLands
  <2> SUFFICES ASSUME TypeOK, ~stranded, NEW t \in Thread, Delivered(t), Returning(t, "write")
               PROVE  HoldsData(t, 0 .. IF Multi(t) THEN call[t].count - 2 ELSE 0)
    BY DEF WriteLands
  <2>1. Put(t) /\ i[t] = call[t].count /\ i[t] \in Nat
    BY DEF Delivered, Returning, TypeOK
  <2>. QED BY <2>1 DEF Put, HoldsData, Multi
<1>. QED BY <1>1, AllDelivered, TypeCorrect, PTL

=============================================================================
