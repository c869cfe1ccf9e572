-------------------------- MODULE ZperfClientProofs -------------------------
(***************************************************************************)
(* Proofs about ZperfClient, for any number of pending network events.     *)
(***************************************************************************)
EXTENDS ZperfClient, SequenceTheorems, TLAPS

USE ZperfAssumption

-----------------------------------------------------------------------------
\* The event queue as a sequence of anything.
LEMMA QueueFacts ==
  ASSUME NEW S, NEW q \in Seq(S), NEW e \in S
  PROVE  /\ Append(q, e) \in Seq(S) /\ Append(q, e) # <<>>
         /\ Head(Append(q, e)) = IF q = <<>> THEN e ELSE Head(q)
         /\ q # <<>> => Tail(q) \in Seq(S)
<1>1. Append(q, e) \in Seq(S) /\ Append(q, e) # <<>>
  BY AppendProperties
<1>2. CASE q = <<>>
  <2>1. Len(q) = 0 /\ Append(q, e)[Len(q) + 1] = e
    BY <1>2, AppendProperties, EmptySeq
  <2>2. Append(q, e)[1] = e
    BY <2>1
  <2>. QED BY <1>1, <1>2, <2>2, HeadTailProperties
<1>3. CASE q # <<>>
  <2>1. Len(q) \in Nat \ {0} /\ Append(q, e)[1] = q[1]
    BY <1>3, AppendProperties, EmptySeq, LenProperties
  <2>. QED BY <1>1, <1>3, <2>1, HeadTailProperties
<1>. QED BY <1>2, <1>3

\* What the handler hears of next, or would if the network changed now.
NextReport == IF events = <<>> THEN ~net ELSE Head(events)

\* As long as nothing has been reported, the first thing to be reported is
\* a connection: the network was down when the callback was added.
FirstIsUp == early \/ seen \/ NextReport

\* Nobody has come past the wait without a report.
NothingUnseen ==
  /\ main = "boot" => events = <<>>
  /\ run_app = 1 \/ connected => seen
  /\ WaitsForNetwork

Queue == net \in BOOLEAN /\ events \in Seq(BOOLEAN)

LEMMA QueueType == Spec => []Queue
<1>1. Init => Queue
  <2>1. <<>> \in Seq(BOOLEAN)
    OBVIOUS
  <2>. QED BY <2>1, Zenon DEF Init, Queue
<1>2. Queue /\ [Next]_vars => Queue'
  <2> SUFFICES ASSUME Queue, [Next]_vars PROVE Queue'
    OBVIOUS
  <2>1. CASE NetChanges
    <3>1. net' = ~net /\ (events' = events \/ events' = Append(events, net'))
      BY <2>1, Zenon DEF NetChanges
    <3>2. net' \in BOOLEAN
      BY <3>1, Zenon
    <3>3. Append(events, net') \in Seq(BOOLEAN)
      BY <3>2, QueueFacts DEF Queue
    <3>. QED BY <3>1, <3>2, <3>3, Zenon DEF Queue
  <2>2. CASE L4Connected \/ L4Disconnected
    <3>1. net' = net /\ events # <<>> /\ events' = Tail(events)
      BY <2>2, Zenon DEF L4Connected, L4Disconnected
    <3>. QED BY <3>1, QueueFacts, Zenon DEF Queue
  <2>3. CASE MainThread \/ UploadEnds \/ UNCHANGED vars
    <3>1. net' = net /\ events' = events
      BY <2>3, Zenon DEF MainThread, AddCallback, TakeRunApp, Settled, BadAddress,
         StartUpload, UploadEnds, vars
    <3>. QED BY <3>1, Zenon DEF Queue
  <2>. QED BY <2>1, <2>2, <2>3 DEF Next, EventThread
<1>. QED BY <1>1, <1>2, PTL DEF Spec

(* The semaphore counts to one, no upload is under way before main() has   *)
(* returned, and everything else keeps its type as well.                   *)
THEOREM TypeCorrect == Spec => []TypeOK
<1>1. Init => TypeOK
  <2>1. <<>> \in Seq(BOOLEAN) /\ Len(<<>>) = 0
    OBVIOUS
  <2>2. 0 <= MaxEvents /\ 0 \in 0 .. 1
    OBVIOUS
  <2>3. "boot" # "returned"
    OBVIOUS
  <2>. QED BY <2>1, <2>2, <2>3, Zenon DEF Init, TypeOK
<1>2. TypeOK /\ Queue' /\ [Next]_vars => TypeOK'
  <2> SUFFICES ASSUME TypeOK, Queue', [Next]_vars PROVE TypeOK'
    OBVIOUS
  <2>1. {net', connected', seen', early'} \subseteq BOOLEAN
    BY Zenon DEF TypeOK, Queue, Next, NetChanges, MainThread, EventThread, L4Connected,
      L4Disconnected, AddCallback, TakeRunApp, Settled, BadAddress, StartUpload, UploadEnds, vars
  <2>2. Len(events') <= MaxEvents
    <3>1. CASE events' = events
      BY <3>1 DEF TypeOK
    <3>2. CASE Len(events) < MaxEvents /\ events' = Append(events, net')
      BY <2>1, <3>2, AppendProperties DEF TypeOK
    <3>3. CASE events # <<>> /\ events' = Tail(events)
      BY <3>3, HeadTailProperties, LenProperties DEF TypeOK
    <3>. QED BY <3>1, <3>2, <3>3, Zenon DEF Next, NetChanges, MainThread, EventThread,
            L4Connected, L4Disconnected, AddCallback, TakeRunApp, Settled, BadAddress,
            StartUpload, UploadEnds, vars
  <2>3. run_app' \in 0 .. 1
    <3>1. run_app' \in {run_app, 0, 1}
      BY Zenon DEF Next, NetChanges, MainThread, EventThread, L4Connected, L4Disconnected,
        AddCallback, TakeRunApp, Settled, BadAddress, StartUpload, UploadEnds, vars
    <3>. QED BY <3>1 DEF TypeOK
  <2>4. /\ main' \in {"boot", "listen", "wait", "settle", "upload", "no_peer", "returned"}
        /\ session' \in IF main' = "returned" THEN {"none", "running", "finished", "error"}
                                               ELSE {"none"}
    <3>1. CASE BadAddress \/ StartUpload
      BY <3>1 DEF TypeOK, BadAddress, StartUpload
    <3>2. CASE UploadEnds
      BY <3>2 DEF TypeOK, UploadEnds
    <3>3. CASE /\ session' = session
               /\ \/ main' = main
                  \/ main \in {"boot", "listen", "wait", "settle"}
                     /\ main' \in {"listen", "wait", "settle", "upload"}
      BY <3>3 DEF TypeOK
    <3>4. L4Connected \/ L4Disconnected =>
            session' = session /\ (main' = main \/ (main = "wait" /\ main' = "settle"))
      BY Zenon DEF L4Connected, L4Disconnected
    <3>5. AddCallback \/ TakeRunApp \/ Settled =>
            /\ session' = session /\ main \in {"boot", "listen", "settle"}
            /\ main' \in {"listen", "wait", "settle", "upload"}
      BY DEF AddCallback, TakeRunApp, Settled
    <3>6. NetChanges \/ UNCHANGED vars => session' = session /\ main' = main
      BY Zenon DEF NetChanges, vars
    <3>. QED BY <3>1, <3>2, <3>3, <3>4, <3>5, <3>6 DEF Next, MainThread, EventThread
  <2>. QED BY <2>1, <2>2, <2>3, <2>4, Zenon DEF TypeOK, Queue
<1>. QED BY <1>1, <1>2, QueueType, PTL DEF Spec

LEMMA Invariance == Spec => [](FirstIsUp /\ NothingUnseen /\ SemaphoreIsFresh)
<1> DEFINE Inv == FirstIsUp /\ NothingUnseen /\ SemaphoreIsFresh
<1>1. Init => Inv
  <2>1. 0 # 1
    OBVIOUS
  <2>. QED BY <2>1, Zenon DEF Init, FirstIsUp, NextReport, NothingUnseen, WaitsForNetwork,
          SemaphoreIsFresh
<1>2. Queue /\ Inv /\ [Next]_vars => Inv'
  <2> SUFFICES ASSUME Queue, Inv, [Next]_vars PROVE Inv'
    OBVIOUS
  <2>1. CASE NetChanges /\ main = "boot"
    <3>1. early' /\ main' = main /\ events' = events
      BY <2>1, Zenon DEF NetChanges
    <3>2. connected' = connected /\ run_app' = run_app /\ seen' = seen
      BY <2>1, Zenon DEF NetChanges
    <3>3. FirstIsUp'
      BY <3>1, Zenon DEF FirstIsUp
    <3>4. WaitsForNetwork'
      BY <3>1, Zenon DEF WaitsForNetwork
    <3>5. SemaphoreIsFresh' /\ (run_app' = 1 \/ connected' => seen')
      BY <3>2, Zenon DEF NothingUnseen, SemaphoreIsFresh
    <3>. QED BY <3>1, <3>3, <3>4, <3>5, Zenon DEF NothingUnseen
  <2>2. CASE NetChanges /\ main # "boot"
    <3>1. /\ (early' <=> early) /\ main' = main
          /\ net' = ~net /\ events' = Append(events, net')
      BY <2>2, Zenon DEF NetChanges
    <3>2. connected' = connected /\ run_app' = run_app /\ seen' = seen
      BY <2>2, Zenon DEF NetChanges
    <3>3. net' \in BOOLEAN
      BY <3>1, Zenon
    <3>4. events' # <<>> /\ Head(events') = IF events = <<>> THEN net' ELSE Head(events)
      BY <3>1, <3>3, QueueFacts, Zenon DEF Queue
    <3>5. NextReport' = NextReport
      BY <3>1, <3>4, Zenon DEF NextReport
    <3>. QED BY <2>2, <3>1, <3>2, <3>5, Zenon DEF FirstIsUp, NothingUnseen,
            WaitsForNetwork, SemaphoreIsFresh
  <2>3. CASE L4Connected
    <3>1. main # "boot" /\ seen' /\ connected'
      BY <2>3, Zenon DEF L4Connected, NothingUnseen
    <3>2. main' # "boot"
      BY <2>3, <3>1 DEF L4Connected
    <3>3. FirstIsUp' /\ WaitsForNetwork'
      BY <3>1, Zenon DEF FirstIsUp, WaitsForNetwork
    <3>. QED BY <3>1, <3>2, <3>3, Zenon DEF NothingUnseen, SemaphoreIsFresh
  <2>4. CASE L4Disconnected
    <3>0. main # "boot"
      BY <2>4, Zenon DEF L4Disconnected, NothingUnseen
    <3>1. main' # "boot" /\ run_app' # 1
      <4>1. run_app' = 0 /\ main' = IF main = "wait" THEN "settle" ELSE main
        BY <2>4, Zenon DEF L4Disconnected
      <4>. QED BY <3>0, <4>1
    <3>2. ~connected' /\ seen' = seen /\ early' = early /\ events # <<>> /\ ~Head(events)
      BY <2>4, Zenon DEF L4Disconnected
    <3>3. seen \/ early
      BY <3>2, Zenon DEF FirstIsUp, NextReport
    <3>. QED BY <3>0, <3>1, <3>2, <3>3, Zenon DEF FirstIsUp, NothingUnseen,
            WaitsForNetwork, SemaphoreIsFresh
  <2>5. CASE MainThread
    <3>1. /\ early' = early /\ seen' = seen /\ net' = net /\ events' = events
          /\ connected' = connected
      BY <2>5, Zenon DEF MainThread, AddCallback, TakeRunApp, Settled, BadAddress, StartUpload
    <3>2. main' # "boot" /\ (run_app' = 1 => run_app = 1)
      BY <2>5 DEF MainThread, AddCallback, TakeRunApp, Settled, BadAddress, StartUpload
    <3>3. \/ main' \notin {"settle", "upload", "no_peer", "returned"}
          \/ run_app = 1
          \/ main \in {"settle", "upload"}
      BY <2>5 DEF MainThread, AddCallback, TakeRunApp, Settled, BadAddress, StartUpload
    <3>4. NextReport' = NextReport
      BY <3>1, Zenon DEF NextReport
    <3>. QED BY <3>1, <3>2, <3>3, <3>4, Zenon DEF FirstIsUp, NothingUnseen,
            WaitsForNetwork, SemaphoreIsFresh
  <2>6. CASE UploadEnds \/ UNCHANGED vars
    <3>1. /\ early' = early /\ seen' = seen /\ net' = net /\ events' = events
          /\ connected' = connected /\ main' = main /\ run_app' = run_app
      BY <2>6, Zenon DEF UploadEnds, vars
    <3>. QED BY <3>1, Zenon DEF FirstIsUp, NextReport, NothingUnseen, WaitsForNetwork,
            SemaphoreIsFresh
  <2>. QED
    BY <2>1, <2>2, <2>3, <2>4, <2>5, <2>6 DEF Next, EventThread
<1>. QED BY <1>1, <1>2, QueueType, PTL DEF Spec

(* The semaphore never counts a connection that is known to be gone.       *)
THEOREM SemaphoreStaysFresh == Spec => []SemaphoreIsFresh
BY Invariance, PTL

(* main() goes on only after a connection was reported, although the wait  *)
(* also ends when the semaphore is reset: what it cannot tell apart cannot *)
(* happen first, unless the network came up before the callback was there. *)
THEOREM NetworkIsWaitedFor == Spec => []WaitsForNetwork
<1>1. NothingUnseen => WaitsForNetwork
  BY DEF NothingUnseen
<1>. QED BY <1>1, Invariance, PTL

=============================================================================
