----------------------------- MODULE ZperfClient -----------------------------
(***************************************************************************)
(* The Wi-Fi throughput client (wifi/Wi-Fi_speed_test_54LM20_7002EB2/src/  *)
(* main.c): main() waits on a semaphore for the network, gives it three    *)
(* seconds to settle and starts one asynchronous upload.  The net_mgmt     *)
(* event thread gives and resets the semaphore.                            *)
(***************************************************************************)
EXTENDS Naturals, Sequences

CONSTANTS
  MaxEvents,      \* changes of the network before the event thread comes
  OnlineAtBoot    \* the network may be up before the callback is added

ASSUME ZperfAssumption == MaxEvents \in Nat \ {0} /\ OnlineAtBoot \in BOOLEAN

VARIABLES
  net,         \* the network is up
  events,      \* its changes the event thread has not taken up
  connected,   \* the flag of the event handler, and the LED
  run_app,     \* count of the semaphore
  main,        \* where the main thread is
  session,     \* the upload: "none", "running", "finished" or "error"
  seen,        \* history: a connection has been reported to the handler
  early        \* history: the network came up before anybody listened

vars == <<net, events, connected, run_app, main, session, seen, early>>

TypeOK ==
  /\ {net, connected, seen, early} \subseteq BOOLEAN
  /\ events \in Seq(BOOLEAN) /\ Len(events) <= MaxEvents
  /\ run_app \in 0 .. 1
  /\ main \in {"boot", "listen", "wait", "settle", "upload", "no_peer", "returned"}
  /\ session \in IF main = "returned" THEN {"none", "running", "finished", "error"}
                                     ELSE {"none"}

Init ==
  /\ net = FALSE /\ events = <<>>
  /\ connected = FALSE /\ run_app = 0 /\ seen = FALSE /\ early = FALSE
  /\ main = "boot" /\ session = "none"

-----------------------------------------------------------------------------
\* The network comes or goes; before the callback is added nobody is told.
NetChanges ==
  /\ main = "boot" => OnlineAtBoot
  /\ net' = ~net
  /\ early' = (early \/ main = "boot")
  /\ IF main = "boot"
       THEN UNCHANGED events
       ELSE Len(events) < MaxEvents /\ events' = Append(events, net')
  /\ UNCHANGED <<connected, run_app, main, session, seen>>

\* Mutant: the semaphore is given only for a network that was known to be up.
GiveIfConnected ==
  /\ events # <<>> /\ Head(events)
  /\ events' = Tail(events)
  /\ connected' = TRUE /\ seen' = TRUE
  /\ run_app' = IF connected THEN 1 ELSE run_app
  /\ UNCHANGED <<net, main, session, early>>

\* k_sem_give() hands the semaphore to a thread that waits for it.
L4Connected ==
  /\ events # <<>> /\ Head(events)
  /\ events' = Tail(events)
  /\ connected' = TRUE /\ seen' = TRUE
  /\ IF main = "wait" THEN main' = "settle" /\ UNCHANGED run_app
                      ELSE run_app' = 1 /\ UNCHANGED main
  /\ UNCHANGED <<net, session, early>>

\* Mutant: the semaphore keeps the count of the connection that is gone.
KeepSemaphore ==
  /\ events # <<>> /\ ~Head(events)
  /\ events' = Tail(events)
  /\ connected' = FALSE
  /\ UNCHANGED <<net, run_app, main, session, seen, early>>

\* k_sem_reset() also makes a k_sem_take() under way return with an error.
L4Disconnected ==
  /\ events # <<>> /\ ~Head(events)
  /\ events' = Tail(events)
  /\ connected' = FALSE
  /\ run_app' = 0
  /\ main' = IF main = "wait" THEN "settle" ELSE main
  /\ UNCHANGED <<net, session, seen, early>>

-----------------------------------------------------------------------------
\* One second after boot.
AddCallback ==
  /\ main = "boot"
  /\ main' = "listen"
  /\ UNCHANGED <<net, events, connected, run_app, session, seen, early>>

\* Mutant: main() does not wait.
GoOn ==
  /\ main = "listen"
  /\ main' = "settle"
  /\ UNCHANGED <<net, events, connected, run_app, session, seen, early>>

\* k_sem_take(): the result is not looked at.
TakeRunApp ==
  /\ main = "listen"
  /\ main' = IF run_app = 1 THEN "settle" ELSE "wait"
  /\ run_app' = 0
  /\ UNCHANGED <<net, events, connected, session, seen, early>>

Settled ==
  /\ main = "settle"
  /\ main' = "upload"
  /\ UNCHANGED <<net, events, connected, run_app, session, seen, early>>

\* The configured address of the peer is not an address: -EINVAL.
BadAddress ==
  /\ main = "upload"
  /\ main' = "no_peer"
  /\ UNCHANGED <<net, events, connected, run_app, session, seen, early>>

\* zperf_udp_upload_async(): without a route it fails or reports an error.
\* main() returns either way, and nothing starts an upload again.
StartUpload ==
  /\ main = "upload"
  /\ main' = "returned"
  /\ session' \in IF net THEN {"running"} ELSE {"running", "none"}
  /\ UNCHANGED <<net, events, connected, run_app, seen, early>>

UploadEnds ==
  /\ session = "running"
  /\ session' \in {"finished", "error"}
  /\ UNCHANGED <<net, events, connected, run_app, main, seen, early>>

-----------------------------------------------------------------------------
MainThread  == AddCallback \/ TakeRunApp \/ Settled \/ BadAddress \/ StartUpload
EventThread == L4Connected \/ L4Disconnected

Next == NetChanges \/ MainThread \/ EventThread \/ UploadEnds

Spec == Init /\ [][Next]_vars

FairSpec == Spec /\ WF_vars(MainThread) /\ WF_vars(EventThread) /\ WF_vars(UploadEnds)

-----------------------------------------------------------------------------
(* The semaphore counts only a connection that the handler still believes  *)
(* in: one that has gone does not let main() through later.                *)
SemaphoreIsFresh == run_app = 1 => connected

(* main() goes on only after a connection was reported ("Waiting to        *)
(* connect to Wi-Fi"): a disconnection, which aborts the wait too, is not  *)
(* the first thing the handler hears of - unless the network had come up   *)
(* before the callback was there.                                          *)
WaitsForNetwork ==
  main \in {"settle", "upload", "no_peer", "returned"} => seen \/ early

(* A network that comes, is reported and stays gets its upload, however    *)
(* often it had gone while main() waited, and whether the semaphore was    *)
(* given, reset or its wait aborted in between.  The upload is tried once: *)
(* it takes a network that is up at that moment (one lost while it settles *)
(* makes main() return, and nobody tries again) and a peer.  One that was  *)
(* there before the callback may never be reported (early).                *)
TestIsRun ==
  /\ <>[]net
  /\ <>seen \/ []~early
  /\ [](main = "upload" => net)
  => <>(session # "none" \/ main = "no_peer")

=============================================================================
