------------------------------ MODULE Shutdown ------------------------------
(***************************************************************************)
(* The life of the gateway's process: it listens, is signalled, says       *)
(* through its readiness check that it is draining, stops accepting after  *)
(* a delay and ends when its last request has, or at a deadline.           *)
(*                                                                         *)
(* Time is counted in ticks from the first signal.  A timer that is due    *)
(* fires before time passes it, and a load balancer reads the readiness    *)
(* check at least every PollPeriod ticks.                                  *)
(*                                                                         *)
(* Source: start-server.ts; the readiness check is in index.ts.            *)
(***************************************************************************)
EXTENDS Naturals

CONSTANTS
  Requests,            \* requests that may come
  CLOSE_DELAY,         \* ticks from the signal to the close of the server
  FORCE_EXIT_TIMEOUT,  \* ticks from the signal to the forced exit
  PollPeriod           \* ticks between two readings of the readiness check

ASSUME ShutdownAssumption ==
  /\ {CLOSE_DELAY, FORCE_EXIT_TIMEOUT, PollPeriod} \subseteq Nat \ {0}
  /\ PollPeriod < CLOSE_DELAY
  /\ CLOSE_DELAY < FORCE_EXIT_TIMEOUT

VARIABLES
  server,             \* "starting", "listening" or "closing"
  status,             \* what the readiness check answers
  shutdownRequested,
  handled,            \* the signals that still have their handler
  closeAt, forceAt,   \* the ticks the two timers are set for; 0 is unset
  now,                \* ticks since the first signal
  told, polled,       \* what the balancer last read, and when
  request,            \* what became of each request
  cause,              \* why the process ended
  exit                \* its exit code; "none" while it runs

vars == <<server, status, shutdownRequested, handled, closeAt, forceAt,
          now, told, polled, request, cause, exit>>
timers == <<closeAt, forceAt>>
balancer == <<told, polled>>

Signals == {"SIGINT", "SIGTERM"}
Statuses == {"running", "terminating"}

TypeOK ==
  /\ server \in {"starting", "listening", "closing"}
  /\ status \in Statuses /\ told \in Statuses
  /\ shutdownRequested \in BOOLEAN
  /\ handled \subseteq Signals
  /\ {closeAt, forceAt, now, polled} \subseteq Nat
  /\ now <= FORCE_EXIT_TIMEOUT
  /\ request \in [Requests -> {"none", "inflight", "answered", "refused", "cut"}]
  /\ cause \in {"none", "listen", "signal", "closed", "close failed", "deadline"}
  /\ exit \in {"none", "0", "1", "killed"}

Init ==
  /\ server = "starting"
  /\ status = "running" /\ told = "running"
  /\ shutdownRequested = FALSE
  /\ handled = Signals
  /\ closeAt = 0 /\ forceAt = 0 /\ now = 0 /\ polled = 0
  /\ request = [r \in Requests |-> "none"]
  /\ cause = "none"
  /\ exit = "none"

Running == exit = "none"

(* process.exit, or the default end of a signal: whatever is in flight is  *)
(* cut off.                                                                *)
Exit(code, why) ==
  /\ exit' = code
  /\ cause' = why
  /\ request' = [r \in Requests |->
                   IF request[r] = "inflight" THEN "cut" ELSE request[r]]

Stays == UNCHANGED <<exit, cause, request>>

-----------------------------------------------------------------------------
Listen ==
  /\ Running /\ server = "starting"
  /\ \/ server' = "listening" /\ Stays
     \/ UNCHANGED server /\ Exit("1", "listen")
  /\ UNCHANGED <<status, shutdownRequested, handled, timers, now, balancer>>

(* Mutants: readiness goes on saying "running"; the two delays swapped; no *)
(* forced exit.                                                            *)
RequestShutdownReady ==
  IF shutdownRequested
  THEN Exit("1", "signal") /\ UNCHANGED <<shutdownRequested, status, timers>>
  ELSE /\ shutdownRequested' = TRUE
       /\ status' = status
       /\ closeAt' = CLOSE_DELAY /\ forceAt' = FORCE_EXIT_TIMEOUT
       /\ Stays
RequestShutdownSwapped ==
  IF shutdownRequested
  THEN Exit("1", "signal") /\ UNCHANGED <<shutdownRequested, status, timers>>
  ELSE /\ shutdownRequested' = TRUE
       /\ status' = "terminating"
       /\ closeAt' = FORCE_EXIT_TIMEOUT /\ forceAt' = CLOSE_DELAY
       /\ Stays
RequestShutdownPatient ==
  IF shutdownRequested
  THEN Exit("1", "signal") /\ UNCHANGED <<shutdownRequested, status, timers>>
  ELSE /\ shutdownRequested' = TRUE
       /\ status' = "terminating"
       /\ closeAt' = CLOSE_DELAY /\ UNCHANGED forceAt
       /\ Stays

RequestShutdown ==
  IF shutdownRequested
  THEN Exit("1", "signal") /\ UNCHANGED <<shutdownRequested, status, timers>>
  ELSE /\ shutdownRequested' = TRUE
       /\ status' = "terminating"
       /\ closeAt' = CLOSE_DELAY /\ forceAt' = FORCE_EXIT_TIMEOUT
       /\ Stays

(* Each signal has its handler once; without it, a signal kills.           *)
Signal(s) ==
  /\ Running
  /\ \/ s \in handled /\ RequestShutdown
     \/ /\ s \notin handled
        /\ Exit("killed", "signal")
        /\ UNCHANGED <<shutdownRequested, status, timers>>
  /\ handled' = handled \ {s}
  /\ UNCHANGED <<server, now, balancer>>

(* Mutant: the process ends with the close begun and not waited for.       *)
CloseTimerHasty ==
  /\ Running /\ closeAt # 0 /\ now >= closeAt
  /\ closeAt' = 0
  /\ server' = "closing"
  /\ Exit("0", "closed")
  /\ UNCHANGED <<status, shutdownRequested, handled, forceAt, now, balancer>>

(* app.close() is called: nothing more is accepted.                        *)
CloseTimer ==
  /\ Running /\ closeAt # 0 /\ now >= closeAt
  /\ closeAt' = 0
  /\ server' = "closing"
  /\ UNCHANGED <<status, shutdownRequested, handled, forceAt, now, balancer>>
  /\ Stays

(* The close settles once no request is in flight, or fails.               *)
Closed ==
  /\ Running /\ server = "closing"
  /\ \/ /\ \A r \in Requests : request[r] # "inflight"
        /\ Exit("0", "closed")
     \/ Exit("1", "close failed")
  /\ UNCHANGED <<server, status, shutdownRequested, handled, timers, now,
                 balancer>>

ForceTimer ==
  /\ Running /\ forceAt # 0 /\ now >= forceAt
  /\ forceAt' = 0
  /\ Exit("1", "deadline")
  /\ UNCHANGED <<server, status, shutdownRequested, handled, closeAt, now,
                 balancer>>

(* A caller connects; once the server is closing it is turned away.        *)
Arrive(r) ==
  /\ Running /\ server # "starting"
  /\ request[r] = "none"
  /\ request' = [request EXCEPT ![r] =
                   IF server = "listening" THEN "inflight" ELSE "refused"]
  /\ UNCHANGED <<server, status, shutdownRequested, handled, timers, now,
                 balancer, cause, exit>>

Answer(r) ==
  /\ Running
  /\ request[r] = "inflight"
  /\ request' = [request EXCEPT ![r] = "answered"]
  /\ UNCHANGED <<server, status, shutdownRequested, handled, timers, now,
                 balancer, cause, exit>>

(* GET /checks/ready: 200 while running and 503 after.                     *)
Ready ==
  /\ Running /\ server = "listening"
  /\ told' = status
  /\ polled' = now
  /\ UNCHANGED <<server, status, shutdownRequested, handled, timers, now>>
  /\ Stays

Due(at) == at # 0 /\ now >= at
Tick ==
  /\ Running
  /\ shutdownRequested /\ server # "starting"
  /\ now < FORCE_EXIT_TIMEOUT
  /\ ~Due(closeAt) /\ ~Due(forceAt)
  /\ server = "listening" => now < polled + PollPeriod
  /\ now' = now + 1
  /\ UNCHANGED <<server, status, shutdownRequested, handled, timers, balancer>>
  /\ Stays

Ended == ~Running /\ UNCHANGED vars

Next ==
  \/ Listen \/ CloseTimer \/ Closed \/ ForceTimer \/ Ready \/ Tick \/ Ended
  \/ \E s \in Signals : Signal(s)
  \/ \E r \in Requests : Arrive(r) \/ Answer(r)

(* The event loop runs, time passes and the balancer polls.  Nothing is    *)
(* owed by the callers, the operator or the close.                         *)
Spec ==
  /\ Init /\ [][Next]_vars
  /\ WF_vars(Listen) /\ WF_vars(CloseTimer) /\ WF_vars(ForceTimer)
  /\ WF_vars(Ready) /\ WF_vars(Tick)

-----------------------------------------------------------------------------
(* A process that ends with code 0 has cut no request off: the exit waits  *)
(* for the close that the timer starts.                                    *)
CleanExitLosesNothing == exit = "0" => \A r \in Requests : request[r] # "cut"

(* A request is cut off for one of three reasons only: the operator asked  *)
(* twice, the close failed, or the whole of FORCE_EXIT_TIMEOUT has gone by *)
(* since the signal.  In particular never because the shutdown began.      *)
CutForCause ==
  (\E r \in Requests : request[r] = "cut") =>
    \/ cause = "signal" /\ shutdownRequested
    \/ cause = "close failed"
    \/ cause = "deadline" /\ now = FORCE_EXIT_TIMEOUT

(* The balancer has read that the gateway drains before the first caller   *)
(* is turned away, which is what the delay before the close is for.        *)
DrainKnownFirst ==
  (server = "closing" \/ \E r \in Requests : request[r] = "refused")
    => told = "terminating"

(* Once asked to, the process ends, whatever its requests and the close    *)
(* do.                                                                     *)
ShutdownEnds == shutdownRequested ~> ~Running
=============================================================================
