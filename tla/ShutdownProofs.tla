--------------------------- MODULE ShutdownProofs ---------------------------
(***************************************************************************)
(* What is proved of the gateway's end, for any requests, delays and       *)
(* period of polling that keep to ShutdownAssumption.                      *)
(***************************************************************************)
EXTENDS Shutdown, TLAPS

(* TypeOK in three parts.                                                  *)
TypeServer ==
  /\ server \in {"starting", "listening", "closing"}
  /\ status \in Statuses /\ told \in Statuses
  /\ shutdownRequested \in BOOLEAN
  /\ handled \subseteq Signals
TypeTime ==
  /\ closeAt \in Nat /\ forceAt \in Nat /\ now \in Nat /\ polled \in Nat
  /\ now <= FORCE_EXIT_TIMEOUT
TypeEnd ==
  /\ request \in [Requests -> {"none", "inflight", "answered", "refused", "cut"}]
  /\ cause \in {"none", "listen", "signal", "closed", "close failed", "deadline"}
  /\ exit \in {"none", "0", "1", "killed"}

(* The timers are set for the two delays, the clock runs once asked to end *)
(* and a signal is spent only in asking.                                   *)
Clock ==
  /\ closeAt \in {0, CLOSE_DELAY} /\ forceAt \in {0, FORCE_EXIT_TIMEOUT}
  /\ now > 0 => shutdownRequested
  /\ handled # Signals => shutdownRequested
  /\ shutdownRequested => status = "terminating"

(* A balancer that polls in time has polled since the signal before the    *)
(* first delay is over.                                                    *)
Polling ==
  /\ polled <= now
  /\ server = "starting" => now = 0
  /\ server = "listening" => now <= polled + PollPeriod
  /\ polled > 0 => told = "terminating"
  /\ server = "closing" => told = "terminating"

(* Requests are turned away only when closing, and cut only by an end.     *)
Serving ==
  /\ server = "starting" => \A r \in Requests : request[r] = "none"
  /\ server # "closing" => \A r \in Requests : request[r] # "refused"
  /\ Running => \A r \in Requests : request[r] # "cut"

Types == TypeServer /\ TypeTime /\ TypeEnd

IInv == Types /\ Clock /\ Polling /\ Serving /\ CutForCause

-----------------------------------------------------------------------------
LEMMA Delays ==
  /\ CLOSE_DELAY \in Nat /\ FORCE_EXIT_TIMEOUT \in Nat /\ PollPeriod \in Nat
  /\ 0 < PollPeriod /\ PollPeriod < CLOSE_DELAY
  /\ CLOSE_DELAY < FORCE_EXIT_TIMEOUT
BY ShutdownAssumption

LEMMA InitInvariant == Init => IInv
<1> SUFFICES ASSUME Init PROVE IInv
  OBVIOUS
<1>1. TypeServer
  BY DEF Init, TypeServer, Statuses
<1>2. TypeTime
  BY Delays DEF Init, TypeTime
<1>3. TypeEnd
  BY DEF Init, TypeEnd
<1>4. Clock /\ Polling
  BY Delays DEF Init, Clock, Polling
<1>5. Serving /\ CutForCause
  BY DEF Init, Serving, CutForCause
<1> QED BY <1>1, <1>2, <1>3, <1>4, <1>5 DEF IInv, Types

(* An end cuts what was in flight and nothing else.                        *)
LEMMA ExitCuts ==
  ASSUME TypeEnd, NEW code, NEW why, Exit(code, why)
  PROVE  /\ request' \in [Requests -> {"none", "inflight", "answered",
                                       "refused", "cut"}]
         /\ \A r \in Requests :
              /\ request'[r] = "cut" => request[r] \in {"inflight", "cut"}
              /\ request'[r] = "none" <=> request[r] = "none"
              /\ request'[r] = "refused" <=> request[r] = "refused"
         /\ exit' = code /\ cause' = why
BY DEF Exit, TypeEnd

LEMMA ListenKeeps == ASSUME IInv, Listen PROVE IInv'
<1>1. TypeServer' /\ TypeTime' /\ Clock'
  BY DEF Listen, IInv, Types, TypeServer, TypeTime, Clock, timers, balancer
<1>2. Polling'
  BY Delays DEF Listen, IInv, Types, TypeTime, Polling, balancer
<1>3. TypeEnd' /\ \A r \in Requests : request'[r] = "none"
  BY ExitCuts DEF Listen, Stays, IInv, Types, TypeEnd, Serving
<1>4. Serving' /\ CutForCause'
  BY <1>3 DEF Serving, CutForCause
<1> QED BY <1>1, <1>2, <1>3, <1>4 DEF IInv, Types

LEMMA SignalKeeps ==
  ASSUME IInv, NEW s \in Signals, Signal(s) PROVE IInv'
<1>1. handled' \subseteq Signals /\ UNCHANGED <<server, now, told, polled>>
  BY DEF Signal, IInv, Types, TypeServer, balancer
<1>2. CASE /\ ~shutdownRequested /\ shutdownRequested' = TRUE
           /\ status' = "terminating" /\ Stays
           /\ closeAt' = CLOSE_DELAY /\ forceAt' = FORCE_EXIT_TIMEOUT
  <2>1. TypeServer'
    BY <1>1, <1>2 DEF IInv, Types, TypeServer, Statuses
  <2>2. TypeTime' /\ TypeEnd'
    BY <1>1, <1>2, Delays DEF Stays, IInv, Types, TypeTime, TypeEnd
  <2>3. Clock' /\ Polling'
    BY <1>1, <1>2 DEF IInv, Clock, Polling
  <2>4. Serving' /\ CutForCause'
    BY <1>1, <1>2 DEF Stays, IInv, Serving, CutForCause, Running
  <2> QED BY <2>1, <2>2, <2>3, <2>4 DEF IInv, Types
<1>3. CASE /\ shutdownRequested
           /\ \E code \in {"1", "killed"} : Exit(code, "signal")
           /\ UNCHANGED <<shutdownRequested, status, timers>>
  <2>1. /\ \A r \in Requests :
             /\ request'[r] = "none" <=> request[r] = "none"
             /\ request'[r] = "refused" <=> request[r] = "refused"
        /\ request' \in [Requests -> {"none", "inflight", "answered",
                                      "refused", "cut"}]
        /\ exit' \in {"1", "killed"} /\ cause' = "signal"
    BY <1>3, ExitCuts DEF IInv, Types
  <2>2. TypeServer' /\ TypeTime' /\ Clock' /\ Polling'
    BY <1>1, <1>3
       DEF IInv, Types, TypeServer, TypeTime, Clock, Polling, timers
  <2>3. TypeEnd' /\ Serving' /\ CutForCause'
    BY <1>1, <1>3, <2>1 DEF IInv, TypeEnd, Serving, CutForCause, Running
  <2> QED BY <2>2, <2>3 DEF IInv, Types
<1>4. s \notin handled => shutdownRequested
  BY DEF IInv, Clock
<1> QED BY <1>2, <1>3, <1>4 DEF Signal, RequestShutdown

LEMMA CloseTimerKeeps == ASSUME IInv, CloseTimer PROVE IInv'
<1>1. closeAt = CLOSE_DELAY /\ now >= CLOSE_DELAY
  BY DEF CloseTimer, IInv, Clock
<1>2. told = "terminating"
  <2>1. now \in Nat /\ polled \in Nat
    BY DEF IInv, Types, TypeTime
  <2>2. server = "listening" => polled > 0
    BY <1>1, <2>1, Delays DEF IInv, Polling
  <2>3. server # "starting"
    BY <1>1, <2>1, Delays DEF IInv, Polling
  <2> QED BY <2>2, <2>3 DEF IInv, Types, TypeServer, Polling
<1>3. TypeServer'
  BY DEF CloseTimer, IInv, Types, TypeServer, balancer
<1>4. TypeTime' /\ TypeEnd' /\ Clock'
  BY DEF CloseTimer, Stays, IInv, Types, TypeTime, TypeEnd, Clock, balancer
<1>5. Polling'
  BY <1>2 DEF CloseTimer, IInv, Polling, balancer
<1>6. Serving' /\ CutForCause'
  BY DEF CloseTimer, Stays, IInv, Serving, CutForCause, Running
<1> QED BY <1>3, <1>4, <1>5, <1>6 DEF IInv, Types

LEMMA ClosedKeeps == ASSUME IInv, Closed PROVE IInv'
<1>1. \E code \in {"0", "1"}, why \in {"closed", "close failed"} : Exit(code, why)
  BY DEF Closed
<1>2. TypeServer' /\ TypeTime' /\ Clock' /\ Polling'
  BY DEF Closed, IInv, Types, TypeServer, TypeTime, Clock, Polling, timers,
         balancer
<1>3. TypeEnd' /\ Serving'
  BY <1>1, ExitCuts DEF Closed, IInv, Types, TypeEnd, Serving, Running
<1>4. CutForCause'
  <2>1. CASE Exit("0", "closed") /\ \A r \in Requests : request[r] # "inflight"
    BY <2>1, ExitCuts DEF Closed, IInv, Types, Serving, CutForCause
  <2>2. CASE Exit("1", "close failed")
    BY <2>2, ExitCuts DEF IInv, Types, CutForCause
  <2> QED BY <2>1, <2>2 DEF Closed
<1> QED BY <1>2, <1>3, <1>4 DEF IInv, Types

LEMMA ForceTimerKeeps == ASSUME IInv, ForceTimer PROVE IInv'
<1>1. now = FORCE_EXIT_TIMEOUT /\ now' = now
  BY Delays DEF ForceTimer, IInv, Types, TypeTime, Clock
<1>2. TypeServer' /\ TypeTime' /\ Clock' /\ Polling'
  BY DEF ForceTimer, IInv, Types, TypeServer, TypeTime, Clock, Polling,
         balancer
<1>3. TypeEnd' /\ Serving'
  <2>1. Exit("1", "deadline") /\ UNCHANGED server
    BY DEF ForceTimer
  <2>2. TypeEnd'
    BY <2>1, ExitCuts DEF IInv, Types, TypeEnd
  <2>3. Serving'
    BY <2>1, ExitCuts DEF IInv, Types, Serving, Running
  <2> QED BY <2>2, <2>3
<1>4. CutForCause'
  BY <1>1, ExitCuts DEF ForceTimer, IInv, Types, CutForCause
<1> QED BY <1>2, <1>3, <1>4 DEF IInv, Types

LEMMA RequestsKeep ==
  ASSUME IInv, NEW r \in Requests, Arrive(r) \/ Answer(r) PROVE IInv'
<1>1. UNCHANGED <<server, status, shutdownRequested, handled, closeAt, forceAt,
                  now, told, polled, cause, exit>>
  BY DEF Arrive, Answer, timers, balancer
<1>2. TypeServer' /\ TypeTime' /\ Clock' /\ Polling'
  BY <1>1 DEF IInv, Types, TypeServer, TypeTime, Clock, Polling
<1>3. /\ request' \in [Requests -> {"none", "inflight", "answered", "refused",
                                    "cut"}]
      /\ \A q \in Requests :
           /\ request'[q] = "cut" => request[q] = "cut"
           /\ server # "closing" /\ request'[q] = "refused"
                => request[q] = "refused"
           /\ server = "starting" => request'[q] = request[q]
  <2>1. CASE Arrive(r)
    BY <2>1 DEF Arrive, IInv, Types, TypeServer, TypeEnd
  <2>2. CASE Answer(r)
    BY <2>2 DEF Answer, IInv, Types, TypeEnd, Serving
  <2> QED BY <2>1, <2>2
<1>4. TypeEnd' /\ Serving'
  BY <1>1, <1>3 DEF IInv, Types, TypeEnd, Serving, Running
<1>5. CutForCause'
  BY <1>1, <1>3 DEF IInv, CutForCause
<1> QED BY <1>2, <1>4, <1>5 DEF IInv, Types

LEMMA ReadyKeeps == ASSUME IInv, Ready PROVE IInv'
<1>1. TypeServer'
  BY DEF Ready, IInv, Types, TypeServer
<1>2. TypeTime' /\ TypeEnd' /\ Clock'
  BY DEF Ready, Stays, IInv, Types, TypeTime, TypeEnd, Clock, timers
<1>3. Polling'
  <2>1. now > 0 => status = "terminating"
    BY DEF IInv, Clock
  <2> QED BY <2>1, Delays DEF Ready, IInv, Types, TypeTime, Polling
<1>4. Serving' /\ CutForCause'
  BY DEF Ready, Stays, IInv, Serving, CutForCause, Running
<1> QED BY <1>1, <1>2, <1>3, <1>4 DEF IInv, Types

LEMMA TickKeeps == ASSUME IInv, Tick PROVE IInv'
<1>1. TypeServer' /\ TypeEnd'
  BY DEF Tick, Stays, IInv, Types, TypeServer, TypeEnd, balancer
<1>2. TypeTime'
  BY Delays DEF Tick, IInv, Types, TypeTime, timers, balancer
<1>3. Clock'
  BY DEF Tick, IInv, Clock, timers
<1>4. Polling'
  BY Delays DEF Tick, IInv, Types, TypeTime, Polling, balancer
<1>5. Serving'
  BY DEF Tick, Stays, IInv, Serving, Running
<1>6. CutForCause'
  <2>1. \A r \in Requests : request'[r] # "cut"
    BY DEF Tick, Stays, IInv, Serving
  <2> QED BY <2>1 DEF CutForCause
<1> QED BY <1>1, <1>2, <1>3, <1>4, <1>5, <1>6 DEF IInv, Types

THEOREM Invariance == Spec => []IInv
<1>1. IInv /\ [Next]_vars => IInv'
  <2> SUFFICES ASSUME IInv, [Next]_vars PROVE IInv'
    OBVIOUS
  <2>1. CASE Listen
    BY <2>1, ListenKeeps
  <2>2. CASE \E s \in Signals : Signal(s)
    BY <2>2, SignalKeeps
  <2>3. CASE CloseTimer
    BY <2>3, CloseTimerKeeps
  <2>4. CASE Closed
    BY <2>4, ClosedKeeps
  <2>5. CASE ForceTimer
    BY <2>5, ForceTimerKeeps
  <2>6. CASE \E r \in Requests : Arrive(r) \/ Answer(r)
    BY <2>6, RequestsKeep
  <2>7. CASE Ready
    BY <2>7, ReadyKeeps
  <2>8. CASE Tick
    BY <2>8, TickKeeps
  <2>9. CASE Ended \/ UNCHANGED vars
    <3>1. UNCHANGED vars
      BY <2>9 DEF Ended
    <3>2. Types' /\ Clock' /\ Polling'
      BY <3>1 DEF vars, timers, balancer, IInv, Types, TypeServer, TypeTime,
                  TypeEnd, Clock, Polling
    <3>3. Serving' /\ CutForCause'
      BY <3>1 DEF vars, timers, IInv, Serving, CutForCause, Running
    <3> QED BY <3>2, <3>3 DEF IInv
  <2> QED
    BY <2>1, <2>2, <2>3, <2>4, <2>5, <2>6, <2>7, <2>8, <2>9 DEF Next
<1> QED BY <1>1, InitInvariant, PTL DEF Spec

-----------------------------------------------------------------------------
(* The clock stops at the deadline, and every part keeps to its values.    *)
THEOREM TypeCorrect == Spec => []TypeOK
<1>1. IInv => TypeOK
  BY DEF IInv, Types, TypeServer, TypeTime, TypeEnd, TypeOK
<1> QED BY <1>1, Invariance, PTL

(* Whatever the delays, as long as the balancer polls more often than the  *)
(* first of them lasts, it knows before a caller is turned away.           *)
THEOREM DrainKnown == Spec => []DrainKnownFirst
<1>1. IInv => DrainKnownFirst
  BY DEF IInv, Polling, Serving, DrainKnownFirst
<1> QED BY <1>1, Invariance, PTL

(* No request is ever cut off for less than a second signal, a close that  *)
(* failed or the whole of the time a shutdown is given.                    *)
THEOREM CutOnlyForCause == Spec => []CutForCause
BY Invariance, PTL DEF IInv

(* A process only ends with code 0 out of a close that had nothing in      *)
(* flight, and nothing moves once it has ended.                            *)
THEOREM CleanExitIsClean == Spec => []CleanExitLosesNothing
<1>1. Init => CleanExitLosesNothing
  BY DEF Init, CleanExitLosesNothing
<1>2. IInv /\ CleanExitLosesNothing /\ [Next]_vars => CleanExitLosesNothing'
  <2> SUFFICES ASSUME IInv, CleanExitLosesNothing, [Next]_vars
               PROVE  CleanExitLosesNothing'
    OBVIOUS
  <2>1. ASSUME UNCHANGED exit, Running PROVE CleanExitLosesNothing'
    BY <2>1 DEF CleanExitLosesNothing, Running
  <2>2. ASSUME NEW code \in {"1", "killed"}, NEW why, Exit(code, why)
        PROVE  CleanExitLosesNothing'
    BY <2>2 DEF Exit, CleanExitLosesNothing
  <2>3. CASE Listen
    BY <2>1, <2>2, <2>3 DEF Listen, Stays
  <2>4. ASSUME NEW s \in Signals, Signal(s) PROVE CleanExitLosesNothing'
    BY <2>1, <2>2, <2>4 DEF Signal, RequestShutdown, Stays
  <2>5. CASE Closed
    <3>1. CASE Exit("0", "closed") /\ \A r \in Requests : request[r] # "inflight"
      <4>1. \A r \in Requests : request[r] # "cut"
        BY <2>5 DEF Closed, IInv, Serving
      <4>2. \A r \in Requests : request'[r] # "cut"
        BY <3>1, <4>1, ExitCuts DEF IInv, Types
      <4> QED
        BY <4>2 DEF CleanExitLosesNothing
    <3>2. CASE Exit("1", "close failed")
      BY <2>2, <3>2
    <3> QED
      BY <2>5, <3>1, <3>2 DEF Closed
  <2>6. CASE ForceTimer
    BY <2>2, <2>6 DEF ForceTimer
  <2>7. CASE CloseTimer \/ Ready \/ Tick
    BY <2>1, <2>7 DEF CloseTimer, Ready, Tick, Stays
  <2>8. ASSUME NEW r \in Requests, Arrive(r) \/ Answer(r)
        PROVE  CleanExitLosesNothing'
    BY <2>1, <2>8 DEF Arrive, Answer
  <2>9. CASE Ended \/ UNCHANGED vars
    BY <2>9 DEF Ended, vars, CleanExitLosesNothing
  <2> QED
    BY <2>3, <2>4, <2>5, <2>6, <2>7, <2>8, <2>9 DEF Next
<1> QED BY <1>1, <1>2, Invariance, PTL DEF Spec
-----------------------------------------------------------------------------
(* That a shutdown gets on.  The provers know nothing of what an action    *)
(* can do: CanBeTaken assumes of each fair action that it can be taken     *)
(* where its guard stands and it changes something, which is so by the     *)
(* form of the actions.                                                    *)
CanBeTaken ==
  /\ Running /\ server = "starting" => ENABLED <<Listen>>_vars
  /\ Running /\ Due(closeAt) => ENABLED <<CloseTimer>>_vars
  /\ Running /\ Due(forceAt) => ENABLED <<ForceTimer>>_vars
  /\ Running /\ server = "listening" /\ polled # now => ENABLED <<Ready>>_vars
  /\ /\ Running /\ shutdownRequested /\ server # "starting"
     /\ now < FORCE_EXIT_TIMEOUT /\ ~Due(closeAt) /\ ~Due(forceAt)
     /\ server = "listening" => now < polled + PollPeriod
     => ENABLED <<Tick>>_vars

(* The forced exit is set from the signal to the end of the process.       *)
ForceIsSet == shutdownRequested /\ Running => forceAt = FORCE_EXIT_TIMEOUT

LEMMA ForceIsSetCorrect == Spec => []ForceIsSet
<1>1. Init => ForceIsSet
  BY DEF Init, ForceIsSet
<1>2. ForceIsSet /\ [Next]_vars => ForceIsSet'
  BY DEF ForceIsSet, Next, vars, timers, Running, Listen, Signal,
         RequestShutdown, CloseTimer, Closed, ForceTimer, Ready, Tick, Ended,
         Arrive, Answer, Exit, Stays
<1> QED
  BY <1>1, <1>2, PTL DEF Spec

(* What keeps the clock at n, in the order it is cleared away: the server  *)
(* has not come up, a timer is due, the balancer's next poll is.           *)
Ending(n) == shutdownRequested /\ Running /\ now = n
Starts(n) == Ending(n) /\ server = "starting"
Forced(n) == Ending(n) /\ server # "starting" /\ Due(forceAt)
CloseDue(n) ==
  Ending(n) /\ server # "starting" /\ ~Due(forceAt) /\ Due(closeAt)
PollDue(n) ==
  /\ Ending(n) /\ ~Due(forceAt) /\ ~Due(closeAt)
  /\ server = "listening" /\ now >= polled + PollPeriod
Ticks(n) ==
  /\ Ending(n) /\ server # "starting" /\ ~Due(forceAt) /\ ~Due(closeAt)
  /\ server = "listening" => now < polled + PollPeriod

(* Nothing but a tick moves a shutdown off n, and nothing calls it off.    *)
LEMMA EndingStep ==
  ASSUME NEW n \in Nat, Ending(n), [Next]_vars
  PROVE  \/ ~Running'
         \/ Tick
         \/ /\ Ending(n)' /\ UNCHANGED forceAt
            /\ closeAt' \in {closeAt, 0}
            /\ server # "starting" => server' \in {server, "closing"}
            /\ polled' \in {polled, now}
            /\ closeAt' # closeAt => server' = "closing"
<1> USE DEF Ending, Running
<1>1. CASE Listen
  BY <1>1 DEF Listen, Exit, timers, balancer
<1>2. ASSUME NEW s \in Signals, Signal(s) PROVE ~Running'
  BY <1>2 DEF Signal, RequestShutdown, Exit
<1>3. CASE CloseTimer
  BY <1>3 DEF CloseTimer, Stays, balancer
<1>4. CASE Closed \/ ForceTimer
  BY <1>4 DEF Closed, ForceTimer, Exit
<1>5. CASE Ready
  BY <1>5 DEF Ready, Stays, timers
<1>6. CASE (\E r \in Requests : Arrive(r) \/ Answer(r)) \/ UNCHANGED vars
  BY <1>6 DEF Arrive, Answer, timers, balancer, vars
<1>7. ~Ended
  BY DEF Ended
<1> QED
  BY <1>1, <1>2, <1>3, <1>4, <1>5, <1>6, <1>7 DEF Next

(* For any requests, delays and period of polling, a shutdown at tick n    *)
(* ends or comes to tick n + 1: neither a server that is still starting, a *)
(* close that hangs nor a poll that is due holds the clock, and so the     *)
(* forced exit, which is set for one tick, is not put off.                 *)
THEOREM ShutdownGetsOn ==
  ASSUME NEW n \in Nat
  PROVE  Spec /\ []CanBeTaken => (Ending(n) ~> Ending(n + 1) \/ ~Running)
<1> DEFINE On == Ending(n + 1) \/ ~Running
           Known == IInv /\ ForceIsSet
<1>1. Known /\ Ending(n) /\ Tick => On'
  BY DEF Ending, Tick, Stays, Running
<1>2. Known => /\ closeAt \in Nat /\ forceAt \in Nat /\ polled \in Nat
               /\ now \in Nat /\ polled <= now /\ FORCE_EXIT_TIMEOUT \in Nat
               /\ PollPeriod \in Nat \ {0}
               /\ server \in {"starting", "listening", "closing"}
  BY Delays, ShutdownAssumption
     DEF IInv, Types, TypeServer, TypeTime, Polling
<1>3. Spec => []Known
  BY Invariance, ForceIsSetCorrect, PTL
<1>4. Known /\ Ending(n) /\ server # "starting"
        => Forced(n) \/ CloseDue(n) \/ PollDue(n) \/ Ticks(n)
  BY <1>2 DEF Forced, CloseDue, PollDue, Ticks
<1>5. Spec /\ []CanBeTaken =>
        (Starts(n) ~> \/ Forced(n) \/ CloseDue(n) \/ PollDue(n) \/ Ticks(n)
                      \/ On)
  <2>1. Known /\ Starts(n) /\ [Next]_vars
          => Starts(n)' \/ (Forced(n) \/ CloseDue(n) \/ PollDue(n) \/ Ticks(n)
                            \/ On)'
    BY <1>1, <1>2, <1>4, EndingStep
       DEF Starts, Ending, Forced, CloseDue, PollDue, Ticks, Due, Running
  <2>2. Known /\ Starts(n) /\ <<Listen>>_vars
          => (Forced(n) \/ CloseDue(n) \/ PollDue(n) \/ Ticks(n) \/ On)'
    BY <1>2 DEF Starts, Ending, Forced, CloseDue, PollDue, Ticks, Due,
                Running, Listen, Exit, Stays, timers, balancer
  <2>3. CanBeTaken /\ Starts(n) => ENABLED <<Listen>>_vars
    BY DEF CanBeTaken, Starts, Ending
  <2> QED
    BY <1>3, <2>1, <2>2, <2>3, PTL DEF Spec
<1>6. Spec /\ []CanBeTaken => (Forced(n) ~> On)
  <2>1. Known /\ Forced(n) /\ [Next]_vars => Forced(n)' \/ On'
    BY <1>1, <1>2, EndingStep DEF Forced, Ending, Due, Running
  <2>2. Known /\ Forced(n) /\ <<ForceTimer>>_vars => On'
    BY DEF ForceTimer, Exit, Running
  <2>3. CanBeTaken /\ Forced(n) => ENABLED <<ForceTimer>>_vars
    BY DEF CanBeTaken, Forced, Ending
  <2> QED
    BY <1>3, <2>1, <2>2, <2>3, PTL DEF Spec
<1>7. Spec /\ []CanBeTaken => (CloseDue(n) ~> Ticks(n) \/ On)
  <2>1. Known /\ CloseDue(n) /\ [Next]_vars
          => CloseDue(n)' \/ (Ticks(n) \/ On)'
    BY <1>1, <1>2, EndingStep DEF CloseDue, Ticks, Ending, Due, Running
  <2>2. Known /\ CloseDue(n) /\ <<CloseTimer>>_vars => (Ticks(n) \/ On)'
    BY DEF CloseDue, Ticks, Ending, Due, Running, CloseTimer, Stays
  <2>3. CanBeTaken /\ CloseDue(n) => ENABLED <<CloseTimer>>_vars
    BY DEF CanBeTaken, CloseDue, Ending
  <2> QED
    BY <1>3, <2>1, <2>2, <2>3, PTL DEF Spec
<1>8. Spec /\ []CanBeTaken => (PollDue(n) ~> Ticks(n) \/ On)
  <2>1. Known /\ PollDue(n) /\ [Next]_vars => PollDue(n)' \/ (Ticks(n) \/ On)'
    BY <1>1, <1>2, EndingStep DEF PollDue, Ticks, Ending, Due, Running
  <2>2. Known /\ PollDue(n) /\ <<Ready>>_vars => (Ticks(n) \/ On)'
    BY <1>2 DEF PollDue, Ticks, Ending, Due, Running, Ready, Stays, timers
  <2>3. Known /\ CanBeTaken /\ PollDue(n) => ENABLED <<Ready>>_vars
    BY <1>2 DEF CanBeTaken, PollDue, Ending
  <2> QED
    BY <1>3, <2>1, <2>2, <2>3, PTL DEF Spec
<1>9. Spec /\ []CanBeTaken => (Ticks(n) ~> On)
  <2>1. Known /\ Ticks(n) /\ [Next]_vars => Ticks(n)' \/ On'
    BY <1>1, <1>2, EndingStep DEF Ticks, Ending, Due, Running
  <2>2. Known /\ Ticks(n) /\ <<Tick>>_vars => On'
    BY <1>1 DEF Ticks
  <2>3. Known /\ Ticks(n) => now < FORCE_EXIT_TIMEOUT
    BY <1>2, ShutdownAssumption DEF ForceIsSet, Ticks, Ending, Due
  <2>4. Known /\ CanBeTaken /\ Ticks(n) => ENABLED <<Tick>>_vars
    BY <2>3 DEF CanBeTaken, Ticks, Ending
  <2> QED
    BY <1>3, <2>1, <2>2, <2>4, PTL DEF Spec
<1>10. Known /\ Ending(n) => \/ Starts(n) \/ Forced(n) \/ CloseDue(n)
                             \/ PollDue(n) \/ Ticks(n)
  BY <1>4 DEF Starts
<1> QED
  BY <1>3, <1>5, <1>6, <1>7, <1>8, <1>9, <1>10, PTL
=============================================================================
