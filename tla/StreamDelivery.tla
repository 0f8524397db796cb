--------------------------- MODULE StreamDelivery ---------------------------
(***************************************************************************)
(* One streamed request, from the provider's body to the caller's socket.  *)
(*                                                                         *)
(* The provider's chunks pass through the provider transform and, on an    *)
(* adapted route, through the Messages or Responses adapter.  Each runs    *)
(* inside pipeToWriter and hands what it makes to the next; the last one   *)
(* hands to the pump of sendWebResponse, which writes to the caller and    *)
(* waits for the socket to drain.  The caller may vanish at any step, the  *)
(* provider may fail at any step, and either transform may throw.          *)
(*                                                                         *)
(* Sources: index.ts, handlers/streamHandler.ts, handlers/adapterUtils.ts, *)
(* handlers/streamTransformGuard.ts, handlers/truncationNotice.ts,         *)
(* context/clientAbort.ts, utils/fetch.ts.                                 *)
(***************************************************************************)
EXTENDS Naturals, Sequences, FiniteSets

CONSTANTS
  MaxChunks,  \* bound: chunks the provider sends
  HighWater,  \* chunks the socket takes before write() returns false
  Slack       \* chunks held between the transform and the adapter (the tee
              \* of response.clone(), the decoder and the event parser)

ASSUME BoundsAssumption ==
  /\ MaxChunks \in Nat
  /\ HighWater \in Nat \ {0}
  /\ Slack \in Nat \ {0}

(* What the provider can send, as far as delivery tells chunks apart:      *)
(*   delta  ordinary content          ping  the transform makes nothing    *)
(*   error  an upstream error frame   bad   the provider transform throws  *)
(*   done   data: [DONE]              odd   the adapter's transform throws *)
Kind == {"delta", "ping", "error", "bad", "odd", "done"}
Frame == Kind \ {"ping"}       \* what a stage can hand on
Token == Frame \cup {"notice"}  \* what can be written to the caller
None == "none"
Terminal == {"error", "done", "notice"}
Stage == {"transform", "adapter"}

VARIABLES
  adapted,      \* the route goes through an adapter
  eventStream,  \* the response's content-type is text/event-stream
  source,       \* provider body: "open", "ended", "failed" or "aborted"
  sent,         \* chunks the provider has sent, in order
  taken,        \* chunks each stage has read
  passed,       \* chunks each stage has finished with
  hold,         \* what each stage is waiting to hand over
  stage,        \* "reading", "writing", "flushing", "closed" or "failed"
  reason,       \* what each failed stage failed with
  started,      \* adapter state.hasStarted
  completed,    \* adapter state.completed
  pump,         \* sendWebResponse: "head", "reading", "parked", "announcing",
                \* "over", or "unsent" when the caller was gone at the head
  wire,         \* what has been written to the response
  buffered,     \* writes the socket has not flushed yet
  socketGone,   \* raw.socket.destroyed
  destroyed,    \* raw.destroyed
  ended,        \* raw.writableEnded
  closed,       \* 'close' has been emitted on raw
  aborted,      \* callerGone.signal.aborted
  log,          \* what the request's log line says became of the body
  captured,     \* a fault has been sent to Sentry
  faulted       \* a stage or the response has failed by a genuine fault

pipeVars == <<taken, passed, hold, stage, reason, started>>
respVars == <<wire, buffered, socketGone, destroyed, ended>>
vars == <<adapted, eventStream, source, sent, pipeVars, completed, pump,
          respVars, closed, aborted, log, captured, faulted>>

LastStage == IF adapted THEN "adapter" ELSE "transform"

PipeTypeOK ==
  /\ sent \in Seq(Kind)
  /\ taken \in [Stage -> Nat]
  /\ passed \in [Stage -> Nat]
  /\ hold \in [Stage -> Frame \cup {None}]
  /\ stage \in [Stage -> {"reading", "writing", "flushing", "closed", "failed"}]
  /\ reason \in [Stage -> {None, "abort", "cancel", "fault"}]

ResponseTypeOK ==
  /\ source \in {"open", "ended", "failed", "aborted"}
  /\ pump \in {"head", "reading", "parked", "announcing", "over", "unsent"}
  /\ wire \in Seq(Token)
  /\ buffered \in Nat
  /\ log \in SUBSET {"truncated", "disconnected"}

FlagTypeOK ==
  /\ adapted \in BOOLEAN
  /\ eventStream \in BOOLEAN
  /\ started \in BOOLEAN
  /\ completed \in BOOLEAN
  /\ socketGone \in BOOLEAN
  /\ destroyed \in BOOLEAN
  /\ ended \in BOOLEAN
  /\ closed \in BOOLEAN
  /\ aborted \in BOOLEAN
  /\ captured \in BOOLEAN
  /\ faulted \in BOOLEAN

TypeOK == PipeTypeOK /\ ResponseTypeOK /\ FlagTypeOK

-----------------------------------------------------------------------------
(* An adapted response is always an event stream: adaptResponse only       *)
(* streams what arrived as one, and sets the header again.                 *)
Init ==
  /\ adapted \in BOOLEAN
  /\ eventStream \in BOOLEAN
  /\ adapted => eventStream
  /\ source = "open"
  /\ sent = <<>>
  /\ taken = [s \in Stage |-> 0]
  /\ passed = [s \in Stage |-> 0]
  /\ hold = [s \in Stage |-> None]
  /\ stage = [s \in Stage |-> "reading"]
  /\ reason = [s \in Stage |-> None]
  /\ started = FALSE
  /\ completed = FALSE
  /\ pump = "head"
  /\ wire = <<>>
  /\ buffered = 0
  /\ socketGone = FALSE
  /\ destroyed = FALSE
  /\ ended = FALSE
  /\ closed = FALSE
  /\ aborted = FALSE
  /\ log = {}
  /\ captured = FALSE
  /\ faulted = FALSE

-----------------------------------------------------------------------------
(* A chunk, an end or a failure the pump is waiting for reaches it by      *)
(* promise jobs alone, which Node runs before it turns to another event.   *)
EventLoopTurns == ~(pump = "reading" /\ stage[LastStage] # "reading")

(* The provider.                                                           *)

ProviderSends ==
  /\ EventLoopTurns
  /\ source = "open"
  /\ Len(sent) < MaxChunks
  /\ \E k \in Kind : sent' = Append(sent, k)
  /\ UNCHANGED <<adapted, eventStream, source, pipeVars, completed, pump,
                 respVars, closed, aborted, log, captured, faulted>>

(* The body ends cleanly, or its connection breaks.                        *)
ProviderStops ==
  /\ EventLoopTurns
  /\ source = "open"
  /\ source' \in {"ended", "failed"}
  /\ UNCHANGED <<adapted, eventStream, sent, pipeVars, completed, pump,
                 respVars, closed, aborted, log, captured, faulted>>

-----------------------------------------------------------------------------
(* The stages.  What a stage makes of the chunk it reads.                  *)

Runs(s) == s = "transform" \/ adapted

(* guardStreamTransform rethrows for a chunk that is not an upstream error. *)
Throws(s, k) ==
  \/ s = "transform" /\ k = "bad"
  \/ s = "adapter" /\ k = "odd" /\ ~completed

(* Mutants of Makes.  The adapter does not ask whether it has given an     *)
(* ending; the provider transform discards the error frame it is handed.   *)
MakesPastEnding(s, k) ==
  IF k = "ping" \/ (s = "adapter" /\ k = "done" /\ ~started) THEN None ELSE k

MakesUnguarded(s, k) ==
  IF \/ k = "ping"
     \/ s = "transform" /\ k = "error"
     \/ s = "adapter" /\ completed
     \/ s = "adapter" /\ k = "done" /\ ~started
  THEN None
  ELSE k

(* An error frame leaves the guarded transform as an error frame; nothing  *)
(* follows an ending out of the adapter; [DONE] ends only what started.    *)
Makes(s, k) ==
  IF \/ k = "ping"
     \/ s = "adapter" /\ completed
     \/ s = "adapter" /\ k = "done" /\ ~started
  THEN None
  ELSE k

Incoming(s) == IF s = "transform" THEN Len(sent) ELSE passed["transform"]

InputClosed(s) ==
  IF s = "transform" THEN source = "ended" ELSE stage["transform"] = "closed"

InputError(s) ==
  IF s = "transform"
  THEN CASE source = "failed"  -> "fault"
         [] source = "aborted" -> "abort"
         [] OTHER              -> None
  ELSE IF stage["transform"] = "failed" THEN reason["transform"] ELSE None

(* A mutant of Fail: the writer is closed however the transform ended.     *)
FailByClosing(s, why) ==
  /\ stage' = [stage EXCEPT ![s] = "closed"]
  /\ hold' = [hold EXCEPT ![s] = None]
  /\ captured' = IF why = "fault" /\ aborted THEN TRUE ELSE captured
  /\ faulted' = IF why = "fault" THEN TRUE ELSE faulted
  /\ UNCHANGED reason

(* pipeToWriter's rejection handler: a fault is captured here only once    *)
(* the caller is known to have gone, and the writer is aborted with it.    *)
Fail(s, why) ==
  /\ stage' = [stage EXCEPT ![s] = "failed"]
  /\ reason' = [reason EXCEPT ![s] = why]
  /\ hold' = [hold EXCEPT ![s] = None]
  /\ captured' = IF why = "fault" /\ aborted THEN TRUE ELSE captured
  /\ faulted' = IF why = "fault" THEN TRUE ELSE faulted

(* One chunk read and transformed: it throws, makes nothing, or makes      *)
(* something that has to be written on.                                    *)
StageReads(s) ==
  /\ Runs(s)
  /\ stage[s] = "reading"
  /\ taken[s] < Incoming(s)
  /\ taken' = [taken EXCEPT ![s] = @ + 1]
  /\ LET k == sent[taken[s] + 1] IN
     \/ /\ Throws(s, k)
        /\ Fail(s, "fault")
        /\ UNCHANGED <<passed, started, completed>>
     \/ /\ ~Throws(s, k)
        /\ Makes(s, k) = None
        /\ passed' = [passed EXCEPT ![s] = taken[s] + 1]
        /\ UNCHANGED <<hold, stage, reason, started, completed, captured, faulted>>
     \/ /\ ~Throws(s, k)
        /\ Makes(s, k) # None
        /\ hold' = [hold EXCEPT ![s] = Makes(s, k)]
        /\ stage' = [stage EXCEPT ![s] = "writing"]
        /\ started' = IF s = "adapter" /\ k = "delta" THEN TRUE ELSE started
        /\ completed' = IF s = "adapter" /\ k \in {"error", "done"}
                       THEN TRUE ELSE completed
        /\ UNCHANGED <<passed, reason, captured, faulted>>
  /\ UNCHANGED <<adapted, eventStream, source, sent, pump, respVars, closed,
                 aborted, log>>

(* The input ended cleanly and has been read out: the adapter flushes its  *)
(* completion if [DONE] never came, and the writer is closed.              *)
StageFinishes(s) ==
  /\ Runs(s)
  /\ stage[s] = "reading"
  /\ InputClosed(s)
  /\ taken[s] = Incoming(s)
  /\ IF s = "adapter" /\ Makes(s, "done") # None
     THEN /\ hold' = [hold EXCEPT ![s] = "done"]
          /\ stage' = [stage EXCEPT ![s] = "flushing"]
          /\ completed' = TRUE
     ELSE /\ stage' = [stage EXCEPT ![s] = "closed"]
          /\ UNCHANGED <<hold, completed>>
  /\ UNCHANGED <<adapted, eventStream, source, sent, taken, passed, reason,
                 started, pump, respVars, closed, aborted, log, captured,
                 faulted>>

(* The input broke.  Chunks still buffered between the two may be lost.    *)
StageInputFails(s) ==
  /\ Runs(s)
  /\ stage[s] = "reading"
  /\ InputError(s) # None
  /\ Fail(s, InputError(s))
  /\ UNCHANGED <<adapted, eventStream, source, sent, taken, passed, started,
                 completed, pump, respVars, closed, aborted, log>>

(* The chunks of these that something was made of: the others take up no   *)
(* room, and neither wait nor make anything wait.                          *)
Substance(first, last) == {i \in first .. last : sent[i] # "ping"}

(* What the buffers between the transform and the adapter hold.            *)
Buffered == Substance(taken["adapter"] + 1, passed["transform"])

(* The transform's write goes into the buffers ahead of the adapter.       *)
HandToAdapter ==
  /\ adapted
  /\ stage["transform"] = "writing"
  /\ Cardinality(Buffered) < Slack
  /\ stage' = [stage EXCEPT !["transform"] = "reading"]
  /\ hold' = [hold EXCEPT !["transform"] = None]
  /\ passed' = [passed EXCEPT !["transform"] = taken["transform"]]
  /\ UNCHANGED <<adapted, eventStream, source, sent, taken, reason, started,
                 completed, pump, respVars, closed, aborted, log, captured,
                 faulted>>

(* reader.cancel(): the pending write of the last stage rejects with       *)
(* undefined, which pipeToWriter does not take for a fault.                *)
WriteCancelled ==
  /\ pump \in {"announcing", "over"}
  /\ stage[LastStage] \in {"writing", "flushing"}
  /\ Fail(LastStage, "cancel")
  /\ UNCHANGED <<adapted, eventStream, source, sent, taken, passed, started,
                 completed, pump, respVars, closed, aborted, log>>
-----------------------------------------------------------------------------
(* The pump: sendWebResponse.                                              *)

(* A caller already gone is sent nothing; the body is never opened.        *)
SendHead ==
  /\ pump = "head"
  /\ pump' = IF destroyed THEN "unsent" ELSE "reading"
  /\ UNCHANGED <<adapted, eventStream, source, sent, pipeVars, completed,
                 respVars, closed, aborted, log, captured, faulted>>

(* A mutant of HasNotice: an adapter's builder is never asked.             *)
HasNoticeUnadapted == eventStream /\ ~socketGone /\ ~adapted

(* truncationNoticeFor: an adapter that has already given an ending        *)
(* declines; every other event stream falls back to the route's own frame. *)
HasNotice == eventStream /\ ~socketGone /\ ~(adapted /\ completed)

(* What became of the body, filed whichever way the pump came out.         *)
File(how) ==
  /\ log' = log \cup (CASE how = "failure" -> {"truncated"}
                       [] how = "hangup"  -> {"disconnected"}
                       [] OTHER           -> {})
  /\ captured' = IF how = "failure" THEN TRUE ELSE captured

(* Everything from the pump's exit to its first await: what became of the  *)
(* body is filed, and the response is ended, announced short or hung up.   *)
Settle(how) ==
  /\ File(how)
  /\ \/ /\ destroyed
        /\ pump' = "over"
        /\ UNCHANGED <<respVars, completed>>
     \/ /\ ~destroyed
        /\ how = "done"
        /\ pump' = "over"
        /\ ended' = TRUE
        /\ UNCHANGED <<wire, buffered, socketGone, destroyed, completed>>
     \/ /\ ~destroyed
        /\ how # "done"
        /\ HasNotice
        /\ pump' = "announcing"
        /\ wire' = Append(wire, "notice")
        /\ buffered' = buffered + 1
        /\ completed' = IF adapted THEN TRUE ELSE completed
        /\ UNCHANGED <<socketGone, destroyed, ended>>
     \/ /\ ~destroyed
        /\ how # "done"
        /\ ~HasNotice
        /\ pump' = "over"
        /\ destroyed' = TRUE
        /\ socketGone' = TRUE
        /\ UNCHANGED <<wire, buffered, ended, completed>>

(* What the pump asks after each read, and its mutant that does not.       *)
NeverAsks == FALSE
CallerVanished == destroyed

(* Whether raw.write() returned false, and the mutant that ignores it.     *)
NeverFull == FALSE
WriteReturnsFalse == socketGone \/ buffered + 1 >= HighWater

(* reader.read() resolves with what the last stage holds.  A response that *)
(* is destroyed is a hangup; otherwise it is written, and the pump parks   *)
(* when the socket is full, or gone with the response not yet told.        *)
PumpReads ==
  /\ pump = "reading"
  /\ stage[LastStage] \in {"writing", "flushing"}
  /\ stage' = [stage EXCEPT ![LastStage] = IF @ = "writing" THEN "reading" ELSE "closed"]
  /\ hold' = [hold EXCEPT ![LastStage] = None]
  /\ passed' = [passed EXCEPT ![LastStage] = taken[LastStage]]
  /\ IF CallerVanished
     THEN Settle("hangup")
     ELSE /\ wire' = Append(wire, hold[LastStage])
          /\ buffered' = IF socketGone THEN buffered ELSE buffered + 1
          /\ pump' = IF WriteReturnsFalse THEN "parked" ELSE "reading"
          /\ UNCHANGED <<socketGone, destroyed, ended, completed, log, captured>>
  /\ UNCHANGED <<adapted, eventStream, source, sent, taken, reason, started,
                 closed, aborted, faulted>>

PumpDone ==
  /\ pump = "reading"
  /\ stage[LastStage] = "closed"
  /\ Settle("done")
  /\ UNCHANGED <<adapted, eventStream, source, sent, pipeVars, closed, aborted,
                 faulted>>

(* Whose doing a rejected read was, and the mutant that asks the error     *)
(* alone.                                                                  *)
CausedByUndefined == reason[LastStage] = "cancel"
CausedByHangup == reason[LastStage] = "cancel" \/ aborted

(* reader.read() rejects: whose doing it was is asked of the signal.       *)
PumpReadFails ==
  /\ pump = "reading"
  /\ stage[LastStage] = "failed"
  /\ Settle(IF CausedByHangup THEN "hangup" ELSE "failure")
  /\ UNCHANGED <<adapted, eventStream, source, sent, pipeVars, closed, aborted,
                 faulted>>

(* A mutant of PumpReleased: the wait for drain is given no signal.        *)
PumpUnreleased == FALSE /\ UNCHANGED vars

(* The wait for drain is released by the caller's signal.                  *)
PumpReleased ==
  /\ pump = "parked"
  /\ aborted
  /\ Settle("hangup")
  /\ UNCHANGED <<adapted, eventStream, source, sent, pipeVars, closed, aborted,
                 faulted>>

(* The response reports that its socket failed under it.                   *)
ResponseErrors ==
  /\ pump = "parked"
  /\ ~aborted
  /\ socketGone
  /\ Settle("failure")
  /\ faulted' = TRUE
  /\ UNCHANGED <<adapted, eventStream, source, sent, pipeVars, closed, aborted>>

(* The notice reached the socket, or a second has passed: hang up.         *)
AnnounceEnds ==
  /\ pump = "announcing"
  /\ pump' = "over"
  /\ destroyed' = TRUE
  /\ socketGone' = TRUE
  /\ UNCHANGED <<adapted, eventStream, source, sent, pipeVars, completed, wire,
                 buffered, ended, closed, aborted, log, captured, faulted>>

-----------------------------------------------------------------------------
(* The caller and its socket.                                              *)

SocketDrains ==
  /\ EventLoopTurns
  /\ buffered > 0
  /\ ~socketGone
  /\ buffered' = 0
  /\ pump' = IF pump = "parked" THEN "reading" ELSE pump
  /\ UNCHANGED <<adapted, eventStream, source, sent, pipeVars, completed, wire,
                 socketGone, destroyed, ended, closed, aborted, log, captured,
                 faulted>>

CallerLeaves ==
  /\ EventLoopTurns
  /\ ~socketGone
  /\ socketGone' = TRUE
  /\ UNCHANGED <<adapted, eventStream, source, sent, pipeVars, completed, pump,
                 wire, buffered, destroyed, ended, closed, aborted, log,
                 captured, faulted>>

(* The fetch carries the caller's signal: an open body errors, and so does *)
(* one that has ended but not been read out.  Its mutant carries none.     *)
SourceUnsignalled == source
SourceAfterAbort ==
  IF \/ source = "open"
     \/ source = "ended" /\ taken["transform"] < Len(sent)
  THEN "aborted"
  ELSE source

(* 'close' on the response.  Unless it had been ended the caller's signal  *)
(* aborts, and with it the provider fetch.                                 *)
ResponseCloses ==
  /\ EventLoopTurns
  /\ socketGone
  /\ ~closed
  /\ closed' = TRUE
  /\ destroyed' = TRUE
  /\ aborted' = IF ended THEN FALSE ELSE TRUE
  /\ source' = IF ended THEN source ELSE SourceAfterAbort
  /\ UNCHANGED <<adapted, eventStream, sent, pipeVars, completed, pump, wire,
                 buffered, socketGone, ended, log, captured, faulted>>

-----------------------------------------------------------------------------
Gateway ==
  \/ \E s \in Stage : StageReads(s) \/ StageFinishes(s) \/ StageInputFails(s)
  \/ HandToAdapter
  \/ WriteCancelled
  \/ SendHead
  \/ PumpReads
  \/ PumpDone
  \/ PumpReadFails
  \/ PumpReleased
  \/ AnnounceEnds

Environment ==
  \/ ProviderSends
  \/ ProviderStops
  \/ ResponseErrors
  \/ SocketDrains
  \/ CallerLeaves
  \/ ResponseCloses

(* The pump's read comes back with what the last stage holds.              *)
PumpTurns == PumpReads \/ PumpDone \/ PumpReadFails

Next == Gateway \/ Environment

Spec == Init /\ [][Next]_vars

(* Node runs every callback that is due, and promise jobs in the order     *)
(* they are queued, so no stage keeps a read that has come back from the   *)
(* pump.  It emits 'close' on a response whose socket is gone, and drops a *)
(* connection that has been idle too long (server.setTimeout), so a caller *)
(* the pump waits for either reads or goes.  Nothing makes the provider    *)
(* send, or stop.                                                          *)
Fairness ==
  /\ WF_vars(Gateway)
  /\ WF_vars(PumpTurns)
  /\ WF_vars(ResponseCloses)
  /\ WF_vars(pump = "parked" /\ (SocketDrains \/ CallerLeaves))

FairSpec == Spec /\ Fairness

-----------------------------------------------------------------------------
(* Properties.                                                             *)

Settled == pump \in {"over", "unsent"}

(* A body is ended -- framed as whole, by the terminating chunk of         *)
(* raw.end() -- only when the provider's own body ended cleanly and every  *)
(* chunk of it has gone through every stage to the socket.  A failure of   *)
(* the provider or of either transform never reads as a completion.        *)
WholeMeansWhole ==
  ended => /\ source = "ended"
           /\ passed[LastStage] = Len(sent)
           /\ \A i \in DOMAIN wire : wire[i] # "notice"

(* An adapted body is given at most one ending -- completion, error or     *)
(* truncation notice -- with nothing after it; and one that was started    *)
(* and ended whole has been given one.                                     *)
OneEnding ==
  adapted =>
    /\ \A i \in DOMAIN wire : wire[i] \in Terminal => i = Len(wire)
    /\ ended /\ started => wire # <<>> /\ wire[Len(wire)] \in Terminal

(* Why it holds.  Each stage has dealt with all it has read but for the    *)
(* chunk it is waiting to hand over, and never read past what it is given. *)
Pipeline ==
  /\ taken["transform"] <= Len(sent)
  /\ taken["adapter"] <= passed["transform"]
  /\ \A s \in Stage :
       /\ passed[s] <= taken[s]
       /\ stage[s] = "writing" => taken[s] = passed[s] + 1
       /\ stage[s] \in {"reading", "flushing", "closed"} => taken[s] = passed[s]
       /\ hold[s] # None <=> stage[s] \in {"writing", "flushing"}

(* A stage closes only behind the one before it, the first only behind a   *)
(* source that has ended and been read out; and a response is ended only   *)
(* behind the last.                                                        *)
ClosesInOrder ==
  /\ stage["transform"] # "flushing"
  /\ stage["transform"] = "closed" =>
       source = "ended" /\ taken["transform"] = Len(sent)
  /\ stage["adapter"] \in {"flushing", "closed"} =>
       stage["transform"] = "closed" /\ taken["adapter"] = passed["transform"]
  /\ ended => stage[LastStage] = "closed" /\ pump = "over"
  /\ pump \in {"head", "reading", "parked"} \/ ended =>
       \A i \in DOMAIN wire : wire[i] # "notice"

(* An ending that was made is held or was written, and while the pump runs *)
(* nothing else is held behind a written one; an adapter that was started  *)
(* does not close without one.                                             *)
EndingsKept ==
  adapted =>
    /\ hold["adapter"] \in Terminal => completed
    /\ \A i \in DOMAIN wire : wire[i] \in Terminal => completed /\ i = Len(wire)
    /\ stage["adapter"] \in {"flushing", "closed"} /\ started => completed
    /\ pump \in {"head", "reading", "parked"} =>
         /\ hold["adapter"] # None => \A i \in DOMAIN wire : wire[i] \notin Terminal
         /\ completed => IF hold["adapter"] # None
                         THEN hold["adapter"] \in Terminal
                         ELSE wire # <<>> /\ wire[Len(wire)] \in Terminal
    /\ ended /\ started => wire # <<>> /\ wire[Len(wire)] \in Terminal

(* A response that came apart is never filed as a delivery: unless every   *)
(* chunk was handed to the socket of a stream that ended, the log line     *)
(* says truncated or disconnected, and never both.  And nobody is paged    *)
(* for a closed tab: it is filed as truncated, and Sentry told, only when  *)
(* something really failed, whichever of fault and hangup came first.      *)
Accounted ==
  /\ pump \in {"announcing", "over"} =>
       /\ log = {} => source = "ended" /\ passed[LastStage] = Len(sent)
       /\ log # {"truncated", "disconnected"}
  /\ captured \/ "truncated" \in log => faulted

(* The provider is read no faster than the caller: behind a full socket    *)
(* the pump stops, and the stages fill up and stop behind it.              *)
Backpressure ==
  /\ pump # "announcing" /\ ~destroyed => buffered <= HighWater
  /\ Cardinality(Substance(passed[LastStage] + 1, taken["transform"]))
       <= IF adapted THEN Slack + 2 ELSE 1

(* The stream the caller is to see of these chunks, told by their places:  *)
(* whether there is content before the p-th; whether an adapter has given  *)
(* an ending before it, an error or the [DONE] of what was begun; and the  *)
(* first n but for those nothing is made of.                               *)
Begun(chunks, p) == \E i \in 1 .. p - 1 : chunks[i] = "delta"

Over(chunks, p) ==
  \E i \in 1 .. p - 1 :
    chunks[i] = "error" \/ (chunks[i] = "done" /\ Begun(chunks, i))

Shown(throughAdapter, chunks, n) ==
  {p \in 1 .. n :
     /\ chunks[p] # "ping"
     /\ throughAdapter => ~Over(chunks, p) /\ (chunks[p] = "done" => Begun(chunks, p))}

(* Where the p-th chunk comes on the wire: behind all shown before it.     *)
Place(p) == Cardinality(Shown(adapted, sent, p))

(* Whatever cuts a body short, what the caller has been sent is an exact   *)
(* prefix of the stream: nothing lost in the middle, repeated or swapped   *)
(* by the buffers between the stages.  Behind it comes no more than the    *)
(* notice that it was cut, or the completion that an adapter flushes for a *)
(* whole stream whose provider never says [DONE].                          *)
DeliveredIsPrefix ==
  \E n \in 0 .. Len(sent) :
    /\ \/ Len(wire) = Place(n)
       \/ /\ Len(wire) = Place(n) + 1
          /\ \/ wire[Len(wire)] = "notice"
             \/ /\ wire[Len(wire)] = "done"
                /\ adapted /\ source = "ended" /\ n = Len(sent)
    /\ \A p \in Shown(adapted, sent, n) : wire[Place(p)] = sent[p]

(* Nothing is written behind an ending or onto a destroyed response.       *)
NothingAfterTheEnd == [][ended \/ destroyed => UNCHANGED wire]_vars

(* A truncation the caller could still be told of is told in the body: the *)
(* step that files it on an event stream whose socket is alive leaves an   *)
(* ending last on an adapted wire, and the notice on any other.            *)
TruncationIsTold ==
  [][ /\ "truncated" \in log' /\ "truncated" \notin log
      /\ eventStream /\ ~socketGone
      => /\ wire' # <<>>
         /\ wire'[Len(wire')] \in IF adapted THEN Terminal ELSE {"notice"} ]_vars

(* A caller who goes before the body was ended stops the provider, which   *)
(* would otherwise go on generating, and billing; so does a body cut short *)
(* by the gateway itself.                                                  *)
ProviderIsStopped == socketGone /\ ~ended ~> source # "open"

(* Once the provider has stopped, however it stopped and whatever the      *)
(* stages were doing, the response is settled: the pump is never left      *)
(* waiting for a chunk, a drain or a flush that is not coming.             *)
ResponseSettles == source # "open" ~> Settled

(* A genuine fault is reported to Sentry, by the pump or by pipeToWriter.  *)
(* The comment in pipeToWriter leaves it to the pump whenever the caller   *)
(* has not gone by the time the stage fails.                               *)
FaultsAreReported ==
  (/\ pump = "over"
   /\ \E s \in Stage : stage[s] = "failed" /\ reason[s] = "fault") => captured

(* The delivery keeps the promise of PromisedBody.                         *)
Promise == INSTANCE PromisedBody WITH
  produced <- Len(sent),
  reached <- passed[LastStage],
  source <- CASE source = "open"  -> "open"
              [] source = "ended" -> "complete"
              [] OTHER            -> "broken",
  outcome <- CASE ended -> "whole"
               [] ~ended /\ (destroyed \/ pump \in {"announcing", "over"}) -> "cut"
               [] OTHER -> "open"

KeepsPromise == Promise!Spec
=============================================================================
