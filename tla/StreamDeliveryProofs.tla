------------------------ MODULE StreamDeliveryProofs ------------------------
(***************************************************************************)
(* What holds of StreamDelivery for every number of chunks, every socket   *)
(* buffer and every buffer between the stages.  First: a body framed as    *)
(* whole is whole, an ending is given once, and the promise of PromisedBody*)
(* is kept.  From that invariant: what is filed about a body is true, a    *)
(* truncation is told, no more is held than the buffers are meant to hold, *)
(* and what reaches the caller is a prefix of the stream.                  *)
(***************************************************************************)
EXTENDS StreamDelivery, FiniteSetTheorems, TLAPS

(* Only the provider and the steps of a stage touch the pipe.              *)
LEMMA PipeSteps ==
  ASSUME [Next]_vars
  PROVE  \/ ProviderSends
         \/ \E s \in Stage : StageReads(s) \/ StageFinishes(s) \/ StageInputFails(s)
         \/ HandToAdapter
         \/ WriteCancelled
         \/ PumpReads
         \/ UNCHANGED <<sent, pipeVars>>
<1>1. CASE Gateway
  BY <1>1 DEF Gateway, SendHead, PumpDone, PumpReadFails, PumpReleased, AnnounceEnds
<1>2. CASE Environment
  BY <1>2 DEF Environment, ProviderStops, ResponseErrors, SocketDrains,
              CallerLeaves, ResponseCloses
<1>3. CASE UNCHANGED vars
  BY <1>3 DEF vars
<1>4. QED
  BY <1>1, <1>2, <1>3 DEF Next

(* The chunk a stage is about to read is one the provider sent.            *)
LEMMA NextChunk ==
  ASSUME TypeOK, Pipeline, NEW s \in Stage, taken[s] < Incoming(s)
  PROVE  /\ taken[s] \in Nat
         /\ taken[s] + 1 \in 1 .. Len(sent)
         /\ sent[taken[s] + 1] \in Kind
<1>1. /\ taken[s] \in Nat /\ Len(sent) \in Nat
      /\ taken["transform"] \in Nat /\ passed["transform"] \in Nat
  BY DEF TypeOK, PipeTypeOK, Stage
<1>2. Incoming(s) <= Len(sent)
  BY <1>1 DEF Pipeline, Incoming, Stage
<1>3. taken[s] + 1 \in 1 .. Len(sent)
  BY <1>1, <1>2, SMT DEF Incoming, TypeOK, PipeTypeOK, Stage
<1>4. QED
  BY <1>1, <1>3 DEF TypeOK, PipeTypeOK

(* A step keeps what the stages have read, hold and report in its type.    *)
LEMMA PipeTypeStep ==
  ASSUME TypeOK, Pipeline, [Next]_vars
  PROVE  PipeTypeOK'
<1> USE DEF PipeTypeOK
<1>1. CASE ProviderSends
  BY <1>1 DEF TypeOK, ProviderSends, pipeVars
<1>2. ASSUME NEW s \in Stage, StageReads(s) PROVE PipeTypeOK'
  <2>1. sent[taken[s] + 1] \in Kind /\ taken[s] \in Nat
    BY <1>2, NextChunk DEF StageReads
  <2>2. Makes(s, sent[taken[s] + 1]) \in Frame \cup {None}
    BY <2>1 DEF Makes, Frame
  <2>3. sent' = sent /\ taken' = [taken EXCEPT ![s] = @ + 1]
    BY <1>2 DEF StageReads
  <2>4. taken' \in [Stage -> Nat]
    BY <2>1, <2>3 DEF TypeOK
  <2>5. passed' \in [Stage -> Nat]
    <3>1. passed' = passed \/ passed' = [passed EXCEPT ![s] = taken[s] + 1]
      BY <1>2 DEF StageReads
    <3>2. QED
      BY <2>1, <3>1, SMTT(30) DEF TypeOK
  <2>6. hold' \in [Stage -> Frame \cup {None}]
    BY <1>2, <2>2 DEF TypeOK, StageReads, Fail
  <2>7. stage' \in [Stage -> {"reading", "writing", "flushing", "closed", "failed"}]
    BY <1>2 DEF TypeOK, StageReads, Fail
  <2>8. reason' \in [Stage -> {None, "abort", "cancel", "fault"}]
    BY <1>2 DEF TypeOK, StageReads, Fail
  <2>9. QED
    BY <2>3, <2>4, <2>5, <2>6, <2>7, <2>8 DEF TypeOK
<1>3. ASSUME NEW s \in Stage, StageFinishes(s) PROVE PipeTypeOK'
  BY <1>3 DEF TypeOK, StageFinishes, Frame, Kind
<1>4. ASSUME NEW s \in Stage, StageInputFails(s) PROVE PipeTypeOK'
  <2>1. InputError(s) \in {None, "abort", "cancel", "fault"}
    BY DEF TypeOK, InputError, Stage
  <2>2. QED
    BY <1>4, <2>1 DEF TypeOK, StageInputFails, Fail
<1>5. CASE HandToAdapter
  BY <1>5 DEF TypeOK, HandToAdapter, Stage
<1>6. CASE WriteCancelled
  BY <1>6 DEF TypeOK, WriteCancelled, Fail
<1>7. CASE PumpReads
  <2>1. LastStage \in Stage
    BY DEF LastStage, Stage
  <2>2. taken[LastStage] \in Nat
    BY <2>1 DEF TypeOK
  <2>3. QED
    BY <1>7, <2>1, <2>2 DEF TypeOK, PumpReads
<1>8. CASE UNCHANGED <<sent, pipeVars>>
  BY <1>8 DEF TypeOK, pipeVars
<1>9. QED
  BY <1>1, <1>2, <1>3, <1>4, <1>5, <1>6, <1>7, <1>8, PipeSteps

(* A step keeps the provider's state, the pump's and the log in their type. *)
LEMMA ResponseTypeStep ==
  ASSUME TypeOK, Pipeline, [Next]_vars
  PROVE  ResponseTypeOK'
<1>1. ASSUME NEW how, Settle(how)
      PROVE  /\ pump' \in {"over", "announcing"}
             /\ wire' \in Seq(Token)
             /\ buffered' \in Nat
             /\ log' \in SUBSET {"truncated", "disconnected"}
  <2>1. wire' \in {wire, Append(wire, "notice")} /\ "notice" \in Token
    BY <1>1 DEF Settle, respVars, Token
  <2>2. buffered' \in {buffered, buffered + 1} /\ pump' \in {"over", "announcing"}
    BY <1>1 DEF Settle, respVars
  <2>3. log' \in SUBSET {"truncated", "disconnected"}
    BY <1>1 DEF Settle, File, TypeOK, ResponseTypeOK
  <2>4. QED
    BY <2>1, <2>2, <2>3 DEF TypeOK, ResponseTypeOK
<1>2. CASE PumpReads
  <2>1. LastStage \in Stage
    BY DEF LastStage, Stage
  <2>2. CASE CallerVanished
    BY <1>1, <1>2, <2>2 DEF PumpReads, TypeOK, ResponseTypeOK
  <2>3. CASE ~CallerVanished
    <3>1. wire' = Append(wire, hold[LastStage]) /\ source' = source /\ log' = log
      BY <1>2, <2>3 DEF PumpReads
    <3>2. buffered' \in {buffered, buffered + 1} /\ pump' \in {"parked", "reading"}
      BY <1>2, <2>3 DEF PumpReads
    <3>3. hold[LastStage] \in Token
      BY <1>2, <2>1 DEF PumpReads, TypeOK, PipeTypeOK, Pipeline, Token
    <3>4. QED
      BY <3>1, <3>2, <3>3 DEF TypeOK, ResponseTypeOK
  <2>4. QED
    BY <2>2, <2>3
<1>3. CASE PumpDone
  BY <1>1, <1>3 DEF TypeOK, ResponseTypeOK, PumpDone
<1>4. CASE PumpReadFails
  BY <1>1, <1>4 DEF TypeOK, ResponseTypeOK, PumpReadFails
<1>5. CASE PumpReleased
  BY <1>1, <1>5 DEF TypeOK, ResponseTypeOK, PumpReleased
<1>6. CASE ResponseErrors
  BY <1>1, <1>6 DEF TypeOK, ResponseTypeOK, ResponseErrors
<1>7. ASSUME NEW s \in Stage, StageReads(s) PROVE ResponseTypeOK'
  BY <1>7 DEF TypeOK, ResponseTypeOK, StageReads, respVars
<1>8. ASSUME NEW s \in Stage, StageFinishes(s) PROVE ResponseTypeOK'
  BY <1>8 DEF TypeOK, ResponseTypeOK, StageFinishes, respVars
<1>9. ASSUME NEW s \in Stage, StageInputFails(s) PROVE ResponseTypeOK'
  BY <1>9 DEF TypeOK, ResponseTypeOK, StageInputFails, respVars
<1>10. CASE HandToAdapter
  BY <1>10 DEF TypeOK, ResponseTypeOK, HandToAdapter, respVars
<1>11. CASE WriteCancelled
  BY <1>11 DEF TypeOK, ResponseTypeOK, WriteCancelled, respVars
<1>12. CASE SendHead
  BY <1>12 DEF TypeOK, ResponseTypeOK, SendHead, respVars
<1>13. CASE AnnounceEnds
  BY <1>13 DEF TypeOK, ResponseTypeOK, AnnounceEnds
<1>14. CASE ProviderSends
  BY <1>14 DEF TypeOK, ResponseTypeOK, ProviderSends, respVars
<1>15. CASE ProviderStops
  BY <1>15 DEF TypeOK, ResponseTypeOK, ProviderStops, respVars
<1>16. CASE SocketDrains
  BY <1>16 DEF TypeOK, ResponseTypeOK, SocketDrains
<1>17. CASE CallerLeaves
  BY <1>17 DEF TypeOK, ResponseTypeOK, CallerLeaves
<1>18. CASE ResponseCloses
  BY <1>18 DEF TypeOK, ResponseTypeOK, ResponseCloses, SourceAfterAbort
<1>19. CASE UNCHANGED vars
  BY <1>19 DEF TypeOK, ResponseTypeOK, vars, pipeVars, respVars
<1>20. QED
  BY <1>2, <1>3, <1>4, <1>5, <1>6, <1>7, <1>8, <1>9, <1>10, <1>11, <1>12,
     <1>13, <1>14, <1>15, <1>16, <1>17, <1>18, <1>19
     DEF Next, Gateway, Environment

(* A step keeps every flag a flag.                                         *)
LEMMA FlagTypeStep ==
  ASSUME TypeOK, [Next]_vars
  PROVE  FlagTypeOK'
<1>1. ASSUME NEW how, Settle(how)
      PROVE  /\ completed' \in BOOLEAN
             /\ socketGone' \in BOOLEAN
             /\ destroyed' \in BOOLEAN
             /\ ended' \in BOOLEAN
             /\ captured' \in BOOLEAN
  BY <1>1 DEF TypeOK, FlagTypeOK, Settle, File, respVars
<1>2. CASE PumpReads
  BY <1>1, <1>2 DEF TypeOK, FlagTypeOK, PumpReads
<1>3. CASE PumpDone
  BY <1>1, <1>3 DEF TypeOK, FlagTypeOK, PumpDone, pipeVars
<1>4. CASE PumpReadFails
  BY <1>1, <1>4 DEF TypeOK, FlagTypeOK, PumpReadFails, pipeVars
<1>5. CASE PumpReleased
  BY <1>1, <1>5 DEF TypeOK, FlagTypeOK, PumpReleased, pipeVars
<1>6. CASE ResponseErrors
  BY <1>1, <1>6 DEF TypeOK, FlagTypeOK, ResponseErrors, pipeVars
<1>7. ASSUME NEW s \in Stage, StageReads(s) PROVE FlagTypeOK'
  BY <1>7 DEF TypeOK, FlagTypeOK, StageReads, Fail, respVars
<1>8. ASSUME NEW s \in Stage, StageFinishes(s) PROVE FlagTypeOK'
  BY <1>8 DEF TypeOK, FlagTypeOK, StageFinishes, respVars
<1>9. ASSUME NEW s \in Stage, StageInputFails(s) PROVE FlagTypeOK'
  BY <1>9 DEF TypeOK, FlagTypeOK, StageInputFails, Fail, respVars
<1>10. CASE HandToAdapter
  BY <1>10 DEF TypeOK, FlagTypeOK, HandToAdapter, respVars
<1>11. CASE WriteCancelled
  BY <1>11 DEF TypeOK, FlagTypeOK, WriteCancelled, Fail, respVars
<1>12. CASE SendHead
  BY <1>12 DEF TypeOK, FlagTypeOK, SendHead, pipeVars, respVars
<1>13. CASE AnnounceEnds
  BY <1>13 DEF TypeOK, FlagTypeOK, AnnounceEnds, pipeVars
<1>14. CASE ProviderSends
  BY <1>14 DEF TypeOK, FlagTypeOK, ProviderSends, pipeVars, respVars
<1>15. CASE ProviderStops
  BY <1>15 DEF TypeOK, FlagTypeOK, ProviderStops, pipeVars, respVars
<1>16. CASE SocketDrains
  BY <1>16 DEF TypeOK, FlagTypeOK, SocketDrains, pipeVars
<1>17. CASE CallerLeaves
  BY <1>17 DEF TypeOK, FlagTypeOK, CallerLeaves, pipeVars
<1>18. CASE ResponseCloses
  BY <1>18 DEF TypeOK, FlagTypeOK, ResponseCloses, pipeVars
<1>19. CASE UNCHANGED vars
  BY <1>19 DEF TypeOK, FlagTypeOK, vars, pipeVars, respVars
<1>20. QED
  BY <1>2, <1>3, <1>4, <1>5, <1>6, <1>7, <1>8, <1>9, <1>10, <1>11, <1>12,
     <1>13, <1>14, <1>15, <1>16, <1>17, <1>18, <1>19
     DEF Next, Gateway, Environment

(* Every step keeps the account of read, handed over and held chunks.      *)
LEMMA PipelineStep ==
  ASSUME TypeOK, Pipeline, [Next]_vars
  PROVE  Pipeline'
<1> USE DEF Pipeline, Stage
<1>1. PipeTypeOK
  BY DEF TypeOK
<1>2. CASE ProviderSends
  <2>1. Len(sent') = Len(sent) + 1 /\ Len(sent) \in Nat
    BY <1>1, <1>2 DEF ProviderSends, PipeTypeOK
  <2>2. QED
    BY <1>1, <1>2, <2>1 DEF ProviderSends, pipeVars, PipeTypeOK
<1>3. ASSUME NEW s \in Stage, StageReads(s) PROVE Pipeline'
  <2> DEFINE k == sent[taken[s] + 1]
  <2>1. /\ sent' = sent /\ taken' = [taken EXCEPT ![s] = @ + 1]
        /\ taken[s] < Incoming(s) /\ stage[s] = "reading"
    BY <1>3 DEF StageReads
  <2>2. Makes(s, k) \in Frame \cup {None}
    BY <1>3, NextChunk DEF StageReads, Makes, Frame
  <2>3. \/ /\ stage' = [stage EXCEPT ![s] = "failed"]
           /\ hold' = [hold EXCEPT ![s] = None]
           /\ passed' = passed
        \/ /\ passed' = [passed EXCEPT ![s] = taken[s] + 1]
           /\ hold' = hold /\ stage' = stage
        \/ /\ Makes(s, k) # None
           /\ hold' = [hold EXCEPT ![s] = Makes(s, k)]
           /\ stage' = [stage EXCEPT ![s] = "writing"]
           /\ passed' = passed
    BY <1>3 DEF StageReads, Fail
  <2>4. QED
    BY <1>1, <2>1, <2>2, <2>3, SMTT(60) DEF PipeTypeOK, Incoming
<1>4. ASSUME NEW s \in Stage, StageFinishes(s) PROVE Pipeline'
  BY <1>1, <1>4, SMTT(30) DEF StageFinishes, PipeTypeOK, None
<1>5. ASSUME NEW s \in Stage, StageInputFails(s) PROVE Pipeline'
  BY <1>1, <1>5, SMTT(30) DEF StageInputFails, Fail, PipeTypeOK
<1>6. CASE HandToAdapter
  BY <1>1, <1>6, SMTT(30) DEF HandToAdapter, PipeTypeOK
<1>7. CASE WriteCancelled
  BY <1>1, <1>7, SMTT(30) DEF WriteCancelled, Fail, LastStage, PipeTypeOK
<1>8. CASE PumpReads
  <2>1. /\ stage[LastStage] \in {"writing", "flushing"}
        /\ stage' = [stage EXCEPT ![LastStage] = IF @ = "writing" THEN "reading" ELSE "closed"]
        /\ hold' = [hold EXCEPT ![LastStage] = None]
        /\ passed' = [passed EXCEPT ![LastStage] = taken[LastStage]]
        /\ sent' = sent /\ taken' = taken
    BY <1>8 DEF PumpReads
  <2>2. QED
    BY <1>1, <2>1, SMTT(30) DEF LastStage, PipeTypeOK
<1>9. CASE UNCHANGED <<sent, pipeVars>>
  BY <1>9 DEF pipeVars
<1>10. QED
  BY <1>2, <1>3, <1>4, <1>5, <1>6, <1>7, <1>8, <1>9, PipeSteps

(* What the pump's exit does to the body, whichever way it came out.       *)
LEMMA SettleSteps ==
  ASSUME NEW how, Settle(how)
  PROVE  /\ pump' \in {"over", "announcing"}
         /\ \/ wire' = wire /\ completed' = completed
            \/ /\ wire' = Append(wire, "notice") /\ pump' = "announcing"
               /\ how # "done" /\ HasNotice /\ ~destroyed
               /\ completed' = IF adapted THEN TRUE ELSE completed
         /\ \/ ended' = ended
            \/ ended' = TRUE /\ pump' = "over" /\ ~destroyed
         /\ \/ destroyed' = destroyed
            \/ destroyed' = TRUE /\ how # "done" /\ pump' = "over"
BY DEF Settle, respVars

(* A pump that was cut short does not end the response.                    *)
LEMMA CutSteps ==
  ASSUME Settle("hangup") \/ Settle("failure")
  PROVE  /\ ended' = ended
         /\ \/ wire' = wire /\ completed' = completed
            \/ /\ wire' = Append(wire, "notice") /\ pump' = "announcing"
               /\ adapted => ~completed /\ completed'
         /\ pump' \in {"over", "announcing"}
BY DEF Settle, HasNotice, respVars

(* Every step keeps the order in which the stages and the response close.  *)
LEMMA OrderStep ==
  ASSUME TypeOK, Pipeline, ClosesInOrder, [Next]_vars
  PROVE  ClosesInOrder'
<1> USE DEF ClosesInOrder, Stage
<1>1. PipeTypeOK /\ wire \in Seq(Token) /\ Len(sent) \in Nat
  BY DEF TypeOK, PipeTypeOK, ResponseTypeOK
<1>2. CASE ProviderSends
  BY <1>1, <1>2 DEF ProviderSends, pipeVars, respVars, LastStage
<1>3. CASE ProviderStops
  BY <1>1, <1>3 DEF ProviderStops, pipeVars, respVars, LastStage
<1>4. ASSUME NEW s \in Stage, StageReads(s) PROVE ClosesInOrder'
  <2>1. /\ sent' = sent /\ source' = source /\ pump' = pump
        /\ wire' = wire /\ ended' = ended /\ adapted' = adapted
    BY <1>4 DEF StageReads, respVars
  <2>2. /\ taken' = [taken EXCEPT ![s] = @ + 1]
        /\ taken[s] < Incoming(s) /\ stage[s] = "reading"
    BY <1>4 DEF StageReads
  <2>3. \/ /\ stage' = [stage EXCEPT ![s] = "failed"]
           /\ passed' = passed
        \/ /\ passed' = [passed EXCEPT ![s] = taken[s] + 1]
           /\ stage' = stage
        \/ /\ stage' = [stage EXCEPT ![s] = "writing"]
           /\ passed' = passed
    BY <1>4 DEF StageReads, Fail
  <2>4. QED
    BY <1>1, <2>1, <2>2, <2>3, SMTT(60) DEF PipeTypeOK, Incoming, LastStage, Pipeline
<1>5. ASSUME NEW s \in Stage, StageFinishes(s) PROVE ClosesInOrder'
  <2>1. /\ sent' = sent /\ source' = source /\ pump' = pump /\ taken' = taken
        /\ wire' = wire /\ ended' = ended /\ adapted' = adapted /\ passed' = passed
    BY <1>5 DEF StageFinishes, respVars
  <2>2. /\ stage[s] = "reading" /\ taken[s] = Incoming(s) /\ InputClosed(s)
        /\ \/ stage' = [stage EXCEPT ![s] = "closed"]
           \/ s = "adapter" /\ stage' = [stage EXCEPT ![s] = "flushing"]
    BY <1>5 DEF StageFinishes
  <2>3. QED
    BY <1>1, <2>1, <2>2, SMTT(30) DEF PipeTypeOK, Incoming, InputClosed, LastStage
<1>6. ASSUME NEW s \in Stage, Fail(s, InputError(s)), StageInputFails(s) PROVE ClosesInOrder'
  <2>1. /\ sent' = sent /\ source' = source /\ pump' = pump /\ taken' = taken
        /\ wire' = wire /\ ended' = ended /\ adapted' = adapted /\ passed' = passed
    BY <1>6 DEF StageInputFails, respVars
  <2>2. stage[s] = "reading" /\ stage' = [stage EXCEPT ![s] = "failed"]
    BY <1>6 DEF StageInputFails, Fail
  <2>3. InputError(s) # None
    BY <1>6 DEF StageInputFails
  <2>4. s = "transform" => source # "ended"
    BY <2>3 DEF InputError
  <2>5. s = "adapter" => stage["transform"] # "closed"
    BY <2>3 DEF InputError
  <2>6. QED
    BY <1>1, <2>1, <2>2, <2>4, <2>5, SMTT(30) DEF PipeTypeOK, LastStage
<1>7. CASE HandToAdapter
  BY <1>1, <1>7, SMTT(30) DEF HandToAdapter, PipeTypeOK, respVars, LastStage
<1>8. CASE WriteCancelled
  <2>1. /\ sent' = sent /\ source' = source /\ pump' = pump /\ taken' = taken
        /\ wire' = wire /\ ended' = ended /\ adapted' = adapted /\ passed' = passed
    BY <1>8 DEF WriteCancelled, respVars
  <2>2. /\ stage[LastStage] \in {"writing", "flushing"}
        /\ stage' = [stage EXCEPT ![LastStage] = "failed"]
    BY <1>8 DEF WriteCancelled, Fail
  <2>3. QED
    BY <1>1, <2>1, <2>2, SMTT(30) DEF PipeTypeOK, LastStage
<1>9. CASE SendHead
  BY <1>9 DEF SendHead, pipeVars, respVars, LastStage
<1>10. CASE PumpReads
  <2>1. /\ stage[LastStage] \in {"writing", "flushing"}
        /\ stage' = [stage EXCEPT ![LastStage] = IF @ = "writing" THEN "reading" ELSE "closed"]
        /\ hold[LastStage] \in Frame
        /\ passed' = [passed EXCEPT ![LastStage] = taken[LastStage]]
        /\ sent' = sent /\ taken' = taken /\ source' = source /\ adapted' = adapted
        /\ pump = "reading"
    BY <1>1, <1>10 DEF PumpReads, Pipeline, PipeTypeOK, LastStage
  <2>2. ~ended /\ ~ended' /\ (wire' = wire \/ wire' = Append(wire, hold[LastStage])
                             \/ pump' = "announcing")
    <3>1. CASE CallerVanished
      <4>1. Settle("hangup")
        BY <1>10, <3>1 DEF PumpReads
      <4>2. QED
        BY <2>1, <4>1, CutSteps
    <3>2. CASE ~CallerVanished
      BY <1>10, <2>1, <3>2 DEF PumpReads
    <3>3. QED
      BY <3>1, <3>2
  <2>3. hold[LastStage] # "notice"
    BY <2>1 DEF Frame, Kind
  <2>4. pump' \in {"head", "reading", "parked"} => \A i \in DOMAIN wire' : wire'[i] # "notice"
    <3>1. CASE wire' = wire \/ pump' = "announcing"
      BY <2>1, <3>1
    <3>2. CASE wire' = Append(wire, hold[LastStage])
      BY <1>1, <2>1, <2>3, <3>2
    <3>3. QED
      BY <2>2, <3>1, <3>2
  <2>5. QED
    BY <1>1, <2>1, <2>2, <2>4, SMTT(30) DEF PipeTypeOK, LastStage
<1>11. CASE PumpDone
  BY <1>11, SettleSteps DEF PumpDone, pipeVars, LastStage
<1>12. CASE PumpReadFails \/ PumpReleased \/ ResponseErrors
  <2>1. /\ sent' = sent /\ source' = source /\ taken' = taken /\ adapted' = adapted
        /\ stage' = stage /\ passed' = passed /\ pump \in {"reading", "parked"}
    BY <1>12 DEF PumpReadFails, PumpReleased, ResponseErrors, pipeVars
  <2>2. Settle("hangup") \/ Settle("failure")
    BY <1>12 DEF PumpReadFails, PumpReleased, ResponseErrors
  <2>3. ~ended /\ ~ended' /\ pump' \in {"over", "announcing"}
    BY <2>1, <2>2, CutSteps
  <2>4. QED
    BY <2>1, <2>3 DEF LastStage
<1>13. CASE AnnounceEnds
  BY <1>13 DEF AnnounceEnds, pipeVars, LastStage
<1>14. CASE SocketDrains
  BY <1>14 DEF SocketDrains, pipeVars, LastStage
<1>15. CASE CallerLeaves
  BY <1>15 DEF CallerLeaves, pipeVars, LastStage
<1>16. CASE ResponseCloses
  <2>1. stage["transform"] = "closed" => source' = "ended"
    BY <1>1, <1>16, SMT DEF ResponseCloses, SourceAfterAbort, PipeTypeOK
  <2>2. QED
    BY <1>16, <2>1 DEF ResponseCloses, pipeVars, LastStage
<1>17. CASE UNCHANGED vars
  BY <1>17 DEF vars, pipeVars, respVars, LastStage
<1>18. QED
  BY <1>2, <1>3, <1>4, <1>5, <1>6, <1>7, <1>8, <1>9, <1>10, <1>11, <1>12,
     <1>13, <1>14, <1>15, <1>16, <1>17
     DEF Next, Gateway, Environment, StageInputFails

(* Every step keeps the endings where they are given.                      *)
LEMMA EndingsStep ==
  ASSUME TypeOK, Pipeline, ClosesInOrder, EndingsKept, [Next]_vars
  PROVE  EndingsKept'
<1> SUFFICES ASSUME adapted' PROVE EndingsKept'
  BY DEF EndingsKept
<1>1. adapted /\ LastStage = "adapter"
  <2>1. adapted' = adapted
    BY DEF Next, Gateway, Environment, ProviderSends, ProviderStops, StageReads,
           StageFinishes, StageInputFails, HandToAdapter, WriteCancelled, SendHead,
           PumpReads, PumpDone, PumpReadFails, PumpReleased, ResponseErrors,
           AnnounceEnds, SocketDrains, CallerLeaves, ResponseCloses, vars
  <2>2. QED
    BY <2>1 DEF LastStage
<1>2. /\ hold \in [Stage -> Frame \cup {None}]
      /\ stage \in [Stage -> {"reading", "writing", "flushing", "closed", "failed"}]
      /\ wire \in Seq(Token)
  BY DEF TypeOK, PipeTypeOK, ResponseTypeOK
<1> USE <1>1 DEF EndingsKept, Stage
<1>3. ASSUME UNCHANGED <<hold, stage, started, completed, wire, ended>>,
             pump' \in {"head", "reading", "parked"} => pump \in {"head", "reading", "parked"}
      PROVE  EndingsKept'
  BY <1>3
<1>4. CASE ProviderSends
  BY <1>3, <1>4 DEF ProviderSends, pipeVars, respVars
<1>5. CASE ProviderStops
  BY <1>3, <1>5 DEF ProviderStops, pipeVars, respVars
<1>6. CASE SendHead
  BY <1>3, <1>6 DEF SendHead, pipeVars, respVars
<1>7. CASE AnnounceEnds
  BY <1>3, <1>7 DEF AnnounceEnds, pipeVars
<1>8. CASE SocketDrains
  BY <1>3, <1>8 DEF SocketDrains, pipeVars
<1>9. CASE CallerLeaves
  BY <1>3, <1>9 DEF CallerLeaves, pipeVars
<1>10. CASE ResponseCloses
  BY <1>3, <1>10 DEF ResponseCloses, pipeVars
<1>11. CASE UNCHANGED vars
  BY <1>3, <1>11 DEF vars, pipeVars, respVars
<1>12. ASSUME UNCHANGED <<started, completed, wire, ended, pump>>,
              UNCHANGED <<hold["adapter"], stage["adapter"]>>
       PROVE  EndingsKept'
  BY <1>12
<1>13. CASE StageReads("transform")
  BY <1>2, <1>12, <1>13 DEF StageReads, Fail, respVars
<1>14. CASE StageFinishes("transform")
  BY <1>2, <1>12, <1>14 DEF StageFinishes, respVars
<1>15. CASE StageInputFails("transform")
  BY <1>2, <1>12, <1>15 DEF StageInputFails, Fail, respVars
<1>16. CASE HandToAdapter
  BY <1>2, <1>12, <1>16 DEF HandToAdapter, respVars
<1>17. CASE StageReads("adapter")
  <2> DEFINE k == sent[taken["adapter"] + 1]
  <2>1. /\ wire' = wire /\ ended' = ended /\ pump' = pump
        /\ stage["adapter"] = "reading" /\ k \in Kind
    BY <1>17, NextChunk DEF StageReads, respVars
  <2>2. hold["adapter"] = None /\ ~ended
    BY <2>1 DEF Pipeline, ClosesInOrder
  <2>3. CASE /\ hold' = [hold EXCEPT !["adapter"] = None]
             /\ stage' = [stage EXCEPT !["adapter"] = "failed"]
             /\ UNCHANGED <<started, completed>>
    BY <1>2, <2>1, <2>2, <2>3 DEF None, Terminal
  <2>4. CASE UNCHANGED <<hold, stage, started, completed>>
    BY <1>3, <2>1, <2>4
  <2>5. CASE /\ Makes("adapter", k) # None
             /\ hold' = [hold EXCEPT !["adapter"] = Makes("adapter", k)]
             /\ stage' = [stage EXCEPT !["adapter"] = "writing"]
             /\ completed' = IF k \in {"error", "done"} THEN TRUE ELSE completed
    <3>1. ~completed /\ Makes("adapter", k) = k /\ k # None
      BY <2>1, <2>5 DEF Makes, Kind, None
    <3>2. \A i \in DOMAIN wire : wire[i] \notin Terminal
      BY <3>1
    <3>3. k \in Terminal <=> completed'
      BY <2>1, <2>5, <3>1 DEF Terminal, Kind
    <3>4. hold'["adapter"] = k /\ stage'["adapter"] = "writing"
      BY <1>2, <2>5, <3>1
    <3>5. QED
      BY <2>1, <2>2, <3>1, <3>2, <3>3, <3>4
  <2>6. QED
    BY <1>17, <2>3, <2>4, <2>5 DEF StageReads, Fail
<1>18. CASE StageFinishes("adapter")
  <2>1. /\ wire' = wire /\ ended' = ended /\ pump' = pump /\ started' = started
        /\ stage["adapter"] = "reading"
    BY <1>18 DEF StageFinishes, respVars
  <2>2. hold["adapter"] = None /\ ~ended
    BY <2>1 DEF Pipeline, ClosesInOrder
  <2>3. CASE Makes("adapter", "done") # None
    <3>1. ~completed
      BY <2>3 DEF Makes
    <3>2. completed' /\ hold'["adapter"] = "done" /\ stage'["adapter"] = "flushing"
      BY <1>2, <1>18, <2>3 DEF StageFinishes
    <3>3. QED
      BY <2>1, <2>2, <3>1, <3>2 DEF Terminal
  <2>4. CASE Makes("adapter", "done") = None
    <3>1. completed \/ ~started
      BY <2>4 DEF Makes, None
    <3>2. completed' = completed /\ hold' = hold /\ stage'["adapter"] = "closed"
      BY <1>2, <1>18, <2>4 DEF StageFinishes
    <3>3. QED
      BY <2>1, <2>2, <3>1, <3>2
  <2>5. QED
    BY <2>3, <2>4
<1>19. CASE StageInputFails("adapter")
  <2>1. /\ wire' = wire /\ ended' = ended /\ pump' = pump
        /\ started' = started /\ completed' = completed
        /\ stage["adapter"] = "reading"
        /\ hold'["adapter"] = None /\ stage'["adapter"] = "failed"
    BY <1>2, <1>19 DEF StageInputFails, Fail, respVars
  <2>2. hold["adapter"] = None /\ ~ended
    BY <2>1 DEF Pipeline, ClosesInOrder
  <2>3. QED
    BY <2>1, <2>2
<1>20. CASE WriteCancelled
  <2>1. /\ wire' = wire /\ ended' = ended /\ pump' = pump
        /\ started' = started /\ completed' = completed
        /\ pump \in {"announcing", "over"}
        /\ hold'["adapter"] = None /\ stage'["adapter"] = "failed"
    BY <1>2, <1>20 DEF WriteCancelled, Fail, respVars
  <2>2. QED
    BY <2>1 DEF None, Terminal
<1>21. CASE PumpReads
  <2>1. /\ stage["adapter"] \in {"writing", "flushing"} /\ hold["adapter"] # None
        /\ stage'["adapter"] = IF stage["adapter"] = "writing" THEN "reading" ELSE "closed"
        /\ hold'["adapter"] = None
        /\ started' = started /\ pump = "reading"
    BY <1>2, <1>21 DEF PumpReads, Pipeline
  <2>2. ~ended /\ \A i \in DOMAIN wire : wire[i] \notin Terminal
    BY <2>1 DEF ClosesInOrder
  <2>3. CASE CallerVanished
    <3>1. wire' = wire /\ ended' = ended /\ completed' = completed /\ pump' = "over"
      BY <1>21, <2>3 DEF PumpReads, CallerVanished, Settle, respVars
    <3>2. QED
      BY <2>1, <2>2, <3>1 DEF None, Terminal
  <2>4. CASE ~CallerVanished
    <3>1. wire' = Append(wire, hold["adapter"]) /\ ended' = ended /\ completed' = completed
      BY <1>21, <2>4 DEF PumpReads
    <3>2. /\ Len(wire') = Len(wire) + 1 /\ wire'[Len(wire')] = hold["adapter"]
          /\ \A i \in DOMAIN wire' : i = Len(wire') \/ wire'[i] \notin Terminal
          /\ wire' # <<>>
      BY <1>2, <2>2, <3>1
    <3>3. QED
      BY <2>1, <2>2, <3>1, <3>2 DEF None, Terminal
  <2>5. QED
    BY <2>3, <2>4
<1>22. CASE PumpDone
  <2>1. /\ hold' = hold /\ stage' = stage /\ started' = started /\ pump = "reading"
        /\ stage["adapter"] = "closed" /\ wire' = wire /\ completed' = completed
        /\ pump' = "over"
    BY <1>22 DEF PumpDone, Settle, pipeVars, respVars
  <2>2. hold["adapter"] = None
    BY <2>1 DEF Pipeline
  <2>3. QED
    BY <2>1, <2>2
<1>23. CASE PumpReadFails \/ PumpReleased \/ ResponseErrors
  <2>1. /\ hold' = hold /\ stage' = stage /\ started' = started
        /\ pump \in {"reading", "parked"}
    BY <1>23 DEF PumpReadFails, PumpReleased, ResponseErrors, pipeVars
  <2>2. /\ ~ended /\ ended' = ended /\ pump' \in {"over", "announcing"}
        /\ \/ wire' = wire /\ completed' = completed
           \/ wire' = Append(wire, "notice") /\ ~completed /\ completed'
    <3>1. Settle("hangup") \/ Settle("failure")
      BY <1>23 DEF PumpReadFails, PumpReleased, ResponseErrors
    <3>2. QED
      BY <2>1, <3>1, CutSteps DEF ClosesInOrder
  <2>3. CASE wire' = wire /\ completed' = completed
    BY <2>1, <2>2, <2>3
  <2>4. CASE wire' = Append(wire, "notice") /\ ~completed /\ completed'
    <3>1. \A i \in DOMAIN wire' : i = Len(wire') \/ wire'[i] \notin Terminal
      BY <1>2, <2>4
    <3>2. QED
      BY <2>1, <2>2, <2>4, <3>1
  <2>5. QED
    BY <2>2, <2>3, <2>4
<1>24. QED
  BY <1>4, <1>5, <1>6, <1>7, <1>8, <1>9, <1>10, <1>11, <1>13, <1>14, <1>15,
     <1>16, <1>17, <1>18, <1>19, <1>20, <1>21, <1>22, <1>23
     DEF Next, Gateway, Environment

-----------------------------------------------------------------------------
(* Together the parts are inductive: none of them is on its own, because   *)
(* the type of what is read, the order of closing and the place of an      *)
(* ending each rest on the account of the pipe.                            *)
Inv == TypeOK /\ Pipeline /\ ClosesInOrder /\ EndingsKept

(* Every reachable state satisfies the inductive invariant.                *)
THEOREM InvCorrect == Spec => []Inv
<1>1. Init => Inv
  <2> SUFFICES ASSUME Init PROVE Inv
    OBVIOUS
  <2>1. PipeTypeOK
    BY DEF Init, PipeTypeOK
  <2>2. ResponseTypeOK
    BY DEF Init, ResponseTypeOK
  <2>3. FlagTypeOK
    BY DEF Init, FlagTypeOK
  <2>4. Pipeline
    BY DEF Init, Pipeline, Stage
  <2>5. ClosesInOrder
    BY DEF Init, ClosesInOrder, Stage
  <2>6. EndingsKept
    BY DEF Init, EndingsKept, Stage, Terminal, None
  <2>7. QED
    BY <2>1, <2>2, <2>3, <2>4, <2>5, <2>6 DEF Inv, TypeOK
<1>2. Inv /\ [Next]_vars => Inv'
  BY PipeTypeStep, ResponseTypeStep, FlagTypeStep, PipelineStep, OrderStep, EndingsStep
     DEF Inv, TypeOK
<1>3. QED
  BY <1>1, <1>2, PTL DEF Spec

(* Every variable of the delivery keeps its type.                          *)
THEOREM TypeCorrect == Spec => []TypeOK
<1>1. Inv => TypeOK
  BY DEF Inv
<1>2. QED
  BY <1>1, InvCorrect, PTL

(* Whatever the provider, the transforms, the socket and the caller do, a  *)
(* body that is ended came whole from a provider that ended cleanly, went  *)
(* whole through every stage, and carries no truncation notice.            *)
THEOREM WholeIsWhole == Spec => []WholeMeansWhole
<1>1. Inv => WholeMeansWhole
  BY SMTT(30) DEF Inv, TypeOK, PipeTypeOK, Pipeline, ClosesInOrder, WholeMeansWhole, LastStage, Stage
<1>2. QED
  BY <1>1, InvCorrect, PTL

(* An adapted body never carries two endings, nor anything after one, and  *)
(* one that was started and ended whole carries its ending.                *)
THEOREM EndingIsGivenOnce == Spec => []OneEnding
<1>1. Inv => OneEnding
  BY DEF Inv, EndingsKept, OneEnding
<1>2. QED
  BY <1>1, InvCorrect, PTL

(* No step writes to a response that has been ended or destroyed.          *)
THEOREM NothingIsWrittenAfterTheEnd == Spec => NothingAfterTheEnd
<1>1. Inv /\ [Next]_vars => [ended \/ destroyed => UNCHANGED wire]_vars
  <2> SUFFICES ASSUME Inv, Next, ended \/ destroyed PROVE wire' = wire
    BY DEF vars
  <2>1. ended => pump = "over"
    BY DEF Inv, ClosesInOrder
  <2>2. CASE PumpReads
    <3>1. destroyed
      BY <2>1, <2>2 DEF PumpReads
    <3>2. QED
      BY <2>2, <3>1 DEF PumpReads, CallerVanished, Settle, respVars
  <2>3. CASE PumpDone \/ PumpReadFails \/ PumpReleased \/ ResponseErrors
    <3>1. destroyed
      BY <2>1, <2>3 DEF PumpDone, PumpReadFails, PumpReleased, ResponseErrors
    <3>2. \E how \in {"done", "hangup", "failure"} : Settle(how)
      BY <2>3 DEF PumpDone, PumpReadFails, PumpReleased, ResponseErrors
    <3>3. QED
      BY <3>1, <3>2 DEF Settle, respVars
  <2>4. CASE \E s \in Stage : StageReads(s) \/ StageFinishes(s) \/ StageInputFails(s)
    BY <2>4 DEF StageReads, StageFinishes, StageInputFails, respVars
  <2>5. CASE HandToAdapter \/ WriteCancelled \/ SendHead \/ AnnounceEnds
    BY <2>5 DEF HandToAdapter, WriteCancelled, SendHead, AnnounceEnds, respVars
  <2>6. CASE ProviderSends \/ ProviderStops \/ SocketDrains \/ CallerLeaves \/ ResponseCloses
    BY <2>6 DEF ProviderSends, ProviderStops, SocketDrains, CallerLeaves, ResponseCloses, respVars
  <2>7. QED
    BY <2>2, <2>3, <2>4, <2>5, <2>6 DEF Next, Gateway, Environment
<1>2. QED
  BY <1>1, InvCorrect, PTL DEF Spec, NothingAfterTheEnd

-----------------------------------------------------------------------------
(* A step that leaves the provider, the last stage's account and the       *)
(* response as they are is none of the promise's business.                 *)
LEMMA Stutters ==
  ASSUME UNCHANGED <<sent, passed[LastStage], source, ended, destroyed>>,
         pump' \in {"announcing", "over"} <=> pump \in {"announcing", "over"}
  PROVE  UNCHANGED Promise!vars
BY DEF Promise!vars

(* Every step of the delivery is a step of the promise, or none at all.    *)
LEMMA PromiseStep ==
  ASSUME Inv, [Next]_vars
  PROVE  [Promise!Next]_(Promise!vars)
<1>1. PipeTypeOK /\ Pipeline /\ ClosesInOrder /\ FlagTypeOK /\ ResponseTypeOK
  BY DEF Inv, TypeOK
<1>2. LastStage \in Stage /\ Len(sent) \in Nat
  BY <1>1 DEF LastStage, Stage, PipeTypeOK
<1>3. CASE ProviderSends
  <2>1. Len(sent') = Len(sent) + 1 /\ source = "open"
    BY <1>1, <1>3 DEF ProviderSends, PipeTypeOK
  <2>2. UNCHANGED <<passed, adapted, source, ended, destroyed, pump>>
    BY <1>3 DEF ProviderSends, pipeVars, respVars
  <2>3. Promise!Produce
    BY <2>1, <2>2 DEF Promise!Produce, LastStage
  <2>4. QED
    BY <2>3 DEF Promise!Next
<1>4. CASE ProviderStops
  <2>1. source = "open" /\ source' \in {"ended", "failed"}
    BY <1>4 DEF ProviderStops
  <2>2. UNCHANGED <<sent, passed, adapted, ended, destroyed, pump>>
    BY <1>4 DEF ProviderStops, pipeVars, respVars
  <2>3. Promise!SourceStops
    BY <2>1, <2>2 DEF Promise!SourceStops, LastStage
  <2>4. QED
    BY <2>3 DEF Promise!Next
<1>5. ASSUME NEW s \in Stage, StageReads(s) PROVE [Promise!Next]_(Promise!vars)
  <2>1. /\ UNCHANGED <<sent, adapted, source, ended, destroyed, pump>>
        /\ taken[s] < Incoming(s) /\ stage[s] = "reading"
        /\ passed' = passed \/ passed' = [passed EXCEPT ![s] = taken[s] + 1]
    BY <1>5 DEF StageReads, respVars
  <2>2. CASE passed'[LastStage] = passed[LastStage]
    BY <2>1, <2>2, Stutters DEF LastStage
  <2>3. CASE s = LastStage /\ passed' = [passed EXCEPT ![s] = taken[s] + 1]
    <3>1. passed'[LastStage] = passed[LastStage] + 1
      BY <1>1, <1>2, <2>1, <2>3 DEF Pipeline, PipeTypeOK
    <3>2. passed[LastStage] < Len(sent)
      BY <1>1, <1>2, <2>1, <2>3, SMTT(30) DEF Pipeline, PipeTypeOK, Incoming, Stage
    <3>3. Promise!Advance
      BY <2>1, <3>1, <3>2 DEF Promise!Advance, LastStage
    <3>4. QED
      BY <3>3 DEF Promise!Next
  <2>4. QED
    BY <1>1, <1>2, <2>1, <2>2, <2>3 DEF PipeTypeOK
<1>6. ASSUME NEW s \in Stage, StageFinishes(s) PROVE [Promise!Next]_(Promise!vars)
  BY <1>6, Stutters DEF StageFinishes, respVars, LastStage
<1>7. ASSUME NEW s \in Stage, StageInputFails(s) PROVE [Promise!Next]_(Promise!vars)
  BY <1>7, Stutters DEF StageInputFails, respVars, LastStage
<1>8. CASE HandToAdapter
  <2>1. passed'[LastStage'] = passed[LastStage]
    BY <1>1, <1>8 DEF HandToAdapter, PipeTypeOK, Stage, LastStage
  <2>2. QED
    BY <1>8, <2>1, Stutters DEF HandToAdapter, respVars
<1>9. CASE WriteCancelled
  BY <1>9, Stutters DEF WriteCancelled, respVars, LastStage
<1>10. CASE SendHead
  BY <1>10, Stutters DEF SendHead, pipeVars, respVars, LastStage
<1>11. CASE AnnounceEnds
  <2>1. ~ended /\ ~ended'
    BY <1>1, <1>11 DEF AnnounceEnds, ClosesInOrder
  <2>2. UNCHANGED <<sent, passed, adapted, source>> /\ pump = "announcing" /\ pump' = "over"
    BY <1>11 DEF AnnounceEnds, pipeVars
  <2>3. UNCHANGED Promise!vars
    BY <2>1, <2>2 DEF Promise!vars, LastStage
  <2>4. QED
    BY <2>3
<1>12. CASE SocketDrains
  BY <1>12, Stutters DEF SocketDrains, pipeVars, LastStage
<1>13. CASE CallerLeaves
  BY <1>13, Stutters DEF CallerLeaves, pipeVars, LastStage
<1>14. CASE PumpReads
  <2>1. /\ UNCHANGED <<sent, adapted, source, ended, destroyed>> /\ ~ended
        /\ stage[LastStage] \in {"writing", "flushing"} /\ pump = "reading"
        /\ passed' = [passed EXCEPT ![LastStage] = taken[LastStage]]
        /\ destroyed \/ pump' \in {"parked", "reading"}
    BY <1>1, <1>14 DEF PumpReads, CallerVanished, Settle, respVars, ClosesInOrder
  <2>2. UNCHANGED CASE ended -> "whole"
                    [] ~ended /\ (destroyed \/ pump \in {"announcing", "over"}) -> "cut"
                    [] OTHER -> "open"
    BY <2>1
  <2>3. CASE stage[LastStage] = "flushing"
    <3>1. passed' = passed
      BY <1>1, <1>2, <2>1, <2>3 DEF Pipeline, PipeTypeOK
    <3>2. QED
      BY <2>1, <2>2, <3>1 DEF Promise!vars, LastStage
  <2>4. CASE stage[LastStage] = "writing"
    <3>1. passed'[LastStage] = passed[LastStage] + 1
      BY <1>1, <1>2, <2>1, <2>4 DEF Pipeline, PipeTypeOK
    <3>2. passed[LastStage] < Len(sent)
      BY <1>1, <1>2, <2>4, SMTT(30) DEF Pipeline, PipeTypeOK, Stage
    <3>3. Promise!Advance
      BY <2>1, <2>2, <3>1, <3>2 DEF Promise!Advance, LastStage
    <3>4. QED
      BY <3>3 DEF Promise!Next
  <2>5. QED
    BY <2>1, <2>3, <2>4
<1>15. CASE PumpDone
  <2>1. UNCHANGED <<sent, passed, adapted, source>> /\ pump = "reading"
        /\ stage[LastStage] = "closed" /\ ~ended
    BY <1>1, <1>15 DEF PumpDone, pipeVars, ClosesInOrder
  <2>2. CASE destroyed
    <3>1. UNCHANGED <<ended, destroyed>>
      BY <1>15, <2>2 DEF PumpDone, Settle, respVars
    <3>2. QED
      BY <2>1, <2>2, <3>1 DEF Promise!vars, LastStage
  <2>3. CASE ~destroyed
    <3>1. ended'
      BY <1>15, <2>3 DEF PumpDone, Settle
    <3>2. source = "ended" /\ passed[LastStage] = Len(sent)
      BY <1>1, <2>1, SMTT(30) DEF ClosesInOrder, Pipeline, PipeTypeOK, LastStage, Stage
    <3>3. Promise!CloseWhole
      BY <2>1, <2>3, <3>1, <3>2 DEF Promise!CloseWhole, LastStage
    <3>4. QED
      BY <3>3 DEF Promise!Next
  <2>4. QED
    BY <2>2, <2>3
<1>16. CASE PumpReadFails \/ PumpReleased \/ ResponseErrors
  <2>1. UNCHANGED <<sent, passed, adapted, source>> /\ pump \in {"reading", "parked"}
    BY <1>16 DEF PumpReadFails, PumpReleased, ResponseErrors, pipeVars
  <2>2. ~ended /\ ended' = ended /\ pump' \in {"announcing", "over"}
    <3>1. Settle("hangup") \/ Settle("failure")
      BY <1>16 DEF PumpReadFails, PumpReleased, ResponseErrors
    <3>2. QED
      BY <1>1, <2>1, <3>1, CutSteps DEF ClosesInOrder
  <2>3. CASE destroyed
    BY <2>1, <2>2, <2>3 DEF Promise!vars, LastStage
  <2>4. CASE ~destroyed
    <3>1. Promise!CutShort
      BY <2>1, <2>2, <2>4 DEF Promise!CutShort, LastStage
    <3>2. QED
      BY <3>1 DEF Promise!Next
  <2>5. QED
    BY <2>3, <2>4
<1>17. CASE ResponseCloses
  <2>1. /\ UNCHANGED <<sent, passed, adapted, ended, pump>> /\ destroyed'
        /\ source' = IF ended THEN source ELSE SourceAfterAbort
    BY <1>17 DEF ResponseCloses, pipeVars
  <2>2. CASE ended
    BY <2>1, <2>2 DEF Promise!vars, LastStage
  <2>3. CASE ~ended
    <3>1. source' \in {source, "aborted"}
      BY <2>1, <2>3 DEF SourceAfterAbort
    <3>2. CASE destroyed \/ pump \in {"announcing", "over"}
      <4>1. Promise!Abandon \/ UNCHANGED Promise!vars
        BY <2>1, <2>3, <3>1, <3>2 DEF Promise!Abandon, Promise!vars, LastStage
      <4>2. QED
        BY <4>1 DEF Promise!Next
    <3>3. CASE ~(destroyed \/ pump \in {"announcing", "over"})
      <4>1. Promise!CutShort
        BY <2>1, <2>3, <3>1, <3>3 DEF Promise!CutShort, LastStage
      <4>2. QED
        BY <4>1 DEF Promise!Next
    <3>4. QED
      BY <3>2, <3>3
  <2>4. QED
    BY <2>2, <2>3
<1>18. CASE UNCHANGED vars
  BY <1>18, Stutters DEF vars, pipeVars, respVars, LastStage
<1>19. QED
  BY <1>3, <1>4, <1>5, <1>6, <1>7, <1>8, <1>9, <1>10, <1>11, <1>12, <1>13,
     <1>14, <1>15, <1>16, <1>17, <1>18
     DEF Next, Gateway, Environment

(* The delivery never breaks the promise of PromisedBody: only a completed *)
(* stream worked through to its end is closed as whole, and only once.     *)
THEOREM PromiseIsNeverBroken == Spec => Promise!Safely
<1>1. Init => Promise!Init
  BY DEF Init, Promise!Init, LastStage, Stage
<1>2. Inv /\ [Next]_vars => [Promise!Next]_(Promise!vars)
  BY PromiseStep
<1>3. QED
  BY <1>1, <1>2, InvCorrect, PTL DEF Spec, Promise!Safely

-----------------------------------------------------------------------------
(* Why a stage failed: an abort comes from the caller's signal, which      *)
(* comes with 'close', and a fault is remembered.                          *)
Blame ==
  /\ aborted => closed
  /\ source = "aborted" => aborted
  /\ \A s \in Stage :
       /\ reason[s] = "abort" => aborted
       /\ reason[s] = "fault" => faulted
       /\ stage[s] = "failed" => reason[s] # None

(* What is filed: nothing while the pump runs; nothing after it only       *)
(* behind a last stage that closed; and never both verdicts.               *)
Ledger ==
  /\ pump \in {"head", "reading", "parked"} => log = {}
  /\ pump \in {"announcing", "over"} /\ log = {} => stage[LastStage] = "closed"
  /\ log # {"truncated", "disconnected"}
  /\ captured \/ "truncated" \in log => faulted
  /\ destroyed => socketGone

(* What is held: a pump that may read has room for what it reads, a stage  *)
(* takes one chunk at a time, and the buffers hold what they have slots    *)
(* for.                                                                    *)
Room ==
  /\ pump # "announcing" /\ ~destroyed => buffered <= HighWater
  /\ pump \in {"head", "reading"} /\ ~socketGone => buffered < HighWater
OneAtATime == \A s \in Stage : taken[s] <= passed[s] + 1
Slots == adapted => Cardinality(Buffered) <= Slack

Account == Blame /\ Ledger /\ Room /\ OneAtATime /\ Slots

-----------------------------------------------------------------------------
(* What the pump's exit files, and that it hangs up with both flags.       *)
LEMMA SettleFiles ==
  ASSUME NEW how \in {"done", "hangup", "failure"}, Settle(how)
  PROVE  /\ how = "done" => log' = log
         /\ how = "hangup" => log' = log \cup {"disconnected"}
         /\ how = "failure" => log' = log \cup {"truncated"}
         /\ captured' = IF how = "failure" THEN TRUE ELSE captured
         /\ pump' \in {"over", "announcing"}
         /\ \/ UNCHANGED <<socketGone, destroyed>>
            \/ socketGone' = TRUE /\ destroyed' = TRUE
<1>1. File(how)
  BY DEF Settle
<1>2. /\ pump' \in {"over", "announcing"}
      /\ \/ UNCHANGED <<socketGone, destroyed>>
         \/ socketGone' = TRUE /\ destroyed' = TRUE
  BY DEF Settle, respVars
<1>3. QED
  BY <1>1, <1>2 DEF File

(* A step keeps the blame where it belongs.                                *)
LEMMA BlameStep ==
  ASSUME Inv, Blame, [Next]_vars
  PROVE  Blame'
<1> USE DEF Blame, Stage
<1>1. reason \in [Stage -> {None, "abort", "cancel", "fault"}] /\ stage \in [Stage -> {"reading", "writing", "flushing", "closed", "failed"}]
  BY DEF Inv, TypeOK, PipeTypeOK
<1>2. ASSUME NEW s \in Stage, NEW why \in {"abort", "cancel", "fault"},
             Fail(s, why), why = "abort" => aborted,
             UNCHANGED <<aborted, closed, source>>
      PROVE  Blame'
  BY <1>1, <1>2 DEF Fail, None
<1>3. ASSUME NEW s \in Stage, StageReads(s) PROVE Blame'
  <2>1. UNCHANGED <<aborted, closed, source>>
    BY <1>3 DEF StageReads
  <2>2. CASE Fail(s, "fault")
    BY <1>2, <2>1, <2>2
  <2>3. CASE ~Fail(s, "fault")
    <3>1. /\ UNCHANGED <<reason, faulted>>
          /\ stage' = stage \/ stage' = [stage EXCEPT ![s] = "writing"]
      BY <1>3, <2>3 DEF StageReads
    <3>2. QED
      BY <1>1, <2>1, <3>1
  <2>4. QED
    BY <2>2, <2>3
<1>4. ASSUME NEW s \in Stage, StageFinishes(s) PROVE Blame'
  <2>1. /\ UNCHANGED <<reason, faulted, aborted, closed, source>>
        /\ \/ stage' = [stage EXCEPT ![s] = "flushing"]
           \/ stage' = [stage EXCEPT ![s] = "closed"]
    BY <1>4 DEF StageFinishes
  <2>2. QED
    BY <1>1, <2>1
<1>5. ASSUME NEW s \in Stage, StageInputFails(s) PROVE Blame'
  <2>1. UNCHANGED <<aborted, closed, source>> /\ Fail(s, InputError(s))
    BY <1>5 DEF StageInputFails
  <2>2. /\ InputError(s) \in {"abort", "cancel", "fault"}
        /\ InputError(s) = "abort" => aborted
    BY <1>1, <1>5 DEF StageInputFails, InputError, None
  <2>3. QED
    BY <1>2, <2>1, <2>2
<1>6. CASE HandToAdapter
  <2>1. /\ UNCHANGED <<reason, faulted, aborted, closed, source>>
        /\ stage' = [stage EXCEPT !["transform"] = "reading"]
    BY <1>6 DEF HandToAdapter
  <2>2. QED
    BY <1>1, <2>1
<1>7. CASE WriteCancelled
  <2>1. UNCHANGED <<aborted, closed, source>> /\ Fail(LastStage, "cancel")
    BY <1>7 DEF WriteCancelled
  <2>2. QED
    BY <1>2, <2>1 DEF LastStage
<1>8. CASE PumpReads
  <2>1. /\ UNCHANGED <<reason, faulted, aborted, closed, source>>
        /\ stage' = [stage EXCEPT ![LastStage] = IF @ = "writing" THEN "reading" ELSE "closed"]
    BY <1>8 DEF PumpReads
  <2>2. QED
    BY <1>1, <2>1
<1>9. CASE SendHead \/ AnnounceEnds \/ PumpDone \/ PumpReadFails \/ PumpReleased
  BY <1>9 DEF SendHead, AnnounceEnds, PumpDone, PumpReadFails, PumpReleased, pipeVars
<1>10. CASE ResponseErrors
  BY <1>10 DEF ResponseErrors, pipeVars
<1>11. CASE ProviderSends \/ ProviderStops \/ SocketDrains \/ CallerLeaves
  BY <1>11 DEF ProviderSends, ProviderStops, SocketDrains, CallerLeaves, pipeVars
<1>12. CASE ResponseCloses
  BY <1>12 DEF ResponseCloses, pipeVars
<1>13. CASE UNCHANGED vars
  BY <1>13 DEF vars, pipeVars
<1>14. QED
  BY <1>3, <1>4, <1>5, <1>6, <1>7, <1>8, <1>9, <1>10, <1>11, <1>12, <1>13
     DEF Next, Gateway, Environment

(* A step keeps the ledger.                                                *)
LEMMA LedgerStep ==
  ASSUME Inv, Blame, Ledger, [Next]_vars
  PROVE  Ledger'
<1> USE DEF Ledger
<1>1. /\ stage \in [Stage -> {"reading", "writing", "flushing", "closed", "failed"}]
      /\ reason \in [Stage -> {None, "abort", "cancel", "fault"}]
      /\ LastStage \in Stage
  BY DEF Inv, TypeOK, PipeTypeOK, LastStage, Stage
<1>2. ASSUME NEW how \in {"done", "hangup", "failure"}, Settle(how),
             pump \in {"reading", "parked"}, UNCHANGED adapted,
             how = "done" => stage'[LastStage] = "closed",
             faulted => faulted', how = "failure" => faulted'
      PROVE  Ledger'
  <2>1. log = {}
    BY <1>2
  <2>2. LastStage' = LastStage
    BY <1>2 DEF LastStage
  <2>3. /\ pump' \in {"over", "announcing"}
        /\ log' \in {{}, {"disconnected"}, {"truncated"}}
        /\ log' = {} => how = "done"
        /\ "truncated" \in log' => how = "failure"
    <3>1. /\ pump' \in {"over", "announcing"}
          /\ how = "done" => log' = {}
          /\ how = "hangup" => log' = {"disconnected"}
          /\ how = "failure" => log' = {"truncated"}
      BY <1>2, <2>1, SettleFiles, Zenon
    <3>2. QED
      BY <1>2, <3>1
  <2>4. captured' => captured \/ how = "failure"
    BY <1>2, SettleFiles, Zenon
  <2>5. destroyed' => socketGone'
    BY <1>2, SettleFiles, Zenon
  <2>6. QED
    BY <1>2, <2>2, <2>3, <2>4, <2>5
<1>3. ASSUME NEW s \in Stage, NEW why, Fail(s, why), stage[s] # "closed",
             UNCHANGED <<adapted, pump, log, destroyed, socketGone>>
      PROVE  Ledger'
  <2>1. stage' = [stage EXCEPT ![s] = "failed"] /\ LastStage' = LastStage
    BY <1>3 DEF Fail, LastStage
  <2>2. /\ faulted => faulted'
        /\ captured' => captured \/ faulted'
    BY <1>3 DEF Fail
  <2>3. stage[LastStage] = "closed" => stage'[LastStage] = "closed"
    BY <1>1, <1>3, <2>1
  <2>4. QED
    BY <1>3, <2>1, <2>2, <2>3
<1>4. ASSUME NEW s \in Stage, StageReads(s) PROVE Ledger'
  <2>1. UNCHANGED <<adapted, pump, log, destroyed, socketGone>> /\ stage[s] = "reading"
    BY <1>4 DEF StageReads, respVars
  <2>2. CASE Fail(s, "fault")
    BY <1>3, <2>1, <2>2
  <2>3. CASE ~Fail(s, "fault")
    <3>1. /\ UNCHANGED <<captured, faulted>>
          /\ stage' = stage \/ stage' = [stage EXCEPT ![s] = "writing"]
      BY <1>4, <2>3 DEF StageReads
    <3>2. QED
      BY <1>1, <2>1, <3>1 DEF LastStage
  <2>4. QED
    BY <2>2, <2>3
<1>5. ASSUME NEW s \in Stage, StageFinishes(s) PROVE Ledger'
  <2>1. /\ UNCHANGED <<adapted, pump, log, captured, faulted, destroyed, socketGone>>
        /\ stage[s] = "reading"
        /\ \/ stage' = [stage EXCEPT ![s] = "flushing"]
           \/ stage' = [stage EXCEPT ![s] = "closed"]
    BY <1>5 DEF StageFinishes, respVars
  <2>2. QED
    BY <1>1, <2>1 DEF LastStage
<1>6. ASSUME NEW s \in Stage, StageInputFails(s) PROVE Ledger'
  BY <1>3, <1>6 DEF StageInputFails, respVars
<1>7. CASE HandToAdapter
  <2>1. /\ UNCHANGED <<adapted, pump, log, captured, faulted, destroyed, socketGone>>
        /\ stage' = [stage EXCEPT !["transform"] = "reading"]
        /\ stage["transform"] = "writing"
    BY <1>7 DEF HandToAdapter, respVars
  <2>2. QED
    BY <1>1, <2>1 DEF LastStage
<1>8. CASE WriteCancelled
  BY <1>1, <1>3, <1>8 DEF WriteCancelled, respVars
<1>9. CASE SendHead
  BY <1>9 DEF SendHead, pipeVars, respVars, LastStage
<1>10. CASE PumpReads
  <2>1. /\ UNCHANGED <<adapted, faulted>> /\ pump = "reading"
    BY <1>10 DEF PumpReads
  <2>2. CASE CallerVanished
    BY <1>2, <1>10, <2>1, <2>2 DEF PumpReads
  <2>3. CASE ~CallerVanished
    <3>1. /\ UNCHANGED <<socketGone, destroyed, log, captured>>
          /\ pump' \in {"parked", "reading"}
      BY <1>10, <2>3 DEF PumpReads
    <3>2. QED
      BY <2>1, <3>1
  <2>4. QED
    BY <2>2, <2>3
<1>11. CASE PumpDone
  BY <1>2, <1>11 DEF PumpDone, pipeVars
<1>12. CASE PumpReadFails
  <2>1. /\ UNCHANGED <<adapted, faulted>> /\ pump = "reading"
        /\ stage[LastStage] = "failed"
        /\ Settle(IF CausedByHangup THEN "hangup" ELSE "failure")
    BY <1>12 DEF PumpReadFails
  <2>2. CASE CausedByHangup
    BY <1>2, <2>1, <2>2
  <2>3. CASE ~CausedByHangup
    <3>1. reason[LastStage] = "fault"
      BY <1>1, <2>1, <2>3 DEF CausedByHangup, Blame
    <3>2. faulted
      BY <1>1, <3>1 DEF Blame
    <3>3. QED
      BY <1>2, <2>1, <2>3, <3>2
  <2>4. QED
    BY <2>2, <2>3
<1>13. CASE PumpReleased
  BY <1>2, <1>13 DEF PumpReleased
<1>14. CASE ResponseErrors
  BY <1>2, <1>14 DEF ResponseErrors
<1>15. CASE AnnounceEnds
  BY <1>15 DEF AnnounceEnds, pipeVars, LastStage
<1>16. CASE ProviderSends \/ ProviderStops \/ CallerLeaves
  BY <1>16 DEF ProviderSends, ProviderStops, CallerLeaves, pipeVars, respVars, LastStage
<1>17. CASE SocketDrains
  BY <1>17 DEF SocketDrains, pipeVars, LastStage
<1>18. CASE ResponseCloses
  BY <1>18 DEF ResponseCloses, pipeVars, LastStage
<1>19. CASE UNCHANGED vars
  BY <1>19 DEF vars, pipeVars, respVars, LastStage
<1>20. QED
  BY <1>4, <1>5, <1>6, <1>7, <1>8, <1>9, <1>10, <1>11, <1>12, <1>13, <1>14,
     <1>15, <1>16, <1>17, <1>18, <1>19
     DEF Next, Gateway, Environment

(* A step leaves the socket room for what the pump may still read.         *)
LEMMA RoomStep ==
  ASSUME Inv, Room, [Next]_vars
  PROVE  Room'
<1> USE DEF Room
<1>1. buffered \in Nat /\ HighWater \in Nat /\ HighWater > 0
  BY BoundsAssumption DEF Inv, TypeOK, ResponseTypeOK
<1>2. ASSUME NEW how, Settle(how), pump \in {"reading", "parked"} PROVE Room'
  <2>1. /\ pump' \in {"over", "announcing"}
        /\ \/ pump' = "announcing"
           \/ destroyed' = TRUE
           \/ buffered' = buffered /\ destroyed' = destroyed
    BY <1>2 DEF Settle, respVars
  <2>2. QED
    BY <1>2, <2>1
<1>3. CASE PumpReads
  <2>1. pump = "reading"
    BY <1>3 DEF PumpReads
  <2>2. CASE CallerVanished
    BY <1>2, <1>3, <2>1, <2>2 DEF PumpReads
  <2>3. CASE ~CallerVanished
    <3>1. /\ UNCHANGED <<socketGone, destroyed>>
          /\ buffered' = IF socketGone THEN buffered ELSE buffered + 1
          /\ pump' = IF socketGone \/ buffered + 1 >= HighWater THEN "parked" ELSE "reading"
      BY <1>3, <2>3 DEF PumpReads, WriteReturnsFalse
    <3>2. QED
      BY <1>1, <2>1, <3>1
  <2>4. QED
    BY <2>2, <2>3
<1>4. CASE PumpDone \/ PumpReadFails \/ PumpReleased \/ ResponseErrors
  BY <1>2, <1>4 DEF PumpDone, PumpReadFails, PumpReleased, ResponseErrors
<1>5. CASE SendHead
  BY <1>5 DEF SendHead, respVars
<1>6. CASE AnnounceEnds
  BY <1>6 DEF AnnounceEnds
<1>7. CASE SocketDrains
  BY <1>1, <1>7 DEF SocketDrains
<1>8. CASE CallerLeaves
  BY <1>8 DEF CallerLeaves
<1>9. CASE ResponseCloses
  BY <1>9 DEF ResponseCloses
<1>10. CASE ProviderSends \/ ProviderStops
  BY <1>10 DEF ProviderSends, ProviderStops, respVars
<1>11. ASSUME NEW s \in Stage, StageReads(s) \/ StageFinishes(s) \/ StageInputFails(s)
       PROVE  Room'
  <2>1. UNCHANGED <<pump, respVars>>
    BY <1>11 DEF StageReads, StageFinishes, StageInputFails
  <2>2. QED
    BY <2>1 DEF respVars
<1>12. CASE HandToAdapter \/ WriteCancelled
  BY <1>12 DEF HandToAdapter, WriteCancelled, respVars
<1>13. CASE UNCHANGED vars
  BY <1>13 DEF vars, respVars
<1>14. QED
  BY <1>3, <1>4, <1>5, <1>6, <1>7, <1>8, <1>9, <1>10, <1>11, <1>12, <1>13
     DEF Next, Gateway, Environment

(* A stage never has more than one chunk in hand.                          *)
LEMMA OneAtATimeStep ==
  ASSUME Inv, OneAtATime, [Next]_vars
  PROVE  OneAtATime'
<1> USE DEF OneAtATime
<1>1. /\ taken \in [Stage -> Nat] /\ passed \in [Stage -> Nat]
      /\ Pipeline /\ LastStage \in Stage
  BY DEF Inv, TypeOK, PipeTypeOK, LastStage, Stage
<1>2. ASSUME NEW s \in Stage, StageReads(s) PROVE OneAtATime'
  <2>1. /\ taken' = [taken EXCEPT ![s] = @ + 1]
        /\ passed' = passed \/ passed' = [passed EXCEPT ![s] = taken[s] + 1]
        /\ taken[s] = passed[s]
    BY <1>1, <1>2 DEF StageReads, Pipeline
  <2>2. QED
    BY <1>1, <2>1, SMTT(30)
<1>3. CASE HandToAdapter
  BY <1>1, <1>3, SMTT(30) DEF HandToAdapter, Stage
<1>4. CASE PumpReads
  BY <1>1, <1>4, SMTT(30) DEF PumpReads
<1>5. CASE UNCHANGED <<taken, passed>>
  BY <1>5
<1>6. ProviderSends \/ WriteCancelled \/ UNCHANGED <<sent, pipeVars>> => UNCHANGED <<taken, passed>>
  BY DEF ProviderSends, WriteCancelled, pipeVars
<1>7. ASSUME NEW s \in Stage, StageFinishes(s) \/ StageInputFails(s)
      PROVE  UNCHANGED <<taken, passed>>
  BY <1>7 DEF StageFinishes, StageInputFails
<1>8. QED
  BY <1>2, <1>3, <1>4, <1>5, <1>6, <1>7, PipeSteps

-----------------------------------------------------------------------------
(* One more chunk makes a set of chunks at most one larger.                *)
LEMMA OneMore ==
  ASSUME NEW S, IsFiniteSet(S), NEW x, NEW T, T \subseteq S \cup {x}
  PROVE  /\ IsFiniteSet(T)
         /\ Cardinality(T) <= Cardinality(S) + 1
<1>1. IsFiniteSet(S \cup {x}) /\ Cardinality(S \cup {x}) <= Cardinality(S) + 1
  <2>1. Cardinality(S) \in Nat
    BY FS_CardinalityType
  <2>2. /\ IsFiniteSet(S \cup {x})
        /\ Cardinality(S \cup {x}) \in {Cardinality(S), Cardinality(S) + 1}
    BY FS_AddElement, Zenon
  <2>3. QED
    BY <2>1, <2>2
<1>2. IsFiniteSet(T) /\ Cardinality(T) <= Cardinality(S \cup {x})
  BY <1>1, FS_Subset
<1>3. Cardinality(S) \in Nat /\ Cardinality(T) \in Nat /\ Cardinality(S \cup {x}) \in Nat
  BY <1>1, <1>2, FS_CardinalityType
<1>4. QED
  BY <1>1, <1>2, <1>3

(* The chunks between two places are finitely many.                        *)
LEMMA SubstanceIsFinite ==
  ASSUME NEW first \in Nat, NEW last \in Nat
  PROVE  IsFiniteSet(Substance(first, last))
<1>1. IsFiniteSet(first .. last)
  BY FS_Interval
<1>2. Substance(first, last) \subseteq first .. last
  BY DEF Substance
<1>3. QED
  BY <1>1, <1>2, FS_Subset

(* A step never puts more between the stages than there are slots.         *)
LEMMA SlotsStep ==
  ASSUME Inv, Slots, [Next]_vars
  PROVE  Slots'
<1>1. /\ taken \in [Stage -> Nat] /\ passed \in [Stage -> Nat]
      /\ Pipeline /\ Slack \in Nat /\ sent \in Seq(Kind) /\ Len(sent) \in Nat
  BY BoundsAssumption DEF Inv, TypeOK, PipeTypeOK
<1>2. /\ taken["adapter"] \in Nat /\ passed["adapter"] \in Nat
      /\ taken["transform"] \in Nat /\ passed["transform"] \in Nat
      /\ taken["transform"] <= Len(sent) /\ passed["transform"] <= taken["transform"]
  BY <1>1 DEF Stage, Pipeline
<1>3. IsFiniteSet(Buffered)
  BY <1>2, SubstanceIsFinite DEF Buffered
<1>4. adapted' = adapted
  BY DEF Next, Gateway, Environment, ProviderSends, ProviderStops, ResponseErrors,
         SocketDrains, CallerLeaves, ResponseCloses, StageReads, StageFinishes,
         StageInputFails, HandToAdapter, WriteCancelled, SendHead, PumpReads,
         PumpDone, PumpReadFails, PumpReleased, AnnounceEnds, vars
<1> SUFFICES ASSUME adapted PROVE Cardinality(Buffered') <= Slack
  BY <1>4 DEF Slots
<1>5. Cardinality(Buffered) <= Slack /\ Cardinality(Buffered) \in Nat
  BY <1>3, FS_CardinalityType DEF Slots
<1>6. ASSUME Buffered' \subseteq Buffered PROVE Cardinality(Buffered') <= Slack
  <2>1. Cardinality(Buffered') <= Cardinality(Buffered) /\ IsFiniteSet(Buffered')
    BY <1>3, <1>6, FS_Subset
  <2>2. Cardinality(Buffered') \in Nat
    BY <2>1, FS_CardinalityType
  <2>3. QED
    BY <1>1, <1>5, <2>1, <2>2
<1>7. CASE ProviderSends
  <2>1. UNCHANGED <<taken, passed>> /\ \E k \in Kind : sent' = Append(sent, k)
    BY <1>7 DEF ProviderSends, pipeVars
  <2>2. \A i \in taken["adapter"] + 1 .. passed["transform"] : sent'[i] = sent[i]
    BY <1>1, <1>2, <2>1
  <2>3. Buffered' \subseteq Buffered
    BY <2>1, <2>2 DEF Buffered, Substance
  <2>4. QED
    BY <1>6, <2>3
<1>8. CASE StageReads("transform")
  <2>1. /\ sent' = sent /\ taken' = [taken EXCEPT !["transform"] = @ + 1]
        /\ taken["transform"] = passed["transform"]
        /\ taken["transform"] < Incoming("transform")
    BY <1>1, <1>8 DEF StageReads, Pipeline, Stage
  <2>2. taken'["adapter"] = taken["adapter"]
    BY <1>1, <2>1 DEF Stage
  <2>3. CASE passed' = passed
    BY <1>6, <2>1, <2>2, <2>3 DEF Buffered, Substance
  <2>4. CASE passed' # passed
    <3>1. /\ passed' = [passed EXCEPT !["transform"] = taken["transform"] + 1]
          /\ Makes("transform", sent[taken["transform"] + 1]) = None
      BY <1>8, <2>4 DEF StageReads
    <3>2. sent[taken["transform"] + 1] \in Kind
      BY <2>1, NextChunk DEF Inv, Stage
    <3>3. sent[passed["transform"] + 1] = "ping"
      BY <2>1, <3>1, <3>2 DEF Makes, None, Kind
    <3>4. passed'["transform"] = passed["transform"] + 1
      BY <1>1, <2>1, <3>1 DEF Stage
    <3>5. Buffered' \subseteq Buffered
      BY <1>2, <2>1, <2>2, <3>3, <3>4 DEF Buffered, Substance
    <3>6. QED
      BY <1>6, <3>5
  <2>5. QED
    BY <2>3, <2>4
<1>9. CASE StageReads("adapter")
  <2>1. /\ sent' = sent /\ taken'["adapter"] = taken["adapter"] + 1
        /\ passed'["transform"] = passed["transform"]
    BY <1>1, <1>9 DEF StageReads, Stage
  <2>2. Buffered' \subseteq Buffered
    BY <1>2, <2>1 DEF Buffered, Substance
  <2>3. QED
    BY <1>6, <2>2
<1>10. CASE HandToAdapter
  <2>1. /\ sent' = sent /\ taken' = taken /\ Cardinality(Buffered) < Slack
        /\ taken["transform"] = passed["transform"] + 1
        /\ passed'["transform"] = taken["transform"]
    BY <1>1, <1>10 DEF HandToAdapter, Pipeline, Stage
  <2>2. Buffered' \subseteq Buffered \cup {passed["transform"] + 1}
    BY <1>2, <2>1 DEF Buffered, Substance
  <2>3. IsFiniteSet(Buffered') /\ Cardinality(Buffered') <= Cardinality(Buffered) + 1
    BY <1>3, <2>2, OneMore
  <2>4. Cardinality(Buffered') \in Nat
    BY <2>3, FS_CardinalityType
  <2>5. QED
    BY <1>1, <1>5, <2>1, <2>3, <2>4
<1>11. CASE PumpReads
  <2>1. /\ sent' = sent /\ taken' = taken
        /\ passed'["transform"] = passed["transform"]
    BY <1>1, <1>11 DEF PumpReads, LastStage, Stage
  <2>2. Buffered' \subseteq Buffered
    BY <2>1 DEF Buffered, Substance
  <2>3. QED
    BY <1>6, <2>2
<1>12. ASSUME UNCHANGED <<sent, taken, passed>> PROVE Cardinality(Buffered') <= Slack
  BY <1>6, <1>12 DEF Buffered, Substance
<1>13. ASSUME NEW s \in Stage, StageFinishes(s) \/ StageInputFails(s)
       PROVE  UNCHANGED <<sent, taken, passed>>
  BY <1>13 DEF StageFinishes, StageInputFails
<1>14. WriteCancelled \/ UNCHANGED <<sent, pipeVars>> => UNCHANGED <<sent, taken, passed>>
  BY DEF WriteCancelled, pipeVars
<1>15. QED
  BY <1>7, <1>8, <1>9, <1>10, <1>11, <1>12, <1>13, <1>14, PipeSteps DEF Stage

-----------------------------------------------------------------------------
(* With the invariant of StreamDeliveryProofs the account is inductive.    *)
LEMMA AccountCorrect == Spec => []Account
<1>1. Init => Account
  <2> SUFFICES ASSUME Init PROVE Account
    OBVIOUS
  <2>1. Blame /\ Ledger
    BY DEF Init, Blame, Ledger, Stage, None
  <2>2. Room
    BY BoundsAssumption DEF Init, Room
  <2>3. OneAtATime
    BY DEF Init, OneAtATime
  <2>4. Slots
    <3>1. Buffered = {}
      BY DEF Init, Buffered, Substance, Stage
    <3>2. QED
      BY <3>1, FS_EmptySet, BoundsAssumption DEF Slots
  <2>5. QED
    BY <2>1, <2>2, <2>3, <2>4 DEF Account
<1>2. Inv /\ Account /\ [Next]_vars => Account'
  BY BlameStep, LedgerStep, RoomStep, OneAtATimeStep, SlotsStep DEF Account
<1>3. QED
  BY <1>1, <1>2, InvCorrect, PTL DEF Spec

(* Whichever of fault, hangup and end comes first, a body is filed as      *)
(* delivered only when all of it was, never as both cut short and hung up  *)
(* on, and nobody is told of a failure that was not one.                   *)
THEOREM AccountIsTrue == Spec => []Accounted
<1>1. Inv /\ Account => Accounted
  <2> SUFFICES ASSUME Inv, Account PROVE Accounted
    OBVIOUS
  <2>1. ASSUME pump \in {"announcing", "over"}, log = {}
        PROVE  source = "ended" /\ passed[LastStage] = Len(sent)
    <3>1. stage[LastStage] = "closed"
      BY <2>1 DEF Account, Ledger
    <3>2. QED
      BY <3>1, SMTT(30) DEF Inv, TypeOK, PipeTypeOK, Pipeline, ClosesInOrder, LastStage, Stage
  <2>2. QED
    BY <2>1 DEF Account, Ledger, Accounted
<1>2. QED
  BY <1>1, InvCorrect, AccountCorrect, PTL

(* Whatever the buffers' sizes, no more is ever held for a caller who does *)
(* not read than the socket's mark, the slots between the stages and the   *)
(* one chunk each stage has in hand.                                       *)
THEOREM HeldIsBounded == Spec => []Backpressure
<1>1. Inv /\ Account => Backpressure
  <2> SUFFICES ASSUME Inv, Account PROVE Backpressure
    OBVIOUS
  <2> DEFINE held == Substance(passed[LastStage] + 1, taken["transform"])
  <2>1. /\ taken["adapter"] \in Nat /\ passed["adapter"] \in Nat
        /\ taken["transform"] \in Nat /\ passed["transform"] \in Nat
        /\ taken["adapter"] <= passed["adapter"] + 1
        /\ taken["transform"] <= passed["transform"] + 1
        /\ Slack \in Nat
    BY BoundsAssumption DEF Inv, TypeOK, PipeTypeOK, Account, OneAtATime, Stage
  <2>2. CASE adapted
    <3>1. IsFiniteSet(Buffered) /\ Cardinality(Buffered) <= Slack
      BY <2>1, <2>2, SubstanceIsFinite DEF Buffered, Account, Slots
    <3>2. /\ IsFiniteSet(Buffered \cup {taken["transform"]})
          /\ Cardinality(Buffered \cup {taken["transform"]}) <= Cardinality(Buffered) + 1
      BY <3>1, OneMore
    <3>3. held \subseteq (Buffered \cup {taken["transform"]}) \cup {passed["adapter"] + 1}
      BY <2>1, <2>2 DEF Buffered, Substance, LastStage
    <3>4. /\ IsFiniteSet(held)
          /\ Cardinality(held) <= Cardinality(Buffered \cup {taken["transform"]}) + 1
      BY <3>2, <3>3, OneMore
    <3>5. /\ Cardinality(held) \in Nat /\ Cardinality(Buffered) \in Nat
          /\ Cardinality(Buffered \cup {taken["transform"]}) \in Nat
      BY <3>1, <3>2, <3>4, FS_CardinalityType
    <3>6. Cardinality(held) <= Slack + 2
      BY <2>1, <3>1, <3>2, <3>4, <3>5
    <3>7. QED
      BY <2>2, <3>6 DEF Backpressure, Account, Room
  <2>3. CASE ~adapted
    <3>1. held \subseteq {} \cup {taken["transform"]}
      BY <2>1, <2>3 DEF Substance, LastStage
    <3>2. IsFiniteSet(held) /\ Cardinality(held) <= 0 + 1
      BY <3>1, OneMore, FS_EmptySet
    <3>3. QED
      BY <2>3, <3>2 DEF Backpressure, Account, Room
  <2>4. QED
    BY <2>2, <2>3
<1>2. QED
  BY <1>1, InvCorrect, AccountCorrect, PTL

(* A truncation of an event stream is told to a caller who can be told.    *)
THEOREM CallerIsTold == Spec => TruncationIsTold
<1>1. Inv /\ Account /\ [Next]_vars =>
        [/\ "truncated" \in log' /\ "truncated" \notin log
         /\ eventStream /\ ~socketGone
         => /\ wire' # <<>>
            /\ wire'[Len(wire')] \in IF adapted THEN Terminal ELSE {"notice"} ]_vars
  <2> SUFFICES ASSUME Inv, Account, Next,
                      "truncated" \in log', "truncated" \notin log,
                      eventStream, ~socketGone
               PROVE  /\ wire' # <<>>
                      /\ wire'[Len(wire')] \in IF adapted THEN Terminal ELSE {"notice"}
    BY DEF vars
  <2>1. PumpReadFails
    <3>1. log' # log
      OBVIOUS
    <3>2. ~PumpDone /\ ~PumpReleased
      BY SettleFiles DEF PumpDone, PumpReleased
    <3>3. ~PumpReads
      BY SettleFiles DEF PumpReads
    <3>4. ~ResponseErrors
      BY DEF ResponseErrors
    <3>5. QED
      BY <3>1, <3>2, <3>3, <3>4
         DEF Next, Gateway, Environment, ProviderSends, ProviderStops, SocketDrains,
             CallerLeaves, ResponseCloses, StageReads, StageFinishes, StageInputFails,
             HandToAdapter, WriteCancelled, SendHead, AnnounceEnds
  <2>2. pump = "reading" /\ stage[LastStage] = "failed" /\ Settle("failure")
    BY <2>1, SettleFiles DEF PumpReadFails
  <2>3. ~destroyed
    BY DEF Account, Ledger
  <2>4. CASE HasNotice
    <3>1. wire' = Append(wire, "notice") /\ wire \in Seq(Token)
      BY <2>2, <2>3, <2>4 DEF Settle, Inv, TypeOK, ResponseTypeOK
    <3>2. wire' # <<>> /\ wire'[Len(wire')] = "notice"
      BY <3>1
    <3>3. QED
      BY <3>2 DEF Terminal
  <2>5. CASE ~HasNotice
    <3>1. wire' = wire /\ adapted /\ completed
      BY <2>2, <2>3, <2>5 DEF Settle, HasNotice
    <3>2. hold["adapter"] = None
      BY <2>2, <3>1 DEF Inv, Pipeline, LastStage, Stage
    <3>3. QED
      BY <2>2, <3>1, <3>2 DEF Inv, EndingsKept
  <2>6. QED
    BY <2>4, <2>5
<1>2. QED
  BY <1>1, InvCorrect, AccountCorrect, PTL DEF Spec, TruncationIsTold

-----------------------------------------------------------------------------
(***************************************************************************)
(* What the caller was sent is a prefix of the stream.  While the pump     *)
(* runs, the wire is exactly what is shown of the chunks the last stage    *)
(* has finished with, and the chunk it holds is the next to be shown; once *)
(* the pump is through, the wire only keeps what it had.                   *)
(***************************************************************************)
Running == pump \in {"head", "reading", "parked"}

Carries(w, throughAdapter, chunks, n) ==
  \A p \in Shown(throughAdapter, chunks, n) :
    w[Cardinality(Shown(throughAdapter, chunks, p))] = chunks[p]

(* The adapter's two flags tell what it has read: whether there was        *)
(* content, and whether an ending was given.                               *)
AdapterKnows ==
  adapted /\ Running =>
    LET p == taken["adapter"] + 1 IN
    /\ ~completed => ~Over(sent, p) /\ (started <=> Begun(sent, p))
    /\ completed /\ stage["adapter"] \in {"reading", "writing"} => Over(sent, p)

HoldsNext ==
  Running =>
    /\ stage[LastStage] = "writing" =>
         /\ taken[LastStage] \in Shown(adapted, sent, taken[LastStage])
         /\ hold[LastStage] = sent[taken[LastStage]]
    /\ stage["adapter"] = "flushing" => hold["adapter"] = "done"

WireIsExact ==
  Running =>
    LET n == passed[LastStage] IN
    /\ \/ Len(wire) = Cardinality(Shown(adapted, sent, n))
       \/ /\ Len(wire) = Cardinality(Shown(adapted, sent, n)) + 1
          /\ wire[Len(wire)] = "done" /\ adapted /\ stage["adapter"] = "closed"
    /\ Carries(wire, adapted, sent, n)

PrefixKept ==
  \E n \in 0 .. Len(sent) :
    /\ \/ Len(wire) = Cardinality(Shown(adapted, sent, n))
       \/ /\ Len(wire) = Cardinality(Shown(adapted, sent, n)) + 1
          /\ \/ wire[Len(wire)] = "notice"
             \/ /\ wire[Len(wire)] = "done"
                /\ adapted /\ stage["transform"] = "closed" /\ n = Len(sent)
    /\ Carries(wire, adapted, sent, n)

Integrity == AdapterKnows /\ HoldsNext /\ WireIsExact /\ PrefixKept

(* The places of the chunks shown: finite, growing one by one.             *)
LEMMA PlacesAreFinite ==
  ASSUME NEW a, NEW chunks, NEW n \in Nat
  PROVE  /\ IsFiniteSet(Shown(a, chunks, n))
         /\ Cardinality(Shown(a, chunks, n)) \in Nat
<1>1. IsFiniteSet(1 .. n)
  BY FS_Interval
<1>2. Shown(a, chunks, n) \subseteq 1 .. n
  BY DEF Shown
<1>3. QED
  BY <1>1, <1>2, FS_Subset, FS_CardinalityType

LEMMA OneMoreShown ==
  ASSUME NEW a, NEW chunks, NEW n \in Nat
  PROVE  /\ n + 1 \in Shown(a, chunks, n + 1) =>
              /\ Shown(a, chunks, n + 1) = Shown(a, chunks, n) \cup {n + 1}
              /\ Cardinality(Shown(a, chunks, n + 1)) = Cardinality(Shown(a, chunks, n)) + 1
         /\ n + 1 \notin Shown(a, chunks, n + 1) =>
              Shown(a, chunks, n + 1) = Shown(a, chunks, n)
<1>1. 1 .. (n + 1) = (1 .. n) \cup {n + 1} /\ n + 1 \notin 1 .. n
  OBVIOUS
<1>2. n + 1 \in Shown(a, chunks, n + 1) =>
        Shown(a, chunks, n + 1) = Shown(a, chunks, n) \cup {n + 1}
  BY <1>1, Zenon DEF Shown
<1>3. n + 1 \notin Shown(a, chunks, n + 1) =>
        Shown(a, chunks, n + 1) = Shown(a, chunks, n)
  BY <1>1, Zenon DEF Shown
<1>4. n + 1 \notin Shown(a, chunks, n)
  BY <1>1 DEF Shown
<1>5. QED
  BY <1>2, <1>3, <1>4, PlacesAreFinite, FS_AddElement

(* A chunk that is shown has a place among those shown by then.            *)
LEMMA PlacesAreOnTheWire ==
  ASSUME NEW a, NEW chunks, NEW n \in Nat, NEW p \in Shown(a, chunks, n)
  PROVE  /\ p \in Nat
         /\ Cardinality(Shown(a, chunks, p)) \in 1 .. Cardinality(Shown(a, chunks, n))
<1>1. p \in 1 .. n /\ p \in Shown(a, chunks, p) /\ p \in Nat
  BY DEF Shown
<1>2. Shown(a, chunks, p) \subseteq Shown(a, chunks, n)
  BY <1>1 DEF Shown
<1>3. /\ IsFiniteSet(Shown(a, chunks, n)) /\ Cardinality(Shown(a, chunks, n)) \in Nat
      /\ IsFiniteSet(Shown(a, chunks, p)) /\ Cardinality(Shown(a, chunks, p)) \in Nat
  BY <1>1, PlacesAreFinite
<1>4. Cardinality(Shown(a, chunks, p)) <= Cardinality(Shown(a, chunks, n))
  BY <1>2, <1>3, FS_Subset
<1>5. Cardinality(Shown(a, chunks, p)) # 0
  BY <1>1, <1>3, FS_EmptySet
<1>6. QED
  BY <1>1, <1>3, <1>4, <1>5

(* What is written behind the places of the first n does not change them.  *)
LEMMA CarriesStays ==
  ASSUME NEW a, NEW chunks, NEW n \in Nat, NEW w \in Seq(Token), NEW t,
         Cardinality(Shown(a, chunks, n)) <= Len(w), Carries(w, a, chunks, n)
  PROVE  Carries(Append(w, t), a, chunks, n)
<1>1. Len(w) \in Nat /\ \A i \in 1 .. Len(w) : Append(w, t)[i] = w[i]
  OBVIOUS
<1>2. SUFFICES ASSUME NEW p \in Shown(a, chunks, n)
               PROVE  Append(w, t)[Cardinality(Shown(a, chunks, p))] = chunks[p]
  BY DEF Carries
<1>3. Cardinality(Shown(a, chunks, p)) \in 1 .. Len(w)
  BY <1>1, PlacesAreOnTheWire, PlacesAreFinite
<1>4. QED
  BY <1>1, <1>3 DEF Carries

(* A wire that carries the first n carries the next behind them.           *)
LEMMA CarriesNext ==
  ASSUME NEW a, NEW chunks, NEW n \in Nat, NEW w \in Seq(Token),
         Len(w) = Cardinality(Shown(a, chunks, n)), Carries(w, a, chunks, n),
         n + 1 \in Shown(a, chunks, n + 1)
  PROVE  /\ Carries(Append(w, chunks[n + 1]), a, chunks, n + 1)
         /\ Len(Append(w, chunks[n + 1])) = Cardinality(Shown(a, chunks, n + 1))
<1>1. /\ Shown(a, chunks, n + 1) = Shown(a, chunks, n) \cup {n + 1}
      /\ Cardinality(Shown(a, chunks, n + 1)) = Len(w) + 1
  BY OneMoreShown
<1>2. Carries(Append(w, chunks[n + 1]), a, chunks, n)
  BY CarriesStays
<1>3. Append(w, chunks[n + 1])[Len(w) + 1] = chunks[n + 1]
  OBVIOUS
<1>4. Carries(Append(w, chunks[n + 1]), a, chunks, n + 1)
  BY <1>1, <1>2, <1>3 DEF Carries
<1>5. QED
  BY <1>1, <1>4

LEMMA CarriesWithout ==
  ASSUME NEW a, NEW chunks, NEW n \in Nat, NEW w,
         Carries(w, a, chunks, n), n + 1 \notin Shown(a, chunks, n + 1)
  PROVE  /\ Carries(w, a, chunks, n + 1)
         /\ Shown(a, chunks, n + 1) = Shown(a, chunks, n)
BY OneMoreShown DEF Carries

(* What comes later is no matter for what is shown by now.                 *)
LEMMA ShownSoFar ==
  ASSUME NEW a, NEW chunks \in Seq(Kind), NEW k \in Kind, NEW n \in 0 .. Len(chunks)
  PROVE  /\ Shown(a, Append(chunks, k), n) = Shown(a, chunks, n)
         /\ Begun(Append(chunks, k), n + 1) <=> Begun(chunks, n + 1)
         /\ Over(Append(chunks, k), n + 1) <=> Over(chunks, n + 1)
         /\ \A w : Carries(w, a, chunks, n) => Carries(w, a, Append(chunks, k), n)
<1> DEFINE more == Append(chunks, k)
<1>1. /\ Len(chunks) \in Nat /\ n \in Nat
      /\ \A i \in 1 .. n : more[i] = chunks[i]
  OBVIOUS
<1> HIDE DEF more
<1>2. \A p \in 1 .. (n + 1) : Begun(more, p) <=> Begun(chunks, p)
  BY <1>1 DEF Begun
<1>3. \A p \in 1 .. (n + 1) : Over(more, p) <=> Over(chunks, p)
  <2> SUFFICES ASSUME NEW p \in 1 .. (n + 1)
               PROVE  Over(more, p) <=> Over(chunks, p)
    OBVIOUS
  <2>1. \A i \in 1 .. p - 1 : /\ i \in 1 .. n /\ i \in 1 .. (n + 1)
                              /\ more[i] = chunks[i]
                              /\ Begun(more, i) <=> Begun(chunks, i)
    BY <1>1, <1>2
  <2>2. QED
    BY <2>1 DEF Over
<1>4. \A m \in 0 .. n : Shown(a, more, m) = Shown(a, chunks, m)
  <2> SUFFICES ASSUME NEW m \in 0 .. n
               PROVE  Shown(a, more, m) = Shown(a, chunks, m)
    OBVIOUS
  <2>1. \A p \in 1 .. m : /\ more[p] = chunks[p]
                          /\ Begun(more, p) <=> Begun(chunks, p)
                          /\ Over(more, p) <=> Over(chunks, p)
    BY <1>1, <1>2, <1>3
  <2>2. QED
    BY <2>1 DEF Shown
<1>5. \A w : Carries(w, a, chunks, n) => Carries(w, a, more, n)
  <2> SUFFICES ASSUME NEW w, Carries(w, a, chunks, n), NEW p \in Shown(a, more, n)
               PROVE  w[Cardinality(Shown(a, more, p))] = more[p]
    BY DEF Carries
  <2>1. p \in Shown(a, chunks, n) /\ p \in 1 .. n
    BY <1>1, <1>4 DEF Shown
  <2>2. Shown(a, more, p) = Shown(a, chunks, p)
    BY <1>1, <1>4, <2>1
  <2>3. QED
    BY <1>1, <2>1, <2>2 DEF Carries
<1>6. n + 1 \in 1 .. (n + 1)
  BY <1>1
<1>7. QED
  BY <1>1, <1>2, <1>3, <1>4, <1>5, <1>6 DEF more

(* How what comes before a place grows by one chunk.                       *)
LEMMA OneChunkFurther ==
  ASSUME NEW chunks, NEW p \in Nat \ {0}
  PROVE  /\ Begun(chunks, p + 1) <=> Begun(chunks, p) \/ chunks[p] = "delta"
         /\ Over(chunks, p + 1) <=>
              \/ Over(chunks, p) \/ chunks[p] = "error"
              \/ chunks[p] = "done" /\ Begun(chunks, p)
<1>1. 1 .. (p + 1) - 1 = (1 .. p - 1) \cup {p}
  OBVIOUS
<1>2. QED
  BY <1>1, Zenon DEF Begun, Over

(* A chunk that does not make the last stage throw is shown exactly when   *)
(* the stage makes something of it, which is the chunk.                    *)
LEMMA MakesWhatIsShown ==
  ASSUME Inv, Integrity, Running, StageReads(LastStage)
  PROVE  LET s == LastStage
             p == taken[s] + 1
         IN  /\ p \in 1 .. Len(sent) /\ sent[p] \in Kind
             /\ taken[s] = passed[s] /\ taken[s] \in Nat
             /\ Makes(s, sent[p]) # None <=> p \in Shown(adapted, sent, p)
             /\ Makes(s, sent[p]) # None => Makes(s, sent[p]) = sent[p]
<1> DEFINE s == LastStage
           p == taken[s] + 1
<1>1. s \in Stage /\ stage[s] = "reading" /\ taken[s] < Incoming(s)
  BY DEF StageReads, LastStage, Stage
<1>2. /\ p \in 1 .. Len(sent) /\ sent[p] \in Kind
      /\ taken[s] = passed[s] /\ taken[s] \in Nat
  BY <1>1, NextChunk DEF Inv, Pipeline
<1>3. Makes(s, sent[p]) # None => Makes(s, sent[p]) = sent[p]
  BY DEF Makes
<1>4. Makes(s, sent[p]) # None <=> p \in Shown(adapted, sent, p)
  <2>1. p \in 1 .. p /\ sent[p] # None
    BY <1>2 DEF Kind, None
  <2>2. CASE ~adapted
    BY <2>1, <2>2 DEF Makes, Shown, LastStage
  <2>3. CASE adapted
    <3>1. /\ ~completed => ~Over(sent, p) /\ (started <=> Begun(sent, p))
          /\ completed => Over(sent, p)
      BY <1>1, <2>3 DEF Integrity, AdapterKnows, LastStage
    <3>2. s = "adapter"
      BY <2>3 DEF LastStage
    <3> HIDE DEF p, s
    <3>3. QED
      BY <2>1, <2>3, <3>1, <3>2 DEF Makes, Shown
  <2>4. QED
    BY <2>2, <2>3
<1>5. QED
  BY <1>2, <1>3, <1>4

(* While the pump runs, what the last stage has to do with stays as it is  *)
(* under any step but its own and the pump's.                              *)
LEMMA RunningStays ==
  ASSUME Integrity, Running,
         UNCHANGED <<adapted, sent, wire, started, completed>>,
         UNCHANGED <<hold[LastStage], stage[LastStage], taken[LastStage], passed[LastStage]>>,
         UNCHANGED <<hold["adapter"], stage["adapter"], taken["adapter"]>>
  PROVE  AdapterKnows' /\ HoldsNext' /\ WireIsExact'
<1>1. LastStage' = LastStage
  BY DEF LastStage
<1>2. hold'[LastStage'] = hold[LastStage] /\ stage'[LastStage'] = stage[LastStage]
      /\ taken'[LastStage'] = taken[LastStage] /\ passed'[LastStage'] = passed[LastStage]
  BY <1>1
<1>3. AdapterKnows'
  BY DEF Integrity, AdapterKnows
<1>4. HoldsNext'
  BY <1>2 DEF Integrity, HoldsNext
<1>5. WireIsExact'
  BY <1>2 DEF Integrity, WireIsExact
<1>6. QED
  BY <1>3, <1>4, <1>5

(* The last stage reads.                                                   *)
LEMMA LastStageReads ==
  ASSUME Inv, Integrity, Running, StageReads(LastStage)
  PROVE  AdapterKnows' /\ HoldsNext' /\ WireIsExact'
<1> DEFINE s == LastStage
           p == taken[s] + 1
           k == sent[p]
           n == passed[s]
<1>1. /\ p \in 1 .. Len(sent) /\ k \in Kind
      /\ taken[s] = n /\ n \in Nat /\ p = n + 1
      /\ Makes(s, k) # None <=> p \in Shown(adapted, sent, p)
      /\ Makes(s, k) # None => Makes(s, k) = k
  BY MakesWhatIsShown
<1>2. /\ UNCHANGED <<adapted, sent, wire, pump>> /\ s \in Stage /\ LastStage' = s
      /\ stage[s] = "reading" /\ taken' = [taken EXCEPT ![s] = @ + 1]
  BY DEF StageReads, respVars, LastStage, Stage
<1>3. /\ taken \in [Stage -> Nat] /\ passed \in [Stage -> Nat]
      /\ hold \in [Stage -> Frame \cup {None}]
      /\ stage \in [Stage -> {"reading", "writing", "flushing", "closed", "failed"}]
  BY DEF Inv, TypeOK, PipeTypeOK
<1>4. taken'[s] = p
  BY <1>1, <1>2, <1>3
<1>5. /\ ~adapted => s = "transform" /\ stage["adapter"] # "flushing"
      /\ adapted => s = "adapter"
  BY <1>2 DEF LastStage, Inv, ClosesInOrder
<1>6. /\ Len(wire) = Cardinality(Shown(adapted, sent, n))
      /\ Carries(wire, adapted, sent, n)
  BY <1>2, <1>5 DEF Integrity, WireIsExact
<1>7. adapted => /\ ~completed => ~Over(sent, p) /\ (started <=> Begun(sent, p))
                 /\ completed => Over(sent, p)
  BY <1>2, <1>5 DEF Integrity, AdapterKnows
<1>8. /\ Begun(sent, p + 1) <=> Begun(sent, p) \/ k = "delta"
      /\ Over(sent, p + 1) <=>
           \/ Over(sent, p) \/ k = "error"
           \/ k = "done" /\ Begun(sent, p)
  BY <1>1, OneChunkFurther
<1> HIDE DEF k, p, n, s
<1>9. CASE /\ Throws(s, k) /\ Fail(s, "fault")
           /\ UNCHANGED <<passed, started, completed>>
  <2>1. stage'[s] = "failed" /\ passed'[s] = n
    BY <1>2, <1>3, <1>9 DEF Fail, n
  <2>2. AdapterKnows'
    <3>1. adapted => k = "odd" /\ ~completed
      BY <1>5, <1>9 DEF Throws
    <3>2. QED
      BY <1>2, <1>4, <1>5, <1>7, <1>8, <1>9, <3>1 DEF AdapterKnows
  <2>3. HoldsNext'
    <3>1. stage'["adapter"] # "flushing"
      BY <1>3, <1>5, <1>9, <2>1 DEF Fail, Stage
    <3>2. QED
      BY <1>2, <2>1, <3>1 DEF HoldsNext
  <2>4. WireIsExact'
    BY <1>2, <1>6, <2>1 DEF WireIsExact
  <2>5. QED
    BY <2>2, <2>3, <2>4
<1>10. CASE /\ ~Throws(s, k) /\ Makes(s, k) = None
            /\ passed' = [passed EXCEPT ![s] = taken[s] + 1]
            /\ UNCHANGED <<hold, stage, started, completed>>
  <2>1. passed'[s] = p
    BY <1>2, <1>3, <1>10 DEF p
  <2>2. AdapterKnows'
    <3>1. adapted => completed \/ k = "ping" \/ (k = "done" /\ ~started)
      BY <1>1, <1>5, <1>10 DEF Makes, Kind, None
    <3>2. QED
      BY <1>2, <1>4, <1>5, <1>7, <1>8, <1>10, <3>1 DEF AdapterKnows
  <2>3. HoldsNext'
    BY <1>2, <1>5, <1>10 DEF HoldsNext
  <2>4. WireIsExact'
    <3>1. /\ Carries(wire, adapted, sent, p)
          /\ Shown(adapted, sent, p) = Shown(adapted, sent, n)
      BY <1>1, <1>6, <1>10, CarriesWithout
    <3>2. QED
      BY <1>2, <1>6, <2>1, <3>1 DEF WireIsExact
  <2>5. QED
    BY <2>2, <2>3, <2>4
<1>11. CASE /\ ~Throws(s, k) /\ Makes(s, k) # None
            /\ hold' = [hold EXCEPT ![s] = Makes(s, k)]
            /\ stage' = [stage EXCEPT ![s] = "writing"]
            /\ started' = IF s = "adapter" /\ k = "delta" THEN TRUE ELSE started
            /\ completed' = IF s = "adapter" /\ k \in {"error", "done"}
                           THEN TRUE ELSE completed
            /\ UNCHANGED passed
  <2>1. /\ stage'[s] = "writing" /\ hold'[s] = k /\ passed'[s] = n
        /\ p \in Shown(adapted, sent, p)
    BY <1>1, <1>2, <1>3, <1>11 DEF n
  <2>2. AdapterKnows'
    <3>1. adapted => ~completed /\ (k = "done" => started)
      BY <1>5, <1>11 DEF Makes
    <3>2. QED
      BY <1>2, <1>4, <1>5, <1>7, <1>8, <1>11, <2>1, <3>1 DEF AdapterKnows
  <2>3. HoldsNext'
    <3>1. stage'["adapter"] # "flushing"
      BY <1>3, <1>5, <1>11, <2>1 DEF Stage
    <3>2. QED
      BY <1>2, <1>4, <2>1, <3>1 DEF HoldsNext, k
  <2>4. WireIsExact'
    BY <1>2, <1>6, <2>1 DEF WireIsExact
  <2>5. QED
    BY <2>2, <2>3, <2>4
<1>12. QED
  BY <1>9, <1>10, <1>11 DEF StageReads, k, p, s

(* The last stage is through with its input: an adapter holds the [DONE]   *)
(* it flushes, and has nothing else to say.                                *)
LEMMA LastStageFinishes ==
  ASSUME Inv, Integrity, Running, StageFinishes(LastStage)
  PROVE  AdapterKnows' /\ HoldsNext' /\ WireIsExact'
<1> DEFINE s == LastStage
           n == passed[s]
<1>1. /\ UNCHANGED <<adapted, sent, wire, pump, taken, passed, started>>
      /\ s \in Stage /\ LastStage' = s /\ stage[s] = "reading"
      /\ \/ /\ s = "adapter" /\ completed'
            /\ hold' = [hold EXCEPT ![s] = "done"]
            /\ stage' = [stage EXCEPT ![s] = "flushing"]
         \/ /\ stage' = [stage EXCEPT ![s] = "closed"]
            /\ UNCHANGED <<hold, completed>>
  BY DEF StageFinishes, respVars, LastStage, Stage
<1>2. /\ hold \in [Stage -> Frame \cup {None}]
      /\ stage \in [Stage -> {"reading", "writing", "flushing", "closed", "failed"}]
  BY DEF Inv, TypeOK, PipeTypeOK
<1>3. /\ ~adapted => s = "transform" /\ stage["adapter"] # "flushing"
      /\ adapted => s = "adapter"
  BY <1>1 DEF LastStage, Inv, ClosesInOrder
<1>4. /\ Len(wire) = Cardinality(Shown(adapted, sent, n))
      /\ Carries(wire, adapted, sent, n)
  BY <1>1, <1>3 DEF Integrity, WireIsExact
<1> HIDE DEF n, s
<1>5. stage'[s] \in {"flushing", "closed"} /\ passed'[s] = n
  BY <1>1, <1>2 DEF n
<1>6. AdapterKnows'
  <2>1. adapted => stage'["adapter"] \in {"flushing", "closed"}
    BY <1>3, <1>5
  <2>2. adapted /\ ~completed' => ~completed
    BY <1>1
  <2>3. QED
    BY <1>1, <2>1, <2>2 DEF Integrity, AdapterKnows
<1>7. HoldsNext'
  <2>1. stage'["adapter"] = "flushing" => hold'["adapter"] = "done"
    BY <1>1, <1>2, <1>3 DEF Stage
  <2>2. QED
    BY <1>1, <1>5, <2>1 DEF HoldsNext
<1>8. WireIsExact'
  BY <1>1, <1>4, <1>5 DEF WireIsExact
<1>9. QED
  BY <1>6, <1>7, <1>8

(* Its input failed, and it fails with it.                                 *)
LEMMA LastStageFails ==
  ASSUME Inv, Integrity, Running, StageInputFails(LastStage)
  PROVE  AdapterKnows' /\ HoldsNext' /\ WireIsExact'
<1>1. /\ UNCHANGED <<adapted, sent, wire, pump, taken, passed, started, completed>>
      /\ LastStage \in Stage /\ LastStage' = LastStage /\ stage[LastStage] = "reading"
      /\ stage' = [stage EXCEPT ![LastStage] = "failed"]
  BY DEF StageInputFails, Fail, respVars, LastStage, Stage
<1>2. stage'[LastStage] = "failed"
  BY <1>1 DEF Inv, TypeOK, PipeTypeOK
<1>3. /\ ~adapted => LastStage = "transform" /\ stage["adapter"] # "flushing"
      /\ adapted => LastStage = "adapter"
  BY <1>1 DEF LastStage, Inv, ClosesInOrder
<1>4. stage'["adapter"] # "flushing"
  BY <1>1, <1>2, <1>3 DEF Inv, TypeOK, PipeTypeOK, Stage
<1>5. AdapterKnows'
  BY <1>1, <1>2, <1>3 DEF Integrity, AdapterKnows
<1>6. HoldsNext'
  BY <1>1, <1>2, <1>4 DEF HoldsNext
<1>7. WireIsExact'
  BY <1>1, <1>3 DEF Integrity, WireIsExact
<1>8. QED
  BY <1>5, <1>6, <1>7

(* What the last stage holds is written behind all that was shown before.  *)
LEMMA PumpWrites ==
  ASSUME Inv, Integrity, PumpReads, Running'
  PROVE  AdapterKnows' /\ HoldsNext' /\ WireIsExact'
<1> DEFINE s == LastStage
           n == passed[s]
<1>1. /\ UNCHANGED <<adapted, sent, taken, started>>
      /\ s \in Stage /\ LastStage' = s /\ pump = "reading"
      /\ stage[s] \in {"writing", "flushing"}
      /\ stage' = [stage EXCEPT ![s] = IF @ = "writing" THEN "reading" ELSE "closed"]
      /\ passed' = [passed EXCEPT ![s] = taken[s]]
  BY DEF PumpReads, LastStage, Stage
<1>2. /\ completed' = completed /\ wire' = Append(wire, hold[s])
  <2>1. CASE CallerVanished
    <3>1. Settle("hangup")
      BY <2>1 DEF PumpReads
    <3>2. QED
      BY <3>1, CutSteps DEF Running
  <2>2. QED
    BY <2>1 DEF PumpReads
<1>3. /\ taken \in [Stage -> Nat] /\ passed \in [Stage -> Nat]
      /\ stage \in [Stage -> {"reading", "writing", "flushing", "closed", "failed"}]
      /\ wire \in Seq(Token) /\ Pipeline
  BY DEF Inv, TypeOK, PipeTypeOK, ResponseTypeOK
<1>4. /\ ~adapted => s = "transform" /\ stage["adapter"] # "flushing"
      /\ adapted => s = "adapter"
      /\ s = "transform" => stage[s] = "writing"
  BY <1>1 DEF LastStage, Inv, ClosesInOrder
<1>5. Running
  BY <1>1 DEF Running
<1>6. /\ Len(wire) = Cardinality(Shown(adapted, sent, n))
      /\ Carries(wire, adapted, sent, n)
      /\ stage[s] = "writing" => /\ taken[s] \in Shown(adapted, sent, taken[s])
                                /\ hold[s] = sent[taken[s]]
      /\ stage[s] = "flushing" => hold[s] = "done" /\ adapted
  BY <1>1, <1>4, <1>5 DEF Integrity, WireIsExact, HoldsNext
<1>7. /\ n \in Nat /\ passed'[s] = taken[s]
      /\ stage[s] = "writing" => taken[s] = n + 1 /\ stage'[s] = "reading"
      /\ stage[s] = "flushing" => taken[s] = n /\ stage'[s] = "closed"
  BY <1>1, <1>3 DEF Pipeline
<1> HIDE DEF s, n
<1>8. AdapterKnows'
  <2>1. adapted /\ completed /\ stage'["adapter"] \in {"reading", "writing"} =>
          stage["adapter"] \in {"reading", "writing"}
    BY <1>1, <1>4, <1>7
  <2>2. QED
    BY <1>1, <1>2, <1>5, <2>1 DEF Integrity, AdapterKnows
<1>9. HoldsNext'
  <2>1. stage'[s] # "writing" /\ stage'["adapter"] # "flushing"
    BY <1>1, <1>3, <1>4, <1>7 DEF Stage
  <2>2. QED
    BY <1>1, <2>1 DEF HoldsNext
<1>10. WireIsExact'
  <2>1. CASE stage[s] = "writing"
    <3>1. /\ Carries(wire', adapted, sent, n + 1)
          /\ Len(wire') = Cardinality(Shown(adapted, sent, n + 1))
      BY <1>2, <1>3, <1>6, <1>7, <2>1, CarriesNext
    <3>2. QED
      BY <1>1, <1>7, <2>1, <3>1 DEF WireIsExact
  <2>2. CASE stage[s] = "flushing"
    <3>1. /\ Carries(wire', adapted, sent, n)
          /\ Len(wire') = Len(wire) + 1 /\ wire'[Len(wire')] = "done"
      <4>1. Carries(Append(wire, hold[s]), adapted, sent, n)
        BY <1>3, <1>6, <1>7, CarriesStays
      <4>2. wire' = Append(wire, "done") /\ wire \in Seq(Token)
        BY <1>2, <1>3, <1>6, <2>2
      <4>3. Len(wire') = Len(wire) + 1 /\ wire'[Len(wire')] = "done"
        BY <4>2
      <4>4. QED
        BY <1>2, <4>1, <4>3
    <3>2. adapted /\ stage'["adapter"] = "closed"
      BY <1>4, <1>6, <1>7, <2>2
    <3>3. QED
      BY <1>1, <1>6, <1>7, <2>2, <3>1, <3>2 DEF WireIsExact
  <2>3. QED
    BY <1>1, <2>1, <2>2
<1>11. QED
  BY <1>8, <1>9, <1>10

(* More from the provider is no matter for what was read of it.            *)
LEMMA ProviderSendsMore ==
  ASSUME Inv, Integrity, Running, ProviderSends
  PROVE  AdapterKnows' /\ HoldsNext' /\ WireIsExact'
<1>1. PICK k \in Kind : sent' = Append(sent, k)
  BY DEF ProviderSends
<1>2. UNCHANGED <<adapted, wire, pump, taken, passed, hold, stage, started, completed>>
      /\ LastStage' = LastStage /\ LastStage \in Stage
  BY DEF ProviderSends, pipeVars, respVars, LastStage, Stage
<1>3. /\ sent \in Seq(Kind) /\ Len(sent) \in Nat
      /\ \A s \in Stage : /\ taken[s] \in 0 .. Len(sent) /\ passed[s] \in 0 .. Len(sent)
                          /\ stage[s] = "writing" => taken[s] \in 1 .. Len(sent)
  BY DEF Inv, TypeOK, PipeTypeOK, Pipeline, Stage
<1>4. \A n \in 0 .. Len(sent) :
        /\ Shown(adapted, sent', n) = Shown(adapted, sent, n)
        /\ Begun(sent', n + 1) <=> Begun(sent, n + 1)
        /\ Over(sent', n + 1) <=> Over(sent, n + 1)
        /\ \A w : Carries(w, adapted, sent, n) => Carries(w, adapted, sent', n)
  BY <1>1, <1>3, ShownSoFar
<1>5. \A i \in 1 .. Len(sent) : sent'[i] = sent[i]
  BY <1>1, <1>3
<1>6. AdapterKnows'
  <2>1. taken["adapter"] \in 0 .. Len(sent)
    BY <1>3 DEF Stage
  <2>2. QED
    BY <1>2, <1>4, <2>1 DEF Integrity, AdapterKnows
<1>7. HoldsNext'
  <2>1. /\ stage["adapter"] = "flushing" => hold["adapter"] = "done"
        /\ stage[LastStage] = "writing" =>
             /\ taken[LastStage] \in Shown(adapted, sent, taken[LastStage])
             /\ hold[LastStage] = sent[taken[LastStage]]
    BY DEF Integrity, HoldsNext
  <2>2. stage[LastStage] = "writing" =>
             /\ taken[LastStage] \in Shown(adapted, sent', taken[LastStage])
             /\ hold[LastStage] = sent'[taken[LastStage]]
    BY <1>2, <1>3, <1>4, <1>5, <2>1
  <2>3. QED
    BY <1>2, <2>1, <2>2 DEF HoldsNext
<1>8. WireIsExact'
  <2>1. passed[LastStage] \in 0 .. Len(sent)
    BY <1>2, <1>3
  <2>2. QED
    BY <1>2, <1>4, <2>1 DEF Integrity, WireIsExact
<1>9. QED
  BY <1>6, <1>7, <1>8

(* While the pump runs, every step keeps the wire exact.                   *)
LEMMA RunningStep ==
  ASSUME Inv, Integrity, [Next]_vars, Running'
  PROVE  AdapterKnows' /\ HoldsNext' /\ WireIsExact'
<1>1. CASE PumpReads
  BY <1>1, PumpWrites
<1>2. ~(PumpDone \/ PumpReadFails \/ PumpReleased \/ ResponseErrors)
  <2>1. ASSUME NEW how, Settle(how) PROVE FALSE
    BY <2>1, SettleSteps DEF Running
  <2>2. QED
    BY <2>1 DEF PumpDone, PumpReadFails, PumpReleased, ResponseErrors
<1>3. Running
  <2>1. pump' # pump => pump \in {"head", "reading", "parked"}
    BY <1>2 DEF Next, Gateway, Environment, PumpReads, ProviderSends, ProviderStops, SocketDrains,
         CallerLeaves, ResponseCloses, StageReads, StageFinishes, StageInputFails,
         HandToAdapter, WriteCancelled, SendHead, AnnounceEnds, vars, Running
  <2>2. QED
    BY <2>1 DEF Running
<1>4. CASE ProviderSends
  BY <1>3, <1>4, ProviderSendsMore
<1>5. CASE StageReads(LastStage) \/ StageFinishes(LastStage) \/ StageInputFails(LastStage)
  BY <1>3, <1>5, LastStageReads, LastStageFinishes, LastStageFails
<1>6. ASSUME NEW s \in Stage, s # LastStage,
             StageReads(s) \/ StageFinishes(s) \/ StageInputFails(s)
      PROVE  AdapterKnows' /\ HoldsNext' /\ WireIsExact'
  <2>1. adapted /\ s = "transform" /\ LastStage = "adapter"
    BY <1>6 DEF StageReads, StageFinishes, StageInputFails, Runs, LastStage, Stage
  <2>2. /\ UNCHANGED <<adapted, sent, wire>>
        /\ UNCHANGED <<started, completed>>
    BY <1>6, <2>1 DEF StageReads, StageFinishes, StageInputFails, respVars
  <2>3. UNCHANGED <<hold["adapter"], stage["adapter"], taken["adapter"], passed["adapter"]>>
    BY <1>6, <2>1 DEF StageReads, StageFinishes, StageInputFails, Fail,
         Inv, TypeOK, PipeTypeOK, Stage
  <2>4. UNCHANGED <<hold[LastStage], stage[LastStage], taken[LastStage], passed[LastStage]>>
    BY <2>1, <2>2, <2>3 DEF LastStage
  <2>5. QED
    BY <1>3, <2>2, <2>3, <2>4, RunningStays
<1>7. CASE HandToAdapter
  <2>1. /\ UNCHANGED <<adapted, sent, wire, started, completed>>
        /\ adapted /\ LastStage = "adapter"
    BY <1>7 DEF HandToAdapter, respVars, LastStage
  <2>2. UNCHANGED <<hold["adapter"], stage["adapter"], taken["adapter"], passed["adapter"]>>
    BY <1>7 DEF HandToAdapter, Inv, TypeOK, PipeTypeOK, Stage
  <2>3. UNCHANGED <<hold[LastStage], stage[LastStage], taken[LastStage], passed[LastStage]>>
    BY <2>1, <2>2 DEF LastStage
  <2>4. QED
    BY <1>3, <2>1, <2>2, <2>3, RunningStays
<1>8. ~WriteCancelled
  BY <1>3 DEF WriteCancelled, Running
<1>9. CASE \/ SendHead \/ AnnounceEnds \/ ProviderStops \/ SocketDrains
           \/ CallerLeaves \/ ResponseCloses \/ UNCHANGED vars
  <2>1. UNCHANGED <<adapted, sent, wire, started, completed, hold, stage, taken, passed>>
    BY <1>9 DEF SendHead, AnnounceEnds, ProviderStops, SocketDrains, CallerLeaves,
         ResponseCloses, vars, pipeVars, respVars
  <2>2. UNCHANGED <<hold[LastStage], stage[LastStage], taken[LastStage], passed[LastStage]>>
    BY <2>1 DEF LastStage
  <2>3. QED
    BY <1>3, <2>1, <2>2, RunningStays
<1>10. QED
  BY <1>1, <1>2, <1>4, <1>5, <1>6, <1>7, <1>8, <1>9 DEF Next, Gateway, Environment

(* What the caller was sent while the pump ran is a prefix.                *)
LEMMA ExactIsPrefix ==
  ASSUME Inv, WireIsExact, Running
  PROVE  PrefixKept
<1> DEFINE n == passed[LastStage]
<1>1. /\ n \in 0 .. Len(sent)
      /\ adapted /\ stage["adapter"] = "closed" =>
           stage["transform"] = "closed" /\ n = Len(sent)
  BY DEF Inv, TypeOK, PipeTypeOK, Pipeline, ClosesInOrder, LastStage, Stage
<1>2. /\ \/ Len(wire) = Cardinality(Shown(adapted, sent, n))
         \/ /\ Len(wire) = Cardinality(Shown(adapted, sent, n)) + 1
            /\ wire[Len(wire)] = "done" /\ adapted /\ stage["adapter"] = "closed"
      /\ Carries(wire, adapted, sent, n)
  BY DEF WireIsExact
<1> HIDE DEF n
<1>3. QED
  BY <1>1, <1>2 DEF PrefixKept

(* A pump that is through writes at most the notice it leaves with.        *)
LEMMA PrefixStep ==
  ASSUME Inv, Integrity, [Next]_vars, ~Running'
  PROVE  PrefixKept'
<1>1. CASE ProviderSends
  <2>1. PICK k \in Kind : sent' = Append(sent, k)
    BY <1>1 DEF ProviderSends
  <2>2. UNCHANGED <<adapted, wire, stage>>
    BY <1>1 DEF ProviderSends, pipeVars, respVars
  <2>3. sent \in Seq(Kind) /\ stage["transform"] # "closed"
    BY <1>1 DEF Inv, TypeOK, PipeTypeOK, ClosesInOrder, ProviderSends
  <2>4. PICK n \in 0 .. Len(sent) :
          /\ \/ Len(wire) = Cardinality(Shown(adapted, sent, n))
             \/ /\ Len(wire) = Cardinality(Shown(adapted, sent, n)) + 1
                /\ wire[Len(wire)] = "notice"
          /\ Carries(wire, adapted, sent, n)
    BY <2>3 DEF Integrity, PrefixKept
  <2>5. /\ Shown(adapted, sent', n) = Shown(adapted, sent, n)
        /\ Carries(wire, adapted, sent', n)
    BY <2>1, <2>3, <2>4, ShownSoFar
  <2>6. n \in 0 .. Len(sent')
    BY <2>1, <2>3
  <2>7. QED
    BY <2>2, <2>4, <2>5, <2>6 DEF PrefixKept
<1>2. ASSUME ~ProviderSends
      PROVE  /\ UNCHANGED <<adapted, sent>>
             /\ stage["transform"] = "closed" => stage'["transform"] = "closed"
  <2>1. UNCHANGED <<adapted, sent>>
    BY <1>2 DEF Next, Gateway, Environment, PumpReads, PumpDone, PumpReadFails,
         PumpReleased, ResponseErrors, ProviderStops, SocketDrains, CallerLeaves,
         ResponseCloses, StageReads, StageFinishes, StageInputFails,
         HandToAdapter, WriteCancelled, SendHead, AnnounceEnds, vars
  <2>2. ASSUME stage["transform"] = "closed"
        PROVE  stage'["transform"] = "closed"
    <3>1. stage \in [Stage -> {"reading", "writing", "flushing", "closed", "failed"}]
      BY DEF Inv, TypeOK, PipeTypeOK
    <3>2. \A s \in Stage : StageReads(s) \/ StageFinishes(s) \/ StageInputFails(s) =>
            s = "adapter" /\ stage'["transform"] = stage["transform"]
      BY <2>2, <3>1 DEF StageReads, StageFinishes, StageInputFails, Fail, Stage
    <3>3. CASE HandToAdapter \/ WriteCancelled \/ PumpReads
      BY <2>2, <3>1, <3>3 DEF HandToAdapter, WriteCancelled, PumpReads, Fail, LastStage, Stage
    <3>4. CASE \/ PumpDone \/ PumpReadFails \/ PumpReleased \/ ResponseErrors
               \/ ProviderStops \/ SocketDrains \/ CallerLeaves \/ ResponseCloses
               \/ SendHead \/ AnnounceEnds \/ UNCHANGED vars
      BY <2>2, <3>4 DEF PumpDone, PumpReadFails, PumpReleased, ResponseErrors,
           ProviderStops, SocketDrains, CallerLeaves, ResponseCloses, SendHead,
           AnnounceEnds, vars, pipeVars
    <3>5. QED
      BY <1>2, <2>2, <3>2, <3>3, <3>4 DEF Next, Gateway, Environment
  <2>3. QED
    BY <2>1, <2>2
<1>3. CASE ~ProviderSends /\ wire' = wire
  BY <1>2, <1>3 DEF Integrity, PrefixKept
<1>4. CASE ~ProviderSends /\ wire' # wire
  <2>1. /\ Running /\ HasNotice
        /\ wire' = Append(wire, "notice")
    <3>1. ASSUME NEW how, Settle(how), pump \in {"reading", "parked"}
          PROVE  Running /\ HasNotice /\ wire' = Append(wire, "notice")
      BY <1>4, <3>1, SettleSteps DEF Running
    <3>2. CASE PumpReads
      <4>1. Settle("hangup")
        BY <3>2 DEF PumpReads, Running
      <4>2. QED
        BY <3>1, <3>2, <4>1 DEF PumpReads
    <3>3. CASE PumpDone \/ PumpReadFails \/ PumpReleased \/ ResponseErrors
      BY <3>1, <3>3 DEF PumpDone, PumpReadFails, PumpReleased, ResponseErrors
    <3>4. QED
      BY <1>4, <3>2, <3>3
         DEF Next, Gateway, Environment, ProviderSends, ProviderStops, SocketDrains,
             CallerLeaves, ResponseCloses, StageReads, StageFinishes, StageInputFails,
             HandToAdapter, WriteCancelled, SendHead, AnnounceEnds, vars, respVars
  <2> DEFINE n == passed[LastStage]
  <2>2. n \in 0 .. Len(sent) /\ n \in Nat /\ wire \in Seq(Token)
    BY DEF Inv, TypeOK, PipeTypeOK, ResponseTypeOK, Pipeline, LastStage, Stage
  <2>3. Carries(wire, adapted, sent, n)
    BY <2>1 DEF Integrity, WireIsExact
  <2>4. Len(wire) = Cardinality(Shown(adapted, sent, n))
    <3>1. SUFFICES ASSUME adapted, wire[Len(wire)] = "done",
                          Len(wire) = Cardinality(Shown(adapted, sent, n)) + 1
                   PROVE  FALSE
      BY <2>1 DEF Integrity, WireIsExact
    <3>2. Len(wire) \in DOMAIN wire
      <4>1. Cardinality(Shown(adapted, sent, n)) \in Nat
        BY <2>2, PlacesAreFinite
      <4>2. Len(wire) \in 1 .. Len(wire)
        <5> DEFINE shown == Cardinality(Shown(adapted, sent, n))
                   len == Len(wire)
        <5>1. shown \in Nat /\ len = shown + 1
          BY <3>1, <4>1
        <5> HIDE DEF shown, len
        <5>2. len \in 1 .. len
          BY <5>1
        <5>3. QED
          BY <5>2 DEF len
      <4>3. QED
        BY <2>2, <4>2
    <3>3. completed
      BY <3>1, <3>2 DEF Inv, EndingsKept, Terminal
    <3>4. QED
      BY <2>1, <3>1, <3>3 DEF HasNotice
  <2> HIDE DEF n
  <2>5. Cardinality(Shown(adapted, sent, n)) <= Len(wire) /\ Len(wire) \in Nat
    BY <2>2, <2>4
  <2>6. Carries(wire', adapted, sent, n)
    BY <2>1, <2>2, <2>3, <2>5, CarriesStays
  <2>7. Len(wire') = Len(wire) + 1 /\ wire'[Len(wire')] = "notice"
    BY <2>1, <2>2
  <2>8. QED
    BY <1>2, <1>4, <2>2, <2>4, <2>6, <2>7 DEF PrefixKept
<1>5. QED
  BY <1>1, <1>3, <1>4

(* Every reachable state keeps the stream intact.                          *)
LEMMA IntegrityCorrect == Spec => []Integrity
<1>1. Init => Integrity
  <2> SUFFICES ASSUME Init PROVE Integrity
    OBVIOUS
  <2>1. /\ LastStage \in Stage /\ taken["adapter"] = 0 /\ passed[LastStage] = 0
        /\ stage[LastStage] = "reading" /\ stage["adapter"] = "reading"
        /\ ~started /\ ~completed /\ wire = <<>> /\ sent = <<>>
    BY DEF Init, LastStage, Stage
  <2>2. /\ ~Over(sent, 0 + 1) /\ ~Begun(sent, 0 + 1)
        /\ \A a, chunks : Shown(a, chunks, 0) = {}
    BY DEF Over, Begun, Shown
  <2>3. Cardinality({}) = 0
    BY FS_EmptySet
  <2>4. AdapterKnows
    BY <2>1, <2>2 DEF AdapterKnows
  <2>5. HoldsNext
    BY <2>1 DEF HoldsNext
  <2>6. Len(wire) = Cardinality(Shown(adapted, sent, 0)) /\ Carries(wire, adapted, sent, 0)
    BY <2>1, <2>2, <2>3 DEF Carries
  <2>7. WireIsExact
    BY <2>1, <2>6 DEF WireIsExact
  <2>8. PrefixKept
    <3>1. 0 \in 0 .. Len(sent)
      BY <2>1
    <3>2. QED
      BY <2>6, <3>1 DEF PrefixKept
  <2>9. QED
    BY <2>4, <2>5, <2>7, <2>8 DEF Integrity
<1>2. Inv /\ Integrity /\ [Next]_vars /\ Running' => (AdapterKnows /\ HoldsNext /\ WireIsExact)'
  BY RunningStep
<1>3. Inv /\ Integrity /\ [Next]_vars /\ ~Running' => PrefixKept'
  BY PrefixStep
<1>4. Inv /\ WireIsExact /\ Running => PrefixKept
  BY ExactIsPrefix
<1>5. ~Running => AdapterKnows /\ HoldsNext /\ WireIsExact
  BY DEF AdapterKnows, HoldsNext, WireIsExact
<1>6. Integrity <=> AdapterKnows /\ HoldsNext /\ WireIsExact /\ PrefixKept
  BY DEF Integrity
<1>7. QED
  BY <1>1, <1>2, <1>3, <1>4, <1>5, <1>6, InvCorrect, PTL DEF Spec

(* What the caller has been sent is a prefix of what the provider sent and *)
(* the stages make something of, whatever cut it short and whenever; what  *)
(* comes behind it is the notice, or the completion of a whole stream.     *)
THEOREM StreamIsIntact == Spec => []DeliveredIsPrefix
<1>1. Inv /\ Integrity => DeliveredIsPrefix
  <2> SUFFICES ASSUME Inv, Integrity PROVE DeliveredIsPrefix
    OBVIOUS
  <2>1. stage["transform"] = "closed" => source = "ended"
    BY DEF Inv, ClosesInOrder
  <2>2. QED
    BY <2>1 DEF Integrity, PrefixKept, DeliveredIsPrefix, Place, Carries
<1>2. QED
  BY <1>1, InvCorrect, IntegrityCorrect, PTL
-----------------------------------------------------------------------------
(* That the provider is stopped.  The provers know nothing of what an      *)
(* action can do: CanBeTaken assumes of the two fair actions the argument  *)
(* rests on that each can be taken where its guard stands, which is so by  *)
(* their form.  A read that has come back finds the last stage writing,    *)
(* flushing, closed or failed, and Settle has a case for each of them.     *)
CanBeTaken ==
  /\ EventLoopTurns /\ socketGone /\ ~closed => ENABLED <<ResponseCloses>>_vars
  /\ /\ pump = "reading"
     /\ stage[LastStage] \in {"writing", "flushing", "closed", "failed"}
     => ENABLED <<PumpTurns>>_vars

(* A body is open only while the response is: closing it aborts the fetch, *)
(* or finds a body that had been ended behind a source that had.           *)
OpenWhileUnclosed == closed => source # "open"

LEMMA NeverReopens == [Next]_vars /\ source # "open" => source' # "open"
<1> SUFFICES ASSUME [Next]_vars, source # "open" PROVE source' # "open"
  OBVIOUS
<1>1. CASE Gateway
  BY <1>1 DEF Gateway, StageReads, StageFinishes, StageInputFails,
              HandToAdapter, WriteCancelled, SendHead, PumpReads, PumpDone,
              PumpReadFails, PumpReleased, AnnounceEnds
<1>2. CASE Environment
  BY <1>2 DEF Environment, ProviderSends, ProviderStops, ResponseErrors,
              SocketDrains, CallerLeaves, ResponseCloses, SourceAfterAbort
<1>3. CASE UNCHANGED vars
  BY <1>3 DEF vars
<1> QED
  BY <1>1, <1>2, <1>3 DEF Next

LEMMA EndedBehindTheSource == Inv /\ ended => source # "open"
<1> SUFFICES ASSUME Inv, ended PROVE source # "open"
  OBVIOUS
<1>1. stage[LastStage] = "closed"
  BY DEF Inv, ClosesInOrder
<1> QED
  BY <1>1 DEF Inv, ClosesInOrder, LastStage

LEMMA ClosingStops ==
  ASSUME Inv, ResponseCloses
  PROVE  source' # "open"
BY EndedBehindTheSource DEF ResponseCloses, SourceAfterAbort

LEMMA OpenWhileUnclosedCorrect == Spec => []OpenWhileUnclosed
<1>1. Init => OpenWhileUnclosed
  BY DEF Init, OpenWhileUnclosed
<1>2. Inv /\ OpenWhileUnclosed /\ [Next]_vars => OpenWhileUnclosed'
  <2> SUFFICES ASSUME Inv, OpenWhileUnclosed, [Next]_vars
               PROVE  OpenWhileUnclosed'
    OBVIOUS
  <2>1. CASE ResponseCloses
    BY <2>1, ClosingStops DEF OpenWhileUnclosed
  <2>2. CASE ~ResponseCloses
    <3>1. UNCHANGED closed
      BY <2>2 DEF Next, Gateway, Environment, StageReads, StageFinishes,
                  StageInputFails, HandToAdapter, WriteCancelled, SendHead,
                  PumpReads, PumpDone, PumpReadFails, PumpReleased,
                  AnnounceEnds, ProviderSends, ProviderStops, ResponseErrors,
                  SocketDrains, CallerLeaves, vars
    <3> QED
      BY <3>1, NeverReopens DEF OpenWhileUnclosed
  <2> QED
    BY <2>1, <2>2
<1> QED
  BY <1>1, <1>2, InvCorrect, PTL DEF Spec

(* A provider still sending to a caller who is gone, and where the pump    *)
(* is: at the head, waiting for a chunk, offered one, or elsewhere, from   *)
(* where it does not come back to reading.                                 *)
Unstopped == socketGone /\ source = "open"
AtHead == Unstopped /\ pump = "head"
Waits == Unstopped /\ pump = "reading" /\ stage[LastStage] = "reading"
Offered == Unstopped /\ pump = "reading" /\ stage[LastStage] # "reading"
Elsewhere == Unstopped /\ pump \notin {"head", "reading"}

LEMMA GoneForGood ==
  ASSUME Inv, [Next]_vars, Unstopped
  PROVE  Unstopped' \/ source' # "open"
<1>1. CASE Gateway
  BY <1>1 DEF Gateway, StageReads, StageFinishes, StageInputFails,
              HandToAdapter, WriteCancelled, SendHead, PumpReads, PumpDone,
              PumpReadFails, PumpReleased, AnnounceEnds, Settle, Unstopped,
              respVars
<1>2. CASE Environment
  BY <1>2 DEF Environment, ProviderSends, ProviderStops, ResponseErrors,
              SocketDrains, CallerLeaves, ResponseCloses, Settle, Unstopped,
              respVars
<1>3. CASE UNCHANGED vars
  BY <1>3 DEF vars, respVars, Unstopped
<1> QED
  BY <1>1, <1>2, <1>3 DEF Next

(* Only the head's own step and a drain bring the pump to reading.         *)
LEMMA PumpStaysAway ==
  ASSUME [Next]_vars, socketGone, pump \notin {"head", "reading"}
  PROVE  pump' \notin {"head", "reading"}
<1>1. CASE Gateway
  BY <1>1 DEF Gateway, StageReads, StageFinishes, StageInputFails,
              HandToAdapter, WriteCancelled, SendHead, PumpReads, PumpDone,
              PumpReadFails, PumpReleased, AnnounceEnds, Settle
<1>2. CASE Environment
  BY <1>2 DEF Environment, ProviderSends, ProviderStops, ResponseErrors,
              SocketDrains, CallerLeaves, ResponseCloses, Settle
<1>3. CASE UNCHANGED vars
  BY <1>3 DEF vars
<1> QED
  BY <1>1, <1>2, <1>3 DEF Next

(* With the socket gone the pump writes at most once more.                 *)
LEMMA TurnIsTheLast ==
  ASSUME socketGone, PumpTurns
  PROVE  pump' \notin {"head", "reading"}
BY DEF PumpTurns, PumpReads, PumpDone, PumpReadFails, Settle,
       WriteReturnsFalse

(* Where the pump goes from the head and from a read.                      *)
LEMMA PumpMoves ==
  ASSUME Inv, [Next]_vars, socketGone
  PROVE  /\ pump = "head" \/ pump' # "head"
         /\ /\ pump = "reading" /\ stage[LastStage] # "reading"
            => \/ PumpTurns
               \/ pump' = "reading" /\ stage'[LastStage'] # "reading"
<1>1. ASSUME pump # "head" PROVE pump' # "head"
  <2>1. CASE pump = "reading"
    <3>1. CASE Gateway
      BY <2>1, <3>1 DEF Gateway, StageReads, StageFinishes, StageInputFails,
                  HandToAdapter, WriteCancelled, SendHead, PumpReads,
                  PumpDone, PumpReadFails, PumpReleased, AnnounceEnds, Settle
    <3>2. CASE Environment
      BY <2>1, <3>2 DEF Environment, ProviderSends, ProviderStops,
                  ResponseErrors, SocketDrains, CallerLeaves, ResponseCloses,
                  Settle
    <3> QED
      BY <2>1, <3>1, <3>2 DEF Next, vars
  <2> QED
    BY <1>1, <2>1, PumpStaysAway
<1>2. ASSUME pump = "reading", stage[LastStage] # "reading", ~PumpTurns
      PROVE  pump' = "reading" /\ stage'[LastStage'] # "reading"
  <2>1. stage \in [Stage -> {"reading", "writing", "flushing", "closed",
                             "failed"}]
        /\ LastStage \in Stage
    BY DEF Inv, TypeOK, PipeTypeOK, LastStage, Stage
  <2>2. ASSUME NEW s \in Stage,
               StageReads(s) \/ StageFinishes(s) \/ StageInputFails(s)
        PROVE  pump' = "reading" /\ stage'[LastStage'] # "reading"
    <3>1. stage[s] = "reading" /\ s # LastStage
      BY <1>2, <2>2 DEF StageReads, StageFinishes, StageInputFails
    <3>2. UNCHANGED <<adapted, pump>> /\ stage'[LastStage] = stage[LastStage]
      BY <2>1, <2>2, <3>1 DEF StageReads, StageFinishes, StageInputFails, Fail
    <3> QED
      BY <1>2, <3>2 DEF LastStage
  <2>3. CASE HandToAdapter
    BY <1>2, <2>1, <2>3 DEF HandToAdapter, LastStage
  <2>4. ~WriteCancelled /\ ~SendHead /\ ~PumpReleased /\ ~AnnounceEnds
    BY <1>2 DEF WriteCancelled, SendHead, PumpReleased, AnnounceEnds
  <2>5. ~Environment
    BY <1>2 DEF Environment, ProviderSends, ProviderStops, ResponseErrors,
                SocketDrains, CallerLeaves, ResponseCloses, EventLoopTurns
  <2>6. CASE UNCHANGED vars
    BY <1>2, <2>6 DEF vars, pipeVars, LastStage
  <2> QED
    BY <1>2, <2>2, <2>3, <2>4, <2>5, <2>6 DEF Next, Gateway, PumpTurns
<1> QED
  BY <1>1, <1>2

(* However long the stream and whatever the stages and the buffers hold, a *)
(* provider whose caller has gone is stopped in the end: the pump turns at *)
(* most once more, after which nothing keeps 'close' from being emitted.   *)
THEOREM ProviderStopsInTheEnd == FairSpec /\ []CanBeTaken => ProviderIsStopped
<1> DEFINE Stopped == source # "open"
<1>1. Inv /\ OpenWhileUnclosed /\ CanBeTaken /\ Unstopped /\ EventLoopTurns
        => ENABLED <<ResponseCloses>>_vars
  BY DEF OpenWhileUnclosed, CanBeTaken, Unstopped
<1>2. FairSpec /\ []CanBeTaken =>
        (AtHead ~> Waits \/ Offered \/ Elsewhere \/ Stopped)
  <2>1. Inv /\ AtHead /\ [Next]_vars
          => AtHead' \/ (Waits \/ Offered \/ Elsewhere \/ Stopped)'
    BY GoneForGood DEF AtHead, Waits, Offered, Elsewhere, Unstopped
  <2>2. Inv /\ AtHead /\ <<ResponseCloses>>_vars
          => (Waits \/ Offered \/ Elsewhere \/ Stopped)'
    BY ClosingStops
  <2>3. Inv /\ OpenWhileUnclosed /\ CanBeTaken /\ AtHead
          => ENABLED <<ResponseCloses>>_vars
    BY <1>1 DEF AtHead, EventLoopTurns
  <2> QED
    BY <2>1, <2>2, <2>3, InvCorrect, OpenWhileUnclosedCorrect, PTL
       DEF FairSpec, Spec, Fairness
<1>3. FairSpec /\ []CanBeTaken => (Waits ~> Offered \/ Elsewhere \/ Stopped)
  <2>1. Inv /\ Waits /\ [Next]_vars
          => Waits' \/ (Offered \/ Elsewhere \/ Stopped)'
    BY GoneForGood, PumpMoves DEF Waits, Offered, Elsewhere, Unstopped
  <2>2. Inv /\ Waits /\ <<ResponseCloses>>_vars
          => (Offered \/ Elsewhere \/ Stopped)'
    BY ClosingStops
  <2>3. Inv /\ OpenWhileUnclosed /\ CanBeTaken /\ Waits
          => ENABLED <<ResponseCloses>>_vars
    BY <1>1 DEF Waits, EventLoopTurns
  <2> QED
    BY <2>1, <2>2, <2>3, InvCorrect, OpenWhileUnclosedCorrect, PTL
       DEF FairSpec, Spec, Fairness
<1>4. FairSpec /\ []CanBeTaken => (Offered ~> Elsewhere \/ Stopped)
  <2>1. Inv /\ Offered /\ [Next]_vars => Offered' \/ (Elsewhere \/ Stopped)'
    BY GoneForGood, PumpMoves, TurnIsTheLast
       DEF Offered, Elsewhere, Unstopped
  <2>2. Inv /\ Offered /\ [Next]_vars /\ <<PumpTurns>>_vars
          => (Elsewhere \/ Stopped)'
    BY GoneForGood, TurnIsTheLast DEF Offered, Elsewhere, Unstopped
  <2>3. Inv /\ CanBeTaken /\ Offered => ENABLED <<PumpTurns>>_vars
    BY DEF Inv, TypeOK, PipeTypeOK, LastStage, Stage, CanBeTaken, Offered
  <2> QED
    BY <2>1, <2>2, <2>3, InvCorrect, PTL DEF FairSpec, Spec, Fairness
<1>5. FairSpec /\ []CanBeTaken => (Elsewhere ~> Stopped)
  <2>1. Inv /\ Elsewhere /\ [Next]_vars => Elsewhere' \/ Stopped'
    BY GoneForGood, PumpStaysAway DEF Elsewhere, Unstopped
  <2>2. Inv /\ Elsewhere /\ <<ResponseCloses>>_vars => Stopped'
    BY ClosingStops
  <2>3. Inv /\ OpenWhileUnclosed /\ CanBeTaken /\ Elsewhere
          => ENABLED <<ResponseCloses>>_vars
    BY <1>1 DEF Elsewhere, EventLoopTurns
  <2> QED
    BY <2>1, <2>2, <2>3, InvCorrect, OpenWhileUnclosedCorrect, PTL
       DEF FairSpec, Spec, Fairness
<1>6. socketGone => AtHead \/ Waits \/ Offered \/ Elsewhere \/ Stopped
  BY DEF AtHead, Waits, Offered, Elsewhere, Unstopped
<1> QED
  BY <1>2, <1>3, <1>4, <1>5, <1>6, PTL DEF ProviderIsStopped
=============================================================================
