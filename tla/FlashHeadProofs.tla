-------------------------- MODULE FlashHeadProofs --------------------------
(***************************************************************************)
(* Proofs about FlashHead, for every layout, every set of inputs and       *)
(* pullers, and whichever of the failures (slow worker, crash) may happen. *)
(***************************************************************************)
EXTENDS FlashHead, TLAPS

-----------------------------------------------------------------------------
\* Sequence facts in the form in which the proofs below use them.

LEMMA AppendFacts ==
    ASSUME NEW S, NEW q \in Seq(S), NEW x \in S
    PROVE  /\ Append(q, x) \in Seq(S)
           /\ Len(Append(q, x)) = Len(q) + 1
           /\ Append(q, x)[Len(q) + 1] = x
           /\ \A i \in 1..Len(q) : Append(q, x)[i] = q[i]
    OBVIOUS

LEMMA EmptyFacts ==
    ASSUME NEW S
    PROVE  <<>> \in Seq(S) /\ Len(<<>>) = 0
    OBVIOUS

LEMMA HeadTailFacts ==
    ASSUME NEW S, NEW q \in Seq(S), q # <<>>
    PROVE  /\ Head(q) \in S
           /\ Head(q) = q[1]
           /\ Tail(q) \in Seq(S)
           /\ Len(q) \in Nat \ {0}
           /\ Len(Tail(q)) = Len(q) - 1
           /\ \A i \in 1..Len(Tail(q)) : Tail(q)[i] = q[i + 1]
    OBVIOUS

-----------------------------------------------------------------------------
\* The layout arithmetic of chunk_layout: the division is exact, a chunk holds
\* exactly the audio of its frames, 640 samples for each 40 ms.
LEMMA Layout ==
    /\ SliceLen \in Nat \ {0}
    /\ ChunkSamples = SliceLen * 640
    /\ PushSamples = 320
<1>1. MotionFrames = VaeStride + 1
    BY LayoutAssumption DEF MotionFrames, MotionFramesLatentNum
<1>2. SliceLen \in Nat \ {0}
    BY <1>1, LayoutAssumption DEF SliceLen
<1>3. ASSUME NEW n \in Nat
      PROVE  (n * 16000) \div 25 = n * 640
    BY <1>3
<1> QED
    BY <1>2, <1>3 DEF ChunkSamples, PushSamples, AudioChunkMs

-----------------------------------------------------------------------------
\* The records that enter the queues are well typed.

LEMMA ItemTypes ==
    /\ \A due \in Int, origin \in Nat : AudioItem(due, origin) \in Item
    /\ \A e \in Nat : ResetItem(e) \in Item
    /\ CloseItem \in Item
    BY DEF AudioItem, ResetItem, CloseItem, Item

\* The step from samples to milliseconds stays in the integers.
LEMMA MsIsInt == \A n \in Int : n \div SamplesPerMs \in Int
    BY DEF SamplesPerMs

LEMMA ClockIsInt ==
    ASSUME TypeOK, NEW n \in Int
    PROVE  ClockAt(n) \in Int
    BY MsIsInt DEF ClockAt, TypeOK, AudioChunkMs

\* What a push does to the buffer and to the worker's queue.
LEMMA PushEffect ==
    ASSUME TypeOK, NEW chunk \in Chunks, PushAudio(chunk)
    PROVE  /\ RequireActive
           /\ nextAudioSequence' = nextAudioSequence + 1
           /\ worker' = IF worker = "none" THEN "loading" ELSE worker
           /\ UNCHANGED <<state, epoch, nextVideoSequence, loop, event, framesQ, job, offset,
                          chunkIdx, done, pull, delivered>>
           /\ partialSamples' \in 0..(ChunkSamples - 1)
           /\ silence' \in Int
           /\ \/ workerQ' = workerQ
              \/ \E due \in Int : workerQ' = Append(workerQ, AudioItem(due, epoch))
<1> DEFINE samples == partialSamples + PushSamples
<1>1. /\ RequireActive
      /\ nextAudioSequence' = nextAudioSequence + 1
      /\ worker' = IF worker = "none" THEN "loading" ELSE worker
      /\ UNCHANGED <<state, epoch, nextVideoSequence, loop, event, framesQ, job, offset,
                     chunkIdx, done, pull, delivered>>
    BY DEF PushAudio, EnsureWorker
<1>2. \/ samples >= ChunkSamples /\ TakeFull(samples)
      \/ samples < ChunkSamples /\ chunk.end_of_stream /\ TakePadded(samples)
      \/ samples < ChunkSamples /\ ~chunk.end_of_stream /\ Gather(samples)
    BY DEF PushAudio
<1>3. /\ ChunkSamples \in Nat /\ ChunkSamples >= 640 /\ PushSamples = 320
      /\ partialSamples \in Nat /\ partialSamples < ChunkSamples
      /\ silence \in Int
    BY Layout DEF TypeOK
<1>4. samples \in Nat /\ samples < ChunkSamples + 320
    BY <1>3
<1>5. ClockAt(samples) \in Int
    BY <1>4, ClockIsInt
<1> HIDE DEF samples
<1>6. CASE samples >= ChunkSamples /\ TakeFull(samples)
    <2>1. partialSamples' \in 0..(ChunkSamples - 1)
        BY <1>3, <1>4, <1>6 DEF TakeFull
    <2> QED
        BY <1>1, <1>3, <1>5, <1>6, <2>1 DEF TakeFull
<1>7. CASE samples < ChunkSamples /\ chunk.end_of_stream /\ TakePadded(samples)
    <2>1. partialSamples' \in 0..(ChunkSamples - 1)
        BY <1>3, <1>7 DEF TakePadded
    <2>2. silence' \in Int
        <3>1. (ChunkSamples - samples) \div SamplesPerMs \in Int
            BY <1>3, <1>4, MsIsInt
        <3> QED
            BY <1>3, <1>7, <3>1 DEF TakePadded
    <2> QED
        BY <1>1, <1>5, <1>7, <2>1, <2>2 DEF TakePadded
<1>8. CASE samples < ChunkSamples /\ ~chunk.end_of_stream /\ Gather(samples)
    <2>1. partialSamples' \in 0..(ChunkSamples - 1)
        BY <1>3, <1>4, <1>8 DEF Gather
    <2> QED
        BY <1>1, <1>3, <1>8, <2>1 DEF Gather
<1> QED
    BY <1>2, <1>6, <1>7, <1>8

-----------------------------------------------------------------------------
\* The type invariant is inductive.
LEMMA TypeInit == Init => TypeOK
    BY Layout, ItemTypes, EmptyFacts
    DEF Init, TypeOK, SessionState, LoopStates, WorkerStates

LEMMA TypeStep == TypeOK /\ [Next]_vars => TypeOK'
<1> SUFFICES ASSUME TypeOK, [Next]_vars
             PROVE  TypeOK'
    OBVIOUS
<1> USE DEF TypeOK
<1>1. ASSUME NEW c \in Configs, Start(c)
      PROVE  TypeOK'
    BY <1>1 DEF Start, runtime, thread, SessionState
<1>2. ASSUME NEW chunk \in Chunks, PushAudio(chunk)
      PROVE  TypeOK'
    <2>1. workerQ' \in Seq(Item)
        <3>1. CASE workerQ' = workerQ
            BY <3>1
        <3>2. ASSUME NEW due \in Int, workerQ' = Append(workerQ, AudioItem(due, epoch))
              PROVE  workerQ' \in Seq(Item)
            <4>1. AudioItem(due, epoch) \in Item
                BY ItemTypes
            <4> QED
                BY <3>2, <4>1, AppendFacts
        <3> QED
            BY <1>2, <3>1, <3>2, PushEffect
    <2>2. worker' \in WorkerStates
        BY <1>2, PushEffect DEF WorkerStates
    <2>3. /\ nextAudioSequence' \in Nat
          /\ partialSamples' \in 0..(ChunkSamples - 1)
          /\ silence' \in Int
          /\ UNCHANGED <<state, epoch, nextVideoSequence, loop, event, framesQ, job, offset,
                         chunkIdx, done, pull, delivered>>
        BY <1>2, PushEffect
    <2> QED
        BY <2>1, <2>2, <2>3
<1>3. ASSUME NEW p \in Pullers, NEW mode \in {"untimed", "timed"}, PullStart(p, mode)
      PROVE  TypeOK'
    BY <1>3 DEF PullStart, adapter, runtime, thread
<1>4. ASSUME NEW p \in Pullers, PullFrame(p)
      PROVE  TypeOK'
    <2>1. /\ Head(framesQ) \in Frame
          /\ Tail(framesQ) \in Seq(Frame)
        BY <1>4, HeadTailFacts DEF PullFrame
    <2>2. Stamped(Head(framesQ)) \in
              [epoch : Nat, sequence : Nat, pts_ms : Int, due_ms : Int, origin : Nat]
        BY <2>1 DEF Stamped, Frame
    <2>3. /\ framesQ' = Tail(framesQ)
          /\ delivered' = delivered \cup {Stamped(Head(framesQ))}
          /\ nextVideoSequence' = nextVideoSequence + 1
          /\ pull' = [pull EXCEPT ![p] = "idle"]
          /\ UNCHANGED <<state, epoch, nextAudioSequence, loop, runtime, workerQ, thread, silence>>
        BY <1>4 DEF PullFrame, Returns
    <2> QED
        BY <2>1, <2>2, <2>3 DEF runtime, thread
<1>5. ASSUME NEW p \in Pullers, PullRaises(p) \/ PullTimeout(p)
      PROVE  TypeOK'
    BY <1>5 DEF PullRaises, PullTimeout, Returns, adapter, runtime, thread
<1>6. CASE ResetCall
    BY <1>6 DEF ResetCall, adapter, thread, LoopStates
<1>7. CASE ResetDrainAudio
    BY <1>7, HeadTailFacts DEF ResetDrainAudio, DrainOne, adapter, runtime, thread
<1>8. CASE ResetNoWorker
    BY <1>8, Layout DEF ResetNoWorker, NextEpoch, thread, LoopStates
<1>9. CASE ResetAsk
    <2>1. <<ResetItem(event)>> \in Seq(Item)
        BY ItemTypes
    <2> QED
        BY <1>9, <2>1, Layout DEF ResetAsk, adapter, thread, LoopStates
<1>10. CASE ResetDone \/ ResetTimeout
    BY <1>10 DEF ResetDone, ResetTimeout, adapter, runtime, thread, LoopStates
<1>11. CASE ResetDrainFrames
    BY <1>11, HeadTailFacts DEF ResetDrainFrames, DrainOne, adapter, runtime, thread
<1>12. CASE ResetReturn
    BY <1>12 DEF ResetReturn, NextEpoch, runtime, thread, LoopStates
<1>13. CASE CloseUnopened
    BY <1>13 DEF CloseUnopened, runtime, thread, SessionState
<1>14. CASE CloseCall
    BY <1>14, ItemTypes, AppendFacts DEF CloseCall, AfterCloseCall, adapter, runtime, thread, LoopStates
<1>15. CASE CloseJoin \/ CloseAudioDrained
    BY <1>15 DEF CloseJoin, CloseAudioDrained, adapter, runtime, thread, LoopStates
<1>16. CASE CloseDrainAudio
    BY <1>16, HeadTailFacts DEF CloseDrainAudio, DrainOne, adapter, runtime, thread
<1>17. CASE CloseDrainFrames
    BY <1>17, HeadTailFacts DEF CloseDrainFrames, DrainOne, adapter, runtime, thread
<1>18. CASE CloseReturn
    BY <1>18 DEF CloseReturn, runtime, thread, SessionState, LoopStates
<1>19. CASE WorkerLoads
    BY <1>19 DEF WorkerLoads, adapter, runtime, WorkerStates
<1>20. CASE WorkerGets
    BY <1>20, HeadTailFacts DEF WorkerGets, AfterGet, adapter, runtime, WorkerStates
<1>21. CASE WorkerResets
    BY <1>21 DEF WorkerResets, AfterReset, RestartChunks, Item, adapter, runtime, WorkerStates
<1>22. CASE WorkerEmits
    <2> DEFINE f == [pts_ms |-> FramePts, due_ms |-> job.due_ms + offset * VideoFrameMs,
                     origin |-> job.origin]
    <2>1. FramePts \in Int /\ SliceLen \in Nat \ {0} /\ offset \in Nat
        BY Layout DEF FramePts, VideoFrameMs
    <2>2. f \in Frame
        BY <2>1 DEF Frame, Item, VideoFrameMs
    <2>3. Append(framesQ, f) \in Seq(Frame)
        BY <2>2, AppendFacts
    <2>4. /\ framesQ' = Append(framesQ, f)
          /\ \/ offset' = offset + 1 /\ offset + 1 < SliceLen /\ UNCHANGED <<worker, chunkIdx>>
             \/ offset' = 0 /\ chunkIdx' = chunkIdx + 1 /\ worker' = "idle"
          /\ UNCHANGED <<adapter, loop, runtime, workerQ, job, done, pull, silence, delivered>>
        BY <1>22 DEF WorkerEmits, MoreFrames
    <2>5. offset' \in 0..(SliceLen - 1) /\ chunkIdx' \in Nat /\ worker' \in WorkerStates
        BY <2>1, <2>4 DEF WorkerStates
    <2> HIDE DEF f
    <2> QED
        BY <2>3, <2>4, <2>5 DEF adapter, runtime
<1>23. CASE WorkerCrashes
    BY <1>23 DEF WorkerCrashes, adapter, runtime, WorkerStates
<1>24. CASE UNCHANGED vars
    BY <1>24 DEF vars, adapter, runtime, thread
<1> QED
    BY <1>1, <1>2, <1>3, <1>4, <1>5, <1>6, <1>7, <1>8, <1>9, <1>10, <1>11, <1>12, <1>13,
       <1>14, <1>15, <1>16, <1>17, <1>18, <1>19, <1>20, <1>21, <1>22, <1>23, <1>24
    DEF Next, ResetSteps, CloseSteps, WorkerSteps

\* Every reachable state of the session is well typed: in particular less than
\* one chunk of samples is ever held back.
THEOREM TypeCorrect == Spec => []TypeOK
    BY TypeInit, TypeStep, PTL DEF Spec

-----------------------------------------------------------------------------
(***************************************************************************)
(* Why a frame never crosses a reset.  All audio in the queue, in the      *)
(* worker's hands and in the frames belongs to the running epoch.  The     *)
(* epoch moves only at the end of a reset, and the invariant ResetProtocol *)
(* says that nothing of the old epoch is left by then: while a reset waits *)
(* there is nothing in the queue but its own request; when its event is    *)
(* set the worker is idle; and events of earlier, abandoned resets are     *)
(* never mistaken for it.                                                  *)
(***************************************************************************)

CurrentAudio ==
    /\ \A i \in 1..Len(workerQ) : workerQ[i].kind = "audio" => workerQ[i].origin = epoch
    /\ worker = "generating" => job.origin = epoch

CurrentFrames ==
    /\ \A i \in 1..Len(framesQ) : framesQ[i].origin = epoch
    /\ worker = "none" => framesQ = <<>>

\* The latest event that a reset may have handed to the worker.
LastAsked == IF loop = "resetDrain" THEN event - 1 ELSE event

EventsInOrder ==
    /\ loop = "resetDrain" => event > 0
    /\ done <= LastAsked
    /\ job.event <= LastAsked
    /\ \A i \in 1..Len(workerQ) : workerQ[i].event <= LastAsked

Asked ==
    /\ workerQ = <<ResetItem(event)>>
    /\ worker = "resetting" => job.event # event
    /\ done # event

Handled ==
    /\ workerQ = <<>>
    /\ worker = "resetting" /\ job.event = event
    /\ done # event

Dead == workerQ = <<>> /\ worker = "crashed" /\ done # event

Confirmed == workerQ = <<>> /\ worker = "idle"

ResetProtocol ==
    /\ loop = "resetWait" => \/ Asked \/ Handled \/ Dead
                             \/ Confirmed /\ done = event
    /\ loop = "resetFrames" => Confirmed

IInv == TypeOK /\ CurrentAudio /\ CurrentFrames /\ EventsInOrder /\ ResetProtocol /\ EpochFidelity

\* Taking the head off the worker's queue leaves items that were in it.
LEMMA QueueTail ==
    ASSUME TypeOK, workerQ # <<>>, workerQ' = Tail(workerQ)
    PROVE  /\ Head(workerQ) = workerQ[1] /\ Head(workerQ) \in Item
           /\ 1 \in 1..Len(workerQ)
           /\ \A i \in 1..Len(workerQ') :
                 i + 1 \in 1..Len(workerQ) /\ workerQ'[i] = workerQ[i + 1]
<1>1. workerQ \in Seq(Item)
    BY DEF TypeOK
<1>2. /\ Head(workerQ) = workerQ[1] /\ Head(workerQ) \in Item
      /\ Len(workerQ) \in Nat \ {0}
      /\ Len(workerQ') = Len(workerQ) - 1
      /\ \A i \in 1..Len(workerQ') : workerQ'[i] = workerQ[i + 1]
    BY <1>1, HeadTailFacts
<1> QED
    BY <1>2

\* Putting an item on it adds that item and no other.
LEMMA QueueAppend ==
    ASSUME TypeOK, NEW item \in Item, workerQ' = Append(workerQ, item)
    PROVE  \A i \in 1..Len(workerQ') :
               (i \in 1..Len(workerQ) /\ workerQ'[i] = workerQ[i]) \/ workerQ'[i] = item
<1>1. workerQ \in Seq(Item) /\ Len(workerQ) \in Nat
    BY DEF TypeOK
<1>2. /\ Len(workerQ') = Len(workerQ) + 1
      /\ workerQ'[Len(workerQ) + 1] = item
      /\ \A i \in 1..Len(workerQ) : workerQ'[i] = workerQ[i]
    BY <1>1, AppendFacts
<1> SUFFICES ASSUME NEW i \in 1..Len(workerQ')
             PROVE  (i \in 1..Len(workerQ) /\ workerQ'[i] = workerQ[i]) \/ workerQ'[i] = item
    OBVIOUS
<1>3. i \in 1..Len(workerQ) \/ i = Len(workerQ) + 1
    BY <1>1, <1>2
<1> QED
    BY <1>2, <1>3

LEMMA AudioStep == IInv /\ [Next]_vars => CurrentAudio'
<1> SUFFICES ASSUME IInv, [Next]_vars
             PROVE  CurrentAudio'
    OBVIOUS
<1>0. TypeOK /\ CurrentAudio
    BY DEF IInv
<1>a. ASSUME UNCHANGED <<workerQ, worker, job, epoch>>
      PROVE  CurrentAudio'
    BY <1>0, <1>a DEF CurrentAudio
<1>b. ASSUME workerQ # <<>>, workerQ' = Tail(workerQ), UNCHANGED <<thread, epoch>>
      PROVE  CurrentAudio'
    BY <1>0, <1>b, QueueTail DEF CurrentAudio, thread
<1>c. ASSUME workerQ' = <<>>, worker' # "generating"
      PROVE  CurrentAudio'
    BY <1>c, EmptyFacts DEF CurrentAudio
<1>d. ASSUME UNCHANGED <<workerQ, epoch>>, worker' # "generating"
      PROVE  CurrentAudio'
    BY <1>0, <1>d DEF CurrentAudio
<1>1. ASSUME NEW c \in Configs, Start(c)
      PROVE  CurrentAudio'
    BY <1>1, <1>a DEF Start, thread
<1>2. ASSUME NEW chunk \in Chunks, PushAudio(chunk)
      PROVE  CurrentAudio'
    <2>1. /\ epoch' = epoch /\ job' = job
          /\ worker' = "generating" => worker = "generating"
        BY <1>0, <1>2, PushEffect
    <2>2. CASE workerQ' = workerQ
        BY <1>0, <2>1, <2>2 DEF CurrentAudio
    <2>3. ASSUME NEW due \in Int, workerQ' = Append(workerQ, AudioItem(due, epoch))
          PROVE  CurrentAudio'
        <3>1. AudioItem(due, epoch) \in Item /\ AudioItem(due, epoch).origin = epoch
            BY <1>0, ItemTypes DEF AudioItem, TypeOK
        <3>2. \A i \in 1..Len(workerQ') :
                 (i \in 1..Len(workerQ) /\ workerQ'[i] = workerQ[i])
                   \/ workerQ'[i] = AudioItem(due, epoch)
            BY <1>0, <2>3, <3>1, QueueAppend
        <3> QED
            BY <1>0, <2>1, <3>1, <3>2 DEF CurrentAudio
    <2> QED
        BY <1>0, <1>2, <2>2, <2>3, PushEffect
<1>3. ASSUME NEW p \in Pullers, NEW mode \in {"untimed", "timed"}, PullStart(p, mode)
      PROVE  CurrentAudio'
    BY <1>3, <1>a DEF PullStart, thread, adapter
<1>4. ASSUME NEW p \in Pullers, PullFrame(p) \/ PullRaises(p) \/ PullTimeout(p)
      PROVE  CurrentAudio'
    BY <1>4, <1>a DEF PullFrame, PullRaises, PullTimeout, thread, adapter
<1>5. CASE ResetCall \/ ResetDone \/ ResetTimeout \/ ResetDrainFrames
    BY <1>5, <1>a DEF ResetCall, ResetDone, ResetTimeout, ResetDrainFrames, thread, adapter
<1>6. CASE ResetDrainAudio \/ CloseDrainAudio
    BY <1>6, <1>b DEF ResetDrainAudio, CloseDrainAudio, DrainOne, adapter
<1>7. CASE ResetNoWorker
    BY <1>7, <1>c DEF ResetNoWorker, thread
<1>8. CASE ResetAsk
    <2>1. /\ workerQ' = <<ResetItem(event)>>
          /\ UNCHANGED <<worker, job, epoch>>
        BY <1>8 DEF ResetAsk, thread, adapter
    <2>2. \A i \in 1..Len(workerQ') : workerQ'[i].kind = "reset"
        BY <2>1 DEF ResetItem
    <2> QED
        BY <1>0, <2>1, <2>2 DEF CurrentAudio
<1>9. CASE ResetReturn
    <2>1. workerQ = <<>> /\ worker = "idle"
        BY <1>9 DEF ResetReturn, IInv, ResetProtocol, Confirmed
    <2> QED
        BY <1>9, <1>c, <2>1 DEF ResetReturn, FramesGone, thread
<1>10. CASE CloseUnopened \/ CloseJoin \/ CloseAudioDrained
              \/ CloseDrainFrames \/ CloseReturn
    BY <1>10, <1>a DEF CloseUnopened, CloseJoin, CloseAudioDrained,
        CloseDrainFrames, CloseReturn, thread, adapter
<1>11. CASE CloseCall
    <2>1. UNCHANGED <<worker, job, epoch>>
        BY <1>11 DEF CloseCall, thread, adapter
    <2>2. CASE workerQ' = workerQ
        BY <2>1, <2>2, <1>a
    <2>3. CASE workerQ' = Append(workerQ, CloseItem)
        <3>1. CloseItem \in Item /\ CloseItem.kind = "close"
            BY ItemTypes DEF CloseItem
        <3>2. \A i \in 1..Len(workerQ') :
                 (i \in 1..Len(workerQ) /\ workerQ'[i] = workerQ[i]) \/ workerQ'[i] = CloseItem
            BY <1>0, <2>3, <3>1, QueueAppend
        <3> QED
            BY <1>0, <2>1, <3>1, <3>2 DEF CurrentAudio
    <2> QED
        BY <1>11, <2>2, <2>3 DEF CloseCall
<1>12. CASE WorkerLoads \/ WorkerResets \/ WorkerCrashes
    BY <1>12, <1>d DEF WorkerLoads, WorkerResets, AfterReset, WorkerCrashes, adapter
<1>13. CASE WorkerGets
    <2>1. /\ workerQ # <<>> /\ workerQ' = Tail(workerQ)
          /\ job' = Head(workerQ)
          /\ worker' = AfterGet(Head(workerQ).kind)
          /\ epoch' = epoch
        BY <1>13 DEF WorkerGets, adapter
    <2>2. Head(workerQ).kind \in {"audio", "reset", "close"}
        BY <1>0, <2>1, QueueTail DEF Item
    <2>3. worker' = "generating" => Head(workerQ).kind = "audio"
        BY <2>1, <2>2 DEF AfterGet
    <2> QED
        BY <1>0, <2>1, <2>3, QueueTail DEF CurrentAudio
<1>14. CASE WorkerEmits
    BY <1>0, <1>14 DEF WorkerEmits, CurrentAudio, adapter
<1>15. CASE UNCHANGED vars
    BY <1>15, <1>a DEF vars, thread, adapter
<1> QED
    BY <1>1, <1>2, <1>3, <1>4, <1>5, <1>6, <1>7, <1>8, <1>9, <1>10, <1>11, <1>12, <1>13,
       <1>14, <1>15
    DEF Next, ResetSteps, CloseSteps, WorkerSteps

LEMMA FramesStep == IInv /\ [Next]_vars => CurrentFrames'
<1> SUFFICES ASSUME IInv, [Next]_vars
             PROVE  CurrentFrames'
    OBVIOUS
<1>0. /\ TypeOK /\ CurrentFrames
      /\ framesQ \in Seq(Frame) /\ Len(framesQ) \in Nat
    BY DEF IInv, TypeOK
<1>a. ASSUME UNCHANGED <<framesQ, epoch>>, worker' = "none" => worker = "none"
      PROVE  CurrentFrames'
    BY <1>0, <1>a DEF CurrentFrames
<1>b. ASSUME framesQ # <<>>, framesQ' = Tail(framesQ), UNCHANGED <<worker, epoch>>
      PROVE  CurrentFrames'
    <2>1. /\ Len(framesQ) \in Nat \ {0}
          /\ Len(framesQ') = Len(framesQ) - 1
          /\ \A i \in 1..Len(framesQ') : framesQ'[i] = framesQ[i + 1]
        BY <1>0, <1>b, HeadTailFacts
    <2>2. \A i \in 1..Len(framesQ') : i + 1 \in 1..Len(framesQ)
        BY <2>1
    <2>3. worker' # "none"
        BY <1>0, <1>b DEF CurrentFrames
    <2> QED
        BY <1>0, <1>b, <2>1, <2>2, <2>3 DEF CurrentFrames
<1>c. ASSUME framesQ' = <<>>
      PROVE  CurrentFrames'
    BY <1>c, EmptyFacts DEF CurrentFrames
<1>1. ASSUME NEW c \in Configs, Start(c)
      PROVE  CurrentFrames'
    BY <1>1, <1>a DEF Start, thread
<1>2. ASSUME NEW chunk \in Chunks, PushAudio(chunk)
      PROVE  CurrentFrames'
    BY <1>0, <1>2, <1>a, PushEffect
<1>3. ASSUME NEW p \in Pullers, NEW mode \in {"untimed", "timed"}, PullStart(p, mode)
      PROVE  CurrentFrames'
    BY <1>3, <1>a DEF PullStart, thread, adapter
<1>4. ASSUME NEW p \in Pullers, PullFrame(p)
      PROVE  CurrentFrames'
    BY <1>4, <1>b DEF PullFrame, thread
<1>5. ASSUME NEW p \in Pullers, PullRaises(p) \/ PullTimeout(p)
      PROVE  CurrentFrames'
    BY <1>5, <1>a DEF PullRaises, PullTimeout, thread, adapter
<1>6. CASE ResetCall \/ ResetDone \/ ResetTimeout \/ ResetDrainAudio \/ ResetAsk
    BY <1>6, <1>a DEF ResetCall, ResetDone, ResetTimeout, ResetDrainAudio, ResetAsk, thread, adapter
<1>7. CASE ResetDrainFrames \/ CloseDrainFrames
    BY <1>7, <1>b DEF ResetDrainFrames, CloseDrainFrames, DrainOne, thread, adapter
<1>8. CASE ResetNoWorker
    BY <1>0, <1>8, <1>c DEF ResetNoWorker, CurrentFrames
<1>9. CASE ResetReturn
    BY <1>9, <1>c DEF ResetReturn, FramesGone
<1>10. CASE CloseUnopened \/ CloseCall \/ CloseJoin \/ CloseAudioDrained
              \/ CloseDrainAudio \/ CloseReturn
    BY <1>10, <1>a DEF CloseUnopened, CloseCall, CloseJoin, CloseAudioDrained,
        CloseDrainAudio, CloseReturn, thread, adapter
<1>11. CASE WorkerLoads \/ WorkerResets \/ WorkerCrashes
    BY <1>11, <1>a DEF WorkerLoads, WorkerResets, AfterReset, WorkerCrashes, adapter
<1>12. CASE WorkerGets
    <2>1. worker' # "none"
        BY <1>12 DEF WorkerGets, AfterGet
    <2> QED
        BY <1>12, <1>a, <2>1 DEF WorkerGets, adapter
<1>13. CASE WorkerEmits
    <2> DEFINE f == [pts_ms |-> FramePts, due_ms |-> job.due_ms + offset * VideoFrameMs,
                     origin |-> job.origin]
    <2>1. /\ framesQ' = Append(framesQ, f)
          /\ worker = "generating" /\ worker' # "none" /\ epoch' = epoch
        BY <1>13 DEF WorkerEmits, adapter
    <2>2. f \in Frame /\ f.origin = epoch
        <3>1. job.origin = epoch
            BY <2>1 DEF IInv, CurrentAudio
        <3>2. SliceLen \in Nat /\ offset \in Nat /\ chunkIdx \in Nat /\ job \in Item
            BY <1>0, Layout DEF TypeOK
        <3> QED
            BY <3>1, <3>2 DEF Frame, Item, FramePts, VideoFrameMs
    <2>3. /\ Len(framesQ') = Len(framesQ) + 1
          /\ framesQ'[Len(framesQ) + 1] = f
          /\ \A i \in 1..Len(framesQ) : framesQ'[i] = framesQ[i]
        BY <1>0, <2>1, <2>2, AppendFacts
    <2> HIDE DEF f
    <2> SUFFICES ASSUME NEW i \in 1..Len(framesQ')
                 PROVE  framesQ'[i].origin = epoch'
        BY <2>1 DEF CurrentFrames
    <2>4. i \in 1..Len(framesQ) \/ i = Len(framesQ) + 1
        BY <1>0, <2>3
    <2> QED
        BY <1>0, <2>1, <2>2, <2>3, <2>4 DEF CurrentFrames
<1>14. CASE UNCHANGED vars
    BY <1>14, <1>a DEF vars, thread, adapter
<1> QED
    BY <1>1, <1>2, <1>3, <1>4, <1>5, <1>6, <1>7, <1>8, <1>9, <1>10, <1>11, <1>12, <1>13, <1>14
    DEF Next, ResetSteps, CloseSteps, WorkerSteps

LEMMA EventsStep == IInv /\ [Next]_vars => EventsInOrder'
<1> SUFFICES ASSUME IInv, [Next]_vars
             PROVE  EventsInOrder'
    OBVIOUS
<1>0. TypeOK /\ EventsInOrder
    BY DEF IInv
<1>t. /\ event \in Nat /\ done \in Nat /\ job \in Item /\ job.event \in Nat
      /\ LastAsked \in Int /\ LastAsked >= 0
      /\ \A i \in 1..Len(workerQ) : workerQ[i].event <= LastAsked
      /\ workerQ \in Seq(Item)
    BY <1>0 DEF TypeOK, Item, EventsInOrder, LastAsked
\* Later steps ask for no less than earlier ones.
<1>a. ASSUME LastAsked' \in Int, LastAsked <= LastAsked', loop' = "resetDrain" => event' > 0,
             UNCHANGED <<workerQ, job, done>>
      PROVE  EventsInOrder'
    <2>1. \A i \in 1..Len(workerQ) : workerQ[i] \in Item
        BY <1>t
    <2>2. \A item \in Item : item.event \in Nat
        BY DEF Item
    <2> QED
        BY <1>0, <1>t, <1>a, <2>1, <2>2 DEF EventsInOrder
<1>b. ASSUME UNCHANGED <<loop, event, workerQ, job, done>>
      PROVE  EventsInOrder'
    BY <1>0, <1>b DEF EventsInOrder, LastAsked
<1>c. ASSUME loop # "resetDrain", loop' # "resetDrain", UNCHANGED <<event, workerQ, job, done>>
      PROVE  EventsInOrder'
    BY <1>0, <1>c DEF EventsInOrder, LastAsked
<1>d. ASSUME workerQ # <<>>, workerQ' = Tail(workerQ), UNCHANGED <<loop, event, thread>>
      PROVE  EventsInOrder'
    BY <1>0, <1>d, QueueTail DEF EventsInOrder, LastAsked, thread
<1>e. ASSUME NEW item \in Item, item.event = 0, workerQ' = Append(workerQ, item),
             loop # "resetDrain", loop' # "resetDrain", UNCHANGED <<event, job, done>>
      PROVE  EventsInOrder'
    <2>1. LastAsked' = LastAsked
        BY <1>e DEF LastAsked
    <2>2. \A i \in 1..Len(workerQ') :
              (i \in 1..Len(workerQ) /\ workerQ'[i] = workerQ[i]) \/ workerQ'[i] = item
        BY <1>0, <1>e, QueueAppend
    <2>3. \A i \in 1..Len(workerQ') : workerQ'[i].event <= LastAsked
        BY <1>t, <1>e, <2>2
    <2> QED
        BY <1>0, <1>e, <2>1, <2>3 DEF EventsInOrder
<1>1. ASSUME NEW c \in Configs, Start(c)
      PROVE  EventsInOrder'
    BY <1>1, <1>b DEF Start, thread, runtime
<1>2. ASSUME NEW chunk \in Chunks, PushAudio(chunk)
      PROVE  EventsInOrder'
    <2>1. loop = "ready" /\ loop' = loop /\ UNCHANGED <<event, job, done>>
        BY <1>0, <1>2, PushEffect DEF RequireActive
    <2>2. CASE workerQ' = workerQ
        BY <2>1, <2>2, <1>c
    <2>3. ASSUME NEW due \in Int, workerQ' = Append(workerQ, AudioItem(due, epoch))
          PROVE  EventsInOrder'
        <3>1. AudioItem(due, epoch) \in Item /\ AudioItem(due, epoch).event = 0
            BY <1>0, ItemTypes DEF AudioItem, TypeOK
        <3> QED
            BY <2>1, <2>3, <3>1, <1>e
    <2> QED
        BY <1>0, <1>2, <2>2, <2>3, PushEffect
<1>3. ASSUME NEW p \in Pullers, NEW mode \in {"untimed", "timed"}, PullStart(p, mode)
      PROVE  EventsInOrder'
    BY <1>3, <1>b DEF PullStart, thread, runtime
<1>4. ASSUME NEW p \in Pullers, PullFrame(p) \/ PullRaises(p) \/ PullTimeout(p)
      PROVE  EventsInOrder'
    BY <1>4, <1>b DEF PullFrame, PullRaises, PullTimeout, thread, runtime
<1>5. CASE ResetCall
    <2>1. /\ event' = event + 1 /\ loop' = "resetDrain" /\ loop = "ready"
          /\ UNCHANGED <<workerQ, job, done>>
        BY <1>5 DEF ResetCall, RequireActive, thread
    <2>2. LastAsked = event /\ LastAsked' = event' - 1
        BY <2>1 DEF LastAsked
    <2> QED
        BY <1>t, <2>1, <2>2, <1>a
<1>6. CASE ResetDrainAudio \/ CloseDrainAudio
    BY <1>6, <1>d DEF ResetDrainAudio, CloseDrainAudio, DrainOne, runtime
<1>7. CASE ResetNoWorker
    <2>1. loop = "resetDrain" /\ loop' = "ready" /\ UNCHANGED <<event, workerQ, job, done>>
        BY <1>7 DEF ResetNoWorker, thread
    <2>2. LastAsked = event - 1 /\ LastAsked' = event
        BY <2>1 DEF LastAsked
    <2> QED
        BY <1>t, <2>1, <2>2, <1>a
<1>8. CASE ResetAsk
    <2>1. /\ loop = "resetDrain" /\ loop' = "resetWait" /\ UNCHANGED <<event, job, done>>
          /\ workerQ' = <<ResetItem(event)>>
        BY <1>8 DEF ResetAsk, thread
    <2>2. LastAsked = event - 1 /\ LastAsked' = event
        BY <2>1 DEF LastAsked
    <2>3. \A i \in 1..Len(workerQ') : workerQ'[i].event = event
        BY <2>1 DEF ResetItem
    <2> QED
        BY <1>0, <1>t, <2>1, <2>2, <2>3 DEF EventsInOrder
<1>9. CASE ResetDone \/ ResetTimeout \/ ResetReturn
    BY <1>9, <1>c DEF ResetDone, ResetTimeout, ResetReturn, runtime, thread
<1>10. CASE ResetDrainFrames \/ CloseUnopened \/ CloseDrainFrames
    BY <1>10, <1>b DEF ResetDrainFrames, CloseUnopened, CloseDrainFrames, runtime, thread
<1>11. CASE CloseCall
    <2>1. loop = "ready" /\ loop' # "resetDrain" /\ UNCHANGED <<event, job, done>>
        BY <1>11 DEF CloseCall, AfterCloseCall, RequireActive, runtime, thread
    <2>2. CloseItem \in Item /\ CloseItem.event = 0
        BY ItemTypes DEF CloseItem
    <2>3. workerQ' = workerQ \/ workerQ' = Append(workerQ, CloseItem)
        BY <1>11 DEF CloseCall
    <2> QED
        BY <2>1, <2>2, <2>3, <1>c, <1>e
<1>12. CASE CloseJoin \/ CloseAudioDrained \/ CloseReturn
    BY <1>12, <1>c DEF CloseJoin, CloseAudioDrained, CloseReturn,
        runtime, thread
<1>13. CASE WorkerLoads \/ WorkerEmits \/ WorkerCrashes
    BY <1>13, <1>b DEF WorkerLoads, WorkerEmits, WorkerCrashes, runtime
<1>14. CASE WorkerGets
    <2>1. /\ workerQ # <<>> /\ workerQ' = Tail(workerQ) /\ job' = Head(workerQ)
          /\ UNCHANGED <<loop, event, done>>
        BY <1>14 DEF WorkerGets, runtime
    <2> QED
        BY <1>0, <2>1, QueueTail DEF EventsInOrder, LastAsked
<1>15. CASE WorkerResets
    <2>1. done' = job.event /\ UNCHANGED <<loop, event, workerQ, job>>
        BY <1>15 DEF WorkerResets, runtime
    <2> QED
        BY <1>0, <2>1 DEF EventsInOrder, LastAsked
<1>16. CASE UNCHANGED vars
    BY <1>16, <1>b DEF vars, thread, runtime
<1> QED
    BY <1>1, <1>2, <1>3, <1>4, <1>5, <1>6, <1>7, <1>8, <1>9, <1>10, <1>11, <1>12, <1>13,
       <1>14, <1>15, <1>16
    DEF Next, ResetSteps, CloseSteps, WorkerSteps

LEMMA ProtocolStep == IInv /\ [Next]_vars => ResetProtocol'
<1> SUFFICES ASSUME IInv, [Next]_vars
             PROVE  ResetProtocol'
    OBVIOUS
<1>0. TypeOK /\ EventsInOrder /\ ResetProtocol
    BY DEF IInv
<1>a. ASSUME loop' \notin {"resetWait", "resetFrames"}
      PROVE  ResetProtocol'
    BY <1>a DEF ResetProtocol
<1>b. ASSUME UNCHANGED <<loop, event, workerQ, worker, job, done>>
      PROVE  ResetProtocol'
    BY <1>0, <1>b DEF ResetProtocol, Asked, Handled, Dead, Confirmed, ResetItem
<1>1. ASSUME NEW c \in Configs, Start(c)
      PROVE  ResetProtocol'
    BY <1>1, <1>b DEF Start, thread, runtime
<1>2. ASSUME NEW chunk \in Chunks, PushAudio(chunk)
      PROVE  ResetProtocol'
    BY <1>0, <1>2, <1>a, PushEffect DEF RequireActive
<1>3. ASSUME NEW p \in Pullers, NEW mode \in {"untimed", "timed"}, PullStart(p, mode)
      PROVE  ResetProtocol'
    BY <1>3, <1>b DEF PullStart, thread, runtime
<1>4. ASSUME NEW p \in Pullers, PullFrame(p) \/ PullRaises(p) \/ PullTimeout(p)
      PROVE  ResetProtocol'
    BY <1>4, <1>b DEF PullFrame, PullRaises, PullTimeout, thread, runtime
<1>5. CASE ResetCall \/ ResetDrainAudio \/ ResetNoWorker \/ ResetTimeout \/ ResetReturn
    BY <1>5, <1>a DEF ResetCall, ResetDrainAudio, ResetNoWorker, ResetTimeout, ResetReturn
<1>6. CASE ResetAsk
    <2>1. /\ loop = "resetDrain" /\ loop' = "resetWait" /\ workerQ' = <<ResetItem(event)>>
          /\ UNCHANGED <<event, worker, job, done>>
        BY <1>6 DEF ResetAsk, thread
    <2>2. event \in Nat /\ job.event \in Nat /\ done \in Nat
        BY <1>0 DEF TypeOK, Item
    <2>3. job.event # event /\ done # event
        BY <1>0, <2>1, <2>2 DEF EventsInOrder, LastAsked
    <2> QED
        BY <2>1, <2>3 DEF ResetProtocol, Asked, ResetItem
<1>7. CASE ResetDone
    BY <1>0, <1>7 DEF ResetDone, Answered, ResetProtocol, Asked, Handled, Dead, Confirmed, thread, runtime
<1>8. CASE ResetDrainFrames
    BY <1>8, <1>b DEF ResetDrainFrames, thread, runtime
<1>9. CASE CloseUnopened
    BY <1>9, <1>a DEF CloseUnopened
<1>10. CASE CloseCall \/ CloseJoin \/ CloseDrainAudio
              \/ CloseAudioDrained \/ CloseDrainFrames \/ CloseReturn
    BY <1>10, <1>a DEF CloseCall, AfterCloseCall, CloseJoin, CloseDrainAudio,
        CloseAudioDrained, CloseDrainFrames, CloseReturn
<1>11. CASE WorkerLoads
    BY <1>0, <1>11 DEF WorkerLoads, runtime, ResetProtocol, Asked, Handled, Dead, Confirmed,
        ResetItem
<1>12. CASE WorkerGets
    <2>1. /\ worker = "idle" /\ workerQ # <<>>
          /\ job' = Head(workerQ) /\ workerQ' = Tail(workerQ)
          /\ worker' = AfterGet(Head(workerQ).kind)
          /\ UNCHANGED <<loop, event, done>>
        BY <1>12 DEF WorkerGets, runtime
    <2>2. loop # "resetFrames"
        BY <1>0, <2>1 DEF ResetProtocol, Confirmed
    <2>3. ASSUME loop = "resetWait"
          PROVE  Handled'
        <3>1. Asked
            BY <1>0, <2>1, <2>3 DEF ResetProtocol, Handled, Dead, Confirmed
        <3>2. Head(workerQ) = ResetItem(event) /\ Tail(workerQ) = <<>>
            BY <3>1 DEF Asked
        <3> QED
            BY <2>1, <3>1, <3>2 DEF Asked, Handled, AfterGet, ResetItem
    <2> QED
        BY <2>1, <2>2, <2>3 DEF ResetProtocol
<1>13. CASE WorkerResets
    <2>1. /\ worker = "resetting" /\ worker' = "idle" /\ done' = job.event
          /\ UNCHANGED <<loop, event, workerQ, job>>
        BY <1>13 DEF WorkerResets, AfterReset, runtime
    <2>2. loop # "resetFrames"
        BY <1>0, <2>1 DEF ResetProtocol, Confirmed
    <2>3. ASSUME loop = "resetWait"
          PROVE  Asked' \/ (Confirmed /\ done = event)'
        <3>1. Asked \/ Handled
            BY <1>0, <2>1, <2>3 DEF ResetProtocol, Dead, Confirmed
        <3> QED
            BY <2>1, <3>1 DEF Asked, Handled, Confirmed, ResetItem
    <2> QED
        BY <2>1, <2>2, <2>3 DEF ResetProtocol
<1>14. CASE WorkerEmits
    <2>1. /\ worker = "generating" /\ worker' \in {"generating", "idle"}
          /\ UNCHANGED <<loop, event, workerQ, job, done>>
        BY <1>14 DEF WorkerEmits, runtime
    <2> QED
        BY <1>0, <2>1 DEF ResetProtocol, Asked, Handled, Dead, Confirmed, ResetItem
<1>15. CASE WorkerCrashes
    <2>1. /\ worker \in {"loading", "generating", "resetting"} /\ worker' = "crashed"
          /\ UNCHANGED <<loop, event, workerQ, job, done>>
        BY <1>15 DEF WorkerCrashes, runtime
    <2> QED
        BY <1>0, <2>1 DEF ResetProtocol, Asked, Handled, Dead, Confirmed, ResetItem
<1>16. CASE UNCHANGED vars
    BY <1>16, <1>b DEF vars, thread, runtime
<1> QED
    BY <1>1, <1>2, <1>3, <1>4, <1>5, <1>6, <1>7, <1>8, <1>9, <1>10, <1>11, <1>12, <1>13,
       <1>14, <1>15, <1>16
    DEF Next, ResetSteps, CloseSteps, WorkerSteps

\* Only a pull delivers, and what it takes was made in the epoch it is stamped with.
LEMMA FidelityStep == IInv /\ [Next]_vars => EpochFidelity'
<1> SUFFICES ASSUME IInv, [Next]_vars
             PROVE  EpochFidelity'
    OBVIOUS
<1>0. TypeOK /\ CurrentFrames /\ EpochFidelity
    BY DEF IInv
<1>1. ASSUME NEW p \in Pullers, PullFrame(p)
      PROVE  EpochFidelity'
    <2>1. framesQ # <<>> /\ delivered' = delivered \cup {Stamped(Head(framesQ))}
        BY <1>1 DEF PullFrame
    <2>2. Head(framesQ).origin = epoch
        <3>1. framesQ \in Seq(Frame)
            BY <1>0 DEF TypeOK
        <3>2. Head(framesQ) = framesQ[1] /\ Len(framesQ) \in Nat \ {0}
            BY <2>1, <3>1, HeadTailFacts
        <3> QED
            BY <1>0, <3>2 DEF CurrentFrames
    <2> QED
        BY <1>0, <2>1, <2>2 DEF EpochFidelity, Stamped
<1>2. ASSUME UNCHANGED delivered
      PROVE  EpochFidelity'
    BY <1>0, <1>2 DEF EpochFidelity
<1>3. ASSUME NEW chunk \in Chunks, PushAudio(chunk)
      PROVE  UNCHANGED delivered
    BY <1>0, <1>3, PushEffect
<1>4. CASE \/ \E c \in Configs : Start(c)
           \/ \E p \in Pullers, mode \in {"untimed", "timed"} : PullStart(p, mode)
           \/ \E p \in Pullers : PullRaises(p) \/ PullTimeout(p)
    BY <1>2, <1>4 DEF Start, PullStart, PullRaises, PullTimeout
<1>5. CASE ResetCall \/ ResetSteps
    BY <1>2, <1>5 DEF ResetCall, ResetSteps, ResetDrainAudio, ResetNoWorker, ResetAsk,
        ResetDone, ResetTimeout, ResetDrainFrames, ResetReturn
<1>6. CASE CloseUnopened \/ CloseCall \/ CloseSteps
    BY <1>2, <1>6 DEF CloseUnopened, CloseCall, CloseSteps, CloseJoin,
        CloseDrainAudio, CloseAudioDrained, CloseDrainFrames, CloseReturn
<1>7. CASE WorkerSteps \/ WorkerCrashes
    BY <1>2, <1>7 DEF WorkerSteps, WorkerLoads, WorkerGets, WorkerResets, WorkerEmits,
        WorkerCrashes
<1>8. CASE UNCHANGED vars
    BY <1>2, <1>8 DEF vars
<1> QED
    BY <1>1, <1>2, <1>3, <1>4, <1>5, <1>6, <1>7, <1>8 DEF Next

LEMMA InvInit == Init => IInv
<1> SUFFICES ASSUME Init
             PROVE  IInv
    OBVIOUS
<1>1. TypeOK
    BY TypeInit
<1>2. CurrentAudio /\ CurrentFrames
    BY EmptyFacts DEF Init, CurrentAudio, CurrentFrames
<1>3. EventsInOrder
    BY EmptyFacts DEF Init, EventsInOrder, LastAsked, CloseItem
<1>4. ResetProtocol /\ EpochFidelity
    BY DEF Init, ResetProtocol, EpochFidelity
<1> QED
    BY <1>1, <1>2, <1>3, <1>4 DEF IInv

LEMMA InvStep == IInv /\ [Next]_vars => IInv'
<1> SUFFICES ASSUME IInv, [Next]_vars
             PROVE  IInv'
    OBVIOUS
<1>1. TypeOK'
    BY TypeStep DEF IInv
<1> QED
    BY <1>1, AudioStep, FramesStep, EventsStep, ProtocolStep, FidelityStep DEF IInv

\* The strengthening is invariant, however slow the worker is and wherever it
\* dies.
THEOREM Invariance == Spec => []IInv
    BY InvInit, InvStep, PTL DEF Spec

\* Whatever resets, slow or dying workers and concurrent pulls do, a frame is
\* only delivered in the epoch whose audio it was made from
\* (flashhead.py:116-122, flashhead_runtime.py:132-146).
THEOREM EpochFidelityCorrect == Spec => []EpochFidelity
<1>1. IInv => EpochFidelity
    BY DEF IInv
<1> QED
    BY <1>1, Invariance, PTL

-----------------------------------------------------------------------------
(***************************************************************************)
(* Why the event loop never waits for an answer that nobody gives.  The    *)
(* worker ends only at a request to stop, and such a request is there only *)
(* once close was called, after which no reset can be; and close does not  *)
(* start to wait before its request is in the queue.                       *)
(***************************************************************************)
CloseUnderWay == loop \in {"closeJoin", "closeAudio", "closeFrames"}

ToldToStop == \E i \in 1..Len(workerQ) : workerQ[i].kind = "close"

StateWhileBusy == loop # "ready" => state = "active"

OnlyCloseEnds == worker = "exited" \/ ToldToStop => CloseUnderWay \/ state = "closed"

WorkerThere == worker = "none" => loop \notin {"resetWait", "resetFrames", "closeJoin"}

JoinIsTold == loop = "closeJoin" => worker \in {"exited", "crashed"} \/ ToldToStop

Ending == StateWhileBusy /\ OnlyCloseEnds /\ WorkerThere /\ JoinIsTold

LEMMA EndingInit == Init => Ending
    BY DEF Init, Ending, StateWhileBusy, OnlyCloseEnds, WorkerThere, JoinIsTold, ToldToStop

\* Steps on which nothing of it depends.
LEMMA EndingKept ==
    ASSUME Ending, UNCHANGED <<state, loop, workerQ, worker>>
    PROVE  Ending'
    BY DEF Ending, StateWhileBusy, OnlyCloseEnds, WorkerThere, JoinIsTold, ToldToStop, CloseUnderWay

LEMMA EndingPush ==
    ASSUME TypeOK, Ending, NEW chunk \in Chunks, PushAudio(chunk)
    PROVE  Ending'
<1>1. /\ loop = "ready" /\ loop' = "ready" /\ state' = "active" /\ state = "active"
      /\ worker' = IF worker = "none" THEN "loading" ELSE worker
      /\ \/ workerQ' = workerQ
         \/ \E due \in Int : workerQ' = Append(workerQ, AudioItem(due, epoch))
    BY PushEffect DEF RequireActive
<1>2. worker # "exited" /\ ~ToldToStop
    BY <1>1 DEF Ending, OnlyCloseEnds, CloseUnderWay
<1>3. ~ToldToStop'
    <2>1. CASE workerQ' = workerQ
        BY <1>2, <2>1 DEF ToldToStop
    <2>2. ASSUME NEW due \in Int, workerQ' = Append(workerQ, AudioItem(due, epoch))
          PROVE  ~ToldToStop'
        <3>1. AudioItem(due, epoch) \in Item /\ AudioItem(due, epoch).kind # "close"
            BY DEF TypeOK, AudioItem, Item
        <3> QED
            BY <1>2, <2>2, <3>1, QueueAppend DEF ToldToStop
    <2> QED
        BY <1>1, <2>1, <2>2
<1>4. worker' # "exited"
    BY <1>1, <1>2
<1> QED
    BY <1>1, <1>3, <1>4 DEF Ending, StateWhileBusy, OnlyCloseEnds, WorkerThere, JoinIsTold

\* Taking or dropping the oldest item.
LEMMA ToldLess ==
    ASSUME TypeOK, workerQ # <<>>, workerQ' = Tail(workerQ)
    PROVE  /\ ToldToStop' => ToldToStop
           /\ ToldToStop => ToldToStop' \/ Head(workerQ).kind = "close"
           /\ Head(workerQ).kind = "close" => ToldToStop
<1>1. workerQ \in Seq(Item)
    BY DEF TypeOK
<1> PICK n \in Nat : Len(workerQ) = n + 1 /\ n = Len(workerQ) - 1
    <2>1. Len(workerQ) \in Nat \ {0}
        BY <1>1, HeadTailFacts
    <2>2. Len(workerQ) - 1 \in Nat /\ Len(workerQ) = (Len(workerQ) - 1) + 1
        BY <2>1
    <2> QED
        BY <2>2
<1>2. /\ Head(workerQ) = workerQ[1] /\ Len(workerQ') = n
      /\ \A i \in 1..n : workerQ'[i] = workerQ[i + 1]
    BY <1>1, HeadTailFacts
<1>3. \A i \in 1..n : i + 1 \in 1..(n + 1)
    OBVIOUS
<1>4. \A i \in 1..(n + 1) : i = 1 \/ (i - 1 \in 1..n /\ (i - 1) + 1 = i)
    OBVIOUS
<1>5. ToldToStop' => ToldToStop
    BY <1>2, <1>3 DEF ToldToStop
<1>6. ASSUME NEW i \in 1..(n + 1), workerQ[i].kind = "close", i # 1
      PROVE  ToldToStop'
    <2>1. i - 1 \in 1..n /\ workerQ'[i - 1] = workerQ[i]
        BY <1>2, <1>4, <1>6
    <2> QED
        BY <1>2, <1>6, <2>1 DEF ToldToStop
<1>7. 1 \in 1..(n + 1)
    OBVIOUS
<1> QED
    BY <1>2, <1>5, <1>6, <1>7 DEF ToldToStop

LEMMA EndingReset ==
    ASSUME TypeOK, Ending, ResetCall \/ ResetSteps
    PROVE  Ending'
<1>1. CASE ResetCall
    BY <1>1 DEF ResetCall, RequireActive, adapter, thread, Ending, StateWhileBusy,
        OnlyCloseEnds, WorkerThere, JoinIsTold, ToldToStop, CloseUnderWay
<1>2. CASE ResetDrainAudio
    <2>1. /\ loop = "resetDrain" /\ UNCHANGED <<state, loop, worker>>
          /\ workerQ # <<>> /\ workerQ' = Tail(workerQ)
        BY <1>2 DEF ResetDrainAudio, DrainOne, adapter, thread
    <2>2. ToldToStop' => ToldToStop
        BY <2>1, ToldLess
    <2> QED
        BY <2>1, <2>2 DEF Ending, StateWhileBusy, OnlyCloseEnds, WorkerThere, JoinIsTold, CloseUnderWay
<1>3. CASE ResetAsk
    <2>1. /\ loop = "resetDrain" /\ loop' = "resetWait" /\ worker # "none"
          /\ UNCHANGED <<state, worker>> /\ workerQ' = <<ResetItem(event)>>
        BY <1>3 DEF ResetAsk, adapter, thread
    <2>2. ~ToldToStop'
        <3>1. ResetItem(event).kind # "close"
            BY DEF ResetItem
        <3>2. Len(workerQ') = 1 /\ workerQ'[1] = ResetItem(event)
            BY <2>1
        <3> QED
            BY <3>1, <3>2 DEF ToldToStop
    <2> QED
        BY <2>1, <2>2 DEF Ending, StateWhileBusy, OnlyCloseEnds, WorkerThere, JoinIsTold, CloseUnderWay
<1>4. CASE ResetNoWorker \/ ResetDone \/ ResetTimeout \/ ResetDrainFrames \/ ResetReturn
    <2>1. /\ loop \in {"resetDrain", "resetWait", "resetFrames"}
          /\ loop' \in {"ready", "resetFrames"}
          /\ loop' = "resetFrames" => loop \in {"resetWait", "resetFrames"}
          /\ UNCHANGED <<state, worker, workerQ>>
        BY <1>4 DEF ResetNoWorker, ResetDone, ResetTimeout, ResetDrainFrames, ResetReturn,
            adapter, thread
    <2>2. ToldToStop' = ToldToStop
        BY <2>1 DEF ToldToStop
    <2> QED
        BY <2>1, <2>2 DEF Ending, StateWhileBusy, OnlyCloseEnds, WorkerThere, JoinIsTold, CloseUnderWay
<1> QED
    BY <1>1, <1>2, <1>3, <1>4 DEF ResetSteps

LEMMA EndingClose ==
    ASSUME TypeOK, Ending, CloseUnopened \/ CloseCall \/ CloseSteps
    PROVE  Ending'
<1>1. CASE CloseUnopened
    BY <1>1 DEF CloseUnopened, thread, Ending, StateWhileBusy, OnlyCloseEnds, WorkerThere,
        JoinIsTold, ToldToStop, CloseUnderWay
<1>2. CASE CloseCall
    <2>1. /\ state = "active" /\ UNCHANGED <<state, worker>>
          /\ loop' = IF worker = "none" THEN "closeAudio" ELSE "closeJoin"
          /\ workerQ' = IF worker = "none" THEN workerQ ELSE Append(workerQ, CloseItem)
        BY <1>2 DEF CloseCall, AfterCloseCall, RequireActive, adapter, thread
    <2>2. worker # "none" => ToldToStop'
        <3> SUFFICES ASSUME worker # "none"
                     PROVE  ToldToStop'
            OBVIOUS
        <3>1. workerQ \in Seq(Item) /\ CloseItem \in Item
            BY ItemTypes DEF TypeOK
        <3>2. /\ Len(workerQ) \in Nat /\ Len(workerQ') = Len(workerQ) + 1
              /\ workerQ'[Len(workerQ) + 1] = CloseItem
            BY <2>1, <3>1, AppendFacts
        <3>3. Len(workerQ) + 1 \in 1..Len(workerQ')
            BY <3>2
        <3> QED
            BY <3>2, <3>3 DEF ToldToStop, CloseItem
    <2> QED
        BY <2>1, <2>2 DEF Ending, StateWhileBusy, OnlyCloseEnds, WorkerThere, JoinIsTold, CloseUnderWay
<1>3. CASE CloseJoin \/ CloseAudioDrained \/ CloseDrainFrames
    <2>1. /\ CloseUnderWay /\ loop' \in {"closeAudio", "closeFrames"}
          /\ UNCHANGED <<state, worker>>
        BY <1>3 DEF CloseJoin, CloseAudioDrained, CloseDrainFrames, CloseUnderWay, adapter, thread
    <2> QED
        BY <2>1 DEF Ending, StateWhileBusy, OnlyCloseEnds, WorkerThere, JoinIsTold, CloseUnderWay
<1>4. CASE CloseDrainAudio
    <2>1. loop = "closeAudio" /\ UNCHANGED <<state, loop, worker>>
        BY <1>4 DEF CloseDrainAudio, adapter, thread
    <2> QED
        BY <2>1 DEF Ending, StateWhileBusy, OnlyCloseEnds, WorkerThere, JoinIsTold, CloseUnderWay
<1>5. CASE CloseReturn
    <2>1. state' = "closed" /\ loop' = "ready"
        BY <1>5 DEF CloseReturn
    <2> QED
        BY <2>1 DEF Ending, StateWhileBusy, OnlyCloseEnds, WorkerThere, JoinIsTold
<1> QED
    BY <1>1, <1>2, <1>3, <1>4, <1>5 DEF CloseSteps

LEMMA EndingWorker ==
    ASSUME TypeOK, Ending, WorkerSteps \/ WorkerCrashes
    PROVE  Ending'
<1>1. CASE WorkerGets
    <2>1. /\ worker = "idle" /\ workerQ # <<>> /\ workerQ' = Tail(workerQ)
          /\ UNCHANGED <<state, loop>>
          /\ worker' = AfterGet(Head(workerQ).kind)
        BY <1>1 DEF WorkerGets, adapter
    <2>2. /\ worker' \in {"exited", "resetting", "generating"}
          /\ worker' = "exited" <=> Head(workerQ).kind = "close"
        BY <2>1 DEF AfterGet
    <2>3. /\ ToldToStop' => ToldToStop
          /\ ToldToStop => ToldToStop' \/ Head(workerQ).kind = "close"
          /\ Head(workerQ).kind = "close" => ToldToStop
        BY <2>1, ToldLess
    <2> QED
        BY <2>1, <2>2, <2>3 DEF Ending, StateWhileBusy, OnlyCloseEnds, WorkerThere, JoinIsTold,
            CloseUnderWay
<1>2. CASE WorkerLoads \/ WorkerResets \/ WorkerEmits \/ WorkerCrashes
    <2>1. /\ worker \in {"loading", "resetting", "generating"}
          /\ worker' \in {"idle", "generating", "crashed"}
          /\ UNCHANGED <<state, loop, workerQ>>
        BY <1>2 DEF WorkerLoads, WorkerResets, AfterReset, WorkerEmits, WorkerCrashes, adapter
    <2>2. ToldToStop' = ToldToStop
        BY <2>1 DEF ToldToStop
    <2> QED
        BY <2>1, <2>2 DEF Ending, StateWhileBusy, OnlyCloseEnds, WorkerThere, JoinIsTold, CloseUnderWay
<1> QED
    BY <1>1, <1>2 DEF WorkerSteps

LEMMA EndingStep == TypeOK /\ Ending /\ [Next]_vars => Ending'
<1> SUFFICES ASSUME TypeOK, Ending, [Next]_vars
             PROVE  Ending'
    OBVIOUS
<1>1. ASSUME NEW c \in Configs, Start(c)
      PROVE  Ending'
    BY <1>1 DEF Start, thread, Ending, StateWhileBusy, OnlyCloseEnds, WorkerThere, JoinIsTold,
        ToldToStop, CloseUnderWay
<1>2. ASSUME NEW p \in Pullers, NEW mode \in {"untimed", "timed"}, PullStart(p, mode)
      PROVE  Ending'
    BY <1>2, EndingKept DEF PullStart, adapter, thread
<1>3. ASSUME NEW p \in Pullers, PullFrame(p) \/ PullRaises(p) \/ PullTimeout(p)
      PROVE  Ending'
    BY <1>3, EndingKept DEF PullFrame, PullRaises, PullTimeout, adapter, thread
<1>4. CASE UNCHANGED vars
    BY <1>4, EndingKept DEF vars, adapter, thread
<1> QED
    BY <1>1, <1>2, <1>3, <1>4, EndingPush, EndingReset, EndingClose, EndingWorker DEF Next

LEMMA EndingHolds == Spec => []Ending
    BY EndingInit, EndingStep, TypeCorrect, PTL DEF Spec

\* The event loop never blocks on an answer that nobody will give: in a reset
\* that waits, the request is queued or in hand unless it is answered or the
\* worker has died; in a close that waits, the worker has ended or will come to
\* a request to stop (flashhead_runtime.py:132-146, 148-154, 247-280).
THEOREM WaitsAnsweredCorrect == Spec => []WaitsAnswered
<1>1. IInv /\ Ending => WaitsAnswered
    <2> SUFFICES ASSUME IInv, Ending
                 PROVE  WaitsAnswered
        OBVIOUS
    <2>0. worker \in WorkerStates /\ ResetProtocol
        BY DEF IInv, TypeOK
    <2>1. ASSUME loop = "resetWait"
          PROVE  \/ Answered
                 \/ worker = "crashed"
                 \/ worker = "resetting" /\ job.event = event
                 \/ AtWork /\ \E i \in 1..Len(workerQ) : workerQ[i] = ResetItem(event)
        <3>1. worker # "none" /\ worker # "exited"
            BY <2>1, <2>0
            DEF Ending, StateWhileBusy, OnlyCloseEnds, WorkerThere, CloseUnderWay
        <3>2. ASSUME Asked, worker # "crashed"
              PROVE  AtWork /\ \E i \in 1..Len(workerQ) : workerQ[i] = ResetItem(event)
            <4>1. AtWork
                BY <2>0, <3>1, <3>2 DEF AtWork, WorkerStates
            <4>2. workerQ = <<ResetItem(event)>>
                BY <3>2 DEF Asked
            <4>3. 1 \in 1..Len(workerQ) /\ workerQ[1] = ResetItem(event)
                BY <4>2
            <4> QED
                BY <4>1, <4>3
        <3> QED
            BY <2>0, <2>1, <3>2 DEF ResetProtocol, Handled, Dead, Confirmed, Answered
    <2>2. ASSUME loop = "closeJoin"
          PROVE  \/ worker \in {"exited", "crashed"}
                 \/ AtWork /\ \E i \in 1..Len(workerQ) : workerQ[i].kind = "close"
        BY <2>0, <2>2 DEF Ending, WorkerThere, JoinIsTold, ToldToStop, AtWork, WorkerStates
    <2> QED
        BY <2>1, <2>2 DEF WaitsAnswered
<1> QED
    BY <1>1, EndingHolds, Invariance, PTL
=============================================================================
