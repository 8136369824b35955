------------------------- MODULE LiveTalkingProofs --------------------------
(***************************************************************************)
(* Proofs about LiveTalkingBridge, for every set of chunks, updates and    *)
(* pullers, with and without timeouts, and every number of resets.         *)
(***************************************************************************)
EXTENDS LiveTalkingBridge, SequenceTheorems, TLAPS

-----------------------------------------------------------------------------
\* Sequence facts in the form in which the proofs below use them.

LEMMA AppendFacts ==
    ASSUME NEW S, NEW q \in Seq(S), NEW x \in S
    PROVE  /\ Append(q, x) \in Seq(S)
           /\ Len(q) \in Nat
           /\ Len(Append(q, x)) = Len(q) + 1
           /\ Append(q, x)[Len(q) + 1] = x
           /\ \A i \in 1..Len(q) : Append(q, x)[i] = q[i]
           /\ DOMAIN q = 1..Len(q)
           /\ DOMAIN Append(q, x) = 1..(Len(q) + 1)
    OBVIOUS

LEMMA EmptyFacts ==
    ASSUME NEW S
    PROVE  <<>> \in Seq(S) /\ Len(<<>>) = 0 /\ DOMAIN <<>> = {}
    OBVIOUS

LEMMA HeadTailFacts ==
    ASSUME NEW S, NEW q \in Seq(S), q # <<>>
    PROVE  /\ Head(q) \in S
           /\ Head(q) = q[1]
           /\ Tail(q) \in Seq(S)
           /\ Len(q) \in Nat \ {0}
           /\ DOMAIN q = 1..Len(q)
           /\ DOMAIN Tail(q) = 1..(Len(q) - 1)
           /\ \A i \in 1..(Len(q) - 1) : Tail(q)[i] = q[i + 1]
    OBVIOUS

-----------------------------------------------------------------------------
(***************************************************************************)
(* The inductive invariant.                                                *)
(***************************************************************************)

\* A pull waits for at most one taken frame.
TakenOnce ==
    \A i, j \in DOMAIN taken : taken[i].puller = taken[j].puller => i = j

\* What the runtime holds was made of audio of the running epoch.
CurrentAudio ==
    /\ \A i \in DOMAIN audio : audio[i].epoch = epoch
    /\ \A i \in DOMAIN video : video[i].origin = epoch

\* The counter goes on from the last frame returned in this epoch.
CountsOn ==
    /\ \A i \in DOMAIN delivered : delivered[i].epoch <= epoch
    /\ nextVideoSequence =
            IF delivered # <<>> /\ delivered[Len(delivered)].epoch = epoch
            THEN delivered[Len(delivered)].sequence + 1 ELSE 0

\* No frame of this epoch carries a revision above the current one.
RevisionBound ==
    \A i \in Deliveries(epoch) :
        RevisionBelow(delivered[i].control_revision, controlRevision)

Numbering == CountsOn /\ NumberedInOrder

Revisions == RevisionBound /\ RevisionsFollowFrames

IInv == TypeOK /\ TakenOnce /\ CurrentAudio /\ Numbering /\ Revisions /\ UntimedFidelity

-----------------------------------------------------------------------------
\* The pulls that hold a frame, and those that wait for a taken one.
Holding == {p \in Pullers : pull[p] = "holding"}
Waiting == {taken[i].puller : i \in DOMAIN taken}

Taken == [puller : Pullers, frame : LegacyVideoFrame]

LEMMA TypeFacts ==
    ASSUME TypeOK
    PROVE  /\ epoch \in Nat /\ epoch <= MaxEpoch
           /\ nextAudioSequence \in Nat /\ nextVideoSequence \in Nat
           /\ controlRevision \in Int \cup {None}
           /\ audio \in Seq(Sample) /\ video \in Seq(LegacyVideoFrame)
           /\ taken \in Seq(Taken) /\ delivered \in Seq(Delivered)
           /\ pull \in [Pullers -> {"timed", "untimed", "idle", "holding"}]
           /\ Waiting = Holding
<1>1. pull \in [Pullers -> {"timed", "untimed", "idle", "holding"}]
    <2>1. pull \in [Pullers -> Modes \cup {"idle", "holding"}]
        BY DEF TypeOK
    <2>2. Modes \cup {"idle", "holding"} \subseteq {"timed", "untimed", "idle", "holding"}
        BY ModesAssumption
    <2> QED
        BY <2>1, <2>2
<1>2. Waiting = Holding
    BY DEF TypeOK, Waiting, Holding
<1>3. epoch \in Nat /\ epoch <= MaxEpoch
    BY MaxEpochAssumption DEF TypeOK
<1> QED
    BY <1>1, <1>2, <1>3 DEF TypeOK, Taken

\* A frame is handed to the pull that has waited longest.
LEMMA HeadHolds ==
    ASSUME TypeOK, taken # <<>>
    PROVE  /\ Head(taken) \in Taken
           /\ pull[Head(taken).puller] = "holding"
<1>1. /\ taken \in Seq(Taken) /\ Waiting = Holding
    BY TypeFacts
<1>2. Head(taken) = taken[1] /\ 1 \in DOMAIN taken /\ Head(taken) \in Taken
    BY <1>1, HeadTailFacts
<1>3. Head(taken).puller \in Waiting
    BY <1>2 DEF Waiting
<1> QED
    BY <1>1, <1>2, <1>3 DEF Holding

\* The frame that a pull returns.
LEMMA StampEffect ==
    ASSUME TypeOK, NEW p \in Pullers, NEW frame \in LegacyVideoFrame, Stamp(p, frame)
    PROVE  \E f \in Delivered :
               /\ delivered' = Append(delivered, f)
               /\ f.sequence = nextVideoSequence /\ f.epoch = epoch
               /\ f.control_revision = controlRevision
               /\ f.origin = frame.origin /\ f.timed = (pull[p] = "holding")
<1> DEFINE f == [sequence |-> SequenceFor(p), pts_ms |-> frame.pts_ms, epoch |-> epoch,
                 control_revision |-> controlRevision, origin |-> frame.origin,
                 timed |-> pull[p] = "holding"]
<1>1. f \in Delivered
    BY TypeFacts DEF Delivered, LegacyVideoFrame, SequenceFor
<1>2. delivered' = Append(delivered, f)
    BY DEF Stamp
<1> QED
    BY <1>1, <1>2 DEF SequenceFor

\* A step returns no frame, and may raise the revision or open the next epoch;
\* or it returns one with the counters as they are.
LEMMA StepEffect ==
    ASSUME TypeOK, CurrentAudio, [Next]_vars
    PROVE  \/ /\ UNCHANGED <<delivered, nextVideoSequence, epoch>>
              /\ RevisionBelow(controlRevision, controlRevision')
              /\ controlRevision' \in Int \cup {None}
           \/ /\ UNCHANGED delivered
              /\ epoch' = epoch + 1 /\ nextVideoSequence' = 0
           \/ \E f \in Delivered :
                 /\ delivered' = Append(delivered, f)
                 /\ f.sequence = nextVideoSequence /\ f.epoch = epoch
                 /\ f.control_revision = controlRevision
                 /\ f.origin = epoch \/ f.timed
                 /\ nextVideoSequence' = nextVideoSequence + 1
                 /\ UNCHANGED <<epoch, controlRevision>>
<1> DEFINE Returns ==
        \E f \in Delivered :
            /\ delivered' = Append(delivered, f)
            /\ f.sequence = nextVideoSequence /\ f.epoch = epoch
            /\ f.control_revision = controlRevision
            /\ f.origin = epoch \/ f.timed
            /\ nextVideoSequence' = nextVideoSequence + 1
            /\ UNCHANGED <<epoch, controlRevision>>
<1>0. /\ controlRevision \in Int \cup {None}
      /\ video \in Seq(LegacyVideoFrame)
    BY TypeFacts
<1>1. ASSUME UNCHANGED <<delivered, counters>>
      PROVE  /\ UNCHANGED <<delivered, nextVideoSequence, epoch>>
             /\ RevisionBelow(controlRevision, controlRevision')
             /\ controlRevision' \in Int \cup {None}
    BY <1>0, <1>1, NoneAssumption DEF counters, RevisionBelow
<1>2. ASSUME NEW update \in Controls, UpdateControl(update)
      PROVE  /\ UNCHANGED <<delivered, nextVideoSequence, epoch>>
             /\ RevisionBelow(controlRevision, controlRevision')
             /\ controlRevision' \in Int \cup {None}
    <2>1. update.revision \in Int
        BY ControlsAssumption DEF ControlUpdate
    <2> QED
        BY <1>0, <1>2, <2>1, NoneAssumption DEF UpdateControl, RaisesRevision, RevisionBelow, pulls
<1>3. ASSUME NEW chunk \in Chunks, PushAudio(chunk)
      PROVE  /\ UNCHANGED <<delivered, nextVideoSequence, epoch>>
             /\ RevisionBelow(controlRevision, controlRevision')
             /\ controlRevision' \in Int \cup {None}
    BY <1>0, <1>3, NoneAssumption DEF PushAudio, RevisionBelow, pulls
<1>4. ASSUME NEW p \in Pullers, PullUntimed(p)
      PROVE  Returns
    <2>1. /\ pull[p] = "untimed" /\ video # <<>> /\ Stamp(p, Head(video))
          /\ nextVideoSequence' = nextVideoSequence + 1
          /\ UNCHANGED <<epoch, controlRevision>>
        BY <1>4 DEF PullUntimed, Stamp
    <2>2. Head(video) \in LegacyVideoFrame /\ Head(video).origin = epoch
        <3>1. Head(video) \in LegacyVideoFrame /\ Head(video) = video[1] /\ 1 \in DOMAIN video
            BY <1>0, <2>1, HeadTailFacts
        <3> QED
            BY <3>1 DEF CurrentAudio
    <2> QED
        BY <2>1, <2>2, StampEffect
<1>5. ASSUME NEW p \in Pullers, PullDeliver(p)
      PROVE  Returns
    <2>1. /\ taken # <<>> /\ Head(taken).puller = p /\ Stamp(p, Head(taken).frame)
          /\ nextVideoSequence' = nextVideoSequence + 1
          /\ UNCHANGED <<epoch, controlRevision>>
        BY <1>5 DEF PullDeliver, Stamp
    <2>2. pull[p] = "holding" /\ Head(taken).frame \in LegacyVideoFrame
        BY <2>1, HeadHolds DEF Taken
    <2> QED
        BY <2>1, <2>2, StampEffect
<1>6. CASE Reset
    BY <1>6 DEF Reset, RestartNumbering, pulls
<1> QED
    BY <1>1, <1>2, <1>3, <1>4, <1>5, <1>6
    DEF Next, Start, Produce, PullStart, PullTake, PullTimeout, Close, vars, counters, pulls

-----------------------------------------------------------------------------
\* One frame more at the end.
LEMMA DeliveredGrows ==
    ASSUME TypeOK, NEW f \in Delivered, delivered' = Append(delivered, f)
    PROVE  /\ delivered \in Seq(Delivered) /\ Len(delivered) \in Nat
           /\ DOMAIN delivered = 1..Len(delivered)
           /\ DOMAIN delivered' = 1..(Len(delivered) + 1)
           /\ Len(delivered') = Len(delivered) + 1
           /\ delivered'[Len(delivered) + 1] = f
           /\ \A i \in 1..Len(delivered) : delivered'[i] = delivered[i]
           /\ delivered' # <<>>
           /\ \A i \in 1..Len(delivered) : delivered[i] \in Delivered
<1>1. delivered \in Seq(Delivered)
    BY TypeFacts
<1>2. /\ Len(delivered) \in Nat
      /\ DOMAIN delivered = 1..Len(delivered)
      /\ DOMAIN delivered' = 1..(Len(delivered) + 1)
      /\ Len(delivered') = Len(delivered) + 1
      /\ delivered'[Len(delivered) + 1] = f
      /\ \A i \in 1..Len(delivered) : delivered'[i] = delivered[i]
    BY <1>1, AppendFacts
<1>3. delivered' # <<>>
    BY <1>2
<1> QED
    BY <1>1, <1>2, <1>3

LEMMA NumberingStep == TypeOK /\ CurrentAudio /\ Numbering /\ [Next]_vars => Numbering'
<1> SUFFICES ASSUME TypeOK, CurrentAudio, Numbering, [Next]_vars
             PROVE  Numbering'
    OBVIOUS
<1>0. /\ epoch \in Nat /\ nextVideoSequence \in Nat /\ delivered \in Seq(Delivered)
      /\ Len(delivered) \in Nat /\ DOMAIN delivered = 1..Len(delivered)
      /\ \A i \in DOMAIN delivered : delivered[i] \in Delivered
    BY TypeFacts
<1>1. CASE UNCHANGED <<delivered, nextVideoSequence, epoch>>
    BY <1>1 DEF Numbering, CountsOn, NumberedInOrder
<1>2. CASE UNCHANGED delivered /\ epoch' = epoch + 1 /\ nextVideoSequence' = 0
    <2>1. \A i \in DOMAIN delivered : delivered[i].epoch \in Nat /\ delivered[i].epoch <= epoch
        BY <1>0 DEF Numbering, CountsOn, Delivered
    <2>2. delivered # <<>> => Len(delivered) \in DOMAIN delivered
        BY <1>0, HeadTailFacts
    <2>3. CountsOn'
        BY <1>0, <1>2, <2>1, <2>2 DEF CountsOn
    <2> QED
        BY <1>2, <2>3 DEF Numbering, NumberedInOrder
<1>3. ASSUME NEW f \in Delivered,
             delivered' = Append(delivered, f),
             f.sequence = nextVideoSequence, f.epoch = epoch,
             nextVideoSequence' = nextVideoSequence + 1, epoch' = epoch
      PROVE  Numbering'
    <2> PICK n \in Nat : n = Len(delivered)
        BY <1>0
    <2>1. /\ DOMAIN delivered = 1..n /\ DOMAIN delivered' = 1..(n + 1)
          /\ Len(delivered') = n + 1 /\ delivered' # <<>>
          /\ delivered'[n + 1] = f
          /\ \A i \in 1..n : delivered'[i] = delivered[i] /\ delivered[i] \in Delivered
        BY <1>3, DeliveredGrows
    <2>2. \A i \in 1..n : delivered[i].epoch \in Nat /\ delivered[i].epoch <= epoch
        BY <2>1 DEF Numbering, CountsOn, Delivered
    <2>3. CountsOn'
        <3>1. \A i \in 1..(n + 1) : delivered'[i].epoch <= epoch
            <4> SUFFICES ASSUME NEW i \in 1..(n + 1)
                         PROVE  delivered'[i].epoch <= epoch
                OBVIOUS
            <4>1. i \in 1..n \/ i = n + 1
                OBVIOUS
            <4> QED
                BY <1>0, <1>3, <2>1, <2>2, <4>1
        <3> QED
            BY <1>3, <2>1, <3>1 DEF CountsOn
    <2>4. f.sequence = IF n + 1 > 1 /\ delivered[n].epoch = epoch
                       THEN delivered[n].sequence + 1 ELSE 0
        <3>1. n + 1 > 1 <=> delivered # <<>>
            BY <1>0
        <3> QED
            BY <1>3, <3>1 DEF Numbering, CountsOn
    <2>5. ASSUME NEW i \in 1..(n + 1), NEW j \in 1..(n + 1), i < j
          PROVE  delivered'[i].epoch <= delivered'[j].epoch
        <3>1. i \in 1..n /\ delivered'[i] = delivered[i]
            BY <2>1, <2>5
        <3>2. CASE j = n + 1
            BY <1>3, <2>1, <2>2, <3>1, <3>2
        <3>3. CASE j \in 1..n
            BY <2>1, <2>5, <3>1, <3>3 DEF Numbering, NumberedInOrder
        <3> QED
            BY <3>2, <3>3
    <2>6. ASSUME NEW i \in 1..(n + 1)
          PROVE  delivered'[i].sequence =
                     IF i > 1 /\ delivered'[i - 1].epoch = delivered'[i].epoch
                     THEN delivered'[i - 1].sequence + 1 ELSE 0
        <3>1. CASE i \in 1..n
            <4>1. delivered'[i] = delivered[i]
                BY <2>1, <3>1
            <4>2. i > 1 => delivered'[i - 1] = delivered[i - 1]
                BY <2>1, <3>1
            <4>3. delivered[i].sequence =
                     IF i > 1 /\ delivered[i - 1].epoch = delivered[i].epoch
                     THEN delivered[i - 1].sequence + 1 ELSE 0
                BY <2>1, <3>1 DEF Numbering, NumberedInOrder
            <4> QED
                BY <4>1, <4>2, <4>3
        <3>2. CASE i = n + 1
            <4>1. i - 1 = n /\ delivered'[i] = f
                BY <2>1, <3>2
            <4>2. i > 1 => delivered'[i - 1] = delivered[n]
                BY <2>1, <3>2, <4>1
            <4> QED
                BY <1>3, <2>4, <3>2, <4>1, <4>2
        <3> QED
            BY <3>1, <3>2
    <2>7. NumberedInOrder'
        BY <2>1, <2>5, <2>6 DEF NumberedInOrder
    <2> QED
        BY <2>3, <2>7 DEF Numbering
<1> QED
    BY <1>1, <1>2, <1>3, StepEffect

LEMMA BelowTransitive ==
    ASSUME NEW a \in Int \cup {None}, NEW b \in Int \cup {None}, NEW c \in Int \cup {None},
           RevisionBelow(a, b), RevisionBelow(b, c)
    PROVE  RevisionBelow(a, c)
    BY NoneAssumption DEF RevisionBelow

LEMMA RevisionsStep ==
    TypeOK /\ TypeOK' /\ CurrentAudio /\ Numbering /\ Revisions /\ [Next]_vars => Revisions'
<1> SUFFICES ASSUME TypeOK, TypeOK', CurrentAudio, Numbering, Revisions, [Next]_vars
             PROVE  Revisions'
    OBVIOUS
<1>0. /\ epoch \in Nat /\ delivered \in Seq(Delivered) /\ controlRevision \in Int \cup {None}
      /\ Len(delivered) \in Nat /\ DOMAIN delivered = 1..Len(delivered)
      /\ \A i \in DOMAIN delivered : delivered[i] \in Delivered
    BY TypeFacts
<1>1. CASE /\ UNCHANGED <<delivered, nextVideoSequence, epoch>>
           /\ RevisionBelow(controlRevision, controlRevision')
           /\ controlRevision' \in Int \cup {None}
    <2>1. \A i \in Deliveries(epoch) :
              /\ delivered[i].control_revision \in Int \cup {None}
              /\ RevisionBelow(delivered[i].control_revision, controlRevision)
        BY <1>0 DEF Deliveries, Delivered, Revisions, RevisionBound
    <2>2. \A i \in Deliveries(epoch) :
              RevisionBelow(delivered[i].control_revision, controlRevision')
        BY <1>0, <1>1, <2>1, BelowTransitive
    <2>3. RevisionBound'
        BY <1>1, <2>2 DEF RevisionBound, Deliveries
    <2> QED
        BY <1>1, <2>3 DEF Revisions, RevisionsFollowFrames, Deliveries
<1>2. CASE UNCHANGED delivered /\ epoch' = epoch + 1
    <2>1. \A i \in DOMAIN delivered : delivered[i].epoch \in Nat /\ delivered[i].epoch <= epoch
        BY <1>0 DEF Numbering, CountsOn, Delivered
    <2>2. Deliveries(epoch)' = {}
        BY <1>0, <1>2, <2>1 DEF Deliveries
    <2> QED
        BY <1>2, <2>2 DEF Revisions, RevisionBound, RevisionsFollowFrames, Deliveries
<1>3. ASSUME NEW f \in Delivered,
             delivered' = Append(delivered, f),
             f.epoch = epoch, f.control_revision = controlRevision,
             UNCHANGED <<epoch, controlRevision>>
      PROVE  Revisions'
    <2> PICK n \in Nat : n = Len(delivered)
        BY <1>0
    <2>1. /\ DOMAIN delivered = 1..n /\ DOMAIN delivered' = 1..(n + 1)
          /\ delivered'[n + 1] = f
          /\ \A i \in 1..n : delivered'[i] = delivered[i]
        BY <1>3, DeliveredGrows
    <2>2. \A e : \A i \in Deliveries(e)' : i = n + 1 \/ (i \in Deliveries(e) /\ i \in 1..n)
        <3> SUFFICES ASSUME NEW e, NEW i \in 1..(n + 1), delivered'[i].epoch = e, i # n + 1
                     PROVE  i \in Deliveries(e) /\ i \in 1..n
            BY <2>1 DEF Deliveries
        <3> QED
            BY <2>1 DEF Deliveries
    <2>3. RevisionBelow(f.control_revision, controlRevision)
        BY <1>0, <1>3, NoneAssumption DEF RevisionBelow
    <2>4. RevisionBound'
        BY <1>3, <2>1, <2>2, <2>3 DEF RevisionBound, Revisions, Deliveries
    <2>5. ASSUME NEW e \in 0..MaxEpoch, NEW i \in Deliveries(e)', NEW j \in Deliveries(e)', i < j
          PROVE  RevisionBelow(delivered'[i].control_revision, delivered'[j].control_revision)
        <3>1. i # n + 1 /\ i \in Deliveries(e) /\ i \in 1..n
            BY <2>1, <2>2, <2>5 DEF Deliveries
        <3>2. CASE j \in Deliveries(e) /\ j \in 1..n
            BY <2>1, <2>5, <3>1, <3>2 DEF Revisions, RevisionsFollowFrames
        <3>3. CASE j = n + 1
            <4>1. delivered'[j] = f /\ e = epoch
                BY <1>3, <2>1, <3>3 DEF Deliveries
            <4> QED
                BY <1>3, <2>1, <3>1, <4>1 DEF Revisions, RevisionBound
        <3> QED
            BY <2>2, <3>2, <3>3
    <2>6. RevisionsFollowFrames'
        BY <2>5 DEF RevisionsFollowFrames
    <2> QED
        BY <2>4, <2>6 DEF Revisions
<1> QED
    BY <1>1, <1>2, <1>3, StepEffect

LEMMA UntimedStep ==
    TypeOK /\ CurrentAudio /\ UntimedFidelity /\ [Next]_vars => UntimedFidelity'
<1> SUFFICES ASSUME TypeOK, CurrentAudio, UntimedFidelity, [Next]_vars
             PROVE  UntimedFidelity'
    OBVIOUS
<1>1. CASE UNCHANGED delivered
    BY <1>1 DEF UntimedFidelity
<1>2. ASSUME NEW f \in Delivered,
             delivered' = Append(delivered, f),
             f.epoch = epoch, f.origin = epoch \/ f.timed
      PROVE  UntimedFidelity'
    <2>1. \A i \in DOMAIN delivered' :
              delivered'[i] = f \/ (i \in DOMAIN delivered /\ delivered'[i] = delivered[i])
        BY <1>2, DeliveredGrows
    <2> QED
        BY <1>2, <2>1 DEF UntimedFidelity
<1> QED
    BY <1>1, <1>2, StepEffect

-----------------------------------------------------------------------------
\* The steps of the runtime and of the pulls on the queue of taken frames.

LEMMA CurrentStep == TypeOK /\ CurrentAudio /\ [Next]_vars => CurrentAudio'
<1> SUFFICES ASSUME TypeOK, CurrentAudio, [Next]_vars
             PROVE  CurrentAudio'
    OBVIOUS
<1>0. audio \in Seq(Sample) /\ video \in Seq(LegacyVideoFrame) /\ epoch \in Nat
    BY TypeFacts
<1>1. ASSUME UNCHANGED <<epoch, audio>>, video # <<>>, video' = Tail(video)
      PROVE  CurrentAudio'
    <2>1. \A i \in DOMAIN video' : i + 1 \in DOMAIN video /\ video'[i] = video[i + 1]
        BY <1>0, <1>1, HeadTailFacts
    <2> QED
        BY <1>1, <2>1 DEF CurrentAudio
<1>2. ASSUME NEW chunk \in Chunks, PushAudio(chunk)
      PROVE  CurrentAudio'
    <2> PICK s \in Sample : s = [sequence |-> chunk.sequence, pts_ms |-> chunk.pts_ms,
                                  epoch |-> epoch]
        BY <1>0, <1>2, ChunksAssumption, TypeFacts DEF PushAudio, AcceptsChunk, AudioChunk, Sample
    <2>1. audio' = Append(audio, s) /\ s.epoch = epoch /\ UNCHANGED <<epoch, video>>
        BY <1>2 DEF PushAudio
    <2>2. \A i \in DOMAIN audio' :
              audio'[i] = s \/ (i \in DOMAIN audio /\ audio'[i] = audio[i])
        BY <1>0, <2>1, AppendFacts
    <2> QED
        BY <2>1, <2>2 DEF CurrentAudio
<1>3. CASE Produce
    <2>1. /\ Len(audio) >= 2
          /\ video' = Append(video, [pts_ms |-> audio[1].pts_ms, origin |-> audio[1].epoch])
          /\ audio' = SubSeq(audio, 3, Len(audio))
          /\ epoch' = epoch
        BY <1>3 DEF Produce, counters
    <2>2. Len(audio) \in Nat /\ DOMAIN audio = 1..Len(audio) /\ 1 \in DOMAIN audio
          /\ audio[1] \in Sample
        BY <1>0, <2>1
    <2> PICK f \in LegacyVideoFrame : f = [pts_ms |-> audio[1].pts_ms, origin |-> audio[1].epoch]
        BY <2>2 DEF Sample, LegacyVideoFrame
    <2>3. f.origin = epoch /\ video' = Append(video, f)
        BY <2>1, <2>2 DEF CurrentAudio
    <2>4. \A i \in DOMAIN video' :
              video'[i] = f \/ (i \in DOMAIN video /\ video'[i] = video[i])
        BY <1>0, <2>3, AppendFacts
    <2>5. \A i \in DOMAIN audio' : i + 2 \in DOMAIN audio /\ audio'[i] = audio[i + 2]
        <3>1. \A i \in 3..Len(audio) : audio[i] \in Sample
            BY <1>0, <2>2
        <3>2. /\ audio' \in Seq(Sample)
              /\ Len(audio') = IF 3 <= Len(audio) THEN Len(audio) - 3 + 1 ELSE 0
              /\ \A i \in 1..(Len(audio) - 3 + 1) : audio'[i] = audio[3 + i - 1]
            BY <2>1, <2>2, <3>1, SubSeqProperties
        <3>3. DOMAIN audio' = 1..Len(audio')
            BY <3>2
        <3> PICK n \in Nat : n = Len(audio)
            BY <2>2
        <3>4. Len(audio') = IF 3 <= n THEN n - 2 ELSE 0
            BY <3>2
        <3>5. ASSUME NEW i \in 1..Len(audio')
              PROVE  i + 2 \in DOMAIN audio /\ audio'[i] = audio[i + 2]
            <4>1. i \in 1..(n - 2) /\ i \in Int
                BY <3>4
            <4>2. i \in 1..(n - 3 + 1) /\ 3 + i - 1 = i + 2 /\ i + 2 \in 1..n
                BY <4>1
            <4>3. audio'[i] = audio[3 + i - 1]
                BY <3>2, <4>2
            <4> QED
                BY <2>2, <4>2, <4>3
        <3> QED
            BY <3>3, <3>5
    <2> QED
        BY <2>1, <2>3, <2>4, <2>5 DEF CurrentAudio
<1>4. ASSUME audio' = <<>>, video' = <<>>
      PROVE  CurrentAudio'
    BY <1>4, EmptyFacts DEF CurrentAudio
<1>5. ASSUME UNCHANGED <<epoch, audio, video>>
      PROVE  CurrentAudio'
    BY <1>5 DEF CurrentAudio
<1>6. ASSUME NEW p \in Pullers, PullUntimed(p) \/ PullTake(p)
      PROVE  CurrentAudio'
    BY <1>1, <1>6 DEF PullUntimed, PullTake, Stamp, counters
<1>7. ASSUME NEW p \in Pullers, PullDeliver(p)
      PROVE  CurrentAudio'
    BY <1>5, <1>7 DEF PullDeliver, Stamp
<1> QED
    BY <1>2, <1>3, <1>4, <1>5, <1>6, <1>7
    DEF Next, Start, UpdateControl, PullStart, PullTimeout, Reset, Close, FlushTalk, DrainVideo,
        vars, counters, runtime

\* What a step does to the pulls and to the frames they have taken.
LEMMA PullsEffect ==
    ASSUME TypeOK, [Next]_vars
    PROVE  \/ UNCHANGED <<taken, pull>>
           \/ \E p \in Pullers :
                 \/ /\ pull[p] # "holding" /\ taken' = taken
                    /\ \E s \in Modes \cup {"idle"} : pull' = [pull EXCEPT ![p] = s]
                 \/ /\ pull[p] = "timed" /\ video # <<>>
                    /\ taken' = Append(taken, [puller |-> p, frame |-> Head(video)])
                    /\ pull' = [pull EXCEPT ![p] = "holding"]
                 \/ /\ taken # <<>> /\ Head(taken).puller = p /\ taken' = Tail(taken)
                    /\ pull' = [pull EXCEPT ![p] = "idle"]
    BY DEF Next, Start, PushAudio, UpdateControl, Produce, PullStart, PullUntimed, PullTake,
        PullDeliver, PullTimeout, Reset, Close, Stamp, vars, pulls

LEMMA TakenStep ==
    ASSUME TypeOK, TakenOnce, [Next]_vars
    PROVE  /\ TakenOnce'
           /\ taken' \in Seq(Taken)
           /\ pull' \in [Pullers -> Modes \cup {"idle", "holding"}]
           /\ Waiting' = Holding'
<1>0. /\ taken \in Seq(Taken) /\ Waiting = Holding
      /\ pull \in [Pullers -> Modes \cup {"idle", "holding"}]
      /\ video \in Seq(LegacyVideoFrame)
    BY TypeFacts DEF TypeOK
<1>1. CASE UNCHANGED <<taken, pull>>
    BY <1>0, <1>1 DEF TakenOnce, Waiting, Holding
<1>2. ASSUME NEW p \in Pullers, NEW s \in Modes \cup {"idle"}, pull[p] # "holding",
             taken' = taken, pull' = [pull EXCEPT ![p] = s]
      PROVE  /\ TakenOnce' /\ taken' \in Seq(Taken)
             /\ pull' \in [Pullers -> Modes \cup {"idle", "holding"}] /\ Waiting' = Holding'
    <2>1. s # "holding"
        BY ModesAssumption
    <2>2. Holding' = Holding
        BY <1>0, <1>2, <2>1 DEF Holding
    <2>3. Waiting' = Waiting /\ TakenOnce'
        BY <1>2 DEF Waiting, TakenOnce
    <2> QED
        BY <1>0, <1>2, <2>2, <2>3
<1>3. ASSUME NEW p \in Pullers, pull[p] = "timed", video # <<>>,
             taken' = Append(taken, [puller |-> p, frame |-> Head(video)]),
             pull' = [pull EXCEPT ![p] = "holding"]
      PROVE  /\ TakenOnce' /\ taken' \in Seq(Taken)
             /\ pull' \in [Pullers -> Modes \cup {"idle", "holding"}] /\ Waiting' = Holding'
    <2> PICK t \in Taken : t = [puller |-> p, frame |-> Head(video)]
        BY <1>0, <1>3, HeadTailFacts DEF Taken
    <2> PICK n \in Nat : n = Len(taken)
        BY <1>0
    <2>1. /\ taken' \in Seq(Taken) /\ DOMAIN taken = 1..n /\ DOMAIN taken' = 1..(n + 1)
          /\ taken'[n + 1] = t /\ t.puller = p
          /\ \A i \in 1..n : taken'[i] = taken[i]
        BY <1>0, <1>3, AppendFacts
    <2>2. p \notin Holding /\ Holding' = Holding \cup {p}
        BY <1>0, <1>3 DEF Holding
    <2>3. Waiting' = Waiting \cup {p}
        <3>1. \A i \in 1..(n + 1) : i \in 1..n \/ i = n + 1
            OBVIOUS
        <3>2. 1..n \subseteq 1..(n + 1) /\ n + 1 \in 1..(n + 1)
            OBVIOUS
        <3>3. Waiting' = {taken'[i].puller : i \in 1..(n + 1)} /\ Waiting = {taken[i].puller : i \in 1..n}
            BY <2>1 DEF Waiting
        <3> QED
            BY <2>1, <3>1, <3>2, <3>3
    <2>4. \A i \in 1..n : taken[i].puller # p
        BY <1>0, <2>1, <2>2 DEF Waiting
    <2>5. TakenOnce'
        <3> SUFFICES ASSUME NEW i \in 1..(n + 1), NEW j \in 1..(n + 1),
                            taken'[i].puller = taken'[j].puller
                     PROVE  i = j
            BY <2>1 DEF TakenOnce
        <3>1. (i \in 1..n \/ i = n + 1) /\ (j \in 1..n \/ j = n + 1)
            OBVIOUS
        <3> QED
            BY <2>1, <2>4, <3>1 DEF TakenOnce
    <2> QED
        BY <1>0, <1>3, <2>1, <2>2, <2>3, <2>5
<1>4. ASSUME NEW p \in Pullers, taken # <<>>, Head(taken).puller = p, taken' = Tail(taken),
             pull' = [pull EXCEPT ![p] = "idle"]
      PROVE  /\ TakenOnce' /\ taken' \in Seq(Taken)
             /\ pull' \in [Pullers -> Modes \cup {"idle", "holding"}] /\ Waiting' = Holding'
    <2>0. Len(taken) \in Nat \ {0}
        BY <1>0, <1>4, HeadTailFacts
    <2> PICK n \in Nat : n + 1 = Len(taken) /\ n = Len(taken) - 1
        <3>1. Len(taken) - 1 \in Nat /\ (Len(taken) - 1) + 1 = Len(taken)
            BY <2>0
        <3> QED
            BY <3>1
    <2>1. /\ taken' \in Seq(Taken) /\ DOMAIN taken = 1..(n + 1) /\ DOMAIN taken' = 1..n
          /\ taken[1].puller = p
          /\ \A i \in 1..n : taken'[i] = taken[i + 1]
        BY <1>0, <1>4, HeadTailFacts
    <2>2. Holding' = Holding \ {p}
        BY <1>0, <1>4 DEF Holding
    <2>3. \A i \in 1..n : i + 1 \in 1..(n + 1) /\ i + 1 # 1 /\ taken'[i].puller # p
        BY <2>1 DEF TakenOnce
    <2>4. \A i \in 1..(n + 1) : i = 1 \/ (i - 1 \in 1..n /\ taken'[i - 1] = taken[i])
        BY <2>1
    <2>5. Waiting' = Waiting \ {p}
        <3>1. Waiting' = {taken'[i].puller : i \in 1..n} /\ Waiting = {taken[i].puller : i \in 1..(n + 1)}
            BY <2>1 DEF Waiting
        <3>2. \A q \in Waiting' : q \in Waiting /\ q # p
            BY <2>1, <2>3, <3>1
        <3>3. \A q \in Waiting : q = p \/ q \in Waiting'
            BY <2>1, <2>4, <3>1
        <3> QED
            BY <3>2, <3>3
    <2>6. TakenOnce'
        <3> SUFFICES ASSUME NEW i \in 1..n, NEW j \in 1..n, taken'[i].puller = taken'[j].puller
                     PROVE  i = j
            BY <2>1 DEF TakenOnce
        <3>1. i + 1 \in DOMAIN taken /\ j + 1 \in DOMAIN taken
            BY <2>1, <2>3
        <3>2. taken[i + 1].puller = taken[j + 1].puller
            BY <2>1
        <3>3. i + 1 = j + 1
            BY <3>1, <3>2 DEF TakenOnce
        <3> QED
            BY <3>3
    <2> QED
        BY <1>0, <1>4, <2>1, <2>2, <2>5, <2>6
<1> QED
    BY <1>1, <1>2, <1>3, <1>4, PullsEffect

-----------------------------------------------------------------------------
\* The types of the counters and of the runtime's queues.

LEMMA CountersStep ==
    ASSUME TypeOK, [Next]_vars
    PROVE  /\ state' \in SessionState
           /\ epoch' \in 0..MaxEpoch
           /\ nextAudioSequence' \in Nat /\ nextVideoSequence' \in Nat
           /\ controlRevision' \in Int \cup {None}
           /\ calledAt' \in [Pullers -> Nat]
<1> DEFINE Good ==
        /\ state' \in SessionState
        /\ epoch' \in 0..MaxEpoch
        /\ nextAudioSequence' \in Nat /\ nextVideoSequence' \in Nat
        /\ controlRevision' \in Int \cup {None}
        /\ calledAt' \in [Pullers -> Nat]
<1>0. /\ state \in SessionState /\ epoch \in 0..MaxEpoch /\ MaxEpoch \in Nat
      /\ nextAudioSequence \in Nat /\ nextVideoSequence \in Nat
      /\ controlRevision \in Int \cup {None} /\ calledAt \in [Pullers -> Nat]
    BY MaxEpochAssumption DEF TypeOK
<1>1. CASE UNCHANGED <<state, counters, calledAt>>
    BY <1>0, <1>1 DEF counters
<1>2. CASE Start \/ Close
    BY <1>0, <1>2 DEF Start, Close, SessionState, counters, pulls
<1>3. ASSUME NEW chunk \in Chunks, PushAudio(chunk)
      PROVE  Good
    BY <1>0, <1>3 DEF PushAudio, pulls
<1>4. ASSUME NEW update \in Controls, UpdateControl(update)
      PROVE  Good
    <2>1. update.revision \in Int
        BY ControlsAssumption DEF ControlUpdate
    <2> QED
        BY <1>0, <1>4, <2>1 DEF UpdateControl, pulls
<1>5. ASSUME NEW p \in Pullers, NEW mode \in Modes, PullStart(p, mode)
      PROVE  Good
    BY <1>0, <1>5 DEF PullStart, counters
<1>6. ASSUME NEW p \in Pullers, PullUntimed(p) \/ PullDeliver(p)
      PROVE  Good
    BY <1>0, <1>6 DEF PullUntimed, PullDeliver, Stamp
<1>7. CASE Reset
    BY <1>0, <1>7 DEF Reset, RestartNumbering, pulls
<1> QED
    BY <1>1, <1>2, <1>3, <1>4, <1>5, <1>6, <1>7
    DEF Next, Produce, PullTake, PullTimeout, vars, counters, pulls

LEMMA QueuesStep ==
    ASSUME TypeOK, [Next]_vars
    PROVE  audio' \in Seq(Sample) /\ video' \in Seq(LegacyVideoFrame)
<1> DEFINE Good == audio' \in Seq(Sample) /\ video' \in Seq(LegacyVideoFrame)
<1>0. /\ audio \in Seq(Sample) /\ video \in Seq(LegacyVideoFrame) /\ epoch \in Nat
      /\ nextAudioSequence \in Nat
    BY TypeFacts
<1>1. CASE UNCHANGED <<audio, video>>
    BY <1>0, <1>1
<1>2. ASSUME NEW chunk \in Chunks, PushAudio(chunk)
      PROVE  Good
    <2>1. [sequence |-> chunk.sequence, pts_ms |-> chunk.pts_ms, epoch |-> epoch] \in Sample
        BY <1>0, <1>2, ChunksAssumption DEF PushAudio, AcceptsChunk, AudioChunk, Sample
    <2> QED
        BY <1>0, <1>2, <2>1, AppendFacts DEF PushAudio
<1>3. CASE Produce
    <2>1. Len(audio) \in Nat /\ Len(audio) >= 2 /\ DOMAIN audio = 1..Len(audio)
        BY <1>0, <1>3 DEF Produce
    <2>2. audio[1] \in Sample /\ (\A i \in 3..Len(audio) : audio[i] \in Sample)
        BY <1>0, <2>1
    <2>3. [pts_ms |-> audio[1].pts_ms, origin |-> audio[1].epoch] \in LegacyVideoFrame
        BY <2>2 DEF Sample, LegacyVideoFrame
    <2>4. video' \in Seq(LegacyVideoFrame)
        BY <1>0, <1>3, <2>3, AppendFacts DEF Produce
    <2>5. audio' \in Seq(Sample)
        BY <1>3, <2>1, <2>2, SubSeqProperties DEF Produce
    <2> QED
        BY <2>4, <2>5
<1>4. ASSUME NEW p \in Pullers, PullUntimed(p) \/ PullTake(p)
      PROVE  Good
    <2>1. video # <<>> /\ video' = Tail(video) /\ UNCHANGED audio
        BY <1>4 DEF PullUntimed, PullTake, Stamp
    <2> QED
        BY <1>0, <2>1, HeadTailFacts
<1>5. CASE Reset \/ Close
    BY <1>5, EmptyFacts DEF Reset, Close, FlushTalk, DrainVideo
<1> QED
    BY <1>1, <1>2, <1>3, <1>4, <1>5
    DEF Next, Start, UpdateControl, PullStart, PullDeliver, PullTimeout, Stamp, vars, runtime

LEMMA TypeStep ==
    ASSUME TypeOK, TakenOnce, CurrentAudio, [Next]_vars
    PROVE  TypeOK'
<1>1. delivered' \in Seq(Delivered)
    <2>1. delivered \in Seq(Delivered)
        BY TypeFacts
    <2> QED
        BY <2>1, StepEffect, AppendFacts
<1>2. /\ taken' \in Seq([puller : Pullers, frame : LegacyVideoFrame])
      /\ pull' \in [Pullers -> Modes \cup {"idle", "holding"}]
      /\ {taken'[i].puller : i \in DOMAIN taken'} = {p \in Pullers : pull'[p] = "holding"}
    BY TakenStep DEF Taken, Waiting, Holding
<1> QED
    BY <1>1, <1>2, CountersStep, QueuesStep DEF TypeOK

-----------------------------------------------------------------------------
LEMMA InvInit == Init => IInv
<1> SUFFICES ASSUME Init
             PROVE  IInv
    OBVIOUS
<1>1. TypeOK
    <2>1. /\ {taken[i].puller : i \in DOMAIN taken} = {}
          /\ {p \in Pullers : pull[p] = "holding"} = {}
        BY EmptyFacts DEF Init
    <2> QED
        BY <2>1, EmptyFacts, MaxEpochAssumption DEF Init, TypeOK, SessionState
<1>2. TakenOnce /\ CurrentAudio /\ UntimedFidelity
    BY EmptyFacts DEF Init, TakenOnce, CurrentAudio, UntimedFidelity
<1>3. Numbering /\ Revisions
    BY EmptyFacts DEF Init, Numbering, CountsOn, NumberedInOrder, Revisions, RevisionBound,
        RevisionsFollowFrames, Deliveries
<1> QED
    BY <1>1, <1>2, <1>3 DEF IInv

LEMMA InvStep == IInv /\ [Next]_vars => IInv'
<1> SUFFICES ASSUME IInv, [Next]_vars
             PROVE  IInv'
    OBVIOUS
<1>0. /\ TypeOK /\ TakenOnce /\ CurrentAudio /\ Numbering /\ Revisions /\ UntimedFidelity
    BY DEF IInv
<1>1. TypeOK'
    BY <1>0, TypeStep
<1>2. TakenOnce'
    BY <1>0, TakenStep
<1>3. CurrentAudio' /\ Numbering' /\ UntimedFidelity'
    BY <1>0, CurrentStep, NumberingStep, UntimedStep
<1>4. Revisions'
    BY <1>0, <1>1, RevisionsStep
<1> QED
    BY <1>1, <1>2, <1>3, <1>4 DEF IInv

LEMMA Invariance == Spec => []IInv
    BY InvInit, InvStep, PTL DEF Spec

\* Every variable keeps its type, and a taken frame waits for exactly the pulls
\* that hold one (livetalking.py:117-136).
THEOREM TypeCorrect == Spec => []TypeOK
<1>1. IInv => TypeOK
    BY DEF IInv
<1> QED
    BY <1>1, Invariance, PTL

\* However many pulls run at once and however they are overtaken by resets, the
\* frames of an epoch are numbered without gap or repetition
\* (livetalking.py:127-136).
THEOREM NumberedInOrderCorrect == Spec => []NumberedInOrder
<1>1. IInv => NumberedInOrder
    BY DEF IInv, Numbering
<1> QED
    BY <1>1, Invariance, PTL

\* The control revisions of an epoch's frames never go back
\* (livetalking.py:101-115, 127-134).
THEOREM RevisionsFollowFramesCorrect == Spec => []RevisionsFollowFrames
<1>1. IInv => RevisionsFollowFrames
    BY DEF IInv, Revisions
<1> QED
    BY <1>1, Invariance, PTL

\* A pull without a timeout returns only frames of the running epoch
\* (livetalking.py:117-145).
THEOREM UntimedFidelityCorrect == Spec => []UntimedFidelity
<1>1. IInv => UntimedFidelity
    BY DEF IInv
<1> QED
    BY <1>1, Invariance, PTL

-----------------------------------------------------------------------------
(***************************************************************************)
(* The bridge keeps the contract of a backend until a reset overtakes a    *)
(* frame that a timed pull has taken.  Added to the invariant: only an     *)
(* open session has anything in its runtime, a taken frame is never of an  *)
(* epoch to come, and as long as no frame is overtaken every two chunks    *)
(* accepted in the epoch are in one frame or still on their way to it.     *)
(***************************************************************************)
IdleQueues == state # "active" => audio = <<>> /\ video = <<>>

TakenBefore == \A i \in DOMAIN taken : taken[i].frame.origin <= epoch

\* Frames numbered, taken or ready, and the chunks that wait for their frame.
Balance ==
    2 * (nextVideoSequence + Len(taken) + Len(video)) + Len(audio) = nextAudioSequence

Balanced == state # "closed" /\ NoneOvertaken => Balance

CInv == IInv /\ IdleQueues /\ TakenBefore /\ Balanced

\* The frames a step takes and returns.
NoFrames == UNCHANGED <<taken, delivered, epoch>>
Reopens == UNCHANGED <<taken, delivered>> /\ epoch' = epoch + 1

Takes(t) ==
    /\ video # <<>>
    /\ t.frame = Head(video)
    /\ taken' = Append(taken, t)
    /\ UNCHANGED <<delivered, epoch>>

ReturnsAtOnce(f) ==
    /\ delivered' = Append(delivered, f)
    /\ f.sequence = nextVideoSequence /\ f.epoch = epoch /\ f.timed = FALSE
    /\ UNCHANGED <<taken, epoch>>

ReturnsTaken(f) ==
    /\ taken # <<>>
    /\ taken' = Tail(taken)
    /\ delivered' = Append(delivered, f)
    /\ f.sequence = nextVideoSequence /\ f.epoch = epoch
    /\ f.timed = TRUE /\ f.origin = Head(taken).frame.origin
    /\ UNCHANGED epoch

LEMMA TakesFrame ==
    ASSUME TypeOK, NEW p \in Pullers, PullTake(p)
    PROVE  \E t \in Taken : Takes(t)
<1>1. video \in Seq(LegacyVideoFrame) /\ video # <<>>
    BY TypeFacts DEF PullTake
<1>2. [puller |-> p, frame |-> Head(video)] \in Taken
    BY <1>1, HeadTailFacts DEF Taken
<1> QED
    BY <1>1, <1>2 DEF PullTake, Takes, counters

LEMMA ReturnsFrameAtOnce ==
    ASSUME TypeOK, NEW p \in Pullers, PullUntimed(p)
    PROVE  \E f \in Delivered : ReturnsAtOnce(f)
<1>1. /\ pull[p] = "untimed" /\ video # <<>> /\ Stamp(p, Head(video))
      /\ UNCHANGED <<taken, epoch>>
    BY DEF PullUntimed, Stamp
<1>2. video \in Seq(LegacyVideoFrame)
    BY TypeFacts
<1>3. Head(video) \in LegacyVideoFrame
    BY <1>1, <1>2, HeadTailFacts
<1> PICK f \in Delivered :
        /\ delivered' = Append(delivered, f)
        /\ f.sequence = nextVideoSequence /\ f.epoch = epoch
        /\ f.timed = (pull[p] = "holding")
    BY <1>1, <1>3, StampEffect
<1>4. f.timed = FALSE
    BY <1>1
<1> QED
    BY <1>1, <1>4 DEF ReturnsAtOnce

LEMMA ReturnsTakenFrame ==
    ASSUME TypeOK, NEW p \in Pullers, PullDeliver(p)
    PROVE  \E f \in Delivered : ReturnsTaken(f)
<1>1. /\ taken # <<>> /\ taken' = Tail(taken) /\ Head(taken).puller = p
      /\ Stamp(p, Head(taken).frame) /\ UNCHANGED epoch
    BY DEF PullDeliver, Stamp
<1>2. pull[p] = "holding" /\ Head(taken).frame \in LegacyVideoFrame
    BY <1>1, HeadHolds DEF Taken
<1> PICK f \in Delivered :
        /\ delivered' = Append(delivered, f)
        /\ f.sequence = nextVideoSequence /\ f.epoch = epoch
        /\ f.origin = Head(taken).frame.origin /\ f.timed = (pull[p] = "holding")
    BY <1>1, <1>2, StampEffect
<1>3. f.timed = TRUE
    BY <1>2
<1> QED
    BY <1>1, <1>3 DEF ReturnsTaken

LEMMA FramesEffect ==
    ASSUME TypeOK, [Next]_vars
    PROVE  \/ NoFrames
           \/ Reopens
           \/ \E t \in Taken : Takes(t)
           \/ \E f \in Delivered : ReturnsAtOnce(f)
           \/ \E f \in Delivered : ReturnsTaken(f)
<1>1. ASSUME NEW p \in Pullers, PullTake(p)
      PROVE  \E t \in Taken : Takes(t)
    BY <1>1, TakesFrame
<1>2. ASSUME NEW p \in Pullers, PullUntimed(p)
      PROVE  \E f \in Delivered : ReturnsAtOnce(f)
    BY <1>2, ReturnsFrameAtOnce
<1>3. ASSUME NEW p \in Pullers, PullDeliver(p)
      PROVE  \E f \in Delivered : ReturnsTaken(f)
    BY <1>3, ReturnsTakenFrame
<1>4. CASE Reset
    BY <1>4 DEF Reset, Reopens, pulls
<1>5. ASSUME NEW p \in Pullers, PullTimeout(p)
      PROVE  NoFrames
    BY <1>5 DEF PullTimeout, NoFrames, counters
<1>6. ASSUME NEW p \in Pullers, NEW mode \in Modes, PullStart(p, mode)
      PROVE  NoFrames
    BY <1>6 DEF PullStart, NoFrames, counters
<1>7. ASSUME NEW chunk \in Chunks, PushAudio(chunk)
      PROVE  NoFrames
    BY <1>7 DEF PushAudio, NoFrames, pulls
<1>8. ASSUME NEW update \in Controls, UpdateControl(update)
      PROVE  NoFrames
    BY <1>8 DEF UpdateControl, NoFrames, pulls
<1>9. ASSUME Start \/ Produce \/ Close \/ UNCHANGED vars
      PROVE  NoFrames
    BY <1>9 DEF Start, Produce, Close, vars, NoFrames, counters, pulls
<1> QED
    BY <1>1, <1>2, <1>3, <1>4, <1>5, <1>6, <1>7, <1>8, <1>9 DEF Next

\* How the taken frames change.
LEMMA TakenGrows ==
    ASSUME TypeOK, NEW t \in Taken, taken' = Append(taken, t)
    PROVE  /\ DOMAIN taken = 1..Len(taken) /\ Len(taken) \in Nat
           /\ DOMAIN taken' = 1..(Len(taken) + 1) /\ Len(taken') = Len(taken) + 1
           /\ taken'[Len(taken) + 1] = t
           /\ \A i \in 1..Len(taken) : taken'[i] = taken[i]
<1>1. taken \in Seq(Taken)
    BY TypeFacts
<1> QED
    BY <1>1, AppendFacts

LEMMA TakenShrinks ==
    ASSUME TypeOK, taken # <<>>, taken' = Tail(taken)
    PROVE  \E n \in Nat :
               /\ Len(taken) = n + 1 /\ DOMAIN taken = 1..(n + 1)
               /\ Len(taken') = n /\ DOMAIN taken' = 1..n
               /\ Head(taken) = taken[1]
               /\ \A i \in 1..n : taken'[i] = taken[i + 1]
<1>1. taken \in Seq(Taken)
    BY TypeFacts
<1>2. /\ Len(taken) \in Nat \ {0} /\ DOMAIN taken = 1..Len(taken)
      /\ DOMAIN taken' = 1..(Len(taken) - 1) /\ Head(taken) = taken[1]
      /\ \A i \in 1..(Len(taken) - 1) : taken'[i] = taken[i + 1]
      /\ taken' \in Seq(Taken)
    BY <1>1, HeadTailFacts
<1> PICK n \in Nat : n + 1 = Len(taken) /\ n = Len(taken) - 1
    <2>1. Len(taken) - 1 \in Nat /\ (Len(taken) - 1) + 1 = Len(taken)
        BY <1>2
    <2> QED
        BY <2>1
<1>3. Len(taken') = n
    <2>1. Len(Tail(taken)) = Len(taken) - 1
        BY <1>1
    <2> QED
        BY <2>1
<1> QED
    BY <1>2, <1>3

-----------------------------------------------------------------------------
\* The additions to the invariant.
LEMMA IdleStep == IdleQueues /\ [Next]_vars => IdleQueues'
<1> SUFFICES ASSUME IdleQueues, [Next]_vars
             PROVE  IdleQueues'
    OBVIOUS
<1>1. ASSUME UNCHANGED <<state, audio, video>>
      PROVE  IdleQueues'
    BY <1>1 DEF IdleQueues
<1>2. ASSUME state' = "active"
      PROVE  IdleQueues'
    BY <1>2 DEF IdleQueues
<1>3. CASE Produce
    BY <1>3 DEF Produce, IdleQueues
<1>4. ASSUME NEW p \in Pullers, PullUntimed(p) \/ PullTake(p)
      PROVE  IdleQueues'
    BY <1>4 DEF PullUntimed, PullTake, Stamp, IdleQueues
<1>5. CASE Close
    BY <1>5 DEF Close, FlushTalk, DrainVideo, IdleQueues
<1> QED
    BY <1>1, <1>2, <1>3, <1>4, <1>5
    DEF Next, Start, PushAudio, UpdateControl, PullStart, PullDeliver, PullTimeout, Reset, Stamp,
        RequireActive, vars, runtime

LEMMA TakenOrigins ==
    ASSUME TypeOK
    PROVE  \A i \in DOMAIN taken : taken[i].frame.origin \in Nat
<1>1. taken \in Seq(Taken)
    BY TypeFacts
<1>2. \A i \in DOMAIN taken : taken[i] \in Taken
    BY <1>1
<1>3. \A t \in Taken : t.frame.origin \in Nat
    BY DEF Taken, LegacyVideoFrame
<1> QED
    BY <1>2, <1>3

LEMMA TakenBeforeStep ==
    ASSUME TypeOK, CurrentAudio, TakenBefore, [Next]_vars
    PROVE  TakenBefore'
<1>0. /\ epoch \in Nat /\ video \in Seq(LegacyVideoFrame) /\ taken \in Seq(Taken)
    BY TypeFacts
<1>1. CASE NoFrames
    BY <1>1 DEF NoFrames, TakenBefore
<1>2. CASE Reopens
    <2>1. \A i \in DOMAIN taken : taken[i].frame.origin \in Nat
        BY TakenOrigins
    <2> QED
        BY <1>0, <1>2, <2>1 DEF Reopens, TakenBefore
<1>3. ASSUME NEW t \in Taken, Takes(t)
      PROVE  TakenBefore'
    <2>1. video # <<>> /\ t.frame = Head(video) /\ taken' = Append(taken, t) /\ epoch' = epoch
        BY <1>3 DEF Takes
    <2>2. Head(video) = video[1] /\ 1 \in DOMAIN video
        BY <1>0, <2>1, HeadTailFacts
    <2>3. t.frame.origin = epoch
        BY <2>1, <2>2 DEF CurrentAudio
    <2>4. \A i \in DOMAIN taken' : taken'[i] = t \/ (i \in DOMAIN taken /\ taken'[i] = taken[i])
        BY <2>1, TakenGrows
    <2> QED
        BY <1>0, <2>1, <2>3, <2>4 DEF TakenBefore
<1>4. ASSUME NEW f \in Delivered, ReturnsAtOnce(f)
      PROVE  TakenBefore'
    BY <1>4 DEF ReturnsAtOnce, TakenBefore
<1>5. ASSUME NEW f \in Delivered, ReturnsTaken(f)
      PROVE  TakenBefore'
    <2>1. taken # <<>> /\ taken' = Tail(taken) /\ epoch' = epoch
        BY <1>5 DEF ReturnsTaken
    <2>2. \A i \in DOMAIN taken' : i + 1 \in DOMAIN taken /\ taken'[i] = taken[i + 1]
        BY <2>1, TakenShrinks
    <2> QED
        BY <2>1, <2>2 DEF TakenBefore
<1> QED
    BY <1>1, <1>2, <1>3, <1>4, <1>5, FramesEffect

\* Once a frame has been overtaken it stays so; a reset overtakes every frame
\* that is taken at that moment.
LEMMA OvertakenStays ==
    ASSUME TypeOK, TakenBefore, [Next]_vars, NoneOvertaken'
    PROVE  NoneOvertaken /\ (Reopens => taken = <<>>)
<1>0. /\ epoch \in Nat /\ taken \in Seq(Taken) /\ delivered \in Seq(Delivered)
      /\ \A i \in DOMAIN taken : taken[i].frame.origin \in Nat
    BY TypeFacts, TakenOrigins
<1>1. \A i \in DOMAIN delivered : i \in DOMAIN delivered' /\ delivered'[i] = delivered[i]
    <2>1. ASSUME NEW f \in Delivered, delivered' = Append(delivered, f)
          PROVE  \A i \in DOMAIN delivered : i \in DOMAIN delivered' /\ delivered'[i] = delivered[i]
        BY <2>1, DeliveredGrows
    <2>2. delivered' = delivered \/ \E f \in Delivered : delivered' = Append(delivered, f)
        BY FramesEffect DEF NoFrames, Reopens, Takes, ReturnsAtOnce, ReturnsTaken
    <2> QED
        BY <2>1, <2>2
<1>2. \A i \in DOMAIN delivered :
          delivered[i].timed => delivered[i].origin = delivered[i].epoch
    BY <1>1 DEF NoneOvertaken
<1>3. ASSUME Reopens
      PROVE  taken = <<>> /\ \A i \in DOMAIN taken : taken[i].frame.origin = epoch
    <2>1. \A i \in DOMAIN taken : taken[i].frame.origin = epoch + 1
        BY <1>3 DEF NoneOvertaken, Reopens
    <2>2. \A i \in DOMAIN taken : FALSE
        BY <1>0, <2>1 DEF TakenBefore
    <2>3. taken # <<>> => 1 \in DOMAIN taken
        BY <1>0, HeadTailFacts
    <2> QED
        BY <2>2, <2>3
<1>4. ASSUME ~Reopens
      PROVE  \A i \in DOMAIN taken : taken[i].frame.origin = epoch
    <2>1. CASE NoFrames
        BY <2>1 DEF NoFrames, NoneOvertaken
    <2>2. ASSUME NEW t \in Taken, Takes(t)
          PROVE  \A i \in DOMAIN taken : taken[i].frame.origin = epoch
        <3>1. taken' = Append(taken, t) /\ epoch' = epoch
            BY <2>2 DEF Takes
        <3>2. \A i \in DOMAIN taken : i \in DOMAIN taken' /\ taken'[i] = taken[i]
            BY <3>1, TakenGrows
        <3> QED
            BY <3>1, <3>2 DEF NoneOvertaken
    <2>3. ASSUME NEW f \in Delivered, ReturnsAtOnce(f)
          PROVE  \A i \in DOMAIN taken : taken[i].frame.origin = epoch
        BY <2>3 DEF ReturnsAtOnce, NoneOvertaken
    <2>4. ASSUME NEW f \in Delivered, ReturnsTaken(f)
          PROVE  \A i \in DOMAIN taken : taken[i].frame.origin = epoch
        <3>1. /\ taken # <<>> /\ taken' = Tail(taken) /\ epoch' = epoch
              /\ delivered' = Append(delivered, f) /\ f.epoch = epoch /\ f.timed = TRUE
              /\ f.origin = Head(taken).frame.origin
            BY <2>4 DEF ReturnsTaken
        <3>2. f.origin = epoch
            <4>1. \E i \in DOMAIN delivered' : delivered'[i] = f
                BY <3>1, DeliveredGrows
            <4> QED
                BY <3>1, <4>1 DEF NoneOvertaken
        <3>3. PICK n \in Nat :
                  /\ DOMAIN taken = 1..(n + 1) /\ DOMAIN taken' = 1..n
                  /\ Head(taken) = taken[1]
                  /\ \A i \in 1..n : taken'[i] = taken[i + 1]
            BY <3>1, TakenShrinks
        <3>4. ASSUME NEW i \in 1..(n + 1)
              PROVE  taken[i].frame.origin = epoch
            <4>1. CASE i = 1
                BY <3>1, <3>2, <3>3, <4>1
            <4>2. CASE i # 1
                <5>1. i - 1 \in 1..n /\ (i - 1) + 1 = i
                    BY <4>2
                <5>2. taken'[i - 1] = taken[i]
                    BY <3>3, <5>1
                <5>3. taken'[i - 1].frame.origin = epoch'
                    BY <3>3, <5>1 DEF NoneOvertaken
                <5> QED
                    BY <3>1, <5>2, <5>3
            <4> QED
                BY <4>1, <4>2
        <3> QED
            BY <3>3, <3>4
    <2> QED
        BY <1>4, <2>1, <2>2, <2>3, <2>4, FramesEffect
<1> QED
    BY <1>2, <1>3, <1>4 DEF NoneOvertaken

\* The lengths of the queues and the counters, for the balance.
LEMMA Lengths ==
    ASSUME TypeOK
    PROVE  /\ Len(audio) \in Nat /\ Len(video) \in Nat /\ Len(taken) \in Nat
           /\ nextAudioSequence \in Nat /\ nextVideoSequence \in Nat
    BY TypeFacts

LEMMA BalancePush ==
    ASSUME TypeOK, NEW chunk \in Chunks, PushAudio(chunk), Balance
    PROVE  Balance'
<1>0. audio \in Seq(Sample) /\ epoch \in Nat
    BY TypeFacts
<1>1. /\ nextAudioSequence' = nextAudioSequence + 1
      /\ UNCHANGED <<nextVideoSequence, taken, video>>
    BY DEF PushAudio, pulls
<1>2. Len(audio') = Len(audio) + 1
    <2>1. [sequence |-> chunk.sequence, pts_ms |-> chunk.pts_ms, epoch |-> epoch] \in Sample
        BY <1>0, ChunksAssumption, Lengths DEF PushAudio, AcceptsChunk, AudioChunk, Sample
    <2> QED
        BY <1>0, <2>1, AppendFacts DEF PushAudio
<1> QED
    BY <1>1, <1>2, Lengths DEF Balance

LEMMA BalanceProduce ==
    ASSUME TypeOK, Produce, Balance
    PROVE  Balance'
<1>0. audio \in Seq(Sample) /\ video \in Seq(LegacyVideoFrame)
    BY TypeFacts
<1>1. UNCHANGED <<nextAudioSequence, nextVideoSequence, taken>>
    BY DEF Produce, counters, pulls
<1>2. Len(audio) >= 2 /\ Len(audio) \in Nat
    BY <1>0 DEF Produce
<1>3. Len(audio') = Len(audio) - 2
    <2>1. \A i \in 3..Len(audio) : audio[i] \in Sample
        BY <1>0, <1>2
    <2>2. Len(audio') = IF 3 <= Len(audio) THEN Len(audio) - 3 + 1 ELSE 0
        BY <1>2, <2>1, SubSeqProperties DEF Produce
    <2> PICK n \in Nat : n = Len(audio)
        BY <1>2
    <2>3. IF 3 <= n THEN Len(audio') = n - 3 + 1 ELSE Len(audio') = 0
        BY <2>2
    <2>4. n >= 2
        BY <1>2
    <2>5. Len(audio') = n - 2
        BY <2>3, <2>4
    <2> QED
        BY <2>5
<1>4. Len(video') = Len(video) + 1
    <2>1. audio[1] \in Sample
        BY <1>0, <1>2
    <2>2. [pts_ms |-> audio[1].pts_ms, origin |-> audio[1].epoch] \in LegacyVideoFrame
        BY <2>1 DEF Sample, LegacyVideoFrame
    <2> QED
        BY <1>0, <2>2, AppendFacts DEF Produce
<1>5. \A v, t, r, a \in Nat :
          2 * (v + t + r) + a = 2 * (v + t + (r + 1)) + (a - 2)
    OBVIOUS
<1>6. /\ nextAudioSequence' = nextAudioSequence /\ nextVideoSequence' = nextVideoSequence
      /\ Len(taken') = Len(taken)
    BY <1>1
<1>7. 2 * (nextVideoSequence + Len(taken) + (Len(video) + 1)) + (Len(audio) - 2)
          = nextAudioSequence
    BY <1>5, Lengths DEF Balance
<1> QED
    BY <1>3, <1>4, <1>6, <1>7 DEF Balance

\* The three ways in which a frame moves on.
LEMMA BalancePull ==
    ASSUME TypeOK, NEW p \in Pullers, PullUntimed(p) \/ PullTake(p) \/ PullDeliver(p), Balance
    PROVE  Balance'
<1>0. /\ video \in Seq(LegacyVideoFrame) /\ taken \in Seq(Taken)
      /\ Len(video) \in Nat /\ Len(taken) \in Nat
    BY TypeFacts
<1>1. video # <<>> => Len(Tail(video)) = Len(video) - 1
    BY <1>0
<1>2. taken # <<>> => Len(Tail(taken)) = Len(taken) - 1
    BY <1>0
<1>3. CASE PullUntimed(p)
    <2>1. /\ Len(video') = Len(video) - 1 /\ nextVideoSequence' = nextVideoSequence + 1
          /\ UNCHANGED <<nextAudioSequence, audio, taken>>
        BY <1>1, <1>3 DEF PullUntimed, Stamp
    <2> QED
        BY <2>1, Lengths DEF Balance
<1>4. CASE PullTake(p)
    <2>1. /\ Len(video') = Len(video) - 1
          /\ UNCHANGED <<nextAudioSequence, nextVideoSequence, audio>>
        BY <1>1, <1>4 DEF PullTake, counters
    <2>2. Len(taken') = Len(taken) + 1
        BY <1>4, TakesFrame, TakenGrows DEF Takes
    <2> QED
        BY <2>1, <2>2, Lengths DEF Balance
<1>5. CASE PullDeliver(p)
    <2>1. /\ Len(taken') = Len(taken) - 1 /\ nextVideoSequence' = nextVideoSequence + 1
          /\ UNCHANGED <<nextAudioSequence, audio, video>>
        BY <1>2, <1>5 DEF PullDeliver, Stamp
    <2> QED
        BY <2>1, Lengths DEF Balance
<1> QED
    BY <1>3, <1>4, <1>5

LEMMA BalancedStep ==
    ASSUME TypeOK, TakenBefore, Balanced, [Next]_vars
    PROVE  Balanced'
<1> SUFFICES ASSUME state' # "closed", NoneOvertaken'
             PROVE  Balance'
    BY DEF Balanced
<1>1. NoneOvertaken /\ (Reopens => taken = <<>>)
    BY OvertakenStays
<1>2. CASE Reset
    <2>1. /\ nextAudioSequence' = 0 /\ nextVideoSequence' = 0
          /\ taken' = <<>> /\ audio' = <<>> /\ video' = <<>>
        BY <1>1, <1>2 DEF Reset, RestartNumbering, FlushTalk, DrainVideo, pulls, Reopens
    <2> QED
        BY <2>1, EmptyFacts DEF Balance
<1>3. ASSUME UNCHANGED <<nextAudioSequence, nextVideoSequence, taken, audio, video>>, Balance
      PROVE  Balance'
    BY <1>3 DEF Balance
<1>4. state # "closed"
    BY DEF Next, Start, PushAudio, UpdateControl, Produce, PullStart, PullUntimed, PullTake,
        PullDeliver, PullTimeout, Reset, Close, Stamp, RequireActive, vars
<1>5. Balance
    BY <1>1, <1>4 DEF Balanced
<1>6. ~Close
    BY DEF Close
<1>7. ASSUME NEW p \in Pullers, PullUntimed(p) \/ PullTake(p) \/ PullDeliver(p)
      PROVE  Balance'
    BY <1>5, <1>7, BalancePull
<1>8. ASSUME NEW chunk \in Chunks, PushAudio(chunk)
      PROVE  Balance'
    BY <1>5, <1>8, BalancePush
<1>9. CASE Produce
    BY <1>5, <1>9, BalanceProduce
<1> QED
    BY <1>2, <1>3, <1>5, <1>6, <1>7, <1>8, <1>9
    DEF Next, Start, UpdateControl, PullStart, PullTimeout, vars, counters, runtime, pulls

LEMMA CInvInit == Init => CInv
<1> SUFFICES ASSUME Init
             PROVE  CInv
    OBVIOUS
<1>1. IdleQueues /\ TakenBefore /\ Balanced
    BY EmptyFacts DEF Init, IdleQueues, TakenBefore, Balanced, Balance
<1> QED
    BY <1>1, InvInit DEF CInv

LEMMA CInvStep == CInv /\ [Next]_vars => CInv'
<1> SUFFICES ASSUME CInv, [Next]_vars
             PROVE  CInv'
    OBVIOUS
<1>1. IInv /\ TypeOK /\ CurrentAudio /\ IdleQueues /\ TakenBefore /\ Balanced
    BY DEF CInv, IInv
<1>2. IInv'
    BY <1>1, InvStep
<1>3. IdleQueues' /\ TakenBefore' /\ Balanced'
    BY <1>1, IdleStep, TakenBeforeStep, BalancedStep
<1> QED
    BY <1>2, <1>3 DEF CInv

LEMMA ContractInvariance == Spec => []CInv
    BY CInvInit, CInvStep, PTL DEF Spec

-----------------------------------------------------------------------------
\* The contract's view of the state, as KeepsContract substitutes it.
Frames(e, first, n) ==
    {[epoch |-> e, sequence |-> k] : k \in first..(first + n - 1)}

ClockNow == WhileOpen(nextAudioSequence * AudioChunkMs)
NextNow == WhileOpen(nextVideoSequence + Len(taken))
InFlightNow == Frames(epoch, nextVideoSequence, Len(taken))
ReturnedNow == {[epoch |-> delivered[i].epoch, sequence |-> delivered[i].sequence] :
                    i \in DOMAIN delivered}

\* The number under which the next frame is returned.
NextId == [epoch |-> epoch, sequence |-> nextVideoSequence]

Seen == <<state, epoch, ClockNow, NextNow, InFlightNow, ReturnedNow>>

\* One frame more at the end, one less at the front, and both at once.
LEMMA FramesNone ==
    ASSUME NEW e, NEW first \in Nat
    PROVE  Frames(e, first, 0) = {}
    BY DEF Frames

LEMMA FramesGrow ==
    ASSUME NEW e, NEW first \in Nat, NEW n \in Nat
    PROVE  Frames(e, first, n + 1) =
               Frames(e, first, n) \cup {[epoch |-> e, sequence |-> first + n]}
<1>1. \A k \in first..(first + (n + 1) - 1) : k \in first..(first + n - 1) \/ k = first + n
    OBVIOUS
<1>2. \A k \in first..(first + n - 1) : k \in first..(first + (n + 1) - 1)
    OBVIOUS
<1>3. first + n \in first..(first + (n + 1) - 1)
    OBVIOUS
<1> QED
    BY <1>1, <1>2, <1>3 DEF Frames

LEMMA FramesShrink ==
    ASSUME NEW e, NEW first \in Nat, NEW n \in Nat
    PROVE  /\ [epoch |-> e, sequence |-> first] \in Frames(e, first, n + 1)
           /\ Frames(e, first + 1, n) =
                  Frames(e, first, n + 1) \ {[epoch |-> e, sequence |-> first]}
<1>1. first \in first..(first + (n + 1) - 1)
    OBVIOUS
<1>2. \A k \in (first + 1)..((first + 1) + n - 1) :
          k \in first..(first + (n + 1) - 1) /\ k # first
    OBVIOUS
<1>3. \A k \in first..(first + (n + 1) - 1) :
          k = first \/ k \in (first + 1)..((first + 1) + n - 1)
    OBVIOUS
<1>4. \A j, k : [epoch |-> e, sequence |-> j] = [epoch |-> e, sequence |-> k] => j = k
    <2> SUFFICES ASSUME NEW j, NEW k, [epoch |-> e, sequence |-> j] = [epoch |-> e, sequence |-> k]
                 PROVE  j = k
        OBVIOUS
    <2>1. [epoch |-> e, sequence |-> j].sequence = [epoch |-> e, sequence |-> k].sequence
        OBVIOUS
    <2> QED
        BY <2>1
<1> QED
    BY <1>1, <1>2, <1>3, <1>4 DEF Frames

LEMMA FramesShift ==
    ASSUME NEW e, NEW first \in Nat, NEW n \in Nat, n # 0
    PROVE  /\ [epoch |-> e, sequence |-> first] \in Frames(e, first, n)
           /\ Frames(e, first + 1, n) =
                  (Frames(e, first, n) \ {[epoch |-> e, sequence |-> first]})
                      \cup {[epoch |-> e, sequence |-> first + n]}
<1> PICK m \in Nat : n = m + 1
    <2>1. n - 1 \in Nat /\ n = (n - 1) + 1
        OBVIOUS
    <2> QED
        BY <2>1
<1>1. /\ [epoch |-> e, sequence |-> first] \in Frames(e, first, m + 1)
      /\ Frames(e, first + 1, m) =
             Frames(e, first, m + 1) \ {[epoch |-> e, sequence |-> first]}
    BY FramesShrink
<1>2. first + 1 \in Nat
    OBVIOUS
<1>3. Frames(e, first + 1, m + 1) =
          Frames(e, first + 1, m) \cup {[epoch |-> e, sequence |-> (first + 1) + m]}
    BY <1>2, FramesGrow
<1>4. (first + 1) + m = first + n
    OBVIOUS
<1> QED
    BY <1>1, <1>3, <1>4

LEMMA ReturnedGrows ==
    ASSUME TypeOK, NEW f \in Delivered, delivered' = Append(delivered, f),
           f.sequence = nextVideoSequence, f.epoch = epoch
    PROVE  ReturnedNow' =
               ReturnedNow \cup {[epoch |-> epoch, sequence |-> nextVideoSequence]}
<1> PICK n \in Nat : n = Len(delivered)
    BY TypeFacts
<1>1. /\ DOMAIN delivered = 1..n /\ DOMAIN delivered' = 1..(n + 1)
      /\ delivered'[n + 1] = f
      /\ \A i \in 1..n : delivered'[i] = delivered[i]
    BY DeliveredGrows
<1>2. \A i \in 1..(n + 1) : i \in 1..n \/ i = n + 1
    OBVIOUS
<1>3. 1..n \subseteq 1..(n + 1) /\ n + 1 \in 1..(n + 1)
    OBVIOUS
<1>4. ReturnedNow' = {[epoch |-> delivered'[i].epoch, sequence |-> delivered'[i].sequence] :
                          i \in 1..(n + 1)}
    BY <1>1 DEF ReturnedNow
<1>5. ReturnedNow = {[epoch |-> delivered[i].epoch, sequence |-> delivered[i].sequence] :
                          i \in 1..n}
    BY <1>1 DEF ReturnedNow
<1> QED
    BY <1>1, <1>2, <1>3, <1>4, <1>5

\* What is unchanged in the bridge is unchanged in the contract's view.
LEMMA SeenKept ==
    ASSUME UNCHANGED <<state, epoch, nextAudioSequence, nextVideoSequence, taken, delivered>>
    PROVE  UNCHANGED Seen
    BY DEF Seen, ClockNow, NextNow, InFlightNow, ReturnedNow, WhileOpen, Frames

\* The audio of the next frame is there whenever a frame is ready.
LEMMA FrameReady ==
    ASSUME CInv, NoneOvertaken, video # <<>>
    PROVE  /\ state = "active"
           /\ ClockNow = nextAudioSequence * AudioChunkMs
           /\ NextNow = nextVideoSequence + Len(taken)
           /\ (NextNow + 1) * VideoFrameMs <= ClockNow
<1>1. TypeOK /\ state = "active"
    BY DEF CInv, IInv, IdleQueues
<1>2. ClockNow = nextAudioSequence * AudioChunkMs /\ NextNow = nextVideoSequence + Len(taken)
    BY <1>1 DEF ClockNow, NextNow, WhileOpen
<1>3. Balance
    BY <1>1 DEF CInv, Balanced
<1>4. Len(video) \in Nat \ {0}
    <2>1. video \in Seq(LegacyVideoFrame)
        BY <1>1, TypeFacts
    <2> QED
        BY <2>1, HeadTailFacts
<1>5. \A v, t, r, a \in Nat : r # 0 =>
          ((v + t) + 1) * 40 <= (2 * (v + t + r) + a) * 20
    OBVIOUS
<1>6. ((nextVideoSequence + Len(taken)) + 1) * 40 <= nextAudioSequence * 20
    BY <1>1, <1>3, <1>4, <1>5, Lengths DEF Balance
<1> QED
    BY <1>1, <1>2, <1>6 DEF VideoFrameMs, AudioChunkMs

-----------------------------------------------------------------------------
\* How the actions of the bridge map to those of the contract.
LEMMA StartOpens ==
    ASSUME Start
    PROVE  Contract!Open
<1>1. /\ state = "created" /\ state' = "active"
      /\ UNCHANGED <<epoch, nextAudioSequence, nextVideoSequence, taken, delivered>>
    BY DEF Start, counters, pulls
<1>2. ClockNow' = ClockNow /\ NextNow' = NextNow
    BY <1>1 DEF ClockNow, NextNow, WhileOpen
<1>3. InFlightNow' = InFlightNow /\ ReturnedNow' = ReturnedNow
    BY <1>1 DEF InFlightNow, ReturnedNow, Frames
<1> QED
    BY <1>1, <1>2, <1>3
    DEF Contract!Open, ClockNow, NextNow, InFlightNow, ReturnedNow, Frames

LEMMA PushAccepts ==
    ASSUME TypeOK, NEW chunk \in Chunks, PushAudio(chunk)
    PROVE  Contract!Accept
<1>1. /\ state = "active" /\ state' = "active"
      /\ nextAudioSequence' = nextAudioSequence + 1
      /\ UNCHANGED <<epoch, nextVideoSequence, taken, delivered>>
    BY DEF PushAudio, RequireActive, pulls
<1>2. ClockNow' \in Nat /\ ClockNow' >= ClockNow + AudioChunkMs
    <2>1. nextAudioSequence \in Nat
        BY TypeFacts
    <2>2. \A n \in Nat : (n + 1) * 20 \in Nat /\ (n + 1) * 20 >= n * 20 + 20
        OBVIOUS
    <2> QED
        BY <1>1, <2>1, <2>2 DEF ClockNow, WhileOpen, AudioChunkMs
<1>3. UNCHANGED <<NextNow, InFlightNow, ReturnedNow>>
    BY <1>1 DEF NextNow, InFlightNow, ReturnedNow, WhileOpen, Frames
<1> QED
    BY <1>1, <1>2, <1>3
    DEF Contract!Accept, Contract!AudioChunkMs, AudioChunkMs, ClockNow, NextNow, InFlightNow, ReturnedNow, Frames

\* A pull without a timeout gets the number of the timed pull that waits
\* longest, which goes on with the next one.
LEMMA UntimedReturns ==
    ASSUME CInv, NoneOvertaken, NEW p \in Pullers, PullUntimed(p)
    PROVE  Contract!GiveAndReturn \/ \E frame \in InFlightNow : Contract!Exchange(frame)
<1>0. TypeOK
    BY DEF CInv, IInv
<1>1. /\ video # <<>> /\ nextVideoSequence' = nextVideoSequence + 1
      /\ UNCHANGED <<state, epoch, nextAudioSequence, taken>>
    BY DEF PullUntimed, Stamp
<1>2. /\ state = "active"
      /\ ClockNow = nextAudioSequence * AudioChunkMs
      /\ NextNow = nextVideoSequence + Len(taken)
      /\ (NextNow + 1) * VideoFrameMs <= ClockNow
    BY <1>1, FrameReady
<1>3. ReturnedNow' = ReturnedNow \cup {NextId}
    BY <1>0, ReturnsFrameAtOnce, ReturnedGrows DEF ReturnsAtOnce, NextId
<1>4. /\ nextVideoSequence \in Nat /\ Len(taken) \in Nat
    BY <1>0, Lengths
<1>5. NextNow' = NextNow + 1
    <2>1. NextNow' = nextVideoSequence' + Len(taken)
        BY <1>1, <1>2 DEF NextNow, WhileOpen
    <2> QED
        BY <1>1, <1>2, <1>4, <2>1
<1>6. ClockNow' = ClockNow
    BY <1>1 DEF ClockNow, WhileOpen
<1>7. InFlightNow' = Frames(epoch, nextVideoSequence + 1, Len(taken))
    BY <1>1 DEF InFlightNow
<1>8. Contract!GiveNext
    BY <1>1, <1>2, <1>5, <1>6 DEF Contract!GiveNext, Contract!VideoFrameMs, VideoFrameMs, ClockNow, NextNow
<1>9. CASE Len(taken) = 0
    <2>1. NextNow = nextVideoSequence
        BY <1>2, <1>4, <1>9
    <2>2. InFlightNow' = InFlightNow
        <3>1. nextVideoSequence + 1 \in Nat
            BY <1>4
        <3> QED
            BY <1>4, <1>7, <1>9, <3>1, FramesNone DEF InFlightNow
    <2>3. Contract!NextFrame = NextId
        BY <2>1 DEF Contract!NextFrame, NextNow, NextId
    <2> QED
        BY <1>3, <1>8, <2>2, <2>3
        DEF Contract!GiveAndReturn, InFlightNow, ReturnedNow, Frames
<1>10. CASE Len(taken) # 0
    <2>1. /\ NextId \in InFlightNow
          /\ InFlightNow' = (InFlightNow \ {NextId})
                 \cup {[epoch |-> epoch, sequence |-> nextVideoSequence + Len(taken)]}
        BY <1>4, <1>7, <1>10, FramesShift DEF InFlightNow, NextId
    <2>2. Contract!NextFrame = [epoch |-> epoch, sequence |-> nextVideoSequence + Len(taken)]
        BY <1>2 DEF Contract!NextFrame, NextNow
    <2> PICK id \in InFlightNow : id = NextId
        BY <2>1
    <2>3. Contract!Exchange(id)
        BY <1>3, <1>8, <2>1, <2>2
        DEF Contract!Exchange, InFlightNow, ReturnedNow, Frames
    <2> QED
        BY <2>3
<1> QED
    BY <1>9, <1>10

LEMMA TakeGives ==
    ASSUME CInv, NoneOvertaken, NEW p \in Pullers, PullTake(p)
    PROVE  Contract!Give
<1>0. TypeOK
    BY DEF CInv, IInv
<1>1. /\ video # <<>>
      /\ UNCHANGED <<state, epoch, nextAudioSequence, nextVideoSequence, delivered>>
    BY DEF PullTake, counters
<1>2. /\ state = "active"
      /\ NextNow = nextVideoSequence + Len(taken)
      /\ (NextNow + 1) * VideoFrameMs <= ClockNow
    BY <1>1, FrameReady
<1>3. Len(taken') = Len(taken) + 1 /\ Len(taken) \in Nat /\ nextVideoSequence \in Nat
    BY <1>0, TakesFrame, TakenGrows, Lengths DEF Takes
<1>4. NextNow' = NextNow + 1
    <2>1. NextNow' = nextVideoSequence + Len(taken')
        BY <1>1, <1>2 DEF NextNow, WhileOpen
    <2> QED
        BY <1>2, <1>3, <2>1
<1>5. InFlightNow' = InFlightNow \cup {[epoch |-> epoch, sequence |-> NextNow]}
    <2>1. InFlightNow' = Frames(epoch, nextVideoSequence, Len(taken) + 1)
        BY <1>1, <1>3 DEF InFlightNow
    <2> QED
        BY <1>2, <1>3, <2>1, FramesGrow DEF InFlightNow
<1>6. ClockNow' = ClockNow /\ ReturnedNow' = ReturnedNow
    BY <1>1 DEF ClockNow, ReturnedNow, WhileOpen
<1> QED
    BY <1>1, <1>2, <1>4, <1>5, <1>6
    DEF Contract!Give, Contract!GiveNext, Contract!NextFrame, Contract!VideoFrameMs,
        VideoFrameMs, ClockNow, NextNow, InFlightNow, ReturnedNow, Frames

\* Also after close.
LEMMA DeliverReturns ==
    ASSUME TypeOK, NEW p \in Pullers, PullDeliver(p)
    PROVE  \E frame \in InFlightNow : Contract!Return(frame)
<1>1. /\ taken # <<>> /\ taken' = Tail(taken)
      /\ nextVideoSequence' = nextVideoSequence + 1
      /\ UNCHANGED <<state, epoch, nextAudioSequence>>
    BY DEF PullDeliver, Stamp
<1> PICK n \in Nat : Len(taken) = n + 1 /\ Len(taken') = n
    BY <1>1, TakenShrinks
<1>2. nextVideoSequence \in Nat
    BY TypeFacts
<1>3. ReturnedNow' = ReturnedNow \cup {NextId}
    BY ReturnsTakenFrame, ReturnedGrows DEF ReturnsTaken, NextId
<1>4. NextId \in InFlightNow /\ InFlightNow' = InFlightNow \ {NextId}
    <2>1. InFlightNow' = Frames(epoch, nextVideoSequence + 1, n)
        BY <1>1 DEF InFlightNow
    <2>2. InFlightNow = Frames(epoch, nextVideoSequence, n + 1)
        BY DEF InFlightNow
    <2> QED
        BY <1>2, <2>1, <2>2, FramesShrink DEF NextId
<1>5. NextNow' = NextNow
    <2>1. (nextVideoSequence + 1) + n = nextVideoSequence + (n + 1)
        BY <1>2
    <2>2. nextVideoSequence' + Len(taken') = nextVideoSequence + Len(taken)
        BY <1>1, <2>1
    <2> QED
        BY <1>1, <2>2 DEF NextNow, WhileOpen
<1>6. ClockNow' = ClockNow
    BY <1>1 DEF ClockNow, WhileOpen
<1> PICK id \in InFlightNow : id = NextId
    BY <1>4
<1>7. Contract!Return(id)
    BY <1>1, <1>3, <1>4, <1>5, <1>6
    DEF Contract!Return, ClockNow, NextNow, InFlightNow, ReturnedNow, Frames
<1> QED
    BY <1>7

LEMMA ResetResets ==
    ASSUME TypeOK, Reset, taken = <<>>
    PROVE  Contract!Reset
<1>1. /\ state = "active" /\ state' = "active" /\ epoch' = epoch + 1
      /\ nextAudioSequence' = 0 /\ nextVideoSequence' = 0
      /\ UNCHANGED <<taken, delivered>>
    BY DEF Reset, RequireActive, RestartNumbering, pulls
<1>2. Len(taken) = 0 /\ Len(taken') = 0
    BY <1>1, EmptyFacts
<1>3. NextNow' = 0 /\ ClockNow' = 0
    BY <1>1, <1>2 DEF NextNow, ClockNow, WhileOpen, AudioChunkMs
<1>4. InFlightNow' = InFlightNow
    <2>1. nextVideoSequence \in Nat /\ 0 \in Nat
        BY TypeFacts
    <2>2. InFlightNow' = Frames(epoch', 0, 0) /\ InFlightNow = Frames(epoch, nextVideoSequence, 0)
        BY <1>1, <1>2 DEF InFlightNow
    <2>3. Frames(epoch', 0, 0) = {} /\ Frames(epoch, nextVideoSequence, 0) = {}
        BY <2>1 DEF Frames
    <2> QED
        BY <2>2, <2>3
<1>5. ReturnedNow' = ReturnedNow
    BY <1>1 DEF ReturnedNow
<1> QED
    BY <1>1, <1>3, <1>4, <1>5
    DEF Contract!Reset, ClockNow, NextNow, InFlightNow, ReturnedNow, Frames

LEMMA CloseCloses ==
    ASSUME Close
    PROVE  Contract!Close
<1>1. /\ state' = "closed"
      /\ UNCHANGED <<epoch, nextVideoSequence, taken, delivered>>
    BY DEF Close, counters, pulls
<1>2. NextNow' = 0 /\ ClockNow' = 0
    BY <1>1 DEF NextNow, ClockNow, WhileOpen
<1>3. UNCHANGED <<InFlightNow, ReturnedNow>>
    BY <1>1 DEF InFlightNow, ReturnedNow, Frames
<1> QED
    BY <1>1, <1>2, <1>3
    DEF Contract!Close, ClockNow, NextNow, InFlightNow, ReturnedNow, Frames

\* The steps that the contract does not see.
LEMMA Invisible ==
    ASSUME \/ \E update \in Controls : UpdateControl(update)
           \/ Produce
           \/ \E p \in Pullers, mode \in Modes : PullStart(p, mode)
           \/ \E p \in Pullers : PullTimeout(p)
           \/ UNCHANGED vars
    PROVE  UNCHANGED Seen
<1>1. UNCHANGED <<state, epoch, nextAudioSequence, nextVideoSequence, taken, delivered>>
    BY DEF UpdateControl, Produce, PullStart, PullTimeout, vars, counters, pulls
<1> QED
    BY <1>1, SeenKept

LEMMA ContractInit == Init => Contract!Init
<1> SUFFICES ASSUME Init
             PROVE  Contract!Init
    OBVIOUS
<1>1. ClockNow = 0 /\ NextNow = 0
    BY EmptyFacts DEF Init, ClockNow, NextNow, WhileOpen, AudioChunkMs
<1>2. InFlightNow = {} /\ ReturnedNow = {}
    BY EmptyFacts DEF Init, InFlightNow, ReturnedNow, Frames
<1> QED
    BY <1>1, <1>2
    DEF Init, Contract!Init, ClockNow, NextNow, InFlightNow, ReturnedNow, Frames

\* Every step that overtakes no frame maps to a step of the contract or to a
\* stutter.
LEMMA ContractStep ==
    CInv /\ [Next]_vars => [NoneOvertaken' => Contract!Next \/ UNCHANGED Contract!vars]_vars
<1> SUFFICES ASSUME CInv, [Next]_vars, NoneOvertaken'
             PROVE  Contract!Next \/ UNCHANGED Contract!vars
    OBVIOUS
<1>0. TypeOK /\ NoneOvertaken /\ (Reopens => taken = <<>>)
    BY OvertakenStays DEF CInv, IInv
<1>1. ASSUME UNCHANGED Seen
      PROVE  UNCHANGED Contract!vars
    BY <1>1 DEF Seen, Contract!vars, ClockNow, NextNow, InFlightNow, ReturnedNow, Frames
<1>2. ASSUME NEW p \in Pullers, PullDeliver(p)
      PROVE  Contract!Next
    BY <1>0, <1>2, DeliverReturns DEF Contract!Next, InFlightNow, Frames
<1>3. ASSUME NEW p \in Pullers, PullUntimed(p)
      PROVE  Contract!Next
    BY <1>0, <1>3, UntimedReturns DEF Contract!Next, InFlightNow, Frames
<1>4. ASSUME NEW p \in Pullers, PullTake(p)
      PROVE  Contract!Next
    BY <1>0, <1>4, TakeGives DEF Contract!Next
<1>5. CASE Reset
    <2>1. Reopens
        BY <1>5 DEF Reset, Reopens, pulls
    <2> QED
        BY <1>0, <1>5, <2>1, ResetResets DEF Contract!Next
<1>6. CASE Start \/ Close
    BY <1>6, StartOpens, CloseCloses DEF Contract!Next
<1>7. ASSUME NEW chunk \in Chunks, PushAudio(chunk)
      PROVE  Contract!Next
    BY <1>0, <1>7, PushAccepts DEF Contract!Next
<1> QED
    BY <1>1, <1>2, <1>3, <1>4, <1>5, <1>6, <1>7, Invisible DEF Next

\* The bridge keeps the contract of a backend, for every set of chunks, updates
\* and pullers and any number of resets, until a reset overtakes a frame that a
\* pull with a timeout has taken (livetalking.py:73-154, protocol.py:103-123).
THEOREM KeepsContractCorrect == Spec => KeepsContract
    BY ContractInvariance, ContractInit, ContractStep, PTL DEF Spec, KeepsContract

-----------------------------------------------------------------------------
\* Without timeouts no frame is ever taken before it is stamped.
NoneTimed == taken = <<>> /\ \A i \in DOMAIN delivered : ~delivered[i].timed

LEMMA NoneTimedInit == Init => NoneTimed
    BY EmptyFacts DEF Init, NoneTimed

LEMMA NoneTimedStep ==
    ASSUME "timed" \notin Modes
    PROVE  CInv /\ NoneTimed /\ [Next]_vars => NoneTimed'
<1> SUFFICES ASSUME CInv, NoneTimed, [Next]_vars
             PROVE  NoneTimed'
    OBVIOUS
<1>0. TypeOK
    BY DEF CInv, IInv
<1>1. ASSUME NEW f \in Delivered, ReturnsAtOnce(f)
      PROVE  NoneTimed'
    <2>1. /\ delivered' = Append(delivered, f) /\ f.timed = FALSE /\ taken' = taken
        BY <1>1 DEF ReturnsAtOnce
    <2>2. \A i \in DOMAIN delivered' :
              delivered'[i] = f \/ (i \in DOMAIN delivered /\ delivered'[i] = delivered[i])
        BY <1>0, <2>1, DeliveredGrows
    <2> QED
        BY <2>1, <2>2 DEF NoneTimed
<1>2. ASSUME NEW p \in Pullers, PullTake(p)
      PROVE  FALSE
    <2>1. pull \in [Pullers -> Modes \cup {"idle", "holding"}]
        BY <1>0 DEF TypeOK
    <2>2. pull[p] = "timed" /\ pull[p] \in Modes \cup {"idle", "holding"}
        BY <1>2, <2>1 DEF PullTake
    <2> QED
        BY <2>2
<1>3. ASSUME NEW p \in Pullers, PullDeliver(p)
      PROVE  FALSE
    BY <1>3 DEF PullDeliver, NoneTimed
<1>4. ASSUME NEW p \in Pullers, PullUntimed(p)
      PROVE  NoneTimed'
    BY <1>0, <1>1, <1>4, ReturnsFrameAtOnce
<1>5. ASSUME UNCHANGED <<taken, delivered>>
      PROVE  NoneTimed'
    BY <1>5 DEF NoneTimed
<1> QED
    BY <1>2, <1>3, <1>4, <1>5
    DEF Next, Start, PushAudio, UpdateControl, Produce, PullStart, PullTimeout, Reset, Close,
        vars, pulls

LEMMA NoneTimedIsEnough == NoneTimed => NoneOvertaken
    BY EmptyFacts DEF NoneTimed, NoneOvertaken

\* A bridge whose clients never give a timeout implements the contract of a
\* backend without exception: the timed pull is the whole of the divergence
\* (livetalking.py:73-154, protocol.py:103-123).
THEOREM UntimedKeepsContract ==
    ASSUME "timed" \notin Modes
    PROVE  Spec => Contract!Spec
<1>1. Spec => []NoneOvertaken
    BY NoneTimedInit, NoneTimedStep, NoneTimedIsEnough, ContractInvariance, PTL DEF Spec
<1>2. Spec => KeepsContract
    BY KeepsContractCorrect
<1>3. /\ NoneOvertaken'
      /\ [NoneOvertaken' => Contract!Next \/ UNCHANGED Contract!vars]_vars
      => [Contract!Next]_(Contract!vars)
    <2> SUFFICES ASSUME NoneOvertaken',
                        [NoneOvertaken' => Contract!Next \/ UNCHANGED Contract!vars]_vars
                 PROVE  Contract!Next \/ UNCHANGED Contract!vars
        OBVIOUS
    <2>1. CASE UNCHANGED vars
        <3>1. UNCHANGED <<state, epoch, nextAudioSequence, nextVideoSequence, taken, delivered>>
            BY <2>1 DEF vars, counters, pulls
        <3>2. UNCHANGED Seen
            BY <3>1, SeenKept
        <3> QED
            BY <3>2 DEF Seen, Contract!vars, ClockNow, NextNow, InFlightNow, ReturnedNow, Frames
    <2> QED
        BY <2>1
<1> QED
    BY <1>1, <1>2, <1>3, PTL DEF KeepsContract, Contract!Spec

\* Without timeouts every frame is delivered in the epoch of its audio: reset
\* leaves nothing behind (livetalking.py:117-145).
THEOREM UntimedClientsFidelity ==
    ASSUME "timed" \notin Modes
    PROVE  Spec => []EpochFidelity
<1>1. NoneTimed /\ UntimedFidelity => EpochFidelity
    BY DEF NoneTimed, UntimedFidelity, EpochFidelity
<1> QED
    BY <1>1, NoneTimedInit, NoneTimedStep, ContractInvariance, UntimedFidelityCorrect, PTL
    DEF Spec
=============================================================================
