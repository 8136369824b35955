----------------------- MODULE SessionContractProofs -----------------------
(***************************************************************************)
(* What follows from the contract of a backend alone, so that whatever     *)
(* implements it has it too.  A session may begin unopened or, seen by who *)
(* has just been given it, opened.                                         *)
(***************************************************************************)
EXTENDS SessionContract, TLAPS

Inv == TypeOK /\ EachOnce

\* What changes in the ledger when nothing but the clock or the state does.
LEMMA SameFrames ==
    ASSUME UNCHANGED <<inFlight, returned>>
    PROVE  \A e : FramesOfEpoch(e)' = FramesOfEpoch(e)
    BY DEF FramesOfEpoch

LEMMA InvInit == Init \/ Opened => Inv
<1> SUFFICES ASSUME Init \/ Opened
             PROVE  Inv
    OBVIOUS
<1>1. /\ state \in {"created", "active"} /\ epoch = 0 /\ clock = 0 /\ next = 0
      /\ inFlight = {} /\ returned = {}
    BY DEF Init, Opened
<1>2. 0..(0 - 1) = {} /\ 0 * 40 <= 0
    OBVIOUS
<1>3. TypeOK
    BY <1>1 DEF TypeOK
<1>4. FramesOfEpoch(epoch) = {}
    BY <1>1 DEF FramesOfEpoch
<1>5. {[epoch |-> epoch, sequence |-> n] : n \in 0..(next - 1)} = {}
    BY <1>1, <1>2
<1>6. next * VideoFrameMs <= clock
    BY <1>1, <1>2 DEF VideoFrameMs
<1> QED
    BY <1>1, <1>3, <1>4, <1>5, <1>6 DEF Inv, EachOnce

\* Giving the next frame, whoever has it then.
LEMMA GivenOne ==
    ASSUME Inv, GiveNext, inFlight' \cup returned' = inFlight \cup returned \cup {NextFrame},
           inFlight' \cap returned' = {}
    PROVE  EachOnce'
<1>1. /\ state = "active" /\ (next + 1) * VideoFrameMs <= clock /\ next' = next + 1
      /\ UNCHANGED <<state, epoch, clock>>
    BY DEF GiveNext
<1>2. epoch \in Nat /\ next \in Nat /\ clock \in Nat
    BY DEF Inv, TypeOK
<1>3. \A f \in inFlight' \cup returned' : f.epoch <= epoch'
    BY <1>1, <1>2 DEF Inv, EachOnce, NextFrame
<1>4. FramesOfEpoch(epoch)' = FramesOfEpoch(epoch) \cup {NextFrame}
    BY <1>1 DEF FramesOfEpoch, NextFrame
<1>5. FramesOfEpoch(epoch) = {[epoch |-> epoch, sequence |-> n] : n \in 0..(next - 1)}
    BY <1>1 DEF Inv, EachOnce
<1>6. 0..next' - 1 = 0..(next - 1) \cup {next}
    BY <1>1, <1>2
<1>7. FramesOfEpoch(epoch)' = {[epoch |-> epoch, sequence |-> n] : n \in 0..(next' - 1)}
    BY <1>4, <1>5, <1>6 DEF NextFrame
<1>8. next' * VideoFrameMs <= clock'
    BY <1>1
<1> QED
    BY <1>1, <1>3, <1>7, <1>8 DEF EachOnce

LEMMA InvStep == Inv /\ [Next]_vars => Inv'
<1> SUFFICES ASSUME Inv, [Next]_vars
             PROVE  Inv'
    OBVIOUS
<1>0. /\ TypeOK /\ EachOnce
      /\ epoch \in Nat /\ clock \in Nat /\ next \in Nat
      /\ inFlight \subseteq FrameId /\ returned \subseteq FrameId
    BY DEF Inv, TypeOK
<1>1. NextFrame \in FrameId
    BY <1>0 DEF NextFrame, FrameId
<1>2. state = "active" => NextFrame \notin inFlight \cup returned
    <2> SUFFICES ASSUME state = "active", NextFrame \in inFlight \cup returned
                 PROVE  FALSE
        OBVIOUS
    <2>1. NextFrame \in FramesOfEpoch(epoch)
        BY DEF FramesOfEpoch, NextFrame
    <2>2. PICK n \in 0..(next - 1) : NextFrame = [epoch |-> epoch, sequence |-> n]
        BY <1>0, <2>1 DEF EachOnce
    <2>3. n = next
        BY <2>2 DEF NextFrame
    <2> QED
        BY <1>0, <2>2, <2>3
<1>3. CASE Open
    <2>1. /\ state' = "active" /\ state = "created"
          /\ UNCHANGED <<epoch, clock, next, inFlight, returned>>
        BY <1>3 DEF Open
    <2>2. FramesOfEpoch(epoch)' = FramesOfEpoch(epoch)
        BY <2>1, SameFrames
    <2> QED
        BY <1>0, <2>1, <2>2 DEF Inv, TypeOK, EachOnce
<1>4. CASE Accept
    <2>1. /\ clock' \in Nat /\ clock' >= clock
          /\ UNCHANGED <<state, epoch, next, inFlight, returned>>
        BY <1>0, <1>4 DEF Accept, AudioChunkMs
    <2>2. FramesOfEpoch(epoch)' = FramesOfEpoch(epoch)
        BY <2>1, SameFrames
    <2>3. state # "closed" => next' * VideoFrameMs <= clock'
        BY <1>0, <2>1 DEF EachOnce, VideoFrameMs
    <2> QED
        BY <1>0, <2>1, <2>2, <2>3 DEF Inv, TypeOK, EachOnce
<1>5. ASSUME NEW frame \in FrameId,
             \/ Give
             \/ GiveAndReturn
             \/ frame \in inFlight /\ Exchange(frame)
      PROVE  Inv'
    <2>1. GiveNext
        BY <1>5 DEF Give, GiveAndReturn, Exchange
    <2>2. /\ state = "active" /\ next' = next + 1 /\ UNCHANGED <<state, epoch, clock>>
        BY <2>1 DEF GiveNext
    <2>3. NextFrame \notin inFlight \cup returned
        BY <1>2, <2>2
    <2>4. /\ inFlight' \cup returned' = inFlight \cup returned \cup {NextFrame}
          /\ inFlight' \cap returned' = {}
        BY <1>0, <1>5, <2>3 DEF Give, GiveAndReturn, Exchange, EachOnce
    <2>5. inFlight' \subseteq FrameId /\ returned' \subseteq FrameId
        BY <1>0, <1>1, <2>4
    <2> QED
        BY <1>0, <2>1, <2>2, <2>4, <2>5, GivenOne DEF Inv, TypeOK
<1>6. ASSUME NEW frame \in inFlight, Return(frame)
      PROVE  Inv'
    <2>1. /\ UNCHANGED <<state, epoch, clock, next>>
          /\ inFlight' = inFlight \ {frame} /\ returned' = returned \cup {frame}
        BY <1>6 DEF Return
    <2>2. /\ inFlight' \cup returned' = inFlight \cup returned
          /\ inFlight' \cap returned' = {}
        BY <1>0, <1>6, <2>1 DEF EachOnce
    <2>3. FramesOfEpoch(epoch)' = FramesOfEpoch(epoch)
        BY <2>1, <2>2 DEF FramesOfEpoch
    <2>4. inFlight' \subseteq FrameId /\ returned' \subseteq FrameId
        BY <1>0, <2>2
    <2>5. \A f \in inFlight' \cup returned' : f.epoch <= epoch'
        BY <1>0, <2>1, <2>2 DEF EachOnce
    <2> QED
        BY <1>0, <2>1, <2>2, <2>3, <2>4, <2>5 DEF Inv, TypeOK, EachOnce
<1>7. CASE Reset
    <2>1. /\ state = "active" /\ epoch' = epoch + 1 /\ clock' = 0 /\ next' = 0
          /\ UNCHANGED <<state, inFlight, returned>>
        BY <1>7 DEF Reset
    <2>2. \A f \in inFlight \cup returned : f.epoch <= epoch /\ f.epoch \in Nat
        BY <1>0 DEF EachOnce, FrameId
    <2>3. FramesOfEpoch(epoch)' = {}
        BY <1>0, <2>1, <2>2 DEF FramesOfEpoch
    <2>4. 0..(next' - 1) = {} /\ next' * VideoFrameMs <= clock'
        BY <2>1 DEF VideoFrameMs
    <2>5. {[epoch |-> epoch', sequence |-> n] : n \in 0..(next' - 1)} = {}
        BY <2>4
    <2>6. \A f \in inFlight' \cup returned' : f.epoch <= epoch'
        BY <1>0, <2>1, <2>2
    <2> QED
        BY <1>0, <2>1, <2>3, <2>4, <2>5, <2>6 DEF Inv, TypeOK, EachOnce
<1>8. CASE Close
    BY <1>0, <1>8 DEF Close, Inv, TypeOK, EachOnce
<1>9. CASE UNCHANGED vars
    <2>1. UNCHANGED <<state, epoch, clock, next, inFlight, returned>>
        BY <1>9 DEF vars
    <2>2. FramesOfEpoch(epoch)' = FramesOfEpoch(epoch)
        BY <2>1, SameFrames
    <2> QED
        BY <1>0, <2>1, <2>2 DEF Inv, TypeOK, EachOnce
<1> QED
    BY <1>0, <1>1, <1>3, <1>4, <1>5, <1>6, <1>7, <1>8, <1>9 DEF Next

\* Whoever keeps the contract gives each frame out once and in its place.
THEOREM EachOnceCorrect ==
    (Init \/ Opened) /\ [][Next]_vars => []EachOnce
<1>1. Inv => EachOnce
    BY DEF Inv
<1> QED
    BY <1>1, InvInit, InvStep, PTL

\* Whoever keeps the contract gives out nothing of an epoch that is over.
THEOREM OnlyNextGivenCorrect ==
    (Init \/ Opened) /\ [][Next]_vars => OnlyNextGiven
<1>1. [Next]_vars =>
        [ LET before == inFlight \cup returned
              after  == inFlight' \cup returned'
          IN  /\ before \subseteq after
              /\ returned \subseteq returned'
              /\ \A f \in after \ before : state = "active" /\ f = NextFrame ]_vars
    BY DEF Next, Open, Accept, Give, GiveAndReturn, GiveNext, Exchange, Return, Reset, Close
<1> QED
    BY <1>1, PTL DEF OnlyNextGiven
=============================================================================
