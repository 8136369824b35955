-------------------------- MODULE SessionContract --------------------------
(***************************************************************************)
(* What protocol.py's InteractiveBackend promises whoever holds one, in    *)
(* terms of what can be seen from outside: the state of the session, its   *)
(* epoch, how much audio of the epoch was accepted and which frames were   *)
(* returned.  Frames are numbered through within an epoch, none is made    *)
(* before the audio it shows has been accepted, none is returned twice,    *)
(* and nothing of an earlier epoch is made once a reset has opened the     *)
(* next one.                                                               *)
(*                                                                         *)
(* A call that waits for a frame may be given its frame in one step and    *)
(* return with it in a later one ("inFlight"), whatever happens meanwhile. *)
(***************************************************************************)
EXTENDS InteractiveProtocol

VARIABLES
    state, epoch,   \* as status() shows them
    clock,          \* milliseconds of audio accepted in this epoch
    next,           \* the number of the epoch's next frame
    inFlight,       \* frames given to calls that have not returned yet
    returned        \* the frames that calls have returned

vars == <<state, epoch, clock, next, inFlight, returned>>

FrameId == [epoch : Nat, sequence : Nat]

Init ==
    /\ state = "created"
    /\ epoch = 0
    /\ clock = 0
    /\ next = 0
    /\ inFlight = {}
    /\ returned = {}

\* A session that has just been started, for whom nothing was there before.
Opened ==
    /\ state = "active"
    /\ epoch = 0
    /\ clock = 0
    /\ next = 0
    /\ inFlight = {}
    /\ returned = {}

\* start
Open ==
    /\ state = "created"
    /\ state' = "active"
    /\ UNCHANGED <<epoch, clock, next, inFlight, returned>>

\* push_audio: one chunk, and what the backend pads an ended stream with.
Accept ==
    /\ state = "active"
    /\ clock' \in Nat
    /\ clock' >= clock + AudioChunkMs
    /\ UNCHANGED <<state, epoch, next, inFlight, returned>>

\* pull_video_chunk is given the next frame, whose audio must be there.
GiveNext ==
    /\ state = "active"
    /\ (next + 1) * VideoFrameMs <= clock
    /\ next' = next + 1
    /\ UNCHANGED <<state, epoch, clock>>

NextFrame == [epoch |-> epoch, sequence |-> next]

Give ==
    /\ GiveNext
    /\ inFlight' = inFlight \cup {NextFrame}
    /\ UNCHANGED returned

\* It returns with it, in the same step ...
GiveAndReturn ==
    /\ GiveNext
    /\ returned' = returned \cup {NextFrame}
    /\ UNCHANGED inFlight

\* ... or one that has waited longer returns with an earlier frame ...
Exchange(frame) ==
    /\ GiveNext
    /\ frame \in inFlight
    /\ inFlight' = (inFlight \ {frame}) \cup {NextFrame}
    /\ returned' = returned \cup {frame}

\* ... or it returns later.
Return(frame) ==
    /\ frame \in inFlight
    /\ inFlight' = inFlight \ {frame}
    /\ returned' = returned \cup {frame}
    /\ UNCHANGED <<state, epoch, clock, next>>

Reset ==
    /\ state = "active"
    /\ epoch' = epoch + 1
    /\ clock' = 0
    /\ next' = 0
    /\ UNCHANGED <<state, inFlight, returned>>

\* A closed session has no time line; calls that have their frame still return.
Close ==
    /\ state' = "closed"
    /\ clock' = 0
    /\ next' = 0
    /\ UNCHANGED <<epoch, inFlight, returned>>

Next ==
    \/ Open
    \/ Accept
    \/ Give
    \/ GiveAndReturn
    \/ \E frame \in inFlight : Exchange(frame)
    \/ \E frame \in inFlight : Return(frame)
    \/ Reset
    \/ Close

Spec == Init /\ [][Next]_vars

-----------------------------------------------------------------------------
\* What every implementation of the contract inherits.

\* Every variable keeps its type.
TypeOK ==
    /\ state \in {"created", "active", "closed"}
    /\ epoch \in Nat /\ clock \in Nat /\ next \in Nat
    /\ inFlight \subseteq FrameId
    /\ returned \subseteq FrameId

FramesOfEpoch(e) == {f \in inFlight \cup returned : f.epoch = e}

\* The ledger of the frames: each is in the hands of one call or was returned
\* once, none is of an epoch to come, and of the epoch of a session that is not
\* closed they are exactly the first ones, without a gap, and no more of them
\* than there is audio for (protocol.py:113-123).
EachOnce ==
    /\ inFlight \cap returned = {}
    /\ \A f \in inFlight \cup returned : f.epoch <= epoch
    /\ state # "closed" =>
        /\ FramesOfEpoch(epoch) = {[epoch |-> epoch, sequence |-> n] : n \in 0..(next - 1)}
        /\ next * VideoFrameMs <= clock

\* What a step gives out is the next frame of the open session's epoch; nothing
\* is taken back, so that an epoch that is over stays as it is and a closed
\* session gives nothing more (protocol.py:116-123).
OnlyNextGiven ==
    [][ LET before == inFlight \cup returned
            after  == inFlight' \cup returned'
        IN  /\ before \subseteq after
            /\ returned \subseteq returned'
            /\ \A f \in after \ before : state = "active" /\ f = NextFrame ]_vars
=============================================================================
