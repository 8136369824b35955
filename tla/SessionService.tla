--------------------------- MODULE SessionService ---------------------------
(***************************************************************************)
(* session.py's SessionManager behind http_api.py, and the clients that    *)
(* open, use and close sessions through client.py.  A backend is reduced   *)
(* to who opened it and whether it is still active: the shipped ones start *)
(* and close without a suspension, so a handler that starts or closes one  *)
(* is a single step of the event loop.  Only a pull waits: it binds the    *)
(* backend when it arrives and answers later.                              *)
(*                                                                         *)
(* A session is named by the client, or gets a generated name when the     *)
(* client gives none.  Each client makes one call at a time; a call that   *)
(* fails leaves the client as it was, and it may call again.               *)
(***************************************************************************)
EXTENDS InteractiveProtocol, FiniteSets, Functions

CONSTANTS
    Clients,        \* the applications, each with an SDK of its own
    Names,          \* the session ids they ask for; None asks for a generated one
    MaxSessions,    \* the manager's capacity
    MaxCalls,       \* bound: calls made
    Lossy,          \* connections may break
    Late            \* calls may time out with their request still under way

ASSUME NamesAssumption == Names \cap Nat = {}
ASSUME MaxSessionsAssumption == MaxSessions \in Nat \ {0}
ASSUME BoundsAssumption ==
    MaxCalls \in Nat /\ Lossy \in BOOLEAN /\ Late \in BOOLEAN

VARIABLES
    sessions,       \* SessionManager._sessions: id -> backend
    backends,       \* every backend started so far: its opener, whether active,
                    \* and (history) whether its id was chosen by the client
    waiting,        \* pulls that wait: request -> the backend they are bound to
    handle,         \* the RemoteSession of each client: its id, or None
    call,           \* the call of each client
    requests, replies,                  \* on the wire
    calls,          \* history: calls made, the identity of a request
    touched,        \* history: which client's calls reached which backend
    lost            \* history: a client has missed an answer

manager == <<sessions, backends>>
wire    == <<requests, replies>>
vars    == <<manager, waiting, handle, call, wire, calls, touched, lost>>

SessionIds == (Names \ {None}) \cup Nat
Operations == {"create", "use", "pull", "close"}
Request == [id : Nat, client : Clients, op : Operations, session : SessionIds \cup {None}]
Reply == [id : Nat, ok : BOOLEAN, session : SessionIds \cup {None}]
NoCall == [id |-> 0, op |-> "close", session |-> None]

-----------------------------------------------------------------------------
Init ==
    /\ sessions = [s \in {} |-> 0]
    /\ backends = <<>>
    /\ waiting = [request \in {} |-> 0]
    /\ handle = [c \in Clients |-> None]
    /\ call = [c \in Clients |-> NoCall]
    /\ requests = {}
    /\ replies = {}
    /\ calls = 0
    /\ touched = {}
    /\ lost = FALSE

Idle(c) == call[c] = NoCall

Send(c, op, s) ==
    /\ Idle(c)
    /\ calls < MaxCalls
    /\ call' = [call EXCEPT ![c] = [id |-> calls + 1, op |-> op, session |-> s]]
    /\ requests' = requests \cup
           {[id |-> calls + 1, client |-> c, op |-> op, session |-> s]}
    /\ calls' = calls + 1
    /\ UNCHANGED <<manager, waiting, handle, replies, touched, lost>>

\* A client without a session creates one, by name or without ...
AskFor(c, s) == handle[c] = None /\ Send(c, "create", s)

\* ... and one with a session uses or closes it.
CallOn(c, op) == handle[c] # None /\ Send(c, op, handle[c])

-----------------------------------------------------------------------------
\* The server, one handler at a time.

Answer(request, ok, s) ==
    replies' = IF call[request.client].id = request.id
               THEN replies \cup {[id |-> request.id, ok |-> ok, session |-> s]}
               ELSE replies

Served(request, ok, s) ==
    /\ requests' = requests \ {request}
    /\ Answer(request, ok, s)
    /\ UNCHANGED <<handle, call, calls, lost>>

AtCapacity == Cardinality(DOMAIN sessions) >= MaxSessions

\* uuid4: an id that no session has had or will have.
GeneratedId == Len(backends) + 1

ResolvedId(request) ==
    IF request.session = None THEN GeneratedId ELSE request.session

\* Mutant: a session of the same id is overwritten.
IsDuplicate_Never(s) == FALSE

IsDuplicate(s) == s \in DOMAIN sessions

\* Mutant: the answer repeats the id the client has asked for.
AnsweredId_AsAsked(request) == request.session

AnsweredId(request) == ResolvedId(request)

Registers(s, request, active) ==
    /\ backends' = Append(backends, [opener |-> request.client, active |-> active,
                                     named |-> request.session # None])
    /\ sessions' = [t \in DOMAIN sessions \cup {s} |->
                        IF t = s THEN Len(backends) + 1 ELSE sessions[t]]

\* start_session: the checks, the backend's start, the registration.
Opens(request) ==
    LET s == ResolvedId(request) IN
    /\ request.op = "create"
    /\ ~AtCapacity
    /\ ~IsDuplicate(s)
    /\ Registers(s, request, TRUE)
    /\ Served(request, TRUE, AnsweredId(request))
    /\ UNCHANGED <<waiting, touched>>

\* Mutant: the session is registered before its backend starts.
StartRaises_Registered(request) ==
    LET s == ResolvedId(request) IN
    /\ request.op = "create"
    /\ ~AtCapacity
    /\ ~IsDuplicate(s)
    /\ Registers(s, request, FALSE)
    /\ Served(request, FALSE, None)
    /\ UNCHANGED <<waiting, touched>>

\* The configuration is refused or the runtime cannot be made.
StartRaises(request) ==
    /\ request.op = "create"
    /\ ~AtCapacity
    /\ ~IsDuplicate(ResolvedId(request))
    /\ Served(request, FALSE, None)
    /\ UNCHANGED <<manager, waiting, touched>>

RefuseCreate(request) ==
    /\ request.op = "create"
    /\ AtCapacity \/ IsDuplicate(ResolvedId(request))
    /\ Served(request, FALSE, None)
    /\ UNCHANGED <<manager, waiting, touched>>

Reaches(request, b) == touched' = touched \cup {<<request.client, b>>}

\* push_audio, update_control, reset and status; the backend may raise.
ServeUse(request) ==
    /\ request.op = "use"
    /\ request.session \in DOMAIN sessions
    /\ Reaches(request, sessions[request.session])
    /\ \E ok \in BOOLEAN : Served(request, ok, None)
    /\ UNCHANGED <<manager, waiting>>

PullBinds(request) ==
    /\ request.op = "pull"
    /\ request.session \in DOMAIN sessions
    /\ waiting' = [r \in DOMAIN waiting \cup {request} |->
                      IF r = request THEN sessions[request.session] ELSE waiting[r]]
    /\ requests' = requests \ {request}
    /\ UNCHANGED <<manager, handle, call, replies, calls, touched, lost>>

\* Mutant: the session is looked up again when the pull resumes.
PulledFrom_LooksAgain(request) ==
    IF request.session \in DOMAIN sessions
    THEN sessions[request.session] ELSE waiting[request]

\* The backend whose method is suspended is the one that resumes.
PulledFrom(request) == waiting[request]

\* A frame, or frame_timeout, whether or not the session still exists.
PullEnds(request) ==
    /\ request \in DOMAIN waiting
    /\ waiting' = Restrict(waiting, DOMAIN waiting \ {request})
    /\ \E ok \in BOOLEAN :
        /\ Answer(request, ok, None)
        /\ IF ok THEN Reaches(request, PulledFrom(request)) ELSE UNCHANGED touched
    /\ UNCHANGED <<manager, handle, call, requests, calls, lost>>

\* dict.pop
Forgets(s) == sessions' = Restrict(sessions, DOMAIN sessions \ {s})

ServeClose(request) ==
    /\ request.op = "close"
    /\ request.session \in DOMAIN sessions
    /\ LET b == sessions[request.session] IN
        /\ Reaches(request, b)
        /\ backends' = [backends EXCEPT ![b].active = FALSE]
    /\ Forgets(request.session)
    /\ Served(request, TRUE, None)
    /\ UNCHANGED waiting

\* 404: the session is not, or no longer, registered.
RefuseUnknown(request) ==
    /\ request.op # "create"
    /\ request.session \notin DOMAIN sessions
    /\ Served(request, FALSE, None)
    /\ UNCHANGED <<manager, waiting, touched>>

-----------------------------------------------------------------------------
\* The client.

Finish(c) == call' = [call EXCEPT ![c] = NoCall]

\* create_session returns a RemoteSession; close marks it closed.
Receive(c) ==
    /\ \E reply \in replies :
        /\ reply.id = call[c].id
        /\ replies' = replies \ {reply}
        /\ handle' = CASE reply.ok /\ call[c].op = "create" -> [handle EXCEPT ![c] = reply.session]
                       [] reply.ok /\ call[c].op = "close"  -> [handle EXCEPT ![c] = None]
                       [] OTHER -> handle
    /\ Finish(c)
    /\ UNCHANGED <<manager, waiting, requests, calls, touched, lost>>

\* The client's timeout of 10 s ends a pull that the server lets wait longer.
GiveUpPull(c) ==
    /\ \E request \in DOMAIN waiting : request.id = call[c].id
    /\ Finish(c)
    /\ UNCHANGED <<manager, waiting, handle, wire, calls, touched, lost>>

RequestLost(c) ==
    /\ Lossy
    /\ \E request \in requests :
        /\ request.id = call[c].id
        /\ requests' = requests \ {request}
    /\ Finish(c)
    /\ UNCHANGED <<manager, waiting, handle, replies, calls, touched, lost>>

ReplyLost(c) ==
    /\ Lossy
    /\ \E reply \in replies :
        /\ reply.id = call[c].id
        /\ replies' = replies \ {reply}
    /\ lost' = TRUE
    /\ Finish(c)
    /\ UNCHANGED <<manager, waiting, handle, requests, calls, touched>>

TimeOut(c) ==
    /\ Late
    /\ \E request \in requests : request.id = call[c].id
    /\ lost' = TRUE
    /\ Finish(c)
    /\ UNCHANGED <<manager, waiting, handle, wire, calls, touched>>

Next ==
    \/ \E c \in Clients, s \in Names : AskFor(c, s)
    \/ \E c \in Clients, op \in {"use", "pull", "close"} : CallOn(c, op)
    \/ \E request \in requests :
        \/ Opens(request)
        \/ StartRaises(request)
        \/ RefuseCreate(request)
        \/ ServeUse(request)
        \/ PullBinds(request)
        \/ ServeClose(request)
        \/ RefuseUnknown(request)
    \/ \E request \in DOMAIN waiting : PullEnds(request)
    \/ \E c \in Clients : Receive(c)
    \/ \E c \in Clients : GiveUpPull(c)
    \/ \E c \in Clients : RequestLost(c)
    \/ \E c \in Clients : ReplyLost(c)
    \/ \E c \in Clients : TimeOut(c)

Spec == Init /\ [][Next]_vars

-----------------------------------------------------------------------------
\* Every variable keeps its type; the manager knows no backend that was never
\* started, and an SDK session always has an id.
TypeOK ==
    /\ DOMAIN sessions \subseteq SessionIds
    /\ \A s \in DOMAIN sessions : sessions[s] \in DOMAIN backends
    /\ backends \in Seq([opener : Clients, active : BOOLEAN, named : BOOLEAN])
    /\ DOMAIN waiting \subseteq Request
    /\ \A request \in DOMAIN waiting : waiting[request] \in DOMAIN backends
    /\ handle \in [Clients -> SessionIds \cup {None}]
    /\ \A c \in Clients :
        call[c].op \in {"use", "pull"} => handle[c] = call[c].session
    /\ requests \subseteq Request
    /\ replies \subseteq Reply
    /\ \A reply \in replies, c \in Clients :
        (reply.ok /\ reply.id = call[c].id /\ call[c].op = "create") => reply.session # None
    /\ calls \in 0..MaxCalls
    /\ touched \subseteq Clients \X DOMAIN backends
    /\ lost \in BOOLEAN

ActiveBackends == {b \in DOMAIN backends : backends[b].active}

\* A client's calls reach only the session this client opened, whatever has
\* been closed and opened again meanwhile: also a close that is repeated because
\* its answer was lost, and a pull that still waits on the server when its client
\* has gone on.  Once an answer was missed it holds for generated ids alone, as
\* an id that clients choose may by then name another's session
\* (session.py:31-37, 48, 54; http_api.py:100-106).
OwnSession ==
    \A reached \in touched :
        LET backend == backends[reached[2]]
        IN  backend.opener = reached[1] \/ (lost /\ backend.named)

\* The number of backends that run, each of them holding its model, never
\* exceeds the capacity, and every one that runs is registered, so that it
\* can be closed: no check, duplicate id or close lets one slip out of the
\* manager's count (session.py:29-36, 54-57).
ActiveBounded ==
    /\ Cardinality(ActiveBackends) <= MaxSessions
    /\ ActiveBackends = {sessions[s] : s \in DOMAIN sessions}

\* Who can still close session s: a client that holds it, or is about to.
Holds(c, s) ==
    \/ handle[c] = s
    \/ \E reply \in replies : reply.id = call[c].id /\ reply.ok /\ reply.session = s

\* No place is lost: as long as no answer was missed, every registered session is
\* held by a client, or the answer that names it is on its way to one.  A create
\* that fails leaves nothing behind (session.py:34-37; client.py:56-57).
NoOrphan == ~lost => \A s \in DOMAIN sessions : \E c \in Clients : Holds(c, s)
=============================================================================
