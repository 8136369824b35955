----------------------- MODULE SessionServiceProofs -----------------------
(***************************************************************************)
(* Proofs about SessionService, for every set of clients and names, every  *)
(* capacity, and with or without broken connections and late requests.     *)
(***************************************************************************)
EXTENDS SessionService, FiniteSetTheorems, TLAPS

-----------------------------------------------------------------------------
(***************************************************************************)
(* The inductive invariant.                                                *)
(***************************************************************************)

\* What the server has still to answer.
Pending == requests \cup DOMAIN waiting

\* A call is identified by its number.
Numbers ==
    /\ \A r \in Pending : r.id \in 1..calls
    /\ \A y \in replies : y.id \in 1..calls
    /\ \A c \in Clients : call[c].id \in 0..calls

\* No two of the things under way have a number in common.
Apart ==
    /\ requests \cap DOMAIN waiting = {}
    /\ \A p, q \in Pending : p.id = q.id => p = q
    /\ \A r \in Pending, y \in replies : r.id # y.id
    /\ \A x, y \in replies : x.id = y.id => x = y
    /\ \A c, d \in Clients : call[c].id = call[d].id /\ call[c].id # 0 => c = d

Called == [id : Nat, op : Operations, session : SessionIds \cup {None}]

\* What a client has called, and on which of its sessions.
CallsMatch ==
    /\ call \in [Clients -> Called]
    /\ \A c \in Clients :
        IF call[c].id = 0 THEN call[c] = NoCall
        ELSE handle[c] = (IF call[c].op = "create" THEN None ELSE call[c].session)

\* What is under way belongs to the call of its number.
RequestsMatch ==
    /\ \A r \in DOMAIN waiting : r.op = "pull"
    /\ \A r \in requests :
        IF r.op = "create" THEN r.session \in Names ELSE r.session # None
    /\ \A r \in Pending, c \in Clients : r.id = call[c].id =>
        r.client = c /\ r.op = call[c].op /\ r.session = call[c].session
    /\ ~lost => \A r \in requests : call[r.client].id = r.id

RepliesMatch ==
    \A y \in replies, c \in Clients : y.id = call[c].id /\ y.ok =>
        IF call[c].op = "create" THEN y.session \in SessionIds ELSE y.session = None

Wire == Numbers /\ Apart /\ CallsMatch /\ RequestsMatch /\ RepliesMatch

\* The registered backends are those that run, each under one id.
Registered ==
    /\ IsFiniteSet(DOMAIN sessions) /\ Cardinality(DOMAIN sessions) <= MaxSessions
    /\ \A s, t \in DOMAIN sessions : sessions[s] = sessions[t] => s = t
    /\ ActiveBackends = {sessions[s] : s \in DOMAIN sessions}

Opened(c, b) == b \in DOMAIN backends /\ backends[b].opener = c

\* A generated id is known only to the client that got it, and names its backend
\* for ever; an id that a client has chosen names backends that remember it.
Generated ==
    /\ \A s \in DOMAIN sessions :
        IF s \in Nat THEN sessions[s] = s ELSE backends[sessions[s]].named
    /\ \A r \in requests : r.session \in Nat => Opened(r.client, r.session)
    /\ \A c \in Clients : handle[c] \in Nat => Opened(c, handle[c])
    /\ \A y \in replies, c \in Clients :
        y.id = call[c].id /\ y.session \in Nat => Opened(c, y.session)

\* Client c holds session s, and has not closed it; or is about to hold it.
Owns(c, s) ==
    \/ /\ handle[c] = s
       /\ ~\E y \in replies : y.id = call[c].id /\ y.ok /\ call[c].op = "close"
    \/ \E y \in replies :
        y.id = call[c].id /\ y.ok /\ call[c].op = "create" /\ y.session = s

RunsFor(c, s) == s \in DOMAIN sessions /\ backends[sessions[s]].opener = c

\* Unless an answer was missed, a session is registered exactly as long as the
\* client that has opened it owns it.
Ownership ==
    ~lost => \A c \in Clients, s \in SessionIds : RunsFor(c, s) <=> Owns(c, s)

\* Backend b is one that client c may reach.
Mine(c, b) == backends[b].opener = c \/ (lost /\ backends[b].named)

WaitsOnOwn == \A r \in DOMAIN waiting : Mine(r.client, waiting[r])

IInv ==
    /\ TypeOK /\ Wire /\ Registered /\ Generated /\ Ownership /\ WaitsOnOwn
    /\ OwnSession

-----------------------------------------------------------------------------
(***************************************************************************)
(* What a step does to the wire and to the manager: nothing, or one of     *)
(* five things.                                                            *)
(***************************************************************************)

Sends(c, r) ==
    /\ call[c] = NoCall
    /\ r.id = calls + 1 /\ calls' = calls + 1 /\ calls' \in 0..MaxCalls
    /\ r.client = c
    /\ call' = [call EXCEPT ![c] = [id |-> calls + 1, op |-> r.op, session |-> r.session]]
    /\ IF r.op = "create" THEN handle[c] = None /\ r.session \in Names
       ELSE handle[c] # None /\ r.session = handle[c]
    /\ requests' = requests \cup {r}
    /\ UNCHANGED <<manager, waiting, handle, replies, lost>>

\* A session opens, one closes, or neither.
Decides(r, y) ==
    \/ Opens(r) /\ y.ok /\ y.session = ResolvedId(r)
    \/ ServeClose(r) /\ y.ok /\ y.session = None
    \/ /\ y.ok => r.op \in {"use", "pull"}
       /\ y.session = None
       /\ UNCHANGED manager

Responds(r, y) ==
    /\ r \in Pending /\ Pending' = Pending \ {r}
    /\ requests' \subseteq requests /\ DOMAIN waiting' \subseteq DOMAIN waiting
    /\ y.id = r.id
    /\ Decides(r, y)
    /\ replies' = IF call[r.client].id = r.id THEN replies \cup {y} ELSE replies
    /\ UNCHANGED <<handle, call, calls, lost>>

Binds(r) ==
    /\ r \in requests /\ r.op = "pull"
    /\ requests' = requests \ {r} /\ DOMAIN waiting' = DOMAIN waiting \cup {r}
    /\ UNCHANGED <<manager, handle, call, replies, calls, lost>>

Takes(c, y) ==
    /\ y \in replies /\ y.id = call[c].id /\ replies' = replies \ {y}
    /\ handle' = IF y.ok /\ call[c].op = "create" THEN [handle EXCEPT ![c] = y.session]
                 ELSE IF y.ok /\ call[c].op = "close" THEN [handle EXCEPT ![c] = None]
                 ELSE handle
    /\ call' = [call EXCEPT ![c] = NoCall]
    /\ UNCHANGED <<manager, waiting, requests, calls, lost>>

Withdraws(c) ==
    /\ call' = [call EXCEPT ![c] = NoCall]
    /\ requests' \subseteq requests /\ replies' \subseteq replies
    /\ \/ lost' = TRUE
       \/ /\ lost' = lost /\ replies' = replies
          /\ \E r \in Pending : r.id = call[c].id
          /\ \A r \in requests' : r.id # call[c].id
    /\ UNCHANGED <<manager, waiting, handle, calls>>

Backend == [opener : Clients, active : BOOLEAN, named : BOOLEAN]

LEMMA TypeFacts ==
    ASSUME TypeOK
    PROVE  /\ requests \subseteq Request /\ DOMAIN waiting \subseteq Request
           /\ Pending \subseteq Request /\ replies \subseteq Reply
           /\ DOMAIN sessions \subseteq SessionIds
           /\ \A s \in DOMAIN sessions : sessions[s] \in DOMAIN backends
           /\ backends \in Seq(Backend)
           /\ Len(backends) \in Nat /\ DOMAIN backends = 1..Len(backends)
           /\ \A b \in DOMAIN backends :
                backends[b] \in Backend
           /\ \A r \in DOMAIN waiting : waiting[r] \in DOMAIN backends
           /\ handle \in [Clients -> SessionIds \cup {None}]
           /\ calls \in Nat /\ calls \in 0..MaxCalls /\ lost \in BOOLEAN
           /\ touched \subseteq Clients \X DOMAIN backends
<1>1. backends \in Seq(Backend)
    BY DEF TypeOK, Backend
<1>2. /\ Len(backends) \in Nat /\ DOMAIN backends = 1..Len(backends)
      /\ \A b \in DOMAIN backends :
           backends[b] \in Backend
    BY <1>1
<1>3. calls \in Nat /\ calls \in 0..MaxCalls
    BY BoundsAssumption DEF TypeOK
<1>4. /\ requests \subseteq Request /\ DOMAIN waiting \subseteq Request
      /\ replies \subseteq Reply /\ DOMAIN sessions \subseteq SessionIds
      /\ \A s \in DOMAIN sessions : sessions[s] \in DOMAIN backends
      /\ \A r \in DOMAIN waiting : waiting[r] \in DOMAIN backends
      /\ handle \in [Clients -> SessionIds \cup {None}]
      /\ lost \in BOOLEAN /\ touched \subseteq Clients \X DOMAIN backends
    BY Zenon DEF TypeOK
<1>5. Pending \subseteq Request
    BY <1>4 DEF Pending
<1> QED
    BY <1>1, <1>2, <1>3, <1>4, <1>5

\* The ids a request can open: one the client has chosen or a fresh number.
LEMMA ResolvedFacts ==
    ASSUME TypeOK, RequestsMatch, NEW r \in requests, r.op = "create"
    PROVE  /\ ResolvedId(r) \in SessionIds
           /\ ResolvedId(r) \in Nat => ResolvedId(r) = Len(backends) + 1
           /\ ResolvedId(r) \notin Nat => r.session # None
<1>1. r.session \in Names /\ Len(backends) \in Nat
    BY TypeFacts DEF RequestsMatch
<1> QED
    BY <1>1, NamesAssumption DEF ResolvedId, GeneratedId, SessionIds

LEMMA WireEffect ==
    ASSUME TypeOK, Apart, RequestsMatch, [Next]_vars
    PROVE  \/ UNCHANGED <<manager, waiting, handle, call, wire, calls, lost>>
           \/ \E c \in Clients, r \in Request : Sends(c, r)
           \/ \E r \in Pending, y \in Reply : Responds(r, y)
           \/ \E r \in requests : Binds(r)
           \/ \E c \in Clients, y \in replies : Takes(c, y)
           \/ \E c \in Clients : Withdraws(c)
<1>0. /\ requests \subseteq Request /\ replies \subseteq Reply /\ calls \in Nat
      /\ handle \in [Clients -> SessionIds \cup {None}] /\ lost \in BOOLEAN
    BY TypeFacts
<1> DEFINE Sending == \E c \in Clients, r \in Request : Sends(c, r)
           Responding == \E r \in Pending, y \in Reply : Responds(r, y)
           Withdrawing == \E c \in Clients : Withdraws(c)
<1>1. ASSUME NEW c \in Clients, NEW op \in Operations, NEW s \in SessionIds \cup {None},
             Send(c, op, s), IF op = "create" THEN handle[c] = None /\ s \in Names
                             ELSE handle[c] # None /\ s = handle[c]
      PROVE  Sending
    <2> DEFINE r == [id |-> calls + 1, client |-> c, op |-> op, session |-> s]
    <2>1. r \in Request
        BY <1>0 DEF Request
    <2>2. calls + 1 \in 0..MaxCalls
        BY <1>0, <1>1, BoundsAssumption DEF Send
    <2>3. Sends(c, r)
        BY <1>1, <2>2 DEF Send, Sends, Idle
    <2> QED
        BY <2>1, <2>3
<1>2. ASSUME NEW c \in Clients, NEW s \in Names, AskFor(c, s)
      PROVE  Sending
    <2>1. s \in SessionIds \cup {None}
        BY DEF SessionIds
    <2> QED
        BY <1>1, <1>2, <2>1 DEF AskFor, Operations
<1>3. ASSUME NEW c \in Clients, NEW op \in {"use", "pull", "close"}, CallOn(c, op)
      PROVE  Sending
    <2>1. op \in Operations /\ op # "create" /\ handle[c] \in SessionIds \cup {None}
        BY <1>0 DEF Operations
    <2> QED
        BY <1>1, <1>3, <2>1 DEF CallOn
<1>4. ASSUME NEW r \in requests, NEW ok \in BOOLEAN, NEW s \in SessionIds \cup {None},
             Served(r, ok, s), UNCHANGED waiting,
             Decides(r, [id |-> r.id, ok |-> ok, session |-> s]),
             r \notin DOMAIN waiting
      PROVE  Responding
    <2> DEFINE y == [id |-> r.id, ok |-> ok, session |-> s]
    <2>1. y \in Reply
        BY <1>0 DEF Reply, Request
    <2>2. Responds(r, y)
        BY <1>4 DEF Responds, Pending, Served, Answer
    <2> QED
        BY <2>1, <2>2 DEF Pending
<1>5. \A r \in requests : r \notin DOMAIN waiting
    BY DEF Apart
<1>6. ASSUME NEW r \in requests, Opens(r)
      PROVE  Responding
    <2>1. /\ Served(r, TRUE, ResolvedId(r)) /\ r.op = "create" /\ UNCHANGED waiting
        BY <1>6 DEF Opens, AnsweredId
    <2>2. ResolvedId(r) \in SessionIds
        BY <2>1, ResolvedFacts
    <2>3. Decides(r, [id |-> r.id, ok |-> TRUE, session |-> ResolvedId(r)])
        BY <1>6 DEF Decides
    <2> QED
        BY <1>4, <1>5, <2>1, <2>2, <2>3
<1>7. ASSUME NEW r \in requests, StartRaises(r) \/ RefuseCreate(r) \/ RefuseUnknown(r)
      PROVE  Responding
    <2>1. Served(r, FALSE, None) /\ UNCHANGED <<waiting, manager>>
        BY <1>7 DEF StartRaises, RefuseCreate, RefuseUnknown
    <2>2. Decides(r, [id |-> r.id, ok |-> FALSE, session |-> None])
        BY <2>1 DEF Decides
    <2> QED
        BY <1>4, <1>5, <2>1, <2>2
<1>8. ASSUME NEW r \in requests, ServeUse(r)
      PROVE  Responding
    <2>1. PICK ok \in BOOLEAN : Served(r, ok, None)
        BY <1>8 DEF ServeUse
    <2>2. r.op = "use" /\ UNCHANGED <<waiting, manager>>
        BY <1>8 DEF ServeUse
    <2>3. Decides(r, [id |-> r.id, ok |-> ok, session |-> None])
        BY <2>2 DEF Decides
    <2> QED
        BY <1>4, <1>5, <2>1, <2>2, <2>3
<1>9. ASSUME NEW r \in requests, ServeClose(r)
      PROVE  Responding
    <2>1. Served(r, TRUE, None) /\ UNCHANGED waiting
        BY <1>9 DEF ServeClose
    <2>2. Decides(r, [id |-> r.id, ok |-> TRUE, session |-> None])
        BY <1>9 DEF Decides
    <2> QED
        BY <1>4, <1>5, <2>1, <2>2
<1>10. ASSUME NEW r \in DOMAIN waiting, PullEnds(r)
      PROVE  Responding
    <2>1. PICK ok \in BOOLEAN : Answer(r, ok, None)
        BY <1>10 DEF PullEnds
    <2> DEFINE y == [id |-> r.id, ok |-> ok, session |-> None]
    <2>2. y \in Reply
        BY <1>0, TypeFacts DEF Reply, Request
    <2>3. r.op = "pull" /\ r \in Pending /\ r \notin requests
        BY DEF RequestsMatch, Apart, Pending
    <2>4. DOMAIN waiting' = DOMAIN waiting \ {r} /\ requests' = requests
        BY <1>10 DEF PullEnds, Restrict
    <2>5. Pending' = Pending \ {r}
        BY <2>3, <2>4 DEF Pending
    <2>6. Decides(r, y)
        BY <1>10, <2>3 DEF PullEnds, Decides
    <2>7. Responds(r, y)
        BY <1>10, <2>1, <2>3, <2>4, <2>5, <2>6 DEF PullEnds, Responds, Answer
    <2> QED
        BY <2>2, <2>3, <2>7
<1>11. ASSUME NEW r \in requests, PullBinds(r)
      PROVE  Binds(r)
    BY <1>11 DEF PullBinds, Binds
<1>12. ASSUME NEW c \in Clients, Receive(c)
      PROVE  \E y \in replies : Takes(c, y)
    BY <1>12 DEF Receive, Takes, Finish
<1>13. ASSUME NEW c \in Clients, GiveUpPull(c)
      PROVE  Withdrawing
    <2>1. PICK r \in DOMAIN waiting : r.id = call[c].id
        BY <1>13 DEF GiveUpPull
    <2>2. r \in Pending /\ \A q \in requests : q.id # call[c].id
        BY <1>5, <2>1 DEF Apart, Pending
    <2>3. Withdraws(c)
        BY <1>13, <2>1, <2>2 DEF GiveUpPull, Withdraws, Finish, wire
    <2> QED
        BY <2>3
<1>14. ASSUME NEW c \in Clients, RequestLost(c)
      PROVE  Withdrawing
    <2>1. PICK r \in requests : r.id = call[c].id /\ requests' = requests \ {r}
        BY <1>14 DEF RequestLost
    <2>2. r \in Pending /\ \A q \in requests' : q.id # call[c].id
        BY <2>1 DEF Apart, Pending
    <2>3. Withdraws(c)
        BY <1>14, <2>1, <2>2 DEF RequestLost, Withdraws, Finish
    <2> QED
        BY <2>3
<1>15. ASSUME NEW c \in Clients, ReplyLost(c) \/ TimeOut(c)
      PROVE  Withdrawing
    <2>1. Withdraws(c)
        BY <1>15 DEF ReplyLost, TimeOut, Withdraws, Finish, wire
    <2> QED
        BY <2>1
<1>16. CASE UNCHANGED vars
    BY <1>16 DEF vars
<1> QED
    BY <1>2, <1>3, <1>6, <1>7, <1>8, <1>9, <1>10, <1>11, <1>12, <1>13, <1>14,
        <1>15, <1>16 DEF Next

-----------------------------------------------------------------------------
(***************************************************************************)
(* The wire stays in order, one conjunct at a time.                        *)
(***************************************************************************)

LEMMA OnlyOneCallChanges ==
    ASSUME CallsMatch, NEW c \in Clients, NEW x, call' = [call EXCEPT ![c] = x]
    PROVE  /\ call'[c] = x
           /\ \A d \in Clients : d # c => call'[d] = call[d]
    BY DEF CallsMatch

LEMMA CallBegins ==
    ASSUME CallsMatch, NEW c \in Clients, NEW q \in Request, Sends(c, q)
    PROVE  /\ call'[c] = [id |-> calls + 1, op |-> q.op, session |-> q.session]
           /\ call'[c].id = calls + 1
           /\ \A d \in Clients : d # c => call'[d] = call[d]
<1> PICK x : x = [id |-> calls + 1, op |-> q.op, session |-> q.session]
    OBVIOUS
<1>1. call' = [call EXCEPT ![c] = x] /\ x.id = calls + 1
    BY DEF Sends
<1> QED
    BY <1>1, OnlyOneCallChanges

LEMMA CallEnds ==
    ASSUME CallsMatch, NEW c \in Clients, call' = [call EXCEPT ![c] = NoCall]
    PROVE  /\ call'[c] = NoCall /\ call'[c].id = 0
           /\ \A d \in Clients : d # c => call'[d] = call[d]
<1>1. call'[c] = NoCall /\ \A d \in Clients : d # c => call'[d] = call[d]
    BY OnlyOneCallChanges
<1> QED
    BY <1>1 DEF NoCall

LEMMA NumbersStep == TypeOK /\ Wire /\ [Next]_vars => Numbers'
<1> SUFFICES ASSUME TypeOK, Wire, [Next]_vars
             PROVE  Numbers'
    OBVIOUS
<1>0. /\ Numbers /\ Apart /\ CallsMatch /\ RequestsMatch /\ RepliesMatch /\ calls \in Nat
    BY TypeFacts DEF Wire
<1>1. CASE UNCHANGED <<manager, waiting, handle, call, wire, calls, lost>>
    BY <1>0, <1>1 DEF Numbers, Pending, wire
<1>2. ASSUME NEW c \in Clients, NEW q \in Request, Sends(c, q)
      PROVE  Numbers'
    <2>1. /\ calls' = calls + 1 /\ q.id = calls + 1
          /\ Pending' = Pending \cup {q} /\ replies' = replies
        BY <1>2 DEF Sends, Pending
    <2>2. call'[c].id = calls + 1 /\ \A d \in Clients : d # c => call'[d] = call[d]
        BY <1>0, <1>2, CallBegins
    <2>3. \A n \in 0..calls : n \in 0..(calls + 1)
        BY <1>0
    <2>4. \A n \in 1..calls : n \in 1..(calls + 1)
        BY <1>0
    <2>5. calls + 1 \in 1..(calls + 1) /\ calls + 1 \in 0..(calls + 1)
        BY <1>0
    <2> QED
        BY <1>0, <2>1, <2>2, <2>3, <2>4, <2>5 DEF Numbers
<1>3. ASSUME NEW q \in Pending, NEW y \in Reply, Responds(q, y)
      PROVE  Numbers'
    BY <1>0, <1>3 DEF Numbers, Responds
<1>4. ASSUME NEW q \in requests, Binds(q)
      PROVE  Numbers'
    BY <1>0, <1>4 DEF Numbers, Binds, Pending
<1>5. ASSUME NEW c \in Clients, NEW y \in replies, Takes(c, y)
      PROVE  Numbers'
    <2>1. call'[c].id = 0 /\ \A d \in Clients : d # c => call'[d] = call[d]
        BY <1>0, <1>5, CallEnds DEF Takes
    <2> QED
        BY <1>0, <1>5, <2>1 DEF Numbers, Takes, Pending
<1>6. ASSUME NEW c \in Clients, Withdraws(c)
      PROVE  Numbers'
    <2>1. call'[c].id = 0 /\ \A d \in Clients : d # c => call'[d] = call[d]
        BY <1>0, <1>6, CallEnds DEF Withdraws
    <2> QED
        BY <1>0, <1>6, <2>1 DEF Numbers, Withdraws, Pending
<1> QED
    BY <1>0, <1>1, <1>2, <1>3, <1>4, <1>5, <1>6, WireEffect

LEMMA ApartStep == TypeOK /\ Wire /\ [Next]_vars => Apart'
<1> SUFFICES ASSUME TypeOK, Wire, [Next]_vars
             PROVE  Apart'
    OBVIOUS
<1>0. /\ Numbers /\ Apart /\ CallsMatch /\ RequestsMatch /\ RepliesMatch /\ calls \in Nat
    BY TypeFacts DEF Wire
<1>1. CASE UNCHANGED <<manager, waiting, handle, call, wire, calls, lost>>
    BY <1>0, <1>1 DEF Apart, Pending, wire
<1>2. ASSUME NEW c \in Clients, NEW q \in Request, Sends(c, q)
      PROVE  Apart'
    <2>1. /\ q.id = calls + 1 /\ requests' = requests \cup {q} /\ waiting' = waiting
          /\ Pending' = Pending \cup {q} /\ replies' = replies
        BY <1>2 DEF Sends, Pending
    <2>2. call'[c].id = calls + 1 /\ \A d \in Clients : d # c => call'[d] = call[d]
        BY <1>0, <1>2, CallBegins
    <2>3. calls + 1 \notin 1..calls /\ calls + 1 \notin 0..calls
        BY <1>0
    <2>4. /\ \A p \in Pending : p.id # calls + 1
          /\ \A y \in replies : y.id # calls + 1
          /\ \A d \in Clients : call[d].id # calls + 1
        BY <1>0, <2>3 DEF Numbers
    <2>5. q \notin Pending /\ q \notin DOMAIN waiting
        BY <2>1, <2>4 DEF Pending
    <2> QED
        BY <1>0, <2>1, <2>2, <2>4, <2>5 DEF Apart
<1>3. ASSUME NEW q \in Pending, NEW y \in Reply, Responds(q, y)
      PROVE  Apart'
    <2>1. /\ Pending' = Pending \ {q} /\ call' = call /\ y.id = q.id
          /\ requests' \subseteq requests /\ DOMAIN waiting' \subseteq DOMAIN waiting
          /\ replies' \subseteq replies \cup {y}
        BY <1>3 DEF Responds
    <2>2. /\ \A p \in Pending' : p.id # y.id
          /\ \A x \in replies : x.id # y.id
        BY <1>0, <2>1 DEF Apart
    <2> QED
        BY <1>0, <2>1, <2>2 DEF Apart
<1>4. ASSUME NEW q \in requests, Binds(q)
      PROVE  Apart'
    <2>1. Pending' = Pending /\ requests' \cap DOMAIN waiting' = {}
        BY <1>0, <1>4 DEF Apart, Binds, Pending
    <2> QED
        BY <1>0, <1>4, <2>1 DEF Apart, Binds
<1>5. ASSUME NEW c \in Clients, NEW y \in replies, Takes(c, y)
      PROVE  Apart'
    <2>1. call'[c].id = 0 /\ \A d \in Clients : d # c => call'[d] = call[d]
        BY <1>0, <1>5, CallEnds DEF Takes
    <2> QED
        BY <1>0, <1>5, <2>1 DEF Apart, Takes, Pending
<1>6. ASSUME NEW c \in Clients, Withdraws(c)
      PROVE  Apart'
    <2>1. call'[c].id = 0 /\ \A d \in Clients : d # c => call'[d] = call[d]
        BY <1>0, <1>6, CallEnds DEF Withdraws
    <2> QED
        BY <1>0, <1>6, <2>1 DEF Apart, Withdraws, Pending
<1> QED
    BY <1>0, <1>1, <1>2, <1>3, <1>4, <1>5, <1>6, WireEffect

LEMMA CallsMatchStep == TypeOK /\ Wire /\ [Next]_vars => CallsMatch'
<1> SUFFICES ASSUME TypeOK, Wire, [Next]_vars
             PROVE  CallsMatch'
    OBVIOUS
<1>0. /\ Numbers /\ Apart /\ CallsMatch /\ RequestsMatch /\ RepliesMatch /\ calls \in Nat
      /\ handle \in [Clients -> SessionIds \cup {None}]
    BY TypeFacts DEF Wire
<1>1. NoCall \in Called /\ NoCall.id = 0
    BY DEF NoCall, Called, Operations
<1>2. CASE UNCHANGED <<handle, call>>
    BY <1>0, <1>2 DEF CallsMatch
<1>3. ASSUME NEW c \in Clients, NEW q \in Request, Sends(c, q)
      PROVE  CallsMatch'
    <2> DEFINE x == [id |-> calls + 1, op |-> q.op, session |-> q.session]
    <2>1. x \in Called /\ x.id # 0 /\ x.op = q.op /\ x.session = q.session
        BY <1>0 DEF Called, Request
    <2>2. /\ call' = [call EXCEPT ![c] = x] /\ handle' = handle
          /\ handle[c] = (IF q.op = "create" THEN None ELSE q.session)
        BY <1>3 DEF Sends
    <2>3. call'[c] = x /\ \A d \in Clients : d # c => call'[d] = call[d]
        BY <1>0, <2>2, OnlyOneCallChanges
    <2>4. call' \in [Clients -> Called]
        BY <1>0, <2>1, <2>2 DEF CallsMatch
    <2> HIDE DEF x
    <2> QED
        BY <1>0, <2>1, <2>2, <2>3, <2>4 DEF CallsMatch
<1>4. ASSUME NEW c \in Clients, NEW y \in replies, Takes(c, y)
      PROVE  CallsMatch'
    <2>1. call'[c] = NoCall /\ \A d \in Clients : d # c => call'[d] = call[d]
        BY <1>0, <1>4, CallEnds DEF Takes
    <2>2. call' \in [Clients -> Called]
        BY <1>0, <1>1, <1>4 DEF CallsMatch, Takes
    <2>3. \A d \in Clients : d # c => handle'[d] = handle[d]
        BY <1>0, <1>4 DEF Takes
    <2> QED
        BY <1>0, <1>1, <2>1, <2>2, <2>3 DEF CallsMatch
<1>5. ASSUME NEW c \in Clients, Withdraws(c)
      PROVE  CallsMatch'
    <2>1. call'[c] = NoCall /\ \A d \in Clients : d # c => call'[d] = call[d]
        BY <1>0, <1>5, CallEnds DEF Withdraws
    <2>2. call' \in [Clients -> Called] /\ handle' = handle
        BY <1>0, <1>1, <1>5 DEF CallsMatch, Withdraws
    <2> QED
        BY <1>0, <1>1, <2>1, <2>2 DEF CallsMatch
<1> QED
    BY <1>0, <1>2, <1>3, <1>4, <1>5, WireEffect DEF Responds, Binds

LEMMA RequestsMatchStep == TypeOK /\ Wire /\ [Next]_vars => RequestsMatch'
<1> SUFFICES ASSUME TypeOK, Wire, [Next]_vars
             PROVE  RequestsMatch'
    OBVIOUS
<1>0. /\ Numbers /\ Apart /\ CallsMatch /\ RequestsMatch /\ RepliesMatch /\ calls \in Nat
      /\ Pending \subseteq Request
    BY TypeFacts DEF Wire
<1>1. CASE UNCHANGED <<manager, waiting, handle, call, wire, calls, lost>>
    BY <1>0, <1>1 DEF RequestsMatch, Pending, wire
<1>2. ASSUME NEW c \in Clients, NEW q \in Request, Sends(c, q)
      PROVE  RequestsMatch'
    <2> DEFINE x == [id |-> calls + 1, op |-> q.op, session |-> q.session]
    <2>1. x.id = calls + 1 /\ x.op = q.op /\ x.session = q.session
        OBVIOUS
    <2>2. /\ q.id = calls + 1 /\ q.client = c
          /\ requests' = requests \cup {q} /\ waiting' = waiting /\ lost' = lost
          /\ Pending' = Pending \cup {q} /\ call' = [call EXCEPT ![c] = x]
          /\ call[c].id = 0
          /\ IF q.op = "create" THEN q.session \in Names ELSE q.session # None
        BY <1>2 DEF Sends, Pending, NoCall
    <2>3. call'[c] = x /\ \A d \in Clients : d # c => call'[d] = call[d]
        BY <1>0, <2>2, OnlyOneCallChanges
    <2> HIDE DEF x
    <2>4. calls + 1 \notin 1..calls /\ calls + 1 \notin 0..calls /\ 0 \notin 1..calls
        BY <1>0
    <2>5. /\ \A p \in Pending : p.id # calls + 1 /\ p.id # 0
          /\ \A d \in Clients : call[d].id # calls + 1
        BY <1>0, <2>4 DEF Numbers
    <2>6. \A p \in Pending, d \in Clients : p.id = call'[d].id => p.id = call[d].id /\ d # c
        BY <2>1, <2>3, <2>5
    <2>7. \A p \in Pending', d \in Clients : p.id = call'[d].id =>
              p.client = d /\ p.op = call'[d].op /\ p.session = call'[d].session
        BY <1>0, <2>1, <2>2, <2>3, <2>5, <2>6 DEF RequestsMatch
    <2>8. ~lost' => \A p \in requests' : call'[p.client].id = p.id
        <3> SUFFICES ASSUME ~lost, NEW p \in requests, p \in Request
                     PROVE  call'[p.client].id = p.id
            BY <1>0, <2>1, <2>2, <2>3 DEF Pending
        <3>1. call[p.client].id = p.id /\ p.client \in Clients /\ p \in Pending
            BY <1>0 DEF RequestsMatch, Request, Pending
        <3> QED
            BY <2>2, <2>3, <2>5, <3>1
    <2> QED
        BY <1>0, <2>2, <2>7, <2>8 DEF RequestsMatch
<1>3. ASSUME NEW q \in Pending, NEW y \in Reply, Responds(q, y)
      PROVE  RequestsMatch'
    BY <1>0, <1>3 DEF RequestsMatch, Responds
<1>4. ASSUME NEW q \in requests, Binds(q)
      PROVE  RequestsMatch'
    <2>1. Pending' = Pending
        BY <1>4 DEF Binds, Pending
    <2> QED
        BY <1>0, <1>4, <2>1 DEF RequestsMatch, Binds
<1>5. ASSUME NEW c \in Clients, call' = [call EXCEPT ![c] = NoCall],
             requests' \subseteq requests, waiting' = waiting,
             lost' \/ (lost' = lost /\ \A p \in requests' : p.id # call[c].id)
      PROVE  RequestsMatch'
    <2>1. call'[c].id = 0 /\ \A d \in Clients : d # c => call'[d] = call[d]
        BY <1>0, <1>5, CallEnds
    <2>2. Pending' \subseteq Pending /\ \A p \in Pending : p.id # 0
        BY <1>0, <1>5 DEF Pending, Numbers
    <2>3. ~lost' => \A p \in requests' : call'[p.client].id = p.id
        <3> SUFFICES ASSUME ~lost', NEW p \in requests'
                     PROVE  call'[p.client].id = p.id
            OBVIOUS
        <3>1. p.id # call[c].id /\ call[p.client].id = p.id /\ p.client \in Clients
            BY <1>0, <1>5 DEF RequestsMatch, Pending, Request
        <3> QED
            BY <2>1, <3>1
    <2> QED
        BY <1>0, <1>5, <2>1, <2>2, <2>3 DEF RequestsMatch
<1>6. ASSUME NEW c \in Clients, NEW y \in replies, Takes(c, y)
      PROVE  RequestsMatch'
    <2>1. \A p \in requests : p.id # call[c].id
        BY <1>0, <1>6 DEF Takes, Apart, Pending
    <2> QED
        BY <1>5, <1>6, <2>1 DEF Takes
<1>7. ASSUME NEW c \in Clients, Withdraws(c)
      PROVE  RequestsMatch'
    BY <1>5, <1>7 DEF Withdraws
<1> QED
    BY <1>0, <1>1, <1>2, <1>3, <1>4, <1>6, <1>7, WireEffect

LEMMA RepliesMatchStep == TypeOK /\ Wire /\ [Next]_vars => RepliesMatch'
<1> SUFFICES ASSUME TypeOK, Wire, [Next]_vars
             PROVE  RepliesMatch'
    OBVIOUS
<1>0. /\ Numbers /\ Apart /\ CallsMatch /\ RequestsMatch /\ RepliesMatch /\ calls \in Nat
    BY TypeFacts DEF Wire
<1>1. CASE UNCHANGED <<call, replies>>
    BY <1>0, <1>1 DEF RepliesMatch
<1>2. ASSUME NEW c \in Clients, NEW q \in Request, Sends(c, q)
      PROVE  RepliesMatch'
    <2>1. call'[c].id = calls + 1 /\ \A d \in Clients : d # c => call'[d] = call[d]
        BY <1>0, <1>2, CallBegins
    <2>2. \A y \in replies : y.id # calls + 1
        BY <1>0 DEF Numbers
    <2>3. replies' = replies
        BY <1>2 DEF Sends
    <2> QED
        BY <1>0, <2>1, <2>2, <2>3 DEF RepliesMatch
<1>3. ASSUME NEW q \in Pending, NEW y \in Reply, Responds(q, y)
      PROVE  RepliesMatch'
    <2>0. y.ok => IF q.op = "create" THEN y.session \in SessionIds ELSE y.session = None
        <3>1. CASE Opens(q) /\ y.session = ResolvedId(q)
            <4>1. q.op = "create" /\ q \in requests
                BY <1>0, <3>1 DEF Opens, RequestsMatch, Pending
            <4> QED
                BY <1>0, <3>1, <4>1, ResolvedFacts
        <3>2. CASE ServeClose(q) /\ y.session = None
            BY <3>2 DEF ServeClose
        <3> QED
            BY <1>3, <3>1, <3>2 DEF Responds, Decides
    <2>1. /\ y.ok => IF q.op = "create" THEN y.session \in SessionIds ELSE y.session = None
          /\ replies' \subseteq replies \cup {y} /\ y.id = q.id /\ call' = call
        BY <1>3, <2>0 DEF Responds
    <2>2. ASSUME NEW c \in Clients, y.id = call[c].id
          PROVE  call[c].op = q.op
        <3>1. q.id = call[c].id
            BY <2>1, <2>2
        <3> QED
            BY <1>0, <3>1 DEF RequestsMatch
    <2> QED
        BY <1>0, <2>1, <2>2 DEF RepliesMatch
<1>4. ASSUME NEW c \in Clients, call' = [call EXCEPT ![c] = NoCall], replies' \subseteq replies
      PROVE  RepliesMatch'
    <2>1. call'[c].id = 0 /\ \A d \in Clients : d # c => call'[d] = call[d]
        BY <1>0, <1>4, CallEnds
    <2>2. \A y \in replies : y.id # 0
        BY <1>0 DEF Numbers
    <2> QED
        BY <1>0, <1>4, <2>1, <2>2 DEF RepliesMatch
<1> QED
    BY <1>0, <1>1, <1>2, <1>3, <1>4, WireEffect DEF Binds, Takes, Withdraws, wire

LEMMA WireStep == TypeOK /\ Wire /\ [Next]_vars => Wire'
    BY NumbersStep, ApartStep, CallsMatchStep, RequestsMatchStep, RepliesMatchStep DEF Wire

-----------------------------------------------------------------------------
(***************************************************************************)
(* What a step does to the manager.                                        *)
(***************************************************************************)

LEMMA ManagerEffect ==
    ASSUME [Next]_vars
    PROVE  \/ UNCHANGED manager
           \/ \E r \in requests : Opens(r)
           \/ \E r \in requests : ServeClose(r)
    BY DEF Next, AskFor, CallOn, Send, StartRaises, RefuseCreate, ServeUse, PullBinds,
        RefuseUnknown, PullEnds, Receive, GiveUpPull, RequestLost, ReplyLost, TimeOut, vars

\* The last backend is the new one, registered under an id that was free.
LEMMA OpenEffect ==
    ASSUME TypeOK, RequestsMatch, NEW r \in requests, Opens(r)
    PROVE  LET s == ResolvedId(r)
               b == Len(backends) + 1
           IN  /\ r.op = "create" /\ s \in SessionIds /\ s \notin DOMAIN sessions
               /\ ~AtCapacity
               /\ DOMAIN sessions' = DOMAIN sessions \cup {s} /\ sessions'[s] = b
               /\ \A t \in DOMAIN sessions : sessions'[t] = sessions[t]
               /\ b \in Nat /\ b \notin DOMAIN backends
               /\ backends' \in Seq(Backend)
               /\ DOMAIN backends' = DOMAIN backends \cup {b}
               /\ \A a \in DOMAIN backends : backends'[a] = backends[a]
               /\ backends'[b].opener = r.client /\ backends'[b].active
               /\ backends'[b].named = (r.session # None)
<1> PICK s : s = ResolvedId(r)
    OBVIOUS
<1> PICK x : x = [opener |-> r.client, active |-> TRUE, named |-> r.session # None]
    OBVIOUS
<1>0. /\ backends \in Seq(Backend) /\ Len(backends) \in Nat /\ DOMAIN backends = 1..Len(backends)
      /\ r \in Request
    BY TypeFacts
<1>1. /\ x \in Backend /\ x.opener = r.client /\ x.active /\ x.named = (r.session # None)
    BY <1>0 DEF Backend, Request
<1>2. /\ r.op = "create" /\ s \notin DOMAIN sessions /\ ~AtCapacity
      /\ backends' = Append(backends, x)
      /\ sessions' = [t \in DOMAIN sessions \cup {s} |->
                         IF t = s THEN Len(backends) + 1 ELSE sessions[t]]
    BY DEF Opens, IsDuplicate, Registers
<1>3. s \in SessionIds
    BY <1>2, ResolvedFacts
<1>4. /\ backends' \in Seq(Backend) /\ Len(backends') = Len(backends) + 1
      /\ backends'[Len(backends) + 1] = x
      /\ \A a \in 1..Len(backends) : backends'[a] = backends[a]
    BY <1>0, <1>1, <1>2
<1>5. DOMAIN backends' = 1..(Len(backends) + 1)
    BY <1>0, <1>4
<1>6. /\ 1..(Len(backends) + 1) = 1..Len(backends) \cup {Len(backends) + 1}
      /\ Len(backends) + 1 \notin 1..Len(backends) /\ Len(backends) + 1 \in Nat
    BY <1>0
<1> QED
    BY <1>0, <1>1, <1>2, <1>3, <1>4, <1>5, <1>6

\* A backend stops and its id is free again.
LEMMA CloseEffect ==
    ASSUME TypeOK, NEW r \in requests, ServeClose(r)
    PROVE  LET s == r.session
               b == sessions[r.session]
           IN  /\ r.op = "close" /\ s \in DOMAIN sessions /\ b \in DOMAIN backends
               /\ DOMAIN sessions' = DOMAIN sessions \ {s}
               /\ \A t \in DOMAIN sessions' : sessions'[t] = sessions[t]
               /\ backends' \in Seq(Backend)
               /\ DOMAIN backends' = DOMAIN backends
               /\ ~backends'[b].active
               /\ backends'[b].opener = backends[b].opener /\ backends'[b].named = backends[b].named
               /\ \A a \in DOMAIN backends : a # b => backends'[a] = backends[a]
<1> PICK s : s = r.session
    OBVIOUS
<1> PICK b : b = sessions[s]
    OBVIOUS
<1>1. /\ r.op = "close" /\ s \in DOMAIN sessions
      /\ sessions' = [t \in DOMAIN sessions \ {s} |-> sessions[t]]
      /\ backends' = [backends EXCEPT ![b].active = FALSE]
    BY DEF ServeClose, Forgets, Restrict
<1>2. /\ backends \in Seq(Backend) /\ b \in DOMAIN backends /\ backends[b] \in Backend
    BY <1>1, TypeFacts
<1> PICK x : x = [backends[b] EXCEPT !.active = FALSE]
    OBVIOUS
<1>3. /\ x \in Backend /\ ~x.active /\ x.opener = backends[b].opener /\ x.named = backends[b].named
    BY <1>2 DEF Backend
<1>4. backends' = [backends EXCEPT ![b] = x]
    BY <1>1
<1>5. /\ backends' \in Seq(Backend) /\ DOMAIN backends' = DOMAIN backends /\ backends'[b] = x
      /\ \A a \in DOMAIN backends : a # b => backends'[a] = backends[a]
    BY <1>2, <1>3, <1>4
<1> QED
    BY <1>1, <1>2, <1>3, <1>5

\* A backend keeps its number, who opened it and how it was named; and an answer
\* that was missed stays missed.
LEMMA HistoryKept ==
    ASSUME TypeOK, Wire, [Next]_vars
    PROVE  /\ \A b \in DOMAIN backends : /\ b \in DOMAIN backends'
                                         /\ backends'[b].opener = backends[b].opener
                                         /\ backends'[b].named = backends[b].named
           /\ lost => lost'
<1>1. RequestsMatch /\ Apart
    BY DEF Wire
<1>2. lost => lost'
    BY <1>1, WireEffect DEF Sends, Responds, Binds, Takes, Withdraws
<1>3. CASE UNCHANGED manager
    BY <1>2, <1>3 DEF manager
<1>4. ASSUME NEW r \in requests, Opens(r)
      PROVE  \A b \in DOMAIN backends : b \in DOMAIN backends' /\ backends'[b] = backends[b]
    BY <1>1, <1>4, OpenEffect
<1>5. ASSUME NEW r \in requests, ServeClose(r)
      PROVE  \A b \in DOMAIN backends : /\ b \in DOMAIN backends'
                                        /\ backends'[b].opener = backends[b].opener
                                        /\ backends'[b].named = backends[b].named
    BY <1>5, CloseEffect
<1> QED
    BY <1>2, <1>3, <1>4, <1>5, ManagerEffect

LEMMA RegisteredStep == TypeOK /\ Wire /\ Registered /\ [Next]_vars => Registered'
<1> SUFFICES ASSUME TypeOK, Wire, Registered, [Next]_vars
             PROVE  Registered'
    OBVIOUS
<1>0. /\ RequestsMatch
      /\ \A s \in DOMAIN sessions : sessions[s] \in DOMAIN backends
      /\ \A s, t \in DOMAIN sessions : sessions[s] = sessions[t] => s = t
      /\ ActiveBackends = {sessions[s] : s \in DOMAIN sessions}
      /\ IsFiniteSet(DOMAIN sessions) /\ Cardinality(DOMAIN sessions) <= MaxSessions
      /\ Cardinality(DOMAIN sessions) \in Nat /\ MaxSessions \in Nat
    BY TypeFacts, FS_CardinalityType, MaxSessionsAssumption DEF Wire, Registered
<1>1. CASE UNCHANGED manager
    BY <1>1 DEF Registered, ActiveBackends, manager
<1>2. ASSUME NEW r \in requests, Opens(r)
      PROVE  Registered'
    <2> PICK s : s = ResolvedId(r)
        OBVIOUS
    <2> PICK b : b = Len(backends) + 1
        OBVIOUS
    <2>1. /\ s \notin DOMAIN sessions /\ ~AtCapacity
          /\ DOMAIN sessions' = DOMAIN sessions \cup {s} /\ sessions'[s] = b
          /\ \A t \in DOMAIN sessions : sessions'[t] = sessions[t]
          /\ b \notin DOMAIN backends
          /\ DOMAIN backends' = DOMAIN backends \cup {b}
          /\ \A a \in DOMAIN backends : backends'[a] = backends[a]
          /\ backends'[b].active
        BY <1>0, <1>2, OpenEffect
    <2>2. IsFiniteSet(DOMAIN sessions') /\ Cardinality(DOMAIN sessions') <= MaxSessions
        <3>1. /\ IsFiniteSet(DOMAIN sessions \cup {s})
              /\ Cardinality(DOMAIN sessions \cup {s}) = Cardinality(DOMAIN sessions) + 1
            BY <1>0, <2>1, FS_AddElement
        <3>2. Cardinality(DOMAIN sessions) + 1 <= MaxSessions
            BY <1>0, <2>1 DEF AtCapacity
        <3> QED
            BY <2>1, <3>1, <3>2
    <2>3. \A t, u \in DOMAIN sessions' : sessions'[t] = sessions'[u] => t = u
        BY <1>0, <2>1
    <2>4. ActiveBackends' = ActiveBackends \cup {b}
        BY <2>1 DEF ActiveBackends
    <2>5. {sessions'[t] : t \in DOMAIN sessions'} = {sessions[t] : t \in DOMAIN sessions} \cup {b}
        BY <2>1
    <2> QED
        BY <1>0, <2>2, <2>3, <2>4, <2>5 DEF Registered
<1>3. ASSUME NEW r \in requests, ServeClose(r)
      PROVE  Registered'
    <2> PICK s : s = r.session
        OBVIOUS
    <2> PICK b : b = sessions[s]
        OBVIOUS
    <2>1. /\ s \in DOMAIN sessions /\ b \in DOMAIN backends
          /\ DOMAIN sessions' = DOMAIN sessions \ {s}
          /\ \A t \in DOMAIN sessions' : sessions'[t] = sessions[t]
          /\ DOMAIN backends' = DOMAIN backends
          /\ ~backends'[b].active
          /\ \A a \in DOMAIN backends : a # b => backends'[a] = backends[a]
        BY <1>3, CloseEffect
    <2>2. IsFiniteSet(DOMAIN sessions') /\ Cardinality(DOMAIN sessions') <= MaxSessions
        <3>1. /\ IsFiniteSet(DOMAIN sessions \ {s})
              /\ Cardinality(DOMAIN sessions \ {s}) = Cardinality(DOMAIN sessions) - 1
            BY <1>0, <2>1, FS_RemoveElement
        <3>2. Cardinality(DOMAIN sessions) - 1 <= MaxSessions
            BY <1>0
        <3> QED
            BY <2>1, <3>1, <3>2
    <2>3. \A t, u \in DOMAIN sessions' : sessions'[t] = sessions'[u] => t = u
        BY <1>0, <2>1
    <2>4. ActiveBackends' = ActiveBackends \ {b}
        BY <2>1 DEF ActiveBackends
    <2>5. {sessions'[t] : t \in DOMAIN sessions'} = {sessions[t] : t \in DOMAIN sessions} \ {b}
        BY <1>0, <2>1
    <2> QED
        BY <1>0, <2>2, <2>3, <2>4, <2>5 DEF Registered
<1> QED
    BY <1>1, <1>2, <1>3, ManagerEffect

-----------------------------------------------------------------------------
(***************************************************************************)
(* Generated ids.                                                          *)
(***************************************************************************)

LEMMA SessionsNamed ==
    ASSUME TypeOK, Wire, Generated, [Next]_vars
    PROVE  \A s \in DOMAIN sessions' :
               IF s \in Nat THEN sessions'[s] = s ELSE backends'[sessions'[s]].named
<1>0. /\ RequestsMatch
      /\ \A s \in DOMAIN sessions : sessions[s] \in DOMAIN backends
      /\ \A s \in DOMAIN sessions :
            IF s \in Nat THEN sessions[s] = s ELSE backends[sessions[s]].named
    BY TypeFacts DEF Wire, Generated
<1>1. CASE UNCHANGED manager
    BY <1>0, <1>1 DEF manager
<1>2. ASSUME NEW r \in requests, Opens(r)
      PROVE  \A s \in DOMAIN sessions' :
                 IF s \in Nat THEN sessions'[s] = s ELSE backends'[sessions'[s]].named
    <2> PICK s : s = ResolvedId(r)
        OBVIOUS
    <2> PICK b : b = Len(backends) + 1
        OBVIOUS
    <2>1. /\ DOMAIN sessions' = DOMAIN sessions \cup {s} /\ sessions'[s] = b
          /\ \A t \in DOMAIN sessions : sessions'[t] = sessions[t]
          /\ \A a \in DOMAIN backends : backends'[a] = backends[a]
          /\ backends'[b].named = (r.session # None)
          /\ r.op = "create"
        BY <1>0, <1>2, OpenEffect
    <2>2. (s \in Nat => s = b) /\ (s \notin Nat => r.session # None)
        BY <1>0, <2>1, ResolvedFacts
    <2>3. IF s \in Nat THEN sessions'[s] = s ELSE backends'[sessions'[s]].named
        BY <2>1, <2>2
    <2>4. \A t \in DOMAIN sessions :
              IF t \in Nat THEN sessions'[t] = t ELSE backends'[sessions'[t]].named
        BY <1>0, <2>1
    <2> QED
        BY <2>1, <2>3, <2>4
<1>3. ASSUME NEW r \in requests, ServeClose(r)
      PROVE  \A s \in DOMAIN sessions' :
                 IF s \in Nat THEN sessions'[s] = s ELSE backends'[sessions'[s]].named
    <2>1. /\ DOMAIN sessions' \subseteq DOMAIN sessions
          /\ \A t \in DOMAIN sessions' : sessions'[t] = sessions[t]
        BY <1>3, CloseEffect
    <2>2. \A a \in DOMAIN backends : backends'[a].named = backends[a].named
        BY HistoryKept
    <2> QED
        BY <1>0, <2>1, <2>2
<1> QED
    BY <1>1, <1>2, <1>3, ManagerEffect

\* Opened, of the next state.
OpenedThen(c, b) == b \in DOMAIN backends' /\ backends'[b].opener = c

LEMMA GeneratedStep == TypeOK /\ Wire /\ Generated /\ [Next]_vars => Generated'
<1> SUFFICES ASSUME TypeOK, Wire, Generated, [Next]_vars
             PROVE  Generated'
    OBVIOUS
<1>0. /\ Numbers /\ Apart /\ CallsMatch /\ RequestsMatch /\ RepliesMatch /\ calls \in Nat
      /\ handle \in [Clients -> SessionIds \cup {None}] /\ Pending \subseteq Request
    BY TypeFacts DEF Wire
<1>1. \A c, b : Opened(c, b) => OpenedThen(c, b)
    BY HistoryKept DEF Opened, OpenedThen
<1>2. /\ \A r \in requests : r.session \in Nat => Opened(r.client, r.session)
      /\ \A c \in Clients : handle[c] \in Nat => Opened(c, handle[c])
      /\ \A y \in replies, c \in Clients :
            y.id = call[c].id /\ y.session \in Nat => Opened(c, y.session)
    BY DEF Generated
<1>3. None \notin Nat /\ Names \cap Nat = {}
    BY NoneAssumption, NamesAssumption
<1>4. \A r \in requests' : r.session \in Nat => OpenedThen(r.client, r.session)
    <2>1. CASE requests' \subseteq requests
        BY <1>1, <1>2, <2>1
    <2>2. ASSUME NEW c \in Clients, NEW q \in Request, Sends(c, q)
          PROVE  \A r \in requests' : r.session \in Nat => OpenedThen(r.client, r.session)
        <3>1. /\ requests' = requests \cup {q} /\ q.client = c
              /\ q.session \in Names \/ q.session = handle[c]
            BY <2>2 DEF Sends
        <3>2. q.session \in Nat => Opened(q.client, q.session)
            BY <1>2, <1>3, <3>1
        <3> QED
            BY <1>1, <1>2, <3>1, <3>2
    <2> QED
        BY <1>0, <2>1, <2>2, WireEffect DEF Responds, Binds, Takes, Withdraws, wire
<1>5. \A c \in Clients : handle'[c] \in Nat => OpenedThen(c, handle'[c])
    <2>1. CASE handle' = handle
        BY <1>1, <1>2, <2>1
    <2>2. ASSUME NEW c \in Clients, NEW y \in replies, Takes(c, y)
          PROVE  \A d \in Clients : handle'[d] \in Nat => OpenedThen(d, handle'[d])
        <3>1. /\ y.id = call[c].id
              /\ handle'[c] \in {handle[c], y.session, None}
              /\ \A d \in Clients : d # c => handle'[d] = handle[d]
            BY <1>0, <2>2 DEF Takes
        <3>2. y.session \in Nat => Opened(c, y.session)
            BY <1>2, <3>1
        <3> QED
            BY <1>1, <1>2, <1>3, <3>1, <3>2
    <2> QED
        BY <1>0, <2>1, <2>2, WireEffect DEF Sends, Responds, Binds, Withdraws
<1>6. \A y \in replies', c \in Clients :
          y.id = call'[c].id /\ y.session \in Nat => OpenedThen(c, y.session)
    <2> DEFINE Known == \A y \in replies', c \in Clients :
                            y.id = call'[c].id /\ y.session \in Nat => OpenedThen(c, y.session)
    <2>1. CASE call' = call /\ replies' \subseteq replies
        BY <1>1, <1>2, <2>1
    <2>2. ASSUME NEW c \in Clients, NEW q \in Request, Sends(c, q)
          PROVE  Known
        <3>1. call'[c].id = calls + 1 /\ \A d \in Clients : d # c => call'[d] = call[d]
            BY <1>0, <2>2, CallBegins
        <3>2. (\A y \in replies : y.id # calls + 1) /\ replies' = replies
            BY <1>0, <2>2 DEF Numbers, Sends
        <3> QED
            BY <1>1, <1>2, <3>1, <3>2
    <2>3. ASSUME NEW q \in Pending, NEW y \in Reply, Responds(q, y)
          PROVE  Known
        <3>1. call' = call /\ replies' \subseteq replies \cup {y} /\ y.id = q.id
            BY <2>3 DEF Responds
        <3>2. CASE Opens(q) /\ y.session = ResolvedId(q)
            <4>1. q.op = "create" /\ q \in requests
                BY <1>0, <3>2 DEF Opens, RequestsMatch, Pending
            <4>2. y.session \in Nat => y.session = Len(backends) + 1
                BY <1>0, <3>2, <4>1, ResolvedFacts
            <4>3. OpenedThen(q.client, Len(backends) + 1)
                <5>1. /\ Len(backends) + 1 \in DOMAIN backends'
                      /\ backends'[Len(backends) + 1].opener = q.client
                    BY <1>0, <3>2, <4>1, OpenEffect
                <5> QED
                    BY <5>1 DEF OpenedThen
            <4>4. ASSUME NEW c \in Clients, y.id = call[c].id
                  PROVE  c = q.client
                <5>1. q.id = call[c].id
                    BY <3>1, <4>4
                <5> QED
                    BY <1>0, <5>1 DEF RequestsMatch
            <4> QED
                BY <1>1, <1>2, <3>1, <4>2, <4>3, <4>4
        <3>3. CASE y.session = None
            BY <1>1, <1>2, <1>3, <3>1, <3>3
        <3> QED
            BY <2>3, <3>2, <3>3 DEF Responds, Decides
    <2>4. ASSUME NEW c \in Clients, call' = [call EXCEPT ![c] = NoCall], replies' \subseteq replies
          PROVE  Known
        <3>1. call'[c].id = 0 /\ \A d \in Clients : d # c => call'[d] = call[d]
            BY <1>0, <2>4, CallEnds
        <3>2. \A y \in replies : y.id # 0
            BY <1>0 DEF Numbers
        <3> QED
            BY <1>1, <1>2, <2>4, <3>1, <3>2
    <2> QED
        BY <1>0, <2>1, <2>2, <2>3, <2>4, WireEffect DEF Binds, Takes, Withdraws, wire
<1> QED
    BY <1>4, <1>5, <1>6, SessionsNamed DEF Generated, Opened, OpenedThen

-----------------------------------------------------------------------------
(***************************************************************************)
(* Who owns a session.                                                     *)
(***************************************************************************)

LEMMA OwnsSame ==
    ASSUME NEW d \in Clients, NEW s, call'[d] = call[d], handle'[d] = handle[d],
           \A y \in replies : y.id = call[d].id => y \in replies',
           \A y \in replies' : y.id = call[d].id => y \in replies
    PROVE  Owns(d, s)' <=> Owns(d, s)
    BY DEF Owns

LEMMA OwnsUnanswered ==
    ASSUME NEW d \in Clients, NEW s, \A y \in replies : y.id # call[d].id
    PROVE  Owns(d, s) <=> handle[d] = s
    BY DEF Owns

LEMMA OwnsUnansweredThen ==
    ASSUME NEW d \in Clients, NEW s, \A y \in replies' : y.id # call'[d].id
    PROVE  Owns(d, s)' <=> handle'[d] = s
    BY DEF Owns

LEMMA RunsSame ==
    ASSUME TypeOK, NEW d, NEW s, UNCHANGED manager
    PROVE  RunsFor(d, s)' <=> RunsFor(d, s)
    BY DEF RunsFor, manager

\* The client whose request is served is waiting for exactly this answer.
LEMMA ServedFor ==
    ASSUME TypeOK, Wire, ~lost, NEW r \in requests
    PROVE  /\ r.client \in Clients /\ call[r.client].id = r.id /\ r.id # 0
           /\ call[r.client].op = r.op /\ call[r.client].session = r.session
           /\ handle[r.client] = (IF r.op = "create" THEN None ELSE r.session)
           /\ \A y \in replies : y.id # r.id
           /\ \A d \in Clients : d # r.client => call[d].id # r.id
<1>0. /\ Numbers /\ Apart /\ CallsMatch /\ RequestsMatch /\ calls \in Nat
      /\ r \in Pending /\ r \in Request
    BY TypeFacts DEF Wire, Pending
<1>1. r.client \in Clients /\ call[r.client].id = r.id
    BY <1>0 DEF RequestsMatch, Request
<1>2. r.id # 0
    BY <1>0 DEF Numbers
<1>3. call[r.client].op = r.op /\ call[r.client].session = r.session
    BY <1>0, <1>1 DEF RequestsMatch
<1>4. handle[r.client] = (IF r.op = "create" THEN None ELSE r.session)
    BY <1>0, <1>1, <1>2, <1>3 DEF CallsMatch
<1>5. /\ \A y \in replies : y.id # r.id
      /\ \A d \in Clients : d # r.client => call[d].id # r.id
    BY <1>0, <1>1, <1>2 DEF Apart
<1> QED
    BY <1>1, <1>2, <1>3, <1>4, <1>5

LEMMA OpensOwned ==
    ASSUME TypeOK, Wire, Ownership, ~lost, NEW r \in requests, NEW y \in Reply,
           Opens(r), Responds(r, y), y.ok, y.session = ResolvedId(r),
           NEW d \in Clients, NEW t \in SessionIds
    PROVE  RunsFor(d, t)' <=> Owns(d, t)'
<1> PICK s : s = ResolvedId(r)
    OBVIOUS
<1> PICK b : b = Len(backends) + 1
    OBVIOUS
<1> PICK c \in Clients : c = r.client
    BY ServedFor
<1>0. /\ RequestsMatch
      /\ RunsFor(d, t) <=> Owns(d, t)
      /\ None \notin SessionIds
      /\ \A u \in DOMAIN sessions : sessions[u] \in DOMAIN backends
    BY TypeFacts, NoneAssumption DEF Wire, Ownership, SessionIds
<1>1. /\ s \notin DOMAIN sessions /\ r.op = "create"
      /\ DOMAIN sessions' = DOMAIN sessions \cup {s} /\ sessions'[s] = b
      /\ \A u \in DOMAIN sessions : sessions'[u] = sessions[u]
      /\ \A a \in DOMAIN backends : backends'[a] = backends[a]
      /\ backends'[b].opener = c
    BY <1>0, OpenEffect
<1>2. /\ call[c].id = r.id /\ call[c].op = "create" /\ handle[c] = None
      /\ \A x \in replies : x.id # r.id
      /\ \A e \in Clients : e # c => call[e].id # r.id
    BY <1>1, ServedFor
<1>3. /\ replies' = replies \cup {y} /\ y.id = r.id
      /\ call' = call /\ handle' = handle
    BY <1>2 DEF Responds
<1>4. RunsFor(d, t)' <=> (IF t = s THEN d = c ELSE RunsFor(d, t))
    BY <1>0, <1>1 DEF RunsFor
<1>5. CASE d # c
    <2>1. Owns(d, t)' <=> Owns(d, t)
        BY <1>2, <1>3, <1>5, OwnsSame
    <2>2. t = s => ~RunsFor(d, t)
        BY <1>1 DEF RunsFor
    <2> QED
        BY <1>0, <1>4, <1>5, <2>1, <2>2
<1>6. CASE d = c
    <2>1. ~Owns(c, t)
        BY <1>0, <1>2, OwnsUnanswered
    <2>2. Owns(c, t)' <=> t = s
        BY <1>0, <1>2, <1>3 DEF Owns
    <2> QED
        BY <1>0, <1>4, <1>6, <2>1, <2>2
<1> QED
    BY <1>5, <1>6

LEMMA ClosesOwned ==
    ASSUME TypeOK, Wire, Ownership, ~lost, NEW r \in requests, NEW y \in Reply,
           ServeClose(r), Responds(r, y), y.ok,
           NEW d \in Clients, NEW t \in SessionIds
    PROVE  RunsFor(d, t)' <=> Owns(d, t)'
<1> PICK s : s = r.session
    OBVIOUS
<1> PICK b : b = sessions[s]
    OBVIOUS
<1> PICK c \in Clients : c = r.client
    BY ServedFor
<1>0. /\ \A e \in Clients, u \in SessionIds : RunsFor(e, u) <=> Owns(e, u)
      /\ \A u \in DOMAIN sessions : sessions[u] \in DOMAIN backends
      /\ DOMAIN sessions \subseteq SessionIds
    BY TypeFacts DEF Ownership
<1>1. /\ s \in DOMAIN sessions /\ b \in DOMAIN backends /\ r.op = "close"
      /\ DOMAIN sessions' = DOMAIN sessions \ {s}
      /\ \A u \in DOMAIN sessions' : sessions'[u] = sessions[u]
      /\ backends'[b].opener = backends[b].opener
      /\ \A a \in DOMAIN backends : a # b => backends'[a] = backends[a]
    BY CloseEffect
<1>2. /\ call[c].id = r.id /\ call[c].op = "close" /\ handle[c] = s
      /\ \A x \in replies : x.id # r.id
      /\ \A e \in Clients : e # c => call[e].id # r.id
    BY <1>1, ServedFor
<1>3. /\ replies' = replies \cup {y} /\ y.id = r.id
      /\ call' = call /\ handle' = handle
    BY <1>2 DEF Responds
<1>4. RunsFor(d, t)' <=> (t # s /\ RunsFor(d, t))
    BY <1>0, <1>1 DEF RunsFor
<1>5. Owns(c, t) <=> t = s
    BY <1>2, OwnsUnanswered
<1>6. CASE d # c
    <2>1. Owns(d, t)' <=> Owns(d, t)
        BY <1>2, <1>3, <1>6, OwnsSame
    <2>2. RunsFor(c, s)
        <3>1. Owns(c, s) /\ s \in SessionIds
            BY <1>0, <1>1, <1>2, OwnsUnanswered
        <3> QED
            BY <1>0, <3>1
    <2>3. t = s => ~RunsFor(d, t)
        BY <1>6, <2>2 DEF RunsFor
    <2> QED
        BY <1>0, <1>4, <2>1, <2>3
<1>7. CASE d = c
    <2>1. ~Owns(c, t)'
        BY <1>2, <1>3 DEF Owns
    <2> QED
        BY <1>0, <1>4, <1>5, <1>7, <2>1
<1> QED
    BY <1>6, <1>7

LEMMA TakesOwned ==
    ASSUME TypeOK, Wire, Ownership, ~lost, NEW c \in Clients, NEW y \in replies, Takes(c, y),
           NEW d \in Clients, NEW t \in SessionIds
    PROVE  RunsFor(d, t)' <=> Owns(d, t)'
<1>0. /\ Numbers /\ Apart /\ CallsMatch /\ RepliesMatch /\ calls \in Nat
      /\ RunsFor(d, t) <=> Owns(d, t)
      /\ None \notin SessionIds /\ handle \in [Clients -> SessionIds \cup {None}]
    BY TypeFacts, NoneAssumption DEF Wire, Ownership, SessionIds
<1>1. RunsFor(d, t)' <=> RunsFor(d, t)
    BY RunsSame DEF Takes
<1>2. /\ y.id = call[c].id /\ y.id # 0 /\ replies' = replies \ {y}
      /\ \A x \in replies : x.id = y.id => x = y
      /\ \A x \in replies : x.id # 0
    BY <1>0 DEF Takes, Numbers, Apart
<1>3. call'[c].id = 0 /\ \A e \in Clients : e # c => call'[e] = call[e]
    BY <1>0, CallEnds DEF Takes
<1>4. CASE d # c
    <2>1. call[d].id # y.id
        BY <1>0, <1>2, <1>4 DEF Apart
    <2>2. handle'[d] = handle[d]
        BY <1>0, <1>4 DEF Takes
    <2>3. Owns(d, t)' <=> Owns(d, t)
        BY <1>2, <1>3, <1>4, <2>1, <2>2, OwnsSame
    <2> QED
        BY <1>0, <1>1, <2>3
<1>5. CASE d = c
    <2>1. Owns(c, t)' <=> handle'[c] = t
        BY <1>2, <1>3, OwnsUnansweredThen
    <2>2. Owns(c, t) <=> \/ handle[c] = t /\ ~(y.ok /\ call[c].op = "close")
                         \/ y.ok /\ call[c].op = "create" /\ y.session = t
        BY <1>2 DEF Owns
    <2>3. call[c].op = "create" => handle[c] = None
        BY <1>0, <1>2 DEF CallsMatch
    <2>4. handle'[c] = IF y.ok /\ call[c].op = "create" THEN y.session
                       ELSE IF y.ok /\ call[c].op = "close" THEN None ELSE handle[c]
        BY <1>0 DEF Takes
    <2> QED
        BY <1>0, <1>1, <1>5, <2>1, <2>2, <2>3, <2>4
<1> QED
    BY <1>4, <1>5

LEMMA OwnershipStep == TypeOK /\ Wire /\ Ownership /\ [Next]_vars => Ownership'
<1> SUFFICES ASSUME TypeOK, Wire, Ownership, [Next]_vars, ~lost',
                    NEW d \in Clients, NEW t \in SessionIds
             PROVE  RunsFor(d, t)' <=> Owns(d, t)'
    BY DEF Ownership
<1>0. /\ ~lost /\ Numbers /\ Apart /\ CallsMatch /\ RequestsMatch /\ RepliesMatch
      /\ calls \in Nat
    BY HistoryKept, TypeFacts DEF Wire
<1>1. RunsFor(d, t) <=> Owns(d, t)
    BY <1>0 DEF Ownership
<1>2. CASE UNCHANGED <<manager, handle, call, replies>>
    <2>1. Owns(d, t)' <=> Owns(d, t)
        BY <1>2, OwnsSame
    <2> QED
        BY <1>1, <1>2, <2>1, RunsSame
<1>3. ASSUME NEW c \in Clients, NEW q \in Request, Sends(c, q)
      PROVE  RunsFor(d, t)' <=> Owns(d, t)'
    <2>1. call'[c].id = calls + 1 /\ \A e \in Clients : e # c => call'[e] = call[e]
        BY <1>0, <1>3, CallBegins
    <2>2. /\ replies' = replies /\ handle' = handle /\ call[c].id = 0 /\ UNCHANGED manager
          /\ \A y \in replies : y.id # calls + 1 /\ y.id # 0
        BY <1>0, <1>3 DEF Numbers, Sends, NoCall
    <2>3. d # c => (Owns(d, t)' <=> Owns(d, t))
        BY <2>1, <2>2, OwnsSame
    <2>4. (Owns(c, t) <=> handle[c] = t) /\ (Owns(c, t)' <=> handle'[c] = t)
        BY <2>1, <2>2, OwnsUnanswered, OwnsUnansweredThen
    <2> QED
        BY <1>1, <2>2, <2>3, <2>4, RunsSame
<1>4. ASSUME NEW q \in Pending, NEW y \in Reply, Responds(q, y)
      PROVE  RunsFor(d, t)' <=> Owns(d, t)'
    <2>1. CASE Opens(q) /\ y.ok /\ y.session = ResolvedId(q)
        <3>1. q \in requests
            BY <1>0, <2>1 DEF Opens, RequestsMatch, Pending
        <3> QED
            BY <1>0, <1>4, <2>1, <3>1, OpensOwned
    <2>2. CASE ServeClose(q) /\ y.ok
        <3>1. q \in requests
            BY <1>0, <2>2 DEF ServeClose, RequestsMatch, Pending
        <3> QED
            BY <1>0, <1>4, <2>2, <3>1, ClosesOwned
    <2>3. CASE (y.ok => q.op \in {"use", "pull"}) /\ UNCHANGED manager
        <3>1. /\ replies' \subseteq replies \cup {y} /\ replies \subseteq replies' /\ y.id = q.id
              /\ call' = call /\ handle' = handle
            BY <1>4 DEF Responds
        <3>2. ASSUME y.id = call[d].id
              PROVE  call[d].op = q.op
            <4>1. q.id = call[d].id
                BY <3>1, <3>2
            <4> QED
                BY <1>0, <4>1 DEF RequestsMatch
        <3>3. Owns(d, t)' <=> Owns(d, t)
            BY <2>3, <3>1, <3>2 DEF Owns
        <3> QED
            BY <1>1, <2>3, <3>3, RunsSame
    <2> QED
        BY <1>4, <2>1, <2>2, <2>3 DEF Responds, Decides
<1>5. ASSUME NEW c \in Clients, NEW y \in replies, Takes(c, y)
      PROVE  RunsFor(d, t)' <=> Owns(d, t)'
    BY <1>0, <1>5, TakesOwned
<1>6. ASSUME NEW c \in Clients, Withdraws(c)
      PROVE  RunsFor(d, t)' <=> Owns(d, t)'
    <2>1. call'[c].id = 0 /\ \A e \in Clients : e # c => call'[e] = call[e]
        BY <1>0, <1>6, CallEnds DEF Withdraws
    <2>2. /\ replies' = replies /\ handle' = handle /\ UNCHANGED manager
          /\ \A y \in replies : y.id # call[c].id /\ y.id # 0
        BY <1>0, <1>6 DEF Numbers, Apart, Withdraws
    <2>3. d # c => (Owns(d, t)' <=> Owns(d, t))
        BY <2>1, <2>2, OwnsSame
    <2>4. (Owns(c, t) <=> handle[c] = t) /\ (Owns(c, t)' <=> handle'[c] = t)
        BY <2>1, <2>2, OwnsUnanswered, OwnsUnansweredThen
    <2> QED
        BY <1>1, <2>2, <2>3, <2>4, RunsSame
<1> QED
    BY <1>0, <1>2, <1>3, <1>4, <1>5, <1>6, WireEffect DEF Binds, wire

-----------------------------------------------------------------------------
(***************************************************************************)
(* Which backends a call reaches.                                          *)
(***************************************************************************)

\* Mine, of the next state.
MineThen(c, b) == backends'[b].opener = c \/ (lost' /\ backends'[b].named)

LEMMA StaysMine ==
    ASSUME TypeOK, Wire, [Next]_vars, NEW c, NEW b \in DOMAIN backends, Mine(c, b)
    PROVE  MineThen(c, b)
    BY HistoryKept DEF Mine, MineThen

\* A request that finds its session finds one of its client.
LEMMA ReachesOwn ==
    ASSUME TypeOK, Wire, Generated, Ownership,
           NEW r \in requests, r.op # "create", r.session \in DOMAIN sessions
    PROVE  Mine(r.client, sessions[r.session])
<1>1. CASE r.session \in Nat
    BY <1>1 DEF Generated, Opened, Mine
<1>2. CASE r.session \notin Nat /\ lost
    BY <1>2 DEF Generated, Mine
<1>3. CASE ~lost
    <2> PICK c \in Clients : c = r.client
        BY <1>3, ServedFor
    <2>1. handle[c] = r.session /\ \A y \in replies : y.id # call[c].id
        BY <1>3, ServedFor
    <2>2. Owns(c, r.session) /\ r.session \in SessionIds
        BY <2>1, OwnsUnanswered, TypeFacts
    <2>3. RunsFor(c, r.session)
        BY <1>3, <2>2 DEF Ownership
    <2> QED
        BY <2>3 DEF RunsFor, Mine
<1>4. lost \in BOOLEAN
    BY TypeFacts
<1> QED
    BY <1>1, <1>2, <1>3, <1>4

LEMMA WaitingEffect ==
    ASSUME [Next]_vars, NEW r \in DOMAIN waiting'
    PROVE  \/ r \in DOMAIN waiting /\ waiting'[r] = waiting[r]
           \/ /\ r \in requests /\ r.op = "pull" /\ r.session \in DOMAIN sessions
              /\ waiting'[r] = sessions[r.session]
<1> DEFINE Bound == \/ r \in DOMAIN waiting /\ waiting'[r] = waiting[r]
                    \/ /\ r \in requests /\ r.op = "pull" /\ r.session \in DOMAIN sessions
                       /\ waiting'[r] = sessions[r.session]
<1>1. CASE UNCHANGED waiting
    BY <1>1
<1>2. ASSUME NEW q \in requests, PullBinds(q)
      PROVE  Bound
    BY <1>2 DEF PullBinds
<1>3. ASSUME NEW q \in DOMAIN waiting, PullEnds(q)
      PROVE  Bound
    BY <1>3 DEF PullEnds, Restrict
<1> QED
    BY <1>1, <1>2, <1>3
    DEF Next, AskFor, CallOn, Send, Opens, StartRaises, RefuseCreate, ServeUse, ServeClose,
        RefuseUnknown, Receive, GiveUpPull, RequestLost, ReplyLost, TimeOut, vars

LEMMA TouchedEffect ==
    ASSUME [Next]_vars, NEW x \in touched'
    PROVE  \/ x \in touched
           \/ \E r \in requests : /\ r.op # "create" /\ r.session \in DOMAIN sessions
                                  /\ x = <<r.client, sessions[r.session]>>
           \/ \E r \in DOMAIN waiting : x = <<r.client, waiting[r]>>
<1> DEFINE Known == \/ x \in touched
                    \/ \E r \in requests : /\ r.op # "create" /\ r.session \in DOMAIN sessions
                                           /\ x = <<r.client, sessions[r.session]>>
                    \/ \E r \in DOMAIN waiting : x = <<r.client, waiting[r]>>
<1>1. CASE UNCHANGED touched
    BY <1>1
<1>2. ASSUME NEW q \in requests, ServeUse(q) \/ ServeClose(q)
      PROVE  Known
    <2>1. /\ q.op # "create" /\ q.session \in DOMAIN sessions
          /\ touched' = touched \cup {<<q.client, sessions[q.session]>>}
        BY <1>2 DEF ServeUse, ServeClose, Reaches
    <2> QED
        BY <2>1
<1>3. ASSUME NEW q \in DOMAIN waiting, PullEnds(q)
      PROVE  Known
    <2>1. touched' = touched \/ touched' = touched \cup {<<q.client, waiting[q]>>}
        BY <1>3 DEF PullEnds, Reaches, PulledFrom
    <2> QED
        BY <2>1
<1> QED
    BY <1>1, <1>2, <1>3
    DEF Next, AskFor, CallOn, Send, Opens, StartRaises, RefuseCreate, PullBinds,
        RefuseUnknown, Receive, GiveUpPull, RequestLost, ReplyLost, TimeOut, vars

LEMMA WaitsOnOwnStep ==
    TypeOK /\ Wire /\ Generated /\ Ownership /\ WaitsOnOwn /\ [Next]_vars => WaitsOnOwn'
<1> SUFFICES ASSUME TypeOK, Wire, Generated, Ownership, WaitsOnOwn, [Next]_vars,
                    NEW r \in DOMAIN waiting'
             PROVE  MineThen(r.client, waiting'[r])
    BY DEF WaitsOnOwn, Mine, MineThen
<1>1. CASE r \in DOMAIN waiting /\ waiting'[r] = waiting[r]
    <2>1. waiting[r] \in DOMAIN backends /\ Mine(r.client, waiting[r])
        BY <1>1, TypeFacts DEF WaitsOnOwn
    <2> QED
        BY <1>1, <2>1, StaysMine
<1>2. CASE /\ r \in requests /\ r.op = "pull" /\ r.session \in DOMAIN sessions
           /\ waiting'[r] = sessions[r.session]
    <2>1. sessions[r.session] \in DOMAIN backends /\ Mine(r.client, sessions[r.session])
        BY <1>2, TypeFacts, ReachesOwn
    <2> QED
        BY <1>2, <2>1, StaysMine
<1> QED
    BY <1>1, <1>2, WaitingEffect

LEMMA OwnSessionStep ==
    /\ TypeOK /\ Wire /\ Generated /\ Ownership /\ WaitsOnOwn /\ OwnSession
    /\ [Next]_vars
    => OwnSession' /\ touched' \subseteq Clients \X DOMAIN backends'
<1> SUFFICES ASSUME TypeOK, Wire, Generated, Ownership, WaitsOnOwn, OwnSession, [Next]_vars,
                    NEW x \in touched'
             PROVE  MineThen(x[1], x[2]) /\ x \in Clients \X DOMAIN backends'
    BY DEF OwnSession, MineThen
<1>0. \A b \in DOMAIN backends : b \in DOMAIN backends'
    BY HistoryKept
<1>1. CASE x \in touched
    <2>1. x \in Clients \X DOMAIN backends /\ Mine(x[1], x[2])
        BY <1>1, TypeFacts DEF OwnSession, Mine
    <2> QED
        BY <1>0, <2>1, StaysMine
<1>2. ASSUME NEW r \in requests, r.op # "create", r.session \in DOMAIN sessions,
             x = <<r.client, sessions[r.session]>>
      PROVE  MineThen(x[1], x[2]) /\ x \in Clients \X DOMAIN backends'
    <2>1. /\ sessions[r.session] \in DOMAIN backends /\ r.client \in Clients
          /\ Mine(r.client, sessions[r.session])
        BY <1>2, TypeFacts, ReachesOwn DEF Request
    <2>2. MineThen(r.client, sessions[r.session])
        BY <2>1, StaysMine
    <2> QED
        BY <1>0, <1>2, <2>1, <2>2
<1>3. ASSUME NEW r \in DOMAIN waiting, x = <<r.client, waiting[r]>>
      PROVE  MineThen(x[1], x[2]) /\ x \in Clients \X DOMAIN backends'
    <2>1. /\ waiting[r] \in DOMAIN backends /\ r.client \in Clients
          /\ Mine(r.client, waiting[r])
        BY TypeFacts DEF WaitsOnOwn, Request
    <2>2. MineThen(r.client, waiting[r])
        BY <2>1, StaysMine
    <2> QED
        BY <1>0, <1>3, <2>1, <2>2
<1> QED
    BY <1>1, <1>2, <1>3, TouchedEffect

-----------------------------------------------------------------------------
(***************************************************************************)
(* Types.                                                                  *)
(***************************************************************************)

LEMMA SessionsTyped ==
    ASSUME TypeOK, Wire, [Next]_vars
    PROVE  /\ DOMAIN sessions' \subseteq SessionIds
           /\ \A s \in DOMAIN sessions' : sessions'[s] \in DOMAIN backends'
           /\ backends' \in Seq(Backend)
<1> DEFINE Good == /\ DOMAIN sessions' \subseteq SessionIds
                   /\ \A s \in DOMAIN sessions' : sessions'[s] \in DOMAIN backends'
                   /\ backends' \in Seq(Backend)
<1>0. /\ RequestsMatch /\ DOMAIN sessions \subseteq SessionIds
      /\ \A s \in DOMAIN sessions : sessions[s] \in DOMAIN backends
      /\ backends \in Seq(Backend)
    BY TypeFacts DEF Wire
<1>1. CASE UNCHANGED manager
    BY <1>0, <1>1 DEF manager
<1>2. ASSUME NEW r \in requests, Opens(r)
      PROVE  Good
    <2> PICK s : s = ResolvedId(r)
        OBVIOUS
    <2> PICK b : b = Len(backends) + 1
        OBVIOUS
    <2>1. /\ s \in SessionIds
          /\ DOMAIN sessions' = DOMAIN sessions \cup {s} /\ sessions'[s] = b
          /\ \A t \in DOMAIN sessions : sessions'[t] = sessions[t]
          /\ DOMAIN backends' = DOMAIN backends \cup {b}
          /\ backends' \in Seq(Backend)
        BY <1>0, <1>2, OpenEffect
    <2> QED
        BY <1>0, <2>1
<1>3. ASSUME NEW r \in requests, ServeClose(r)
      PROVE  Good
    <2>1. /\ DOMAIN sessions' \subseteq DOMAIN sessions
          /\ \A t \in DOMAIN sessions' : sessions'[t] = sessions[t]
          /\ DOMAIN backends' = DOMAIN backends /\ backends' \in Seq(Backend)
        BY <1>3, CloseEffect
    <2> QED
        BY <1>0, <2>1
<1> QED
    BY <1>1, <1>2, <1>3, ManagerEffect

LEMMA WireTyped ==
    ASSUME TypeOK, Wire, [Next]_vars
    PROVE  /\ requests' \subseteq Request /\ replies' \subseteq Reply
           /\ handle' \in [Clients -> SessionIds \cup {None}]
           /\ calls' \in 0..MaxCalls /\ lost' \in BOOLEAN
<1> DEFINE Good == /\ requests' \subseteq Request /\ replies' \subseteq Reply
                   /\ handle' \in [Clients -> SessionIds \cup {None}]
                   /\ calls' \in 0..MaxCalls /\ lost' \in BOOLEAN
<1>0. /\ Apart /\ RequestsMatch
      /\ requests \subseteq Request /\ replies \subseteq Reply
      /\ handle \in [Clients -> SessionIds \cup {None}]
      /\ calls \in 0..MaxCalls /\ lost \in BOOLEAN
    BY TypeFacts DEF Wire
<1>1. CASE UNCHANGED <<handle, wire, calls, lost>>
    BY <1>0, <1>1 DEF wire
<1>2. ASSUME NEW c \in Clients, NEW q \in Request, Sends(c, q)
      PROVE  Good
    BY <1>0, <1>2 DEF Sends
<1>3. ASSUME NEW q \in Pending, NEW y \in Reply, Responds(q, y)
      PROVE  Good
    BY <1>0, <1>3 DEF Responds
<1>4. ASSUME NEW q \in requests, Binds(q)
      PROVE  Good
    BY <1>0, <1>4 DEF Binds
<1>5. ASSUME NEW c \in Clients, NEW y \in replies, Takes(c, y)
      PROVE  Good
    <2>1. y.session \in SessionIds \cup {None}
        BY <1>0 DEF Reply
    <2> QED
        BY <1>0, <1>5, <2>1 DEF Takes
<1>6. ASSUME NEW c \in Clients, Withdraws(c)
      PROVE  Good
    BY <1>0, <1>6 DEF Withdraws
<1> QED
    BY <1>0, <1>1, <1>2, <1>3, <1>4, <1>5, <1>6, WireEffect

LEMMA WaitingTyped ==
    ASSUME TypeOK, Wire, [Next]_vars
    PROVE  /\ DOMAIN waiting' \subseteq Request
           /\ \A r \in DOMAIN waiting' : waiting'[r] \in DOMAIN backends'
<1> SUFFICES ASSUME NEW r \in DOMAIN waiting'
             PROVE  r \in Request /\ waiting'[r] \in DOMAIN backends'
    OBVIOUS
<1>1. \A b \in DOMAIN backends : b \in DOMAIN backends'
    BY HistoryKept
<1>2. /\ requests \subseteq Request /\ DOMAIN waiting \subseteq Request
      /\ \A q \in DOMAIN waiting : waiting[q] \in DOMAIN backends
      /\ \A s \in DOMAIN sessions : sessions[s] \in DOMAIN backends
    BY TypeFacts
<1> QED
    BY <1>1, <1>2, WaitingEffect

LEMMA TypeStep ==
    ASSUME TypeOK, Wire, Generated, Ownership, WaitsOnOwn, OwnSession, [Next]_vars
    PROVE  TypeOK'
<1>0. CallsMatch' /\ RepliesMatch' /\ None \notin SessionIds
    BY WireStep, NoneAssumption DEF Wire, SessionIds
<1>1. \A c \in Clients : call'[c].op \in {"use", "pull"} => handle'[c] = call'[c].session
    BY <1>0 DEF CallsMatch, NoCall
<1>2. \A reply \in replies', c \in Clients :
          (reply.ok /\ reply.id = call'[c].id /\ call'[c].op = "create") => reply.session # None
    BY <1>0 DEF RepliesMatch
<1>3. backends' \in Seq([opener : Clients, active : BOOLEAN, named : BOOLEAN])
    BY SessionsTyped DEF Backend
<1> QED
    BY <1>1, <1>2, <1>3, SessionsTyped, WireTyped, WaitingTyped, OwnSessionStep DEF TypeOK

-----------------------------------------------------------------------------
LEMMA EmptyFacts ==
    ASSUME NEW S
    PROVE  <<>> \in Seq(S) /\ DOMAIN <<>> = {}
    OBVIOUS

LEMMA InvInit == Init => IInv
<1> SUFFICES ASSUME Init
             PROVE  IInv
    OBVIOUS
<1>0. /\ DOMAIN sessions = {} /\ backends = <<>> /\ DOMAIN backends = {} /\ DOMAIN waiting = {}
      /\ Pending = {} /\ replies = {} /\ requests = {} /\ calls = 0 /\ touched = {}
      /\ lost = FALSE
      /\ \A c \in Clients : handle[c] = None /\ call[c] = NoCall
      /\ None \notin SessionIds
    BY EmptyFacts, NoneAssumption DEF Init, Pending, SessionIds
<1>1. NoCall \in Called /\ NoCall.id = 0 /\ NoCall.op = "close"
    BY DEF NoCall, Called, Operations
<1>2. call \in [Clients -> Called] /\ handle \in [Clients -> SessionIds \cup {None}]
    BY <1>1 DEF Init
<1>3. TypeOK
    <2>1. backends \in Seq([opener : Clients, active : BOOLEAN, named : BOOLEAN])
        BY <1>0, EmptyFacts
    <2>2. calls \in 0..MaxCalls
        BY <1>0, BoundsAssumption
    <2> QED
        BY <1>0, <1>1, <1>2, <2>1, <2>2 DEF TypeOK
<1>4. Wire
    BY <1>0, <1>1, <1>2 DEF Wire, Numbers, Apart, CallsMatch, RequestsMatch, RepliesMatch
<1>5. Registered
    <2>1. IsFiniteSet({}) /\ Cardinality({}) = 0
        BY FS_EmptySet
    <2>2. Cardinality(DOMAIN sessions) <= MaxSessions
        BY <1>0, <2>1, MaxSessionsAssumption
    <2>3. ActiveBackends = {} /\ {sessions[s] : s \in DOMAIN sessions} = {}
        BY <1>0 DEF ActiveBackends
    <2> QED
        BY <1>0, <2>1, <2>2, <2>3 DEF Registered
<1>6. Generated
    BY <1>0, NoneAssumption DEF Generated
<1>7. Ownership
    BY <1>0 DEF Ownership, RunsFor, Owns
<1>8. WaitsOnOwn /\ OwnSession
    BY <1>0 DEF WaitsOnOwn, OwnSession
<1> QED
    BY <1>3, <1>4, <1>5, <1>6, <1>7, <1>8 DEF IInv

LEMMA InvStep == IInv /\ [Next]_vars => IInv'
<1> SUFFICES ASSUME IInv, [Next]_vars
             PROVE  IInv'
    OBVIOUS
<1>0. TypeOK /\ Wire /\ Registered /\ Generated /\ Ownership /\ WaitsOnOwn /\ OwnSession
    BY DEF IInv
<1>1. TypeOK' /\ Wire'
    BY <1>0, TypeStep, WireStep
<1>2. Registered' /\ Generated' /\ Ownership'
    BY <1>0, RegisteredStep, GeneratedStep, OwnershipStep
<1>3. WaitsOnOwn' /\ OwnSession'
    BY <1>0, WaitsOnOwnStep, OwnSessionStep
<1> QED
    BY <1>1, <1>2, <1>3 DEF IInv

LEMMA Invariance == Spec => []IInv
    BY InvInit, InvStep, PTL DEF Spec

\* Every variable keeps its type: the manager never names a backend that was not
\* started, and an SDK session always has an id (session.py:20-63).
THEOREM TypeCorrect == Spec => []TypeOK
<1>1. IInv => TypeOK
    BY DEF IInv
<1> QED
    BY <1>1, Invariance, PTL

\* Calls reach only their client's sessions, for any number of clients, sessions
\* and calls, also with ids that are used again, answers that are lost and
\* requests that are served late (session.py:31-37, 48, 54; http_api.py:100-106).
THEOREM OwnSessionCorrect == Spec => []OwnSession
<1>1. IInv => OwnSession
    BY DEF IInv
<1> QED
    BY <1>1, Invariance, PTL

\* At any capacity the running backends are those that are registered, and no
\* more than it allows (session.py:29-36, 54-57).
THEOREM ActiveBoundedCorrect == Spec => []ActiveBounded
<1>1. IInv => ActiveBounded
    <2> SUFFICES ASSUME IInv
                 PROVE  ActiveBounded
        OBVIOUS
    <2>1. /\ ActiveBackends = {sessions[s] : s \in DOMAIN sessions}
          /\ IsFiniteSet(DOMAIN sessions) /\ Cardinality(DOMAIN sessions) <= MaxSessions
        BY DEF IInv, Registered
    <2>2. Cardinality({sessions[s] : s \in DOMAIN sessions}) <= Cardinality(DOMAIN sessions)
        <3> DEFINE f == [s \in DOMAIN sessions |-> sessions[s]]
                   T == {sessions[s] : s \in DOMAIN sessions}
        <3>1. f \in Surjection(DOMAIN sessions, T)
            BY DEF Surjection
        <3> QED
            BY <2>1, <3>1, FS_Surjection
    <2>3. /\ Cardinality({sessions[s] : s \in DOMAIN sessions}) \in Nat
          /\ Cardinality(DOMAIN sessions) \in Nat /\ MaxSessions \in Nat
        <3> DEFINE f == [s \in DOMAIN sessions |-> sessions[s]]
                   T == {sessions[s] : s \in DOMAIN sessions}
        <3>1. f \in Surjection(DOMAIN sessions, T)
            BY DEF Surjection
        <3>2. IsFiniteSet(T)
            BY <2>1, <3>1, FS_Surjection
        <3> QED
            BY <2>1, <3>2, FS_CardinalityType, MaxSessionsAssumption
    <2>4. Cardinality(ActiveBackends) <= MaxSessions
        BY <2>1, <2>2, <2>3
    <2> QED
        BY <2>1, <2>4 DEF ActiveBounded
<1> QED
    BY <1>1, Invariance, PTL

\* While every answer has arrived, each session can still be closed by the client
\* that opened it (session.py:34-37; client.py:56-57).
THEOREM NoOrphanCorrect == Spec => []NoOrphan
<1>1. IInv => NoOrphan
    <2> SUFFICES ASSUME IInv, ~lost, NEW s \in DOMAIN sessions
                 PROVE  \E c \in Clients : Holds(c, s)
        BY DEF NoOrphan
    <2>1. TypeOK /\ Ownership
        BY DEF IInv
    <2> PICK c : c = backends[sessions[s]].opener
        OBVIOUS
    <2>2. s \in SessionIds /\ c \in Clients
        BY <2>1, TypeFacts DEF Backend
    <2>3. Owns(c, s)
        BY <2>1, <2>2 DEF Ownership, RunsFor
    <2> QED
        BY <2>2, <2>3 DEF Owns, Holds
<1> QED
    BY <1>1, Invariance, PTL
=============================================================================
