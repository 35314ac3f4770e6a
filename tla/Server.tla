------------------------------- MODULE Server -------------------------------
(***************************************************************************)
(* The IEC 61850 server's task: connections of clients in a fixed number   *)
(* of slots (iso_server.c, iso_connection.c), what a connection that goes  *)
(* away leaves in the report control blocks and the control objects        *)
(* (mms_mapping.c, control.c), and the periodic work between two turns.    *)
(*                                                                         *)
(* A turn accepts at most one connection, handles the connections slot by  *)
(* slot, and does the periodic work; the clients go on between any two of  *)
(* these steps.  Reading never waits; writing does, without a timeout,     *)
(* until the network has taken everything (Socket_write): a server that    *)
(* waits is one whose next step is long in coming, so that no fairness is  *)
(* assumed of it.  A connection is known by its socket.  A request is one  *)
(* message, read whole; finish stands for all after which the server       *)
(* closes the connection: the end of the session, an abort, and what it    *)
(* cannot parse.  There is one report control block.  Control objects are  *)
(* direct ones with normal security, as in the data model.  The sockets    *)
(* are lwIP's, which is not in the repository.                             *)
(***************************************************************************)
EXTENDS Integers, Sequences, FiniteSets

CONSTANTS
    Socket,         \* sockets for connections on port 102
    Control,        \* controls, in the order of controlObjects: 1, 2, ...
    MaxClients,     \* CONFIG_MAXIMUM_TCP_CLIENT_CONNECTIONS
    MaxBacklog,     \* bound: connections that wait to be accepted
    NULL

ASSUME ServerAssumption ==
    /\ IsFiniteSet(Socket) /\ NULL \notin Socket
    /\ {MaxClients, MaxBacklog} \subseteq Nat \ {0} /\ Control \subseteq Nat

VARIABLES
    backlog,    \* connections not accepted yet, in their order
    peer,       \* the client of a socket, as lwIP knows it: "up" or "gone"; "none"
                \* for a socket that is not in use
    request,    \* the client's request that was not read yet; NULL for none
    slot,       \* openClientConnections
    running,    \* the connections in ISO_CON_STATE_RUNNING
    counter,    \* connectionCounter
    pc,         \* where the turn is: 0 accept, i the i-th slot, MaxClients + 1 periodic
    unheard,    \* history: the connections that had a message, or had ended, when the
                \* turn began, and that it has not looked at yet
    owner,      \* clientConnection of the report control block
    state,      \* of each control
    conn        \* mmsConnection of each control

net      == <<backlog, peer, request>>
table    == <<slot, running, counter>>
controls == <<state, conn>>
vars     == <<net, table, pc, unheard, owner, controls>>

Slot    == 1 .. MaxClients
Enable  == <<"enable">>
Disable == <<"disable">>
Finish  == <<"finish">>
Oper(c) == <<"oper", c>>
Request == {Enable, Disable, Finish} \cup {Oper(c) : c \in Control}

Open    == {slot[i] : i \in Slot} \ {NULL}
Pending == {backlog[k] : k \in DOMAIN backlog}

\* The values every variable stays in.
TypeOK ==
    /\ backlog \in Seq(Socket)
    /\ peer \in [Socket -> {"none", "up", "gone"}]
    /\ request \in [Socket -> Request \cup {NULL}]
    /\ slot \in [Slot -> Socket \cup {NULL}]
    /\ running \subseteq Socket
    /\ counter \in 0 .. MaxClients
    /\ pc \in 0 .. MaxClients + 1
    /\ unheard \subseteq Socket
    /\ owner \in Socket \cup {NULL}
    /\ state \in [Control -> {"ready", "wait", "operate"}]
    /\ conn \in [Control -> Socket \cup {NULL}]

Init ==
    /\ backlog = << >>
    /\ peer = [s \in Socket |-> "none"] /\ request = [s \in Socket |-> NULL]
    /\ slot = [i \in Slot |-> NULL] /\ running = {} /\ counter = 0
    /\ pc = 0 /\ unheard = {}
    /\ owner = NULL
    /\ state = [c \in Control |-> "ready"] /\ conn = [c \in Control |-> NULL]

-----------------------------------------------------------------------------
\* The clients and the network.
Connect(s) ==
    /\ peer[s] = "none" /\ Len(backlog) < MaxBacklog
    /\ peer' = [peer EXCEPT ![s] = "up"] /\ backlog' = Append(backlog, s)
    /\ UNCHANGED <<request, table, pc, unheard, owner, controls>>

Ask(s, r) ==
    /\ peer[s] = "up" /\ request[s] = NULL
    /\ request' = [request EXCEPT ![s] = r]
    /\ UNCHANGED <<backlog, peer, table, pc, unheard, owner, controls>>

\* The client closes its connection; or it has vanished, asks nothing any more, and
\* the keep-alive gives it up.
Close(s) ==
    /\ peer[s] = "up" /\ peer' = [peer EXCEPT ![s] = "gone"]
    /\ UNCHANGED <<backlog, request, table, pc, unheard, owner, controls>>

\* The client aborts its connection, or is given up with a request under way, which
\* is then lost.
Abort(s) ==
    /\ peer[s] = "up" /\ peer' = [peer EXCEPT ![s] = "gone"]
    /\ request' = [request EXCEPT ![s] = NULL]
    /\ UNCHANGED <<backlog, table, pc, unheard, owner, controls>>

-----------------------------------------------------------------------------
\* NVIC_SystemReset: of the clients, those that were connected find out.
Reset ==
    /\ backlog' = << >>
    /\ peer' = [s \in Socket |-> "none"] /\ request' = [s \in Socket |-> NULL]
    /\ slot' = [i \in Slot |-> NULL] /\ running' = {} /\ counter' = 0
    /\ pc' = 0 /\ unheard' = {}
    /\ owner' = NULL
    /\ state' = [c \in Control |-> "ready"] /\ conn' = [c \in Control |-> NULL]

\* Those in S that have something for the server: a message, or their end.
Calling(S) == {s \in S : request[s] # NULL \/ peer[s] = "gone"}

\* handleIsoConnectionsThreadless: the connection that has waited longest is
\* accepted.  addClientConnection counts it even if there is no slot for it.
\* Mutant: one connection more is accepted.
FullMore == counter > MaxClients
Full     == counter >= MaxClients
FreeSlots == {i \in Slot : slot[i] = NULL}
WithConnection(s) ==
    IF FreeSlots = {} THEN slot
    ELSE [slot EXCEPT ![CHOOSE i \in FreeSlots : \A j \in FreeSlots : i <= j] = s]
Accept ==
    /\ pc = 0 /\ backlog # << >> /\ ~Full
    /\ pc' = 1
    /\ backlog' = Tail(backlog)
    /\ slot' = WithConnection(Head(backlog))
    /\ running' = running \cup {Head(backlog)}
    /\ counter' = counter + 1
    /\ unheard' = Calling(running')
    /\ UNCHANGED <<peer, request, owner, controls>>

AcceptNone ==
    /\ pc = 0 /\ backlog = << >> /\ pc' = 1
    /\ unheard' = Calling(running)
    /\ UNCHANGED <<net, table, owner, controls>>

AcceptTooMany == pc = 0 /\ backlog # << >> /\ Full /\ Reset

-----------------------------------------------------------------------------
\* What the end of the connections in S leaves, with the handlers that are told of
\* it: their reports are deactivated, and of the controls that each used last, the
\* first is set back.
\* Mutant: the report control blocks keep their client.
OwnerKept(S)  == owner
OwnerAfter(S) == IF owner \in S THEN NULL ELSE owner
Used(s)       == {c \in Control : conn[c] = s}
Aborted(S)    == {c \in Control : conn[c] \in S /\ \A d \in Used(conn[c]) : c <= d}
StateAfter(S) == [c \in Control |-> IF c \in Aborted(S) THEN "ready" ELSE state[c]]

\* finalizeIsoConnection of the connections in S.
\* Mutant: the slot is emptied, and the counter forgotten.
FinalizeUncounted(S) ==
    /\ slot' = [i \in Slot |-> IF slot[i] \in S THEN NULL ELSE slot[i]]
    /\ peer' = [s \in Socket |-> IF s \in S THEN "none" ELSE peer[s]]
    /\ UNCHANGED counter
Finalize(S) ==
    /\ slot' = [i \in Slot |-> IF slot[i] \in S THEN NULL ELSE slot[i]]
    /\ peer' = [s \in Socket |-> IF s \in S THEN "none" ELSE peer[s]]
    /\ counter' = counter - Cardinality(S)
RequestsWithout(S) == [s \in Socket |-> IF s \in S THEN NULL ELSE request[s]]

-----------------------------------------------------------------------------
\* handleClientConnections, for one slot: it is empty, or its connection was stopped.
HandleNone ==
    /\ pc \in Slot /\ slot[pc] = NULL
    /\ pc' = pc + 1
    /\ UNCHANGED <<net, table, unheard, owner, controls>>

HandleStopped ==
    /\ pc \in Slot /\ slot[pc] # NULL /\ slot[pc] \notin running
    /\ pc' = pc + 1
    /\ LET S == {slot[pc]}
       IN  /\ Finalize(S) /\ request' = RequestsWithout(S)
           /\ owner' = OwnerAfter(S) /\ state' = StateAfter(S)
    /\ UNCHANGED <<backlog, running, unheard, conn>>

\* IsoServer_OnewaitReady, for the connection s of a slot: connections that were
\* stopped are destroyed meanwhile.  What it waits for is s, and a new connection.
\* Mutant: a client that has closed its connection is not noticed.
ReadyIfAsked(s) == request[s] # NULL
Ready(s) == request[s] # NULL \/ peer[s] = "gone" \/ backlog # << >>
Stopped  == Open \ running

HandleIdle ==
    /\ pc \in Slot /\ slot[pc] \in running /\ ~Ready(slot[pc])
    /\ pc' = pc + 1
    /\ Finalize(Stopped) /\ request' = RequestsWithout(Stopped)
    /\ owner' = OwnerAfter(Stopped) /\ state' = StateAfter(Stopped)
    /\ UNCHANGED <<backlog, running, unheard, conn>>

\* IsoConnection_handleTcpConnection with a message: it is answered, but that of a
\* command is put off; a command is refused while another is under way.  Of the
\* report control block, a client may take possession from another.
Operates(r) == {c \in Control : r = Oper(c) /\ StateAfter(Stopped)[c] = "ready"}
OwnerBy(s, r) ==
    IF r = Enable THEN s
    ELSE IF r = Disable /\ owner = s THEN NULL ELSE OwnerAfter(Stopped)
HandleRequest ==
    /\ pc \in Slot /\ slot[pc] \in running /\ request[slot[pc]] # NULL
    /\ pc' = pc + 1
    /\ LET s == slot[pc]  r == request[s]
       IN  /\ Finalize(Stopped) /\ request' = RequestsWithout(Stopped \cup {s})
           /\ running' = IF r = Finish THEN running \ {s} ELSE running
           /\ owner' = OwnerBy(s, r)
           /\ state' = [c \in Control |->
                            IF c \in Operates(r) THEN "wait" ELSE StateAfter(Stopped)[c]]
           /\ conn' = [c \in Control |-> IF c \in Operates(r) THEN s ELSE conn[c]]
    /\ unheard' = unheard \ {slot[pc]}
    /\ UNCHANGED backlog

\* With no message: the end of the connection, an error, or EAGAIN, which is taken for
\* the end.  An error is counted, but LIMITERRORCONNECT is 0 (stack_config.h:31), so
\* that the first one stops the connection as well.
\* Mutants: a connection from which nothing was read is stopped, ready or not; one
\* whose client has gone is stopped, though its last request was not read.
HasNothingAnyhow(s) == request[s] = NULL
HasNothingGone(s)   == Ready(s) /\ (request[s] = NULL \/ peer[s] = "gone")
HasNothing(s) == Ready(s) /\ request[s] = NULL
HandleEnd ==
    /\ pc \in Slot /\ slot[pc] \in running /\ HasNothing(slot[pc])
    /\ pc' = pc + 1
    /\ running' = running \ {slot[pc]} /\ unheard' = unheard \ {slot[pc]}
    /\ Finalize(Stopped) /\ request' = RequestsWithout(Stopped)
    /\ owner' = OwnerAfter(Stopped) /\ state' = StateAfter(Stopped)
    /\ UNCHANGED <<backlog, conn>>

\* Control_processControlActions: a command is answered and carried out.  The
\* handler has no result: its caller finds one, and it may be that the command is
\* still under way.  The reports follow.
CarryOut ==
    state' \in [Control -> {"ready", "operate"}]
    /\ \A c \in Control : state[c] = "ready" => state'[c] = "ready"
Periodic ==
    /\ pc = MaxClients + 1 /\ pc' = 0
    /\ CarryOut
    /\ UNCHANGED <<net, table, unheard, owner, conn>>

HandleSlot == HandleNone \/ HandleStopped \/ HandleIdle \/ HandleRequest \/ HandleEnd
ServerTask == Accept \/ AcceptNone \/ AcceptTooMany \/ HandleSlot \/ Periodic

Clients ==
    \E s \in Socket :
        Connect(s) \/ Close(s) \/ Abort(s) \/ \E r \in Request : Ask(s, r)
Next == ServerTask \/ Clients

Spec == Init /\ [][Next]_vars

-----------------------------------------------------------------------------
\* The counter that decides on new connections is the number of connections that
\* have a slot: each has just one, and none that is in use is without one.
CountersAgree ==
    /\ counter = Cardinality({i \in Slot : slot[i] # NULL})
    /\ \A i, j \in Slot : slot[i] = slot[j] => i = j \/ slot[i] = NULL
    /\ running \subseteq Open
    /\ \A s \in Socket : peer[s] # "none" => s \in Open \cup Pending

\* What the reports and the answers to commands are sent through is a connection that
\* exists: its memory was not freed.
OwnerIsOpen ==
    /\ owner \in Open \cup {NULL}
    /\ \A c \in Control : state[c] = "wait" => conn[c] \in Open

\* A client that is there, and did not ask for it, loses its connection only when
\* another connection has arrived.
ClosedForAReason ==
    [][\A s \in running \ running' :
        peer[s] = "gone" \/ request[s] = Finish \/ backlog # << >>]_vars

\* The client's request waits in a connection that was not stopped, or not accepted
\* yet.  (One in a stopped connection is closed with it: its client had finished, or
\* was taken for gone, see IdleKept.)
Waits(s) == request[s] # NULL /\ s \in running \cup Pending

\* A request that waits is not lost, whatever becomes of the other connections and in
\* whatever slot they are destroyed: it is read when it is its connection's turn,
\* even if its client has gone since, unless the client aborts the connection or a
\* connection too many resets the module.
Read(s) == pc \in Slot /\ slot[pc] = s /\ request'[s] = NULL
RequestKept ==
    [][\A s \in Socket : Waits(s) /\ ~Waits(s)' =>
        Read(s) \/ Abort(s) \/ AcceptTooMany]_vars

\* Who has a message when a turn begins, or has left, is looked at in that turn, in
\* whatever slot, whatever the others ask and whichever connections are destroyed
\* meanwhile: the message is read, or the connection is stopped.  No one waits longer
\* than a turn, as far as a turn ends: what the server writes has no timeout.
HeardInTurn == pc = MaxClients + 1 => unheard = {}

\* A read that finds nothing can be tried again (EAGAIN, socket_STM.c): a client that
\* is there and did not ask for it keeps its connection.
IdleKept ==
    [][\A s \in running \ running' : peer[s] = "gone" \/ request[s] = Finish
                                     \/ peer'[s] = "none"]_vars
=============================================================================
