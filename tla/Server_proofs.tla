---------------------------- MODULE Server_proofs ----------------------------
(***************************************************************************)
(* Proofs about the server's task for any number of sockets, slots,        *)
(* controls and waiting connections.                                       *)
(***************************************************************************)
EXTENDS Server, FiniteSetTheorems, WellFoundedInduction, TLAPS

\* A socket that is used waits to be accepted or has a slot, not both, and one only;
\* the counter is the number of those that have one.
Places ==
    /\ \A s \in Socket : peer[s] # "none" <=> s \in Open \cup Pending
    /\ Open \cap Pending = {}
    /\ \A i, j \in Slot : slot[i] = slot[j] => i = j \/ slot[i] = NULL
    /\ \A k, l \in DOMAIN backlog : backlog[k] = backlog[l] => k = l
    /\ running \subseteq Open
    /\ counter = Cardinality(Open)

\* A command waits to be carried out only between its request and the end of the turn
\* it was handled in: the turn is past the slot of its connection, which nothing stops
\* before the next one.
Waiting ==
    \A c \in Control : state[c] = "wait" =>
        \E i \in Slot : i < pc /\ slot[i] = conn[c] /\ conn[c] \in running

\* The client of the report control block has a slot.
OwnerThere == owner \in Open \cup {NULL}

IInv == TypeOK /\ Places /\ OwnerThere /\ Waiting

-----------------------------------------------------------------------------
LEMMA Constants ==
    /\ IsFiniteSet(Socket) /\ NULL \notin Socket /\ MaxClients \in Nat /\ MaxClients > 0
    /\ MaxBacklog \in Nat /\ Control \subseteq Nat
BY ServerAssumption

LEMMA OpenFinite ==
    ASSUME TypeOK
    PROVE  Open \subseteq Socket /\ IsFiniteSet(Open)
<1>1. Open \subseteq Socket
  BY DEF TypeOK, Open
<1> QED BY <1>1, Constants, FS_Subset

LEMMA Least ==
    ASSUME NEW S \in SUBSET Nat, S # {}
    PROVE  \E x \in S : \A y \in S : x <= y
<1> DEFINE R == OpToRel(<, Nat)
<1>1. IsWellFoundedOn(R, Nat)
  BY Zenon, NatLessThanWellFounded
<1>2. \A x, y \in Nat : x < y => <<x, y>> \in R
  BY DEF OpToRel
<1> HIDE DEF R
<1>3. PICK x \in S : \A y \in S : ~(<<y, x>> \in R)
  BY Zenon, <1>1, WFMin
<1>4. \A y \in S : ~(y < x)
  BY Zenon, <1>2, <1>3
<1>5. \A y \in S : x <= y
  BY <1>4
<1> QED BY Zenon, <1>5

\* While the counter is below its limit there is a slot for one connection more.
LEMMA SlotForOneMore ==
    ASSUME TypeOK, Places, ~Full
    PROVE  \E i \in Slot : slot[i] = NULL /\ \A s : WithConnection(s) = [slot EXCEPT ![i] = s]
<1>1. FreeSlots # {}
  <2>1. SUFFICES ASSUME \A i \in Slot : slot[i] # NULL PROVE FALSE
    BY DEF FreeSlots
  <2>2. slot \in Injection(Slot, Open)
    BY <2>1 DEF Injection, TypeOK, Open, Places, IsInjective
  <2>3. Cardinality(Slot) <= Cardinality(Open)
    BY Zenon, <2>2, OpenFinite, FS_Injection
  <2>4. Cardinality(1 .. MaxClients) = MaxClients
    BY Constants, FS_Interval
  <2> QED BY <2>3, <2>4, Constants DEF Places, Full, Slot
<1>2. FreeSlots \in SUBSET Nat
  BY DEF FreeSlots, Slot
<1>3. \E i \in FreeSlots : \A j \in FreeSlots : i <= j
  BY Zenon, <1>1, <1>2, Least
<1> DEFINE i == CHOOSE i \in FreeSlots : \A j \in FreeSlots : i <= j
<1>4. i \in FreeSlots
  BY Zenon, <1>3
<1>5. \A s : WithConnection(s) = [slot EXCEPT ![i] = s]
  BY Zenon, <1>1 DEF WithConnection
<1>6. i \in Slot /\ slot[i] = NULL
  BY Zenon, <1>4 DEF FreeSlots
<1> QED BY Zenon, <1>5, <1>6

\* What finalizeIsoConnection of some connections leaves of the slots and the counter.
LEMMA Finalized ==
    ASSUME TypeOK, Places, NEW S, S \subseteq Open, Finalize(S), backlog' = backlog
    PROVE  /\ slot' \in [Slot -> Socket \cup {NULL}]
           /\ peer' \in [Socket -> {"none", "up", "gone"}]
           /\ Open' = Open \ S /\ Pending' = Pending
           /\ \A i \in Slot : slot[i] \notin S => slot'[i] = slot[i]
           /\ \A s \in Socket : peer'[s] # "none" <=> s \in Open' \cup Pending'
           /\ Open' \cap Pending' = {}
           /\ \A i, j \in Slot : slot'[i] = slot'[j] => i = j \/ slot'[i] = NULL
           /\ counter' = Cardinality(Open') /\ counter' \in 0 .. MaxClients
<1>1. /\ slot' = [i \in Slot |-> IF slot[i] \in S THEN NULL ELSE slot[i]]
      /\ peer' = [s \in Socket |-> IF s \in S THEN "none" ELSE peer[s]]
      /\ counter' = counter - Cardinality(S)
  BY DEF Finalize
<1>2. slot \in [Slot -> Socket \cup {NULL}] /\ peer \in [Socket -> {"none", "up", "gone"}]
      /\ counter \in 0 .. MaxClients
  BY DEF TypeOK
<1>3. Open' = Open \ S
  BY <1>1, <1>2 DEF Open
<1>4. Pending' = Pending
  BY DEF Pending
<1>5. slot' \in [Slot -> Socket \cup {NULL}] /\ peer' \in [Socket -> {"none", "up", "gone"}]
  BY <1>1, <1>2
<1>6. \A i \in Slot : slot[i] \notin S => slot'[i] = slot[i]
  BY <1>1, <1>2
<1>7. \A s \in Socket : peer'[s] # "none" <=> s \in Open' \cup Pending'
  BY <1>1, <1>2, <1>3, <1>4 DEF Places
<1>8. Open' \cap Pending' = {}
  BY <1>3, <1>4 DEF Places
<1>9. \A i, j \in Slot : slot'[i] = slot'[j] => i = j \/ slot'[i] = NULL
  BY <1>1, <1>2 DEF Places
<1>10. counter' = Cardinality(Open') /\ counter' \in 0 .. MaxClients
  <2>1. Cardinality(Open \ S) = Cardinality(Open) - Cardinality(Open \cap S)
        /\ IsFiniteSet(Open \ S) /\ IsFiniteSet(Open)
    BY OpenFinite, FS_Difference
  <2>2. Open \cap S = S
    OBVIOUS
  <2>3. counter' = Cardinality(Open') /\ counter = Cardinality(Open)
    BY <1>1, <1>3, <2>1, <2>2 DEF Places
  <2>4. Cardinality(Open') \in Nat
    BY Zenon, <1>3, <2>1, FS_CardinalityType
  <2>5. Cardinality(S) \in Nat
    BY <2>1, <2>2, FS_Subset, FS_CardinalityType
  <2> QED BY <1>1, <1>2, <2>3, <2>4, <2>5, Constants
<1> QED BY Zenon, <1>3, <1>4, <1>5, <1>6, <1>7, <1>8, <1>9, <1>10

-----------------------------------------------------------------------------
LEMMA ResetEstablishes ==
    ASSUME Reset
    PROVE  IInv'
<1>1. TypeOK'
  BY Constants DEF Reset, TypeOK
<1>2. Open' = {} /\ Pending' = {}
  BY DEF Reset, Open, Pending
<1>3. Places'
  <2>1. counter' = Cardinality(Open')
    BY <1>2, FS_EmptySet DEF Reset
  <2> QED BY <1>2, <2>1 DEF Places, Reset
<1>4. OwnerThere' /\ Waiting'
  BY DEF OwnerThere, Waiting, Reset
<1> QED BY Zenon, <1>1, <1>3, <1>4 DEF IInv

LEMMA InitEstablishes ==
    ASSUME Init
    PROVE  IInv
<1>1. TypeOK
  BY Constants DEF Init, TypeOK
<1>2. Open = {} /\ Pending = {}
  BY DEF Init, Open, Pending
<1>3. Places
  <2>1. counter = Cardinality(Open)
    BY <1>2, FS_EmptySet DEF Init
  <2> QED BY <1>2, <2>1 DEF Places, Init
<1>4. OwnerThere /\ Waiting
  BY DEF OwnerThere, Waiting, Init
<1> QED BY Zenon, <1>1, <1>3, <1>4 DEF IInv

-----------------------------------------------------------------------------
\* The clients.
LEMMA ConnectKeeps ==
    ASSUME IInv, NEW s \in Socket, Connect(s)
    PROVE  IInv'
<1>0. /\ TypeOK /\ Places /\ backlog \in Seq(Socket) /\ peer[s] = "none"
      /\ backlog' = Append(backlog, s) /\ peer' = [peer EXCEPT ![s] = "up"]
      /\ UNCHANGED <<request, slot, running, counter, pc, unheard, owner, state, conn>>
  BY DEF IInv, Connect, TypeOK, table, controls
<1>1. TypeOK'
  BY <1>0 DEF TypeOK
<1>2. Open' = Open
  BY <1>0 DEF Open
<1>3. Pending' = Pending \cup {s} /\ s \notin Open /\ s \notin Pending
  BY <1>0 DEF Pending, Places
<1>4. Places'
  <2>1. \A k, l \in DOMAIN backlog' : backlog'[k] = backlog'[l] => k = l
    BY <1>0, <1>3 DEF Places, Pending
  <2>2. \A t \in Socket : peer'[t] # "none" <=> t \in Open' \cup Pending'
    BY <1>0, <1>2, <1>3 DEF Places, TypeOK
  <2>3. Open' \cap Pending' = {}
    BY <1>0, <1>2, <1>3 DEF Places
  <2> QED BY <1>0, <1>2, <2>1, <2>2, <2>3 DEF Places
<1>5. OwnerThere' /\ Waiting'
  BY <1>0, <1>2 DEF IInv, OwnerThere, Waiting
<1> QED BY Zenon, <1>1, <1>4, <1>5 DEF IInv

LEMMA AskKeeps ==
    ASSUME IInv, NEW s \in Socket, NEW r \in Request, Ask(s, r)
    PROVE  IInv'
<1>0. TypeOK /\ UNCHANGED <<backlog, peer, slot, running, counter, pc, unheard, owner, state, conn>>
  BY DEF IInv, Ask, table, controls
<1>1. TypeOK'
  BY <1>0 DEF TypeOK, Ask
<1>2. Open' = Open /\ Pending' = Pending
  BY <1>0 DEF Open, Pending
<1>3. Places' /\ OwnerThere' /\ Waiting'
  BY <1>0, <1>2 DEF IInv, Places, OwnerThere, Waiting
<1> QED BY Zenon, <1>1, <1>3 DEF IInv

LEMMA CloseKeeps ==
    ASSUME IInv, NEW s \in Socket, Close(s)
    PROVE  IInv'
<1>0. /\ TypeOK /\ peer[s] = "up" /\ peer' = [peer EXCEPT ![s] = "gone"]
      /\ UNCHANGED <<backlog, request, slot, running, counter, pc, unheard, owner, state, conn>>
  BY DEF IInv, Close, table, controls
<1>1. TypeOK'
  BY <1>0 DEF TypeOK
<1>2. Open' = Open /\ Pending' = Pending
  BY <1>0 DEF Open, Pending
<1>3. \A t \in Socket : peer'[t] # "none" <=> peer[t] # "none"
  BY <1>0 DEF TypeOK
<1>4. Places' /\ OwnerThere' /\ Waiting'
  BY <1>0, <1>2, <1>3 DEF IInv, Places, OwnerThere, Waiting
<1> QED BY Zenon, <1>1, <1>4 DEF IInv

LEMMA AbortKeeps ==
    ASSUME IInv, NEW s \in Socket, Abort(s)
    PROVE  IInv'
<1>0. /\ TypeOK /\ peer[s] = "up" /\ peer' = [peer EXCEPT ![s] = "gone"]
      /\ request' = [request EXCEPT ![s] = NULL]
      /\ UNCHANGED <<backlog, slot, running, counter, pc, unheard, owner, state, conn>>
  BY DEF IInv, Abort, table, controls
<1>1. TypeOK'
  BY <1>0 DEF TypeOK
<1>2. Open' = Open /\ Pending' = Pending
  BY <1>0 DEF Open, Pending
<1>3. \A t \in Socket : peer'[t] # "none" <=> peer[t] # "none"
  BY <1>0 DEF TypeOK
<1>4. Places' /\ OwnerThere' /\ Waiting'
  BY <1>0, <1>2, <1>3 DEF IInv, Places, OwnerThere, Waiting
<1> QED BY Zenon, <1>1, <1>4 DEF IInv

-----------------------------------------------------------------------------
\* The server's turn.
LEMMA AcceptKeeps ==
    ASSUME IInv, Accept
    PROVE  IInv'
<1> DEFINE s == Head(backlog)
<1>0. /\ TypeOK /\ Places /\ backlog \in Seq(Socket) /\ backlog # << >> /\ ~Full /\ pc = 0
      /\ pc' = 1 /\ backlog' = Tail(backlog) /\ slot' = WithConnection(s)
      /\ running' = running \cup {s} /\ counter' = counter + 1
      /\ unheard' = Calling(running')
      /\ UNCHANGED <<peer, request, owner, state, conn>>
  BY DEF IInv, Accept, TypeOK, controls
<1>1. PICK i \in Slot : slot[i] = NULL /\ slot' = [slot EXCEPT ![i] = s]
  BY Zenon, <1>0, SlotForOneMore
<1>2. s \in Socket /\ s \in Pending /\ s = backlog[1] /\ s \notin Open /\ s # NULL
  BY <1>0, Constants DEF Pending, Places
<1>3. /\ backlog' \in Seq(Socket) /\ DOMAIN backlog' = 1 .. Len(backlog) - 1
      /\ Len(backlog) \in Nat /\ DOMAIN backlog = 1 .. Len(backlog)
      /\ \A k \in 1 .. Len(backlog) - 1 : backlog'[k] = backlog[k + 1]
  BY <1>0
<1>4. Pending' = Pending \ {s}
  <2>1. \A k \in DOMAIN backlog : k = 1 \/ k - 1 \in DOMAIN backlog'
    BY <1>3
  <2>2. \A k \in DOMAIN backlog' : backlog'[k] \in Pending /\ backlog'[k] # s
    BY <1>0, <1>2, <1>3 DEF Places, Pending
  <2>3. \A t \in Pending : t = s \/ t \in Pending'
    <3>1. SUFFICES ASSUME NEW k \in DOMAIN backlog, k # 1 PROVE backlog[k] \in Pending'
      BY <1>2 DEF Pending
    <3>2. k - 1 \in DOMAIN backlog' /\ backlog'[k - 1] = backlog[k]
      BY <1>3, <3>1
    <3> QED BY <3>2 DEF Pending
  <2> QED BY <2>2, <2>3 DEF Pending
<1> HIDE DEF s
<1>5. slot \in [Slot -> Socket \cup {NULL}]
  BY <1>0 DEF TypeOK
<1>6. Open' = Open \cup {s}
  BY <1>1, <1>2, <1>5 DEF Open
<1>7. counter' \in 0 .. MaxClients
  BY <1>0, Constants DEF Full, TypeOK
<1>8. TypeOK'
  <2>1. slot' \in [Slot -> Socket \cup {NULL}]
    BY <1>1, <1>2, <1>5
  <2>2. pc' \in 0 .. MaxClients + 1 /\ running' \subseteq Socket /\ unheard' \subseteq Socket
    BY <1>0, <1>2, Constants DEF TypeOK, Calling
  <2> QED BY Zenon, <1>0, <1>3, <1>7, <2>1, <2>2 DEF TypeOK
<1>9. Places'
  <2>1. counter' = Cardinality(Open')
    BY <1>0, <1>2, <1>6, OpenFinite, FS_AddElement DEF Places
  <2>2. \A k, l \in DOMAIN backlog' : backlog'[k] = backlog'[l] => k = l
    BY <1>0, <1>3 DEF Places
  <2>3. \A j, k \in Slot : slot'[j] = slot'[k] => j = k \/ slot'[j] = NULL
    <3>1. \A j \in Slot : slot[j] # s
      BY <1>2, <1>5 DEF Open
    <3> QED BY <1>0, <1>1, <1>5, <3>1 DEF Places
  <2>4. \A t \in Socket : peer'[t] # "none" <=> t \in Open' \cup Pending'
    BY <1>0, <1>2, <1>4, <1>6 DEF Places
  <2>5. Open' \cap Pending' = {} /\ running' \subseteq Open'
    BY <1>0, <1>4, <1>6 DEF Places
  <2> QED BY Zenon, <2>1, <2>2, <2>3, <2>4, <2>5 DEF Places
<1>10. OwnerThere'
  BY <1>0, <1>6 DEF IInv, OwnerThere
<1>11. Waiting'
  BY <1>0, Constants DEF IInv, Waiting, Slot
<1> QED BY Zenon, <1>8, <1>9, <1>10, <1>11 DEF IInv

LEMMA AcceptNoneKeeps ==
    ASSUME IInv, AcceptNone
    PROVE  IInv'
<1>0. /\ TypeOK /\ pc = 0 /\ pc' = 1 /\ unheard' = Calling(running)
      /\ UNCHANGED <<backlog, peer, request, slot, running, counter, owner, state, conn>>
  BY DEF IInv, AcceptNone, net, table, controls
<1>1. TypeOK'
  BY <1>0, Constants DEF TypeOK, Calling
<1>2. Open' = Open /\ Pending' = Pending
  BY <1>0 DEF Open, Pending
<1>3. Places' /\ OwnerThere'
  BY <1>0, <1>2 DEF IInv, Places, OwnerThere
<1>4. Waiting'
  BY <1>0 DEF IInv, Waiting, Slot
<1> QED BY Zenon, <1>1, <1>3, <1>4 DEF IInv

LEMMA HandleNoneKeeps ==
    ASSUME IInv, HandleNone
    PROVE  IInv'
<1>0. /\ TypeOK /\ pc \in Slot /\ pc' = pc + 1
      /\ UNCHANGED <<backlog, peer, request, slot, running, counter, unheard, owner, state, conn>>
  BY DEF IInv, HandleNone, net, table, controls
<1>1. TypeOK'
  BY <1>0, Constants DEF TypeOK, Slot
<1>2. Open' = Open /\ Pending' = Pending
  BY <1>0 DEF Open, Pending
<1>3. Places' /\ OwnerThere'
  BY <1>0, <1>2 DEF IInv, Places, OwnerThere
<1>4. Waiting'
  BY <1>0 DEF IInv, Waiting, Slot
<1> QED BY Zenon, <1>1, <1>3, <1>4 DEF IInv

\* Connections that were stopped are destroyed: their reports are deactivated, and a
\* control that waits is none of theirs.
LEMMA DestroyKeeps ==
    ASSUME IInv, NEW S, S \subseteq Open, S \cap running = {}, pc \in Slot, pc' = pc + 1,
           NEW T \in SUBSET Socket, request' = RequestsWithout(T),
           Finalize(S), backlog' = backlog
    PROVE  /\ slot' \in [Slot -> Socket \cup {NULL}] /\ pc' \in 0 .. MaxClients + 1
           /\ peer' \in [Socket -> {"none", "up", "gone"}]
           /\ request' \in [Socket -> Request \cup {NULL}]
           /\ counter' \in 0 .. MaxClients
           /\ backlog' \in Seq(Socket)
           /\ OwnerAfter(S) \in Open' \cup {NULL}
           /\ StateAfter(S) \in [Control -> {"ready", "wait", "operate"}]
           /\ Open' = Open \ S
           /\ running' \subseteq running => Places'
           /\ \A c \in Control : StateAfter(S)[c] = "wait" =>
                 \E i \in Slot : i < pc /\ slot'[i] = conn[c] /\ slot[i] = conn[c]
                                 /\ conn[c] \in running
<1>0. TypeOK /\ Places
  BY DEF IInv
<1>1. /\ slot' \in [Slot -> Socket \cup {NULL}]
      /\ peer' \in [Socket -> {"none", "up", "gone"}]
      /\ Open' = Open \ S /\ Pending' = Pending
      /\ \A i \in Slot : slot[i] \notin S => slot'[i] = slot[i]
      /\ \A s \in Socket : peer'[s] # "none" <=> s \in Open' \cup Pending'
      /\ Open' \cap Pending' = {}
      /\ \A i, j \in Slot : slot'[i] = slot'[j] => i = j \/ slot'[i] = NULL
      /\ counter' = Cardinality(Open') /\ counter' \in 0 .. MaxClients
  BY Zenon, <1>0, Finalized
<1>2. request' \in [Socket -> Request \cup {NULL}] /\ backlog' \in Seq(Socket)
      /\ pc' \in 0 .. MaxClients + 1
  BY <1>0, Constants DEF RequestsWithout, TypeOK, Slot
<1>3. OwnerAfter(S) \in Open' \cup {NULL}
  BY <1>1 DEF OwnerAfter, IInv, OwnerThere
<1>4. StateAfter(S) \in [Control -> {"ready", "wait", "operate"}]
  BY <1>0 DEF StateAfter, TypeOK
<1>5. ASSUME running' \subseteq running PROVE Places'
  <2>1. running' \subseteq Open'
    BY <1>0, <1>1, <1>5 DEF Places
  <2>2. \A k, l \in DOMAIN backlog' : backlog'[k] = backlog'[l] => k = l
    BY <1>0 DEF Places
  <2> QED BY Zenon, <1>1, <2>1, <2>2 DEF Places
<1>6. ASSUME NEW c \in Control, StateAfter(S)[c] = "wait"
      PROVE  \E i \in Slot : i < pc /\ slot'[i] = conn[c] /\ slot[i] = conn[c]
                             /\ conn[c] \in running
  <2>1. state[c] = "wait"
    BY <1>6 DEF StateAfter
  <2>2. PICK i \in Slot : i < pc /\ slot[i] = conn[c] /\ conn[c] \in running
    BY <2>1 DEF IInv, Waiting
  <2>3. slot[i] \notin S
    BY <2>2
  <2> QED BY Zenon, <1>1, <2>2, <2>3
<1> QED BY Zenon, <1>1, <1>2, <1>3, <1>4, <1>5, <1>6

LEMMA HandleStoppedKeeps ==
    ASSUME IInv, HandleStopped
    PROVE  IInv'
<1> DEFINE S == {slot[pc]}
<1>0. /\ TypeOK /\ pc \in Slot /\ slot[pc] # NULL /\ slot[pc] \notin running /\ pc' = pc + 1
      /\ Finalize(S) /\ request' = RequestsWithout(S)
      /\ owner' = OwnerAfter(S) /\ state' = StateAfter(S)
      /\ backlog' = backlog /\ running' = running /\ unheard' = unheard /\ conn' = conn
  BY DEF IInv, HandleStopped
<1>1. S \subseteq Open /\ S \cap running = {} /\ S \in SUBSET Socket
  BY <1>0 DEF Open, TypeOK
<1> HIDE DEF S
<1>2. /\ slot' \in [Slot -> Socket \cup {NULL}] /\ pc' \in 0 .. MaxClients + 1
      /\ peer' \in [Socket -> {"none", "up", "gone"}]
      /\ request' \in [Socket -> Request \cup {NULL}]
      /\ counter' \in 0 .. MaxClients
      /\ backlog' \in Seq(Socket)
      /\ owner' \in Open' \cup {NULL}
      /\ state' \in [Control -> {"ready", "wait", "operate"}]
      /\ Open' = Open \ S
      /\ Places'
      /\ \A c \in Control : state'[c] = "wait" =>
            \E i \in Slot : i < pc /\ slot'[i] = conn[c] /\ slot[i] = conn[c]
                            /\ conn[c] \in running
  BY Zenon, <1>0, <1>1, DestroyKeeps
<1>3. TypeOK'
  <2>1. Open' \subseteq Socket
    BY <1>0, <1>2, OpenFinite
  <2>2. owner' \in Socket \cup {NULL}
    BY <1>2, <2>1
  <2> QED BY Zenon, <1>0, <1>2, <2>2 DEF TypeOK
<1>4. Waiting'
  <2>1. \A i \in Slot : i < pc => i < pc'
    BY <1>0 DEF Slot
  <2> QED BY Zenon, <1>0, <1>2, <2>1 DEF Waiting
<1> QED BY Zenon, <1>2, <1>3, <1>4 DEF IInv, OwnerThere

LEMMA HandleIdleKeeps ==
    ASSUME IInv, HandleIdle
    PROVE  IInv'
<1> DEFINE S == Stopped
<1>0. /\ TypeOK /\ pc \in Slot /\ pc' = pc + 1
      /\ Finalize(S) /\ request' = RequestsWithout(S)
      /\ owner' = OwnerAfter(S) /\ state' = StateAfter(S)
      /\ backlog' = backlog /\ running' = running /\ unheard' = unheard /\ conn' = conn
  BY DEF IInv, HandleIdle
<1>1. S \subseteq Open /\ S \cap running = {} /\ S \in SUBSET Socket
  BY <1>0, OpenFinite DEF Stopped
<1> HIDE DEF S
<1>2. /\ slot' \in [Slot -> Socket \cup {NULL}] /\ pc' \in 0 .. MaxClients + 1
      /\ peer' \in [Socket -> {"none", "up", "gone"}]
      /\ request' \in [Socket -> Request \cup {NULL}]
      /\ counter' \in 0 .. MaxClients
      /\ backlog' \in Seq(Socket)
      /\ owner' \in Open' \cup {NULL}
      /\ state' \in [Control -> {"ready", "wait", "operate"}]
      /\ Open' = Open \ S
      /\ Places'
      /\ \A c \in Control : state'[c] = "wait" =>
            \E i \in Slot : i < pc /\ slot'[i] = conn[c] /\ slot[i] = conn[c]
                            /\ conn[c] \in running
  BY Zenon, <1>0, <1>1, DestroyKeeps
<1>3. TypeOK'
  <2>1. Open' \subseteq Socket
    BY <1>0, <1>2, OpenFinite
  <2>2. owner' \in Socket \cup {NULL}
    BY <1>2, <2>1
  <2> QED BY Zenon, <1>0, <1>2, <2>2 DEF TypeOK
<1>4. Waiting'
  <2>1. \A i \in Slot : i < pc => i < pc'
    BY <1>0 DEF Slot
  <2> QED BY Zenon, <1>0, <1>2, <2>1 DEF Waiting
<1> QED BY Zenon, <1>2, <1>3, <1>4 DEF IInv, OwnerThere

LEMMA HandleRequestKeeps ==
    ASSUME IInv, HandleRequest
    PROVE  IInv'
<1> DEFINE S == Stopped  s == slot[pc]  r == request[s]  ops == Operates(r)
<1>0. /\ TypeOK /\ Places /\ pc \in Slot /\ s \in running /\ pc' = pc + 1
      /\ Finalize(S) /\ request' = RequestsWithout(S \cup {s})
      /\ running' = IF r = Finish THEN running \ {s} ELSE running
      /\ owner' = OwnerBy(s, r)
      /\ state' = [c \in Control |-> IF c \in ops THEN "wait" ELSE StateAfter(S)[c]]
      /\ conn' = [c \in Control |-> IF c \in ops THEN s ELSE conn[c]]
      /\ backlog' = backlog /\ unheard' = unheard \ {s}
  BY DEF IInv, HandleRequest
<1>1. /\ S \subseteq Open /\ S \cap running = {} /\ s \in Socket /\ s \in Open
      /\ S \cup {s} \in SUBSET Socket
  BY <1>0, OpenFinite DEF Stopped, Places
<1>2. OwnerBy(s, r) \in {s, NULL, OwnerAfter(S)}
  BY DEF OwnerBy
<1>3. \A c \in ops : r = Oper(c)
  BY DEF Operates
<1>4. \A c \in Control : r = Oper(c) => r # Finish
  BY DEF Oper, Finish
<1> HIDE DEF S, s, r, ops
<1>5. /\ slot' \in [Slot -> Socket \cup {NULL}] /\ pc' \in 0 .. MaxClients + 1
      /\ peer' \in [Socket -> {"none", "up", "gone"}]
      /\ request' \in [Socket -> Request \cup {NULL}]
      /\ counter' \in 0 .. MaxClients
      /\ backlog' \in Seq(Socket)
      /\ OwnerAfter(S) \in Open' \cup {NULL}
      /\ StateAfter(S) \in [Control -> {"ready", "wait", "operate"}]
      /\ Open' = Open \ S
      /\ running' \subseteq running => Places'
      /\ \A c \in Control : StateAfter(S)[c] = "wait" =>
            \E i \in Slot : i < pc /\ slot'[i] = conn[c] /\ slot[i] = conn[c]
                            /\ conn[c] \in running
  BY Zenon, <1>0, <1>1, DestroyKeeps
<1>6. running' \subseteq running
  BY <1>0
<1>7. s \in Open' /\ slot'[pc] = s
  <2>1. s \in Open' /\ s \notin S
    BY <1>0, <1>1, <1>5
  <2>2. \A i \in Slot : slot[i] \notin S => slot'[i] = slot[i]
    BY Zenon, <1>0, <1>1, Finalized
  <2> QED BY Zenon, <1>0, <2>1, <2>2 DEF s
<1>8. OwnerThere' /\ owner' \in Socket \cup {NULL}
  <2>1. Open' \subseteq Socket
    BY <1>0, <1>5, OpenFinite
  <2> QED BY <1>0, <1>2, <1>5, <1>7, <2>1 DEF OwnerThere
<1>9. TypeOK'
  <2>1. running' \subseteq Socket
    BY <1>0, <1>6 DEF TypeOK
  <2>2. state' \in [Control -> {"ready", "wait", "operate"}]
    BY <1>0, <1>5
  <2>3. conn' \in [Control -> Socket \cup {NULL}]
    BY <1>0, <1>1 DEF TypeOK
  <2> QED BY Zenon, <1>0, <1>5, <1>8, <2>1, <2>2, <2>3 DEF TypeOK
<1>10. Waiting'
  <2>1. SUFFICES ASSUME NEW c \in Control, state'[c] = "wait"
                 PROVE  \E i \in Slot : i < pc' /\ slot'[i] = conn'[c] /\ conn'[c] \in running'
    BY Zenon DEF Waiting
  <2>2. CASE c \in ops
    <3>1. conn'[c] = s /\ running' = running
      BY <1>0, <1>3, <1>4, <2>2
    <3>2. pc < pc'
      BY <1>0 DEF Slot
    <3> QED BY Zenon, <1>0, <1>7, <3>1, <3>2
  <2>3. CASE c \notin ops
    <3>1. conn'[c] = conn[c] /\ StateAfter(S)[c] = "wait"
      BY <1>0, <2>1, <2>3
    <3>2. PICK i \in Slot : /\ i < pc /\ slot'[i] = conn[c] /\ slot[i] = conn[c]
                            /\ conn[c] \in running
      BY Zenon, <1>5, <3>1
    <3>3. i < pc' /\ i # pc
      BY <1>0, <3>2 DEF Slot
    <3>4. conn[c] # s
      <4>1. conn[c] # NULL
        BY <1>0, <3>2, Constants DEF TypeOK
      <4> QED BY Zenon, <1>0, <3>2, <3>3, <4>1 DEF Places, s
    <3>5. conn[c] \in running'
      BY <1>0, <3>2, <3>4
    <3> QED BY Zenon, <3>1, <3>2, <3>3, <3>5
  <2> QED BY Zenon, <2>2, <2>3
<1> QED BY Zenon, <1>5, <1>6, <1>8, <1>9, <1>10 DEF IInv

LEMMA HandleEndKeeps ==
    ASSUME IInv, HandleEnd
    PROVE  IInv'
<1> DEFINE S == Stopped  s == slot[pc]
<1>0. /\ TypeOK /\ Places /\ pc \in Slot /\ s \in running /\ pc' = pc + 1
      /\ Finalize(S) /\ request' = RequestsWithout(S)
      /\ running' = running \ {s} /\ owner' = OwnerAfter(S) /\ state' = StateAfter(S)
      /\ backlog' = backlog /\ unheard' = unheard \ {s} /\ conn' = conn
  BY DEF IInv, HandleEnd
<1>1. S \subseteq Open /\ S \cap running = {} /\ S \in SUBSET Socket
  BY <1>0, OpenFinite DEF Stopped
<1> HIDE DEF S, s
<1>2. /\ slot' \in [Slot -> Socket \cup {NULL}] /\ pc' \in 0 .. MaxClients + 1
      /\ peer' \in [Socket -> {"none", "up", "gone"}]
      /\ request' \in [Socket -> Request \cup {NULL}]
      /\ counter' \in 0 .. MaxClients
      /\ backlog' \in Seq(Socket)
      /\ owner' \in Open' \cup {NULL}
      /\ state' \in [Control -> {"ready", "wait", "operate"}]
      /\ Open' = Open \ S
      /\ running' \subseteq running => Places'
      /\ \A c \in Control : state'[c] = "wait" =>
            \E i \in Slot : i < pc /\ slot'[i] = conn[c] /\ slot[i] = conn[c]
                            /\ conn[c] \in running
  BY Zenon, <1>0, <1>1, DestroyKeeps
<1>3. running' \subseteq running
  BY <1>0
<1>4. TypeOK'
  <2>1. Open' \subseteq Socket
    BY <1>0, <1>2, OpenFinite
  <2>2. owner' \in Socket \cup {NULL} /\ running' \subseteq Socket
    BY <1>0, <1>2, <2>1 DEF TypeOK
  <2> QED BY Zenon, <1>0, <1>2, <2>2 DEF TypeOK
<1>5. Waiting'
  <2>1. SUFFICES ASSUME NEW c \in Control, state'[c] = "wait"
                 PROVE  \E i \in Slot : i < pc' /\ slot'[i] = conn[c] /\ conn[c] \in running'
    BY Zenon, <1>0 DEF Waiting
  <2>2. PICK i \in Slot : /\ i < pc /\ slot'[i] = conn[c] /\ slot[i] = conn[c]
                          /\ conn[c] \in running
    BY Zenon, <1>2, <2>1
  <2>3. i < pc' /\ i # pc
    BY <1>0, <2>2 DEF Slot
  <2>4. conn[c] # NULL
    BY <1>0, <2>2, Constants DEF TypeOK
  <2>5. conn[c] # s
    BY Zenon, <1>0, <2>2, <2>3, <2>4 DEF Places, s
  <2>6. conn[c] \in running'
    BY <1>0, <2>2, <2>5
  <2> QED BY Zenon, <2>2, <2>3, <2>6
<1> QED BY Zenon, <1>2, <1>3, <1>4, <1>5 DEF IInv, OwnerThere

LEMMA PeriodicKeeps ==
    ASSUME IInv, Periodic
    PROVE  IInv'
<1>0. /\ TypeOK /\ pc' = 0 /\ state' \in [Control -> {"ready", "operate"}]
      /\ UNCHANGED <<backlog, peer, request, slot, running, counter, unheard, owner, conn>>
  BY DEF IInv, Periodic, CarryOut, net, table
<1>1. TypeOK'
  <2>1. state' \in [Control -> {"ready", "wait", "operate"}] /\ pc' \in 0 .. MaxClients + 1
    BY <1>0, Constants
  <2> QED BY <1>0, <2>1 DEF TypeOK
<1>2. Open' = Open /\ Pending' = Pending
  BY <1>0 DEF Open, Pending
<1>3. Places' /\ OwnerThere'
  BY <1>0, <1>2 DEF IInv, Places, OwnerThere
<1>4. Waiting'
  BY <1>0 DEF Waiting
<1> QED BY Zenon, <1>1, <1>3, <1>4 DEF IInv

LEMMA StutterKeeps ==
    ASSUME IInv, UNCHANGED vars
    PROVE  IInv'
<1>0. UNCHANGED <<backlog, peer, request, slot, running, counter, pc, unheard, owner, state, conn>>
  BY DEF vars, net, table, controls
<1>1. Open' = Open /\ Pending' = Pending
  BY <1>0 DEF Open, Pending
<1> QED BY <1>0, <1>1 DEF IInv, TypeOK, Places, OwnerThere, Waiting

LEMMA StepKeeps ==
    ASSUME IInv, [Next]_vars
    PROVE  IInv'
<1>1. CASE Next
  <2>1. CASE ServerTask
    <3>1. AcceptTooMany => Reset
      BY Zenon DEF AcceptTooMany
    <3> QED BY Zenon, <2>1, <3>1, AcceptKeeps, AcceptNoneKeeps, ResetEstablishes,
               HandleNoneKeeps, HandleStoppedKeeps, HandleIdleKeeps, HandleRequestKeeps,
               HandleEndKeeps, PeriodicKeeps DEF ServerTask, HandleSlot
  <2>2. CASE Clients
    BY Zenon, <2>2, ConnectKeeps, AskKeeps, CloseKeeps, AbortKeeps DEF Clients
  <2> QED BY Zenon, <1>1, <2>1, <2>2 DEF Next
<1> QED BY Zenon, <1>1, StutterKeeps

LEMMA Invariance == Spec => []IInv
BY PTL, InitEstablishes, StepKeeps DEF Spec

-----------------------------------------------------------------------------
\* Every variable of the server stays in its type; the counter never passes the number
\* of slots.
THEOREM TypeCorrect == Spec => []TypeOK
<1>1. IInv => TypeOK
  BY Zenon DEF IInv
<1> QED BY PTL, <1>1, Invariance

\* connectionCounter is the number of connections in openClientConnections, which
\* addClientConnection and finalizeIsoConnection change in different places.
THEOREM CounterAgrees == Spec => []CountersAgree
<1>1. ASSUME IInv PROVE CountersAgree
  <2> DEFINE U == {i \in Slot : slot[i] # NULL}  f == [i \in U |-> slot[i]]
  <2>1. TypeOK /\ Places
    BY <1>1 DEF IInv
  <2>2. f \in Bijection(U, Open)
    <3>1. f \in [U -> Open]
      BY DEF Open
    <3>2. \A i, j \in U : f[i] = f[j] => i = j
      BY <2>1 DEF Places
    <3>3. \A s \in Open : \E i \in U : f[i] = s
      BY DEF Open
    <3> QED BY <3>1, <3>2, <3>3 DEF Bijection, Injection, Surjection, IsInjective
  <2>3. IsFiniteSet(U)
    <3>1. IsFiniteSet(1 .. MaxClients)
      BY Constants, FS_Interval
    <3> QED BY <3>1, FS_Subset DEF Slot
  <2>4. Cardinality(Open) = Cardinality(U)
    <3>1. ExistsBijection(U, Open)
      BY Zenon, <2>2 DEF ExistsBijection
    <3> HIDE DEF U
    <3> QED BY Zenon, <2>3, <3>1, FS_Bijection
  <2> QED BY <2>1, <2>4 DEF CountersAgree, Places
<1> QED BY PTL, <1>1, Invariance

\* The report control block and the commands that wait refer to connections that
\* exist, whatever order the clients come, ask and go in.
THEOREM OwnerStaysOpen == Spec => []OwnerIsOpen
<1>1. ASSUME IInv PROVE OwnerIsOpen
  <2>1. TypeOK /\ Places /\ OwnerThere /\ Waiting
    BY <1>1 DEF IInv
  <2>2. \A c \in Control : state[c] = "wait" => conn[c] \in Open
    BY <2>1 DEF Waiting, Places
  <2> QED BY <2>1, <2>2 DEF OwnerIsOpen, OwnerThere
<1> QED BY PTL, <1>1, Invariance

\* A connection is stopped only because its client left or asked for it, or because
\* another connection has arrived (IsoConnection_handleTcpConnection, AcceptTooMany).
THEOREM StoppedForAReason == Spec => ClosedForAReason
<1> DEFINE Reason == \A s \in running \ running' :
                peer[s] = "gone" \/ request[s] = Finish \/ backlog # << >>
<1>1. ASSUME [Next]_vars PROVE [Reason]_vars
  <2>1. SUFFICES ASSUME Next, NEW s \in running, s \notin running'
                 PROVE  peer[s] = "gone" \/ request[s] = Finish \/ backlog # << >>
    BY Zenon, <1>1
  <2>2. CASE AcceptTooMany
    BY <2>2 DEF AcceptTooMany
  <2>3. CASE HandleRequest
    BY <2>1, <2>3 DEF HandleRequest
  <2>4. CASE HandleEnd
    BY <2>1, <2>4 DEF HandleEnd, HasNothing, Ready
  <2>5. CASE Accept \/ AcceptNone \/ HandleNone \/ HandleStopped \/ HandleIdle \/ Periodic
             \/ Clients
    BY <2>1, <2>5 DEF Accept, AcceptNone, HandleNone, HandleStopped, HandleIdle, Periodic,
                      Clients, Connect, Ask, Close, Abort, table
  <2> QED BY Zenon, <2>1, <2>2, <2>3, <2>4, <2>5 DEF Next, ServerTask, HandleSlot
<1> QED BY PTL, <1>1 DEF Spec, ClosedForAReason

\* A request that waits in a connection that was not stopped is read when it is that
\* connection's turn: what is destroyed in the walk over the slots takes no other
\* client's request with it, and a client that has gone is not dropped before its last
\* request was read (handleClientConnections, IsoServer_OnewaitReady).
THEOREM RequestStays == Spec => RequestKept
<1> DEFINE Excused(s) == Read(s) \/ Abort(s) \/ AcceptTooMany
           Kept == \A s \in Socket : Waits(s) /\ ~Waits(s)' => Excused(s)
<1>1. ASSUME IInv, [Next]_vars PROVE [Kept]_vars
  <2>1. SUFFICES ASSUME Next, NEW s \in Socket, Waits(s), ~Excused(s)
                 PROVE  Waits(s)'
    BY Zenon, <1>1
  <2>2. /\ TypeOK /\ Places /\ request[s] # NULL /\ s \in running \cup Pending
        /\ ~Read(s) /\ ~Abort(s) /\ ~AcceptTooMany /\ s # NULL
    BY <1>1, <2>1, Constants DEF IInv, Waits
  <2>3. SUFFICES request'[s] # NULL /\ s \in running' \cup Pending'
    BY Zenon DEF Waits
  <2>4. s \notin Stopped
    BY <2>2 DEF Places, Stopped
  <2>5. CASE Accept
    <3>1. /\ backlog \in Seq(Socket) /\ backlog # << >> /\ backlog' = Tail(backlog)
          /\ running' = running \cup {Head(backlog)} /\ request' = request
      BY <2>2, <2>5 DEF Accept, TypeOK
    <3>2. \A k \in DOMAIN backlog : k = 1 \/ (k - 1 \in DOMAIN backlog'
                                              /\ backlog'[k - 1] = backlog[k])
      BY <3>1
    <3>3. s \in Pending => s = Head(backlog) \/ s \in Pending'
      <4>1. SUFFICES ASSUME NEW k \in DOMAIN backlog, s = backlog[k]
                     PROVE  s = Head(backlog) \/ s \in Pending'
        BY Zenon DEF Pending
      <4>2. CASE k = 1
        BY <3>1, <4>1, <4>2
      <4>3. CASE k # 1
        BY Zenon, <3>2, <4>1, <4>3 DEF Pending
      <4> QED BY Zenon, <4>2, <4>3
    <3> QED BY <2>2, <3>1, <3>3
  <2>6. CASE HandleStopped \/ HandleIdle
    <3>1. PICK S \in SUBSET Socket : /\ S \subseteq Open /\ S \cap running = {}
                                     /\ request' = RequestsWithout(S)
      <4>1. Open \subseteq Socket
        BY <2>2, OpenFinite
      <4>2. CASE HandleStopped
        BY <4>1, <4>2 DEF HandleStopped, Open
      <4>3. CASE HandleIdle
        BY <4>1, <4>3 DEF HandleIdle, Stopped
      <4> QED BY Zenon, <2>6, <4>2, <4>3
    <3>2. s \notin S
      BY <2>2, <3>1 DEF Places
    <3>3. Pending' = Pending /\ running' = running
      BY <2>6 DEF HandleStopped, HandleIdle, Pending
    <3> QED BY <2>2, <3>1, <3>2, <3>3 DEF RequestsWithout
  <2>7. CASE HandleRequest
    <3>1. /\ pc \in Slot /\ request' = RequestsWithout(Stopped \cup {slot[pc]})
          /\ running \ {slot[pc]} \subseteq running' /\ Pending' = Pending
      BY <2>7 DEF HandleRequest, Pending
    <3>2. s # slot[pc]
      BY <2>2, <3>1 DEF Read, RequestsWithout
    <3> QED BY <2>2, <2>4, <3>1, <3>2 DEF RequestsWithout
  <2>8. CASE HandleEnd
    <3>1. /\ request' = RequestsWithout(Stopped) /\ request[slot[pc]] = NULL
          /\ running' = running \ {slot[pc]} /\ Pending' = Pending
      BY <2>8 DEF HandleEnd, HasNothing, Pending
    <3> QED BY <2>2, <2>4, <3>1 DEF RequestsWithout
  <2>9. CASE AcceptNone \/ HandleNone \/ Periodic
    BY <2>2, <2>9 DEF AcceptNone, HandleNone, Periodic, net, table, Pending
  <2>10. CASE Clients
    <3>1. PICK t \in Socket : Connect(t) \/ Close(t) \/ Abort(t)
                              \/ \E r \in Request : Ask(t, r)
      BY Zenon, <2>10 DEF Clients
    <3>2. CASE Connect(t)
      <4>1. backlog \in Seq(Socket) /\ backlog' = Append(backlog, t)
        BY <2>2, <3>2 DEF Connect, TypeOK
      <4>2. Pending \subseteq Pending'
        BY <4>1 DEF Pending
      <4> QED BY <2>2, <3>2, <4>2 DEF Connect, table
    <3>3. CASE Close(t)
      BY <2>2, <3>3 DEF Close, table, Pending
    <3>4. CASE Abort(t)
      BY <2>2, <3>4 DEF Abort, table, Pending, TypeOK
    <3>5. ASSUME NEW r \in Request, Ask(t, r)
          PROVE  request'[s] # NULL /\ s \in running' \cup Pending'
      BY <2>2, <3>5 DEF Ask, table, Pending, TypeOK
    <3> QED BY Zenon, <3>1, <3>2, <3>3, <3>4, <3>5
  <2> QED BY Zenon, <2>1, <2>2, <2>5, <2>6, <2>7, <2>8, <2>9, <2>10
             DEF Next, ServerTask, HandleSlot
<1> QED BY PTL, <1>1, Invariance DEF Spec, RequestKept

-----------------------------------------------------------------------------
\* A connection that is still to be looked at in this turn has a slot the turn has not
\* come to, is not stopped, and has something for the server.
Expected ==
    \A s \in unheard :
        /\ s \in running /\ (request[s] # NULL \/ peer[s] = "gone")
        /\ \E i \in Slot : i >= pc /\ slot[i] = s

LEMMA ExpectedKept ==
    ASSUME IInv, Expected, [Next]_vars
    PROVE  Expected'
<1>1. /\ TypeOK /\ Places /\ NULL \notin Socket
      /\ \A s \in Socket : s \in running => s \notin Stopped
  BY Constants DEF IInv, Stopped
<1>2. SUFFICES ASSUME NEW s \in unheard'
               PROVE  /\ s \in running' /\ (request'[s] # NULL \/ peer'[s] = "gone")
                      /\ \E i \in Slot : i >= pc' /\ slot'[i] = s
  BY Zenon DEF Expected
<1> DEFINE Called == s \in running /\ (request[s] # NULL \/ peer[s] = "gone")
           At(i)  == i >= pc /\ slot[i] = s
\* The beginning of a turn.
<1>3. CASE Accept
  <2>1. /\ s \in running' /\ (request[s] # NULL \/ peer[s] = "gone")
        /\ pc' = 1 /\ request' = request /\ peer' = peer
    BY <1>3 DEF Accept, Calling
  <2>2. IInv'
    BY Zenon, <1>3, AcceptKeeps
  <2>3. PICK i \in Slot : slot'[i] = s
    BY <2>1, <2>2 DEF IInv, Places, Open
  <2> QED BY <2>1, <2>3 DEF Slot
<1>4. CASE AcceptNone
  <2>1. /\ Called /\ pc' = 1
        /\ request' = request /\ peer' = peer /\ running' = running /\ slot' = slot
    BY <1>4 DEF AcceptNone, Calling, net, table
  <2>2. PICK i \in Slot : slot[i] = s
    BY <1>1, <2>1 DEF Places, Open
  <2> QED BY <2>1, <2>2 DEF Slot
<1>5. CASE AcceptTooMany
  BY <1>5 DEF AcceptTooMany, Reset
\* The walk over the slots.
<1>6. CASE HandleSlot
  <2>1. /\ s \in unheard /\ pc \in Slot /\ pc' = pc + 1
    BY <1>6 DEF HandleSlot, HandleNone, HandleStopped, HandleIdle, HandleRequest, HandleEnd
  <2>2. s \in Socket /\ Called
    BY <1>1, <2>1 DEF Expected, TypeOK
  <2>3. PICK i \in Slot : At(i)
    BY <2>1 DEF Expected
  <2>4. slot[pc] # s
    BY <1>1, <1>2, <1>6, <2>2 DEF HandleSlot, HandleNone, HandleStopped, HandleIdle,
                                  HandleRequest, HandleEnd, Ready
  <2>5. i >= pc'
    BY <2>1, <2>3, <2>4 DEF Slot
  <2>6. CASE HandleNone
    BY <2>2, <2>3, <2>5, <2>6 DEF HandleNone, net, table
  <2>7. CASE HandleStopped
    <3>1. Finalize({slot[pc]}) /\ request' = RequestsWithout({slot[pc]}) /\ running' = running
      BY <2>7 DEF HandleStopped
    <3> QED BY <1>1, <2>2, <2>3, <2>4, <2>5, <3>1 DEF Finalize, RequestsWithout, TypeOK
  <2>8. CASE HandleIdle \/ HandleEnd
    <3>1. Finalize(Stopped) /\ request' = RequestsWithout(Stopped) /\ s \in running'
      BY <2>2, <2>4, <2>8 DEF HandleIdle, HandleEnd
    <3> QED BY <1>1, <2>2, <2>3, <2>5, <3>1 DEF Finalize, RequestsWithout, TypeOK
  <2>9. CASE HandleRequest
    <3>1. Finalize(Stopped) /\ request' = RequestsWithout(Stopped \cup {slot[pc]})
          /\ s \in running'
      BY <2>2, <2>4, <2>9 DEF HandleRequest
    <3> QED BY <1>1, <2>2, <2>3, <2>4, <2>5, <3>1 DEF Finalize, RequestsWithout, TypeOK
  <2> QED BY Zenon, <1>6, <2>6, <2>7, <2>8, <2>9 DEF HandleSlot
<1>7. CASE Periodic
  <2>1. s \in unheard /\ pc' = 0 /\ UNCHANGED <<running, request, peer, slot>>
    BY <1>7 DEF Periodic, net, table
  <2>2. Called /\ \E i \in Slot : slot[i] = s
    BY <2>1 DEF Expected
  <2> QED BY <2>1, <2>2 DEF Slot
\* The clients: one that is gone stays so until its connection is destroyed.
<1>8. CASE Clients
  <2>1. PICK t \in Socket : Connect(t) \/ Close(t) \/ Abort(t)
                            \/ \E r \in Request : Ask(t, r)
    BY Zenon, <1>8 DEF Clients
  <2>2. s \in unheard /\ UNCHANGED <<pc, running, slot>>
    BY <2>1 DEF Connect, Close, Abort, Ask, table
  <2>3. s \in Socket /\ Called /\ \E i \in Slot : At(i)
    BY <1>1, <2>2 DEF Expected, TypeOK
  <2>4. peer[s] # "none"
    BY <1>1, <2>3 DEF Places
  <2>5. request'[s] # NULL \/ peer'[s] = "gone"
    <3>1. CASE Connect(t) \/ Close(t) \/ Abort(t)
      BY <1>1, <2>3, <2>4, <3>1 DEF Connect, Close, Abort, TypeOK
    <3>2. ASSUME NEW r \in Request, Ask(t, r) PROVE request'[s] # NULL \/ peer'[s] = "gone"
      BY <1>1, <2>3, <3>2 DEF Ask, TypeOK
    <3> QED BY Zenon, <2>1, <3>1, <3>2
  <2> QED BY Zenon, <2>2, <2>3, <2>5
<1>9. CASE UNCHANGED vars
  BY <1>9 DEF Expected, vars, net, table
<1> QED BY Zenon, <1>3, <1>4, <1>5, <1>6, <1>7, <1>8, <1>9 DEF Next, ServerTask

\* Who has a message when a turn begins, or has left, is looked at in that turn: no slot
\* is passed over, and what is destroyed on the way moves and frees no other connection
\* (handleClientConnections, IsoServer_OnewaitReady).
THEOREM AllAreHeard == Spec => []HeardInTurn
<1>1. Init => Expected
  BY DEF Init, Expected
<1>2. IInv /\ Expected => HeardInTurn
  BY Constants DEF Expected, HeardInTurn, Slot
<1> QED BY PTL, <1>1, <1>2, Invariance, ExpectedKept DEF Spec
=============================================================================
