------------------------ MODULE ReportControl_proofs -------------------------
(***************************************************************************)
(* Proofs about the report control block for any entries of the data set   *)
(* and any number of changes, clients and general interrogations.          *)
(***************************************************************************)
EXTENDS ReportControl, TLAPS

\* Where the poll task has not set the flag of the entry yet.
Early == {"check", "process", "send", "sending", "flag"}

\* Pending changes are triggered, but for the one that is being noted; the poll task
\* makes them due before it processes them, and has done so before it sets the flag.
Pends ==
    /\ flagged # {} /\ pc \notin {"copy", "arm"} => triggered
    /\ pc = "process" => due
    /\ pc \in {"send", "sending", "flag"} => elem \notin flagged

\* A task that sends has the report at nextToTransmit, and is the only one.
Sends ==
    /\ pc = "sending" <=> at["poll"] # 0
    /\ clash \/ \A t \in Task : at[t] # 0 =>
                    at[t] = next /\ next <= Len(queue) /\ next \in gone /\ at[Other(t)] = 0
    /\ NothingSkipped

\* The reports of a queue with an entry have a last one.
With(q, e)    == {i \in DOMAIN q : e \in DOMAIN q[i]}
HasLast(q, e) == With(q, e) = {} \/ \E i \in With(q, e) : \A k \in With(q, e) : k <= i

\* What an entry that is flagged has in the shadow is its value, except while the poll
\* task has changed one and not the other.
Copied ==
    \A e \in flagged : copy[e] = value[e] \/ (e = elem /\ pc \in {"check", "process", "copy"})

\* ChangeKept, with what it leaves open of the entry that is being noted.
Kept(e) ==
    \/ Reported(queue, e) = value[e]
    \/ e \in flagged /\ triggered /\ copy[e] = value[e]
    \/ e = elem /\ (pc \in Early \/ (pc \in {"copy", "arm"} /\ e \in flagged))

Noted == \A e \in Element : HasLast(queue, e) /\ (e \in lost \/ Kept(e))

\* The bound on the changes is one on the values.
Counted == \A e \in Element : value[e] <= changes

IInv == TypeOK /\ Pends /\ Sends /\ Copied /\ Noted /\ Counted

-----------------------------------------------------------------------------
LEMMA AppendTyped ==
    ASSUME NEW q \in Seq(Report), NEW r \in Report
    PROVE  Append(q, r) \in Seq(Report)
OBVIOUS

\* The last report with an entry, when one more is enqueued.
LEMMA LastWithAppend ==
    ASSUME NEW q \in Seq(Report), NEW r \in Report, NEW e \in Element, HasLast(q, e)
    PROVE  /\ HasLast(Append(q, r), e)
           /\ Reported(Append(q, r), e) = IF e \in DOMAIN r THEN r[e] ELSE Reported(q, e)
<1> DEFINE p == Append(q, r)
<1>0. /\ Len(q) \in Nat /\ DOMAIN q = 1 .. Len(q) /\ DOMAIN p = 1 .. Len(q) + 1
      /\ p[Len(q) + 1] = r /\ \A i \in 1 .. Len(q) : p[i] = q[i]
  OBVIOUS
<1> HIDE DEF p
<1>1. CASE e \in DOMAIN r
  <2>1. Len(q) + 1 \in With(p, e) /\ \A k \in With(p, e) : k \in Int /\ k <= Len(q) + 1
    BY <1>0, <1>1 DEF With
  <2>2. LastWith(p, e) = Len(q) + 1
    BY <2>1, <1>0 DEF LastWith, With
  <2> QED BY <2>1, <2>2, <1>0, <1>1 DEF HasLast, Reported, p
<1>2. CASE e \notin DOMAIN r
  <2>1. With(p, e) = With(q, e)
    BY <1>0, <1>2 DEF With
  <2>2. LastWith(p, e) = LastWith(q, e)
    <3>1. \A x : LastWith(x, e) = IF With(x, e) = {} THEN 0
                  ELSE CHOOSE i \in With(x, e) : \A k \in With(x, e) : k <= i
      BY Zenon DEF LastWith, With
    <3> QED BY Zenon, <2>1, <3>1
  <2>3. CASE With(q, e) = {}
    BY <2>1, <2>2, <2>3, <1>2 DEF HasLast, Reported, LastWith, With, p
  <2>4. CASE With(q, e) # {}
    <3>1. LastWith(q, e) \in With(q, e)
      BY <2>4 DEF HasLast, LastWith, With
    <3>2. LastWith(q, e) \in 1 .. Len(q)
      BY <3>1, <1>0 DEF With
    <3>3. p[LastWith(q, e)] = q[LastWith(q, e)]
      BY <3>2, <1>0
    <3> QED BY <2>1, <2>2, <3>2, <3>3, <1>2 DEF HasLast, Reported, p
  <2> QED BY Zenon, <2>3, <2>4
<1> QED BY Zenon, <1>1, <1>2

LEMMA ReportsTyped ==
    ASSUME TypeOK
    PROVE  /\ Changes \in Report /\ DOMAIN Changes = flagged
           /\ \A e \in flagged : Changes[e] = copy[e]
           /\ value \in Report /\ DOMAIN value = Element
<1>1. Changes \in [flagged -> Value \cup {Null}] /\ flagged \in SUBSET Element
  BY DEF TypeOK, Changes
<1>2. value \in [Element -> Value \cup {Null}]
  BY DEF TypeOK
<1>3. Changes \in Report /\ value \in Report
  BY Zenon, <1>1, <1>2 DEF Report
<1> QED BY <1>3, <1>2 DEF Changes

\* What processEventsForReport enqueues.
LEMMA Enqueues ==
    ASSUME TypeOK, NEW q, q = queue \o EventReports
    PROVE  \/ EventReports = << >> /\ q = queue
           \/ EventReports # << >> /\ triggered /\ q = Append(queue, Changes)
           \/ EventReports # << >> /\ q = Append(queue, value)
           \/ /\ EventReports # << >> /\ triggered
              /\ q = Append(Append(queue, Changes), value)
<1>0. queue \in Seq(Report) /\ Changes \in Report /\ value \in Report
  BY ReportsTyped DEF TypeOK
<1> DEFINE c == Changes
<1>1. CASE triggered /\ (gi \/ due) /\ gi
  <2>1. EventReports = <<c>> \o <<value>>
    BY <1>1 DEF EventReports
  <2> HIDE DEF c
  <2>2. EventReports # << >> /\ q = Append(Append(queue, c), value)
    BY <2>1, <1>0 DEF c
  <2> QED BY Zenon, <2>2, <1>1 DEF c
<1>2. CASE triggered /\ (gi \/ due) /\ ~gi
  <2>1. EventReports = <<c>> \o << >>
    BY <1>2 DEF EventReports
  <2> HIDE DEF c
  <2>2. EventReports # << >> /\ q = Append(queue, c)
    BY <2>1, <1>0 DEF c
  <2> QED BY Zenon, <2>2, <1>2 DEF c
<1>3. CASE ~(triggered /\ (gi \/ due)) /\ gi
  <2>1. EventReports = << >> \o <<value>>
    BY <1>3 DEF EventReports
  <2>2. EventReports # << >> /\ q = Append(queue, value)
    BY <2>1, <1>0
  <2> QED BY Zenon, <2>2
<1>4. CASE ~(triggered /\ (gi \/ due)) /\ ~gi
  <2>1. EventReports = << >> \o << >>
    BY <1>4 DEF EventReports
  <2> QED BY <2>1, <1>0
<1> QED BY Zenon, <1>1, <1>2, <1>3, <1>4

\* After it, every entry is kept as it was before, with the flags as they are now.
LEMMA Processing ==
    ASSUME IInv, ProcessEvents(EventReports)
    PROVE  /\ queue' \in Seq(Report) /\ Len(queue') \in Nat /\ Len(queue') >= Len(queue)
           /\ flagged' \subseteq flagged /\ lost' \subseteq Element
           /\ triggered' \in BOOLEAN /\ gi' = FALSE
           /\ flagged' # {} => triggered' = triggered
           /\ triggered /\ due => flagged' = {}
           /\ \A e \in Element : HasLast(queue', e) /\
                (\/ e \in lost' \/ Reported(queue', e) = value[e]
                 \/ e \in flagged' /\ triggered' /\ copy[e] = value[e]
                 \/ e = elem /\ (pc \in Early \/ (pc \in {"copy", "arm"} /\ e \in flagged')))
<1>0. /\ TypeOK /\ queue \in Seq(Report) /\ lost \subseteq Element /\ triggered \in BOOLEAN
      /\ Len(queue) \in Nat /\ elem \in Element /\ flagged \subseteq Element
  BY DEF IInv, TypeOK
<1>1. queue' = queue \o EventReports /\ gi' = FALSE
  BY DEF ProcessEvents
<1>2. CASE EventReports = << >>
  <2>1. queue' = queue
    BY <1>0, <1>1, <1>2
  <2>2. UNCHANGED <<flagged, triggered, lost>>
    BY <1>2 DEF ProcessEvents
  <2>3. ~(triggered /\ due)
    <3>1. SUFFICES ASSUME triggered, due PROVE FALSE
      OBVIOUS
    <3> DEFINE c == Changes  rest == IF gi THEN <<value>> ELSE << >>
    <3>2. EventReports = <<c>> \o rest
      BY <3>1 DEF EventReports
    <3>3. rest = << >> \/ rest = <<value>>
      OBVIOUS
    <3> HIDE DEF c, rest
    <3> QED BY <3>2, <3>3, <1>2
  <2>4. Len(queue') \in Nat /\ Len(queue') >= Len(queue)
    BY <1>0, <2>1
  <2>5. flagged' \subseteq flagged
    BY Zenon, <2>2
  <2>6. queue' \in Seq(Report) /\ lost' = lost /\ triggered' = triggered /\ flagged' = flagged
    BY Zenon, <1>0, <2>1, <2>2
  <2>7. ASSUME NEW e \in Element PROVE HasLast(queue', e) /\
                (\/ e \in lost' \/ Reported(queue', e) = value[e]
                 \/ e \in flagged' /\ triggered' /\ copy[e] = value[e]
                 \/ e = elem /\ (pc \in Early \/ (pc \in {"copy", "arm"} /\ e \in flagged')))
    <3>1. HasLast(queue, e) /\ (e \in lost \/ Kept(e))
      BY Zenon DEF IInv, Noted
    <3> QED BY Zenon, <2>1, <2>6, <3>1 DEF Kept
  <2> QED BY Zenon, <1>0, <1>1, <2>3, <2>4, <2>5, <2>6, <2>7
<1>3. CASE EventReports # << >>
  <2>1. /\ flagged' = {} /\ triggered' = FALSE
        /\ lost' = {e \in lost \cup HalfWay : Reported(queue', e) # value[e]}
    BY <1>3 DEF ProcessEvents
  <2>2. HalfWay \subseteq Element
    BY <1>0 DEF HalfWay
  <2>3. /\ Changes \in Report /\ DOMAIN Changes = flagged /\ value \in Report
        /\ \A e \in flagged : Changes[e] = copy[e]
        /\ DOMAIN value = Element
    BY <1>0, ReportsTyped
  <2>4. \/ triggered /\ queue' = Append(queue, Changes)
        \/ queue' = Append(queue, value)
        \/ triggered /\ queue' = Append(Append(queue, Changes), value)
    BY Zenon, <1>0, <1>1, <1>3, Enqueues
  <2>5. queue' \in Seq(Report) /\ Len(queue') \in Nat /\ Len(queue') >= Len(queue)
    <3> DEFINE c == Changes
    <3>1. c \in Report BY <2>3
    <3>2. \/ queue' = Append(queue, c) \/ queue' = Append(queue, value)
          \/ queue' = Append(Append(queue, c), value)
      BY Zenon, <2>4
    <3> HIDE DEF c
    <3>3. \A r \in Report, q \in Seq(Report) :
              Append(q, r) \in Seq(Report) /\ Len(Append(q, r)) = Len(q) + 1
      OBVIOUS
    <3>4. queue' \in Seq(Report)
      BY Zenon, <1>0, <2>3, <3>1, <3>2, <3>3
    <3>5. \/ Len(queue') = Len(queue) + 1 \/ Len(queue') = Len(queue) + 1 + 1
      BY Zenon, <1>0, <2>3, <3>1, <3>2, <3>3
    <3> QED BY <1>0, <3>4, <3>5
  <2>6. ASSUME NEW e \in Element
        PROVE  /\ HasLast(queue', e)
               /\ \/ e \in lost' \/ Reported(queue', e) = value[e]
                  \/ e = elem /\ pc \in Early
    <3>1. HasLast(queue, e) /\ (e \in lost \/ Kept(e))
      BY Zenon DEF IInv, Noted
    <3>2. /\ HasLast(Append(queue, Changes), e)
          /\ Reported(Append(queue, Changes), e)
                = IF e \in flagged THEN copy[e] ELSE Reported(queue, e)
      BY Zenon, <1>0, <2>3, <3>1, LastWithAppend
    <3>3. Append(queue, Changes) \in Seq(Report)
      BY Zenon, <1>0, <2>3, AppendTyped
    <3>4. CASE queue' = Append(queue, value)
      BY Zenon, <1>0, <2>3, <3>1, <3>4, LastWithAppend
    <3>5. CASE queue' = Append(Append(queue, Changes), value)
      BY Zenon, <2>3, <3>2, <3>3, <3>5, LastWithAppend
    <3>6. CASE queue' = Append(queue, Changes)
      <4>1. CASE e \in lost \cup HalfWay
        BY Zenon, <2>1, <3>2, <3>6, <4>1
      <4>2. CASE e \notin lost /\ e \notin HalfWay /\ e \in flagged
        <5>1. copy[e] = value[e] \/ (e = elem /\ pc \in {"check", "process"})
          BY Zenon, <4>2 DEF IInv, Copied, HalfWay
        <5> QED BY Zenon, <3>2, <3>6, <4>2, <5>1 DEF Early
      <4>3. CASE e \notin lost /\ e \notin flagged
        BY Zenon, <3>1, <3>2, <3>6, <4>3 DEF Kept
      <4> QED BY Zenon, <4>1, <4>2, <4>3
    <3> QED BY Zenon, <2>4, <3>4, <3>5, <3>6
  <2> QED BY Zenon, <1>0, <1>1, <2>1, <2>2, <2>5, <2>6
<1> QED BY Zenon, <1>2, <1>3

-----------------------------------------------------------------------------
LEMMA Constants ==
    /\ MaxChanges \in Nat /\ MaxEnables \in Nat /\ MaxGI \in Nat
    /\ Task = {"poll", "server"} /\ "poll" # "server"
    /\ Other("poll") = "server" /\ Other("server") = "poll" /\ Wild = 0
BY ControlAssumption DEF Task, Other, Wild

\* What keeps the queue and the reports that are sent as they are keeps Sends.
LEMMA SendsKept ==
    ASSUME TypeOK, Sends, UNCHANGED <<next, at, gone, clash>>,
           pc' = "sending" <=> pc = "sending",
           Len(queue') \in Nat, Len(queue') >= Len(queue)
    PROVE  Sends' /\ next' \in 0 .. Len(queue') + 1
                  /\ at' \in [Task -> 0 .. Len(queue')] /\ gone' \subseteq 1 .. Len(queue')
<1>0. Len(queue) \in Nat /\ at \in [Task -> 0 .. Len(queue)] /\ next \in 0 .. Len(queue) + 1
      /\ gone \subseteq 1 .. Len(queue)
  BY DEF TypeOK
<1>1. next' \in 0 .. Len(queue') + 1 /\ gone' \subseteq 1 .. Len(queue')
  BY <1>0
<1>2. at' \in [Task -> 0 .. Len(queue')]
  BY <1>0
<1>3. Sends'
  BY <1>0 DEF Sends, NothingSkipped, Other, Task, Wild
<1> QED BY Zenon, <1>1, <1>2, <1>3

\* A task that starts to send is the only one, or there is a clash.
LEMMA SendsTransmit ==
    ASSUME IInv, next # Wild, NEW t \in Task, Transmit(t), UNCHANGED next, at[t] = 0,
           Len(queue') \in Nat, Len(queue') >= Len(queue), next <= Len(queue'),
           pc' = "sending" <=> (pc = "sending" \/ t = "poll")
    PROVE  Sends' /\ next' \in 0 .. Len(queue') + 1 /\ clash' \in BOOLEAN
                  /\ at' \in [Task -> 0 .. Len(queue')] /\ gone' \subseteq 1 .. Len(queue')
<1>0. /\ Len(queue) \in Nat /\ at \in [Task -> 0 .. Len(queue)]
      /\ next \in 1 .. Len(queue) + 1 /\ gone \subseteq 1 .. Len(queue)
      /\ Sends /\ clash \in BOOLEAN
  BY DEF IInv, TypeOK, Wild
<1>1. /\ at' = [at EXCEPT ![t] = next] /\ gone' = gone \cup {next}
      /\ clash' = (clash \/ at[Other(t)] # 0) /\ next' = next
  BY DEF Transmit
<1>2. next' \in 0 .. Len(queue') + 1 /\ gone' \subseteq 1 .. Len(queue')
  BY <1>0, <1>1
<1>3. at' \in [Task -> 0 .. Len(queue')]
  BY <1>0, <1>1
<1>4. pc' = "sending" <=> at'["poll"] # 0
  BY <1>0, <1>1 DEF Sends, Task
<1>5. clash' \/ \A u \in Task : at'[u] # 0 =>
          at'[u] = next' /\ next' <= Len(queue') /\ next' \in gone' /\ at'[Other(u)] = 0
  BY <1>0, <1>1 DEF Task, Other
<1>6. clash' \/ (next' # Wild /\ \A i \in 1 .. next' - 1 : i \in gone')
  BY <1>0, <1>1 DEF Sends, NothingSkipped
<1> QED BY Zenon, <1>0, <1>1, <1>2, <1>3, <1>4, <1>5, <1>6 DEF Sends, NothingSkipped

\* A task whose report was taken moves nextToTransmit on from that report.
LEMMA SendsAdvance ==
    ASSUME IInv, next # Wild, NEW t \in Task, Advance(t), at[t] # 0,
           UNCHANGED <<queue, gone, clash>>,
           pc' = "sending" <=> (pc = "sending" /\ t # "poll")
    PROVE  Sends' /\ next' \in 0 .. Len(queue') + 1
                  /\ at' \in [Task -> 0 .. Len(queue')]
<1>0. /\ Len(queue) \in Nat /\ at \in [Task -> 0 .. Len(queue)]
      /\ next \in 1 .. Len(queue) + 1 /\ gone \subseteq 1 .. Len(queue) /\ Sends
  BY DEF IInv, TypeOK, Wild
<1>1. /\ at' = [at EXCEPT ![t] = 0]
      /\ next' = IF next <= Len(queue) THEN next + 1 ELSE 0
  BY DEF Advance, Wild
<1>2. next' \in 0 .. Len(queue') + 1 /\ at' \in [Task -> 0 .. Len(queue')]
  BY <1>0, <1>1
<1>3. pc' = "sending" <=> at'["poll"] # 0
  BY <1>0, <1>1 DEF Sends, Task
<1>0b. clash' = clash /\ gone' = gone /\ queue' = queue
  OBVIOUS
<1>4. CASE clash
  BY Zenon, <1>0b, <1>2, <1>3, <1>4 DEF Sends, NothingSkipped
<1>5. CASE ~clash
  <2>1. at[t] = next /\ next <= Len(queue) /\ next \in gone /\ at[Other(t)] = 0
    BY Zenon, <1>0, <1>5 DEF Sends
  <2>2. \A u \in Task : at'[u] = 0
    BY <1>0, <1>1, <2>1 DEF Task, Other
  <2>3. next' = next + 1 /\ next' # Wild
    BY <1>0, <1>1, <2>1 DEF Wild
  <2>4. \A i \in 1 .. next - 1 : i \in gone
    BY Zenon, <1>0, <1>5 DEF Sends, NothingSkipped
  <2>5. \A i \in 1 .. next' - 1 : i \in gone'
    BY <1>0, <2>1, <2>3, <2>4
  <2> QED BY Zenon, <1>0b, <1>2, <1>3, <2>2, <2>3, <2>5 DEF Sends, NothingSkipped
<1> QED BY Zenon, <1>2, <1>4, <1>5

-----------------------------------------------------------------------------
LEMMA InitEstablishes ==
    ASSUME Init
    PROVE  IInv
<1>0. queue = << >> /\ << >> \in Seq(Report) /\ Len(<< >>) = 0
  BY DEF Init
<1>1. TypeOK
  <2>1. value \in [Element -> Value] /\ copy \in [Element -> Value \cup {Null}]
    BY Constants DEF Init, Value
  <2>2. at \in [Task -> 0 .. Len(queue)] /\ next \in 0 .. Len(queue) + 1
    BY <1>0 DEF Init
  <2>3. /\ {triggered, due, gi, enabled, isResync, clash} \subseteq BOOLEAN
        /\ pc \in {"idle", "check", "process", "send", "sending", "flag", "copy", "arm"}
        /\ elem \in Element
    BY DEF Init
  <2>4. /\ changes \in 0 .. MaxChanges /\ enables \in 0 .. MaxEnables /\ gis \in 0 .. MaxGI
    BY Constants DEF Init
  <2>5. flagged \subseteq Element /\ lost \subseteq Element /\ gone \subseteq 1 .. Len(queue)
    BY DEF Init
  <2>6. queue \in Seq(Report)
    BY Zenon, <1>0
  <2> QED BY Zenon, <2>1, <2>2, <2>3, <2>4, <2>5, <2>6 DEF TypeOK
<1>2. Pends
  BY DEF Init, Pends
<1>3. Sends
  BY DEF Init, Sends, NothingSkipped, Wild, Task
<1>4. Copied
  BY DEF Init, Copied
<1>5. Noted
  <2>1. \A e \in Element : With(queue, e) = {}
    BY <1>0 DEF With
  <2>2. \A e \in Element : LastWith(queue, e) = 0
    BY Zenon, <2>1 DEF LastWith, With
  <2>3. \A e \in Element : Reported(queue, e) = 0 /\ value[e] = 0
    BY <2>2 DEF Reported, Init
  <2> QED BY Zenon, <2>1, <2>3 DEF Noted, HasLast, Kept
<1>6. Counted
  BY DEF Init, Counted
<1> QED BY Zenon, <1>1, <1>2, <1>3, <1>4, <1>5, <1>6 DEF IInv

-----------------------------------------------------------------------------
\* The steps of the poll task.
LEMMA UpdateKeeps ==
    ASSUME IInv, NEW e \in Element, Update(e)
    PROVE  IInv'
<1>0. TypeOK /\ value[e] \in Nat /\ value[e] <= changes /\ changes \in Nat
  BY Constants DEF IInv, TypeOK, Counted, Value
<1>1. TypeOK'
  <2>1. value' \in [Element -> Value] /\ changes' \in 0 .. MaxChanges
    BY <1>0, Constants DEF TypeOK, Update, Value
  <2> QED BY <1>0, <2>1 DEF TypeOK, Update, rcb, buf
<1>2. Pends'
  BY DEF Update, IInv, Pends, rcb
<1>3. Sends'
  <2>1. Len(queue) \in Nat
    BY <1>0 DEF TypeOK
  <2> QED BY <1>0, <2>1, SendsKept DEF IInv, Update, buf
<1>4. Copied'
  BY <1>0 DEF IInv, Update, Copied, rcb, TypeOK
<1>5. Noted'
  <2>1. SUFFICES ASSUME NEW d \in Element
                 PROVE  HasLast(queue, d) /\ (d \in lost' \/ Kept(d)')
    BY Zenon DEF Noted, Update, buf
  <2>2. HasLast(queue, d) /\ (d \in lost \/ Kept(d))
    BY Zenon DEF IInv, Noted
  <2>3. CASE d = e
    BY <2>2, <2>3 DEF Kept, Early, Update
  <2>4. CASE d # e
    <3>1. value'[d] = value[d] /\ lost' = lost \ {e} /\ pc = "idle"
      BY <1>0, <2>4 DEF Update, TypeOK
    <3>2. /\ queue' = queue /\ flagged' = flagged /\ triggered' = triggered /\ copy' = copy
      BY DEF Update, buf, rcb
    <3> QED BY <2>2, <2>4, <3>1, <3>2 DEF Kept, Early
  <2> QED BY Zenon, <2>3, <2>4
<1>6. Counted'
  BY <1>0, Constants DEF IInv, Counted, Update, TypeOK, Value
<1> QED BY Zenon, <1>1, <1>2, <1>3, <1>4, <1>5, <1>6 DEF IInv

LEMMA CheckKeeps ==
    ASSUME IInv, Check
    PROVE  IInv'
<1>0. TypeOK /\ Len(queue) \in Nat
  BY DEF IInv, TypeOK
<1>1. TypeOK'
  BY <1>0 DEF Check, TypeOK, buf, history, spent
<1>2. Pends'
  BY DEF Check, IInv, Pends
<1>3. Sends'
  BY <1>0, SendsKept DEF IInv, Check, buf, history
<1>4. Copied'
  BY DEF IInv, Check, Copied
<1>5. Noted'
  BY Zenon DEF IInv, Check, Noted, Kept, Early, buf, history
<1>6. Counted'
  BY Zenon DEF IInv, Counted, Check, spent
<1> QED BY Zenon, <1>1, <1>2, <1>3, <1>4, <1>5, <1>6 DEF IInv

LEMMA ProcessKeeps ==
    ASSUME IInv, Process
    PROVE  IInv'
<1>0. TypeOK /\ pc = "process" /\ ProcessEvents(EventReports)
  BY DEF IInv, Process
<1>1. /\ queue' \in Seq(Report) /\ Len(queue') \in Nat /\ Len(queue') >= Len(queue)
      /\ flagged' = {} /\ lost' \subseteq Element /\ triggered' \in BOOLEAN /\ gi' = FALSE
  <2>1. triggered /\ due => flagged' = {}
    BY Zenon, <1>0, Processing
  <2>2. flagged # {} => triggered /\ due
    BY <1>0 DEF IInv, Pends
  <2>3. flagged' \subseteq flagged
    BY Zenon, <1>0, Processing
  <2>4. flagged' = {}
    BY <2>1, <2>2, <2>3
  <2> QED BY Zenon, <1>0, <2>4, Processing
<1>2. pc' \in {"send", "flag"}
  BY DEF Process
<1>3. /\ Sends' /\ next' \in 0 .. Len(queue') + 1
      /\ at' \in [Task -> 0 .. Len(queue')] /\ gone' \subseteq 1 .. Len(queue')
  BY <1>0, <1>1, <1>2, SendsKept DEF IInv, Process
<1>4. TypeOK'
  BY <1>0, <1>1, <1>2, <1>3 DEF Process, TypeOK, spent
<1>5. Pends' /\ Copied'
  BY <1>1, <1>2 DEF Pends, Copied
<1>6. Noted'
  <2>1. SUFFICES ASSUME NEW e \in Element
                 PROVE  HasLast(queue', e) /\ (e \in lost' \/ Kept(e)')
    BY Zenon DEF Noted
  <2>2. /\ HasLast(queue', e)
        /\ \/ e \in lost' \/ Reported(queue', e) = value[e]
           \/ e = elem /\ pc \in Early
    BY <1>0, <1>1, Processing
  <2> QED BY <1>2, <2>2 DEF Kept, Early, Process
<1>7. Counted'
  BY Zenon DEF IInv, Counted, Process, spent
<1> QED BY Zenon, <1>3, <1>4, <1>5, <1>6, <1>7 DEF IInv

LEMMA SendKeeps ==
    ASSUME IInv, Send, next # Wild
    PROVE  IInv'
<1>0. /\ TypeOK /\ Len(queue) \in Nat /\ pc = "send" /\ at["poll"] = 0
      /\ UNCHANGED <<value, rcb, buf, elem, lost, spent>>
  BY DEF IInv, Send, TypeOK, Sends
<1>1. /\ Sends' /\ next' \in 0 .. Len(queue') + 1 /\ clash' \in BOOLEAN
      /\ at' \in [Task -> 0 .. Len(queue')] /\ gone' \subseteq 1 .. Len(queue')
      /\ pc' \in {"sending", "flag"}
  <2>1. CASE next <= Len(queue)
    <3>1. Transmit("poll") /\ pc' = "sending"
      BY <2>1 DEF Send, ToSend
    <3> QED BY <1>0, <2>1, <3>1, Constants, SendsTransmit DEF buf
  <2>2. CASE ~(next <= Len(queue))
    <3>1. pc' = "flag" /\ UNCHANGED <<at, gone, clash>>
      BY <2>2 DEF Send, ToSend
    <3>2. clash' \in BOOLEAN
      BY <1>0, <3>1 DEF TypeOK
    <3> QED BY <1>0, <3>1, <3>2, SendsKept DEF buf, IInv
  <2> QED BY Zenon, <2>1, <2>2
<1>2. TypeOK'
  BY <1>0, <1>1 DEF TypeOK, rcb, buf, spent
<1>3. Pends' /\ Copied'
  BY <1>0, <1>1 DEF IInv, Pends, Copied, rcb
<1>4. Noted'
  BY <1>0, <1>1 DEF IInv, Noted, Kept, Early, rcb, buf
<1>5. Counted'
  BY Zenon, <1>0 DEF IInv, Counted, spent
<1> QED BY Zenon, <1>1, <1>2, <1>3, <1>4, <1>5 DEF IInv

LEMMA SentKeeps ==
    ASSUME IInv, Sent, next # Wild
    PROVE  IInv'
<1>0. /\ TypeOK /\ Len(queue) \in Nat /\ pc = "sending" /\ at["poll"] # 0 /\ pc' = "flag"
      /\ Advance("poll") /\ UNCHANGED <<value, rcb, queue, isResync, elem, history, spent>>
  BY DEF IInv, Sent, TypeOK, Sends
<1>1. Sends' /\ next' \in 0 .. Len(queue') + 1 /\ at' \in [Task -> 0 .. Len(queue')]
  BY <1>0, Constants, SendsAdvance DEF history
<1>2. TypeOK'
  BY <1>0, <1>1 DEF TypeOK, rcb, history, spent
<1>3. Pends' /\ Copied'
  BY <1>0 DEF IInv, Pends, Copied, rcb
<1>4. Noted'
  BY <1>0 DEF IInv, Noted, Kept, Early, rcb, history
<1>5. Counted'
  BY Zenon, <1>0 DEF IInv, Counted, spent
<1> QED BY Zenon, <1>1, <1>2, <1>3, <1>4, <1>5 DEF IInv

LEMMA FlagKeeps ==
    ASSUME IInv, Flag
    PROVE  IInv'
<1>0. TypeOK /\ Len(queue) \in Nat /\ elem \in Element
  BY DEF IInv, TypeOK
<1>1. TypeOK'
  BY <1>0 DEF Flag, TypeOK, buf, history, spent
<1>2. Pends'
  BY DEF Flag, IInv, Pends
<1>3. Sends'
  BY <1>0, SendsKept DEF IInv, Flag, buf, history
<1>4. Copied'
  BY DEF IInv, Flag, Copied
<1>5. Noted'
  BY DEF IInv, Flag, Noted, Kept, Early, buf, history
<1>6. Counted'
  BY Zenon DEF IInv, Counted, Flag, spent
<1> QED BY Zenon, <1>1, <1>2, <1>3, <1>4, <1>5, <1>6 DEF IInv

LEMMA CopyKeeps ==
    ASSUME IInv, Copy
    PROVE  IInv'
<1>0. TypeOK /\ Len(queue) \in Nat /\ elem \in Element
  BY DEF IInv, TypeOK
<1>1. TypeOK'
  BY <1>0 DEF Copy, TypeOK, buf, history, spent
<1>2. Pends'
  BY DEF Copy, IInv, Pends
<1>3. Sends'
  BY <1>0, SendsKept DEF IInv, Copy, buf, history
<1>4. Copied'
  BY <1>0 DEF IInv, Copy, Copied, TypeOK
<1>5. Noted'
  <2>1. \A e \in Element : e # elem => copy'[e] = copy[e]
    BY <1>0 DEF Copy, TypeOK
  <2> QED BY <1>0, <2>1 DEF IInv, Copy, Noted, Kept, Early, buf, history
<1>6. Counted'
  BY Zenon DEF IInv, Counted, Copy, spent
<1> QED BY Zenon, <1>1, <1>2, <1>3, <1>4, <1>5, <1>6 DEF IInv

LEMMA ArmKeeps ==
    ASSUME IInv, Arm
    PROVE  IInv'
<1>0. TypeOK /\ Len(queue) \in Nat /\ elem \in Element
  BY DEF IInv, TypeOK
<1>1. TypeOK'
  BY <1>0 DEF Arm, TypeOK, buf, history, spent
<1>2. Pends'
  BY DEF Arm, IInv, Pends
<1>3. Sends'
  BY <1>0, SendsKept DEF IInv, Arm, buf, history
<1>4. Copied'
  BY <1>0 DEF IInv, Arm, Copied
<1>5. Noted'
  BY <1>0 DEF IInv, Arm, Noted, Kept, Early, Copied, buf, history
<1>6. Counted'
  BY Zenon DEF IInv, Counted, Arm, spent
<1> QED BY Zenon, <1>1, <1>2, <1>3, <1>4, <1>5, <1>6 DEF IInv

-----------------------------------------------------------------------------
\* The clock, the server and the clients.
LEMMA BufTmKeeps ==
    ASSUME IInv, BufTm
    PROVE  IInv'
<1>0. TypeOK /\ Len(queue) \in Nat
  BY DEF IInv, TypeOK
<1>1. TypeOK'
  BY <1>0 DEF BufTm, TypeOK, buf, poll, history, spent
<1>2. Pends' /\ Copied'
  BY DEF BufTm, IInv, Pends, Copied, poll
<1>3. Sends'
  BY <1>0, SendsKept DEF IInv, BufTm, buf, poll, history
<1>4. Noted'
  BY Zenon DEF IInv, BufTm, Noted, Kept, buf, poll, history
<1>5. Counted'
  BY Zenon DEF IInv, Counted, BufTm, spent
<1> QED BY Zenon, <1>1, <1>2, <1>3, <1>4, <1>5 DEF IInv

LEMMA TurnKeeps ==
    ASSUME IInv, Turn, next # Wild
    PROVE  IInv'
<1>0. /\ TypeOK /\ ProcessEvents(EventReports) /\ at["server"] = 0
      /\ UNCHANGED <<value, copy, due, enabled, next, isResync, poll, spent>>
  BY DEF IInv, Turn, ServerTurn
<1>1. /\ queue' \in Seq(Report) /\ Len(queue') \in Nat /\ Len(queue') >= Len(queue)
      /\ flagged' \subseteq flagged /\ lost' \subseteq Element
      /\ triggered' \in BOOLEAN /\ gi' = FALSE
      /\ flagged' # {} => triggered' = triggered
  BY Zenon, <1>0, Processing
<1>2. /\ Sends' /\ next' \in 0 .. Len(queue') + 1 /\ clash' \in BOOLEAN
      /\ at' \in [Task -> 0 .. Len(queue')] /\ gone' \subseteq 1 .. Len(queue')
  <2>1. CASE enabled /\ next <= Len(queue')
    <3>1. Transmit("server")
      BY <2>1 DEF Turn, ToSend
    <3> QED BY <1>0, <1>1, <2>1, <3>1, Constants, SendsTransmit DEF poll
  <2>2. CASE ~(enabled /\ next <= Len(queue'))
    <3>1. UNCHANGED <<at, gone, clash>>
      BY <2>2 DEF Turn, ToSend
    <3>2. clash' \in BOOLEAN
      BY <1>0, <3>1 DEF TypeOK
    <3> QED BY <1>0, <1>1, <3>1, <3>2, SendsKept DEF poll, IInv
  <2> QED BY Zenon, <2>1, <2>2
<1>3. TypeOK'
  BY <1>0, <1>1, <1>2 DEF TypeOK, poll, spent
<1>4. Pends' /\ Copied'
  BY <1>0, <1>1 DEF IInv, Pends, Copied, poll
<1>5. Noted'
  <2>1. SUFFICES ASSUME NEW e \in Element
                 PROVE  HasLast(queue', e) /\ (e \in lost' \/ Kept(e)')
    BY Zenon DEF Noted
  <2>2. /\ HasLast(queue', e)
        /\ \/ e \in lost' \/ Reported(queue', e) = value[e]
           \/ e \in flagged' /\ triggered' /\ copy[e] = value[e]
           \/ e = elem /\ (pc \in Early \/ (pc \in {"copy", "arm"} /\ e \in flagged'))
    BY Zenon, <1>0, Processing
  <2> QED BY Zenon, <1>0, <2>2 DEF Kept, poll
<1>6. Counted'
  BY Zenon, <1>0 DEF IInv, Counted, spent
<1> QED BY Zenon, <1>2, <1>3, <1>4, <1>5, <1>6 DEF IInv

LEMMA TurnSentKeeps ==
    ASSUME IInv, TurnSent, next # Wild
    PROVE  IInv'
<1>0. /\ TypeOK /\ Len(queue) \in Nat /\ at["server"] # 0
      /\ Advance("server") /\ UNCHANGED <<value, rcb, queue, isResync, poll, history, spent>>
  BY DEF IInv, TurnSent, ServerTurn, TypeOK
<1>1. Sends' /\ next' \in 0 .. Len(queue') + 1 /\ at' \in [Task -> 0 .. Len(queue')]
  BY <1>0, Constants, SendsAdvance DEF history, poll
<1>2. TypeOK'
  BY <1>0, <1>1 DEF TypeOK, rcb, poll, history, spent
<1>3. Pends' /\ Copied' /\ Counted'
  BY <1>0 DEF IInv, Pends, Copied, Counted, rcb, poll, spent
<1>4. Noted'
  BY Zenon, <1>0 DEF IInv, Noted, Kept, rcb, poll, history
<1> QED BY Zenon, <1>1, <1>2, <1>3, <1>4 DEF IInv

LEMMA EnableKeeps ==
    ASSUME IInv, Enable
    PROVE  IInv'
<1>0. /\ TypeOK /\ Len(queue) \in Nat /\ at["server"] = 0
      /\ flagged' = {} /\ clash' = (clash \/ at["poll"] # 0) /\ isResync' = FALSE
      /\ (next' = next /\ gone' = gone) \/ (next' = 1 /\ gone' = {})
      /\ lost' = {e \in lost \cup Forgotten : Reported(queue, e) # value[e]}
      /\ UNCHANGED <<value, triggered, due, queue, poll, at, changes, gis>>
  BY DEF IInv, TypeOK, Enable, Starts, ServerTurn
<1>1. TypeOK'
  <2>1. Forgotten \subseteq Element
    BY <1>0 DEF Forgotten, TypeOK
  <2>2. copy' \in [Element -> Value \cup {Null}] /\ enabled' = TRUE /\ gi' = FALSE
        /\ enables' \in 0 .. MaxEnables
    BY <1>0, Constants DEF Enable, TypeOK
  <2>3. /\ flagged' \subseteq Element /\ lost' \subseteq Element /\ gone' \subseteq 1 .. Len(queue')
        /\ next' \in 0 .. Len(queue') + 1
    <3>1. flagged' \subseteq Element /\ lost' \subseteq Element
      BY <1>0, <2>1 DEF TypeOK
    <3>2. gone \subseteq 1 .. Len(queue) /\ next \in 0 .. Len(queue) + 1
      BY <1>0 DEF TypeOK
    <3>3. 1 \in 0 .. Len(queue) + 1 /\ {} \subseteq 1 .. Len(queue) /\ queue' = queue
      BY <1>0
    <3> QED BY Zenon, <1>0, <3>1, <3>2, <3>3
  <2>4. {triggered', due', gi', enabled', isResync', clash'} \subseteq BOOLEAN
    BY <1>0, <2>2 DEF TypeOK
  <2>5. /\ queue' = queue /\ value' = value /\ pc' = pc /\ elem' = elem /\ at' = at
        /\ changes' = changes /\ gis' = gis
    BY <1>0 DEF poll
  <2> QED BY Zenon, <1>0, <2>2, <2>3, <2>4, <2>5 DEF TypeOK
<1>2. Pends' /\ Copied' /\ Counted'
  BY <1>0 DEF IInv, Pends, Copied, Counted, poll
<1>3. Sends'
  <2>1. pc' = "sending" <=> at'["poll"] # 0
    BY <1>0 DEF IInv, Sends, poll
  <2>2. clash' \/ \A t \in Task : at'[t] = 0
    BY <1>0, Constants
  <2>3. clash' \/ (next' # Wild /\ \A i \in 1 .. next' - 1 : i \in gone')
    <3>1. CASE next' = next /\ gone' = gone
      <4>1. clash \/ (next # Wild /\ \A i \in 1 .. next - 1 : i \in gone)
        BY Zenon DEF IInv, Sends, NothingSkipped
      <4>2. clash => clash'
        BY <1>0
      <4> QED BY Zenon, <3>1, <4>1, <4>2
    <3>2. CASE next' = 1 /\ gone' = {}
      <4>1. next' # Wild /\ 1 .. next' - 1 = {}
        BY <3>2, Constants
      <4> QED BY Zenon, <4>1
    <3> QED BY Zenon, <1>0, <3>1, <3>2
  <2> QED BY Zenon, <2>1, <2>2, <2>3 DEF Sends, NothingSkipped
<1>4. Noted'
  <2>1. SUFFICES ASSUME NEW e \in Element
                 PROVE  HasLast(queue, e) /\ (e \in lost' \/ Kept(e)')
    BY Zenon, <1>0 DEF Noted
  <2>2. HasLast(queue, e) /\ (e \in lost \/ Kept(e))
    BY Zenon DEF IInv, Noted
  <2>3. CASE e \in lost \cup Forgotten
    BY Zenon, <1>0, <2>2, <2>3 DEF Kept
  <2>4. CASE e \notin lost \cup Forgotten
    <3>1. Reported(queue, e) = value[e] \/ (e = elem /\ pc \in Early)
      BY <1>0, <2>2, <2>4 DEF Kept, Forgotten, Early, TypeOK
    <3> QED BY Zenon, <1>0, <2>2, <3>1 DEF Kept, poll
  <2> QED BY Zenon, <2>3, <2>4
<1> QED BY Zenon, <1>1, <1>2, <1>3, <1>4 DEF IInv

LEMMA WriteEntryIDKeeps ==
    ASSUME IInv, NEW i \in 0 .. Len(queue), WriteEntryID(i)
    PROVE  IInv'
<1>0. /\ TypeOK /\ Len(queue) \in Nat /\ at["server"] = 0
      /\ next' = i + 1 /\ isResync' = (i # 0) /\ gone' = 1 .. i
      /\ clash' = (clash \/ at["poll"] # 0) /\ enables < MaxEnables /\ enables' = enables + 1
      /\ UNCHANGED <<value, rcb, queue, poll, at, lost, changes, gis>>
  BY DEF IInv, TypeOK, WriteEntryID, ServerTurn
<1>1. TypeOK'
  <2>1. enables' \in 0 .. MaxEnables /\ gone' \subseteq 1 .. Len(queue)
        /\ next' \in 0 .. Len(queue') + 1
    BY <1>0, Constants DEF TypeOK
  <2>2. {triggered', due', gi', enabled', isResync', clash'} \subseteq BOOLEAN
    BY <1>0 DEF TypeOK, rcb
  <2> QED BY <1>0, <2>1, <2>2 DEF TypeOK, rcb, poll
<1>2. Pends' /\ Copied' /\ Counted'
  BY <1>0 DEF IInv, Pends, Copied, Counted, rcb, poll
<1>3. Sends'
  <2>1. pc' = "sending" <=> at'["poll"] # 0
    BY <1>0 DEF IInv, Sends, poll
  <2>2. clash' \/ \A t \in Task : at'[t] = 0
    BY <1>0, Constants
  <2>3. next' # Wild /\ \A k \in 1 .. next' - 1 : k \in gone'
    BY <1>0, Constants
  <2> QED BY Zenon, <2>1, <2>2, <2>3 DEF Sends, NothingSkipped
<1>4. Noted'
  BY Zenon, <1>0 DEF IInv, Noted, Kept, rcb, poll
<1> QED BY Zenon, <1>1, <1>2, <1>3, <1>4 DEF IInv

LEMMA DisableKeeps ==
    ASSUME IInv, Disable
    PROVE  IInv'
<1>0. TypeOK /\ Len(queue) \in Nat
  BY DEF IInv, TypeOK
<1>1. TypeOK'
  BY <1>0 DEF Disable, TypeOK, poll, history, spent
<1>2. Pends' /\ Copied' /\ Counted'
  BY DEF Disable, IInv, Pends, Copied, Counted, poll, spent
<1>3. Sends'
  BY <1>0, SendsKept DEF IInv, Disable, buf, poll, history
<1>4. Noted'
  BY Zenon DEF IInv, Disable, Noted, Kept, buf, poll, history
<1> QED BY Zenon, <1>1, <1>2, <1>3, <1>4 DEF IInv

LEMMA GIKeeps ==
    ASSUME IInv, GI
    PROVE  IInv'
<1>0. TypeOK /\ Len(queue) \in Nat
  BY DEF IInv, TypeOK
<1>1. TypeOK'
  BY <1>0, Constants DEF GI, TypeOK, buf, poll, history
<1>2. Pends' /\ Copied' /\ Counted'
  BY DEF GI, IInv, Pends, Copied, Counted, poll
<1>3. Sends'
  BY <1>0, SendsKept DEF IInv, GI, buf, poll, history
<1>4. Noted'
  BY Zenon DEF IInv, GI, Noted, Kept, buf, poll, history
<1> QED BY Zenon, <1>1, <1>2, <1>3, <1>4 DEF IInv

LEMMA StutterKeeps ==
    ASSUME IInv, UNCHANGED vars
    PROVE  IInv'
<1>1. TypeOK' /\ Pends' /\ Copied' /\ Counted'
  BY DEF IInv, TypeOK, Pends, Copied, Counted, vars, rcb, buf, poll, history, spent
<1>2. Sends' /\ Noted'
  BY Zenon DEF IInv, Sends, NothingSkipped, Noted, Kept, vars, rcb, buf, poll, history
<1> QED BY Zenon, <1>1, <1>2 DEF IInv

LEMMA StepKeeps ==
    ASSUME IInv, [Next]_vars
    PROVE  IInv'
<1>1. CASE Next
  <2>1. next # Wild
    BY <1>1 DEF Next
  <2>2. \/ \E e \in Element : Update(e)
        \/ Check \/ Process \/ Send \/ Sent \/ Flag \/ Copy \/ Arm
        \/ BufTm \/ Turn \/ TurnSent \/ Enable \/ Disable \/ GI
        \/ \E i \in 0 .. Len(queue) : WriteEntryID(i)
    BY Zenon, <1>1 DEF Next, PollTask, Server, Client
  <2> QED BY Zenon, <2>1, <2>2, UpdateKeeps, CheckKeeps, ProcessKeeps, SendKeeps, SentKeeps,
             FlagKeeps, CopyKeeps, ArmKeeps, BufTmKeeps, TurnKeeps, TurnSentKeeps,
             EnableKeeps, WriteEntryIDKeeps, DisableKeeps, GIKeeps
<1> QED BY Zenon, <1>1, StutterKeeps

LEMMA Invariance == Spec => []IInv
BY PTL, InitEstablishes, StepKeeps DEF Spec

-----------------------------------------------------------------------------
\* Every variable of the report control block, its buffer and the two tasks stays in
\* its type.
THEOREM TypeCorrect == Spec => []TypeOK
<1>1. IInv => TypeOK
  BY Zenon DEF IInv
<1> QED BY PTL, <1>1, Invariance

\* A pending change is put into a report before its buffered value is overwritten
\* (ReportControl_valueUpdated), with any interleaving of the two tasks.
THEOREM PendingGoesFirst == Spec => []PendingFirst
<1>1. IInv => PendingFirst
  BY DEF IInv, Pends, PendingFirst
<1> QED BY PTL, <1>1, Invariance

\* No report is passed over by nextToTransmit, unless the two tasks were sending at
\* the same time (sendNextReportEntry).
THEOREM AllAreSent == Spec => []NothingSkipped
<1>1. IInv => NothingSkipped
  BY Zenon DEF IInv, Sends
<1> QED BY PTL, <1>1, Invariance

\* No change is forgotten between the data model and the report buffer, outside the
\* two circumstances that lost records.
THEOREM ChangesAreKept == Spec => []ChangeKept
<1>1. IInv => ChangeKept
  BY DEF IInv, Noted, Kept, Early, ChangeKept
<1> QED BY PTL, <1>1, Invariance
=============================================================================
