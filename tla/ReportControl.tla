--------------------------- MODULE ReportControl ----------------------------
(***************************************************************************)
(* How a change of the data model becomes a report, between two tasks.     *)
(* The poll task writes the relay's values into the data model, and each   *)
(* change is noted in the report control block (ReportControl_valueUpdated)*)
(* and may be enqueued and sent there and then; the server task, of higher *)
(* priority, does the same work at every turn of its own                   *)
(* (processEventsForReport) and handles what clients write.                *)
(*                                                                         *)
(* The poll task takes the lock of the data model first                    *)
(* (IedServer_lockDataModel), but in a stack without threads that lock is  *)
(* compiled away: the server runs between any two steps of the poll task,  *)
(* and the poll task while the server waits for the network in the middle  *)
(* of a report.                                                            *)
(*                                                                         *)
(* The block is a buffered one whose client asks for changes and general   *)
(* interrogations; an integrity report is made as the answer to one.  Each *)
(* entry of the data set is one attribute, and its value the number of     *)
(* changes so far.  The buffer is what ReportQueue promises of it, without *)
(* loss, and there is memory for every report that is sent.  The poll      *)
(* task's enqueueReport is one step.                                       *)
(***************************************************************************)
EXTENDS Integers, Sequences, FiniteSets

CONSTANTS
    Element,        \* entries of the data set
    MaxChanges,     \* bound: changes of values
    MaxEnables,     \* bound: times a client enables the block or names a report
    MaxGI           \* bound: general interrogations

ASSUME ControlAssumption ==
    IsFiniteSet(Element) /\ MaxChanges \in Nat /\ MaxEnables \in Nat /\ MaxGI \in Nat

VARIABLES
    value,      \* the attributes of the data model
    flagged,    \* the entries whose inclusionFlags are set
    copy,       \* bufferedDataSetValues
    triggered,
    due,        \* reportTime has come
    gi,
    enabled,
    queue,      \* the report buffer: reports are functions from entries to values
    next,       \* the position of nextToTransmit, past the end for NULL; or Wild
    isResync,   \* a client named the last report it has, and next was set to follow it
    pc, elem,   \* where the poll task is in valueUpdated, and for which entry
    at,         \* the report each task is sending; 0 for none
    gone,       \* history: reports sent since the block was enabled, or named as had
    lost,       \* history: entries whose last change was forgotten
    clash,      \* history: nextToTransmit was used by one task under the other
    changes, enables, gis       \* how much of the bounds is used up

rcb     == <<flagged, copy, triggered, due, gi, enabled>>
buf     == <<queue, next, isResync>>
poll    == <<pc, elem>>
history == <<gone, lost, clash>>
spent   == <<changes, enables, gis>>
vars    == <<value, rcb, buf, poll, at, history, spent>>

Task   == {"poll", "server"}
Null   == -1        \* bufferedDataSetValues[i] is NULL
Wild   == 0         \* what is read through a NULL nextToTransmit
Value  == 0 .. MaxChanges
Report == UNION {[S -> Value \cup {Null}] : S \in SUBSET Element}

\* The values every variable stays in.
TypeOK ==
    /\ value \in [Element -> Value] /\ copy \in [Element -> Value \cup {Null}]
    /\ flagged \subseteq Element /\ lost \subseteq Element
    /\ {triggered, due, gi, enabled, isResync, clash} \subseteq BOOLEAN
    /\ queue \in Seq(Report) /\ next \in 0 .. Len(queue) + 1
    /\ pc \in {"idle", "check", "process", "send", "sending", "flag", "copy", "arm"}
    /\ elem \in Element
    /\ at \in [Task -> 0 .. Len(queue)] /\ gone \subseteq 1 .. Len(queue)
    /\ changes \in 0 .. MaxChanges /\ enables \in 0 .. MaxEnables /\ gis \in 0 .. MaxGI

Init ==
    /\ value = [e \in Element |-> 0] /\ copy = [e \in Element |-> Null]
    /\ flagged = {} /\ triggered = FALSE /\ due = FALSE /\ gi = FALSE /\ enabled = FALSE
    /\ queue = << >> /\ next = 1 /\ isResync = FALSE
    /\ pc = "idle" /\ elem \in Element /\ at = [t \in Task |-> 0]
    /\ gone = {} /\ lost = {} /\ clash = FALSE
    /\ changes = 0 /\ enables = 0 /\ gis = 0

-----------------------------------------------------------------------------
\* The position of the last report with an entry, 0 for none, and its value.
LastWith(q, e) ==
    LET with == {i \in DOMAIN q : e \in DOMAIN q[i]}
    IN  IF with = {} THEN 0 ELSE CHOOSE i \in with : \A k \in with : k <= i
Reported(q, e) == LET i == LastWith(q, e) IN IF i = 0 THEN 0 ELSE q[i][e]

\* processEventsForReport, up to the sending: the pending changes, by themselves
\* or in front of the answer to a general interrogation, which has the values of
\* the data model.  An entry that is flagged, but not copied yet, is in the report
\* with what it was before.
\* Mutant: only the entry that is being updated gets in.
ChangesOfUpdated == [e \in flagged \cap {elem} |-> copy[e]]
Changes == [e \in flagged |-> copy[e]]
EventReports ==
    (IF triggered /\ (gi \/ due) THEN <<Changes>> ELSE << >>)
    \o (IF gi THEN <<value>> ELSE << >>)
HalfWay == IF pc = "copy" THEN flagged \cap {elem} ELSE {}
ProcessEvents(reports) ==
    /\ queue' = queue \o reports
    /\ gi' = FALSE
    /\ IF reports = << >> THEN UNCHANGED <<flagged, triggered, lost>>
       ELSE /\ flagged' = {} /\ triggered' = FALSE
            /\ lost' = {e \in lost \cup HalfWay : Reported(queue', e) # value[e]}

\* sendNextReportEntry: the report goes out; when the network has taken it,
\* nextToTransmit is moved on from where it is by then.
Other(task) == IF task = "poll" THEN "server" ELSE "poll"
Transmit(task) ==
    /\ at' = [at EXCEPT ![task] = next]
    /\ gone' = gone \cup {next}
    /\ clash' = (clash \/ at[Other(task)] # 0)
Advance(task) ==
    /\ next' = IF next <= Len(queue) THEN next + 1 ELSE Wild
    /\ at' = [at EXCEPT ![task] = 0]

-----------------------------------------------------------------------------
\* IedServer_update*AttributeValue: the value changes, and the observers are told.
Update(e) ==
    /\ pc = "idle" /\ changes < MaxChanges
    /\ value' = [value EXCEPT ![e] = @ + 1] /\ elem' = e
    /\ pc' = "check" /\ changes' = changes + 1
    /\ lost' = lost \ {e}
    /\ UNCHANGED <<rcb, buf, at, gone, clash, enables, gis>>

\* Mutant: the pending change is overwritten.
CheckNothing ==
    /\ pc = "check" /\ pc' = "flag"
    /\ UNCHANGED <<value, rcb, buf, elem, at, history, spent>>

\* ReportControl_valueUpdated: a change of this entry is already pending.
Check ==
    /\ pc = "check"
    /\ IF elem \in flagged THEN pc' = "process" /\ due' = TRUE
       ELSE pc' = "flag" /\ UNCHANGED due
    /\ UNCHANGED <<value, flagged, copy, triggered, gi, enabled, buf, elem, at, history, spent>>

Process ==
    /\ pc = "process" /\ pc' = IF enabled THEN "send" ELSE "flag"
    /\ ProcessEvents(EventReports)
    /\ UNCHANGED <<value, copy, due, enabled, next, isResync, elem, at, gone, clash, spent>>

\* nextToTransmit is not NULL.  Mutant: it is not looked at.
AnyToSend(q) == TRUE
ToSend(q)    == next <= Len(q)

Send ==
    /\ pc = "send"
    /\ IF ToSend(queue) THEN Transmit("poll") /\ pc' = "sending"
       ELSE pc' = "flag" /\ UNCHANGED <<at, gone, clash>>
    /\ UNCHANGED <<value, rcb, buf, elem, lost, spent>>

Sent ==
    /\ pc = "sending" /\ pc' = "flag"
    /\ Advance("poll")
    /\ UNCHANGED <<value, rcb, queue, isResync, elem, history, spent>>

Flag ==
    /\ pc = "flag" /\ pc' = "copy"
    /\ flagged' = flagged \cup {elem}
    /\ UNCHANGED <<value, copy, triggered, due, gi, enabled, buf, elem, at, history, spent>>

Copy ==
    /\ pc = "copy" /\ pc' = "arm"
    /\ copy' = [copy EXCEPT ![elem] = value[elem]]
    /\ UNCHANGED <<value, flagged, triggered, due, gi, enabled, buf, elem, at, history, spent>>

Arm ==
    /\ pc = "arm" /\ pc' = "idle"
    /\ triggered' = TRUE /\ due' = (due /\ triggered)
    /\ UNCHANGED <<value, flagged, copy, gi, enabled, buf, elem, at, history, spent>>

\* The buffer time of the pending changes is over.
BufTm ==
    /\ triggered /\ ~due /\ due' = TRUE
    /\ UNCHANGED <<value, flagged, copy, triggered, gi, enabled, buf, poll, at, history, spent>>

-----------------------------------------------------------------------------
\* A turn of the server: Reporting_processReportEvents.
ServerTurn == at["server"] = 0
\* Mutant: the server sends only when it has enqueued something.
TurnEnqueued ==
    /\ ServerTurn
    /\ ProcessEvents(EventReports)
    /\ IF enabled /\ EventReports # << >> /\ ToSend(queue') THEN Transmit("server")
       ELSE UNCHANGED <<at, gone, clash>>
    /\ UNCHANGED <<value, copy, due, enabled, next, isResync, poll, spent>>

Turn ==
    /\ ServerTurn
    /\ ProcessEvents(EventReports)
    /\ IF enabled /\ ToSend(queue') THEN Transmit("server")
       ELSE UNCHANGED <<at, gone, clash>>
    /\ UNCHANGED <<value, copy, due, enabled, next, isResync, poll, spent>>

TurnSent ==
    /\ ~ServerTurn
    /\ Advance("server")
    /\ UNCHANGED <<value, rcb, queue, isResync, poll, history, spent>>

\* RptEna is written TRUE: the shadow of the data set is made anew, and the reports are
\* sent from the oldest on, or from where a client that named a report is.
Forgotten == {e \in flagged : e # elem \/ pc \in {"idle", "copy", "arm"}}
\* Mutant: the client goes on where the one before it was.
StartsAnywhere == UNCHANGED next /\ gone' = {}
Starts ==
    IF isResync THEN UNCHANGED <<next, gone>> ELSE next' = 1 /\ gone' = {}
Enable ==
    /\ ServerTurn /\ enables < MaxEnables /\ enables' = enables + 1
    /\ Starts /\ isResync' = FALSE
    /\ enabled' = TRUE /\ gi' = FALSE
    /\ flagged' = {} /\ copy' = [e \in Element |-> Null]
    /\ clash' = (clash \/ at["poll"] # 0)
    /\ lost' = {e \in lost \cup Forgotten : Reported(queue, e) # value[e]}
    /\ UNCHANGED <<value, triggered, due, queue, poll, at, changes, gis>>

\* EntryID is written, be the block enabled or not: the last report the client has, of
\* those that were sent since the block was enabled; or zero.
WriteEntryID(i) ==
    /\ ServerTurn /\ enables < MaxEnables /\ enables' = enables + 1
    /\ i \in gone \cup {0}
    /\ next' = i + 1 /\ isResync' = (i # 0)
    /\ gone' = 1 .. i /\ clash' = (clash \/ at["poll"] # 0)
    /\ UNCHANGED <<value, rcb, queue, poll, at, lost, changes, gis>>

\* RptEna is written FALSE, or the client's connection is closed, which leaves isResync
\* as it is.
Disable ==
    /\ ServerTurn /\ enabled /\ enabled' = FALSE
    /\ isResync' \in {FALSE, isResync}
    /\ UNCHANGED <<value, flagged, copy, triggered, due, gi, queue, next, poll, at, history, spent>>

GI ==
    /\ ServerTurn /\ enabled /\ gis < MaxGI /\ gis' = gis + 1
    /\ gi' = TRUE
    /\ UNCHANGED <<value, flagged, copy, triggered, due, enabled, buf, poll, at, history,
                   changes, enables>>

\* What follows a read through NULL is not modelled.
PollTask == Check \/ Process \/ Send \/ Sent \/ Flag \/ Copy \/ Arm
Server   == Turn \/ TurnSent
Client   == Enable \/ (\E i \in 0 .. Len(queue) : WriteEntryID(i)) \/ Disable \/ GI
Next ==
    /\ next # Wild
    /\ (\E e \in Element : Update(e)) \/ PollTask \/ BufTm \/ Server \/ Client

\* Both tasks go on, and so does the clock.  That a send returns, delivered or not, is
\* assumed of the client and the network: it has no timeout.
Fairness == WF_vars(next # Wild /\ PollTask) /\ WF_vars(next # Wild /\ BufTm)
            /\ WF_vars(next # Wild /\ Server)
Spec     == Init /\ [][Next]_vars
FairSpec == Spec /\ Fairness

-----------------------------------------------------------------------------
\* A change of an entry is in a report or waits, with its present value, to be put
\* into the next one, once the poll task is done with it; unless a client enabled
\* the block while it waited, or the server made a report between the setting of
\* its flag and the copying of its value.
ChangeKept ==
    \A e \in Element \ lost :
        \/ Reported(queue, e) = value[e]
        \/ e \in flagged /\ triggered /\ copy[e] = value[e]
        \/ e = elem /\ pc # "idle"

\* A change that is pending when its entry changes again is put into a report first,
\* whatever the server and the client do meanwhile: its buffered value is not
\* overwritten.
PendingFirst == pc = "flag" => elem \notin flagged

\* From the oldest report on, or from the one that follows the report a client named,
\* all are sent, in their order, and nextToTransmit is not followed when it is NULL,
\* unless one task used it under the other.
NothingSkipped ==
    clash \/ (next # Wild /\ \A i \in 1 .. next - 1 : i \in gone)

\* The last value of every entry gets to the client that enabled the block, with
\* the same exceptions.
Arrived(e) == value[e] = 0 \/ (Reported(queue, e) = value[e] /\ LastWith(queue, e) \in gone)
LastValueArrives == \A e \in Element : []<>(~enabled \/ clash \/ e \in lost \/ Arrived(e))

\* enqueueReport asserts of every entry it puts into a report on changes that its
\* value was buffered.
BufferedValueTaken == \A i \in DOMAIN queue : \A e \in DOMAIN queue[i] : queue[i][e] # Null
=============================================================================
