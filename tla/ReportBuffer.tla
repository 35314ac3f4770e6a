---------------------------- MODULE ReportBuffer ----------------------------
(***************************************************************************)
(* The buffer of a buffered report control block (reporting.c): reports of *)
(* different lengths in one memory block, linked from the oldest to the    *)
(* newest, that make room for each other from the old end; a client that   *)
(* loses its connection and comes back naming the last report it has.      *)
(*                                                                         *)
(* The linked list is the set of its reports: a report is linked behind    *)
(* the others with a greater entry id, so the order of the links is that   *)
(* of the ids, oldestReport the first and lastEnqueuedReport the newest.   *)
(* Addresses and lengths are in units of sizeof(void* ), to which          *)
(* entryLength is rounded up; an address is the offset in memoryBlock plus *)
(* one, and Null is 0, so that the comparisons of pointers are those of    *)
(* the code.  A report is numbered in the order of its entry id.  The      *)
(* option fields are taken to ask for entry id and overflow, as the data   *)
(* model has them.                                                         *)
(*                                                                         *)
(* A general interrogation removes the GI reports from the list, but does  *)
(* not move lastEnqueuedReport.  If that one is removed, what is enqueued  *)
(* afterwards hangs on a report that is on no list.  The model goes as far *)
(* as that step (severed) and no further.                                  *)
(***************************************************************************)
EXTENDS Integers

CONSTANTS
    Size,           \* memoryBlockSize
    ChangeSizes,    \* bufferEntrySize of a report on changes
    FullSize,       \* the same of a general interrogation or integrity report
    MaxReports      \* bound: reports enqueued

Null  == 0
Begin == 1          \* memoryBlock

ASSUME MemoryAssumption ==
    /\ Size \in Nat /\ FullSize \in Nat \ {0} /\ MaxReports \in Nat
    /\ ChangeSizes \subseteq Nat \ {0}

VARIABLES
    list,           \* the reports linked from oldestReport on
    nextToTransmit,
    isOverflow,
    lastEntryId,
    isResync,
    enabled,
    owner,      \* clientConnection: "client", the client's connection; "stale",
                \* one the client has lost, unnoticed; "none"
    severed,    \* the report enqueued last is no longer on the list
    seen,       \* history: the last report the client got
    withdrawn,  \* history: reports that were purged or replaced
    excused     \* history: the client will not be told of what it misses: a report
                \* was dropped alone, the flag was lost for want of memory, or a
                \* resynchronised block sent a report to a stale connection

buffer  == <<list, nextToTransmit, isOverflow, lastEntryId, severed>>
session == <<enabled, owner>>
history == <<seen, withdrawn, excused>>
vars    == <<buffer, isResync, session, history>>

Id    == 1 .. MaxReports
Addr  == Begin .. Size
Entry == [addr : Addr, entryLength : 1 .. Size, id : Id, gi : BOOLEAN]

\* The values every variable stays in.
TypeOK ==
    /\ list \subseteq Entry
    /\ nextToTransmit \in Addr \cup {Null}
    /\ isOverflow \in BOOLEAN /\ isResync \in BOOLEAN /\ enabled \in BOOLEAN
    /\ severed \in BOOLEAN /\ excused \in BOOLEAN
    /\ lastEntryId \in 0 .. MaxReports /\ seen \in 0 .. MaxReports
    /\ withdrawn \subseteq Id
    /\ owner \in {"none", "client", "stale"}

Init ==
    /\ list = {} /\ nextToTransmit = Null /\ isOverflow = TRUE
    /\ lastEntryId = 0 /\ severed = FALSE
    /\ isResync = FALSE /\ enabled = FALSE /\ owner = "none"
    /\ seen = 0 /\ withdrawn = {} /\ excused = FALSE

-----------------------------------------------------------------------------
\* The first and the last report of a list, and their addresses; an empty list
\* has none.
First(l)  == CHOOSE r \in l : \A s \in l : r.id <= s.id
Newest(l) == CHOOSE r \in l : \A s \in l : s.id <= r.id
Oldest(l) == IF l = {} THEN Null ELSE First(l).addr
Last(l)   == IF l = {} THEN Null ELSE Newest(l).addr

\* The reports from the one at an address on; none from Null on.
From(l, a)  == {r \in l : \E s \in l : s.addr = a /\ s.id <= r.id}
After(l, a) == {r \in l : \E s \in l : s.addr = a /\ s.id < r.id}

\* removeAllGIReportsFromReportBuffer: the list, and nextToTransmit, which goes
\* to the next report that stays.
RemoveAllGIReports(l) == {r \in l : ~r.gi}
\* Mutant: nextToTransmit stays on a report that is removed.
NextIfGI(l, a) == a
NextAfterGI(l, a) == Oldest(RemoveAllGIReports(From(l, a)))

\* isOverflow when a report is removed, that was transmitted or not.
\* Mutant: it is left as it is.
OverflowKept(ovf, unsent) == ovf
Overflow(ovf, unsent) == ovf \/ unsent

\* The loops of enqueueReport that remove old reports, as long as they are at an
\* address that is in the way, from what it has: the list, nextToTransmit and
\* isOverflow.
Remove(b, inTheWay) ==
    LET stay == {r \in b.list :
                   \E s \in b.list : s.id <= r.id /\ s.addr \notin inTheWay}
        unsent == \E r \in b.list \ stay : r.addr = b.next
    IN  [list |-> stay,
         next |-> IF unsent THEN Oldest(stay) ELSE b.next,
         ovf  |-> Overflow(b.ovf, unsent)]

\* Where the entry goes to, and what has to give way to it.  last and behind are
\* the address of the report enqueued last and of what follows it.
Fits(pos, size) == pos + size <= Begin + Size
\* Mutant: the end of the block is not looked at.
PositionUnbounded(last, behind, size) == IF last # Null THEN behind ELSE Begin
Position0(last, behind, size) ==
    IF last # Null /\ Fits(behind, size) THEN behind ELSE Begin

Covered(pos, size) == {o \in Addr : pos + size > o}
\* Mutant: a report of which only the first word is covered stays.
MakeRoomShort(b, last, behind, size) ==
    LET oldest  == Oldest(b.list)
        upper   == Addr \ {Begin}
    IN  IF last = Null THEN b
        ELSE IF last = oldest
        THEN IF Fits(behind, size) THEN b ELSE [b EXCEPT !.list = {}, !.next = Null]
        ELSE IF last > oldest
        THEN IF Fits(behind, size) THEN b ELSE Remove(b, Covered(Begin, size - 1))
        ELSE IF Fits(behind, size) THEN Remove(b, Covered(behind, size - 1) \ {Begin})
             ELSE Remove(Remove(b, upper), Covered(Begin, size - 1))
MakeRoom(b, last, behind, size) ==
    LET oldest  == Oldest(b.list)
        upper   == Addr \ {Begin}
    IN  IF last = Null THEN b
        ELSE IF last = oldest
        THEN IF Fits(behind, size) THEN b ELSE [b EXCEPT !.list = {}, !.next = Null]
        ELSE IF last > oldest
        THEN IF Fits(behind, size) THEN b ELSE Remove(b, Covered(Begin, size))
        ELSE IF Fits(behind, size) THEN Remove(b, Covered(behind, size) \ {Begin})
             ELSE Remove(Remove(b, upper), Covered(Begin, size))

\* enqueueReport.  A report that is larger than the whole buffer is skipped.
\* A history: alone, a report that was never transmitted goes without a word.
Ids(l) == {r.id : r \in l}
EnqueueReport(gi, size) ==
    /\ ~severed /\ lastEntryId < MaxReports /\ size <= Size
    /\ LET last   == Last(list)
           behind == IF list = {} THEN Begin ELSE last + Newest(list).entryLength
           b0 == IF gi THEN [list |-> RemoveAllGIReports(list),
                             next |-> NextAfterGI(list, nextToTransmit),
                             ovf  |-> isOverflow]
                 ELSE [list |-> list, next |-> nextToTransmit, ovf |-> isOverflow]
           b1 == MakeRoom(b0, last, behind, size)
           e  == [addr |-> Position0(last, behind, size), entryLength |-> size,
                  id |-> lastEntryId + 1, gi |-> gi]
           alone == last = Oldest(b0.list) /\ b0.next # Null /\ b1.list = {}
       IN  /\ list' = b1.list \cup {e}
           /\ nextToTransmit' = IF b1.next = Null THEN e.addr ELSE b1.next
           /\ isOverflow' = b1.ovf
           /\ severed' = (last # Last(b0.list))
           /\ withdrawn' = withdrawn \cup (Ids(list) \ Ids(b0.list))
           /\ excused' = (excused \/ (alone /\ ~b1.ovf))
    /\ lastEntryId' = lastEntryId + 1
    /\ UNCHANGED <<isResync, session, seen>>

EnqueueChange    == \E size \in ChangeSizes : EnqueueReport(FALSE, size)
EnqueueIntegrity == EnqueueReport(FALSE, FullSize)
EnqueueGI        == enabled /\ EnqueueReport(TRUE, FullSize)

-----------------------------------------------------------------------------
\* sendNextReportEntry.  What is sent to a stale connection is lost.
SendNextReportEntry ==
    /\ ~severed /\ enabled /\ nextToTransmit # Null
    /\ \E r \in list :
         /\ r.addr = nextToTransmit
         /\ nextToTransmit' = Oldest(After(list, r.addr))
         /\ IF owner = "client"
            THEN seen' = r.id /\ excused' = (excused /\ ~isOverflow)
            ELSE excused' = (excused \/ isResync) /\ UNCHANGED seen
    /\ isOverflow' = FALSE
    /\ UNCHANGED <<list, lastEntryId, severed, isResync, session, withdrawn>>

\* The storage it makes the report in is used up, after the overflow was put into
\* it: nothing is sent, and the flag is gone.
SendOutOfMemory ==
    /\ ~severed /\ enabled /\ nextToTransmit # Null
    /\ isOverflow /\ isOverflow' = FALSE
    /\ excused' = TRUE
    /\ UNCHANGED <<list, nextToTransmit, lastEntryId, severed, isResync, session,
                   seen, withdrawn>>

\* RptEna is written TRUE, be the block enabled or not.
Enable ==
    /\ ~severed
    /\ owner' = "client" /\ enabled' = TRUE
    /\ IF isResync
       THEN UNCHANGED <<nextToTransmit, isOverflow, excused>>
       ELSE nextToTransmit' = Oldest(list) /\ isOverflow' = TRUE /\ excused' = FALSE
    /\ isResync' = FALSE
    /\ UNCHANGED <<list, lastEntryId, severed, seen, withdrawn>>

\* RptEna is written FALSE.
Disable ==
    /\ ~severed /\ enabled /\ owner = "client"
    /\ owner' = "none" /\ enabled' = FALSE
    /\ isOverflow' = TRUE /\ isResync' = FALSE
    /\ UNCHANGED <<list, nextToTransmit, lastEntryId, severed, history>>

\* EntryID is written: the last report the client has, which is still there or
\* not, or zero.
WriteEntryID ==
    /\ ~severed /\ seen # 0
    /\ IF seen \in Ids(list)
       THEN \E r \in list :
              /\ r.id = seen
              /\ nextToTransmit' = Oldest(After(list, r.addr))
              /\ isResync' = TRUE /\ isOverflow' = FALSE
       ELSE isOverflow' = TRUE /\ UNCHANGED <<nextToTransmit, isResync>>
    /\ excused' = FALSE
    /\ UNCHANGED <<list, lastEntryId, severed, session, seen, withdrawn>>

WriteZeroEntryID ==
    /\ ~severed
    /\ nextToTransmit' = Oldest(list) /\ isOverflow' = TRUE /\ isResync' = FALSE
    /\ excused' = FALSE
    /\ UNCHANGED <<list, lastEntryId, severed, session, seen, withdrawn>>

\* purgeBuf: PurgeBuf is written, or the block is configured anew.
PurgeBuf ==
    /\ ~severed /\ list # {}
    /\ list' = {} /\ nextToTransmit' = Null
    /\ withdrawn' = withdrawn \cup Ids(list)
    /\ UNCHANGED <<isOverflow, lastEntryId, severed, isResync, session, seen, excused>>

\* The client's connection breaks; the server closes a connection.
LinkFails ==
    /\ ~severed /\ owner = "client" /\ owner' = "stale"
    /\ UNCHANGED <<buffer, isResync, enabled, history>>

DeactivateReportsForConnection ==
    /\ ~severed /\ owner # "none" /\ owner' = "none" /\ enabled' = FALSE
    /\ UNCHANGED <<buffer, isResync, history>>

Next ==
    \/ EnqueueChange \/ EnqueueIntegrity \/ EnqueueGI
    \/ SendNextReportEntry \/ SendOutOfMemory
    \/ Enable \/ Disable \/ WriteEntryID \/ WriteZeroEntryID \/ PurgeBuf
    \/ LinkFails \/ DeactivateReportsForConnection

Spec == Init /\ [][Next]_vars

-----------------------------------------------------------------------------
\* The reports on the list lie in the memory block, and apart from each other,
\* whatever was removed to make room: no report is written over one that a
\* client may still be sent.
Apart(d, e) == d.addr + d.entryLength <= e.addr \/ e.addr + e.entryLength <= d.addr
EntriesApart ==
    ~severed => /\ \A r \in list : Fits(r.addr, r.entryLength)
                /\ \A r, s \in list : r # s => Apart(r, s)

\* What is transmitted next is on the list: the pointer that walks the list
\* never stays on a report that was removed to make room, replaced or purged.
NextIsListed ==
    ~severed => nextToTransmit = Null \/ \E r \in list : r.addr = nextToTransmit

\* A client that gets a report without the overflow flag has not missed one, over
\* any number of lost connections: each report between the last it got and this
\* one was purged, or was a GI report that a newer one replaced.  What the code does
\* otherwise is excused, by name.
NoSilentGap ==
    [][(seen' # seen /\ ~isOverflow /\ ~excused)
         => \A i \in seen + 1 .. seen' - 1 : i \in withdrawn]_vars

\* The buffer keeps what ReportQueue promises, up to the step that severs it.
Reports(l) == {[id |-> r.id, gi |-> r.gi] : r \in l}
Queue == INSTANCE ReportQueue WITH
    Report   <- [id : Id, gi : BOOLEAN],
    queue    <- Reports(list),
    pending  <- Reports(From(list, nextToTransmit)),
    overflow <- isOverflow
KeepsQueue == Queue!QInit /\ [][Queue!QNext \/ severed']_<<Queue!qvars, severed>>
=============================================================================
