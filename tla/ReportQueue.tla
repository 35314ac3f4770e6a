---------------------------- MODULE ReportQueue -----------------------------
(***************************************************************************)
(* What a report buffer promises, whatever the memory it is kept in: the   *)
(* reports that are retained, in the order of their ids, those of them     *)
(* that are still to be transmitted, and whether the client is to be told  *)
(* that reports were lost.  Room is made at the old end only, and a report *)
(* that is lost there without having been transmitted sets the flag.       *)
(*                                                                         *)
(* Two exceptions are what the code really does: a report that is alone in *)
(* the buffer gives way to its successor without the flag (DropAlone), and *)
(* a transmission that fails for lack of memory may cost the flag          *)
(* (Forget).  ReportBuffer refines this module.                            *)
(***************************************************************************)
EXTENDS Integers

CONSTANT Report     \* the reports: records with an id and a BOOLEAN gi

VARIABLES
    queue,      \* the reports retained
    pending,    \* those still to be transmitted
    overflow    \* isOverflow

qvars == <<queue, pending, overflow>>

QInit == queue = {} /\ pending = {} /\ overflow = TRUE

\* What a new report finds: a GI report replaces those that are queued.
Kept(S, r)  == {q \in S : ~(r.gi /\ q.gi)}
Newest(S, r) == \A q \in S : q.id < r.id
OldEnd(gone, S) == gone \subseteq S /\ \A g \in gone, q \in S \ gone : g.id < q.id

Enqueue ==
    \E r \in Report, gone \in SUBSET queue :
        /\ Newest(queue, r) /\ OldEnd(gone, Kept(queue, r))
        /\ queue' = (Kept(queue, r) \ gone) \cup {r}
        /\ pending' = (Kept(pending, r) \ gone) \cup {r}
        /\ overflow' = (overflow \/ gone \cap Kept(pending, r) # {})

DropAlone ==
    \E r \in Report, q \in queue :
        /\ Newest(queue, r) /\ Kept(queue, r) = {q}
        /\ queue' = {r} /\ pending' = {r}
        /\ UNCHANGED overflow

Transmit ==
    /\ \E r \in pending : /\ \A q \in pending : r.id <= q.id
                          /\ pending' = pending \ {r}
    /\ overflow' = FALSE
    /\ UNCHANGED queue

Forget == overflow' = FALSE /\ UNCHANGED <<queue, pending>>

\* The client names the last report it has: known, or not.
Resync ==
    /\ \E r \in queue : pending' = {q \in queue : q.id > r.id}
    /\ overflow' = FALSE
    /\ UNCHANGED queue

\* From the oldest report on, with a warning, or only the warning.
Restart == pending' = queue /\ overflow' = TRUE /\ UNCHANGED queue
Warn    == overflow' = TRUE /\ UNCHANGED <<queue, pending>>

Purge == queue' = {} /\ pending' = {} /\ UNCHANGED overflow

QNext == \/ Enqueue \/ DropAlone \/ Transmit \/ Forget
         \/ Resync \/ Restart \/ Warn \/ Purge

QSpec == QInit /\ [][QNext]_qvars
=============================================================================
