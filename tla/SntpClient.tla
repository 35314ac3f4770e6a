----------------------------- MODULE SntpClient -----------------------------
(***************************************************************************)
(* The SNTP client: the task of the IEC 61850 server asks a time server    *)
(* every SNTP_Period, and from the answer works out by how much the clock  *)
(* is to be moved (prvReadTime).  The real time clock can only be set to a *)
(* whole second, so the task first waits until moving the clock takes it   *)
(* to the beginning of a second.  Meanwhile time goes on, and the poll     *)
(* task may set the same clock from the relay.                             *)
(*                                                                         *)
(* Times are in milliseconds.  The server's clock is taken to be right and *)
(* err is how far the module's clock is ahead of it.  A request carries    *)
(* the module's time, so that what the server answers is described by the  *)
(* err of the moment of sending and by how long the request took.  The     *)
(* network loses, delays and reorders.                                     *)
(***************************************************************************)
EXTENDS Integers, Sequences

CONSTANTS
    Secunda,        \* milliseconds in a second
    Width,          \* values of a uint16_t
    Period,         \* milliseconds between two requests
    SNTP_Period,    \* the same in minutes, as the calibration is told
    Errs,           \* bound: how far the clock is off when the relay set it
    MaxRequests,    \* bound: requests sent
    MaxTravel,      \* bound: how long a request takes to the server
    MaxLag,         \* bound: how late the task resumes after its wait
    MaxNet,         \* bound: answers under way or in the socket
    MaxSets         \* bound: times the relay sets the clock

ASSUME ClockAssumption ==
    /\ Secunda \in Nat /\ Width \in Nat /\ MaxLag \in Nat /\ MaxTravel \in Nat
    /\ Width > 2 * Secunda + 1
    /\ MaxLag + 1 < Secunda
ASSUME BoundsAssumption ==
    /\ Period \in Nat \ {0} /\ SNTP_Period \in Nat \ {0}
    /\ Errs \subseteq Int /\ MaxRequests \in Nat /\ MaxNet \in Nat /\ MaxSets \in Nat

\* Division of C: the quotient is cut off towards zero.
CQuot(a, b) == IF a >= 0 THEN a \div b ELSE -((-a) \div b)
CRem(a, b)  == a - b * CQuot(a, b)
Int16(a)    == ((a + 32768) % 65536) - 32768

VARIABLES
    pc,         \* where the task is: "loop", after sending "recv", or "wait"
    phase,      \* the module's clock, modulo a second
    err,        \* the module's clock, minus the right time
    due,        \* nextSynchTimeNTP, minus the module's clock; -1: it is past
    ready,      \* resynchNTP_ready
    reqs,       \* requests on their way
    answers,    \* answers on their way
    sock,       \* answers in the socket
    corr,       \* CorrectTimeMS
    wait,       \* what is left of DelayTimeMSForWait
    lag,        \* time since the wait was over
    own,        \* history: corr answers the last request, and the clock has not
                \* been set since that was sent
    correct, calib,     \* Hal_setCalibrTime: its static, and the register
    requests, sets      \* how much of the bounds is used up

clock == <<phase, err>>
net   == <<reqs, answers, sock>>
held  == <<corr, wait, lag, own>>
cal   == <<correct, calib>>
spent == <<requests, sets>>
vars  == <<pc, clock, due, ready, net, held, cal, spent>>

\* A request: the err it was sent with and its age.  An answer: the correction
\* that follows from it, and whether the datagram is complete.  Both: cur is
\* the history of own.
Request == [sent : Int, age : 0 .. MaxTravel, cur : BOOLEAN]
Answer  == [corr : Int, whole : BOOLEAN, cur : BOOLEAN]

\* The values every variable stays in.
TypeOK ==
    /\ pc \in {"loop", "recv", "wait"}
    /\ phase \in 0 .. Secunda - 1 /\ err \in Int
    /\ due \in Int /\ due >= -1
    /\ ready \in BOOLEAN /\ own \in BOOLEAN
    /\ reqs \subseteq Request /\ answers \subseteq Answer /\ sock \in Seq(Answer)
    /\ corr \in Int /\ wait \in 0 .. 2 * Secunda + 1 /\ lag \in 0 .. MaxLag
    /\ correct \in -63 .. 127
    /\ calib \in [sign : {"NEGATIVE", "POSITIVE"}, value : 0 .. 31]
    /\ requests \in 0 .. MaxRequests /\ sets \in 0 .. MaxSets

Init ==
    /\ pc = "loop"
    /\ phase \in 0 .. Secunda - 1 /\ err \in Errs
    /\ due = 0 /\ ready = TRUE
    /\ reqs = {} /\ answers = {} /\ sock = << >>
    /\ corr = 0 /\ wait = 0 /\ lag = 0 /\ own = FALSE
    /\ correct = 0 /\ calib = [sign |-> "POSITIVE", value |-> 0]
    /\ requests = 0 /\ sets = 0

\* What was sent or answered before no longer fits the request or the clock.
Outdate ==
    /\ answers' = {[a EXCEPT !.cur = FALSE] : a \in answers}
    /\ sock' = [i \in DOMAIN sock |-> [sock[i] EXCEPT !.cur = FALSE]]
Outdated(rs) == {[r EXCEPT !.cur = FALSE] : r \in rs}

-----------------------------------------------------------------------------
\* prvNTPPacketInit: a request carries the time of the module's clock.
NTPPacket == [sent |-> err, age |-> 0, cur |-> TRUE]

\* currentTime > nextSynchTimeNTP: a request is sent, or sendto fails.
SendRequest ==
    /\ pc = "loop" /\ due < 0
    /\ requests < MaxRequests /\ requests' = requests + 1
    /\ reqs' = Outdated(reqs) \cup {NTPPacket}
    /\ Outdate
    /\ ready' = FALSE /\ pc' = "recv" /\ due' = Period
    /\ UNCHANGED <<clock, held, cal, sets>>

SendFails ==
    /\ pc = "loop" /\ due < 0
    /\ due' = Period
    /\ pc' = IF ready THEN "loop" ELSE "recv"
    /\ UNCHANGED <<clock, ready, net, held, cal, spent>>

\* The socket is looked at, at every turn until an answer was read.
Listening == pc = "recv" \/ (pc = "loop" /\ due >= 0 /\ ~ready)

\* recvfrom times out, or the datagram is too short to be an answer.
ReceiveNothing ==
    /\ Listening
    /\ \/ sock = << >> /\ sock' = sock
       \/ sock # << >> /\ ~Head(sock).whole /\ sock' = Tail(sock)
    /\ pc' = "loop"
    /\ UNCHANGED <<clock, due, ready, reqs, answers, held, cal, spent>>

\* Mutant: a negative correction waits for the second under way, though it is
\* too short.
DelaySameSecond(t, c) ==
    LET StrobeSynchTime == (t - 1) % Width
        DelayTimeMS == (IF c < 0 THEN -c ELSE c) % Secunda
        toSecond == Secunda - StrobeSynchTime
    IN  (IF c > 0
           THEN IF DelayTimeMS > toSecond THEN toSecond + (Secunda - DelayTimeMS)
                                          ELSE toSecond - DelayTimeMS
           ELSE IF c = 0 THEN 0
           ELSE IF DelayTimeMS > StrobeSynchTime
                  THEN DelayTimeMS - StrobeSynchTime
                  ELSE DelayTimeMS) % Width

\* What to wait, when the clock shows t milliseconds and is to be moved by c:
\* then it shows one millisecond past a second.  In uint16_t.
Delay(t, c) ==
    LET StrobeSynchTime == (t - 1) % Width
        DelayTimeMS == (IF c < 0 THEN -c ELSE c) % Secunda
        toSecond == Secunda - StrobeSynchTime
    IN  (IF c > 0
           THEN IF DelayTimeMS > toSecond THEN toSecond + (Secunda - DelayTimeMS)
                                          ELSE toSecond - DelayTimeMS
           ELSE IF c = 0 THEN 0
           ELSE IF DelayTimeMS > StrobeSynchTime
                  THEN DelayTimeMS - StrobeSynchTime
                  ELSE toSecond + DelayTimeMS) % Width

\* prvReadTime up to vTaskDelay.
ReceiveAnswer ==
    /\ Listening
    /\ sock # << >> /\ Head(sock).whole
    /\ sock' = Tail(sock)
    /\ corr' = Head(sock).corr /\ own' = Head(sock).cur
    /\ wait' = Delay(phase, Head(sock).corr) /\ lag' = 0
    /\ pc' = "wait"
    /\ UNCHANGED <<clock, due, ready, reqs, answers, cal, spent>>

\* Mutant: the calibration is not limited.
CalibrUnlimited(timeCal) ==
    LET raw == CQuot(CQuot(timeCal * 100, 6), SNTP_Period)
        ppm == IF raw > 1000 \/ raw < -1000 THEN 0 ELSE raw
    IN  /\ correct' = correct + CQuot(ppm, 2)
        /\ calib' = IF correct' < 0 /\ ppm # 0
                      THEN [sign |-> "NEGATIVE", value |-> (-correct') \div 2]
                    ELSE IF correct' > 0 /\ ppm # 0
                      THEN [sign |-> "POSITIVE", value |-> correct' \div 4]
                    ELSE calib

\* Hal_setCalibrTime: the drift of a period in ppm goes into the register, in
\* steps of 2 ppm one way and of 4 the other.
Hal_setCalibrTime(timeCal) ==
    LET raw == CQuot(CQuot(timeCal * 100, 6), SNTP_Period)
        ppm == IF raw > 1000 \/ raw < -1000 THEN 0 ELSE raw
        sum == correct + CQuot(ppm, 2)
    IN  /\ correct' = IF sum > 127 THEN 127 ELSE IF sum < -63 THEN -63 ELSE sum
        /\ calib' = IF correct' < 0 /\ ppm # 0
                      THEN [sign |-> "NEGATIVE", value |-> (-correct') \div 2]
                    ELSE IF correct' > 0 /\ ppm # 0
                      THEN [sign |-> "POSITIVE", value |-> correct' \div 4]
                    ELSE calib

\* The clock is moved by c.  Its calendar is set to a whole second: the part of a
\* second that it should show is cut off.
Hal_setTimeInMs(c) ==
    /\ err' = err + c - ((phase + c) % Secunda)
    /\ phase' = 0

\* Mutant: the clock is moved without waiting.
CorrectEarly ==
    /\ pc = "wait"
    /\ IF corr # 0
         THEN Hal_setTimeInMs(corr) /\ reqs' = Outdated(reqs) /\ Outdate
         ELSE UNCHANGED <<clock, net>>
    /\ Hal_setCalibrTime(CRem(Int16(corr), 1000))
    /\ ready' = TRUE /\ due' = Period
    /\ pc' = "loop" /\ corr' = 0 /\ wait' = 0 /\ lag' = 0 /\ own' = FALSE
    /\ UNCHANGED spent

\* prvReadTime after vTaskDelay.  The relay's clock is set as well (SntpSet of
\* PollTask), and the next request is due in a period.
Correct ==
    /\ pc = "wait" /\ wait = 0
    /\ IF corr # 0
         THEN /\ Hal_setTimeInMs(corr)
              /\ reqs' = Outdated(reqs) /\ Outdate
         ELSE UNCHANGED <<clock, net>>
    /\ Hal_setCalibrTime(CRem(Int16(corr), 1000))
    /\ ready' = TRUE /\ due' = Period
    /\ pc' = "loop" /\ corr' = 0 /\ lag' = 0 /\ own' = FALSE
    /\ UNCHANGED <<wait, spent>>

-----------------------------------------------------------------------------
\* A millisecond passes.
Tick ==
    /\ \A r \in reqs : r.age < MaxTravel
    /\ pc = "wait" /\ wait = 0 => lag < MaxLag
    /\ phase' = IF phase = Secunda - 1 THEN 0 ELSE phase + 1
    /\ due' = IF due < 0 THEN due ELSE due - 1
    /\ IF wait > 0 THEN wait' = wait - 1 /\ lag' = lag
                   ELSE wait' = 0 /\ lag' = IF pc = "wait" THEN lag + 1 ELSE lag
    /\ reqs' = {[r EXCEPT !.age = @ + 1] : r \in reqs}
    /\ UNCHANGED <<pc, err, ready, answers, sock, corr, own, cal, spent>>

\* The server receives a request and answers with the time of reception and
\* the time the request was sent: the correction is the first minus the other.
ServerAnswers(r) ==
    /\ reqs' = reqs \ {r}
    /\ \E w \in BOOLEAN :
         answers' = answers \cup {[corr |-> r.age - r.sent, whole |-> w, cur |-> r.cur]}
    /\ UNCHANGED <<pc, clock, due, ready, sock, held, cal, spent>>

Deliver(a) ==
    /\ Len(sock) < MaxNet
    /\ answers' = answers \ {a} /\ sock' = Append(sock, a)
    /\ UNCHANGED <<pc, clock, due, ready, reqs, held, cal, spent>>

Lose ==
    /\ \/ (\E r \in reqs : reqs' = reqs \ {r}) /\ answers' = answers
       \/ (\E a \in answers : answers' = answers \ {a}) /\ reqs' = reqs
    /\ UNCHANGED <<pc, clock, due, ready, sock, held, cal, spent>>

\* The poll task reads block 11 and sets the clock to the relay's, which is off
\* by e.
Hal_setTimeFromMB_Date(e) ==
    /\ sets < MaxSets /\ sets' = sets + 1
    /\ err' = e /\ phase' = 0
    /\ due' = IF due < 0 \/ due + err < e THEN -1 ELSE due + err - e
    /\ own' = FALSE /\ reqs' = Outdated(reqs) /\ Outdate
    /\ UNCHANGED <<pc, ready, corr, wait, lag, cal, requests>>

-----------------------------------------------------------------------------
Task == SendRequest \/ SendFails \/ ReceiveNothing \/ ReceiveAnswer \/ Correct
Network == \/ \E r \in reqs : ServerAnswers(r)
           \/ \E a \in answers : Deliver(a)
           \/ Lose
Next == Task \/ Tick \/ Network \/ \E e \in Errs : Hal_setTimeFromMB_Date(e)

Spec == Init /\ [][Next]_vars

-----------------------------------------------------------------------------
\* However the clock stands, also in the millisecond in which StrobeSynchTime
\* wraps round, and whichever way it is to be moved, the wait ends when moving it
\* takes it one millisecond past a second; every millisecond the task resumes
\* late adds one (prvReadTime, the branches of DelayTimeMSForWait).
OnTheSecond ==
    pc = "wait" /\ own /\ corr # 0 =>
        (phase + wait + corr) % Secunda = 1 + lag

\* An answer to the last request, with no setting of the clock since, leaves
\* the clock off by no more than the request's journey forwards and the strobe
\* and the task's lag backwards (prvReadTime, from request to setting).
SyncAccurate ==
    [][pc = "wait" /\ pc' = "loop" /\ own => err' \in -(1 + MaxLag) .. MaxTravel]_vars

\* The comment of prvReadTime: a positive correction says that the server's time
\* is ahead of the clock, which is then to be moved forward.
ForwardWhenBehind ==
    [][pc = "wait" /\ pc' = "loop" /\ corr > MaxTravel => err < 0]_vars

=============================================================================
