--------------------------- MODULE MbExchange_proofs ---------------------------
(***************************************************************************)
(* One exchange at a time: with a relay that answers within the period and *)
(* no time to write, an answer is only ever taken for the request it       *)
(* answers, the master never talks over the relay, and the quality is GOOD *)
(* again only on a reply received after the timeout.  The proofs hold for  *)
(* every timing of the task, the interrupts and the relay.                 *)
(***************************************************************************)
EXTENDS MbMaster_proofs

\* Ticks after TimerReadMB was taken by which the request has been sent, the
\* respond timer has run out and the relay has answered.
SentBy == MaxLag + TxTime
TimedOutBy == SentBy + Respond
AnsweredBy == SentBy + ReplyMax

\* The relay answers before the next paced request is due; and the SNTP
\* client, whose time command is written whatever the pace, is off.
PromptRelay == AnsweredBy < Period
ClockLeftAlone == MaxSets = 0

\* From the request function to eMBMasterRTUSend.
Requesting ==
    \/ pc \in {"post", "store"} /\ post = "FRAME_SENT"
    \/ "FRAME_SENT" \in ev
    \/ pc \in {"clear", "dispatch"} /\ "FRAME_SENT" \in reg

\* Copies of the event word that will be written back or dispatched.
Copied == pc \in {"store", "waited", "clear", "dispatch"}

-----------------------------------------------------------------------------
(* What holds whatever the timers do.                                      *)

\* FRAME_SENT goes from the request function to its handler in one iteration of
\* the task, before any other event is handled and before a tick of the pace.
RequestWay ==
    /\ "FRAME_SENT" \in ev => pc \in {"wait", "waited", "poll", "clear"}
    /\ pc \in {"wait", "waited"} => "FRAME_SENT" \in ev
    /\ pc = "waited" => "FRAME_SENT" \in reg
    /\ "FRAME_SENT" \in reg => pc \in {"waited", "clear", "dispatch", "return"}
    /\ pc = "clear" /\ "FRAME_SENT" \in ev => "FRAME_SENT" \in reg
    /\ Requesting => since = lag

\* What the poll task posts is taken by its next poll; a receive handler that
\* interrupted the task has the task's events in its copy.
EventWay ==
    /\ "EXECUTE" \in ev => pc \notin {"dispatch", "rtustart"}
    /\ pc \in {"post", "store"} => post # "FRAME_RECEIVED"
    /\ isr = "rxstore" => /\ isrReg \subseteq ev
                          /\ "FRAME_SENT" \in ev => "FRAME_SENT" \in isrReg
    /\ Nextread => pc = "loop"

\* The request, the relay's work and the reply end by their deadlines, counted
\* from the iteration that made the request.
Clock ==
    /\ txLeft >= 0 => since + txLeft <= SentBy
    /\ isr \in {"tx", "txstate", "txtimer"} => since <= SentBy
    /\ slLeft >= 0 => since + slLeft <= AnsweredBy

\* A timeout alone in a copy of the event word, while a request is on the
\* line, was posted with the receive DMA stopped.
LateTimeouts ==
    /\ ev = {"ERROR_PROCESS"} /\ errType = "RESPOND_TIMEOUT" =>
         /\ txLeft >= 0 => rxDma = 0
         /\ pc = "dispatch" /\ "FRAME_SENT" \in reg =>
              rxDma = 0 /\ txLeft = -1 /\ isr \notin {"tx", "txstate"}
    /\ Copied /\ reg = {"ERROR_PROCESS"} /\ errType = "RESPOND_TIMEOUT" /\ txLeft >= 0
       => rxDma = 0
    /\ pc \in {"post", "store"} /\ post = "ERROR_PROCESS" /\ errType = "RESPOND_TIMEOUT"
       => txLeft = -1

Control == ~timeCmd /\ RequestWay /\ EventWay /\ Clock /\ LateTimeouts

-----------------------------------------------------------------------------
(* What holds of an exchange no stale timer has cut short.                 *)

LineQuiet == slLeft = -1 /\ txLeft = -1 /\ ~rxDone /\ isr = "none"

\* Nothing more is coming: only a frame that has been copied is being announced.
Copy == slLeft = -1 /\ txLeft = -1 /\ ~rxDone
        /\ isr \in {"none", "rxstate", "rxstore"}

\* The last frame copied has a matching CRC.
Good == rcvBuf \in Requests
\* and answers the request in the send buffer, unless the next one is on its way.
Own == Copy /\ (Requesting \/ rcvBuf = sndBuf)

\* One thing at a time is on the line: the request, the relay's work on it,
\* the reply.
OneOnLine ==
    /\ txLeft >= 0 => slLeft = -1 /\ ~rxDone /\ isr = "none"
    /\ slLeft >= 0 => ~rxDone /\ isr \in {"none", "tx", "txstate", "txtimer"}
    /\ rxDone => isr = "none"
    /\ isr \in {"tx", "txstate", "txtimer"} => slLeft # 0

\* and it belongs to the request in the send buffer.
OneRequest ==
    /\ txLeft >= 0 => txReq = sndBuf
    /\ slLeft >= 0 => slReq = sndBuf
    /\ (rxDone \/ isr = "rx") /\ dmaBuf \in Requests => dmaBuf = sndBuf

\* The sender's state tells where the request is, and its timer is its own.
Sender ==
    /\ eSndState = "XMIT" <=> txLeft >= 0 \/ isr \in {"tx", "txstate"}
    /\ isr = "txtimer" => eSndState = "XFWR"
    /\ eSndState = "XFWR" /\ isr # "txtimer" => timer >= 0 /\ since + timer <= TimedOutBy

\* While a request is sent and its answer awaited no event is pending.
SenderAlone ==
    eSndState # "IDLE" =>
        /\ ev = {} /\ ret # "ERECVDATA" /\ ~Nextread
        /\ pc \in {"loop", "poll", "clear", "return"} /\ (pc = "clear" => reg = {})
        /\ eRcvState # "INIT" /\ isr \notin {"rxstate", "rxstore"}

\* The timer of an exchange that has received something, or may yet.
RxLive == rxDma > 0 \/ rxDone \/ isr \in {"rx", "rxstate", "rxstore"}
OwnTimer ==
    /\ timer >= 0 /\ isr \notin {"tx", "txstate", "txtimer"}
         => ~(eRcvState = "RCV" \/ RxLive) \/ since + timer <= TimedOutBy
    /\ eRcvState = "INIT" \/ pc = "rtustart"
         => ~RxLive /\ eSndState = "IDLE" /\ eRcvState # "RCV"

\* A frame has been copied, and the 3.5 character timer will announce it.
Ringing == eRcvState = "RCV" /\ timer >= 0

\* A request goes out on a quiet line, with no event beside it.
QuietRequest ==
    /\ Requesting => LineQuiet /\ eSndState = "IDLE"
    /\ pc = "dispatch" /\ "FRAME_SENT" \in reg => ev = {}
    /\ Requesting /\ Ringing =>
         ev \subseteq {"FRAME_SENT"} /\ (Copied => reg \subseteq {"FRAME_SENT"})

\* A timeout alone is reported with the receive DMA stopped.
TimeoutAlone(E) ==
    "ERROR_PROCESS" \in E /\ "FRAME_RECEIVED" \notin E /\ errType = "RESPOND_TIMEOUT"
        => rxDma = 0
Timeouts ==
    /\ TimeoutAlone(ev)
    /\ Copied => TimeoutAlone(reg)
    /\ pc \in {"post", "store"} /\ post = "ERROR_PROCESS" => errType # "RESPOND_TIMEOUT"

\* A good frame announced alone is the reply to the request in the buffer.
Announced(E) == "FRAME_RECEIVED" \in E /\ Good => "ERROR_PROCESS" \in E \/ Own
Replies ==
    /\ Announced(ev)
    /\ Copied => Announced(reg)
    /\ isr \in {"rxstate", "rxstore"} /\ Good => Own
    /\ Ringing /\ eSndState = "IDLE" /\ Good => Own

\* EXECUTE has been, or is being, posted.
Executing == \/ "EXECUTE" \in ev \/ (pc \in {"post", "store"} /\ post = "EXECUTE")
             \/ (Copied /\ "EXECUTE" \in reg)
\* From the check of a reply to the next request nothing else comes.
Execution ==
    /\ Executing => frame = "rcv" /\ Good /\ LineQuiet /\ Own
    /\ ret = "ERECVDATA" => pc = "return" /\ LineQuiet
    /\ Nextread => LineQuiet
    /\ Ringing /\ ((pc = "dispatch" /\ reg = {"EXECUTE"}) \/ ret = "ERECVDATA" \/ Nextread)
         => ev = {}

Clean ==
    /\ OneOnLine /\ OneRequest /\ Sender /\ SenderAlone /\ OwnTimer
    /\ QuietRequest /\ Timeouts /\ Replies /\ Execution

-----------------------------------------------------------------------------
(* What holds after a reported timeout, until a good reply comes.          *)

\* Something may still come: a request is on the line or with the relay, or
\* a reply has not been copied.
Expecting == \/ txLeft >= 0 \/ slLeft >= 0 \/ rxDone
             \/ isr \in {"tx", "txstate", "txtimer", "rx"}

\* No good reply is between its check and the flag it sets.
NothingGood == ~Executing /\ ret # "ERECVDATA" /\ ~Nextread

\* A frame announced in E will not be looked at alone.
Doomed(E) == {"READY", "ERROR_PROCESS"} \cap E # {}
Dooming == pc = "rtustart" \/ (pc \in {"post", "store"} /\ post = "READY")
\* The frame of before the timeout is not announced alone; one announced alone
\* was copied when the receiver was idle, and is not good.
OldFrame ==
    LET old == Good \/ eRcvState = "INIT" IN
    /\ old /\ "FRAME_RECEIVED" \in ev => Doomed(ev) \/ Dooming
    /\ old /\ Copied /\ "FRAME_RECEIVED" \in reg => Doomed(reg) \/ Dooming
    /\ isr \in {"rxstate", "rxstore"} => ~Good /\ eRcvState # "INIT"
    /\ Good /\ eRcvState = "RCV" => eSndState = "XFWR"

\* One thing at a time is on the line, or what else is cannot be received.
OneReply ==
    /\ txLeft >= 0 => ~rxDone /\ isr = "none" /\ (slLeft = -1 \/ rxDma = 0)
    /\ slLeft >= 0 => ~rxDone /\ isr \in {"none", "tx", "txstate", "txtimer"}
    /\ rxDone => isr = "none"
    /\ isr \in {"tx", "txstate", "txtimer"} => slLeft # 0

\* A receiver that has a frame while another may still come has not announced
\* it, and the sender is still busy with the request.
Awaited ==
    /\ eRcvState = "RCV" /\ Expecting =>
         /\ "FRAME_RECEIVED" \notin ev /\ (Copied => "FRAME_RECEIVED" \notin reg)
         /\ eSndState = IF txLeft >= 0 \/ isr \in {"tx", "txstate"} THEN "XMIT" ELSE "XFWR"
    /\ Requesting => LineQuiet
    /\ pc = "dispatch" /\ "FRAME_SENT" \in reg /\ eRcvState = "RCV"
         => "FRAME_RECEIVED" \notin ev

Stale == NothingGood /\ OldFrame /\ OneReply /\ Awaited

\* The inductive invariant.
Exchange == IInv /\ Control /\ (cut \/ Clean) /\ (fresh \/ Stale)

-----------------------------------------------------------------------------
(* What the actions that set a history variable, or choose among flags, do *)
(* to the rest of the state.                                               *)

LEMMA ErrorEffect ==
    ASSUME HError
    PROVE
      /\ pc = "dispatch" /\ isr = "none" /\ ~rxDone /\ reg = {"ERROR_PROCESS"}
      /\ frame' = "snd" /\ ret' \in {"ETIMEDOUT", "ENOERR"}
      /\ \/ /\ errType \in {"RESPOND_TIMEOUT", "RECEIVE_DATA"}
            /\ eRcvState' = "INIT" /\ pc' = "rtustart"
         \/ /\ errType \notin {"RESPOND_TIMEOUT", "RECEIVE_DATA"}
            /\ eRcvState' = eRcvState /\ pc' = "return"
      /\ \/ errType = "RECEIVE_DATA" /\ rxDma' = 0 /\ txLeft' = -1
         \/ errType # "RECEIVE_DATA" /\ rxDma' = rxDma /\ txLeft' = txLeft
      /\ ~rxDone'
      /\ UNCHANGED <<eSndState, timer, ev, errType, sndBuf, rcvBuf, sizeRX,
                     dmaBuf, txReq, slLeft, slReq, post, reg, isr, isrReg,
                     since, Nextread, lag, timeCmd, sets, quality, db, cut>>
<1>1. pc = "dispatch" /\ isr = "none" /\ ~rxDone /\ reg = {"ERROR_PROCESS"}
  BY Zenon DEF HError, Dispatch, TaskAt
<1>2. frame' = "snd" /\ ret' \in {"ETIMEDOUT", "ENOERR"}
  BY Zenon DEF HError
<1>3. \/ /\ errType \in {"RESPOND_TIMEOUT", "RECEIVE_DATA"}
         /\ eRcvState' = "INIT" /\ pc' = "rtustart"
      \/ /\ errType \notin {"RESPOND_TIMEOUT", "RECEIVE_DATA"}
         /\ eRcvState' = eRcvState /\ pc' = "return"
  BY Zenon DEF HError
<1>4. /\ \/ errType = "RECEIVE_DATA" /\ rxDma' = 0 /\ txLeft' = -1
         \/ errType # "RECEIVE_DATA" /\ rxDma' = rxDma /\ txLeft' = txLeft
      /\ ~rxDone'
  BY <1>1, Zenon DEF HError, DmaStop
<1>5. UNCHANGED <<eSndState, timer, ev, errType, sndBuf, rcvBuf, sizeRX,
                     dmaBuf, txReq, slLeft, slReq, post, reg, isr, isrReg,
                     since, Nextread, lag, timeCmd, sets, quality, db, cut>>
  BY Zenon DEF HError, handler, pace, product
<1> QED BY ONLY <1>1, <1>2, <1>3, <1>4, <1>5, Zenon

LEMMA TimerEffect ==
    ASSUME TimerExpired
    PROVE
      /\ timer = 0 /\ timer' = -1
      /\ eRcvState' = "IDLE" /\ eSndState' = "IDLE"
      /\ ev' = ev \cup TimerEvents
      /\ errType' = IF eSndState = "XFWR" THEN "RESPOND_TIMEOUT" ELSE errType
      /\ \/ eRcvState = "IDLE" /\ eSndState = "XFWR" /\ rxDma' = 0 /\ txLeft' = -1
         \/ /\ ~(eRcvState = "IDLE" /\ eSndState = "XFWR")
            /\ rxDma' = rxDma /\ txLeft' = txLeft
      /\ ~rxDone => ~rxDone'
      /\ ~cut' => ~cut /\ ~Sending
      /\ UNCHANGED <<sndBuf, rcvBuf, frame, sizeRX, dmaBuf, txReq, slLeft, slReq,
                     pc, post, reg, ret, isr, isrReg, since, Nextread, lag,
                     timeCmd, sets, quality, db, fresh>>
<1>1. /\ timer = 0 /\ timer' = -1 /\ eRcvState' = "IDLE" /\ eSndState' = "IDLE"
      /\ ev' = ev \cup TimerEvents
  BY Zenon DEF TimerExpired
<1>2. errType' = IF eSndState = "XFWR" THEN "RESPOND_TIMEOUT" ELSE errType
  BY Zenon DEF TimerExpired
<1>3. /\ \/ eRcvState = "IDLE" /\ eSndState = "XFWR" /\ rxDma' = 0 /\ txLeft' = -1
         \/ /\ ~(eRcvState = "IDLE" /\ eSndState = "XFWR")
            /\ rxDma' = rxDma /\ txLeft' = txLeft
      /\ ~rxDone => ~rxDone'
  BY Zenon DEF TimerExpired, DmaStop
<1>4. ~cut' => ~cut /\ ~Sending
  BY Zenon DEF TimerExpired
<1>5. UNCHANGED <<sndBuf, rcvBuf, frame, sizeRX, dmaBuf, txReq, slLeft, slReq,
                     pc, post, reg, ret, isr, isrReg, since, Nextread, lag,
                     timeCmd, sets, quality, db, fresh>>
  BY Zenon DEF TimerExpired, buffers, task, handler, pace, product
<1> QED BY ONLY <1>1, <1>2, <1>3, <1>4, <1>5, Zenon

LEMMA ReturnEffect ==
    ASSUME Return
    PROVE
      /\ pc = "return" /\ isr = "none" /\ ~rxDone
      /\ pc' = "loop" /\ post' = "READY" /\ reg' = {} /\ ret' = "NOTASK"
      /\ ~timeCmd => ~timeCmd'
      /\ Nextread' => Nextread \/ ret = "ERECVDATA"
      /\ UNCHANGED <<eRcvState, eSndState, timer, ev, errType, sndBuf, rcvBuf,
                     frame, sizeRX, rxDma, dmaBuf, rxDone, txLeft, txReq, slLeft,
                     slReq, isr, isrReg, since, lag, sets, db, cut, fresh>>
<1>1. /\ pc = "return" /\ isr = "none" /\ ~rxDone
      /\ pc' = "loop" /\ post' = "READY" /\ reg' = {} /\ ret' = "NOTASK"
  BY Zenon DEF Return, TaskAt
<1>2. (~timeCmd => ~timeCmd') /\ (Nextread' => Nextread \/ ret = "ERECVDATA")
  BY Zenon DEF Return
<1>3. UNCHANGED <<eRcvState, eSndState, timer, ev, errType, sndBuf, rcvBuf,
                     frame, sizeRX, rxDma, dmaBuf, rxDone, txLeft, txReq, slLeft,
                     slReq, isr, isrReg, since, lag, sets, db, cut, fresh>>
  BY Zenon DEF Return, machine, buffers, line, handler, history
<1> QED BY ONLY <1>1, <1>2, <1>3, Zenon

LEMMA CopyEffect ==
    ASSUME RxCopy
    PROVE
      /\ isr = "rx"
      /\ rcvBuf' = IF dmaBuf \in Requests /\ sizeRX = AnswerLen(dmaBuf)
                     THEN dmaBuf ELSE Bad
      /\ \/ eRcvState = "IDLE" /\ eSndState' = "IDLE" /\ isr' = "rxstate"
         \/ eRcvState # "IDLE" /\ eSndState' = eSndState /\ isr' = "none"
      /\ timer' = IF eRcvState = "INIT" THEN T35 ELSE timer
      /\ ~fresh' => ~fresh
      /\ ~fresh' /\ eRcvState = "IDLE" => rcvBuf' \notin Requests
      /\ UNCHANGED <<eRcvState, ev, errType, sndBuf, frame, sizeRX, rxDma,
                     dmaBuf, rxDone, txLeft, txReq, slLeft, slReq, pc, post, reg,
                     ret, isrReg, since, Nextread, lag, timeCmd, sets, quality,
                     db, cut>>
<1>1. /\ isr = "rx"
      /\ rcvBuf' = IF dmaBuf \in Requests /\ sizeRX = AnswerLen(dmaBuf)
                     THEN dmaBuf ELSE Bad
      /\ timer' = IF eRcvState = "INIT" THEN T35 ELSE timer
  BY Zenon DEF RxCopy
<1>2. \/ eRcvState = "IDLE" /\ eSndState' = "IDLE" /\ isr' = "rxstate"
      \/ eRcvState # "IDLE" /\ eSndState' = eSndState /\ isr' = "none"
  BY Zenon DEF RxCopy
<1>3. fresh' = (fresh \/ (eRcvState = "IDLE" /\ rcvBuf' \in Requests))
  BY Zenon DEF RxCopy
<1>4. (~fresh' => ~fresh) /\ (~fresh' /\ eRcvState = "IDLE" => rcvBuf' \notin Requests)
  BY ONLY <1>3, Zenon
<1>5. UNCHANGED <<eRcvState, ev, errType, sndBuf, frame, sizeRX, rxDma,
                     dmaBuf, rxDone, txLeft, txReq, slLeft, slReq, pc, post, reg,
                     ret, isrReg, since, Nextread, lag, timeCmd, sets, quality,
                     db, cut>>
  BY Zenon DEF RxCopy, line, task, pace, product
<1> QED BY ONLY <1>1, <1>2, <1>4, <1>5, Zenon

LEMMA ArmEffect ==
    ASSUME TxArm
    PROVE
      /\ isr = "tx" /\ isr' = "txstate" /\ rxDma' = sizeRX /\ dmaBuf' = NoReq
      /\ ~rxDone => ~rxDone'
      /\ UNCHANGED <<eRcvState, eSndState, timer, ev, errType, sndBuf, rcvBuf,
                     frame, sizeRX, txLeft, txReq, slLeft, slReq, pc, post, reg,
                     ret, isrReg, since, Nextread, lag, timeCmd, sets, quality,
                     db, cut, fresh>>
<1>1. isr = "tx" /\ isr' = "txstate" /\ rxDma' = sizeRX /\ dmaBuf' = NoReq
  BY Zenon DEF TxArm
<1>2. ~rxDone => ~rxDone'
  BY Zenon DEF TxArm
<1>3. UNCHANGED <<eRcvState, eSndState, timer, ev, errType, sndBuf, rcvBuf,
                     frame, sizeRX, txLeft, txReq, slLeft, slReq, pc, post, reg,
                     ret, isrReg, since, Nextread, lag, timeCmd, sets, quality,
                     db, cut, fresh>>
  BY Zenon DEF TxArm, machine, buffers, task, pace, product, history
<1> QED BY ONLY <1>1, <1>2, <1>3, Zenon

\* The relay's answer goes to the receive DMA when that is on; nothing else
\* changes.
LEMMA ReplyEffect ==
    ASSUME IInv, SlaveReply
    PROVE
      /\ slLeft = 0 /\ slLeft' = -1 /\ slReq' = NoReq
      /\ \/ UNCHANGED <<rxDma, dmaBuf, rxDone>>
         \/ rxDma > 0 /\ rxDma' >= 0 /\ (~rxDone => ~rxDone') /\ dmaBuf' = Bad
         \/ rxDma > 0 /\ rxDma' = 0 /\ rxDone' /\ dmaBuf' \in {slReq, Bad}
      /\ UNCHANGED <<eRcvState, eSndState, timer, ev, errType, sndBuf, rcvBuf,
                     frame, sizeRX, txLeft, txReq, pc, post, reg, ret, isr, isrReg,
                     since, Nextread, lag, timeCmd, sets, quality, db, cut, fresh>>
<1>1. slLeft = 0 /\ slLeft' = -1 /\ slReq' = NoReq
  BY Zenon DEF SlaveReply
<1>2. UNCHANGED <<eRcvState, eSndState, timer, ev, errType, sndBuf, rcvBuf,
                     frame, sizeRX, txLeft, txReq, pc, post, reg, ret, isr, isrReg,
                     since, Nextread, lag, timeCmd, sets, quality, db, cut, fresh>>
  BY Zenon DEF SlaveReply, machine, buffers, task, handler, pace, product, history
<1>3. ASSUME NEW len \in Nat, NEW data \in {slReq, Bad}, Arrive(len, data)
      PROVE  \/ UNCHANGED <<rxDma, dmaBuf, rxDone>>
             \/ rxDma > 0 /\ rxDma' >= 0 /\ (~rxDone => ~rxDone') /\ dmaBuf' = Bad
             \/ rxDma > 0 /\ rxDma' = 0 /\ rxDone' /\ dmaBuf' \in {slReq, Bad}
  <2>1. rxDma # 0 => rxDma > 0
    BY DEF IInv, TypeOK, LineType
  <2>2. len < rxDma /\ rxDma' = rxDma - len => rxDma' >= 0
    BY DEF IInv, TypeOK, LineType
  <2> QED BY <1>3, <2>1, <2>2, Zenon DEF Arrive
<1>4. PICK how \in relay :
          CASE how = "ok"        -> Arrive(AnswerLen(slReq), slReq)
            [] how = "noise"     -> Arrive(AnswerLen(slReq), Bad)
            [] how = "exception" -> Arrive(ExceptionLen, Bad)
            [] how = "silent"    -> UNCHANGED <<rxDma, dmaBuf, rxDone>>
  BY Zenon DEF SlaveReply
<1>5. how \in {"ok", "noise", "exception", "silent"}
  BY DataAssumption DEF IInv, TypeOK
<1>a. AnswerLen(slReq) \in Nat /\ ExceptionLen \in Nat
  BY <1>1, AnswerLenNat DEF IInv, SlaveBusy, ExceptionLen
<1>6. \/ UNCHANGED <<rxDma, dmaBuf, rxDone>>
      \/ rxDma > 0 /\ rxDma' >= 0 /\ (~rxDone => ~rxDone') /\ dmaBuf' = Bad
      \/ rxDma > 0 /\ rxDma' = 0 /\ rxDone' /\ dmaBuf' \in {slReq, Bad}
  <2>1. CASE how = "ok"
    BY <2>1, <1>3, <1>4, <1>a
  <2>2. CASE how = "noise"
    BY <2>2, <1>3, <1>4, <1>a
  <2>3. CASE how = "exception"
    BY <2>3, <1>3, <1>4, <1>a
  <2>4. CASE how = "silent"
    BY <2>4, <1>4
  <2> QED BY <1>5, <2>1, <2>2, <2>3, <2>4
<1> QED BY ONLY <1>1, <1>2, <1>6, Zenon

LEMMA TimerPosts ==
    ASSUME IInv
    PROVE  /\ TimerEvents \subseteq {"READY", "FRAME_RECEIVED", "ERROR_PROCESS"}
           /\ "FRAME_RECEIVED" \in TimerEvents <=> eRcvState = "RCV"
           /\ "READY" \in TimerEvents <=> eRcvState = "INIT"
           /\ "ERROR_PROCESS" \in TimerEvents <=> eSndState = "XFWR"
<1>1. eRcvState \in {"INIT", "IDLE", "RCV"}
  BY DEF IInv, TypeOK, MachineType
<1>2. CASE eRcvState = "INIT"
  BY <1>2 DEF TimerEvents
<1>3. CASE eRcvState = "RCV"
  BY <1>3 DEF TimerEvents
<1>4. CASE eRcvState = "IDLE"
  BY <1>4 DEF TimerEvents
<1> QED BY <1>1, <1>2, <1>3, <1>4

LEMMA NotRequests == Bad \notin Requests /\ NoReq \notin Requests
BY NamesAssumption DEF Requests

\* The types and the order of the deadlines, as the steps below use them.
LEMMA Deadlines ==
    ASSUME PromptRelay, ClockLeftAlone, IInv
    PROVE
      /\ timer \in -1 .. Respond /\ txLeft \in -1 .. TxTime
      /\ slLeft \in -1 .. ReplyMax /\ since \in 0 .. Period /\ lag \in 0 .. MaxLag
      /\ eRcvState \in {"INIT", "IDLE", "RCV"} /\ eSndState \in {"IDLE", "XMIT", "XFWR"}
      /\ reg \subseteq Events /\ ev \subseteq Events /\ sets \in 0 .. MaxSets
      /\ MaxLag < Period /\ AnsweredBy < Period /\ MaxSets = 0
      /\ SentBy = MaxLag + TxTime /\ AnsweredBy = SentBy + ReplyMax
      /\ TimedOutBy = SentBy + Respond /\ TimedOutBy < Period
BY TimingAssumption, TimingNat
DEF IInv, TypeOK, MachineType, LineType, PaceType, TaskType, PromptRelay,
    ClockLeftAlone, AnsweredBy, SentBy, TimedOutBy

-----------------------------------------------------------------------------
(* The one action that stores a reply, reports the quality, starts to send,*)
(* ends a cut, or forgets the last good reply.                             *)

LEMMA Owners ==
    ASSUME [Next]_vars
    PROVE  /\ HExecute \/ db' = db
           /\ Return \/ quality' = quality
           /\ HSent \/ (txLeft = -1 => txLeft' = -1)
           /\ HSent \/ (cut => cut')
           /\ (HError /\ errType = "RESPOND_TIMEOUT") \/ (fresh => fresh')
<1> DEFINE Owned == /\ HExecute \/ db' = db
                    /\ Return \/ quality' = quality
                    /\ HSent \/ (txLeft = -1 => txLeft' = -1)
                    /\ HSent \/ (cut => cut')
                    /\ (HError /\ errType = "RESPOND_TIMEOUT") \/ (fresh => fresh')
<1> USE DEF line, product, history
<1>0. ASSUME UNCHANGED vars PROVE Owned
  BY <1>0 DEF vars
<1>1. ASSUME NEW r \in Requests, LoopRequest(r) PROVE Owned
  BY <1>1 DEF LoopRequest, Prepare, TaskAt
<1>2. ASSUME LoopTime PROVE Owned
  BY <1>2 DEF LoopTime, Prepare, TaskAt
<1>3. ASSUME LoopSkip PROVE Owned
  BY <1>3 DEF LoopSkip, TaskAt
<1>4. ASSUME LoopIdle PROVE Owned
  BY <1>4 DEF LoopIdle, TaskAt
<1>5. ASSUME PostLoad PROVE Owned
  BY <1>5 DEF PostLoad, TaskAt
<1>6. ASSUME PostStore PROVE Owned
  BY <1>6 DEF PostStore, TaskAt
<1>7. ASSUME WaitLoad PROVE Owned
  BY <1>7 DEF WaitLoad, TaskAt
<1>8. ASSUME WaitStore PROVE Owned
  BY <1>8 DEF WaitStore, TaskAt
<1>9. ASSUME PollLoad PROVE Owned
  BY <1>9 DEF PollLoad, TaskAt
<1>10. ASSUME PollClear PROVE Owned
  BY <1>10 DEF PollClear, TaskAt
<1>11. ASSUME HReady PROVE Owned
  BY <1>11 DEF HReady, Dispatch, TaskAt
<1>12. ASSUME HReceived PROVE Owned
  BY <1>12 DEF HReceived, Dispatch, TaskAt
<1>13. ASSUME HExecute PROVE Owned
  BY <1>13 DEF HExecute, Dispatch, TaskAt
<1>14. ASSUME HSent PROVE Owned
  BY <1>14 DEF HSent, Dispatch, TaskAt
<1>15. ASSUME HError PROVE Owned
  <2>1. db' = db /\ quality' = quality /\ cut' = cut /\ (txLeft = -1 => txLeft' = -1)
    BY <1>15, ErrorEffect
  <2>2. fresh' = (fresh /\ errType # "RESPOND_TIMEOUT")
    BY <1>15, Zenon DEF HError
  <2> QED BY <1>15, <2>1, <2>2
<1>16. ASSUME RtuStartTimer PROVE Owned
  BY <1>16 DEF RtuStartTimer, TaskAt
<1>17. ASSUME Return PROVE Owned
  BY <1>17, ReturnEffect
<1>18. ASSUME SntpSet PROVE Owned
  BY <1>18 DEF SntpSet
<1>19. ASSUME TxComplete PROVE Owned
  BY <1>19 DEF TxComplete
<1>20. ASSUME TxArm PROVE Owned
  BY <1>20, ArmEffect
<1>21. ASSUME TxState PROVE Owned
  BY <1>21 DEF TxState
<1>22. ASSUME TxTimer PROVE Owned
  BY <1>22 DEF TxTimer
<1>23. ASSUME RxComplete PROVE Owned
  BY <1>23 DEF RxComplete
<1>24. ASSUME RxCopy PROVE Owned
  BY <1>24, CopyEffect
<1>25. ASSUME RxState PROVE Owned
  BY <1>25 DEF RxState
<1>26. ASSUME RxStore PROVE Owned
  BY <1>26 DEF RxStore
<1>27. ASSUME TimerExpired PROVE Owned
  BY <1>27, TimerEffect
<1>28. ASSUME SlaveReply PROVE Owned
  BY <1>28 DEF SlaveReply
<1>29. ASSUME Tick PROVE Owned
  BY <1>29 DEF Tick, Down, InterruptPending
<1> QED
  BY ONLY <1>0, <1>1, <1>2, <1>3, <1>4, <1>5, <1>6, <1>7, <1>8, <1>9, <1>10,
    <1>11, <1>12, <1>13, <1>14, <1>15, <1>16, <1>17, <1>18, <1>19,
    <1>20, <1>21, <1>22, <1>23, <1>24, <1>25, <1>26, <1>27, <1>28,
    <1>29,
    [Next]_vars
  DEF Next, Task, Loop, Poll, Handlers

-----------------------------------------------------------------------------
(* One step of the machine: one case per action of Next.                   *)

\* The way of a request and of its events through the poll task, and the
\* ticks it takes.
LEMMA NextWay ==
    ASSUME PromptRelay, ClockLeftAlone,
           IInv, Control, [Next]_vars
    PROVE  (~timeCmd /\ RequestWay /\ EventWay /\ Clock)'
<1> USE Deadlines, TimingNat
    DEF Control, RequestWay, EventWay, Clock, Requesting,
        machine, buffers, line, task, handler, pace, product, history
<1> DEFINE Goal == (~timeCmd /\ RequestWay /\ EventWay /\ Clock)'
<1>0. ASSUME UNCHANGED vars PROVE Goal
  BY <1>0 DEF vars
<1>1. ASSUME NEW r \in Requests, LoopRequest(r) PROVE Goal
  BY <1>1 DEF LoopRequest, Prepare, TaskAt
<1>2. ASSUME LoopTime PROVE Goal
  BY <1>2 DEF LoopTime, Prepare, TaskAt
<1>3. ASSUME LoopSkip PROVE Goal
  BY <1>3 DEF LoopSkip, TaskAt
<1>4. ASSUME LoopIdle PROVE Goal
  BY <1>4 DEF LoopIdle, Paced, TaskAt
<1>5. ASSUME PostLoad PROVE Goal
  BY <1>5 DEF PostLoad, TaskAt
<1>6. ASSUME PostStore PROVE Goal
  BY <1>6 DEF PostStore, TaskAt
<1>7. ASSUME WaitLoad PROVE Goal
  BY <1>7 DEF WaitLoad, TaskAt
<1>8. ASSUME WaitStore PROVE Goal
  BY <1>8 DEF WaitStore, TaskAt
<1>9. ASSUME PollLoad PROVE Goal
  BY <1>9 DEF PollLoad, TaskAt
<1>10. ASSUME PollClear PROVE Goal
  BY <1>10 DEF PollClear, TaskAt
<1>11. ASSUME HReady PROVE Goal
  BY <1>11 DEF HReady, Dispatch, TaskAt
<1>12. ASSUME HReceived PROVE Goal
  BY <1>12 DEF HReceived, Dispatch, TaskAt
<1>13. ASSUME HExecute PROVE Goal
  BY <1>13 DEF HExecute, Dispatch, TaskAt
<1>14. ASSUME HSent PROVE Goal
  BY <1>14 DEF HSent, Dispatch, TaskAt
<1>15. ASSUME HError PROVE Goal
  BY <1>15, ErrorEffect
<1>16. ASSUME RtuStartTimer PROVE Goal
  BY <1>16 DEF RtuStartTimer, TaskAt
<1>17. ASSUME Return PROVE Goal
  BY <1>17, ReturnEffect
<1>18. ASSUME SntpSet PROVE Goal
  BY <1>18 DEF SntpSet
<1>19. ASSUME TxComplete PROVE Goal
  <2>1. /\ slLeft' = -1 \/ (slLeft' \in Int /\ slLeft' <= ReplyMax)
        /\ txLeft = 0 /\ txLeft' = -1 /\ since' = since
    BY <1>19 DEF TxComplete
  <2>2. since <= SentBy
    BY <2>1
  <2>3. Clock'
    BY <2>1, <2>2, TimingNat DEF Clock
  <2>4. (~timeCmd /\ RequestWay /\ EventWay)'
    BY <1>19 DEF TxComplete
  <2> QED BY <2>3, <2>4
<1>20. ASSUME TxArm PROVE Goal
  BY <1>20, ArmEffect
<1>21. ASSUME TxState PROVE Goal
  BY <1>21 DEF TxState
<1>22. ASSUME TxTimer PROVE Goal
  BY <1>22 DEF TxTimer
<1>23. ASSUME RxComplete PROVE Goal
  BY <1>23 DEF RxComplete
<1>24. ASSUME RxCopy PROVE Goal
  BY <1>24, CopyEffect
<1>25. ASSUME RxState PROVE Goal
  BY <1>25 DEF RxState
<1>26. ASSUME RxStore PROVE Goal
  BY <1>26 DEF RxStore
<1>27. ASSUME TimerExpired PROVE Goal
  BY <1>27, TimerEffect, TimerPosts DEF Sending
<1>28. ASSUME SlaveReply PROVE Goal
  BY <1>28, ReplyEffect
<1>29. ASSUME Tick PROVE Goal
  BY <1>29 DEF Tick, Down, InterruptPending
<1> QED
  BY ONLY <1>0, <1>1, <1>2, <1>3, <1>4, <1>5, <1>6, <1>7, <1>8, <1>9, <1>10,
    <1>11, <1>12, <1>13, <1>14, <1>15, <1>16, <1>17, <1>18, <1>19,
    <1>20, <1>21, <1>22, <1>23, <1>24, <1>25, <1>26, <1>27, <1>28,
    <1>29,
    [Next]_vars
  DEF Next, Task, Loop, Poll, Handlers

\* A timeout is posted by a sender that waits, which has nothing on the line;
\* if nothing else is posted with it the receive DMA has been stopped, and it
\* is armed again only after the next transmission.
LEMMA NextLate ==
    ASSUME PromptRelay, ClockLeftAlone,
           IInv, Control, [Next]_vars
    PROVE  LateTimeouts'
<1> USE Deadlines, TimingNat
    DEF Control, RequestWay, EventWay, Requesting, LateTimeouts, Copied, IInv, SenderWaits,
        machine, buffers, line, task, handler, pace, product, history
<1>0. ASSUME UNCHANGED vars PROVE LateTimeouts'
  BY <1>0 DEF vars
<1>1. ASSUME NEW r \in Requests, LoopRequest(r) PROVE LateTimeouts'
  BY <1>1 DEF LoopRequest, Prepare, TaskAt
<1>2. ASSUME LoopTime PROVE LateTimeouts'
  BY <1>2 DEF LoopTime, Prepare, TaskAt
<1>3. ASSUME LoopSkip PROVE LateTimeouts'
  BY <1>3 DEF LoopSkip, TaskAt
<1>4. ASSUME LoopIdle PROVE LateTimeouts'
  BY <1>4 DEF LoopIdle, TaskAt
<1>5. ASSUME PostLoad PROVE LateTimeouts'
  BY <1>5 DEF PostLoad, TaskAt
<1>6. ASSUME PostStore PROVE LateTimeouts'
  BY <1>6 DEF PostStore, TaskAt
<1>7. ASSUME WaitLoad PROVE LateTimeouts'
  BY <1>7 DEF WaitLoad, TaskAt
<1>8. ASSUME WaitStore PROVE LateTimeouts'
  BY <1>8 DEF WaitStore, TaskAt
<1>9. ASSUME PollLoad PROVE LateTimeouts'
  BY <1>9 DEF PollLoad, TaskAt
<1>10. ASSUME PollClear PROVE LateTimeouts'
  BY <1>10 DEF PollClear, TaskAt
<1>11. ASSUME HReady PROVE LateTimeouts'
  BY <1>11 DEF HReady, Dispatch, TaskAt
<1>12. ASSUME HReceived PROVE LateTimeouts'
  BY <1>12 DEF HReceived, Dispatch, TaskAt
<1>13. ASSUME HExecute PROVE LateTimeouts'
  BY <1>13 DEF HExecute, Dispatch, TaskAt
<1>14. ASSUME HSent PROVE LateTimeouts'
  BY <1>14 DEF HSent, Dispatch, TaskAt
<1>15. ASSUME HError PROVE LateTimeouts'
  BY <1>15, ErrorEffect
<1>16. ASSUME RtuStartTimer PROVE LateTimeouts'
  BY <1>16 DEF RtuStartTimer, TaskAt
<1>17. ASSUME Return PROVE LateTimeouts'
  BY <1>17, ReturnEffect
<1>18. ASSUME SntpSet PROVE LateTimeouts'
  BY <1>18 DEF SntpSet
<1>19. ASSUME TxComplete PROVE LateTimeouts'
  BY <1>19 DEF TxComplete
<1>20. ASSUME TxArm PROVE LateTimeouts'
  BY <1>20, ArmEffect
<1>21. ASSUME TxState PROVE LateTimeouts'
  BY <1>21 DEF TxState
<1>22. ASSUME TxTimer PROVE LateTimeouts'
  BY <1>22 DEF TxTimer
<1>23. ASSUME RxComplete PROVE LateTimeouts'
  BY <1>23 DEF RxComplete
<1>24. ASSUME RxCopy PROVE LateTimeouts'
  BY <1>24, CopyEffect
<1>25. ASSUME RxState PROVE LateTimeouts'
  BY <1>25 DEF RxState
<1>26. ASSUME RxStore PROVE LateTimeouts'
  BY <1>26 DEF RxStore
<1>27. ASSUME TimerExpired PROVE LateTimeouts'
  <2>1. CASE eSndState = "XFWR"
    BY <1>27, <2>1, TimerEffect, TimerPosts
  <2>2. CASE eSndState # "XFWR"
    <3>1. ev' = {"ERROR_PROCESS"} => ev = {"ERROR_PROCESS"}
      BY <1>27, <2>2, TimerEffect, TimerPosts
    <3> QED BY <1>27, <2>2, <3>1, TimerEffect
  <2> QED BY <2>1, <2>2
<1>28. ASSUME SlaveReply PROVE LateTimeouts'
  BY <1>28, ReplyEffect
<1>29. ASSUME Tick PROVE LateTimeouts'
  BY <1>29 DEF Tick, Down, InterruptPending
<1> QED
  BY ONLY <1>0, <1>1, <1>2, <1>3, <1>4, <1>5, <1>6, <1>7, <1>8, <1>9, <1>10,
    <1>11, <1>12, <1>13, <1>14, <1>15, <1>16, <1>17, <1>18, <1>19,
    <1>20, <1>21, <1>22, <1>23, <1>24, <1>25, <1>26, <1>27, <1>28,
    <1>29,
    [Next]_vars
  DEF Next, Task, Loop, Poll, Handlers

LEMMA NextControl ==
    ASSUME PromptRelay, ClockLeftAlone, IInv, Control, [Next]_vars
    PROVE  Control'
BY NextWay, NextLate DEF Control

\* While no timer cuts an exchange short, one exchange follows the other: a
\* request is made on a quiet line, because its turn comes after the answer
\* or the respond timer of the one before; nothing else is posted until its
\* answer or its timeout; and what is announced alone is its answer.
LEMMA NextClean ==
    ASSUME PromptRelay, ClockLeftAlone,
           IInv, Control, Clean, ~cut, ~cut', [Next]_vars
    PROVE  Clean'
<1> USE Deadlines, TimingNat, NotRequests
    DEF Control, RequestWay, EventWay, Clock, Requesting, Copied, Clean,
        OneOnLine, OneRequest, Sender, SenderAlone, OwnTimer, QuietRequest,
        Timeouts, Replies, Execution, Executing, Announced, TimeoutAlone,
        Ringing, RxLive, Own, Good, Copy, LineQuiet,
        machine, buffers, line, task, handler, pace, product, history
<1>0. ASSUME UNCHANGED vars PROVE Clean'
  BY <1>0 DEF vars
<1>1. ASSUME NEW r \in Requests, LoopRequest(r) PROVE Clean'
  <2>0. /\ Prepare(r) /\ TaskAt("loop")
        /\ since = Period \/ Nextread
        /\ since' = 0 /\ ~Nextread'
        /\ UNCHANGED <<machine, ev, errType, handler, timeCmd, sets, product, history>>
    BY <1>1, Zenon DEF LoopRequest, Paced
  <2>1. eSndState = "IDLE"
    BY <2>0 DEF TaskAt
  <2>2. LineQuiet
    BY <2>0 DEF TaskAt
  <2>3. Ringing => ev = {}
    <3>1. Ringing => since + timer <= TimedOutBy
      BY <2>2
    <3>2. Ringing => Nextread
      BY <2>0, <3>1
    <3> QED BY <3>2
  <2>4. (OneOnLine /\ OneRequest /\ Sender /\ SenderAlone)'
    BY <2>0, <2>1, <2>2 DEF Prepare
  <2>5. OwnTimer'
    BY <2>0, <2>1, <2>2 DEF Prepare
  <2>6. QuietRequest' /\ Timeouts'
    BY <2>0, <2>1, <2>2, <2>3 DEF Prepare, TaskAt
  <2>7. Replies'
    BY <2>0, <2>1, <2>2 DEF Prepare, TaskAt
  <2>8. Execution'
    BY <2>0, <2>1, <2>2 DEF Prepare, TaskAt
  <2> QED BY <2>4, <2>5, <2>6, <2>7, <2>8
<1>2. ASSUME LoopTime PROVE Clean'
  BY <1>2 DEF LoopTime, Prepare, TaskAt
<1>3. ASSUME LoopSkip PROVE Clean'
  BY <1>3 DEF LoopSkip, TaskAt
<1>4. ASSUME LoopIdle PROVE Clean'
  BY <1>4 DEF LoopIdle, TaskAt
<1>5. ASSUME PostLoad PROVE Clean'
  BY <1>5 DEF PostLoad, TaskAt
<1>6. ASSUME PostStore PROVE Clean'
  BY <1>6 DEF PostStore, TaskAt
<1>7. ASSUME WaitLoad PROVE Clean'
  BY <1>7 DEF WaitLoad, TaskAt
<1>8. ASSUME WaitStore PROVE Clean'
  BY <1>8 DEF WaitStore, TaskAt
<1>9. ASSUME PollLoad PROVE Clean'
  BY <1>9 DEF PollLoad, TaskAt
<1>10. ASSUME PollClear PROVE Clean'
  <2>1. pc = "clear" /\ isr = "none" /\ ~rxDone /\ ev' = {} /\ UNCHANGED reg
    BY <1>10 DEF PollClear, TaskAt
  <2>2. CASE \E e \in Events : reg = {e}
    <3>1. pc' = "dispatch" /\ ret' = ret
      BY <1>10, <2>2 DEF PollClear
    <3> QED BY <1>10, <2>1, <2>2, <3>1 DEF PollClear
  <2>3. CASE ~ \E e \in Events : reg = {e}
    <3>1. pc' = "return" /\ ret' \in {"NOTASK", "ENOERR"}
      BY <1>10, <2>3 DEF PollClear
    <3> QED BY <1>10, <2>1, <2>3, <3>1 DEF PollClear, Events
  <2> QED BY <2>2, <2>3
<1>11. ASSUME HReady PROVE Clean'
  BY <1>11 DEF HReady, Dispatch, TaskAt
<1>12. ASSUME HReceived PROVE Clean'
  BY <1>12 DEF HReceived, Dispatch, TaskAt
<1>13. ASSUME HExecute PROVE Clean'
  <2>1. pc = "dispatch" /\ reg = {"EXECUTE"} /\ isr = "none" /\ ~rxDone
    BY <1>13, Zenon DEF HExecute, Dispatch, TaskAt
  <2>2. frame = "rcv" /\ rcvBuf \in Requests /\ rcvBuf = sndBuf /\ LineQuiet
    BY <2>1
  <2>3. pc' = "return" /\ ret' = "ERECVDATA" /\ UNCHANGED <<post, errType>>
    BY <1>13, <2>2 DEF HExecute, Requests
  <2>4. UNCHANGED <<machine, ev, buffers, line, reg, handler, pace, history>>
    BY <1>13, Zenon DEF HExecute
  <2> QED BY <2>1, <2>2, <2>3, <2>4
<1>14. ASSUME HSent PROVE Clean'
  BY <1>14 DEF HSent, Dispatch, TaskAt
<1>15. ASSUME HError PROVE Clean'
  BY <1>15, ErrorEffect
<1>16. ASSUME RtuStartTimer PROVE Clean'
  BY <1>16 DEF RtuStartTimer, TaskAt
<1>17. ASSUME Return PROVE Clean'
  BY <1>17, ReturnEffect
<1>18. ASSUME SntpSet PROVE Clean'
  BY <1>18 DEF SntpSet
<1>19. ASSUME TxComplete PROVE Clean'
  BY <1>19 DEF TxComplete
<1>20. ASSUME TxArm PROVE Clean'
  BY <1>20, ArmEffect
<1>21. ASSUME TxState PROVE Clean'
  BY <1>21 DEF TxState
<1>22. ASSUME TxTimer PROVE Clean'
  BY <1>22 DEF TxTimer
<1>23. ASSUME RxComplete PROVE Clean'
  BY <1>23 DEF RxComplete
<1>24. ASSUME RxCopy PROVE Clean'
  BY <1>24, CopyEffect
<1>25. ASSUME RxState PROVE Clean'
  BY <1>25 DEF RxState
<1>26. ASSUME RxStore PROVE Clean'
  BY <1>26 DEF RxStore
<1>27. ASSUME TimerExpired PROVE Clean'
  <2>1. (OneOnLine /\ OneRequest /\ Sender /\ SenderAlone)'
    BY <1>27, TimerEffect, TimerPosts DEF Sending
  <2>2. OwnTimer' /\ QuietRequest'
    BY <1>27, TimerEffect, TimerPosts DEF Sending
  <2>3. Timeouts'
    BY <1>27, TimerEffect, TimerPosts DEF Sending
  <2>4. /\ ~Requesting' /\ ~Requesting
        /\ ev' \subseteq ev \cup {"READY", "FRAME_RECEIVED", "ERROR_PROCESS"}
    BY <1>27, TimerEffect, TimerPosts DEF Sending
  <2>5. Own => Own'
    BY <1>27, TimerEffect, <2>4
  <2>6. Announced(ev)'
    BY <1>27, TimerEffect, TimerPosts, <2>5 DEF Sending
  <2>7. Replies'
    BY <1>27, TimerEffect, <2>5, <2>6
  <2>8. LineQuiet => LineQuiet'
    BY <1>27, TimerEffect
  <2>9. Executing' => Executing
    BY <1>27, TimerEffect, <2>4
  <2>10. Execution'
    BY <1>27, TimerEffect, <2>5, <2>8, <2>9
  <2> QED BY <2>1, <2>2, <2>3, <2>7, <2>10
<1>28. ASSUME SlaveReply PROVE Clean'
  BY <1>28, ReplyEffect
<1>29. ASSUME Tick PROVE Clean'
  BY <1>29 DEF Tick, Down, InterruptPending
<1> QED
  BY ONLY <1>0, <1>1, <1>2, <1>3, <1>4, <1>5, <1>6, <1>7, <1>8, <1>9, <1>10,
    <1>11, <1>12, <1>13, <1>14, <1>15, <1>16, <1>17, <1>18, <1>19,
    <1>20, <1>21, <1>22, <1>23, <1>24, <1>25, <1>26, <1>27, <1>28,
    <1>29,
    [Next]_vars
  DEF Next, Task, Loop, Poll, Handlers

\* Only a request sent on a quiet line ends a cut, and it starts a clean exchange.
LEMMA Restored ==
    ASSUME PromptRelay, ClockLeftAlone, IInv, Control, cut, ~cut', [Next]_vars
    PROVE  Clean'
<1>1. HSent
  BY Owners, Zenon
<1>2. pc = "dispatch" /\ isr = "none" /\ ~rxDone /\ reg = {"FRAME_SENT"}
  BY <1>1, Zenon DEF HSent, Dispatch, TaskAt
<1>3. /\ eRcvState \in {"IDLE", "RCV"} /\ eSndState = "IDLE"
      /\ timer = -1 /\ ev = {} /\ txLeft = -1 /\ slLeft = -1
  BY <1>1, Zenon DEF HSent
<1>4. /\ eSndState' = "XMIT" /\ eRcvState' = eRcvState /\ ret' = "ESENT"
      /\ txLeft' = TxTime /\ txReq' = sndBuf /\ pc' = "return"
      /\ UNCHANGED <<timer, ev, errType, sndBuf, rcvBuf, sizeRX, rxDma, dmaBuf,
                     rxDone, slLeft, slReq, post, reg, isr, isrReg, since, Nextread>>
  BY <1>1, <1>3, Zenon DEF HSent, handler, pace
<1>5. ~Nextread
  BY <1>2 DEF Control, EventWay
<1> USE Deadlines, TimingNat, <1>2, <1>3, <1>4, <1>5
<1>6. (OneOnLine /\ OneRequest /\ Sender /\ SenderAlone)'
  BY DEF OneOnLine, OneRequest, Sender, SenderAlone
<1>7. (OwnTimer /\ QuietRequest /\ Timeouts)'
  BY DEF OwnTimer, QuietRequest, Timeouts, TimeoutAlone, Requesting, Copied
<1>8. (Replies /\ Execution)'
  BY DEF Replies, Announced, Execution, Executing, Copied, Ringing
<1> QED BY <1>6, <1>7, <1>8 DEF Clean


\* After a timeout nothing good is under way, an old frame is only announced
\* together with another event, and the next request is made on a quiet line;
\* so a good frame that reaches the poll task was copied to the receive buffer
\* while the receiver was idle, which is a good reply.
LEMMA NextStale ==
    ASSUME PromptRelay, ClockLeftAlone,
           IInv, Control, Stale, ~fresh, ~fresh', [Next]_vars
    PROVE  Stale'
<1> USE Deadlines, TimingNat, NotRequests
    DEF Control, RequestWay, EventWay, Clock, LateTimeouts, Requesting, Copied,
        Stale, NothingGood, OldFrame, OneReply, Awaited, Expecting, Doomed,
        Dooming, Executing, Good, LineQuiet, IInv, SenderWaits,
        machine, buffers, line, task, handler, pace, product, history
<1>0. ASSUME UNCHANGED vars PROVE Stale'
  BY <1>0 DEF vars
<1>1. ASSUME NEW r \in Requests, LoopRequest(r) PROVE Stale'
  <2>0. /\ Prepare(r) /\ TaskAt("loop")
        /\ since = Period \/ Nextread
        /\ since' = 0 /\ ~Nextread'
        /\ UNCHANGED <<machine, ev, errType, handler, timeCmd, sets, product, history>>
    BY <1>1, Zenon DEF LoopRequest, Paced
  <2>1. LineQuiet
    BY <2>0 DEF TaskAt
  <2>2. NothingGood' /\ OldFrame'
    BY <2>0 DEF Prepare, TaskAt
  <2>3. OneReply' /\ Awaited'
    BY <2>0, <2>1 DEF Prepare, TaskAt
  <2> QED BY <2>2, <2>3
<1>2. ASSUME LoopTime PROVE Stale'
  BY <1>2 DEF LoopTime, Prepare, TaskAt
<1>3. ASSUME LoopSkip PROVE Stale'
  BY <1>3 DEF LoopSkip, TaskAt
<1>4. ASSUME LoopIdle PROVE Stale'
  BY <1>4 DEF LoopIdle, TaskAt
<1>5. ASSUME PostLoad PROVE Stale'
  BY <1>5 DEF PostLoad, TaskAt
<1>6. ASSUME PostStore PROVE Stale'
  BY <1>6 DEF PostStore, TaskAt
<1>7. ASSUME WaitLoad PROVE Stale'
  BY <1>7 DEF WaitLoad, TaskAt
<1>8. ASSUME WaitStore PROVE Stale'
  BY <1>8 DEF WaitStore, TaskAt
<1>9. ASSUME PollLoad PROVE Stale'
  BY <1>9 DEF PollLoad, TaskAt
<1>10. ASSUME PollClear PROVE Stale'
  BY <1>10 DEF PollClear, TaskAt
<1>11. ASSUME HReady PROVE Stale'
  BY <1>11 DEF HReady, Dispatch, TaskAt
<1>12. ASSUME HReceived PROVE Stale'
  BY <1>12 DEF HReceived, Dispatch, TaskAt
<1>13. ASSUME HExecute PROVE Stale'
  BY <1>13 DEF HExecute, Dispatch, TaskAt
<1>14. ASSUME HSent PROVE Stale'
  BY <1>14 DEF HSent, Dispatch, TaskAt
<1>15. ASSUME HError PROVE Stale'
  BY <1>15, ErrorEffect
<1>16. ASSUME RtuStartTimer PROVE Stale'
  BY <1>16 DEF RtuStartTimer, TaskAt
<1>17. ASSUME Return PROVE Stale'
  BY <1>17, ReturnEffect
<1>18. ASSUME SntpSet PROVE Stale'
  BY <1>18 DEF SntpSet
<1>19. ASSUME TxComplete PROVE Stale'
  BY <1>19 DEF TxComplete
<1>20. ASSUME TxArm PROVE Stale'
  BY <1>20, ArmEffect
<1>21. ASSUME TxState PROVE Stale'
  BY <1>21 DEF TxState
<1>22. ASSUME TxTimer PROVE Stale'
  BY <1>22 DEF TxTimer
<1>23. ASSUME RxComplete PROVE Stale'
  BY <1>23 DEF RxComplete
<1>24. ASSUME RxCopy PROVE Stale'
  BY <1>24, CopyEffect
<1>25. ASSUME RxState PROVE Stale'
  BY <1>25 DEF RxState
<1>26. ASSUME RxStore PROVE Stale'
  BY <1>26 DEF RxStore
<1>27. ASSUME TimerExpired PROVE Stale'
  BY <1>27, TimerEffect, TimerPosts DEF Sending
<1>28. ASSUME SlaveReply PROVE Stale'
  BY <1>28, ReplyEffect
<1>29. ASSUME Tick PROVE Stale'
  BY <1>29 DEF Tick, Down, InterruptPending
<1> QED
  BY ONLY <1>0, <1>1, <1>2, <1>3, <1>4, <1>5, <1>6, <1>7, <1>8, <1>9, <1>10,
    <1>11, <1>12, <1>13, <1>14, <1>15, <1>16, <1>17, <1>18, <1>19,
    <1>20, <1>21, <1>22, <1>23, <1>24, <1>25, <1>26, <1>27, <1>28,
    <1>29,
    [Next]_vars
  DEF Next, Task, Loop, Poll, Handlers

\* Only a reported timeout starts that time.
LEMMA Forgotten ==
    ASSUME PromptRelay, ClockLeftAlone, IInv, Control, fresh, ~fresh', [Next]_vars
    PROVE  Stale'
<1>1. HError /\ errType = "RESPOND_TIMEOUT"
  BY Owners, Zenon
<1>2. eRcvState' = "INIT" /\ pc' = "rtustart"
  BY <1>1, ErrorEffect
<1> USE Deadlines, <1>1, <1>2, ErrorEffect
<1>3. NothingGood'
  BY DEF NothingGood, Executing, Copied, Control, EventWay
<1>4. OldFrame'
  BY DEF OldFrame, Dooming, Copied
<1>5. OneReply'
  BY DEF OneReply, Control, LateTimeouts, Copied
<1>6. Awaited'
  BY DEF Awaited, Requesting, Control, RequestWay
<1> QED BY <1>3, <1>4, <1>5, <1>6 DEF Stale

-----------------------------------------------------------------------------
(* The invariant and the theorems.                                         *)

LEMMA InitExchange ==
    ASSUME PromptRelay, ClockLeftAlone, Init
    PROVE  Exchange
<1>1. IInv
  BY InitIInv
<1> USE Deadlines, TimingNat, NamesAssumption, <1>1 DEF Init
<1>2. Control
  BY DEF Control, RequestWay, EventWay, Clock, LateTimeouts, Requesting, Copied
<1>3. Clean
  BY DEF Clean, OneOnLine, OneRequest, Sender, SenderAlone, OwnTimer, RxLive,
    QuietRequest, Requesting, Timeouts, TimeoutAlone, Replies, Announced,
    Execution, Executing, Copied, Ringing
<1> QED BY <1>1, <1>2, <1>3, Zenon DEF Exchange

LEMMA NextExchange ==
    ASSUME PromptRelay, ClockLeftAlone, Exchange, [Next]_vars
    PROVE  Exchange'
<1>1. IInv'
  BY NextIInv DEF Exchange
<1>2. Control'
  BY NextControl DEF Exchange
<1>3. cut' \/ Clean'
  BY NextClean, Restored, Zenon DEF Exchange
<1>4. fresh' \/ Stale'
  BY NextStale, Forgotten, Zenon DEF Exchange
<1> QED BY <1>1, <1>2, <1>3, <1>4, Zenon DEF Exchange

LEMMA Exchanges ==
    ASSUME PromptRelay, ClockLeftAlone
    PROVE  Spec => []Exchange
<1>1. Init => Exchange
  BY InitExchange
<1>2. Exchange /\ [Next]_vars => Exchange'
  BY NextExchange
<1> QED BY <1>1, <1>2, PTL DEF Spec

\* The reply that eMBMasterPoll executes is a good one, in the buffer it reads
\* it from, unless a timer of the exchange before cut the request short.
THEOREM ExecutesReplies ==
    ASSUME PromptRelay, ClockLeftAlone
    PROVE  Spec => []ExecuteOnReply
<1>1. Exchange => ExecuteOnReply
  BY Zenon DEF Exchange, Clean, Execution, Executing, Good, ExecuteOnReply
<1> QED BY <1>1, Exchanges, PTL

\* A memory block is only ever filled from the answer to the request for it,
\* with the same exception.
THEOREM AnswersMatch ==
    ASSUME PromptRelay, ClockLeftAlone
    PROVE  Spec => OwnReplyOnly
<1> DEFINE Step == \A b \in Blocks : db'[b] # db[b] => db'[b] = b \/ cut
<1>1. Exchange /\ [Next]_vars => [Step]_vars
  <2> SUFFICES ASSUME Exchange, [Next]_vars PROVE Step
    OBVIOUS
  <2>1. CASE cut
    BY <2>1, Zenon
  <2>2. CASE ~cut /\ HExecute
    <3>1. frame = "rcv" /\ rcvBuf = sndBuf /\ sndBuf \in Requests
      <4>1. Clean /\ Control
        BY <2>2, Zenon DEF Exchange
      <4>2. pc = "dispatch" /\ reg = {"EXECUTE"}
        BY <2>2, Zenon DEF HExecute, Dispatch, TaskAt
      <4> QED BY <4>1, <4>2 DEF Clean, Execution, Executing, Copied, Own, Good,
            Requesting, Control, RequestWay
    <3>2. db' = db \/ (sndBuf \in Blocks /\ db' = [db EXCEPT ![sndBuf] = sndBuf])
      BY <2>2, <3>1 DEF HExecute
    <3>3. db \in [Blocks -> Frames]
      BY DEF Exchange, IInv, TypeOK, ProductType
    <3> QED BY <3>2, <3>3
  <2>3. CASE ~HExecute
    <3>1. db' = db
      BY Owners, <2>3, Zenon
    <3> QED BY <3>1
  <2> QED BY <2>1, <2>2, <2>3
<1>2. Spec => [][Step]_vars
  BY <1>1, Exchanges, PTL DEF Spec
<1> QED BY <1>2 DEF OwnReplyOnly

\* The master never starts to send while the relay is still to answer, with
\* the same exception.
THEOREM NeverTalksOver ==
    ASSUME PromptRelay, ClockLeftAlone
    PROVE  Spec => NoCollision
<1> DEFINE Step == txLeft = -1 /\ txLeft' = TxTime => slLeft = -1 \/ cut
<1>1. Exchange /\ [Next]_vars => [Step]_vars
  <2> SUFFICES ASSUME Exchange, [Next]_vars, txLeft = -1, txLeft' = TxTime
               PROVE  slLeft = -1 \/ cut
    OBVIOUS
  <2> USE TimingNat DEF line
  <2>1. CASE HSent
    <3>1. pc = "dispatch" /\ reg = {"FRAME_SENT"}
      BY <2>1, Zenon DEF HSent, Dispatch, TaskAt
    <3> QED BY <3>1 DEF Exchange, Clean, QuietRequest, Requesting, LineQuiet
  <2>2. CASE ~HSent
    <3>1. txLeft' = -1
      BY Owners, <2>2, Zenon
    <3> QED BY <3>1
  <2> QED BY <2>1, <2>2
<1>2. Spec => [][Step]_vars
  BY <1>1, Exchanges, PTL DEF Spec
<1> QED BY <1>2 DEF NoCollision

\* After a reported timeout the quality is GOOD again only on a reply received
\* since, whatever was under way when the timeout was reported.
THEOREM GoodIsFresh ==
    ASSUME PromptRelay, ClockLeftAlone
    PROVE  Spec => GoodMeansFresh
<1> DEFINE Step == quality = "INVALID" /\ quality' = "GOOD" => fresh
<1>1. Exchange /\ [Next]_vars => [Step]_vars
  <2> SUFFICES ASSUME Exchange, [Next]_vars, quality = "INVALID", quality' = "GOOD"
               PROVE  fresh
    OBVIOUS
  <2>1. CASE Return
    <3>1. ret = "ERECVDATA"
      BY <2>1 DEF Return
    <3> QED BY <3>1 DEF Exchange, Stale, NothingGood
  <2>2. CASE ~Return
    <3>1. quality' = quality
      BY Owners, <2>2, Zenon
    <3> QED BY <3>1
  <2> QED BY <2>1, <2>2
<1>2. Spec => [][Step]_vars
  BY <1>1, Exchanges, PTL DEF Spec
<1> QED BY <1>2 DEF GoodMeansFresh
=============================================================================
