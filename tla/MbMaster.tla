------------------------------ MODULE MbMaster ------------------------------
(***************************************************************************)
(* The MODBUS RTU master of the communication module: the poll task        *)
(* (StartMODBUSTask), the event word xMasterOsEvent, the receive and       *)
(* transmit state machines driven by the UART/DMA interrupts, the TIM2     *)
(* timeout interrupt, the half duplex line and the relay that answers.     *)
(*                                                                         *)
(* Time is a count of coarse ticks.  A task or interrupt step takes no     *)
(* time; Tick lets time pass.  TIM2 (preemption priority 2) may preempt    *)
(* the UART and DMA interrupts (priority 6), and both preempt the task.    *)
(***************************************************************************)
EXTENDS Integers, FiniteSets

CONSTANTS
    Blocks,     \* the memory blocks of the relay the schedule reads
    Words,      \* [Blocks -> Nat]: registers of each block
    Write,      \* a coil or multiple register write
    NoReq,      \* no request or frame
    Bad,        \* a frame whose CRC does not match
    T35,        \* ticks of the 3.5 character timer
    TxTime,     \* ticks a request occupies the line
    Respond,    \* ticks of the respond timer (MB_MASTER_TIMEOUT_MS_RESPOND)
    Period,     \* ticks between two paced requests (MB_PerForReadMODBUS)
    ReplyMax,   \* ticks, at most, from a request to the end of its reply
    MaxLag,     \* ticks, at most, between two iterations of the poll task
    Relays,     \* the relays there may be: each the set of what it may do with
                \* a request
    MaxSets     \* bound: times the SNTP client sets the clock; 0 when it is
                \* off (SNTP_Period = 0)

Requests == Blocks \cup {Write}
Frames == Requests \cup {NoReq, Bad}

ASSUME NamesAssumption ==
    /\ {Write, NoReq, Bad} \cap Blocks = {}
    /\ Write # NoReq /\ Write # Bad /\ NoReq # Bad
ASSUME TimingAssumption ==
    /\ {T35, TxTime, Respond, Period, ReplyMax, MaxLag} \subseteq Nat \ {0}
    /\ T35 < Respond /\ 2 * MaxLag + TxTime + Respond < Period
ASSUME DataAssumption ==
    /\ Words \in [Blocks -> Nat \ {0}]
    /\ Relays \subseteq SUBSET {"ok", "exception", "noise", "silent"}
    /\ MaxSets \in Nat

VARIABLES
    eRcvState,  \* receiver state (eMBMasterRcvState)
    eSndState,  \* sender state (eMBMasterSndState)
    timer,      \* ticks left of TIM2, -1 when it is stopped
    ev,         \* xMasterOsEvent, the set of events posted and not yet taken
    errType,    \* eMBMasterCurErrorType
    sndBuf,     \* the request in ucMasterRTUSndBuf
    rcvBuf,     \* the frame in ucMasterRTURcvBuf
    frame,      \* which buffer ucMBFrame points at: "rcv" or "snd"
    sizeRX,     \* Modbus_SizeRX
    rxDma,      \* bytes the receive DMA still waits for, 0 when it is off
    dmaBuf,     \* the frame in Modbus_DataRX
    rxDone,     \* the receive complete interrupt is pending
    txLeft,     \* ticks left of the transmission, -1 when there is none
    txReq,      \* the request on the line, Bad when it was overwritten
    slLeft,     \* ticks until the relay has answered, -1 when it is idle
    slReq,      \* the request the relay answers
    pc,         \* where the poll task is
    post,       \* the event the poll task is posting
    reg,        \* its register copy of xMasterOsEvent
    ret,        \* the result of eMBMasterPoll
    isr,        \* where the UART/DMA interrupt handler is
    isrReg,     \* its register copy of xMasterOsEvent
    since,      \* ticks since TimerReadMB was taken, at most Period
    Nextread,   \* the flag of that name
    lag,        \* ticks since the poll task last began its loop
    timeCmd,    \* writeNmb = 10: the clock of the relay is to be set
    sets,       \* how often it was
    quality,    \* GLOBAL_QUALITY
    db,         \* whose reply each memory block was last filled from
    cut,        \* history: a timer left running by an earlier exchange expired
                \* while a request was being sent, and no request has been
                \* sent on a quiet line since
    fresh,      \* history: a good reply came since the last reported timeout
    relay       \* the relay there is

machine == <<eRcvState, eSndState, timer>>
buffers == <<sndBuf, rcvBuf, frame, sizeRX>>
line    == <<rxDma, dmaBuf, rxDone, txLeft, txReq, slLeft, slReq>>
task    == <<pc, post, reg, ret>>
handler == <<isr, isrReg>>
pace    == <<since, Nextread, lag, timeCmd, sets>>
product == <<quality, db>>
history == <<cut, fresh>>
vars == <<machine, ev, errType, buffers, line, task, handler, pace, product,
          history, relay>>

Events == {"READY", "FRAME_RECEIVED", "EXECUTE", "FRAME_SENT", "ERROR_PROCESS"}
Rets == {"NOTASK", "ENOERR", "ERECV", "EIO", "ESENT", "ERECVDATA", "ETIMEDOUT"}

\* Mutant: the CRC is left out of the size.
AnswerLenShort(r) == IF r = Write THEN 8 ELSE 3 + 2 * Words[r]

\* Bytes of a good reply: address, function, count, CRC and the registers of a
\* read; the echo of a write.  An exception reply has five.
AnswerLen(r) == IF r = Write THEN 8 ELSE 5 + 2 * Words[r]
ExceptionLen == 5
Sizes == {5 + 2 * Words[b] : b \in Blocks} \cup {0}

MachineType ==
    /\ eRcvState \in {"INIT", "IDLE", "RCV"}
    /\ eSndState \in {"IDLE", "XMIT", "XFWR"}
    /\ timer \in -1 .. Respond
    /\ ev \subseteq Events
    /\ errType \in {"NONE", "RESPOND_TIMEOUT", "RECEIVE_DATA", "EXECUTE_FUNCTION"}
BuffersType ==
    /\ sndBuf \in Requests \cup {NoReq}
    /\ rcvBuf \in Frames
    /\ frame \in {"rcv", "snd"}
    /\ sizeRX \in Sizes
LineType ==
    /\ rxDma \in Nat
    /\ dmaBuf \in Frames
    /\ txLeft \in -1 .. TxTime
    /\ txReq \in Frames
    /\ slLeft \in -1 .. ReplyMax
    /\ slReq \in Requests \cup {NoReq}
TaskType ==
    /\ pc \in {"loop", "post", "store", "wait", "waited", "poll", "clear",
               "dispatch", "rtustart", "return"}
    /\ post \in Events
    /\ reg \subseteq Events
    /\ ret \in Rets
    /\ isr \in {"none", "tx", "txstate", "txtimer", "rx", "rxstate", "rxstore"}
    /\ isrReg \subseteq Events
PaceType ==
    /\ since \in 0 .. Period
    /\ lag \in 0 .. MaxLag
    /\ sets \in 0 .. MaxSets
ProductType ==
    /\ quality \in {"GOOD", "INVALID"}
    /\ db \in [Blocks -> Frames]
FlagsType == {rxDone, Nextread, timeCmd, cut, fresh} \subseteq BOOLEAN
TypeOK == /\ MachineType /\ BuffersType /\ LineType /\ TaskType /\ PaceType
          /\ ProductType /\ FlagsType /\ relay \in Relays

\* eMBMasterInit and eMBMasterEnable have run: the receiver waits T35 for the
\* line to be quiet, and TimerReadMB has just been taken.
Init ==
    /\ eRcvState = "INIT" /\ eSndState = "IDLE" /\ timer = T35
    /\ ev = {} /\ errType = "NONE"
    /\ sndBuf = NoReq /\ rcvBuf = NoReq /\ frame = "rcv" /\ sizeRX = 0
    /\ rxDma = 0 /\ dmaBuf = NoReq /\ rxDone = FALSE
    /\ txLeft = -1 /\ txReq = NoReq /\ slLeft = -1 /\ slReq = NoReq
    /\ pc = "loop" /\ post = "READY" /\ reg = {} /\ ret = "NOTASK"
    /\ isr = "none" /\ isrReg = {}
    /\ since = 0 /\ Nextread = FALSE /\ lag = 0 /\ timeCmd = FALSE /\ sets = 0
    /\ quality = "GOOD" /\ db = [b \in Blocks |-> NoReq]
    /\ cut = FALSE /\ fresh = TRUE /\ relay \in Relays

-----------------------------------------------------------------------------
(* The poll task.  It runs only while no interrupt handler runs or is due. *)

TaskAt(l) == pc = l /\ isr = "none" /\ ~rxDone

\* Mutant: any time since TimerReadMB will do.
PacedEager == since > 0 \/ Nextread

Paced == since = Period \/ Nextread

\* A request function fills the send buffer, which the DMA may still be
\* sending, and records the size of the answer: the reads do, the writes do
\* not.  It then posts FRAME_SENT.
Prepare(r) ==
    /\ sndBuf' = r
    /\ sizeRX' = IF r \in Blocks THEN AnswerLen(r) ELSE sizeRX
    /\ txReq' \in (IF txLeft > 0 /\ r # txReq THEN {txReq, Bad} ELSE {txReq})
    /\ post' = "FRAME_SENT"
    /\ pc' = "post"
    /\ UNCHANGED <<rcvBuf, frame, reg, ret, rxDma, dmaBuf, rxDone, txLeft,
                   slLeft, slReq>>

\* An iteration that asks for a block, or sends a command, when it is due.
LoopRequest(r) ==
    /\ TaskAt("loop") /\ ~timeCmd /\ Paced
    /\ Prepare(r)
    /\ since' = 0 /\ Nextread' = FALSE /\ lag' = 0
    /\ UNCHANGED <<machine, ev, errType, handler, timeCmd, sets, product, history>>

\* writeNmb = 10: the time is written whatever the pace.
LoopTime ==
    /\ TaskAt("loop") /\ timeCmd
    /\ Prepare(Write)
    /\ lag' = 0
    /\ UNCHANGED <<machine, ev, errType, handler, since, Nextread, timeCmd, sets,
                   product, history>>

\* An iteration whose turn of the schedule makes no request.
LoopSkip ==
    /\ TaskAt("loop") /\ ~timeCmd /\ Paced
    /\ pc' = "poll"
    /\ since' = 0 /\ Nextread' = FALSE /\ lag' = 0
    /\ UNCHANGED <<machine, ev, errType, buffers, line, post, reg, ret,
                   handler, timeCmd, sets, product, history>>

\* An iteration with nothing due.
LoopIdle ==
    /\ TaskAt("loop") /\ ~timeCmd /\ ~Paced
    /\ pc' = "poll"
    /\ lag' = 0
    /\ UNCHANGED <<machine, ev, errType, buffers, line, post, reg, ret,
                   handler, since, Nextread, timeCmd, sets, product, history>>

\* xMasterOsEvent |= eEvent is a load and a store: what an interrupt posts
\* between the two is overwritten.
PostLoad ==
    /\ TaskAt("post")
    /\ reg' = ev
    /\ pc' = "store"
    /\ UNCHANGED <<machine, ev, errType, buffers, line, post, ret, handler,
                   pace, product, history>>

PostStore ==
    /\ TaskAt("store")
    /\ ev' = reg \cup {post}
    /\ pc' = IF post = "FRAME_SENT" THEN "wait" ELSE "return"
    /\ UNCHANGED <<machine, errType, buffers, line, post, reg, ret, handler,
                   pace, product, history>>

\* eMBMasterWaitRequestFinish masks out result events nobody posts, with
\* another load and store of the whole word.
WaitLoad ==
    /\ TaskAt("wait")
    /\ reg' = ev
    /\ pc' = "waited"
    /\ UNCHANGED <<machine, ev, errType, buffers, line, post, ret, handler,
                   pace, product, history>>

WaitStore ==
    /\ TaskAt("waited")
    /\ ev' = reg
    /\ reg' = {} /\ post' = "READY"
    /\ pc' = "poll"
    /\ UNCHANGED <<machine, errType, buffers, line, ret, handler, pace,
                   product, history>>

-----------------------------------------------------------------------------
(* eMBMasterPoll                                                           *)

PollLoad ==
    /\ TaskAt("poll")
    /\ reg' = ev
    /\ pc' = "clear"
    /\ UNCHANGED <<machine, ev, errType, buffers, line, post, ret, handler,
                   pace, product, history>>

\* Mutant: the events are taken but not cleared.
PollClearKeeps ==
    /\ TaskAt("clear")
    /\ IF \E e \in Events : reg = {e}
         THEN pc' = "dispatch" /\ ret' = ret
         ELSE /\ pc' = "return"
              /\ ret' = IF reg = {} THEN "NOTASK" ELSE "ENOERR"
    /\ UNCHANGED <<machine, ev, errType, buffers, line, post, reg, handler,
                   pace, product, history>>

\* xMBMasterPortEventGet clears every event and reports one only when it was
\* alone: with two in the word it reports event 0 and eMBMasterPoll returns
\* MB_ENOERR.
PollClear ==
    /\ TaskAt("clear")
    /\ ev' = {}
    /\ IF \E e \in Events : reg = {e}
         THEN pc' = "dispatch" /\ ret' = ret
         ELSE /\ pc' = "return"
              /\ ret' = IF reg = {} THEN "NOTASK" ELSE "ENOERR"
    /\ UNCHANGED <<machine, errType, buffers, line, post, reg, handler, pace,
                   product, history>>

Dispatch(e) == TaskAt("dispatch") /\ reg = {e}

\* EV_MASTER_READY: nothing to do.
HReady ==
    /\ Dispatch("READY")
    /\ ret' = "ENOERR" /\ pc' = "return"
    /\ UNCHANGED <<machine, ev, errType, buffers, line, post, reg, handler,
                   pace, product, history>>

\* Mutant: the CRC is not looked at.
HReceivedUnchecked ==
    /\ Dispatch("FRAME_RECEIVED")
    /\ frame' = "rcv" /\ post' = "EXECUTE" /\ ret' = "ERECV" /\ pc' = "post"
    /\ UNCHANGED <<machine, ev, errType, sndBuf, rcvBuf, sizeRX, line, reg,
                   handler, pace, product, history>>

\* EV_MASTER_FRAME_RECEIVED: eMBMasterRTUReceive checks length and CRC.
HReceived ==
    /\ Dispatch("FRAME_RECEIVED")
    /\ IF rcvBuf \in Requests
         THEN /\ frame' = "rcv" /\ post' = "EXECUTE" /\ ret' = "ERECV"
              /\ errType' = errType
         ELSE /\ frame' = frame /\ post' = "ERROR_PROCESS" /\ ret' = "EIO"
              /\ errType' = "RECEIVE_DATA"
    /\ pc' = "post"
    /\ UNCHANGED <<machine, ev, sndBuf, rcvBuf, sizeRX, line, reg, handler,
                   pace, product, history>>

\* EV_MASTER_EXECUTE: the reply is stored in the block the SEND buffer asks
\* for, when the byte counts agree.  A handler that finds no such block
\* reports an execution error, but the poll still returns MB_ERECVDATA.
HExecute ==
    LET reply == IF frame = "rcv" THEN rcvBuf ELSE sndBuf
        fits == /\ sndBuf \in Blocks /\ reply \in Blocks
                /\ Words[reply] = Words[sndBuf]
    IN
    /\ Dispatch("EXECUTE")
    /\ ret' = "ERECVDATA"
    /\ db' = IF fits THEN [db EXCEPT ![sndBuf] = reply] ELSE db
    /\ IF fits \/ reply = Write
         THEN pc' = "return" /\ UNCHANGED <<post, errType>>
         ELSE /\ errType' = "EXECUTE_FUNCTION"
              /\ post' = "ERROR_PROCESS" /\ pc' = "post"
    /\ UNCHANGED <<machine, ev, buffers, line, reg, handler, pace, quality,
                   history>>

\* EV_MASTER_FRAME_SENT: eMBMasterRTUSend, atomic against the UART handlers.
\* HAL_UART_Transmit_DMA refuses when a transmission is under way; its result
\* is not looked at.
HSent ==
    /\ Dispatch("FRAME_SENT")
    /\ frame' = "snd"
    /\ pc' = "return"
    /\ IF eRcvState \in {"IDLE", "RCV"} /\ eSndState = "IDLE"
         THEN /\ eSndState' = "XMIT" /\ eRcvState' = eRcvState
              /\ ret' = "ESENT"
              /\ cut' = (cut /\ ~(timer = -1 /\ ev = {} /\ txLeft = -1 /\ slLeft = -1))
              /\ IF txLeft = -1
                   THEN txLeft' = TxTime /\ txReq' = sndBuf
                   ELSE UNCHANGED <<txLeft, txReq>>
         ELSE /\ eRcvState' = "IDLE" /\ eSndState' = eSndState
              /\ ret' = "EIO"
              /\ UNCHANGED <<txLeft, txReq, cut>>
    /\ UNCHANGED <<timer, ev, errType, sndBuf, rcvBuf, sizeRX, rxDma, dmaBuf,
                   rxDone, slLeft, slReq, post, reg, handler, pace, product,
                   fresh>>

\* HAL_UART_DMAStop: reception and transmission stop; a receive interrupt
\* already latched may still be taken.
DmaStop ==
    /\ rxDma' = 0 /\ txLeft' = -1
    /\ rxDone' \in {rxDone, FALSE}

\* EV_MASTER_ERROR_PROCESS: after a timeout or a bad frame the receiver is
\* restarted (eMBMasterRTUStart); an execution error only ends the request.
HError ==
    /\ Dispatch("ERROR_PROCESS")
    /\ frame' = "snd"
    /\ ret' = IF errType = "RESPOND_TIMEOUT" THEN "ETIMEDOUT" ELSE "ENOERR"
    /\ fresh' = (fresh /\ errType # "RESPOND_TIMEOUT")
    /\ IF errType \in {"RESPOND_TIMEOUT", "RECEIVE_DATA"}
         THEN eRcvState' = "INIT" /\ pc' = "rtustart"
         ELSE eRcvState' = eRcvState /\ pc' = "return"
    /\ IF errType = "RECEIVE_DATA"
         THEN DmaStop
         ELSE UNCHANGED <<rxDma, txLeft, rxDone>>
    /\ UNCHANGED <<eSndState, timer, ev, errType, sndBuf, rcvBuf, sizeRX,
                   dmaBuf, txReq, slLeft, slReq, post, reg, handler, pace,
                   product, cut>>

\* The second half of eMBMasterRTUStart, which TIM2 may have preempted, and
\* the EV_MASTER_READY the error callbacks post.
RtuStartTimer ==
    /\ TaskAt("rtustart")
    /\ timer' = T35
    /\ post' = "READY" /\ pc' = "post"
    /\ UNCHANGED <<eRcvState, eSndState, ev, errType, buffers, line, reg, ret,
                   handler, pace, product, history>>

\* Mutants of Return: GOOD after any poll that ends well; the time command is
\* never cleared.
ReturnWith(good, keep) ==
    /\ TaskAt("return")
    /\ pc' = "loop" /\ post' = "READY" /\ reg' = {} /\ ret' = "NOTASK"
    /\ quality' = CASE ret = "ETIMEDOUT" -> "INVALID"
                    [] ret \in good -> "GOOD"
                    [] OTHER -> quality
    /\ timeCmd' = (timeCmd /\ (keep \/ ret \notin {"ENOERR", "ESENT"}))
    /\ Nextread' = (Nextread \/ ret = "ERECVDATA")
    /\ UNCHANGED <<machine, ev, errType, buffers, line, handler, since, lag,
                   sets, db, history>>
ReturnAnyGood == ReturnWith({"ERECVDATA", "ESENT"}, FALSE)
ReturnKeepsTime == ReturnWith({"ERECVDATA"}, TRUE)

\* What StartMODBUSTask does with the result of the poll.  The locals of the
\* iteration go out of scope and are reset.
Return ==
    /\ TaskAt("return")
    /\ pc' = "loop" /\ post' = "READY" /\ reg' = {} /\ ret' = "NOTASK"
    /\ quality' = CASE ret = "ETIMEDOUT" -> "INVALID"
                    [] ret = "ERECVDATA" -> "GOOD"
                    [] OTHER -> quality
    /\ timeCmd' = (timeCmd /\ ret \notin {"ENOERR", "ESENT"})
    /\ Nextread' = (Nextread \/ ret = "ERECVDATA")
    /\ UNCHANGED <<machine, ev, errType, buffers, line, handler, since, lag, sets,
                   db, history>>

\* The SNTP client has set the clock and asks for the relay's to be set.
SntpSet ==
    /\ sets < MaxSets /\ ~timeCmd /\ isr = "none"
    /\ timeCmd' = TRUE /\ sets' = sets + 1
    /\ UNCHANGED <<machine, ev, errType, buffers, line, task, handler, since,
                   Nextread, lag, product, history>>

-----------------------------------------------------------------------------
(* The interrupt handlers.                                                 *)

\* The transmission has left the shift register: the relay has the request
\* and starts on its answer, and the transmit complete interrupt is taken.
TxComplete ==
    /\ txLeft = 0 /\ isr = "none"
    /\ txLeft' = -1
    /\ isr' = "tx"
    /\ slReq' = (IF txReq \in Requests THEN txReq ELSE NoReq)
    /\ slLeft' \in (IF txReq \in Requests THEN 1 .. ReplyMax ELSE {-1})
    /\ UNCHANGED <<machine, ev, errType, buffers, rxDma, dmaBuf, rxDone, txReq,
                   task, isrReg, pace, product, history>>

\* HAL_UART_TxCpltCallback: stop the DMA, drop what came, wait for sizeRX
\* bytes.
TxArm ==
    /\ isr = "tx"
    /\ rxDma' = sizeRX
    /\ rxDone' \in {rxDone, FALSE}
    /\ dmaBuf' = NoReq
    /\ isr' = "txstate"
    /\ UNCHANGED <<machine, ev, errType, buffers, txLeft, txReq, slLeft, slReq,
                   task, isrReg, pace, product, history>>

\* xMBMasterRTUTransmitFSM: only a sender in XMIT goes on to start the timer.
TxState ==
    /\ isr = "txstate"
    /\ IF eSndState = "XMIT"
         THEN eSndState' = "XFWR" /\ isr' = "txtimer"
         ELSE eSndState' = eSndState /\ isr' = "none"
    /\ UNCHANGED <<eRcvState, timer, ev, errType, buffers, line, task, isrReg,
                   pace, product, history>>

\* Mutant: the respond timer is not started.
TxTimerLost ==
    /\ isr = "txtimer" /\ isr' = "none"
    /\ UNCHANGED <<machine, ev, errType, buffers, line, task, isrReg, pace,
                   product, history>>

TxTimer ==
    /\ isr = "txtimer"
    /\ timer' = Respond
    /\ isr' = "none"
    /\ UNCHANGED <<eRcvState, eSndState, ev, errType, buffers, line, task,
                   isrReg, pace, product, history>>

\* The receive DMA is full.
RxComplete ==
    /\ rxDone /\ isr = "none"
    /\ rxDone' = FALSE
    /\ isr' = "rx"
    /\ UNCHANGED <<machine, ev, errType, buffers, rxDma, dmaBuf, txLeft, txReq,
                   slLeft, slReq, task, isrReg, pace, product, history>>

\* xMBMasterRTUReceiveFSM copies sizeRX bytes to the receive buffer, in every
\* state; there is no case for RCV.
RxCopy ==
    /\ isr = "rx"
    /\ rcvBuf' = IF dmaBuf \in Requests /\ sizeRX = AnswerLen(dmaBuf)
                   THEN dmaBuf ELSE Bad
    /\ eSndState' = IF eRcvState = "IDLE" THEN "IDLE" ELSE eSndState
    /\ timer' = IF eRcvState = "INIT" THEN T35 ELSE timer
    /\ isr' = IF eRcvState = "IDLE" THEN "rxstate" ELSE "none"
    /\ fresh' = (fresh \/ (eRcvState = "IDLE" /\ rcvBuf' \in Requests))
    /\ UNCHANGED <<eRcvState, ev, errType, sndBuf, frame, sizeRX, line, task,
                   isrReg, pace, product, cut>>

\* The frame is announced with a load and a store, which TIM2 may split.
RxState ==
    /\ isr = "rxstate"
    /\ eRcvState' = "RCV"
    /\ isrReg' = ev
    /\ isr' = "rxstore"
    /\ UNCHANGED <<eSndState, timer, ev, errType, buffers, line, task, pace,
                   product, history>>

RxStore ==
    /\ isr = "rxstore"
    /\ ev' = isrReg \cup {"FRAME_RECEIVED"}
    /\ isrReg' = {}
    /\ isr' = "none"
    /\ UNCHANGED <<machine, errType, buffers, line, task, pace, product,
                   history>>

\* A request is on its way from its request function to the start of its timer.
Sending ==
    \/ pc \in {"post", "store"} /\ post = "FRAME_SENT"
    \/ "FRAME_SENT" \in ev
    \/ pc \in {"clear", "dispatch"} /\ "FRAME_SENT" \in reg
    \/ eSndState = "XMIT" \/ isr = "txtimer"

\* What xMBMasterRTUTimerExpired posts in the states it finds.
TimerEvents ==
    (CASE eRcvState = "INIT" -> {"READY"}
       [] eRcvState = "RCV"  -> {"FRAME_RECEIVED"}
       [] OTHER              -> {})
    \cup (IF eSndState = "XFWR" THEN {"ERROR_PROCESS"} ELSE {})

\* Mutants of TimerExpired: the sender is left waiting; the kind of error is
\* not recorded.
TimerExpiredWith(snd, err) ==
    /\ timer = 0
    /\ timer' = -1
    /\ eRcvState' = "IDLE" /\ eSndState' = snd
    /\ ev' = ev \cup TimerEvents
    /\ errType' = err
    /\ IF eRcvState = "IDLE" /\ eSndState = "XFWR"
         THEN DmaStop
         ELSE UNCHANGED <<rxDma, rxDone, txLeft>>
    /\ cut' = (cut \/ Sending)
    /\ UNCHANGED <<buffers, dmaBuf, txReq, slLeft, slReq, task, handler, pace,
                   product, fresh>>
TimerLeavesSender ==
    TimerExpiredWith(eSndState,
        IF eSndState = "XFWR" THEN "RESPOND_TIMEOUT" ELSE errType)
TimerUntyped == TimerExpiredWith("IDLE", errType)

\* xMBMasterRTUTimerExpired, at TIM2's priority: nothing else runs meanwhile.
TimerExpired ==
    /\ timer = 0
    /\ timer' = -1
    /\ eRcvState' = "IDLE" /\ eSndState' = "IDLE"
    /\ ev' = ev \cup TimerEvents
    /\ errType' = IF eSndState = "XFWR" THEN "RESPOND_TIMEOUT" ELSE errType
    /\ IF eRcvState = "IDLE" /\ eSndState = "XFWR"
         THEN DmaStop
         ELSE UNCHANGED <<rxDma, rxDone, txLeft>>
    /\ cut' = (cut \/ Sending)
    /\ UNCHANGED <<buffers, dmaBuf, txReq, slLeft, slReq, task, handler, pace,
                   product, fresh>>

-----------------------------------------------------------------------------
(* The relay and the passing of time.                                      *)

\* The last byte of a reply of len bytes is on the line.
Arrive(len, data) ==
    IF rxDma = 0 THEN UNCHANGED <<rxDma, dmaBuf, rxDone>>
    ELSE IF len < rxDma
      THEN rxDma' = rxDma - len /\ dmaBuf' = Bad /\ rxDone' = rxDone
    ELSE /\ rxDma' = 0 /\ rxDone' = TRUE
         /\ dmaBuf' = IF len = rxDma /\ dmaBuf = NoReq THEN data ELSE Bad

SlaveReply ==
    /\ slLeft = 0
    /\ slLeft' = -1 /\ slReq' = NoReq
    /\ \E how \in relay :
         CASE how = "ok"        -> Arrive(AnswerLen(slReq), slReq)
           [] how = "noise"     -> Arrive(AnswerLen(slReq), Bad)
           [] how = "exception" -> Arrive(ExceptionLen, Bad)
           [] how = "silent"    -> UNCHANGED <<rxDma, dmaBuf, rxDone>>
    /\ UNCHANGED <<machine, ev, errType, buffers, txLeft, txReq, task, handler,
                   pace, product, history>>

InterruptPending == timer = 0 \/ txLeft = 0 \/ rxDone \/ isr # "none"

Down(n) == IF n > 0 THEN n - 1 ELSE n

\* A tick passes when no interrupt waits, the relay has nothing due, and the
\* task has not already fallen MaxLag behind.
Tick ==
    /\ ~InterruptPending /\ slLeft # 0 /\ lag < MaxLag
    /\ timer' = Down(timer)
    /\ txLeft' = Down(txLeft)
    /\ slLeft' = Down(slLeft)
    /\ since' = IF since < Period THEN since + 1 ELSE since
    /\ lag' = lag + 1
    /\ UNCHANGED <<eRcvState, eSndState, ev, errType, buffers, rxDma, dmaBuf,
                   rxDone, txReq, slReq, task, handler, Nextread, timeCmd, sets,
                   product, history>>

-----------------------------------------------------------------------------
Loop == \/ \E r \in Requests : LoopRequest(r)
        \/ LoopTime \/ LoopSkip \/ LoopIdle
Poll == \/ PollLoad \/ PollClear
        \/ HReady \/ HReceived \/ HExecute \/ HSent \/ HError \/ RtuStartTimer
Task == \/ Loop \/ PostLoad \/ PostStore \/ WaitLoad \/ WaitStore
        \/ Poll \/ Return
Handlers == \/ TxComplete \/ TxArm \/ TxState \/ TxTimer
            \/ RxComplete \/ RxCopy \/ RxState \/ RxStore
            \/ TimerExpired
Same == UNCHANGED relay
Next == (Task \/ SntpSet \/ Handlers \/ SlaveReply \/ Tick) /\ Same

Spec == Init /\ [][Next]_vars

\* The processor serves its interrupts, the poll task is scheduled, the relay
\* ends what it does with a request, and time passes.
\* The schedule turns to a block again and again: a turn that makes no request
\* is followed by one that does.
FairSpec ==
    /\ Spec
    /\ WF_vars(Same /\ Task) /\ WF_vars(Same /\ Handlers)
    /\ WF_vars(Same /\ SlaveReply) /\ WF_vars(Same /\ Tick)
    /\ SF_vars(Same /\ \E b \in Blocks : LoopRequest(b))

-----------------------------------------------------------------------------
\* A transmitter that is not idle is on its way back: the transmission, its
\* interrupt, a running timer or a restart of the receiver will end it, so
\* eMBMasterRTUSend cannot be refused for ever.
NoStuckTransmitter ==
    eSndState # "IDLE" =>
        \/ timer >= 0 \/ txLeft >= 0
        \/ isr \in {"tx", "txstate", "txtimer"} \/ pc = "rtustart"

\* EXECUTE is announced only for a reply that passed the CRC, and ucMBFrame
\* still points at the receive buffer when it is taken: no event of another
\* exchange slips in between.
ExecuteOnReply ==
    ("EXECUTE" \in ev \/ (pc \in {"post", "store"} /\ post = "EXECUTE"))
        => (frame = "rcv" /\ rcvBuf \in Requests) \/ cut

\* A memory block is filled only from the relay's answer for that block; the
\* exception is an exchange whose transmission the timer of the one before
\* cut short.
OwnReplyOnly ==
    [][\A b \in Blocks : db'[b] # db[b] => db'[b] = b \/ cut]_vars

\* The master never talks over the relay's answer, with the same exception.
NoCollision ==
    [][(txLeft = -1 /\ txLeft' = TxTime) => (slLeft = -1 \/ cut)]_vars

\* After a reported timeout the quality is GOOD again only when the relay has
\* sent a good reply since.
GoodMeansFresh ==
    [][(quality = "INVALID" /\ quality' = "GOOD") => fresh]_vars

\* An interrupt posts an event while the task holds a copy of the word it will
\* write back: the event is overwritten.  How often this happens is a matter
\* of luck; the liveness properties below ask that it ends.
Overwritten == ev' # ev /\ pc' = pc /\ pc \in {"store", "waited", "clear"}
LossesEnd == <>[][~Overwritten]_vars

\* Whatever the relay does, the master sends again and again.
AsksForever == LossesEnd => []<>(eSndState = "XMIT")

\* A relay that never gives a good answer is eventually reported INVALID.
DeadRelayReported ==
    (LossesEnd /\ relay \subseteq {"exception", "silent"}) => <>(quality = "INVALID")

\* A relay that answers every request is read again and again.
LiveRelayRead ==
    (LossesEnd /\ relay = {"ok"}) => []<>(pc = "return" /\ ret = "ERECVDATA")

\* The unpaced branch that writes the relay's clock does not hold the task for
\* ever: the command is cleared again and again.
TimeCommandEnds == []<>~timeCmd

=============================================================================
