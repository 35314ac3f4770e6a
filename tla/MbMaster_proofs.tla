--------------------------- MODULE MbMaster_proofs ---------------------------
(***************************************************************************)
(* Proofs about the MODBUS master for every number and size of blocks,     *)
(* every timing and every behaviour of the relay.                          *)
(***************************************************************************)
EXTENDS MbMaster, TLAPS

\* The relay answers a request it has received.
SlaveBusy == slLeft >= 0 => slReq \in Requests

\* A sender that waits for the answer has nothing on the line and its transmit
\* interrupt has got as far as the timer; while that interrupt runs the line
\* is free.
SenderWaits ==
    /\ eSndState = "XFWR" => txLeft = -1 /\ isr \notin {"tx", "txstate"}
    /\ isr \in {"tx", "txstate", "txtimer"} => txLeft = -1

IInv == TypeOK /\ SlaveBusy /\ SenderWaits /\ NoStuckTransmitter

\* The bytes of an answer are a natural number.
LEMMA AnswerLenNat == \A r \in Requests : AnswerLen(r) \in Nat
BY NamesAssumption, DataAssumption DEF AnswerLen, Requests

LEMMA TimingNat ==
    /\ T35 \in Nat /\ T35 > 0 /\ TxTime \in Nat /\ TxTime > 0
    /\ Respond \in Nat /\ Respond > 0 /\ Period \in Nat /\ Period > 0
    /\ ReplyMax \in Nat /\ ReplyMax > 0 /\ MaxLag \in Nat /\ MaxLag > 0
    /\ T35 < Respond /\ MaxSets \in Nat
BY TimingAssumption, DataAssumption

LEMMA InitType == Init => TypeOK
<1> SUFFICES ASSUME Init PROVE TypeOK
  OBVIOUS
<1> USE TimingNat DEF Init
<1>1. MachineType
  BY DEF MachineType
<1>2. BuffersType
  BY DEF BuffersType, Sizes, Frames, Requests
<1>3. LineType
  BY DEF LineType, Frames, Requests
<1>4. TaskType
  BY DEF TaskType, Events, Rets
<1>5. PaceType
  BY DEF PaceType
<1>6. ProductType
  BY DEF ProductType, Frames
<1>7. FlagsType
  BY DEF FlagsType
<1> QED BY <1>1, <1>2, <1>3, <1>4, <1>5, <1>6, <1>7 DEF TypeOK

LEMMA InitIInv == Init => IInv
BY InitType DEF Init, IInv, SlaveBusy, SenderWaits, NoStuckTransmitter

\* Stopping the DMA leaves nothing to receive or to send.
LEMMA DmaStops == DmaStop => rxDma' = 0 /\ txLeft' = -1
BY Zenon DEF DmaStop

\* Every step keeps the types: one case per action of Next, and where an
\* action sets a flag as well as numbers, the flags apart.
LEMMA NextType == TypeOK /\ SlaveBusy /\ [Next]_vars => TypeOK'
<1> SUFFICES ASSUME TypeOK, SlaveBusy, [Next]_vars PROVE TypeOK'
  OBVIOUS
<1> USE TimingNat, AnswerLenNat, NamesAssumption
    DEF TypeOK, SlaveBusy, MachineType, BuffersType, LineType, TaskType,
        PaceType, ProductType, FlagsType, machine, buffers, line, task,
        handler, pace, product, history, Requests, Frames, Events, Rets, Sizes
<1>r. relay' = relay
  BY DEF Next, Same, vars
<1> USE <1>r
<1>0. ASSUME UNCHANGED vars PROVE TypeOK'
  BY <1>0 DEF vars
<1>1. ASSUME NEW r \in Requests, LoopRequest(r) PROVE TypeOK'
  <2>0. Prepare(r) /\ pc = "loop" /\ since' = 0 /\ Nextread' = FALSE /\ lag' = 0
    /\ UNCHANGED <<machine, ev, errType, handler, timeCmd, sets, product, history>>
    BY <1>1, Zenon DEF LoopRequest, TaskAt
  <2>1. FlagsType'
    BY <2>0 DEF Prepare
  <2>2. sizeRX' \in Sizes
    BY <2>0 DEF Prepare, AnswerLen
  <2>3. txReq' \in Frames
    BY <2>0 DEF Prepare
  <2>4. BuffersType'
    BY <2>0, <2>2 DEF Prepare
  <2>5. LineType' /\ MachineType'
    BY <2>0, <2>3 DEF Prepare
  <2>6. TaskType' /\ PaceType' /\ ProductType'
    BY <2>0 DEF Prepare
  <2> QED BY <2>1, <2>4, <2>5, <2>6
<1>2. ASSUME LoopTime PROVE TypeOK'
  BY <1>2 DEF LoopTime, TaskAt, Prepare
<1>3. ASSUME LoopSkip PROVE TypeOK'
  <2>1. FlagsType'
    BY <1>3, Zenon DEF LoopSkip, TaskAt
  <2>2. MachineType' /\ BuffersType' /\ LineType'
    BY <1>3 DEF LoopSkip, TaskAt
  <2>3. TaskType' /\ PaceType' /\ ProductType'
    BY <1>3 DEF LoopSkip, TaskAt
  <2> QED BY <2>1, <2>2, <2>3
<1>4. ASSUME LoopIdle PROVE TypeOK'
  BY <1>4 DEF LoopIdle, TaskAt
<1>5. ASSUME PostLoad PROVE TypeOK'
  BY <1>5 DEF PostLoad, TaskAt
<1>6. ASSUME PostStore PROVE TypeOK'
  BY <1>6 DEF PostStore, TaskAt
<1>7. ASSUME WaitLoad PROVE TypeOK'
  BY <1>7 DEF WaitLoad, TaskAt
<1>8. ASSUME WaitStore PROVE TypeOK'
  BY <1>8 DEF WaitStore, TaskAt
<1>9. ASSUME PollLoad PROVE TypeOK'
  BY <1>9 DEF PollLoad, TaskAt
<1>10. ASSUME PollClear PROVE TypeOK'
  BY <1>10 DEF PollClear, TaskAt
<1>11. ASSUME HReady PROVE TypeOK'
  BY <1>11 DEF HReady, Dispatch, TaskAt
<1>12. ASSUME HReceived PROVE TypeOK'
  BY <1>12 DEF HReceived, Dispatch, TaskAt
<1>13. ASSUME HExecute PROVE TypeOK'
  BY <1>13 DEF HExecute, Dispatch, TaskAt
<1>14. ASSUME HSent PROVE TypeOK'
  BY <1>14 DEF HSent, Dispatch, TaskAt
<1>15. ASSUME HError PROVE TypeOK'
  <2>1. FlagsType'
    BY <1>15, Zenon DEF HError, Dispatch, TaskAt, DmaStop
  <2>2. MachineType' /\ BuffersType'
    BY <1>15 DEF HError
  <2>3. rxDma' \in Nat /\ txLeft' \in -1 .. TxTime
    BY <1>15, DmaStops DEF HError
  <2>4. LineType'
    BY <1>15, <2>3 DEF HError
  <2>5. TaskType' /\ PaceType' /\ ProductType'
    BY <1>15 DEF HError
  <2> QED BY <2>1, <2>2, <2>4, <2>5
<1>16. ASSUME RtuStartTimer PROVE TypeOK'
  BY <1>16 DEF RtuStartTimer, TaskAt
<1>17. ASSUME Return PROVE TypeOK'
  BY <1>17 DEF Return, TaskAt
<1>18. ASSUME SntpSet PROVE TypeOK'
  BY <1>18 DEF SntpSet
<1>19. ASSUME TxComplete PROVE TypeOK'
  BY <1>19 DEF TxComplete
<1>20. ASSUME TxArm PROVE TypeOK'
  <2>1. FlagsType'
    BY <1>20, Zenon DEF TxArm
  <2>2. sizeRX \in Nat
    BY DataAssumption
  <2>3. LineType'
    BY <1>20, <2>2 DEF TxArm
  <2>4. MachineType' /\ BuffersType'
    BY <1>20 DEF TxArm
  <2>5. TaskType' /\ PaceType' /\ ProductType'
    BY <1>20 DEF TxArm
  <2> QED BY <2>1, <2>3, <2>4, <2>5
<1>21. ASSUME TxState PROVE TypeOK'
  BY <1>21 DEF TxState
<1>22. ASSUME TxTimer PROVE TypeOK'
  BY <1>22 DEF TxTimer
<1>23. ASSUME RxComplete PROVE TypeOK'
  <2>1. FlagsType'
    BY <1>23, Zenon DEF RxComplete
  <2>2. MachineType' /\ BuffersType' /\ LineType'
    BY <1>23 DEF RxComplete
  <2>3. TaskType' /\ PaceType' /\ ProductType'
    BY <1>23 DEF RxComplete
  <2> QED BY <2>1, <2>2, <2>3
<1>24. ASSUME RxCopy PROVE TypeOK'
  BY <1>24 DEF RxCopy
<1>25. ASSUME RxState PROVE TypeOK'
  BY <1>25 DEF RxState
<1>26. ASSUME RxStore PROVE TypeOK'
  BY <1>26 DEF RxStore
<1>27. ASSUME TimerExpired PROVE TypeOK'
  <2>1. rxDone' \in BOOLEAN
    BY <1>27, Zenon DEF TimerExpired, DmaStop
  <2>2. cut' \in BOOLEAN
    BY <1>27 DEF TimerExpired, Sending
  <2>3. FlagsType'
    BY <1>27, <2>1, <2>2, Zenon DEF TimerExpired
  <2>4. TimerEvents \subseteq Events
    BY DEF TimerEvents
  <2>5. MachineType' /\ BuffersType'
    BY <1>27, <2>4 DEF TimerExpired
  <2>6. rxDma' \in Nat /\ txLeft' \in -1 .. TxTime
    BY <1>27, DmaStops DEF TimerExpired
  <2>7. LineType'
    BY <1>27, <2>6 DEF TimerExpired
  <2>8. TaskType' /\ PaceType' /\ ProductType'
    BY <1>27 DEF TimerExpired
  <2> QED BY <2>3, <2>5, <2>7, <2>8
<1>28. ASSUME SlaveReply PROVE TypeOK'
  <2>0. slReq \in Requests /\ AnswerLen(slReq) \in Nat
    BY <1>28 DEF SlaveReply
  <2>1. \A len \in Nat, data \in Frames : Arrive(len, data) =>
          rxDma' \in Nat /\ dmaBuf' \in Frames /\ rxDone' \in BOOLEAN
    <3> SUFFICES ASSUME NEW len \in Nat, NEW data \in Frames, Arrive(len, data)
                 PROVE  rxDma' \in Nat /\ dmaBuf' \in Frames /\ rxDone' \in BOOLEAN
      OBVIOUS
    <3>1. rxDone' \in BOOLEAN
      BY Zenon DEF Arrive
    <3>2. rxDma' \in Nat /\ dmaBuf' \in Frames
      BY DEF Arrive
    <3> QED BY <3>1, <3>2
  <2>2. PICK how \in relay :
          CASE how = "ok"        -> Arrive(AnswerLen(slReq), slReq)
            [] how = "noise"     -> Arrive(AnswerLen(slReq), Bad)
            [] how = "exception" -> Arrive(ExceptionLen, Bad)
            [] how = "silent"    -> UNCHANGED <<rxDma, dmaBuf, rxDone>>
    BY <1>28, Zenon DEF SlaveReply
  <2>3. rxDma' \in Nat /\ dmaBuf' \in Frames /\ rxDone' \in BOOLEAN
    <3>1. how \in {"ok", "noise", "exception", "silent"}
      BY DataAssumption
    <3>2. CASE how = "ok"
      BY <3>2, <2>0, <2>1, <2>2
    <3>3. CASE how = "noise"
      BY <3>3, <2>0, <2>1, <2>2
    <3>4. CASE how = "exception"
      BY <3>4, <2>1, <2>2 DEF ExceptionLen
    <3>5. CASE how = "silent"
      BY <3>5, <2>2
    <3> QED BY <3>1, <3>2, <3>3, <3>4, <3>5
  <2>4. FlagsType'
    BY <1>28, <2>3, Zenon DEF SlaveReply
  <2>5. MachineType' /\ BuffersType'
    BY <1>28 DEF SlaveReply
  <2>6. LineType'
    BY <1>28, <2>3 DEF SlaveReply
  <2>7. TaskType' /\ PaceType' /\ ProductType'
    BY <1>28 DEF SlaveReply
  <2> QED BY <2>4, <2>5, <2>6, <2>7
<1>29. ASSUME Tick PROVE TypeOK'
  BY <1>29 DEF Tick, Down, InterruptPending
<1> QED
  BY ONLY <1>0, <1>1, <1>2, <1>3, <1>4, <1>5, <1>6, <1>7, <1>8, <1>9, <1>10,
    <1>11, <1>12, <1>13, <1>14, <1>15, <1>16, <1>17, <1>18, <1>19,
    <1>20, <1>21, <1>22, <1>23, <1>24, <1>25, <1>26, <1>27, <1>28,
    <1>29,
    [Next]_vars
  DEF Next, Task, Loop, Poll, Handlers
\* Every step keeps the relay, the sender and what will end the sender's wait
\* in agreement.  The actions that matter are HSent, TxComplete, TxState,
\* TxTimer, HError, RtuStartTimer and TimerExpired; the others leave the
\* sender, the line and the timer alone or bring the sender back to idle.
LEMMA NextRest == IInv /\ [Next]_vars => (SlaveBusy /\ SenderWaits /\ NoStuckTransmitter)'
<1> SUFFICES ASSUME IInv, [Next]_vars
             PROVE  (SlaveBusy /\ SenderWaits /\ NoStuckTransmitter)'
  OBVIOUS
<1> DEFINE Goal == (SlaveBusy /\ SenderWaits /\ NoStuckTransmitter)'
<1> USE TimingNat, NamesAssumption
    DEF IInv, SlaveBusy, SenderWaits, NoStuckTransmitter, machine, buffers, line,
        task, handler, pace, product, history, Requests
<1>t. /\ timer \in -1 .. Respond /\ txLeft \in -1 .. TxTime
    /\ slLeft \in -1 .. ReplyMax /\ eSndState \in {"IDLE", "XMIT", "XFWR"}
  BY DEF TypeOK, MachineType, LineType
<1>0. ASSUME UNCHANGED vars PROVE Goal
  BY <1>0 DEF vars
<1>1. ASSUME NEW r \in Requests, LoopRequest(r) PROVE Goal
  BY <1>1 DEF LoopRequest, Prepare, TaskAt
<1>2. ASSUME LoopTime PROVE Goal
  BY <1>2 DEF LoopTime, TaskAt, Prepare
<1>3. ASSUME LoopSkip PROVE Goal
  BY <1>3 DEF LoopSkip, TaskAt
<1>4. ASSUME LoopIdle PROVE Goal
  BY <1>4 DEF LoopIdle, TaskAt
<1>5. ASSUME PostLoad PROVE Goal
  BY <1>5 DEF PostLoad, TaskAt
<1>6. ASSUME PostStore PROVE Goal
  BY <1>6 DEF PostStore, TaskAt
<1>7. ASSUME WaitLoad PROVE Goal
  BY <1>7 DEF WaitLoad, TaskAt
<1>8. ASSUME WaitStore PROVE Goal
  BY <1>8 DEF WaitStore, TaskAt
<1>9. ASSUME PollLoad PROVE Goal
  BY <1>9 DEF PollLoad, TaskAt
<1>10. ASSUME PollClear PROVE Goal
  BY <1>10 DEF PollClear, TaskAt
<1>11. ASSUME HReady PROVE Goal
  BY <1>11 DEF HReady, Dispatch, TaskAt
<1>12. ASSUME HReceived PROVE Goal
  BY <1>12 DEF HReceived, Dispatch, TaskAt
<1>13. ASSUME HExecute PROVE Goal
  BY <1>13 DEF HExecute, Dispatch, TaskAt
<1>14. ASSUME HSent PROVE Goal
  BY <1>14, <1>t DEF HSent, Dispatch, TaskAt
<1>15. ASSUME HError PROVE Goal
  BY <1>15, <1>t, DmaStops DEF HError, Dispatch, TaskAt
<1>16. ASSUME RtuStartTimer PROVE Goal
  BY <1>16, <1>t DEF RtuStartTimer, TaskAt
<1>17. ASSUME Return PROVE Goal
  BY <1>17 DEF Return, TaskAt
<1>18. ASSUME SntpSet PROVE Goal
  BY <1>18 DEF SntpSet
<1>19. ASSUME TxComplete PROVE Goal
  BY <1>19, <1>t DEF TxComplete
<1>20. ASSUME TxArm PROVE Goal
  BY <1>20 DEF TxArm
<1>21. ASSUME TxState PROVE Goal
  BY <1>21, <1>t DEF TxState
<1>22. ASSUME TxTimer PROVE Goal
  BY <1>22, <1>t DEF TxTimer
<1>23. ASSUME RxComplete PROVE Goal
  BY <1>23 DEF RxComplete
<1>24. ASSUME RxCopy PROVE Goal
  BY <1>24, <1>t DEF RxCopy
<1>25. ASSUME RxState PROVE Goal
  BY <1>25 DEF RxState
<1>26. ASSUME RxStore PROVE Goal
  BY <1>26 DEF RxStore
<1>27. ASSUME TimerExpired PROVE Goal
  BY <1>27, <1>t, DmaStops DEF TimerExpired
<1>28. ASSUME SlaveReply PROVE Goal
  BY <1>28, <1>t DEF SlaveReply
<1>29. ASSUME Tick PROVE Goal
  BY <1>29, <1>t DEF Tick, Down, InterruptPending
<1> QED
  BY ONLY <1>0, <1>1, <1>2, <1>3, <1>4, <1>5, <1>6, <1>7, <1>8, <1>9, <1>10,
    <1>11, <1>12, <1>13, <1>14, <1>15, <1>16, <1>17, <1>18, <1>19,
    <1>20, <1>21, <1>22, <1>23, <1>24, <1>25, <1>26, <1>27, <1>28,
    <1>29,
    [Next]_vars
  DEF Next, Task, Loop, Poll, Handlers

\* The invariant is inductive.
LEMMA NextIInv == IInv /\ [Next]_vars => IInv'
BY NextType, NextRest DEF IInv

LEMMA Invariance == Spec => []IInv
<1>1. Init => IInv
  BY InitIInv
<1>2. IInv /\ [Next]_vars => IInv'
  BY NextIInv
<1> QED BY <1>1, <1>2, PTL DEF Spec

\* Type correctness.
THEOREM TypeCorrect == Spec => []TypeOK
<1>1. IInv => TypeOK
  BY DEF IInv
<1> QED BY <1>1, Invariance, PTL

\* A transmitter that is not idle is on its way back to idle, whatever the
\* timer, the interrupts, the events and the relay do.
THEOREM SenderNeverStuck == Spec => []NoStuckTransmitter
<1>1. IInv => NoStuckTransmitter
  BY DEF IInv
<1> QED BY <1>1, Invariance, PTL
=============================================================================
