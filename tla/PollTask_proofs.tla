--------------------------- MODULE PollTask_proofs ---------------------------
(***************************************************************************)
(* Proofs about the poll task for every size of the large blocks and of    *)
(* the pieces they are read in, and for every use of the mailbox.          *)
(***************************************************************************)
EXTENDS PollTask, TLAPS

\* A block that has been asked for is not past the end of the schedule.
ReadAsked == bus # "idle" /\ req.kind = "read" => ReadNmb < LimitRead

IInv == TypeOK /\ ReadAsked /\ PieceInBlock

LEMMA Sizes ==
    /\ MaxSizeBlok \in Nat /\ MaxSizeBlok > 0
    /\ NumbVLSOut \in Nat /\ NumbUstavki \in Nat
    /\ \A r \in {26, 27} : Numb[r] \in Nat /\ Numb[r] % MaxSizeBlok > 1
BY SizesAssumption DEF Numb

\* Integer division, as far as cutting a block into pieces needs it.
LEMMA Division ==
    ASSUME NEW a \in Nat, NEW b \in Nat, b > 0
    PROVE  /\ a \div b \in Nat /\ a % b \in 0 .. b - 1
           /\ a = b * (a \div b) + (a % b)
OBVIOUS

LEMMA PieceBound ==
    ASSUME NEW n \in Nat, NEW m \in Nat, NEW b \in Nat, n < m
    PROVE  n * b + b <= b * m
<1>1. PICK k \in Nat : m = n + 1 + k
  <2>1. m - n - 1 \in Nat /\ m = n + 1 + (m - n - 1)
    OBVIOUS
  <2> QED BY <2>1
<1>2. b * m = n * b + b + b * k
  BY <1>1
<1>3. b * k \in Nat /\ n * b \in Nat
  BY <1>1
<1> QED BY <1>2, <1>3

\* A piece that the schedule asks for ends with its block: the last one by
\* the remainder, an earlier one because a further one follows.
LEMMA PieceFits ==
    ASSUME NEW r \in {26, 27}, NEW n \in Nat, NEW s \in 0 .. MaxSizeBlok,
           n <= Numb[r] \div MaxSizeBlok,
           n = Numb[r] \div MaxSizeBlok => s = Numb[r] % MaxSizeBlok
    PROVE  n * MaxSizeBlok + s <= Numb[r]
<1> DEFINE b == MaxSizeBlok
           m == Numb[r] \div b
<1>1. /\ m \in Nat /\ Numb[r] % b \in 0 .. b - 1
      /\ Numb[r] = b * m + (Numb[r] % b)
  BY Sizes, Division
<1>2. CASE n = m
  BY <1>1, <1>2, Sizes
<1>3. CASE n < m
  <2>1. n * b + b <= b * m
    BY <1>1, <1>3, Sizes, PieceBound
  <2> QED BY <1>1, <2>1, Sizes
<1> QED BY <1>1, <1>2, <1>3

LEMMA Commands ==
    /\ OperCmds \subseteq 1 .. 8 /\ OperCmds \subseteq Codes
    /\ Codes \subseteq 1 .. 10 /\ Reread \in Codes /\ Time \in Codes
    /\ LimitRead = 29 /\ Reread = 9 /\ Time = 10
BY OperAssumption DEF Codes, LimitRead, Reread, Time

\* The next comparison of writeNmb is with a later command.
LEMMA NextCodeLater ==
    ASSUME NEW c \in 0 .. 9
    PROVE  NextCode(c) \in Codes /\ NextCode(c) > c
<1>1. \E d \in Codes : d > c /\ \A e \in Codes : e > c => d <= e
  BY Commands
<1> QED BY <1>1 DEF NextCode

\* Whatever is asked for is a request.
LEMMA Requests ==
    /\ \A r \in 0 .. LimitRead : Read(r) \in Reqs
    /\ \A c \in Codes : Command(c) \in Reqs
    /\ \A r \in {26, 27}, o \in Nat, n \in 0 .. MaxSizeBlok : Piece(r, o, n) \in Reqs
    /\ NoReq \in Reqs
BY Sizes, Commands DEF Read, Command, Piece, NoReq, Reqs

\* Outside the large blocks a turn of the schedule only moves on in it.
LEMMA BlockMoves ==
    ASSUME NEW r \in 0 .. LimitRead, NextBlock(r)
    PROVE  /\ ReadNmb' \in 0 .. LimitRead - 1
           /\ UNCHANGED <<NumbBlokReadMB, NumbBlokReadMBLim, SizeBlokReadMB>>
BY DEF NextBlock, Wrap, LimitRead, Singles, Automat

\* A turn within a large block asks for a piece of it, if for anything.
LEMMA PieceMoves ==
    ASSUME TypeOK, NEW r \in {26, 27}, NextPiece(r)
    PROVE  /\ ReadNmb' \in 0 .. LimitRead - 1
           /\ NumbBlokReadMB' \in Nat /\ NumbBlokReadMBLim' \in Nat
           /\ SizeBlokReadMB' \in 1 .. MaxSizeBlok
           /\ \/ UNCHANGED exchange
              \/ \E o \in Nat, n \in 0 .. MaxSizeBlok :
                    o + n <= Numb[r] /\ Ask(Piece(r, o, n))
<1> DEFINE lim == Numb[r] \div MaxSizeBlok
           n == IF r = 27 /\ NumbBlokReadMBLim = 0 THEN 0 ELSE NumbBlokReadMB
           size == IF n = lim THEN Numb[r] % MaxSizeBlok ELSE SizeBlokReadMB
<1>1. n \in Nat /\ lim \in Nat /\ size \in 1 .. MaxSizeBlok
  <2>1. lim \in Nat /\ Numb[r] % MaxSizeBlok \in 1 .. MaxSizeBlok
    BY Sizes, Division
  <2> QED BY <2>1 DEF TypeOK, ScheduleType
<1>2. CASE n > lim
  BY <1>2, Sizes DEF NextPiece, PieceEnds, LimitRead
<1>3. CASE ~(n > lim)
  <2>1. /\ NumbBlokReadMB' = n /\ NumbBlokReadMBLim' = lim
        /\ SizeBlokReadMB' = size /\ ReadNmb' = r
        /\ Ask(Piece(r, n * MaxSizeBlok, size)) \/ UNCHANGED exchange
    BY <1>3 DEF NextPiece
  <2>2. n * MaxSizeBlok \in Nat
    BY <1>1, Sizes
  <2>3. n * MaxSizeBlok + size <= Numb[r]
    BY <1>1, <1>3, PieceFits
  <2> HIDE DEF n, lim, size
  <2> QED BY <1>1, <2>1, <2>2, <2>3 DEF LimitRead
<1> QED BY <1>2, <1>3

LEMMA InitIInv == Init => IInv
<1> SUFFICES ASSUME Init PROVE IInv
  OBVIOUS
<1> USE Sizes, OperAssumption, Commands, Requests DEF Init
<1>1. ScheduleType
  BY DEF ScheduleType
<1>2. ExchangeType
  BY DEF ExchangeType
<1>3. FlagsType
  BY DEF FlagsType
<1>4. LedgerType
  BY DEF LedgerType
<1>5. ReadAsked /\ PieceInBlock
  BY DEF ReadAsked, PieceInBlock, NoReq
<1> QED BY <1>1, <1>2, <1>3, <1>4, <1>5 DEF IInv, TypeOK

\* Every step keeps the types.
LEMMA NextType == TypeOK /\ ReadAsked /\ [Next]_vars => TypeOK'
<1> SUFFICES ASSUME TypeOK, ReadAsked, [Next]_vars PROVE TypeOK'
  OBVIOUS
<1> USE Sizes, OperAssumption, Commands, Requests
    DEF TypeOK, Answered, Received, Put, Ask, Set_SG, SystemCfgRead, Adopted,
        Addresses, Hal_setTimeFromMB_Date, schedule, clock, exchange, relay,
        ledger, history
<1>0. ASSUME UNCHANGED vars PROVE TypeOK'
  BY <1>0 DEF vars, ScheduleType, ExchangeType, FlagsType, LedgerType
<1>1. ASSUME LoopTime PROVE TypeOK'
  <2>1. ScheduleType'
    BY <1>1 DEF LoopTime, ScheduleType
  <2>2. ExchangeType'
    BY <1>1 DEF LoopTime, ExchangeType
  <2>3. FlagsType'
    BY <1>1, Zenon DEF LoopTime, FlagsType
  <2>4. LedgerType'
    BY <1>1 DEF LoopTime, LedgerType
  <2> QED BY <2>1, <2>2, <2>3, <2>4
<1>2. ASSUME LoopPaced PROVE TypeOK'
  <2>1. ScheduleType'
    BY <1>2, NextCodeLater DEF LoopPaced, ScheduleType
  <2>2. ExchangeType'
    BY <1>2 DEF LoopPaced, ExchangeType
  <2>3. FlagsType'
    BY <1>2, Zenon DEF LoopPaced, FlagsType
  <2>4. LedgerType'
    BY <1>2 DEF LoopPaced, LedgerType
  <2> QED BY <2>1, <2>2, <2>3, <2>4
<1>3. ASSUME LoopIdle PROVE TypeOK'
  <2>1. ScheduleType'
    BY <1>3 DEF LoopIdle, ScheduleType
  <2>2. ExchangeType'
    BY <1>3 DEF LoopIdle, ExchangeType
  <2>3. FlagsType'
    BY <1>3, Zenon DEF LoopIdle, FlagsType
  <2>4. LedgerType'
    BY <1>3 DEF LoopIdle, LedgerType
  <2> QED BY <2>1, <2>2, <2>3, <2>4
<1>4. ASSUME Check PROVE TypeOK'
  <2>1. ScheduleType'
    BY <1>4, NextCodeLater DEF Check, ScheduleType
  <2>2. ExchangeType'
    BY <1>4 DEF Check, ExchangeType, ScheduleType
  <2>3. FlagsType'
    BY <1>4, Zenon DEF Check, FlagsType
  <2>4. LedgerType'
    BY <1>4 DEF Check, LedgerType
  <2> QED BY <2>1, <2>2, <2>3, <2>4
<1>5. ASSUME ReadStep PROVE TypeOK'
  <2>1. FlagsType'
    <3>1. started' \in BOOLEAN
      BY <1>5, Zenon DEF ReadStep, FlagsType, NextBlock, Wrap
    <3> QED BY <1>5, <3>1, Zenon DEF ReadStep, FlagsType
  <2>2. LedgerType'
    BY <1>5 DEF ReadStep, LedgerType
  <2>3. CASE sntpOff /\ resynch
    <3>1. NextBlock(LimitRead) /\ Ask(Read(Date))
      BY <1>5, <2>3 DEF ReadStep
    <3>2. ScheduleType'
      BY <1>5, <3>1, BlockMoves DEF ReadStep, ScheduleType
    <3>3. ExchangeType'
      BY <1>5, <3>1 DEF ReadStep, ExchangeType, Date
    <3> QED BY <2>1, <2>2, <3>2, <3>3
  <2>4. CASE ~(sntpOff /\ resynch) /\ ReadNmb \in {26, 27}
    <3>1. NextPiece(ReadNmb)
      BY <1>5, <2>4 DEF ReadStep
    <3>2. ScheduleType'
      BY <1>5, <2>4, <3>1, PieceMoves DEF ReadStep, ScheduleType
    <3>3. req' \in Reqs /\ bus' \in {"idle", "posted", "sent", "unheard"}
      BY <2>4, <3>1, PieceMoves DEF ExchangeType
    <3>4. ExchangeType'
      BY <1>5, <3>3 DEF ReadStep, ExchangeType
    <3> QED BY <2>1, <2>2, <3>2, <3>4
  <2>5. CASE ~(sntpOff /\ resynch) /\ ReadNmb \notin {26, 27}
    <3>1. NextBlock(ReadNmb) /\ (Ask(Read(ReadNmb)) \/ UNCHANGED exchange)
      BY <1>5, <2>5 DEF ReadStep
    <3>2. ScheduleType'
      BY <1>5, <3>1, BlockMoves DEF ReadStep, ScheduleType
    <3>3. ExchangeType'
      BY <1>5, <3>1 DEF ReadStep, ExchangeType, ScheduleType
    <3> QED BY <2>1, <2>2, <3>2, <3>3
  <2> QED BY <2>3, <2>4, <2>5
<1>6. ASSUME ReadSkip PROVE TypeOK'
  <2>1. ScheduleType'
    BY <1>6 DEF ReadSkip, ScheduleType
  <2>2. ExchangeType'
    BY <1>6 DEF ReadSkip, ExchangeType
  <2>3. FlagsType'
    BY <1>6, Zenon DEF ReadSkip, FlagsType
  <2>4. LedgerType'
    BY <1>6 DEF ReadSkip, LedgerType
  <2> QED BY <2>1, <2>2, <2>3, <2>4
<1>7. ASSUME Nine PROVE TypeOK'
  <2>1. ScheduleType'
    BY <1>7 DEF Nine, ScheduleType
  <2>2. ExchangeType'
    BY <1>7 DEF Nine, ExchangeType
  <2>3. FlagsType'
    BY <1>7, Zenon DEF Nine, FlagsType
  <2>4. LedgerType'
    BY <1>7 DEF Nine, LedgerType
  <2> QED BY <2>1, <2>2, <2>3, <2>4
<1>8. ASSUME Wipe PROVE TypeOK'
  <2>1. ScheduleType'
    BY <1>8 DEF Wipe, ScheduleType
  <2>2. ExchangeType'
    BY <1>8 DEF Wipe, ExchangeType
  <2>3. FlagsType'
    BY <1>8, Zenon DEF Wipe, FlagsType
  <2>4. LedgerType'
    BY <1>8 DEF Wipe, LedgerType
  <2> QED BY <2>1, <2>2, <2>3, <2>4
<1>9. ASSUME Model PROVE TypeOK'
  <2>1. ScheduleType'
    BY <1>9 DEF Model, ScheduleType
  <2>2. ExchangeType'
    BY <1>9 DEF Model, ExchangeType
  <2>3. FlagsType'
    BY <1>9, Zenon DEF Model, FlagsType
  <2>4. LedgerType'
    BY <1>9 DEF Model, LedgerType
  <2> QED BY <2>1, <2>2, <2>3, <2>4
<1>10. ASSUME PollNothing PROVE TypeOK'
  <2>1. ScheduleType'
    BY <1>10 DEF PollNothing, ScheduleType
  <2>2. ExchangeType'
    BY <1>10 DEF PollNothing, ExchangeType
  <2>3. FlagsType'
    BY <1>10, Zenon DEF PollNothing, FlagsType
  <2>4. LedgerType'
    BY <1>10 DEF PollNothing, LedgerType
  <2> QED BY <2>1, <2>2, <2>3, <2>4
<1>11. ASSUME PollSent PROVE TypeOK'
  <2>1. ScheduleType'
    BY <1>11 DEF PollSent, ScheduleType
  <2>2. ExchangeType'
    BY <1>11 DEF PollSent, ExchangeType
  <2>3. FlagsType'
    BY <1>11, Zenon DEF PollSent, FlagsType
  <2>4. LedgerType'
    BY <1>11 DEF PollSent, LedgerType
  <2> QED BY <2>1, <2>2, <2>3, <2>4
<1>12. ASSUME Clear PROVE TypeOK'
  <2>1. ScheduleType'
    BY <1>12 DEF Clear, ScheduleType
  <2>2. ExchangeType'
    BY <1>12 DEF Clear, ExchangeType
  <2>3. FlagsType'
    BY <1>12, Zenon DEF Clear, FlagsType
  <2>4. LedgerType'
    BY <1>12 DEF Clear, LedgerType
  <2> QED BY <2>1, <2>2, <2>3, <2>4
<1>13. ASSUME Cleared PROVE TypeOK'
  <2>1. ScheduleType'
    BY <1>13 DEF Cleared, ScheduleType
  <2>2. ExchangeType'
    BY <1>13 DEF Cleared, ExchangeType
  <2>3. FlagsType'
    BY <1>13, Zenon DEF Cleared, FlagsType
  <2>4. LedgerType'
    BY <1>13 DEF Cleared, LedgerType
  <2> QED BY <2>1, <2>2, <2>3, <2>4
<1>14. ASSUME ReplyWrite PROVE TypeOK'
  <2>1. ScheduleType'
    BY <1>14 DEF ReplyWrite, ScheduleType
  <2>2. ExchangeType'
    BY <1>14 DEF ReplyWrite, ExchangeType
  <2>3. FlagsType'
    BY <1>14, Zenon DEF ReplyWrite, FlagsType
  <2>4. LedgerType'
    BY <1>14 DEF ReplyWrite, LedgerType
  <2> QED BY <2>1, <2>2, <2>3, <2>4
<1>15. ASSUME ReplyRead PROVE TypeOK'
  <2>1. ScheduleType'
    BY <1>15 DEF ReplyRead, ScheduleType, ReadAsked
  <2>2. ExchangeType'
    BY <1>15 DEF ReplyRead, ExchangeType
  <2>3. FlagsType'
    BY <1>15, Zenon DEF ReplyRead, FlagsType
  <2>4. LedgerType'
    BY <1>15 DEF ReplyRead, LedgerType
  <2> QED BY <2>1, <2>2, <2>3, <2>4
<1>16. ASSUME ReplySystemCfg PROVE TypeOK'
  <2>1. ScheduleType'
    BY <1>16 DEF ReplySystemCfg, ScheduleType, ReadAsked
  <2>2. ExchangeType'
    BY <1>16 DEF ReplySystemCfg, ExchangeType
  <2>3. FlagsType'
    BY <1>16, Zenon DEF ReplySystemCfg, FlagsType
  <2>4. LedgerType'
    BY <1>16 DEF ReplySystemCfg, LedgerType
  <2> QED BY <2>1, <2>2, <2>3, <2>4
<1>17. ASSUME SystemReset PROVE TypeOK'
  <2>1. ScheduleType'
    BY <1>17 DEF SystemReset, ScheduleType
  <2>2. ExchangeType'
    BY <1>17 DEF SystemReset, ExchangeType
  <2>3. FlagsType'
    BY <1>17, Zenon DEF SystemReset, FlagsType
  <2>4. LedgerType'
    BY <1>17 DEF SystemReset, LedgerType
  <2> QED BY <2>1, <2>2, <2>3, <2>4
<1>18. ASSUME ReplyPiece PROVE TypeOK'
  <2>1. ScheduleType'
    BY <1>18 DEF ReplyPiece, ScheduleType
  <2>2. ExchangeType'
    BY <1>18 DEF ReplyPiece, ExchangeType
  <2>3. FlagsType'
    BY <1>18, Zenon DEF ReplyPiece, FlagsType
  <2>4. LedgerType'
    BY <1>18 DEF ReplyPiece, LedgerType
  <2> QED BY <2>1, <2>2, <2>3, <2>4
<1>19. ASSUME PollTimeout PROVE TypeOK'
  <2>1. ScheduleType'
    BY <1>19 DEF PollTimeout, Fail, ScheduleType
  <2>2. ExchangeType'
    BY <1>19 DEF PollTimeout, Fail, ExchangeType
  <2>3. FlagsType'
    BY <1>19, Zenon DEF PollTimeout, Fail, FlagsType
  <2>4. LedgerType'
    BY <1>19 DEF PollTimeout, Fail, LedgerType
  <2> QED BY <2>1, <2>2, <2>3, <2>4
<1>20. ASSUME PollRefused PROVE TypeOK'
  <2>1. ScheduleType'
    BY <1>20 DEF PollRefused, Fail, ScheduleType
  <2>2. ExchangeType'
    BY <1>20 DEF PollRefused, Fail, ExchangeType
  <2>3. FlagsType'
    BY <1>20, Zenon DEF PollRefused, Fail, FlagsType
  <2>4. LedgerType'
    BY <1>20 DEF PollRefused, Fail, LedgerType
  <2> QED BY <2>1, <2>2, <2>3, <2>4
<1>21. ASSUME PollLost PROVE TypeOK'
  <2>1. ScheduleType'
    BY <1>21 DEF PollLost, ScheduleType
  <2>2. ExchangeType'
    BY <1>21 DEF PollLost, ExchangeType
  <2>3. FlagsType'
    BY <1>21, Zenon DEF PollLost, FlagsType
  <2>4. LedgerType'
    BY <1>21 DEF PollLost, LedgerType
  <2> QED BY <2>1, <2>2, <2>3, <2>4
<1>22. ASSUME NEW c \in OperCmds, Operate(c) PROVE TypeOK'
  <2>1. ScheduleType'
    BY <1>22 DEF Operate, ScheduleType
  <2>2. ExchangeType'
    BY <1>22 DEF Operate, ExchangeType
  <2>3. FlagsType'
    BY <1>22, Zenon DEF Operate, FlagsType
  <2>4. LedgerType'
    BY <1>22 DEF Operate, LedgerType
  <2> QED BY <2>1, <2>2, <2>3, <2>4
<1>23. ASSUME SntpSet PROVE TypeOK'
  <2>1. ScheduleType'
    BY <1>23 DEF SntpSet, ScheduleType
  <2>2. ExchangeType'
    BY <1>23 DEF SntpSet, ExchangeType
  <2>3. FlagsType'
    BY <1>23, Zenon DEF SntpSet, FlagsType
  <2>4. LedgerType'
    BY <1>23 DEF SntpSet, LedgerType
  <2> QED BY <2>1, <2>2, <2>3, <2>4
<1>24. ASSUME SettingsChange PROVE TypeOK'
  <2>1. ScheduleType'
    BY <1>24 DEF SettingsChange, ScheduleType
  <2>2. ExchangeType'
    BY <1>24 DEF SettingsChange, ExchangeType
  <2>3. FlagsType'
    BY <1>24, Zenon DEF SettingsChange, FlagsType
  <2>4. LedgerType'
    BY <1>24 DEF SettingsChange, LedgerType
  <2> QED BY <2>1, <2>2, <2>3, <2>4
<1>25. ASSUME DayPasses PROVE TypeOK'
  <2>1. ScheduleType'
    BY <1>25 DEF DayPasses, ScheduleType
  <2>2. ExchangeType'
    BY <1>25 DEF DayPasses, ExchangeType
  <2>3. FlagsType'
    BY <1>25, Zenon DEF DayPasses, FlagsType
  <2>4. LedgerType'
    BY <1>25 DEF DayPasses, LedgerType
  <2> QED BY <2>1, <2>2, <2>3, <2>4
<1>26. ASSUME PollUnheard PROVE TypeOK'
  <2>1. ScheduleType'
    BY <1>26 DEF PollUnheard, ScheduleType
  <2>2. ExchangeType'
    BY <1>26 DEF PollUnheard, ExchangeType
  <2>3. FlagsType'
    BY <1>26, Zenon DEF PollUnheard, FlagsType
  <2>4. LedgerType'
    BY <1>26 DEF PollUnheard, LedgerType
  <2> QED BY <2>1, <2>2, <2>3, <2>4
<1> QED
  BY <1>0, <1>1, <1>2, <1>3, <1>4, <1>5, <1>6, <1>7, <1>8, <1>9, <1>10,
     <1>11, <1>12, <1>13, <1>14, <1>15, <1>16, <1>17, <1>18, <1>19, <1>20,
     <1>21, <1>22, <1>23, <1>24, <1>25, <1>26, Zenon
  DEF Next, Iteration, PollMb, Reply, Failure, Clients, Relay

\* Only the schedule and the commands ask for anything: the other actions
\* leave the request alone, and ReadNmb with it unless the exchange is over.
LEMMA NextRest == IInv /\ [Next]_vars => (ReadAsked /\ PieceInBlock)'
<1> SUFFICES ASSUME IInv, [Next]_vars PROVE (ReadAsked /\ PieceInBlock)'
  OBVIOUS
<1> USE Sizes, Commands
    DEF IInv, TypeOK, ScheduleType, ExchangeType, ReadAsked, PieceInBlock,
        Answered, Received, Put, Ask, Set_SG, SystemCfgRead, Adopted,
        Addresses, Hal_setTimeFromMB_Date, Command, schedule, clock, exchange,
        relay, ledger, history
<1>0. CASE UNCHANGED vars
  BY <1>0 DEF vars
<1>1. CASE ReadStep
  <2>1. PICK r \in 0 .. LimitRead :
          \/ NextBlock(r) /\ (UNCHANGED exchange \/ \E k \in {Date} \cup Singles : Ask(Read(k)))
          \/ r \in {26, 27} /\ NextPiece(r)
    BY <1>1 DEF ReadStep
  <2>2. CASE NextPiece(r) /\ r \in {26, 27}
    BY <2>2, PieceMoves DEF Piece
  <2>3. CASE NextBlock(r) /\ UNCHANGED exchange
    BY <2>3, BlockMoves
  <2>4. CASE NextBlock(r) /\ \E k \in {Date} \cup Singles : Ask(Read(k))
    BY <2>4, BlockMoves DEF Read, Date, Singles, Automat
  <2> QED BY <2>1, <2>2, <2>3, <2>4
<1>2. CASE LoopTime
  BY <1>2 DEF LoopTime
<1>3. CASE LoopPaced
  BY <1>3 DEF LoopPaced
<1>4. CASE LoopIdle
  BY <1>4 DEF LoopIdle
<1>5. CASE Check
  BY <1>5 DEF Check
<1>6. CASE ReadSkip
  BY <1>6 DEF ReadSkip
<1>7. CASE Nine
  BY <1>7 DEF Nine
<1>8. CASE Wipe
  BY <1>8 DEF Wipe
<1>9. CASE Model
  BY <1>9 DEF Model
<1>10. CASE PollNothing
  BY <1>10 DEF PollNothing
<1>11. CASE PollSent
  BY <1>11 DEF PollSent
<1>12. CASE Clear
  BY <1>12 DEF Clear
<1>13. CASE Cleared
  BY <1>13 DEF Cleared
<1>14. CASE ReplyWrite
  BY <1>14 DEF ReplyWrite
<1>15. CASE ReplyRead
  BY <1>15 DEF ReplyRead
<1>16. CASE ReplySystemCfg
  BY <1>16 DEF ReplySystemCfg
<1>17. CASE SystemReset
  BY <1>17 DEF SystemReset, NoReq
<1>18. CASE ReplyPiece
  BY <1>18 DEF ReplyPiece
<1>19. CASE PollTimeout
  BY <1>19 DEF PollTimeout, Fail
<1>20. CASE PollRefused
  BY <1>20 DEF PollRefused, Fail
<1>21. CASE PollLost
  BY <1>21 DEF PollLost
<1>22. CASE \E c \in OperCmds : Operate(c)
  BY <1>22 DEF Operate
<1>23. CASE SntpSet
  BY <1>23 DEF SntpSet
<1>24. CASE SettingsChange
  BY <1>24 DEF SettingsChange
<1>25. CASE DayPasses
  BY <1>25 DEF DayPasses
<1>26. CASE PollUnheard
  BY <1>26 DEF PollUnheard
<1> QED
  BY <1>0, <1>1, <1>2, <1>3, <1>4, <1>5, <1>6, <1>7, <1>8, <1>9, <1>10,
     <1>11, <1>12, <1>13, <1>14, <1>15, <1>16, <1>17, <1>18, <1>19, <1>20,
     <1>21, <1>22, <1>23, <1>24, <1>25, <1>26, Zenon
  DEF Next, Iteration, PollMb, Reply, Failure, Clients, Relay

LEMMA Invariance == Spec => []IInv
<1>1. IInv /\ [Next]_vars => IInv'
  BY NextType, NextRest DEF IInv
<1> QED BY InitIInv, <1>1, PTL DEF Spec

\* Every variable of the poll task stays in its type, whatever the sizes of
\* the blocks: in particular the size of a piece is never zero and the
\* schedule never leaves the blocks it knows (freertos.c:641-717).
THEOREM TypeCorrect == Spec => []TypeOK
BY Invariance, PTL DEF IInv

\* A piece asked of the relay ends with the block it belongs to, whatever
\* order the clients, the clock and the failures send the schedule through
\* the blocks in (freertos.c:660-710): the reply is stored within the buffer.
THEOREM PiecesFit == Spec => []PieceInBlock
BY Invariance, PTL DEF IInv
-----------------------------------------------------------------------------
(* A command is executed no more often than it was given.                  *)

\* The command in the mailbox is still to be compared with, and the request
\* for it is still to be sent.  A command is one of these at a time for each
\* time it was given, since a comparison hands it from the first to the
\* second and the mailbox is wiped before the next turn.
Waiting(c) ==
    /\ writeNmb = c
    /\ pc \in {"loop", "model", "poll", "clear", "cleared"} \/ (pc = "check" /\ chk <= c)
Posted(c) == bus = "posted" /\ req.kind = "write" /\ req.nmb = c
Owed(c) == (IF Waiting(c) THEN 1 ELSE 0) + (IF Posted(c) THEN 1 ELSE 0)
Balance == \A c \in OperCmds : done[c] + Owed(c) <= asked[c]

LEMMA InitBalance == Init => Balance
BY OperAssumption DEF Init, Balance, Owed, Waiting, Posted, NoReq

LEMMA NextBalance == IInv /\ Balance /\ [Next]_vars => Balance'
<1> SUFFICES ASSUME IInv, Balance, [Next]_vars, NEW c \in OperCmds
             PROVE  (done[c] + Owed(c) <= asked[c])'
  BY DEF Balance
<1> USE Commands
    DEF IInv, TypeOK, ScheduleType, ExchangeType, LedgerType, Reqs, Balance,
        Owed, Waiting, Posted, Answered, Received, Put, Ask, Set_SG,
        SystemCfgRead, Adopted, Addresses, Hal_setTimeFromMB_Date, Command,
        schedule, clock, exchange, relay, ledger, history
<1>0. CASE UNCHANGED vars
  BY <1>0 DEF vars
<1>1. CASE ReadStep
  <2>1. \/ UNCHANGED exchange
        \/ \E k : Ask(Read(k))
        \/ \E r \in {26, 27}, k \in Nat, n \in 0 .. MaxSizeBlok : Ask(Piece(r, k, n))
    <3>1. CASE ReadNmb \in {26, 27} /\ NextPiece(ReadNmb)
      BY <3>1, PieceMoves
    <3> QED BY <1>1, <3>1 DEF ReadStep
  <2>2. ~Posted(c)' \/ UNCHANGED exchange
    BY <2>1 DEF Read, Piece
  <2> QED BY <1>1, <2>2 DEF ReadStep
<1>2. CASE LoopTime
  BY <1>2 DEF LoopTime
<1>3. CASE LoopPaced
  BY <1>3, NextCodeLater DEF LoopPaced
<1>4. CASE LoopIdle
  BY <1>4 DEF LoopIdle
<1>5. CASE Check
  <2>1. chk <= c /\ writeNmb = c => Waiting(c)
    BY <1>5 DEF Check
  <2>2. Waiting(c)' => writeNmb = c /\ chk < c
    <3>1. Waiting(c)' => chk < 10 /\ chk' = NextCode(chk) /\ writeNmb = c /\ chk' <= c
      BY <1>5 DEF Check
    <3>2. chk < 10 => NextCode(chk) \in 1 .. 10 /\ NextCode(chk) > chk
      <4>1. chk \in 1 .. 10
        OBVIOUS
      <4>2. chk < 10 => NextCode(chk) \in Codes /\ NextCode(chk) > chk
        <5> SUFFICES ASSUME chk < 10 PROVE NextCode(chk) \in Codes /\ NextCode(chk) > chk
          OBVIOUS
        <5>1. chk \in 0 .. 9
          BY <4>1
        <5> QED BY <5>1, NextCodeLater
      <4> QED BY <4>2
    <3> HIDE DEF Waiting
    <3> QED BY <3>1, <3>2
  <2>3. Posted(c)' => Posted(c) \/ (writeNmb = c /\ chk = c)
    BY <1>5 DEF Check
  <2>4. done[c]' = done[c] /\ asked[c]' = asked[c] /\ done[c] \in Nat /\ asked[c] \in Nat
    BY <1>5 DEF Check
  <2>5. Waiting(c)' => Waiting(c)
    BY <2>1, <2>2
  <2>6. Posted(c)' => Posted(c) \/ (Waiting(c) /\ ~Waiting(c)')
    BY <2>1, <2>2, <2>3
  <2> HIDE DEF Waiting, Posted
  <2> QED BY <2>4, <2>5, <2>6
<1>6. CASE ReadSkip
  BY <1>6 DEF ReadSkip
<1>7. CASE Nine
  BY <1>7 DEF Nine
<1>8. CASE Wipe
  BY <1>8 DEF Wipe
<1>9. CASE Model
  BY <1>9 DEF Model
<1>10. CASE PollNothing
  BY <1>10 DEF PollNothing
<1>11. CASE PollSent
  BY <1>11 DEF PollSent
<1>12. CASE Clear
  BY <1>12 DEF Clear
<1>13. CASE Cleared
  BY <1>13 DEF Cleared
<1>14. CASE ReplyWrite
  BY <1>14 DEF ReplyWrite
<1>15. CASE ReplyRead
  BY <1>15 DEF ReplyRead
<1>16. CASE ReplySystemCfg
  BY <1>16 DEF ReplySystemCfg
<1>17. CASE SystemReset
  BY <1>17 DEF SystemReset, NoReq
<1>18. CASE ReplyPiece
  BY <1>18 DEF ReplyPiece
<1>19. CASE PollTimeout
  BY <1>19 DEF PollTimeout, Fail
<1>20. CASE PollRefused
  BY <1>20 DEF PollRefused, Fail
<1>21. CASE PollLost
  BY <1>21 DEF PollLost
<1>22. CASE \E d \in OperCmds : Operate(d)
  BY <1>22 DEF Operate
<1>23. CASE SntpSet
  BY <1>23 DEF SntpSet
<1>24. CASE SettingsChange
  BY <1>24 DEF SettingsChange
<1>25. CASE DayPasses
  BY <1>25 DEF DayPasses
<1>26. CASE PollUnheard
  BY <1>26 DEF PollUnheard
<1> QED
  BY <1>0, <1>1, <1>2, <1>3, <1>4, <1>5, <1>6, <1>7, <1>8, <1>9, <1>10,
     <1>11, <1>12, <1>13, <1>14, <1>15, <1>16, <1>17, <1>18, <1>19, <1>20,
     <1>21, <1>22, <1>23, <1>24, <1>25, <1>26, Zenon
  DEF Next, Iteration, PollMb, Reply, Failure, Clients, Relay

LEMMA BalanceExecuted == IInv /\ Balance => ExecutedOnce
BY DEF IInv, TypeOK, LedgerType, Balance, Owed, ExecutedOnce

\* A switch command is executed by the relay no more often than a client gave
\* it, although the mailbox is read again at every turn, requests are lost
\* and the time command breaks in (freertos.c:562-721).
THEOREM NeverTwice == Spec => []ExecutedOnce
<1>1. IInv /\ [Next]_vars => IInv'
  BY NextType, NextRest DEF IInv
<1> QED BY InitIInv, InitBalance, <1>1, NextBalance, BalanceExecuted, PTL DEF Spec
-----------------------------------------------------------------------------
(* Changed settings are never forgotten, and the server starts configured. *)

\* How far the large block was read that the schedule is at.
Progress == IF ReadNmb \in {26, 27} THEN NumbBlokReadMB * MaxSizeBlok ELSE 0

\* The schedule is on its way through the configuration, and what has changed is
\* ahead of it.
Ahead ==
    /\ ReadNmb < 10 => first \/ stale = {}
    /\ ReadNmb >= 10 => \A s \in stale :
          s[1] > ReadNmb \/ (s[1] = ReadNmb /\ s[2] >= Progress)
Tracked == torn \/ dropped \/ note \/ Ahead

\* Command 9 clears the flag of the journal only after the schedule was sent back.
PostedReread == bus = "posted" /\ req.kind = "write" /\ req.nmb = Reread
SentBack ==
    dropped \/ (PostedReread => \/ pc \in {"check", "read", "nine"} /\ writeNmb = Reread
                                \/ pc \in {"wipe", "model", "poll"} /\ ReadNmb = 10)

\* A piece that is not the last of its block has the full size.
Pieces(r) == Numb[r] \div MaxSizeBlok
FullSize ==
    \/ torn
    \/ SizeBlokReadMB = MaxSizeBlok
    \/ \E r \in {26, 27} : ReadNmb = r /\ NumbBlokReadMB >= Pieces(r) /\ NumbBlokReadMBLim = Pieces(r)

\* What is asked for is where the schedule is.
Awaited(r) ==
    /\ req.off = NumbBlokReadMB * MaxSizeBlok /\ NumbBlokReadMB <= Pieces(r)
    /\ req.len = IF NumbBlokReadMB = Pieces(r) THEN Numb[r] % MaxSizeBlok ELSE MaxSizeBlok
InStep ==
    /\ pc \in {"check", "read", "nine"} => bus = "idle" \/ req.kind = "write"
    /\ torn \/ (bus # "idle" /\ req.kind = "read" =>
          ReadNmb = req.nmb /\ (ReadNmb \in {26, 27} => Awaited(ReadNmb)))

\* Nobody uses the mailbox before the server runs.
Unused == started \/ (~dropped /\ ~torn /\ writeNmb = 0 /\ req.kind # "write")

Tracks == Tracked /\ SentBack /\ FullSize /\ InStep /\ Unused

LEMMA InitTracks == Init => Tracks
BY Sizes, Commands DEF Init, Tracks, Tracked, Ahead, SentBack, PostedReread, FullSize, InStep, Unused, NoReq

LEMMA WhereSettingsAre ==
    \A s \in Settings : /\ s[1] \in 12 .. 27 /\ s[2] \in Nat
                        /\ s[1] \in {26, 27} => s[2] < Numb[s[1]]
BY Sizes DEF Settings, SystemCfg, Numb

LEMMA AheadOfTen == TypeOK /\ ReadNmb = 10 => Ahead
BY WhereSettingsAre DEF TypeOK, ExchangeType, Ahead

\* Most actions leave the schedule and the settings alone.
LEMMA Elsewhere ==
    ASSUME Tracks, UNCHANGED <<schedule, stale, first, torn>>, dropped => dropped',
           note' \/ dropped' \/ Ahead \/ UNCHANGED note
    PROVE  Tracked' /\ FullSize'
BY DEF Tracks, Tracked, Ahead, Progress, FullSize, Pieces, schedule

\* Many leave the exchange alone as well, or end it.
LEMMA Undisturbed ==
    ASSUME Tracks, UNCHANGED <<schedule, torn, req>>, bus' # "idle" => bus # "idle",
           pc' \in {"check", "read", "nine"} => pc \in {"check", "read", "nine"}
    PROVE  InStep'
BY DEF Tracks, InStep, Awaited, Pieces, schedule

\* The next piece begins where the block was read to, and has the full size unless it
\* is the last; past the last nothing of the block is left.
LEMMA NextPieceTracks ==
    ASSUME TypeOK, Tracked, FullSize, NEW r \in {26, 27}, ReadNmb = r, NextPiece(r),
           bus = "idle" \/ req.kind = "write",
           UNCHANGED <<stale, first, torn, dropped, note>>
    PROVE  /\ Tracked' /\ FullSize'
           /\ torn \/ (bus' # "idle" /\ req'.kind = "read" =>
                 ReadNmb' = req'.nmb /\ Awaited(ReadNmb)')
<1> DEFINE lim == Pieces(r)
           n == IF r = 27 /\ NumbBlokReadMBLim = 0 THEN 0 ELSE NumbBlokReadMB
           size == IF n = lim THEN Numb[r] % MaxSizeBlok ELSE SizeBlokReadMB
<1>1. /\ n \in Nat /\ NumbBlokReadMB \in Nat /\ lim \in Nat
      /\ MaxSizeBlok \in Nat /\ MaxSizeBlok > 0 /\ Numb[r] \in Nat
      /\ Numb[r] % MaxSizeBlok \in 0 .. MaxSizeBlok - 1
      /\ Numb[r] = MaxSizeBlok * lim + (Numb[r] % MaxSizeBlok)
  BY Sizes, Division DEF TypeOK, ScheduleType, Pieces
<1>2. stale \subseteq Settings
  BY DEF TypeOK, ExchangeType
<1>3. CASE n > lim
  <2>1. ReadNmb' = r + 1 /\ NumbBlokReadMB' = 0 /\ SizeBlokReadMB' = MaxSizeBlok /\ UNCHANGED exchange
    BY <1>3 DEF NextPiece, PieceEnds, Pieces
  <2>2. Progress' = 0
    BY <1>1, <2>1 DEF Progress
  <2>3. NumbBlokReadMB * MaxSizeBlok >= Numb[r]
    <3>1. NumbBlokReadMB = n
      BY <1>1, <1>3
    <3>2. lim * MaxSizeBlok + MaxSizeBlok <= MaxSizeBlok * n
      BY <1>1, <1>3, PieceBound
    <3>3. MaxSizeBlok * lim = lim * MaxSizeBlok /\ MaxSizeBlok * n = n * MaxSizeBlok
      BY <1>1
    <3>4. lim * MaxSizeBlok \in Nat /\ n * MaxSizeBlok \in Nat
      BY <1>1
    <3> HIDE DEF n, lim
    <3> QED BY <1>1, <3>1, <3>2, <3>3, <3>4
  <2>4. ASSUME Ahead, NEW s \in stale
        PROVE  s[1] >= r + 1 /\ s[2] >= 0
    <3>1. s[1] \in 12 .. 27 /\ s[2] \in Nat /\ (s[1] = r => s[2] < Numb[r])
      BY <1>2, WhereSettingsAre
    <3>2. s[1] > r \/ (s[1] = r /\ s[2] >= NumbBlokReadMB * MaxSizeBlok)
      BY <2>4 DEF Ahead, Progress
    <3>3. NumbBlokReadMB * MaxSizeBlok \in Nat
      BY <1>1
    <3> QED BY <3>1, <3>2, <3>3, <2>3, <1>1
  <2>5. Ahead => Ahead'
    <3> SUFFICES ASSUME Ahead PROVE Ahead'
      OBVIOUS
    <3>1. \A s \in stale' : s[1] > ReadNmb' \/ (s[1] = ReadNmb' /\ s[2] >= Progress')
      <4> SUFFICES ASSUME NEW s \in stale PROVE s[1] > r + 1 \/ (s[1] = r + 1 /\ s[2] >= 0)
        BY <2>1, <2>2
      <4>1. s[1] \in 12 .. 27
        BY <1>2, WhereSettingsAre
      <4> QED BY <2>4, <4>1
    <3> QED BY <2>1, <3>1 DEF Ahead
  <2>6. FullSize'
    BY <2>1 DEF FullSize
  <2> QED BY <2>1, <2>5, <2>6 DEF Tracked, exchange
<1>4. CASE ~(n > lim)
  <2>1. /\ NumbBlokReadMB' = n /\ NumbBlokReadMBLim' = lim
        /\ SizeBlokReadMB' = size /\ ReadNmb' = r
        /\ Ask(Piece(r, n * MaxSizeBlok, size)) \/ UNCHANGED exchange
    BY <1>4 DEF NextPiece, Pieces
  <2>2. torn \/ n = lim \/ size = MaxSizeBlok
    <3>1. NumbBlokReadMB >= lim /\ NumbBlokReadMBLim = lim => n = lim
      <4> HIDE DEF lim
      <4> QED BY <1>1, <1>4
    <3>2. n = lim \/ size = SizeBlokReadMB
      OBVIOUS
    <3> HIDE DEF n, size
    <3> QED BY <3>1, <3>2 DEF FullSize
  <2>3. FullSize'
    <3>1. n = lim => NumbBlokReadMB' >= Pieces(r)' /\ NumbBlokReadMBLim' = Pieces(r)'
      <4>1. Pieces(r)' = lim
        BY DEF Pieces
      <4> HIDE DEF n
      <4> QED BY <1>1, <2>1, <4>1
    <3> HIDE DEF n, size
    <3> QED BY <2>1, <2>2, <3>1 DEF FullSize
  <2>4. Tracked'
    <3>1. Progress' = n * MaxSizeBlok /\ Progress = NumbBlokReadMB * MaxSizeBlok
      BY <2>1 DEF Progress
    <3>2. Progress' <= Progress /\ Progress' \in Nat /\ Progress \in Nat
      BY <1>1, <3>1
    <3>3. ASSUME Ahead, NEW s \in stale
          PROVE  s[1] > r \/ (s[1] = r /\ s[2] >= Progress')
      <4>1. s[2] \in Nat
        BY <1>2, WhereSettingsAre
      <4> QED BY <3>2, <3>3, <4>1 DEF Ahead
    <3> QED BY <2>1, <3>3 DEF Tracked, Ahead
  <2>5. torn \/ size = IF n = lim THEN Numb[r] % MaxSizeBlok ELSE MaxSizeBlok
    BY <2>2
  <2>6. CASE Ask(Piece(r, n * MaxSizeBlok, size))
    <3>1. req'.nmb = r /\ req'.off = n * MaxSizeBlok /\ req'.len = size
      BY <2>6 DEF Ask, Piece
    <3>2. torn \/ Awaited(r)'
      <4>1. n <= lim
        BY <1>1, <1>4
      <4>2. lim' = lim
        BY DEF Pieces
      <4> HIDE DEF n, size
      <4> QED BY <2>1, <2>5, <3>1, <4>1, <4>2 DEF Awaited, Pieces
    <3> QED BY <2>1, <2>3, <2>4, <3>1, <3>2
  <2>7. CASE UNCHANGED exchange
    BY <2>3, <2>4, <2>7 DEF exchange
  <2> QED BY <2>1, <2>6, <2>7
<1> QED BY <1>3, <1>4

LEMMA NextTracks == IInv /\ Tracks /\ [Next]_vars => Tracks'
<1> SUFFICES ASSUME IInv, Tracks, [Next]_vars PROVE Tracks'
  OBVIOUS
<1> USE Sizes, Commands
    DEF IInv, TypeOK, ScheduleType, ExchangeType, FlagsType, Reqs,
        Answered, Received, Put, Ask, Set_SG, SystemCfgRead, Adopted, Addresses, 
        Command, schedule, clock, exchange, relay, history
<1>0. CASE UNCHANGED vars
  BY <1>0 DEF vars, Tracks, Tracked, Ahead, Progress, SentBack, PostedReread, FullSize, Pieces, InStep, Awaited, Unused
<1>1. CASE LoopTime
  <2>1. Tracked' /\ FullSize'
    BY <1>1, Elsewhere DEF LoopTime, Tracks, Tracked
  <2>2. InStep'
    BY <1>1 DEF LoopTime, Tracks, InStep, Awaited, Pieces
  <2>3. SentBack'
    BY <1>1 DEF LoopTime, Tracks, SentBack, PostedReread
  <2>4. Unused'
    BY <1>1 DEF LoopTime, Tracks, Unused
  <2> QED BY <2>1, <2>2, <2>3, <2>4 DEF Tracks
<1>2. CASE LoopIdle
  <2>1. Tracked' /\ FullSize'
    BY <1>2, Elsewhere DEF LoopIdle, Tracks, Tracked
  <2>2. InStep'
    BY <1>2, Undisturbed DEF LoopIdle
  <2>3. SentBack'
    BY <1>2 DEF LoopIdle, Tracks, SentBack, PostedReread
  <2>4. Unused'
    BY <1>2 DEF LoopIdle, Tracks, Unused
  <2> QED BY <2>1, <2>2, <2>3, <2>4 DEF Tracks
<1>3. CASE Check
  <2>1. Tracked' /\ FullSize'
    BY <1>3, Elsewhere DEF Check, Tracks, Tracked
  <2>2. InStep'
    BY <1>3 DEF Check, Tracks, InStep, Awaited, Pieces
  <2>3. SentBack'
    BY <1>3 DEF Check, Tracks, SentBack, PostedReread
  <2>4. Unused'
    BY <1>3 DEF Check, Tracks, Unused
  <2> QED BY <2>1, <2>2, <2>3, <2>4 DEF Tracks
<1>4. CASE ReadSkip
  <2>1. Tracked' /\ FullSize'
    BY <1>4, Elsewhere DEF ReadSkip, Tracks, Tracked
  <2>2. InStep'
    BY <1>4, Undisturbed DEF ReadSkip
  <2>3. SentBack'
    BY <1>4 DEF ReadSkip, Tracks, SentBack, PostedReread
  <2>4. Unused'
    BY <1>4 DEF ReadSkip, Tracks, Unused
  <2> QED BY <2>1, <2>2, <2>3, <2>4 DEF Tracks
<1>5. CASE Wipe
  <2>1. Tracked' /\ FullSize'
    BY <1>5, Elsewhere DEF Wipe, Tracks, Tracked
  <2>2. InStep'
    BY <1>5, Undisturbed DEF Wipe
  <2>3. SentBack'
    BY <1>5 DEF Wipe, Tracks, SentBack, PostedReread
  <2>4. Unused'
    BY <1>5 DEF Wipe, Tracks, Unused
  <2> QED BY <2>1, <2>2, <2>3, <2>4 DEF Tracks
<1>6. CASE Model
  <2>1. Tracked' /\ FullSize'
    BY <1>6, Elsewhere DEF Model, Tracks, Tracked
  <2>2. InStep'
    BY <1>6, Undisturbed DEF Model
  <2>3. SentBack'
    BY <1>6 DEF Model, Tracks, SentBack, PostedReread
  <2>4. Unused'
    BY <1>6 DEF Model, Tracks, Unused
  <2> QED BY <2>1, <2>2, <2>3, <2>4 DEF Tracks
<1>7. CASE PollNothing
  <2>1. Tracked' /\ FullSize'
    BY <1>7, Elsewhere DEF PollNothing, Tracks, Tracked
  <2>2. InStep'
    BY <1>7, Undisturbed DEF PollNothing
  <2>3. SentBack'
    BY <1>7 DEF PollNothing, Tracks, SentBack, PostedReread
  <2>4. Unused'
    BY <1>7 DEF PollNothing, Tracks, Unused
  <2> QED BY <2>1, <2>2, <2>3, <2>4 DEF Tracks
<1>8. CASE PollSent
  <2>1. Tracked' /\ FullSize'
    <3>1. note' \/ dropped' \/ Ahead \/ UNCHANGED note
      BY <1>8, AheadOfTen DEF PollSent, Tracks, SentBack, PostedReread
    <3> QED BY <1>8, <3>1, Elsewhere DEF PollSent
  <2>2. InStep'
    BY <1>8, Undisturbed DEF PollSent
  <2>3. SentBack'
    BY <1>8 DEF PollSent, Tracks, SentBack, PostedReread
  <2>4. Unused'
    BY <1>8 DEF PollSent, Tracks, Unused
  <2> QED BY <2>1, <2>2, <2>3, <2>4 DEF Tracks
<1>9. CASE Clear
  <2>1. Tracked' /\ FullSize'
    BY <1>9, Elsewhere DEF Clear, Tracks, Tracked
  <2>2. InStep'
    BY <1>9, Undisturbed DEF Clear
  <2>3. SentBack'
    BY <1>9 DEF Clear, Tracks, SentBack, PostedReread
  <2>4. Unused'
    BY <1>9 DEF Clear, Tracks, Unused
  <2> QED BY <2>1, <2>2, <2>3, <2>4 DEF Tracks
<1>10. CASE Cleared
  <2>1. Tracked' /\ FullSize'
    BY <1>10, Elsewhere DEF Cleared, Tracks, Tracked
  <2>2. InStep'
    BY <1>10, Undisturbed DEF Cleared
  <2>3. SentBack'
    BY <1>10 DEF Cleared, Tracks, SentBack, PostedReread
  <2>4. Unused'
    BY <1>10 DEF Cleared, Tracks, Unused
  <2> QED BY <2>1, <2>2, <2>3, <2>4 DEF Tracks
<1>11. CASE ReplyWrite
  <2>1. Tracked' /\ FullSize'
    BY <1>11, Elsewhere DEF ReplyWrite, Tracks, Tracked
  <2>2. InStep'
    BY <1>11, Undisturbed DEF ReplyWrite
  <2>3. SentBack'
    BY <1>11 DEF ReplyWrite, Tracks, SentBack, PostedReread
  <2>4. Unused'
    BY <1>11 DEF ReplyWrite, Tracks, Unused
  <2> QED BY <2>1, <2>2, <2>3, <2>4 DEF Tracks
<1>12. CASE PollTimeout
  <2>1. Tracked' /\ FullSize'
    BY <1>12, Elsewhere DEF PollTimeout, Fail, Tracks, Tracked
  <2>2. InStep'
    BY <1>12, Undisturbed DEF PollTimeout, Fail
  <2>3. SentBack'
    BY <1>12 DEF PollTimeout, Fail, Tracks, SentBack, PostedReread
  <2>4. Unused'
    BY <1>12 DEF PollTimeout, Fail, Tracks, Unused
  <2> QED BY <2>1, <2>2, <2>3, <2>4 DEF Tracks
<1>13. CASE PollRefused
  <2>1. Tracked' /\ FullSize'
    BY <1>13, Elsewhere DEF PollRefused, Fail, Tracks, Tracked
  <2>2. InStep'
    BY <1>13, Undisturbed DEF PollRefused, Fail
  <2>3. SentBack'
    BY <1>13 DEF PollRefused, Fail, Tracks, SentBack, PostedReread
  <2>4. Unused'
    BY <1>13 DEF PollRefused, Fail, Tracks, Unused
  <2> QED BY <2>1, <2>2, <2>3, <2>4 DEF Tracks
<1>14. CASE PollLost
  <2>1. Tracked' /\ FullSize'
    BY <1>14, Elsewhere DEF PollLost, Tracks, Tracked
  <2>2. InStep'
    BY <1>14, Undisturbed DEF PollLost
  <2>3. SentBack'
    BY <1>14 DEF PollLost, Tracks, SentBack, PostedReread
  <2>4. Unused'
    BY <1>14 DEF PollLost, Tracks, Unused
  <2> QED BY <2>1, <2>2, <2>3, <2>4 DEF Tracks
<1>15. CASE PollUnheard
  <2>1. Tracked' /\ FullSize'
    BY <1>15, Elsewhere DEF PollUnheard, Tracks, Tracked
  <2>2. InStep'
    BY <1>15, Undisturbed DEF PollUnheard
  <2>3. SentBack'
    BY <1>15 DEF PollUnheard, Tracks, SentBack, PostedReread
  <2>4. Unused'
    BY <1>15 DEF PollUnheard, Tracks, Unused
  <2> QED BY <2>1, <2>2, <2>3, <2>4 DEF Tracks
<1>16. CASE SntpSet
  <2>1. Tracked' /\ FullSize'
    BY <1>16, Elsewhere DEF SntpSet, Tracks, Tracked
  <2>2. InStep'
    BY <1>16, Undisturbed DEF SntpSet
  <2>3. SentBack'
    BY <1>16 DEF SntpSet, Tracks, SentBack, PostedReread
  <2>4. Unused'
    BY <1>16 DEF SntpSet, Tracks, Unused
  <2> QED BY <2>1, <2>2, <2>3, <2>4 DEF Tracks
<1>17. CASE SettingsChange
  <2>1. Tracked' /\ FullSize'
    BY <1>17 DEF SettingsChange, Tracks, Tracked, FullSize, Pieces
  <2>2. InStep'
    BY <1>17, Undisturbed DEF SettingsChange
  <2>3. SentBack'
    BY <1>17 DEF SettingsChange, Tracks, SentBack, PostedReread
  <2>4. Unused'
    BY <1>17 DEF SettingsChange, Tracks, Unused
  <2> QED BY <2>1, <2>2, <2>3, <2>4 DEF Tracks
<1>18. CASE DayPasses
  <2>1. Tracked' /\ FullSize'
    BY <1>18, Elsewhere DEF DayPasses, Tracks, Tracked
  <2>2. InStep'
    BY <1>18, Undisturbed DEF DayPasses
  <2>3. SentBack'
    BY <1>18 DEF DayPasses, Tracks, SentBack, PostedReread
  <2>4. Unused'
    BY <1>18 DEF DayPasses, Tracks, Unused
  <2> QED BY <2>1, <2>2, <2>3, <2>4 DEF Tracks
<1>19. CASE \E c \in OperCmds : Operate(c)
  <2>1. Tracked' /\ FullSize'
    BY <1>19, Elsewhere DEF Operate, Tracks, Tracked
  <2>2. InStep'
    BY <1>19, Undisturbed DEF Operate
  <2>3. SentBack'
    BY <1>19 DEF Operate, Tracks, SentBack, PostedReread
  <2>4. Unused'
    BY <1>19 DEF Operate, Tracks, Unused
  <2> QED BY <2>1, <2>2, <2>3, <2>4 DEF Tracks
<1>20. CASE SystemReset
  <2>1. Tracked' /\ SentBack' /\ FullSize'
    BY <1>20 DEF SystemReset, Tracked, Ahead, SentBack, PostedReread, FullSize
  <2>2. InStep' /\ Unused'
    BY <1>20 DEF SystemReset, InStep, Unused, NoReq
  <2> QED BY <2>1, <2>2 DEF Tracks
<1>21. CASE Nine
  <2>1. Tracked'
    BY <1>21, WhereSettingsAre DEF Nine, Tracks, Tracked, Ahead, Progress
  <2>2. FullSize'
    BY <1>21 DEF Nine, Tracks, FullSize, Pieces
  <2>3. InStep'
    BY <1>21 DEF Nine, Tracks, InStep, Awaited, Pieces
  <2>4. SentBack' /\ Unused'
    BY <1>21 DEF Nine, Tracks, SentBack, PostedReread, Unused
  <2> QED BY <2>1, <2>2, <2>3, <2>4 DEF Tracks
<1>22. CASE LoopPaced
  <2>1. Tracked'
    BY <1>22, WhereSettingsAre DEF LoopPaced, Tracks, Tracked, Ahead, Progress
  <2>2. FullSize'
    BY <1>22 DEF LoopPaced, Tracks, FullSize, Pieces
  <2>3. InStep'
    BY <1>22 DEF LoopPaced, Tracks, InStep, Awaited, Pieces
  <2>4. SentBack' /\ Unused'
    BY <1>22 DEF LoopPaced, Tracks, SentBack, PostedReread, Unused
  <2> QED BY <2>1, <2>2, <2>3, <2>4 DEF Tracks
<1>23. CASE ReplyRead
  <2>1. torn \/ (ReadNmb = req.nmb /\ ReadNmb \notin {26, 27})
    BY <1>23 DEF ReplyRead, Tracks, InStep
  <2>2. ReadNmb \in 0 .. 28
    BY <1>23 DEF ReplyRead, ReadAsked
  <2>3. Tracked'
    <3>1. CASE torn \/ dropped \/ note
      BY <1>23, <3>1 DEF ReplyRead, Tracked
    <3>2. CASE ~torn /\ ~dropped /\ ~note
      <4>1. Ahead
        BY <3>2 DEF Tracks, Tracked
      <4>2. CASE ReadNmb < 10
        BY <1>23, <2>1, <3>2, <4>1, <4>2, WhereSettingsAre
        DEF ReplyRead, Tracked, Ahead, Progress, Date, Hal_setTimeFromMB_Date
      <4>3. CASE ReadNmb >= 10
        <5>1. \A s \in stale' : s \in stale /\ s # <<ReadNmb, 0>>
          BY <1>23, <2>1, <3>2 DEF ReplyRead
        <5>2. \A s \in stale' : s[1] > ReadNmb
          BY <4>1, <4>3, <5>1, <2>1, <3>2 DEF Ahead, Settings, SystemCfg
        <5>3. ReadNmb' = ReadNmb + 1 /\ (ReadNmb' = 26 => NumbBlokReadMB' = 0)
          BY <1>23, <2>1, <3>2 DEF ReplyRead, VLSIn
        <5>4. ReadNmb' # 27
          BY <5>3, <2>1, <3>2
        <5>5. Progress' = 0
          BY <5>3, <5>4 DEF Progress
        <5>6. \A s \in stale' : s[1] \in 12 .. 27 /\ s[2] \in Nat
          BY <5>1, WhereSettingsAre
        <5>7. Ahead'
          BY <5>2, <5>3, <5>5, <5>6, <4>3 DEF Ahead
        <5> QED BY <5>7 DEF Tracked
      <4> QED BY <4>2, <4>3
    <3> QED BY <3>1, <3>2
  <2>4. FullSize'
    BY <1>23, <2>1 DEF ReplyRead, Tracks, FullSize, Pieces
  <2>5. InStep' /\ SentBack' /\ Unused'
    BY <1>23 DEF ReplyRead, Tracks, InStep, SentBack, PostedReread, Unused
  <2> QED BY <2>3, <2>4, <2>5 DEF Tracks
<1>24. CASE ReplySystemCfg
  <2>1. torn \/ ReadNmb = SystemCfg
    BY <1>24 DEF ReplySystemCfg, Tracks, InStep
  <2>2. Tracked'
    <3>1. CASE torn \/ dropped \/ note
      BY <1>24, <3>1 DEF ReplySystemCfg, Tracked
    <3>2. CASE ~torn /\ ~dropped /\ ~note
      <4>1. Ahead /\ ReadNmb = 12
        BY <2>1, <3>2 DEF Tracks, Tracked, SystemCfg
      <4>2. \A s \in stale' : s \in stale /\ s[1] > 12
        BY <1>24, <4>1 DEF ReplySystemCfg, Ahead, Settings, SystemCfg
      <4>3. Ahead'
        BY <1>24, <4>1, <4>2, WhereSettingsAre DEF ReplySystemCfg, Ahead, Progress
      <4> QED BY <4>3 DEF Tracked
    <3> QED BY <3>1, <3>2
  <2>3. FullSize'
    BY <1>24, <2>1 DEF ReplySystemCfg, Tracks, FullSize, Pieces, SystemCfg
  <2>4. InStep' /\ SentBack' /\ Unused'
    BY <1>24 DEF ReplySystemCfg, Tracks, InStep, SentBack, PostedReread, Unused
  <2> QED BY <2>2, <2>3, <2>4 DEF Tracks
<1>25. CASE ReplyPiece
  <2>1. CASE torn
    BY <1>25, <2>1 DEF ReplyPiece, Tracks, Tracked, FullSize, InStep, SentBack, PostedReread, Unused
  <2>2. CASE ~torn
    <3> DEFINE r == ReadNmb
               n == NumbBlokReadMB
               b == MaxSizeBlok
    <3>1. r = req.nmb /\ r \in {26, 27} /\ Awaited(r) /\ UNCHANGED ReadNmb /\ NumbBlokReadMB' = n + 1
      BY <1>25, <2>2 DEF ReplyPiece, Tracks, InStep
    <3>2. /\ n \in Nat /\ b \in Nat /\ b > 0 /\ Numb[r] \in Nat /\ Pieces(r) \in Nat
          /\ Numb[r] % b \in Nat /\ Numb[r] = b * Pieces(r) + (Numb[r] % b)
      BY <3>1, Division DEF Pieces
    <3>3. n * b \in Nat /\ (n + 1) * b = n * b + b
      BY <3>2
    <3>4. ASSUME Ahead, NEW s \in stale'
          PROVE  s[1] > r \/ (s[1] = r /\ s[2] >= (n + 1) * b)
      <4>1. s \in stale /\ s \notin {<<r, i>> : i \in req.off .. req.off + req.len - 1}
        BY <1>25, <3>1 DEF ReplyPiece
      <4>2. s = <<s[1], s[2]>> /\ s[2] \in Nat /\ (s[1] = r => s[2] < Numb[r])
        BY <3>1, <4>1, WhereSettingsAre DEF Settings
      <4>3. s[1] > r \/ (s[1] = r /\ s[2] >= n * b)
        BY <3>1, <3>4, <4>1 DEF Ahead, Progress
      <4>4. s[1] = r => ~(s[2] \in req.off .. req.off + req.len - 1)
        BY <4>1, <4>2
      <4>5. req.off = n * b /\ req.len \in Nat
        BY <3>1 DEF Awaited
      <4>6. s[1] = r => s[2] >= n * b + req.len
        BY <4>2, <4>3, <4>4, <4>5, <3>3
      <4>7. CASE n = Pieces(r)
        <5>1. req.len = Numb[r] % b
          BY <3>1, <4>7 DEF Awaited
        <5>2. n * b + req.len = Numb[r]
          BY <3>2, <4>7, <5>1
        <5> QED BY <4>2, <4>3, <4>6, <5>2, <3>2
      <4>8. CASE n # Pieces(r)
        <5>1. req.len = b
          BY <3>1, <4>8 DEF Awaited
        <5> QED BY <4>3, <4>6, <5>1, <3>3
      <4> QED BY <4>7, <4>8
    <3>5. Progress' = (n + 1) * b
      BY <3>1 DEF Progress
    <3>6. UNCHANGED <<first, note, torn, dropped>>
      BY <1>25 DEF ReplyPiece
    <3>7. Ahead => Ahead'
      BY <3>1, <3>4, <3>5 DEF Ahead
    <3>8. Tracked'
      BY <3>6, <3>7 DEF Tracks, Tracked
    <3>9. FullSize'
        <4>1. Pieces(r)' = Pieces(r)
        BY <3>1 DEF Pieces
      <4>2. NumbBlokReadMB >= Pieces(r) => NumbBlokReadMB' >= Pieces(r)'
        BY <3>1, <3>2, <4>1
      <4>3. UNCHANGED <<SizeBlokReadMB, NumbBlokReadMBLim>>
        BY <1>25 DEF ReplyPiece
      <4> QED BY <3>1, <3>6, <4>1, <4>2, <4>3 DEF Tracks, FullSize
    <3>10. InStep' /\ SentBack' /\ Unused'
      BY <1>25 DEF ReplyPiece, Tracks, InStep, SentBack, PostedReread, Unused
    <3> QED BY <3>8, <3>9, <3>10 DEF Tracks
  <2> QED BY <2>1, <2>2
<1>26. CASE ReadStep
  <2>1. writeNmb = 0 /\ pc = "read" /\ pc' = "model" /\ (bus = "idle" \/ req.kind = "write")
    BY <1>26 DEF ReadStep, Tracks, InStep
  <2>2. /\ UNCHANGED <<stale, first, dropped, note, writeNmb>> /\ (started => started')
    BY <1>26, Zenon DEF ReadStep, NextBlock, Wrap, relay, clock
  <2>3. /\ UNCHANGED exchange \/ (req'.kind = "read" /\ bus' = "posted")
        /\ Tracked' /\ FullSize' /\ InStep'
    <3>1. CASE sntpOff /\ resynch
      <4>1. torn' /\ Ask(Read(Date))
        BY <1>26, <3>1, Zenon DEF ReadStep
      <4> QED BY <4>1, <2>1 DEF Tracked, FullSize, InStep, Read
    <3>2. CASE ~(sntpOff /\ resynch) /\ ReadNmb \in {26, 27}
      <4>1. NextPiece(ReadNmb) /\ UNCHANGED torn
        BY <1>26, <3>2, Zenon DEF ReadStep
      <4>2. /\ Tracked' /\ FullSize'
            /\ torn \/ (bus' # "idle" /\ req'.kind = "read" =>
                 ReadNmb' = req'.nmb /\ Awaited(ReadNmb)')
        <5>1. PICK r \in {26, 27} : ReadNmb = r
          BY <3>2
        <5>2. NextPiece(r) /\ TypeOK /\ Tracked /\ FullSize
          BY <4>1, <5>1 DEF Tracks
        <5>3. UNCHANGED <<stale, first, torn, dropped, note>>
          BY <2>2, <4>1
        <5> HIDE DEF TypeOK
        <5> QED BY <2>1, <5>1, <5>2, <5>3, NextPieceTracks
      <4>3. UNCHANGED exchange \/ (req'.kind = "read" /\ bus' = "posted")
        BY <3>2, <4>1, PieceMoves DEF Piece
      <4> QED BY <2>1, <4>1, <4>2, <4>3 DEF InStep
    <3>3. CASE ~(sntpOff /\ resynch) /\ ReadNmb \notin {26, 27}
      <4>1. /\ NextBlock(ReadNmb) /\ UNCHANGED torn
            /\ IF ReadNmb \in Singles THEN Ask(Read(ReadNmb)) ELSE UNCHANGED exchange
        BY <1>26, <3>3, Zenon DEF ReadStep
      <4>2. /\ ReadNmb' \notin {26, 27} /\ (ReadNmb \in Singles => ReadNmb' = ReadNmb)
            /\ UNCHANGED <<NumbBlokReadMB, NumbBlokReadMBLim, SizeBlokReadMB>>
        BY <3>3, <4>1 DEF NextBlock, Wrap, Singles, Automat, LimitRead
      <4>3. Tracked'
        <5>1. \A s \in stale : s[1] \in (12 .. 13) \cup (20 .. 27)
          BY DEF Settings, SystemCfg
        <5>2. \/ ReadNmb' = ReadNmb
              \/ ReadNmb' < 10 /\ ReadNmb < 10
              \/ ReadNmb = 9 /\ ReadNmb' = 10
              \/ ReadNmb \in 14 .. 19 /\ ReadNmb' \in 15 .. 20
              \/ ReadNmb = 29 /\ ReadNmb' = 1
          BY <3>3, <4>1 DEF NextBlock, Wrap, Singles, Automat, LimitRead
        <5>3. Progress' = 0 /\ \A s \in stale : s[2] >= 0
          BY <4>2, WhereSettingsAre DEF Progress
        <5>4. Ahead => Ahead'
          <6> SUFFICES ASSUME Ahead PROVE Ahead'
            OBVIOUS
          <6>1. stale' = stale /\ first' = first /\ ReadNmb \in Nat /\ ReadNmb' \in Nat /\ Progress = 0
            BY <2>2, <3>3, <4>1, BlockMoves DEF Progress
          <6>2. ReadNmb' < 10 => first \/ stale = {}
            BY <5>1, <5>2, <6>1 DEF Ahead
          <6>3. ASSUME ReadNmb' >= 10, NEW s \in stale
                PROVE  s[1] > ReadNmb' \/ s[1] = ReadNmb'
            <7>1. s[1] \in (12 .. 13) \cup (20 .. 27)
              BY <5>1
            <7>2. ReadNmb >= 10 => s[1] >= ReadNmb
              BY <6>1, <7>1 DEF Ahead
            <7> QED BY <5>2, <6>1, <6>3, <7>1, <7>2
          <6> HIDE DEF TypeOK
          <6> QED BY <5>3, <6>1, <6>2, <6>3 DEF Ahead
        <5> QED BY <2>2, <4>1, <5>4 DEF Tracks, Tracked
      <4>4. FullSize'
        BY <3>3, <4>1, <4>2 DEF Tracks, FullSize, Pieces
      <4>5. InStep'
        BY <2>1, <4>1, <4>2 DEF InStep, Read
      <4> QED BY <4>1, <4>3, <4>4, <4>5 DEF Read
    <3> QED BY <3>1, <3>2, <3>3
  <2>4. SentBack'
    BY <2>1, <2>2, <2>3 DEF Tracks, SentBack, PostedReread
  <2>5. Unused'
    <3>1. Unused
      BY DEF Tracks
    <3>2. UNCHANGED req \/ req'.kind # "write"
      BY <2>3
    <3>3. CASE sntpOff /\ resynch
      <4> DEFINE v == CASE LimitRead \in Singles -> LimitRead [] LimitRead = 14 -> 19
                        [] OTHER -> LimitRead + 1
      <4>1. LimitRead \notin Singles /\ LimitRead # 14 /\ LimitRead + 1 >= LimitRead
        BY DEF LimitRead, Singles, Automat
      <4>2. v = LimitRead + 1
        BY Zenon, <4>1
      <4>3. v >= LimitRead => started'
        BY Zenon, <1>26, <3>3 DEF ReadStep, NextBlock, Wrap
      <4> QED BY <4>1, <4>2, <4>3 DEF Unused
    <3>4. CASE ~(sntpOff /\ resynch)
      <4>1. torn' = torn /\ (started => started')
        BY <1>26, <3>4 DEF ReadStep, NextBlock, Wrap
      <4> QED BY <2>2, <3>1, <3>2, <4>1 DEF Unused
    <3> QED BY Zenon, <3>3, <3>4
  <2> QED BY <2>3, <2>4, <2>5 DEF Tracks
<1> QED
  BY <1>0, <1>1, <1>2, <1>3, <1>4, <1>5, <1>6, <1>7, <1>8, <1>9, <1>10,
     <1>11, <1>12, <1>13, <1>14, <1>15, <1>16, <1>17, <1>18, <1>19, <1>20,
     <1>21, <1>22, <1>23, <1>24, <1>25, <1>26, Zenon
  DEF Next, Iteration, PollMb, Reply, Failure, Clients, Relay

LEMMA TracksAlways == Spec => [](IInv /\ Tracks)
<1>1. IInv /\ [Next]_vars => IInv'
  BY NextType, NextRest DEF IInv
<1> QED BY InitIInv, InitTracks, <1>1, NextTracks, PTL DEF Spec

\* Settings that changed are never forgotten: they are flagged, or ahead of the
\* schedule, however the commands, the replies that go missing and the changes fall
\* (freertos.c:624-721), outside the two exceptions.
THEOREM ChangesNotForgotten == Spec => []ChangesTracked
<1>1. TypeOK /\ Tracks => ChangesTracked
  BY WhereSettingsAre
  DEF TypeOK, ScheduleType, ExchangeType, Tracks, Tracked, Ahead, ChangesTracked, Flagged, Reading
<1> QED BY <1>1, TracksAlways, PTL DEF IInv

\* Unless the flash held no address, the relay is of another type or its address will
\* do, the server starts only at the end of the schedule, on a configuration that was
\* read whole or whose change is flagged (freertos.c:715), with the one exception of the
\* daily reading of the clock (628), which starts it wherever the schedule is.  No other
\* interruption of the schedule is excused: before the start there is none.
THEOREM StartIsConfigured == Spec => StartsConfigured
<1> DEFINE Fit == Decided \/ stale' = {} \/ Flagged \/ DailyReading
<1>1. IInv /\ Tracks /\ [Next]_vars => [~started /\ started' => Fit]_vars
  <2> SUFFICES ASSUME IInv, Tracks, Next, ~started, started' PROVE Fit
    OBVIOUS
  <2>1. CASE ReadStep
    <3>1. CASE sntpOff /\ resynch
      BY <2>1, <3>1, Zenon DEF ReadStep, DailyReading
    <3>2. CASE ~(sntpOff /\ resynch) /\ ReadNmb \in {26, 27}
      BY <2>1, <3>2, Zenon DEF ReadStep, Decided
    <3>3. CASE ~(sntpOff /\ resynch) /\ ReadNmb \notin {26, 27}
      <4>1. NextBlock(ReadNmb) /\ UNCHANGED stale
        BY <2>1, <3>3, Zenon DEF ReadStep, relay
      <4> DEFINE v == CASE ReadNmb \in Singles -> ReadNmb [] ReadNmb = 14 -> 19 [] OTHER -> ReadNmb + 1
      <4>2. v >= LimitRead \/ IP_ready
        BY <4>1, Zenon DEF NextBlock, Wrap
      <4>3. v >= LimitRead => ReadNmb >= 28
        BY DEF LimitRead, Singles, Automat, IInv, TypeOK, ScheduleType
      <4>4. ReadNmb >= 28 => (Ahead => stale = {})
        BY WhereSettingsAre DEF IInv, TypeOK, ScheduleType, ExchangeType, Ahead
      <4>5. ~dropped /\ ~torn
        BY <2>1, Zenon DEF ReadStep, Tracks, Unused
      <4> QED BY <4>1, <4>2, <4>3, <4>4, <4>5, Zenon DEF Tracks, Tracked, Flagged, Decided
    <3> QED BY <3>1, <3>2, <3>3
  <2>2. CASE Reply
    BY <2>2, Zenon DEF Reply, ReplyWrite, ReplyRead, ReplySystemCfg, SystemReset, ReplyPiece, Hal_setIPFromMB_Date, Decided
  <2>3. CASE Next /\ ~ReadStep /\ ~Reply
    <3>1. UNCHANGED started
      BY <2>3, Zenon DEF Next, Iteration, PollMb, Failure, Clients, Relay, Fail,
         LoopTime, LoopPaced, LoopIdle, Check, ReadSkip, Nine, Wipe, Model, PollNothing, PollSent,
         Clear, Cleared, PollTimeout, PollRefused, PollLost, PollUnheard, Operate, SntpSet,
         SettingsChange, DayPasses
    <3> QED BY <3>1, Zenon
  <2> QED BY <2>1, <2>2, <2>3
<1> QED BY <1>1, TracksAlways, PTL DEF StartsConfigured, Spec
=============================================================================
