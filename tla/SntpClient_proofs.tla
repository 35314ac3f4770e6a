-------------------------- MODULE SntpClient_proofs --------------------------
(***************************************************************************)
(* Proofs about the SNTP client for every length of a second, every width  *)
(* of the delay that holds two of them, and every clock.                   *)
(***************************************************************************)
EXTENDS SntpClient, SequenceTheorems, TLAPS

\* Integer division by a positive number.
LEMMA Division ==
    ASSUME NEW b \in Nat, b > 0, NEW a \in Int
    PROVE  /\ a \div b \in Int /\ a % b \in 0 .. b - 1
           /\ a = b * (a \div b) + (a % b)
OBVIOUS

LEMMA NoMultiple ==
    ASSUME NEW b \in Nat, b > 0, NEW k \in Int, NEW d \in Int,
           d = b * k, d < b, d > -b
    PROVE  k = 0
<1>1. CASE k >= 1
  BY <1>1, SMT
<1>2. CASE k <= -1
  BY <1>2, SMT
<1> QED BY <1>1, <1>2

\* A remainder is recognised by its range.
LEMMA Remainder ==
    ASSUME NEW b \in Nat, b > 0, NEW r \in 0 .. b - 1, NEW k \in Int,
           NEW a \in Int, a = r + b * k
    PROVE  a % b = r
<1> DEFINE q == a \div b
           s == a % b
<1>1. q \in Int /\ s \in 0 .. b - 1 /\ a = b * q + s
  BY Division
<1> HIDE DEF q, s
<1>2. s - r = b * (k - q)
  BY <1>1
<1>3. k - q = 0
  BY <1>1, <1>2, NoMultiple
<1>4. s = r
  BY <1>1, <1>2, <1>3
<1> QED BY <1>4 DEF s

LEMMA Widths ==
    /\ Secunda \in Nat /\ Secunda > 1 /\ MaxLag \in Nat /\ MaxLag + 1 < Secunda
    /\ MaxTravel \in Nat /\ Width \in Nat /\ Width > 2 * Secunda + 1
BY ClockAssumption

LEMMA Bounded ==
    /\ Period \in Nat /\ Period > 0 /\ SNTP_Period \in Nat /\ SNTP_Period > 0
    /\ Errs \subseteq Int /\ MaxRequests \in Nat /\ MaxSets \in Nat
<1>1. Period \in Nat \ {0} /\ SNTP_Period \in Nat \ {0}
  BY Zenon, BoundsAssumption
<1>2. Errs \subseteq Int /\ MaxRequests \in Nat /\ MaxSets \in Nat
  BY Zenon, BoundsAssumption
<1>3. Period \in Nat /\ Period > 0
  BY <1>1
<1>4. SNTP_Period \in Nat /\ SNTP_Period > 0
  BY <1>1
<1> QED BY <1>2, <1>3, <1>4

\* The strobe is one millisecond back, and wraps round at the start of a second.
LEMMA Strobe ==
    ASSUME NEW t \in 0 .. Secunda - 1
    PROVE  (t - 1) % Width = IF t = 0 THEN Width - 1 ELSE t - 1
<1>1. CASE t = 0
  <2>1. Width - 1 \in 0 .. Width - 1 /\ t - 1 = (Width - 1) + Width * (-1)
    BY <1>1, Widths
  <2> QED BY <1>1, <2>1, Widths, Remainder
<1>2. CASE t > 0
  <2>1. t - 1 \in 0 .. Width - 1 /\ t - 1 = (t - 1) + Width * 0
    BY <1>2, Widths
  <2> QED BY <1>2, <2>1, Widths, Remainder
<1> QED BY <1>1, <1>2, Widths

\* Every branch of prvReadTime waits at most two seconds and a millisecond, and
\* until moving the clock takes it one millisecond past a second.
LEMMA DelayStrobes ==
    ASSUME NEW t \in 0 .. Secunda - 1, NEW c \in Int
    PROVE  /\ Delay(t, c) \in 0 .. 2 * Secunda + 1
           /\ c # 0 => \E k \in Int : t + Delay(t, c) + c = 1 + Secunda * k
<1> DEFINE m == IF c < 0 THEN -c ELSE c
           q == m \div Secunda
           D == m % Secunda
           St == (t - 1) % Width
<1>1. q \in Int /\ D \in 0 .. Secunda - 1 /\ m = Secunda * q + D
  BY Widths, Division
<1>2. St = IF t = 0 THEN Width - 1 ELSE t - 1
  BY Strobe
<1>3. Delay(t, c) =
        (IF c > 0
           THEN IF D > Secunda - St THEN (Secunda - St) + (Secunda - D)
                                    ELSE (Secunda - St) - D
           ELSE IF c = 0 THEN 0
           ELSE IF D > St THEN D - St ELSE (Secunda - St) + D) % Width
  BY DEF Delay
<1>4. (c > 0 => m = c) /\ (c < 0 => m = -c)
  OBVIOUS
<1> HIDE DEF m, q, D, St
<1>5. c > 0 => c = Secunda * q + D
  BY <1>1, <1>4
<1>6. c < 0 => c = -(Secunda * q) - D
  BY <1>1, <1>4, Widths
<1>7. ASSUME NEW v \in Int, NEW w \in 0 .. 2 * Secunda + 1, NEW j \in Int,
             v = w + Width * j
      PROVE  v % Width = w
  BY <1>7, Widths, Remainder
<1>8. CASE c > 0
  <2>1. CASE D > Secunda - St
    <3> DEFINE v == (Secunda - St) + (Secunda - D)
               w == 2 * Secunda + 1 - t - D
    <3>1. w \in 0 .. 2 * Secunda + 1 /\ v \in Int
      BY <1>1, <1>2, <2>1, Widths
    <3>2. v = w + Width * (IF t = 0 THEN -1 ELSE 0)
      BY <1>1, <1>2, <2>1, Widths
    <3>3. Delay(t, c) = w
      BY <1>3, <1>7, <1>8, <2>1, <3>1, <3>2
    <3>4. t + w + c = 1 + Secunda * (q + 2) /\ q + 2 \in Int
      BY <1>1, <1>5, <1>8, Widths
    <3> QED BY <3>1, <3>3, <3>4
  <2>2. CASE ~(D > Secunda - St)
    <3> DEFINE w == Secunda + 1 - t - D
    <3>1. t > 0 /\ w \in 0 .. 2 * Secunda + 1
      BY <1>1, <1>2, <2>2, Widths
    <3>2. (Secunda - St) - D = w + Width * 0 /\ (Secunda - St) - D \in Int
      BY <1>1, <1>2, <3>1, Widths
    <3>3. Delay(t, c) = w
      BY <1>3, <1>7, <1>8, <2>2, <3>1, <3>2
    <3>4. t + w + c = 1 + Secunda * (q + 1) /\ q + 1 \in Int
      BY <1>1, <1>5, <1>8, Widths
    <3> QED BY <3>1, <3>3, <3>4
  <2> QED BY <2>1, <2>2
<1>9. CASE c < 0
  <2>1. CASE D > St
    <3> DEFINE w == D - t + 1
    <3>1. t > 0 /\ w \in 0 .. 2 * Secunda + 1
      BY <1>1, <1>2, <2>1, Widths
    <3>2. D - St = w + Width * 0 /\ D - St \in Int
      BY <1>1, <1>2, <3>1, Widths
    <3>3. Delay(t, c) = w
      BY <1>3, <1>7, <1>9, <2>1, <3>1, <3>2
    <3>4. t + w + c = 1 + Secunda * (-q) /\ -q \in Int
      BY <1>1, <1>6, <1>9, Widths
    <3> QED BY <3>1, <3>3, <3>4
  <2>2. CASE ~(D > St)
    <3> DEFINE v == (Secunda - St) + D
               w == Secunda + 1 - t + D
    <3>1. w \in 0 .. 2 * Secunda + 1 /\ v \in Int
      BY <1>1, <1>2, <2>2, Widths
    <3>2. v = w + Width * (IF t = 0 THEN -1 ELSE 0)
      BY <1>1, <1>2, <2>2, Widths
    <3>3. Delay(t, c) = w
      BY <1>3, <1>7, <1>9, <2>2, <3>1, <3>2
    <3>4. t + w + c = 1 + Secunda * (1 - q) /\ 1 - q \in Int
      BY <1>1, <1>6, <1>9, Widths
    <3> QED BY <3>1, <3>3, <3>4
  <2> QED BY <2>1, <2>2
<1>10. CASE c = 0
  <2>1. Delay(t, c) = 0 % Width
    BY <1>3, <1>10
  <2>2. 0 = 0 + Width * 0 /\ 0 \in 0 .. 2 * Secunda + 1
    BY Widths
  <2>3. Delay(t, c) = 0
    BY <2>1, <2>2, <1>7
  <2> QED BY <1>10, <2>2, <2>3
<1> QED BY <1>8, <1>9, <1>10

LEMMA Quotients ==
    ASSUME NEW a \in Int, NEW b \in Nat, b > 0
    PROVE  CQuot(a, b) \in Int /\ CRem(a, b) \in Int
<1>1. /\ a \div b \in Int /\ (-a) \div b \in Int
  BY Division
<1> QED BY <1>1 DEF CQuot, CRem

LEMMA Register ==
    ASSUME NEW v \in -63 .. 127
    PROVE  /\ v < 0 => (-v) \div 2 \in 0 .. 31
           /\ v > 0 => v \div 4 \in 0 .. 31
<1>1. ASSUME v < 0 PROVE (-v) \div 2 \in 0 .. 31
  <2> DEFINE w == -v
  <2>1. w \in 0 .. 63
    BY <1>1
  <2> HIDE DEF w
  <2>2. w \div 2 \in 0 .. 31
    BY <2>1
  <2> QED BY <2>2 DEF w
<1>2. ASSUME v > 0 PROVE v \div 4 \in 0 .. 31
  BY <1>2
<1> QED BY <1>1, <1>2

\* The calibration stays within what the register can take.
LEMMA CalibrationFits ==
    ASSUME TypeOK, NEW c \in Int, Hal_setCalibrTime(CRem(Int16(c), 1000))
    PROVE  /\ correct' \in -63 .. 127
           /\ calib' \in [sign : {"NEGATIVE", "POSITIVE"}, value : 0 .. 31]
<1> DEFINE timeCal == CRem(Int16(c), 1000)
           raw == CQuot(CQuot(timeCal * 100, 6), SNTP_Period)
           ppm == IF raw > 1000 \/ raw < -1000 THEN 0 ELSE raw
           sum == correct + CQuot(ppm, 2)
<1>1. timeCal \in Int
  BY Quotients DEF Int16
<1>2. raw \in Int
  <2> HIDE DEF timeCal
  <2>1. timeCal * 100 \in Int /\ SNTP_Period \in Nat /\ SNTP_Period > 0
    BY <1>1, Bounded
  <2>2. CQuot(timeCal * 100, 6) \in Int
    BY <2>1, Quotients
  <2> QED BY <2>1, <2>2, Quotients
<1>3. sum \in Int
  <2> HIDE DEF raw
  <2>1. ppm \in Int
    BY <1>2
  <2> HIDE DEF ppm
  <2>2. CQuot(ppm, 2) \in Int
    BY <2>1, Quotients
  <2>3. correct \in Int
    BY DEF TypeOK
  <2> QED BY <2>2, <2>3
<1>4. /\ correct' = IF sum > 127 THEN 127 ELSE IF sum < -63 THEN -63 ELSE sum
      /\ calib' = IF correct' < 0 /\ ppm # 0
                    THEN [sign |-> "NEGATIVE", value |-> (-correct') \div 2]
                  ELSE IF correct' > 0 /\ ppm # 0
                    THEN [sign |-> "POSITIVE", value |-> correct' \div 4]
                  ELSE calib
  BY DEF Hal_setCalibrTime
<1> HIDE DEF timeCal, raw, ppm, sum
<1>5. correct' \in -63 .. 127
  BY <1>3, <1>4
<1>6. /\ correct' < 0 => (-correct') \div 2 \in 0 .. 31
      /\ correct' > 0 => correct' \div 4 \in 0 .. 31
  BY <1>5, Register
<1>7. calib \in [sign : {"NEGATIVE", "POSITIVE"}, value : 0 .. 31]
  BY DEF TypeOK
<1>8. calib' \in [sign : {"NEGATIVE", "POSITIVE"}, value : 0 .. 31]
  BY <1>4, <1>6, <1>7
<1> QED BY <1>5, <1>8

LEMMA Outdating ==
    ASSUME TypeOK
    PROVE  /\ Outdated(reqs) \subseteq Request
           /\ \A r \in Outdated(reqs) : ~r.cur
           /\ Outdate => /\ answers' \subseteq Answer /\ sock' \in Seq(Answer)
                         /\ \A a \in answers' : ~a.cur
                         /\ \A i \in DOMAIN sock' : ~sock'[i].cur
<1>1. reqs \subseteq Request /\ answers \subseteq Answer /\ sock \in Seq(Answer)
  BY DEF TypeOK
<1>2. Outdated(reqs) \subseteq Request /\ \A r \in Outdated(reqs) : ~r.cur
  BY <1>1 DEF Outdated, Request
<1>3. ASSUME Outdate
      PROVE  answers' \subseteq Answer /\ \A a \in answers' : ~a.cur
  BY <1>1, <1>3 DEF Outdate, Answer
<1>4. ASSUME Outdate
      PROVE  sock' \in Seq(Answer) /\ \A i \in DOMAIN sock' : ~sock'[i].cur
  <2>1. /\ DOMAIN sock = 1 .. Len(sock) /\ Len(sock) \in Nat
        /\ \A i \in DOMAIN sock : sock[i] \in Answer
    BY <1>1
  <2>2. sock' = [i \in 1 .. Len(sock) |-> [sock[i] EXCEPT !.cur = FALSE]]
    BY <1>4, <2>1 DEF Outdate
  <2>3. \A i \in 1 .. Len(sock) : /\ [sock[i] EXCEPT !.cur = FALSE] \in Answer
                                  /\ ~[sock[i] EXCEPT !.cur = FALSE].cur
    BY <2>1 DEF Answer
  <2>4. sock' \in [1 .. Len(sock) -> Answer]
    BY <2>2, <2>3
  <2>5. sock' \in Seq(Answer)
    BY <2>1, <2>4, SeqDef
  <2> QED BY <2>2, <2>3, <2>5
<1> QED BY <1>2, <1>3, <1>4

\* What is current fits the clock: moving it by the correction leaves it ahead
\* by what the request took to the server.
Fits ==
    /\ \A r \in reqs : r.cur => r.sent = err
    /\ \A a \in answers : a.cur => a.corr + err \in 0 .. MaxTravel
    /\ \A i \in DOMAIN sock : sock[i].cur => sock[i].corr + err \in 0 .. MaxTravel
    /\ own => corr + err \in 0 .. MaxTravel

\* The wait of prvReadTime, while it lasts and while the task resumes.
Waits ==
    /\ own => pc = "wait"
    /\ wait > 0 => lag = 0 /\ pc = "wait"
    /\ pc # "wait" => lag = 0
    /\ own /\ corr # 0 =>
         \E k \in Int : phase + wait + corr = 1 + lag + Secunda * k

IInv == TypeOK /\ Fits /\ Waits

LEMMA Initial == Init => IInv
<1> SUFFICES ASSUME Init PROVE IInv
  OBVIOUS
<1>1. TypeOK
  <2>. /\ pc = "loop" /\ phase \in 0 .. Secunda - 1 /\ err \in Errs /\ due = 0
       /\ correct = 0 /\ calib = [sign |-> "POSITIVE", value |-> 0]
       /\ requests = 0 /\ sets = 0
    BY Zenon DEF Init
  <2>1. err \in Int
    BY Zenon, Bounded
  <2>6. /\ pc \in {"loop", "recv", "wait"} /\ phase \in 0 .. Secunda - 1
        /\ due \in Int /\ due >= -1
    OBVIOUS
  <2>2. ready \in BOOLEAN /\ own \in BOOLEAN
    BY Zenon DEF Init
  <2>3. reqs \subseteq Request /\ answers \subseteq Answer /\ sock \in Seq(Answer)
    BY DEF Init
  <2>4. corr \in Int /\ wait \in 0 .. 2 * Secunda + 1 /\ lag \in 0 .. MaxLag
    BY Widths DEF Init
  <2>5. /\ correct \in -63 .. 127
        /\ calib \in [sign : {"NEGATIVE", "POSITIVE"}, value : 0 .. 31]
        /\ requests \in 0 .. MaxRequests /\ sets \in 0 .. MaxSets
    BY Bounded
  <2> QED BY <2>1, <2>2, <2>3, <2>4, <2>5, <2>6 DEF TypeOK
<1>2. Fits /\ Waits
  BY DEF Init, Fits, Waits
<1> QED BY <1>1, <1>2 DEF IInv

\* The three parts of the state a step has to answer for.
TaskType ==
    /\ pc \in {"loop", "recv", "wait"}
    /\ phase \in 0 .. Secunda - 1 /\ err \in Int
    /\ due \in Int /\ due >= -1
    /\ corr \in Int /\ wait \in 0 .. 2 * Secunda + 1 /\ lag \in 0 .. MaxLag
    /\ requests \in 0 .. MaxRequests /\ sets \in 0 .. MaxSets
FlagType == ready \in BOOLEAN /\ own \in BOOLEAN
NetType == reqs \subseteq Request /\ answers \subseteq Answer /\ sock \in Seq(Answer)
CalType ==
    /\ correct \in -63 .. 127
    /\ calib \in [sign : {"NEGATIVE", "POSITIVE"}, value : 0 .. 31]

LEMMA TypeParts ==
    /\ TypeOK <=> TaskType /\ FlagType /\ NetType /\ CalType
    /\ TypeOK' <=> TaskType' /\ FlagType' /\ NetType' /\ CalType'
BY DEF TypeOK, TaskType, FlagType, NetType, CalType

\* What is read from the socket.
LEMMA FirstAnswer ==
    ASSUME TypeOK, Fits, sock # << >>
    PROVE  /\ Head(sock) \in Answer /\ Tail(sock) \in Seq(Answer)
           /\ Head(sock).corr \in Int /\ Head(sock).cur \in BOOLEAN
           /\ Head(sock).cur => Head(sock).corr + err \in 0 .. MaxTravel
           /\ \A i \in DOMAIN Tail(sock) :
                Tail(sock)[i].cur => Tail(sock)[i].corr + err \in 0 .. MaxTravel
<1>1. sock \in Seq(Answer) /\ Len(sock) > 0
  BY DEF TypeOK
<1>2. Head(sock) = sock[1] /\ 1 \in DOMAIN sock /\ Head(sock) \in Answer
  BY <1>1
<1>3. /\ Tail(sock) \in Seq(Answer)
      /\ \A i \in DOMAIN Tail(sock) : /\ i + 1 \in DOMAIN sock
                                      /\ Tail(sock)[i] = sock[i + 1]
  BY <1>1
<1> QED BY <1>2, <1>3 DEF Fits, Answer

LEMMA SendStep ==
    ASSUME IInv, SendRequest
    PROVE  IInv'
<1>1. TypeOK /\ Fits /\ Waits
  BY DEF IInv
<1>2. NTPPacket \in Request /\ NTPPacket.sent = err
  BY <1>1, Widths DEF NTPPacket, Request, TypeOK
<1>3. /\ reqs' = Outdated(reqs) \cup {NTPPacket} /\ Outdate
      /\ UNCHANGED <<phase, err, corr, wait, lag, own>>
  BY DEF SendRequest, clock, held
<1>4. NetType' /\ Fits'
  <2>1. NetType'
    BY <1>1, <1>2, <1>3, Outdating DEF NetType
  <2>2. own' => corr' + err' \in 0 .. MaxTravel
    BY <1>1, <1>3 DEF Fits
  <2> QED BY <1>1, <1>2, <1>3, <2>1, <2>2, Outdating DEF Fits
<1>5. TaskType'
  BY <1>1, TypeParts, Bounded DEF SendRequest, TaskType, clock, held
<1>6. FlagType' /\ CalType'
  BY <1>1, TypeParts, Zenon DEF SendRequest, FlagType, CalType, held, cal
<1>7. Waits'
  BY <1>1, <1>3 DEF SendRequest, Waits
<1> QED BY <1>4, <1>5, <1>6, <1>7, TypeParts DEF IInv

LEMMA SendFailsStep ==
    ASSUME IInv, SendFails
    PROVE  IInv'
<1>1. TypeOK /\ Fits /\ Waits
  BY DEF IInv
<1>2. UNCHANGED <<phase, err, reqs, answers, sock, corr, wait, lag, own>>
  BY DEF SendFails, clock, net, held
<1>3. TaskType'
  BY <1>1, TypeParts, Bounded DEF SendFails, TaskType, clock, held, spent
<1>4. FlagType' /\ NetType' /\ CalType'
  BY <1>1, TypeParts, Zenon DEF SendFails, FlagType, NetType, CalType, held, net, cal
<1>5. Fits'
  BY <1>1, <1>2 DEF Fits
<1>6. Waits'
  BY <1>1, <1>2 DEF SendFails, Waits
<1> QED BY <1>3, <1>4, <1>5, <1>6, TypeParts DEF IInv

LEMMA ReceiveNothingStep ==
    ASSUME IInv, ReceiveNothing
    PROVE  IInv'
<1>1. TypeOK /\ Fits /\ Waits
  BY DEF IInv
<1>2. UNCHANGED <<phase, err, reqs, answers, corr, wait, lag, own>>
  BY DEF ReceiveNothing, clock, held
<1>3. sock' = sock \/ (sock # << >> /\ sock' = Tail(sock))
  BY DEF ReceiveNothing
<1>4. pc # "wait"
  BY DEF ReceiveNothing, Listening
<1>5. TaskType'
  BY <1>1, TypeParts DEF ReceiveNothing, TaskType, clock, held, spent
<1>6. FlagType' /\ CalType'
  BY <1>1, TypeParts, Zenon DEF ReceiveNothing, FlagType, CalType, held, cal
<1>7. NetType' /\ \A i \in DOMAIN sock' :
                     sock'[i].cur => sock'[i].corr + err \in 0 .. MaxTravel
  <2>1. CASE sock' = sock
    BY <1>1, <1>2, <2>1, TypeParts DEF NetType, Fits
  <2>2. CASE sock # << >> /\ sock' = Tail(sock)
    BY <1>1, <1>2, <2>2, TypeParts, FirstAnswer DEF NetType
  <2> QED BY <1>3, <2>1, <2>2
<1>8. Fits'
  BY <1>1, <1>2, <1>7 DEF Fits
<1>9. Waits'
  BY <1>1, <1>2, <1>4 DEF ReceiveNothing, Waits
<1> QED BY <1>5, <1>6, <1>7, <1>8, <1>9, TypeParts DEF IInv

LEMMA ReceiveAnswerStep ==
    ASSUME IInv, ReceiveAnswer
    PROVE  IInv'
<1>1. TypeOK /\ Fits /\ Waits
  BY DEF IInv
<1>2. /\ UNCHANGED <<phase, err, reqs, answers>>
      /\ sock # << >> /\ sock' = Tail(sock) /\ pc' = "wait"
      /\ corr' = Head(sock).corr /\ own' = Head(sock).cur
      /\ wait' = Delay(phase, corr') /\ lag' = 0
  BY DEF ReceiveAnswer, clock
<1>3. /\ corr' \in Int /\ own' \in BOOLEAN
      /\ Tail(sock) \in Seq(Answer)
      /\ own' => corr' + err \in 0 .. MaxTravel
      /\ \A i \in DOMAIN sock' : sock'[i].cur => sock'[i].corr + err \in 0 .. MaxTravel
  BY <1>1, <1>2, FirstAnswer
<1>4. /\ wait' \in 0 .. 2 * Secunda + 1
      /\ corr' # 0 => \E k \in Int : phase + wait' + corr' = 1 + Secunda * k
  <2>1. phase \in 0 .. Secunda - 1
    BY <1>1 DEF TypeOK
  <2> QED BY <1>2, <1>3, <2>1, DelayStrobes
<1>5. TaskType'
  BY <1>1, <1>2, <1>3, <1>4, TypeParts, Widths DEF ReceiveAnswer, TaskType, spent
<1>6. FlagType' /\ CalType'
  BY <1>1, <1>3, TypeParts, Zenon DEF ReceiveAnswer, FlagType, CalType, cal
<1>7. NetType'
  BY <1>1, <1>2, <1>3, TypeParts DEF NetType
<1>8. Fits'
  BY <1>1, <1>2, <1>3 DEF Fits
<1>9. Waits'
  <2>1. corr' # 0 => \E k \in Int : phase' + wait' + corr' = 1 + lag' + Secunda * k
    BY <1>2, <1>4
  <2> QED BY <1>2, <2>1 DEF Waits
<1> QED BY <1>5, <1>6, <1>7, <1>8, <1>9, TypeParts DEF IInv

\* Moving the clock at the end of the wait cuts off the strobe and the lag.
LEMMA Moved ==
    ASSUME TypeOK, Fits, Waits, Correct
    PROVE  /\ err' \in Int /\ phase' \in 0 .. Secunda - 1
           /\ own => err' \in -(1 + MaxLag) .. MaxTravel
<1>1. pc = "wait" /\ wait = 0 /\ phase \in 0 .. Secunda - 1 /\ err \in Int
      /\ corr \in Int /\ lag \in 0 .. MaxLag
  BY DEF TypeOK, Correct
<1>2. own => corr + err \in 0 .. MaxTravel
  BY DEF Fits
<1>3. CASE corr = 0
  <2>1. err' = err /\ phase' = phase
    BY <1>3 DEF Correct, clock
  <2> QED BY <1>1, <1>2, <1>3, <2>1, Widths
<1>4. CASE corr # 0
  <2> DEFINE cut == (phase + corr) % Secunda
  <2>1. err' = err + corr - cut /\ phase' = 0
    BY <1>4 DEF Correct, Hal_setTimeInMs
  <2>2. cut \in 0 .. Secunda - 1
    BY <1>1, Widths, Division
  <2>3. ASSUME own PROVE cut = 1 + lag
    <3>1. PICK k \in Int : phase + wait + corr = 1 + lag + Secunda * k
      BY <1>4, <2>3 DEF Waits
    <3>2. phase + corr = (1 + lag) + Secunda * k /\ 1 + lag \in 0 .. Secunda - 1
      BY <1>1, <3>1, Widths
    <3>3. phase + corr \in Int /\ Secunda \in Nat /\ Secunda > 0 /\ k \in Int
      BY <1>1, <3>1, Widths
    <3>4. (phase + corr) % Secunda = 1 + lag
      <4> DEFINE a == phase + corr
                 r == 1 + lag
      <4>1. a = r + Secunda * k /\ r \in 0 .. Secunda - 1 /\ a \in Int
        BY <3>2, <3>3
      <4> HIDE DEF a, r
      <4>2. a % Secunda = r
        BY <3>3, <4>1, Remainder
      <4> QED BY <4>2 DEF a, r
    <3> QED BY <3>4
  <2> HIDE DEF cut
  <2>4. err' \in Int /\ phase' \in 0 .. Secunda - 1
    BY <1>1, <2>1, <2>2, Widths
  <2>5. own => err' \in -(1 + MaxLag) .. MaxTravel
    BY <1>1, <1>2, <2>1, <2>3, Widths
  <2> QED BY <2>4, <2>5
<1> QED BY <1>3, <1>4

LEMMA CorrectStep ==
    ASSUME IInv, Correct
    PROVE  IInv'
<1>1. TypeOK /\ Fits /\ Waits
  BY DEF IInv
<1>2. /\ pc' = "loop" /\ own' = FALSE /\ lag' = 0 /\ corr' = 0 /\ wait' = 0
      /\ wait = 0
  BY DEF Correct
<1>3. CalType'
  <2>1. corr \in Int /\ Hal_setCalibrTime(CRem(Int16(corr), 1000))
    BY <1>1 DEF Correct, TypeOK
  <2> QED BY <1>1, <2>1, CalibrationFits DEF CalType
<1>4. TaskType'
  <2>1. err' \in Int /\ phase' \in 0 .. Secunda - 1
    BY <1>1, Moved
  <2>2. due' = Period /\ UNCHANGED <<requests, sets>>
    BY DEF Correct, spent
  <2>3. requests \in 0 .. MaxRequests /\ sets \in 0 .. MaxSets
    BY <1>1 DEF TypeOK
  <2> QED BY <1>2, <2>1, <2>2, <2>3, Bounded, Widths DEF TaskType
<1>5. FlagType'
  BY Zenon DEF Correct, FlagType
<1>6. NetType' /\ Fits'
  <2>1. CASE corr = 0
    <3>1. UNCHANGED <<phase, err, reqs, answers, sock>>
      BY <2>1 DEF Correct, clock, net
    <3> QED BY <1>1, <1>2, <3>1, TypeParts DEF NetType, Fits
  <2>2. CASE corr # 0
    <3>1. reqs' = Outdated(reqs) /\ Outdate
      BY <2>2 DEF Correct
    <3> QED BY <1>1, <1>2, <3>1, Outdating DEF NetType, Fits
  <2> QED BY <2>1, <2>2
<1>7. Waits'
  BY <1>2 DEF Waits
<1> QED BY <1>3, <1>4, <1>5, <1>6, <1>7, TypeParts DEF IInv

LEMMA TickStep ==
    ASSUME IInv, Tick
    PROVE  IInv'
<1>1. TypeOK /\ Fits /\ Waits
  BY DEF IInv
<1>2. UNCHANGED <<pc, err, ready, answers, sock, corr, own, correct, calib,
                  requests, sets>>
  BY DEF Tick, cal, spent
<1>3. /\ phase' = IF phase = Secunda - 1 THEN 0 ELSE phase + 1
      /\ due' = IF due < 0 THEN due ELSE due - 1
      /\ wait > 0 => wait' = wait - 1 /\ lag' = lag
      /\ ~(wait > 0) => wait' = 0 /\ lag' = IF pc = "wait" THEN lag + 1 ELSE lag
      /\ pc = "wait" /\ wait = 0 => lag < MaxLag
  BY DEF Tick
<1>4. /\ phase \in 0 .. Secunda - 1 /\ due \in Int /\ due >= -1
      /\ wait \in 0 .. 2 * Secunda + 1 /\ lag \in 0 .. MaxLag /\ corr \in Int
  BY <1>1 DEF TypeOK
<1>5. /\ phase' \in 0 .. Secunda - 1 /\ due' \in Int /\ due' >= -1
      /\ wait' \in 0 .. 2 * Secunda + 1 /\ lag' \in 0 .. MaxLag
  BY <1>3, <1>4, Widths
<1>6. TaskType' /\ CalType'
  BY <1>1, <1>2, <1>5, TypeParts DEF TaskType, CalType
<1>7. FlagType'
  BY <1>1, <1>2, TypeParts, Zenon DEF FlagType
<1>8. NetType' /\ Fits'
  <2>1. /\ reqs' = {[r EXCEPT !.age = @ + 1] : r \in reqs}
        /\ \A r \in reqs : r.age < MaxTravel
        /\ reqs \subseteq Request
    BY <1>1 DEF Tick, TypeOK
  <2>2. \A r \in reqs : LET q == [r EXCEPT !.age = @ + 1]
                        IN  q \in Request /\ q.cur = r.cur /\ q.sent = r.sent
    BY <2>1, Widths DEF Request
  <2>3. reqs' \subseteq Request /\ \A q \in reqs' : q.cur => q.sent = err
    BY <1>1, <2>1, <2>2 DEF Fits
  <2> QED BY <1>1, <1>2, <2>3, TypeParts DEF NetType, Fits
<1>9. Waits'
  <2>1. /\ wait' > 0 => lag' = 0 /\ pc' = "wait"
        /\ pc' # "wait" => lag' = 0
        /\ own' => pc' = "wait"
    BY <1>1, <1>2, <1>3, <1>4 DEF Waits
  <2>2. ASSUME own', corr' # 0
        PROVE  \E k \in Int : phase' + wait' + corr' = 1 + lag' + Secunda * k
    <3>1. PICK k \in Int : phase + wait + corr = 1 + lag + Secunda * k
      BY <1>1, <1>2, <2>2 DEF Waits
    <3>2. pc = "wait"
      BY <1>1, <1>2, <2>2 DEF Waits
    <3>3. lag' = lag + 1 + wait' - wait
      BY <1>3, <1>4, <3>2
    <3> DEFINE M == Secunda * k
    <3>4. M \in Int /\ M = phase + wait + corr - 1 - lag
      BY <1>4, <3>1, Widths
    <3>5. M - Secunda = Secunda * (k - 1) /\ k - 1 \in Int
      BY Widths
    <3> HIDE DEF M
    <3>6. /\ phase \in Int /\ wait \in Int /\ lag \in Int /\ corr \in Int
          /\ wait' \in Int /\ lag' \in Int /\ Secunda \in Int
      BY <1>4, <1>5, Widths
    <3>7. CASE phase = Secunda - 1
      <4>1. phase' = 0 /\ corr' = corr
        BY <1>2, <1>3, <3>7
      <4>2. phase' + wait' + corr' = 1 + lag' + (M - Secunda)
        BY <3>3, <3>4, <3>6, <3>7, <4>1
      <4> QED BY <3>5, <4>2
    <3>8. CASE phase # Secunda - 1
      <4>1. phase' = phase + 1 /\ corr' = corr
        BY <1>2, <1>3, <3>8
      <4>2. phase' + wait' + corr' = 1 + lag' + M
        BY <3>3, <3>4, <3>6, <4>1
      <4> QED BY <4>2 DEF M
    <3> QED BY <3>7, <3>8
  <2> QED BY <2>1, <2>2 DEF Waits
<1> QED BY <1>6, <1>7, <1>8, <1>9, TypeParts DEF IInv

\* The steps of the network leave the task and the clock alone.
LEMMA NetworkOnly ==
    ASSUME IInv, NetType', Fits',
           UNCHANGED <<pc, clock, due, ready, held, cal, spent>>
    PROVE  IInv'
<1>1. TaskType' /\ CalType'
  BY TypeParts DEF IInv, TaskType, CalType, clock, held, cal, spent
<1>2. FlagType'
  BY TypeParts, Zenon DEF IInv, FlagType, held
<1>3. Waits'
  BY DEF IInv, Waits, clock, held
<1> QED BY <1>1, <1>2, <1>3, TypeParts DEF IInv

LEMMA NetworkStep ==
    ASSUME IInv, Network
    PROVE  IInv'
<1>1. TypeOK /\ Fits /\ NetType
  BY TypeParts DEF IInv
<1>2. ASSUME NEW r \in reqs, ServerAnswers(r) PROVE IInv'
  <2>1. UNCHANGED <<pc, clock, due, ready, held, cal, spent>>
    BY <1>2 DEF ServerAnswers
  <2>2. UNCHANGED <<err, sock, corr, own>>
    BY <1>2 DEF ServerAnswers, clock, held
  <2>3. r \in Request /\ r.sent \in Int /\ r.age \in 0 .. MaxTravel
    BY <1>1, <1>2 DEF NetType, Request
  <2>4. PICK w \in BOOLEAN :
          answers' = answers \cup {[corr |-> r.age - r.sent, whole |-> w, cur |-> r.cur]}
    BY <1>2 DEF ServerAnswers
  <2> DEFINE a == [corr |-> r.age - r.sent, whole |-> w, cur |-> r.cur]
  <2>5. a \in Answer
    BY <2>3, Widths DEF Answer, Request
  <2>6. a.cur => a.corr + err \in 0 .. MaxTravel
    BY <1>1, <1>2, <2>3, Widths DEF Fits
  <2>7. reqs' \subseteq reqs
    BY <1>2 DEF ServerAnswers
  <2> HIDE DEF a
  <2>8. answers' = answers \cup {a}
    BY <2>4 DEF a
  <2>9. NetType' /\ Fits'
    BY <1>1, <2>2, <2>5, <2>6, <2>7, <2>8 DEF NetType, Fits
  <2> QED BY <2>1, <2>9, NetworkOnly
<1>3. ASSUME NEW a \in answers, Deliver(a) PROVE IInv'
  <2>1. UNCHANGED <<pc, clock, due, ready, held, cal, spent>>
    BY <1>3 DEF Deliver
  <2>2. UNCHANGED <<err, reqs, corr, own>>
    BY <1>3 DEF Deliver, clock, held
  <2>3. a \in Answer /\ sock \in Seq(Answer)
    BY <1>1, <1>3 DEF NetType
  <2>4. answers' \subseteq answers /\ sock' = Append(sock, a)
    BY <1>3 DEF Deliver
  <2>5. /\ sock' \in Seq(Answer)
        /\ \A i \in DOMAIN sock' : \/ i \in DOMAIN sock /\ sock'[i] = sock[i]
                                   \/ sock'[i] = a
    BY <2>3, <2>4
  <2>6. NetType' /\ Fits'
    BY <1>1, <1>3, <2>2, <2>4, <2>5 DEF NetType, Fits
  <2> QED BY <2>1, <2>6, NetworkOnly
<1>4. ASSUME Lose PROVE IInv'
  <2>1. UNCHANGED <<pc, clock, due, ready, held, cal, spent>>
    BY <1>4 DEF Lose
  <2>2. UNCHANGED <<err, sock, corr, own>>
    BY <1>4 DEF Lose, clock, held
  <2>3. reqs' \subseteq reqs /\ answers' \subseteq answers
    BY <1>4 DEF Lose
  <2>4. NetType' /\ Fits'
    BY <1>1, <2>2, <2>3 DEF NetType, Fits
  <2> QED BY <2>1, <2>4, NetworkOnly
<1> QED BY <1>2, <1>3, <1>4 DEF Network

LEMMA RelayStep ==
    ASSUME IInv, NEW e \in Errs, Hal_setTimeFromMB_Date(e)
    PROVE  IInv'
<1>1. TypeOK /\ Fits /\ Waits
  BY DEF IInv
<1>2. /\ UNCHANGED <<pc, ready, corr, wait, lag, correct, calib, requests>>
      /\ own' = FALSE /\ reqs' = Outdated(reqs) /\ Outdate
      /\ err' = e /\ phase' = 0 /\ sets < MaxSets /\ sets' = sets + 1
      /\ due' = IF due < 0 \/ due + err < e THEN -1 ELSE due + err - e
  BY DEF Hal_setTimeFromMB_Date, cal
<1>3. TaskType'
  <2>1. e \in Int /\ due \in Int /\ err \in Int
    BY <1>1, Bounded DEF TypeOK
  <2>2. due' \in Int /\ due' >= -1
    BY <1>2, <2>1
  <2> QED BY <1>1, <1>2, <2>1, <2>2, TypeParts, Bounded, Widths DEF TaskType
<1>4. FlagType' /\ CalType'
  BY <1>1, <1>2, TypeParts, Zenon DEF FlagType, CalType
<1>5. NetType' /\ Fits'
  BY <1>1, <1>2, Outdating DEF NetType, Fits
<1>6. Waits'
  BY <1>1, <1>2 DEF Waits
<1> QED BY <1>3, <1>4, <1>5, <1>6, TypeParts DEF IInv

LEMMA Step == IInv /\ [Next]_vars => IInv'
<1> SUFFICES ASSUME IInv, [Next]_vars PROVE IInv'
  OBVIOUS
<1>1. CASE Task
  BY <1>1, SendStep, SendFailsStep, ReceiveNothingStep, ReceiveAnswerStep,
     CorrectStep DEF Task
<1>2. CASE Tick \/ Network
  BY <1>2, TickStep, NetworkStep
<1>3. ASSUME NEW e \in Errs, Hal_setTimeFromMB_Date(e) PROVE IInv'
  BY <1>3, RelayStep
<1>4. CASE UNCHANGED vars
  <2>1. UNCHANGED <<pc, clock, due, ready, held, cal, spent>> /\ UNCHANGED net
    BY <1>4 DEF vars
  <2>2. NetType' /\ Fits'
    BY <2>1, TypeParts DEF IInv, NetType, Fits, net, clock, held
  <2> QED BY <2>1, <2>2, NetworkOnly
<1> QED BY <1>1, <1>2, <1>3, <1>4 DEF Next

THEOREM Invariance == Spec => []IInv
BY Initial, Step, PTL DEF Spec

\* The types, and with them that the wait never exceeds two seconds and a
\* millisecond and that the calibration fits the register.
THEOREM TypeCorrect == Spec => []TypeOK
<1>1. IInv => TypeOK
  BY DEF IInv
<1> QED BY <1>1, Invariance, PTL

\* The wait ends when moving the clock takes it one millisecond past a second,
\* and each millisecond of lag adds one.
THEOREM StrikesTheSecond == Spec => []OnTheSecond
<1>1. IInv => OnTheSecond
  <2> SUFFICES ASSUME TypeOK, Waits, pc = "wait", own, corr # 0
               PROVE  (phase + wait + corr) % Secunda = 1 + lag
    BY DEF IInv, OnTheSecond
  <2>1. PICK k \in Int : phase + wait + corr = 1 + lag + Secunda * k
    BY DEF Waits
  <2> DEFINE a == phase + wait + corr
             r == 1 + lag
  <2>2. /\ r \in 0 .. Secunda - 1 /\ a \in Int /\ a = r + Secunda * k
        /\ Secunda \in Nat /\ Secunda > 0
    BY <2>1, Widths DEF TypeOK
  <2> HIDE DEF a, r
  <2>3. a % Secunda = r
    BY <2>2, Remainder
  <2> QED BY <2>3 DEF a, r
<1> QED BY <1>1, Invariance, PTL

\* A correction from a current answer leaves the clock ahead by at most the
\* request's journey and behind by at most the strobe and the lag.
THEOREM Accurate == Spec => SyncAccurate
<1>1. ASSUME IInv, [Next]_vars
      PROVE  [pc = "wait" /\ pc' = "loop" /\ own =>
                err' \in -(1 + MaxLag) .. MaxTravel]_vars
  <2> SUFFICES ASSUME Next, pc = "wait", pc' = "loop", own
               PROVE  err' \in -(1 + MaxLag) .. MaxTravel
    BY <1>1
  <2>1. Correct
    BY DEF Next, Task, Network, SendRequest, SendFails, ReceiveNothing,
           ReceiveAnswer, Listening, Tick, ServerAnswers, Deliver, Lose,
           Hal_setTimeFromMB_Date
  <2> QED BY <1>1, <2>1, Moved DEF IInv
<1> QED BY <1>1, Invariance, PTL DEF Spec, SyncAccurate
=============================================================================
