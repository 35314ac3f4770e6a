------------------------------ MODULE PollTask ------------------------------
(***************************************************************************)
(* The schedule of the poll task (StartMODBUSTask, MR801): which block of  *)
(* the relay is asked for next (ReadNmb), how the two large blocks are     *)
(* read in pieces, the one-place mailbox writeNmb through which the IEC    *)
(* 61850 server and the SNTP client command the relay, and the mutex that  *)
(* starts the server.                                                      *)
(*                                                                         *)
(* The bus is what MbMaster shows of it: one exchange at a time, which is  *)
(* answered or fails, except that the time command may cut in.  The server *)
(* and the SNTP client preempt the task between any two of its steps; a    *)
(* server whose mutex is released runs before the task does again, as      *)
(* StartIEC850Task has the higher priority and waits for nothing else.     *)
(***************************************************************************)
EXTENDS Integers, FiniteSets

CONSTANTS
    MaxSizeBlok,    \* registers asked for at once, at most
    NumbVLSOut,     \* registers of block 26 (MB_NumbConfigVLSOut)
    NumbUstavki,    \* registers of block 27 (MB_NumbUstavki)
    OperCmds,       \* the commands the clients of the server give
    IP_ready,       \* the flash held no address
    RevOk,          \* the relay is of the type this firmware is for
    SntpSettings,   \* the values sntpOff may have
    MaxOper,        \* bound: commands given
    MaxSets,        \* bound: times the SNTP client sets the clock
    MaxChanges,     \* bound: changes of the relay's settings
    MaxDays,        \* bound: daily resynchronisations of the clock
    Fails           \* whether an exchange may fail

ASSUME SizesAssumption ==
    /\ MaxSizeBlok \in Nat /\ NumbVLSOut \in Nat /\ NumbUstavki \in Nat
    /\ MaxSizeBlok > 0
    /\ NumbVLSOut % MaxSizeBlok > 1 /\ NumbUstavki % MaxSizeBlok > 1
ASSUME OperAssumption ==
    /\ OperCmds \subseteq 1 .. 8
    /\ IP_ready \in BOOLEAN /\ RevOk \in BOOLEAN
    /\ SntpSettings \subseteq BOOLEAN /\ Fails \in BOOLEAN
    /\ MaxOper \in Nat /\ MaxSets \in Nat /\ MaxChanges \in Nat /\ MaxDays \in Nat

\* What writeNmb may hold besides 0: the task compares it with 1, 2, ..., 10 in
\* turn, and the comparisons with other values are left out.
Codes == OperCmds \cup {9, 10}
NextCode(c) == CHOOSE d \in Codes : d > c /\ \A e \in Codes : e > c => d <= e

LimitRead == 29     \* end of the schedule
Time == 10          \* writeNmb: set the relay's clock
Reread == 9         \* writeNmb: clear the journal flag and read everything
Numb == [r \in {26, 27} |-> IF r = 26 THEN NumbVLSOut ELSE NumbUstavki]

\* What the schedule asks for: a block, the piece of a large block that starts
\* at off, or the execution of a command.
Read(r) == [kind |-> "read", nmb |-> r, off |-> 0, len |-> 0]
Piece(r, o, n) == [kind |-> "read", nmb |-> r, off |-> o, len |-> n]
Command(c) == [kind |-> "write", nmb |-> c, off |-> 0, len |-> 0]
NoReq == [kind |-> "none", nmb |-> 0, off |-> 0, len |-> 0]

Date == 11
SystemCfg == 12
VLSIn == 25
Automat == 28
Discrete == {1, 10}
Singles == {0, 1, 2} \cup (10 .. 13) \cup (20 .. 25) \cup {Automat}

\* The settings of the relay, by register where a block is read in pieces.
Settings == {<<r, 0>> : r \in {SystemCfg} \cup (20 .. 25)}
            \cup {<<26, i>> : i \in 0 .. NumbVLSOut - 1}
            \cup {<<27, i>> : i \in 0 .. NumbUstavki - 1}

VARIABLES
    pc,             \* where the poll task is
    chk,            \* the command it compares writeNmb with
    ReadNmb,
    NumbBlokReadMB, NumbBlokReadMBLim, SizeBlokReadMB,
    writeNmb,
    Nextread,
    sntpOff,        \* SNTP_Period = 0: the clock is read from the relay daily
    first,          \* RTC_BKP_DR0 = 0xFFFF: the clock was never read
    resynch,        \* a day has passed since it was
    req,            \* the request in the send buffer
    bus,            \* how far it got; "unheard": on the line, but the relay
                    \* did not hear it or refuses it
    sysNote,        \* MB_bOffsetSysNote in ucMDiscInBuf
    started,        \* xIEC850StartMutex was released: iedServer runs
    quality,        \* GLOBAL_QUALITY
    note,           \* the relay: its journal has a new record
    ip,             \* the relay: its address, against the one in IP_ADDR
    stale,          \* settings that changed since they were last read
    asked,          \* how often each command was given
    done,           \* how often the relay executed it
    sets, changes, days,    \* how much of the bounds is used up
    torn,           \* history: the daily reading cut the schedule short, or command 9
                    \* sent it back with the size of a last piece still set
    dropped         \* history: a client overwrote command 9, or had the
                    \* journal flag cleared before it was seen

schedule == <<ReadNmb, NumbBlokReadMB, NumbBlokReadMBLim, SizeBlokReadMB>>
clock    == <<sntpOff, first, resynch, days>>
exchange == <<req, bus>>
relay    == <<note, ip, stale, changes>>
ledger   == <<asked, done>>
history  == <<torn, dropped>>
vars == <<pc, chk, schedule, writeNmb, Nextread, clock, exchange, sysNote,
          started, quality, relay, ledger, sets, history>>

ScheduleType ==
    /\ pc \in {"loop", "check", "read", "nine", "wipe", "model", "poll",
               "clear", "cleared"}
    /\ chk \in Codes
    /\ ReadNmb \in 0 .. LimitRead
    /\ NumbBlokReadMB \in Nat /\ NumbBlokReadMBLim \in Nat
    /\ SizeBlokReadMB \in 1 .. MaxSizeBlok
    /\ writeNmb \in Codes \cup {0}
Reqs == [kind : {"none", "read", "write"}, nmb : 0 .. LimitRead, off : Nat,
         len : 0 .. MaxSizeBlok]
\* The relay's address: the one in IP_ADDR, another, none, or one of which the
\* module takes its default address instead.
Addresses == {"same", "new", "bad", "odd"}
ExchangeType ==
    /\ req \in Reqs
    /\ bus \in {"idle", "posted", "sent", "unheard"}
    /\ quality \in {"GOOD", "INVALID"}
    /\ ip \in Addresses
    /\ stale \subseteq Settings
FlagsType ==
    /\ Nextread \in BOOLEAN /\ first \in BOOLEAN /\ resynch \in BOOLEAN
    /\ sntpOff \in BOOLEAN /\ sysNote \in BOOLEAN /\ started \in BOOLEAN
    /\ note \in BOOLEAN /\ torn \in BOOLEAN /\ dropped \in BOOLEAN
LedgerType ==
    /\ asked \in [OperCmds -> Nat] /\ done \in [OperCmds -> Nat]
    /\ sets \in 0 .. MaxSets /\ changes \in 0 .. MaxChanges
    /\ days \in 0 .. MaxDays
\* The values every variable stays in.
TypeOK == ScheduleType /\ ExchangeType /\ FlagsType /\ LedgerType

\* Power on: Clocks_Init has marked the clock as never read, and nothing of
\* the relay is known.
Init ==
    /\ pc = "loop" /\ chk = 10
    /\ ReadNmb = 0 /\ NumbBlokReadMB = 0 /\ NumbBlokReadMBLim = 0
    /\ SizeBlokReadMB = MaxSizeBlok
    /\ writeNmb = 0 /\ Nextread = FALSE
    /\ sntpOff \in SntpSettings
    /\ first = TRUE /\ resynch = FALSE /\ days = 0
    /\ req = NoReq /\ bus = "idle" /\ sysNote = FALSE
    /\ started = FALSE /\ quality = "GOOD"
    /\ note \in BOOLEAN /\ ip \in Addresses /\ stale = Settings
    /\ asked = [c \in OperCmds |-> 0] /\ done = [c \in OperCmds |-> 0]
    /\ sets = 0 /\ changes = 0 /\ torn = FALSE /\ dropped = FALSE

-----------------------------------------------------------------------------
(* One iteration of the task.                                              *)

\* The request functions fill the one send buffer and post FRAME_SENT.
Ask(r) == req' = r /\ bus' = "posted"

\* The time is written at once, over whatever exchange is under way.
LoopTime ==
    /\ pc = "loop" /\ writeNmb = Time
    /\ Ask(Command(Time))
    /\ pc' = "poll"
    /\ UNCHANGED <<chk, schedule, writeNmb, Nextread, clock, sysNote, started,
                   quality, relay, ledger, sets, history>>

\* A paced turn: after a reply, or when the period is over, by which time an
\* exchange has ended, unless it is the unpaced one.
LoopPaced ==
    /\ pc = "loop" /\ writeNmb # Time
    /\ bus = "idle" \/ req = Command(Time)
    /\ Nextread' = FALSE
    /\ LET r == IF ReadNmb \in 3 .. 9 THEN 1 ELSE ReadNmb
       IN  ReadNmb' = IF r = 1 /\ first THEN 10 ELSE r
    /\ pc' = "check" /\ chk' = NextCode(0)
    /\ UNCHANGED <<NumbBlokReadMB, NumbBlokReadMBLim, SizeBlokReadMB, writeNmb,
                   clock, exchange, sysNote, started, quality, relay, ledger,
                   sets, history>>

LoopIdle ==
    /\ pc = "loop" /\ writeNmb # Time /\ ~Nextread
    /\ pc' = "poll"
    /\ UNCHANGED <<chk, schedule, writeNmb, Nextread, clock, exchange, sysNote,
                   started, quality, relay, ledger, sets, history>>

\* writeNmb is compared with each command in turn.
Check ==
    /\ pc = "check"
    /\ IF writeNmb = chk THEN Ask(Command(chk)) ELSE UNCHANGED exchange
    /\ IF chk < 10 THEN chk' = NextCode(chk) /\ pc' = "check"
                   ELSE chk' = 10 /\ pc' = "read"
    /\ UNCHANGED <<schedule, writeNmb, Nextread, clock, sysNote, started,
                   quality, relay, ledger, sets, history>>

\* The last piece was read: on to the next block, in full pieces again.
PieceEnds(r, n) ==
    /\ ReadNmb' = r + 1
    /\ NumbBlokReadMB' = 0 /\ NumbBlokReadMBLim' = 0
    /\ SizeBlokReadMB' = n
    /\ UNCHANGED exchange

\* Mutant of NextPiece: the remainder of one block is the size of the next
\* one's pieces.
NextPieceKeepsSize(r) ==
    LET lim == Numb[r] \div MaxSizeBlok
        n == IF r = 27 /\ NumbBlokReadMBLim = 0 THEN 0 ELSE NumbBlokReadMB
        size == IF n = lim THEN Numb[r] % MaxSizeBlok ELSE SizeBlokReadMB
    IN IF n > lim
         THEN PieceEnds(r, SizeBlokReadMB)
         ELSE /\ NumbBlokReadMB' = n /\ NumbBlokReadMBLim' = lim
              /\ SizeBlokReadMB' = size
              /\ ReadNmb' = r
              /\ Ask(Piece(r, n * MaxSizeBlok, size))

\* Mutant of NextPiece: the last piece has the size of the others.
NextPieceFull(r) ==
    LET lim == Numb[r] \div MaxSizeBlok
        n == IF r = 27 /\ NumbBlokReadMBLim = 0 THEN 0 ELSE NumbBlokReadMB
    IN IF n > lim
         THEN PieceEnds(r, MaxSizeBlok)
         ELSE /\ NumbBlokReadMB' = n /\ NumbBlokReadMBLim' = lim
              /\ SizeBlokReadMB' = MaxSizeBlok
              /\ ReadNmb' = r
              /\ Ask(Piece(r, n * MaxSizeBlok, MaxSizeBlok))

\* The next piece of a large block; the last one has the remainder for size.
NextPiece(r) ==
    LET lim == Numb[r] \div MaxSizeBlok
        n == IF r = 27 /\ NumbBlokReadMBLim = 0 THEN 0 ELSE NumbBlokReadMB
        size == IF n = lim THEN Numb[r] % MaxSizeBlok ELSE SizeBlokReadMB
    IN IF n > lim
         THEN PieceEnds(r, MaxSizeBlok)
         ELSE /\ NumbBlokReadMB' = n /\ NumbBlokReadMBLim' = lim
              /\ SizeBlokReadMB' = size
              /\ ReadNmb' = r
              /\ IF size > 0 /\ n * MaxSizeBlok < Numb[r]
                   THEN Ask(Piece(r, n * MaxSizeBlok, size))
                   ELSE UNCHANGED exchange

\* Mutants of Wrap: the schedule still has the end it is declared with; the
\* server starts before the large blocks are read; nothing starts it.
WrapDeclared(r) ==
    /\ ReadNmb' = IF r >= 254 THEN 1 ELSE r
    /\ started' = (started \/ r >= 254 \/ IP_ready)
WrapEarly(r) ==
    /\ ReadNmb' = IF r >= LimitRead THEN 1 ELSE r
    /\ started' = (started \/ r >= VLSIn \/ IP_ready)
WrapSilent(r) ==
    /\ ReadNmb' = IF r >= LimitRead THEN 1 ELSE r
    /\ started' = (started \/ IP_ready)

\* Back to the start of the schedule when it has run out; the server may start.
Wrap(r) ==
    /\ ReadNmb' = IF r >= LimitRead THEN 1 ELSE r
    /\ started' = (started \/ r >= LimitRead \/ IP_ready)

\* The part of the schedule that is not read in pieces.
NextBlock(r) ==
    /\ Wrap(CASE r \in Singles      -> r
              [] r = 14             -> 19
              [] OTHER              -> r + 1)
    /\ UNCHANGED <<NumbBlokReadMB, NumbBlokReadMBLim, SizeBlokReadMB>>

\* With no command to give, the task asks for the next block; once a day the
\* clock comes first, and the schedule is cut short.
ReadStep ==
    /\ pc = "read" /\ writeNmb = 0
    /\ IF sntpOff /\ resynch
         THEN NextBlock(LimitRead) /\ Ask(Read(Date))
         ELSE IF ReadNmb \in {26, 27}
           THEN NextPiece(ReadNmb) /\ started' = (started \/ IP_ready)
           ELSE /\ NextBlock(ReadNmb)
                /\ IF ReadNmb \in Singles THEN Ask(Read(ReadNmb))
                                          ELSE UNCHANGED exchange
    /\ torn' = (torn \/ (sntpOff /\ resynch))
    /\ pc' = "model"
    /\ UNCHANGED <<chk, writeNmb, Nextread, clock, sysNote, quality,
                   relay, ledger, sets, dropped>>

\* writeNmb is not zero: a command was given.
ReadSkip ==
    /\ pc = "read" /\ writeNmb # 0
    /\ pc' = "nine"
    /\ UNCHANGED <<chk, schedule, writeNmb, Nextread, clock, exchange, sysNote,
                   started, quality, relay, ledger, sets, history>>

\* Mutant: the settings are not read again.
NineForgets ==
    /\ pc = "nine" /\ pc' = "wipe"
    /\ UNCHANGED <<chk, schedule, writeNmb, Nextread, clock, exchange, sysNote,
                   started, quality, relay, ledger, sets, history>>

\* After command 9 everything is to be read again, from block 10.
Nine ==
    /\ pc = "nine"
    /\ IF writeNmb = Reread
         THEN ReadNmb' = 10 /\ torn' = (torn \/ SizeBlokReadMB # MaxSizeBlok)
         ELSE UNCHANGED <<ReadNmb, torn>>
    /\ pc' = "wipe"
    /\ UNCHANGED <<chk, NumbBlokReadMB, NumbBlokReadMBLim, SizeBlokReadMB,
                   writeNmb, Nextread, clock, exchange, sysNote, started,
                   quality, relay, ledger, sets, dropped>>

\* Mutant: the mailbox keeps the command.
WipeKeeps ==
    /\ pc = "wipe" /\ pc' = "model"
    /\ UNCHANGED <<chk, schedule, writeNmb, Nextread, clock, exchange, sysNote,
                   started, quality, relay, ledger, sets, history>>

\* writeNmb = 0, whatever it holds by now.
Wipe ==
    /\ pc = "wipe"
    /\ writeNmb' = 0
    /\ pc' = "model"
    /\ UNCHANGED <<chk, schedule, Nextread, clock, exchange, sysNote, started,
                   quality, relay, ledger, sets, history>>

\* A record in the relay's journal means that its settings changed.
Set_SG == IF sysNote THEN writeNmb' = Reread /\ sysNote' = FALSE
                     ELSE UNCHANGED <<writeNmb, sysNote>>

\* The data model of a running server is filled.
Model ==
    /\ pc = "model"
    /\ IF started THEN Set_SG ELSE UNCHANGED <<writeNmb, sysNote>>
    /\ pc' = "poll"
    /\ UNCHANGED <<chk, schedule, Nextread, clock, exchange, started, quality,
                   relay, ledger, sets, history>>

-----------------------------------------------------------------------------
(* eMBMasterPoll, and what the task does with its result.                  *)

\* No event, or one that ends in MB_ENOERR: a READY, or a reply that could
\* not be used.
PollNothing ==
    /\ pc = "poll" /\ bus # "posted"
    /\ pc' \in {"loop", "clear"}
    /\ UNCHANGED <<chk, schedule, writeNmb, Nextread, clock, exchange, sysNote,
                   started, quality, relay, ledger, sets, history>>

\* The request goes on the line (MB_ESENT).  A command that reaches the relay
\* is executed; 5 and 9 clear the flag of its journal.
PollSent ==
    /\ pc = "poll" /\ bus = "posted"
    /\ bus' = "sent"
    /\ pc' = "clear"
    /\ IF req.kind = "write"
         THEN /\ done' = IF req.nmb \in OperCmds
                            THEN [done EXCEPT ![req.nmb] = @ + 1] ELSE done
              /\ note' = (note /\ req.nmb \notin {5, Reread})
              /\ dropped' = (dropped \/ (note /\ req.nmb = 5))
         ELSE UNCHANGED <<done, note, dropped>>
    /\ UNCHANGED <<chk, schedule, writeNmb, Nextread, clock, req, sysNote,
                   started, quality, ip, stale, changes, asked, sets, torn>>

\* It goes on the line, and the relay does not hear it or refuses it.
PollUnheard ==
    /\ Fails /\ pc = "poll" /\ bus = "posted"
    /\ bus' = "unheard"
    /\ pc' = "clear"
    /\ UNCHANGED <<chk, schedule, writeNmb, Nextread, clock, req, sysNote,
                   started, quality, relay, ledger, sets, history>>

\* FRAME_SENT was in the event word together with another event: both are
\* lost, and the result is MB_ENOERR.
PollLost ==
    /\ Fails /\ pc = "poll" /\ bus = "posted"
    /\ bus' = "idle"
    /\ pc' = "clear"
    /\ UNCHANGED <<chk, schedule, writeNmb, Nextread, clock, req, sysNote,
                   started, quality, relay, ledger, sets, history>>

\* MB_ENOERR or MB_ESENT with writeNmb = 10 ends the time command, in a test
\* and an assignment.
Clear ==
    /\ pc = "clear"
    /\ pc' = IF writeNmb = Time THEN "cleared" ELSE "loop"
    /\ UNCHANGED <<chk, schedule, writeNmb, Nextread, clock, exchange, sysNote,
                   started, quality, relay, ledger, sets, history>>

Cleared ==
    /\ pc = "cleared"
    /\ writeNmb' = 0
    /\ pc' = "loop"
    /\ UNCHANGED <<chk, schedule, Nextread, clock, exchange, sysNote, started,
                   quality, relay, ledger, sets, history>>

Answered == pc = "poll" /\ bus = "sent"

\* MB_ERECVDATA.
Received == bus' = "idle" /\ Nextread' = TRUE /\ quality' = "GOOD" /\ pc' = "loop"

ReplyWrite ==
    /\ Answered /\ req.kind = "write"
    /\ Received
    /\ UNCHANGED <<chk, schedule, writeNmb, clock, req, sysNote, started, relay,
                   ledger, sets, history>>

\* The clock is set: it was read at least once, and not a day ago.
Hal_setTimeFromMB_Date == first' = FALSE /\ resynch' = FALSE

\* A block: it is stored, and the schedule goes on to the next.
ReplyRead ==
    /\ Answered /\ req.kind = "read" /\ req.nmb \notin {SystemCfg, 26, 27}
    /\ Received
    /\ ReadNmb' = ReadNmb + 1
    /\ NumbBlokReadMB' = IF req.nmb \in {VLSIn, Automat} THEN 0 ELSE NumbBlokReadMB
    /\ sysNote' = IF req.nmb \in Discrete THEN note ELSE sysNote
    /\ IF req.nmb = Date THEN Hal_setTimeFromMB_Date
                         ELSE UNCHANGED <<first, resynch>>
    /\ started' = (started \/ (req.nmb = 0 /\ ~RevOk))
    /\ stale' = stale \ {<<req.nmb, 0>>}
    /\ UNCHANGED <<chk, NumbBlokReadMBLim, SizeBlokReadMB, writeNmb, sntpOff,
                   days, req, note, ip, changes, ledger, sets, history>>

\* -1: no address; 2: the one in use; 0: another one is now in use.
Hal_setIPFromMB_Date ==
    CASE ip = "bad"  -> -1
      [] ip = "same" -> 2
      [] OTHER       -> 0
Adopted == IF ip = "new" THEN "same" ELSE ip

SystemCfgRead == Answered /\ req.nmb = SystemCfg /\ req.kind = "read"

\* The system configuration: an address that will do starts the server.
ReplySystemCfg ==
    /\ SystemCfgRead
    /\ ~(Hal_setIPFromMB_Date = 0 /\ started)
    /\ Received
    /\ ReadNmb' = ReadNmb + 1
    /\ ip' = Adopted
    /\ started' = (started \/ Hal_setIPFromMB_Date # -1)
    /\ stale' = stale \ {<<SystemCfg, 0>>}
    /\ UNCHANGED <<chk, NumbBlokReadMB, NumbBlokReadMBLim, SizeBlokReadMB,
                   writeNmb, clock, req, sysNote, note, changes, ledger,
                   sets, history>>

\* A new address resets a module whose server has run: everything but the
\* relay and the flash starts afresh.
SystemReset ==
    /\ SystemCfgRead
    /\ Hal_setIPFromMB_Date = 0 /\ started
    /\ ip' = Adopted
    /\ pc' = "loop" /\ chk' = 10
    /\ ReadNmb' = 0 /\ NumbBlokReadMB' = 0 /\ NumbBlokReadMBLim' = 0
    /\ SizeBlokReadMB' = MaxSizeBlok
    /\ writeNmb' = 0 /\ Nextread' = FALSE
    /\ first' = TRUE /\ resynch' = FALSE
    /\ req' = NoReq /\ bus' = "idle" /\ sysNote' = FALSE
    /\ started' = FALSE /\ quality' = "GOOD"
    /\ stale' = Settings /\ torn' = FALSE /\ dropped' = FALSE
    /\ UNCHANGED <<sntpOff, days, note, changes, ledger, sets>>

\* A piece of a large block: it is stored where it was asked from.
ReplyPiece ==
    /\ Answered /\ req.nmb \in {26, 27} /\ req.kind = "read"
    /\ Received
    /\ NumbBlokReadMB' = NumbBlokReadMB + 1
    /\ stale' = stale \ {<<req.nmb, i>> : i \in req.off .. req.off + req.len - 1}
    /\ UNCHANGED <<chk, ReadNmb, NumbBlokReadMBLim, SizeBlokReadMB, writeNmb,
                   clock, req, sysNote, started, note, ip, changes, ledger,
                   sets, history>>

\* An exchange fails: no answer (MB_ETIMEDOUT), or a bad or refusing one,
\* which ends in MB_ENOERR.
Fail(timeout) ==
    /\ Fails /\ pc = "poll" /\ bus \in {"sent", "unheard"}
    /\ bus' = "idle"
    /\ quality' = IF timeout THEN "INVALID" ELSE quality
    /\ pc' = IF timeout THEN "loop" ELSE "clear"
    /\ UNCHANGED <<chk, schedule, writeNmb, Nextread, clock, req, sysNote,
                   started, relay, ledger, sets, history>>
PollTimeout == Fail(TRUE)
PollRefused == Fail(FALSE)

-----------------------------------------------------------------------------
(* The other tasks, and the relay.                                         *)

\* The mailbox is overwritten, whatever it holds.
Put(c) ==
    /\ writeNmb' = c
    /\ dropped' = (dropped \/ writeNmb = Reread)

\* A client's command: the control and setting group handlers put it in
\* the mailbox.
Operate(c) ==
    /\ started
    /\ asked[c] < MaxOper
    /\ Put(c)
    /\ asked' = [asked EXCEPT ![c] = @ + 1]
    /\ UNCHANGED <<pc, chk, schedule, Nextread, clock, exchange, sysNote,
                   started, quality, relay, done, sets, torn>>

SntpSet ==
    /\ started /\ ~sntpOff /\ sets < MaxSets
    /\ Put(Time)
    /\ sets' = sets + 1
    /\ UNCHANGED <<pc, chk, schedule, Nextread, clock, exchange, sysNote,
                   started, quality, relay, ledger, torn>>

\* The settings of the relay are changed, and its journal says so.
SettingsChange ==
    /\ changes < MaxChanges
    /\ changes' = changes + 1
    /\ note' = TRUE /\ stale' = Settings
    /\ UNCHANGED <<pc, chk, schedule, writeNmb, Nextread, clock, exchange,
                   sysNote, started, quality, ip, ledger, sets, history>>

\* currentTime > nextSynchTime, which is looked at without SNTP.
DayPasses ==
    /\ sntpOff /\ days < MaxDays /\ ~first /\ ~resynch
    /\ days' = days + 1
    /\ resynch' = TRUE
    /\ UNCHANGED <<pc, chk, schedule, writeNmb, Nextread, sntpOff, first,
                   exchange, sysNote, started, quality, relay, ledger, sets, history>>

-----------------------------------------------------------------------------
Iteration == \/ LoopTime \/ LoopPaced \/ LoopIdle
             \/ Check \/ ReadStep \/ ReadSkip \/ Nine \/ Wipe \/ Model
PollMb == \/ PollNothing \/ PollSent \/ Clear \/ Cleared
Reply == ReplyWrite \/ ReplyRead \/ ReplySystemCfg \/ SystemReset \/ ReplyPiece
Failure == PollTimeout \/ PollRefused \/ PollLost \/ PollUnheard
Clients == (\E c \in OperCmds : Operate(c)) \/ SntpSet
Relay == SettingsChange \/ DayPasses
Next == \/ Iteration \/ PollMb \/ Reply \/ Failure
        \/ Clients \/ Relay

Spec == Init /\ [][Next]_vars

\* The task is scheduled, its turns come, not every request coincides with
\* another event, and the relay answers again and again;
\* an exchange that it did not hear ends as well.
FairSpec ==
    /\ Spec
    /\ WF_vars(Iteration) /\ WF_vars(PollMb)
    /\ SF_vars(LoopPaced) /\ SF_vars(PollSent) /\ SF_vars(Reply)
    /\ SF_vars(bus = "unheard" /\ Failure)

-----------------------------------------------------------------------------
\* A piece lies within its block, so that the reply is stored within the
\* block's buffer, whatever the schedule was sent back from.
PieceInBlock ==
    (req.kind = "read" /\ req.nmb \in {26, 27}) => req.off + req.len <= Numb[req.nmb]

\* The module knows of settings it has not read: the relay's journal or the
\* bit it was copied to says so, or they are being read.
Flagged == note \/ sysNote \/ writeNmb = Reread
Reading == ReadNmb >= 10 \/ first

\* Changed settings are never forgotten: until they are read they are flagged,
\* or the schedule is on its way through the configuration.  The exceptions are
\* a schedule that the daily reading cut short or that command 9 sent back with the
\* size of a last piece still set (torn), and a command that replaced command 9 in
\* the mailbox or cleared the flag (dropped).
ChangesTracked == stale = {} \/ Flagged \/ Reading \/ torn \/ dropped

\* A switch command is executed no more often than it was given.
ExecutedOnce == \A c \in OperCmds : done[c] <= asked[c]

\* What starts the server whatever was read of the configuration: a flash without an
\* address, a relay of another type, an address of the relay that will do.
Decided == IP_ready \/ ~RevOk \/ ip # "bad"

\* The clock is read from the relay once a day, wherever the schedule is; the server
\* is started as at the schedule's end, though the schedule was cut short.
DailyReading == pc = "read" /\ writeNmb = 0 /\ sntpOff /\ resynch

\* When nothing else decides, the server starts on a configuration that was read whole
\* and has not changed unnoticed; the one exception is the daily reading, which starts
\* it in the middle of a schedule that could not be read to its end within a day.
StartsConfigured ==
    [][~started /\ started' => Decided \/ stale' = {} \/ Flagged \/ DailyReading]_vars

\* Whatever fails on the bus, and however often a new address resets the module, the
\* server runs again.
ServerStarts == []<>started

\* The exchanges that fail come to an end.  (A block that the relay refused for
\* ever would keep the schedule where it is.)
FailuresEnd == <>[][~Failure]_vars

\* Changed settings are read in the end, with the exceptions above.
ChangesRead == FailuresEnd => (stale # {} ~> (stale = {} \/ torn \/ dropped))

\* The measurements are read again and again.
AnalogPolled == FailuresEnd => []<>(bus = "sent" /\ req = Read(2))

-----------------------------------------------------------------------------
\* freertos.c:623: a write is carried out ahead of its turn; a command leaves
\* the mailbox only when it has been asked of the relay.
CommandAsked ==
    [][(writeNmb \in OperCmds /\ writeNmb' = 0) =>
        req = Command(writeNmb) \/ ~started']_vars

=============================================================================
