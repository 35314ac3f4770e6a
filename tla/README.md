# A verification model of the IEC 61850 / MODBUS communication module

The repository is the firmware of a communication module (STM32F407, FreeRTOS,
lwIP, libIEC61850) that sits beside a protection relay.  Over a half duplex
RS-485 line it reads the relay's memory as a MODBUS RTU master and shows it to
IEC 61850 clients; their controls go back to the relay as MODBUS writes.  Line
numbers below are lines of the files under `src/`; the comments of the sources
are in CP1251.  The build that is modelled is the one whose configuration in
`src/.cproject` (847) defines the symbol `MR801` (907, 971), for the relay of that name.

## 1. The system

| component | state | operations | talks to |
|---|---|---|---|
| MODBUS RTU master (`FreeModbus/mb_m.c`, `rtu/mbrtu_m.c`, `functions/*_m.c`, `user/Src/modbus.c`) | receiver and sender state, TIM2, event word `xMasterOsEvent`, one send and one receive buffer, `Modbus_SizeRX`, the DMA | `eMBMasterReq*`, `eMBMasterPoll`, the UART/DMA callbacks, the timer callback | the poll task (calls), the interrupts (event word), the line |
| poll task (`StartMODBUSTask`, `user/Src/freertos.c:526-820`) | the schedule `ReadNmb`, the pieces of a large block, `Nextread`, quality, the time of the last clock reading | one iteration: command, next block, data model, poll | the master; the mailbox `writeNmb`; the start mutex |
| command mailbox `writeNmb` | one number, 0 when empty | written by the control and setting group handlers, by `Set_SG`, by the SNTP client; compared and wiped by the poll task | server task, SNTP task, poll task |
| reply handlers (`mbfuncholding_m.c`, `mbfunccoils_m.c`) | the relay's blocks in RAM | store a block and move the schedule on; take over the address; release the start mutex | poll task, server task, reset |
| server task (`StartIEC850Task`) | `iedServer`, RAM disk, network interface | wait for the start mutex, build the data model, serve | mailbox, data model |
| SNTP client (`sntpclient.c`, `iso_server.c`, `time_STM.c`) | real time clock, its calibration, the next synchronisation, the socket | request, work out the correction, wait for the second, correct, calibrate, `writeNmb = 10` | mailbox, time server; the reply handler of block 11 sets the same clock |
| report control blocks and report buffers (`iedserver/reporting.c`) | pending changes with their flags and buffered values, the memory block with its linked reports, the client | `ReportControl_valueUpdated` from the poll task, `Reporting_processReportEvents` at each turn of the server, writes of `RptEna`, `EntryID`, `GI`, `PurgeBuf` by clients | poll task and server task, both; the connection |
| ISO server and connections (`iso_server.c`, `iso_connection.c`, `cotp.c`) | three slots, a counter, the state of each connection | accept, look into each connection, stop it, destroy it and tell the MMS server | sockets, reports, controls, reset |
| control objects (`iedserver/control.c`) | the state of each control, the connection that used it last | operate, carry out at the next turn, abort when the connection goes | the connection; `controlHandlerForBinaryOutput`, which writes the mailbox |
| data model filling (`IEC61850/datato*.c`) | attributes of the data model | `Set_*` from the blocks; `Set_SG` puts command 9 in the mailbox | mailbox |
| heap in the SPI flash (`heapExtmem.c`) | free list | allocate, free | nobody, in this build |
| SPI memory, flash, clocks, UARTs, Ethernet driver | device registers | device I/O | |
| IEC 104 server, HTTP server, console | | tasks that this build does not create | |
| the rest of libIEC61850, FatFs, HAL, FreeRTOS, lwIP | | third-party code | |

What is hard in it:

* **The event word.**  `xMasterOsEvent |= e` is a load and a store, done by the
  task and, at two priorities, by interrupts (`modbus.c:360`).  What is posted
  between them is lost.  `xMBMasterPortEventGet` takes all events and reports
  one only if it was alone (`modbus.c:388-420`).
* **A timer that is not stopped.**  A reply leaves the respond timer running; it
  expires during the next exchange (`mbrtu_m.c:326`).
* **One send buffer.**  A reply is stored under the address of the request in
  the send buffer, which need not be the one it answers (`mbfuncholding_m.c:1293`).
* **The mailbox.**  It is compared with 1, 2, ... 10 in turn, then with 0, then
  with 9, and then wiped (`freertos.c:577-721`), while tasks of higher priority
  overwrite it.
* **The knowledge that the settings changed** travels from a flag of the relay to
  its copy in RAM, to command 9 in the mailbox, to the position of the schedule.
  It must not be lost on the way.
* **The clock.**  It can only be set to a whole second, so a correction is worked
  out, waits up to two seconds, and is then added to the clock as it stands
  (`sntpclient.c:245-281`), which the poll task may have set meanwhile.  The wait is
  computed in `uint16_t`, with a strobe that wraps once a second.
* **The report buffer.**  Reports of different lengths share one memory block as a
  linked list; where the next one goes and what gives way to it is decided by
  comparing addresses in four cases (`reporting.c:1755-1916`).  A client that comes
  back names the report it got last, and must be told when some are missing.
* **Two tasks, no lock.**  The poll task changes the data model, which may make and
  send a report there and then; the server does the same at its turn.  In a stack
  without threads `IedServer_lockDataModel` is empty (`mms_server.c:74-88`).
* **Connections** are counted, looked at and destroyed in different places, and what
  refers to them (reports, controls) must not outlive them.
* **Starting the server**: only with a configuration, but also in the end when
  exchanges fail or the relay has no usable address.  A new address resets the
  module.

What makes each component correct:

* master: never stuck; a block filled only from its own answer; never talks over
  the relay; a dead relay is reported, a live one read, whatever is lost;
* poll task and mailbox: pieces stay in their block; changed settings are never
  forgotten and are read in the end; no command executed twice; measurements
  read for ever; the server runs in the end, again after each reset, and starts for
  one of the named reasons or on a configuration that was read whole;
* report buffer: reports do not overlap, the pointer to the next stays on the list, a
  gap is never silent; the memory block is a queue to those who use it;
* report control: a change is in a report or waits with its value, pending changes go
  first, reports are sent in order, the last value arrives;
* server: the counter agrees with the slots, nothing refers to a freed connection,
  a connection is stopped only for a reason, a request is lost only with its
  connection or the module, and who has something to say is looked at in each turn;
* SNTP client: the clock moves at the beginning of a second, an answer leaves it
  right to within the journey of the request, the calibration stays in its register;
* allocator: blocks disjoint, free bytes conserved, the scheduler resumed.

## 2. Modules

| module | what it is |
|---|---|
| `MbMaster` | the MODBUS master with its interrupts, the line, the relay and time |
| `MCMbMaster` | its instances for TLC |
| `MbMaster_proofs` | theorems about it: types and the sender |
| `MbExchange_proofs` | theorems about it: one exchange at a time |
| `PollTask` | the schedule, the mailbox, the reply handlers, the start of the server |
| `MCPollTask` | its instances for TLC |
| `PollTask_proofs` | theorems about it |
| `SntpClient` | the SNTP client, its network, the clock and its calibration |
| `MCSntpClient` | its instances for TLC |
| `SntpClient_proofs` | theorems about it |
| `ReportQueue` | what a report buffer promises, whatever memory it is kept in |
| `ReportBuffer` | the memory block with its linked reports, and a client that loses its connection |
| `MCReportBuffer` | its instances for TLC |
| `ReportBuffer_proofs` | theorems about it, and that it refines `ReportQueue` |
| `ReportControl` | changes becoming reports, between the poll task and the server |
| `MCReportControl` | its instances for TLC |
| `ReportControl_proofs` | theorems about it |
| `Server` | the server's turn: connections, what they leave behind, controls |
| `MCServer` | its instances for TLC |
| `Server_proofs` | theorems about it |

The modules meet at these places.  The `bus` of `PollTask` is what `MbMaster` shows
of an exchange; `SntpSet` of `PollTask` is the `writeNmb = 10` at the end of
`Correct` in `SntpClient`, and `Hal_setTimeFromMB_Date` of `SntpClient` is what the
reply handler does when `PollTask` has read block 11.  `Model` of `PollTask` is the
section of the poll task in which `ReportControl` has its updates.  The queue of
`ReportControl` is what `ReportBuffer` is shown to keep.  `owner` of `Server` is the
client of a report control block, which `ReportBuffer` sees come and go.  `CarryOut` of
`Server` is where `Operate` of `PollTask` comes from.

### MbMaster

Every variable is named after the variable of the code or explained beside its
declaration.  The correspondence is:

* The task is cut where an interrupt can make a difference: `LoopRequest`,
  `LoopTime`, `LoopSkip` and `LoopIdle` are the top of the loop up to the request
  function; `PostLoad` / `PostStore` and `WaitLoad` / `WaitStore` are the two
  accesses of `xMBMasterPortEventPost` and `eMBMasterWaitRequestFinish`;
  `PollLoad` / `PollClear` those of `xMBMasterPortEventGet`; `HReady`,
  `HReceived`, `HExecute`, `HSent` and `HError` the cases of `eMBMasterPoll`
  (`RtuStartTimer` is the second half of the restart in the error case);
  `Return` what the task does with the result.
* The UART/DMA handlers are cut where TIM2, of higher priority, may preempt them:
  `TxComplete`, `TxArm`, `TxState`, `TxTimer`, and `RxComplete`, `RxCopy`,
  `RxState`, `RxStore`.  `TimerExpired` is one step, as nothing preempts it.
  A task step is taken only when no UART handler runs or waits.
* A frame is abstracted to the request it answers, or `Bad` when its CRC does not
  match; its length is kept, since the DMA stops at `Modbus_SizeRX` bytes.  A
  request rewritten while it is on the line becomes either request or `Bad`.
* Time is counted in ticks.  A step takes no time; `Tick` lets one pass when no
  interrupt is due and the task is not already `MaxLag` behind.

Two history variables name the one circumstance in which the code does not keep
its word, so that the properties can be stated with it excepted and nothing else:
`cut` (a timer left by an earlier exchange expired while a request was being
sent, and no request has gone out on a quiet line since).  `fresh` says that a
good reply came after the last timeout.

### PollTask

One iteration of `StartMODBUSTask` is `LoopTime` / `LoopPaced` / `LoopIdle`, then
one `Check` per command the mailbox is compared with, `ReadStep` (mailbox empty:
next block or next piece) or `ReadSkip`, `Nine`, `Wipe`, then `Model` (the data
model, with `Set_SG`), then one of the poll actions.  Each access to `writeNmb`
that another task can get ahead of is a step of its own.  The reply actions are
the branches of the reply handlers of the MR801; `SystemReset` is the reset that
follows a new address.  `Operate` and `SntpSet` are the other writers of the
mailbox, `SettingsChange` and `DayPasses` the relay and the clock.

The bus is what MbMaster shows of it: an exchange is idle, posted, sent, or sent
without the relay hearing it (`unheard`), and ends in a reply, a timeout, a
refusal or the loss of its event.  A setting is a register of block 12, 20 to 25,
26 or 27; `stale` holds those that changed since they were read.

`torn` (the daily reading of the clock cut the schedule short, or command 9 sent it back
with the size of a last piece still set) and `dropped` (a client's command replaced
command 9, or cleared the journal flag before it was seen) are history variables: they
mark the circumstances of the findings below, and the properties hold in all others.

### SntpClient

A time is not a number of seconds since 1970 but its distance from the right time:
`err` is the module's clock minus the server's, `phase` the clock modulo a second,
`due` what is left until `nextSynchTimeNTP`.  Setting the clock changes `err` and
`phase` and what is left of `due`; `Tick` lets a millisecond pass and changes `phase`
alone, as both clocks run on.  A request on the network is the `err` it was sent
with and its age, an answer the correction that the client works out from it.

`SendRequest` and `SendFails` are the branch of the task in which the time has come,
`ReceiveNothing` and `ReceiveAnswer` the look into the socket, `ReceiveAnswer` up to
`vTaskDelay` and `Correct` from there to the end, with `Delay` the computation of the
wait in `uint16_t`, and `Hal_setTimeInMs` and `Hal_setCalibrTime` what is done to the
clock.  C division rounds towards zero (`CQuot`).  The network loses, delays and
reorders what is under way, and cuts datagrams short.

`own` (and `cur` of a message, from which it comes) is a history variable: the
correction that waits answers the last request, and the clock has not been set since
that was sent.  The code does not tell the two cases apart, which is finding 2.

### ReportBuffer and ReportQueue

`ReportQueue` has three variables: the reports that are retained, those of them still
to be transmitted, and the overflow flag.  Room is made at the old end; a loss there of
a report that was not transmitted sets the flag.  Its two exceptions, `DropAlone` and
`Forget`, are what the code does: a report alone in the buffer is dropped without the
flag (`reporting.c:1793-1796`), and `sendNextReportEntry` takes the flag back before it
has the memory for the rest of the report (`:2139-2144`).

`ReportBuffer` has the memory.  The linked list is a set of entries with address,
length and number; the links go by number, as a report is only ever linked behind the
last one, and `oldestReport` and `lastEnqueuedReport` are the first and the newest.
An address is an offset plus one in words, with 0 for NULL, so that `MakeRoom` can
compare addresses as the code does, case by case.  `EnqueueChange`, `EnqueueIntegrity`
and `EnqueueGI` are `enqueueReport` from the three places that call it,
`SendNextReportEntry` and `SendOutOfMemory` the two ends of `sendNextReportEntry`,
`Enable`, `Disable`, `WriteEntryID`, `WriteZeroEntryID` and `PurgeBuf` what a client
writes, `LinkFails` and `DeactivateReportsForConnection` what happens to connections.
A block that is enabled may be written, as the lock against it is commented out
(`reporting.c:1286-1292`, `:1390-1393`).

`removeAllGIReportsFromReportBuffer` does not move `lastEnqueuedReport`.  When the last
report is a GI report and the next one is too, the list and its last report part
(`severed`); the code then links what follows to a report that is on no list, and
compares addresses with it.  The model goes as far as that step.

`seen`, `withdrawn` and `excused` are history variables for `NoSilentGap`.

### ReportControl

The poll task is cut at each access to the report control block that the server can get
ahead of: `Update` (the value), `Check` and `Process` (a pending change goes first),
`Send` and `Sent`, `Flag`, `Copy` and `Arm`.  The server's turn is `Turn`, and
`TurnSent` when the network has taken the report: while it waits for that, the poll task
runs. `Enable`, `WriteEntryID`, `Disable` and `GI` are its clients' writes.  `Enable`
starts from the oldest report, or, with `isResync`, where `WriteEntryID` has put
`nextToTransmit`; a connection that is closed leaves that flag as it is.  A client names
a report that was sent since the block was enabled, or zero.  The value of an attribute
is the number of its changes, and a report a function from the entries it has to their
values.

`lost` and `clash` are history variables.  An entry is lost when its change was
forgotten: a client enabled the block meanwhile, or a report was made between its flag
and its copy.  A clash is one task using `nextToTransmit` while the other is sending.
The properties are claimed of everything else.

### Server

A turn (`pc`) is `Accept` / `AcceptNone` / `AcceptTooMany`, then one of the `Handle`
actions per slot, then `Periodic`.  The clients go on between any two of them.  Reading
never waits; a write does, until the network has taken everything, which in the model is
a step that is long in coming. `HandleIdle`, `HandleRequest` and `HandleEnd` contain
`IsoServer_OnewaitReady`, which destroys stopped connections on its way
(`Finalize(Stopped)`); `HandleStopped` is the other place that does.  The end of a
connection takes its reports and the first of its controls with it
(`mms_mapping.c:2331-2394`).  A request is one message that is read whole; that the
parts of one that is long are collected over several turns (`TPKT_WAITING`) is left out.
An error of the transport is counted before it ends the connection, but
`LIMITERRORCONNECT` is 0 (`stack_config.h:31`), so that the first one ends it and
`HandleEnd` needs no count.  `unheard` is a history variable for `HeardInTurn`.  `Close`
leaves a request that is under way to be read, `Abort` loses it.  A connection is known
by its socket, and a socket is used again for a later connection, as its memory is.

## 3. What is checked

| run | instance | shows |
|---|---|---|
| `master_safety` | two blocks of one size, symmetric; every answer: good, exception, corrupt, none; replies up to 3 ticks, later than the respond timer | `TypeOK`, `NoStuckTransmitter`, `ExecuteOnReply`, `OwnReplyOnly`, `NoCollision`, `GoodMeansFresh` |
| `master_live` | a relay that answers, or one that refuses or is silent; one unpaced write of its clock | `NoStuckTransmitter`, `AsksForever`, `LiveRelayRead`, `DeadRelayReported`, `TimeCommandEnds` |
| `poll_safety` | command 5 (journal reset), the time command, failures, a change of the settings, all kinds of address, SNTP on and off, with the daily reading of the clock | `TypeOK`, `PieceInBlock`, `ChangesTracked`, `ExecutedOnce`, `StartsConfigured` |
| `poll_live` | failures, one time command, one change | `ServerStarts` (again and again, after resets too); once failures end, `ChangesRead` and `AnalogPolled` |
| `sntp_sync` | two requests, a clock off by more and by less than a second, both ways, set once by the relay; losses, delays, reordering | `TypeOK`, `OnTheSecond`, `SyncAccurate` |
| `report_buffer` | a block of 9 words, reports of 2, 3 and 5, six of them, with general interrogations, lost connections, resynchronisation, purges | `TypeOK`, `EntriesApart`, `NextIsListed`, `NoSilentGap`, `KeepsQueue` (the refinement of `ReportQueue`) |
| `report_control` | two attributes, three changes, three times enabled or a report named, one general interrogation | `TypeOK`, `ChangeKept`, `PendingFirst`, `NothingSkipped`, `LastValueArrives` |
| `server_clients` | three sockets for two slots, two controls, one connection waiting | `TypeOK`, `CountersAgree`, `OwnerIsOpen`, `HeardInTurn`, `ClosedForAReason`, `RequestKept` |
| `command_asked` | bus without failures | finding 1 |
| `sntp_forward` | one request, one setting by the relay | finding 2 |
| `report_lock` | as `report_control` | finding 3 |
| `idle_closed` | as `server_clients`, one control | finding 4 |

For each property of a passing run there is a mutant in `PROJECT.json`, a
plausible bug in one definition, under which the run finds the property violated.
The mutants are the definitions whose comments call them so; no specification
uses them.

### Bounds, and why they are enough

* *Blocks.*  The master treats all blocks alike, except for their size; two
  blocks of the same size are what a stray reply can be mistaken for.  Block
  symmetry is used in `master_safety` only, which has no liveness property.
* *Ticks.*  One tick per request and per 3.5 characters, 2 or 3 for the respond
  timer (70 ms), 6 or 7 for the period, at most 1 between two iterations.  The instances
  satisfy `TimingAssumption`: a period leaves room for a transmission, the respond
  timer and the task's lag.  In `master_safety` a reply may take 3 ticks and so
  come after the timeout and after a restart, but within the period; the clock of the
  relay is left alone (see section 4 for both).  `master_live` uses 5 and 12.  The
  task has to get through reception and execution before the respond timer of the
  same exchange expires; with a margin of one lag it may meet the expiry at every
  exchange, and each time two events are in the word and both are dropped.  70 ms
  against milliseconds of processing leaves that margin.
* *Sizes.*  A piece is 3 registers instead of 124 (0x7C), the blocks 5 and 8
  instead of 257 and 469: two pieces and three, with a remainder of more than one
  register, as in the MR801.  `PieceInBlock` and `TypeOK` are proved for all sizes
  that satisfy `SizesAssumption`.
* *Commands.*  `MaxOper`, `MaxSets`, `MaxChanges` and `MaxDays` bound how often a
  client, the SNTP client, the relay's operator and the clock act.  One of each
  can hit every step of every iteration; the first reading of the settings, from a
  module just started, comes before the change.  `poll_safety` uses command 5, which
  clears the relay's journal, the flag by which a change is noticed; the switch
  commands 1 to 4 and 6 to 8, which the code treats alike, leave that flag alone.
  `PieceInBlock` and `ExecutedOnce` are proved for any set of commands.
* *Clock.*  A second is 5 ms and a `uint16_t` has 32 values: the strobe wraps, and the
  wait is computed, for every phase of the second and every correction modulo a second,
  and the errors include both sides of a second.  The proofs have both as constants,
  with 65536 > 2 * 1000 + 1 as their assumption.  Two requests (`MaxRequests`) are what a
  late answer needs to be taken for an answer to another request; `MaxNet` bounds the
  socket, `MaxTravel` the journey of a request, `MaxLag` what the scheduler adds to
  the wait, `MaxSets` how often the relay sets the clock.
* *Report buffer.*  Nine words hold three or four small reports, or one large and one
  or two small ones; six reports go round the block twice, through all four cases of
  `MakeRoom`.  Everything the run checks is proved for all sizes.
* *Report control.*  Two entries are what a report can confuse; three changes are one
  that is pending, a second of the same entry that pushes it out, and one of the other.
  Three times enabled or a report named are a client before, one after, and the report
  the second one names.  The buffer does not
  overflow, as its losses are `ReportBuffer`'s.
* *Server.*  Two slots instead of three, and a third socket for the client that finds
  them taken; a connection that waits is what the other two notice.  With two controls,
  one connection may have used both, of which only the first is set back when it goes, and
  a later connection has its socket.  The clients are alike, and the run uses that symmetry;
  it has no liveness property.

### Fairness, and why the code justifies it

* Weak fairness of the task, of the interrupt handlers, of time and of the end of
  what the relay does with a request: the scheduler and the NVIC see to the
  first two, a MODBUS slave to the last.
* Strong fairness of a request for a block (`LoopRequest`): in `MbMaster` the
  schedule is abstracted to a choice, and a turn that makes no request
  (`LoopSkip`) is followed by one that does.
* `LossesEnd`: the event word loses an event only if an interrupt hits the
  instructions between a load and a store.  The liveness properties of the master
  assume that this does not happen for ever.
* `PollTask`: strong fairness of a paced turn (the period always ends), of a
  request getting on the line and of a reply, which the model offers at every
  poll together with the alternatives; and of the end of an exchange the relay did
  not hear, which is the respond timer.  `ServerStarts`, that the server runs
  again and again, needs no more: any exchange may fail any number of times.
  `ChangesRead` and `AnalogPolled` assume
  `FailuresEnd`: a block that the relay always refuses keeps the schedule at that
  block, as the code has no way to skip it.
* `ReportControl`: weak fairness of the poll task, of the clock that ends the buffer
  time, and of the server's turns.  That a send returns, delivered or not, is an
  assumption on the client and the network: `Socket_write` has no timeout (see `Server`).
  A client that never enables the block is owed nothing.
* `Server`: none.  Reading never waits, as the sockets are looked at with a timeout of 0,
  and accepting waits at most for its receive timeout (`socket_STM.c:470`, `:529`).  But
  `Socket_write` repeats a send that blocks and has no timeout (`socket_STM.c:303-309`): a
  client that stays connected and takes nothing of what is written to it holds the server,
  and with it all the others.  That a turn ends is therefore a matter of the clients and the
  network, and what is claimed is what a turn does: `HeardInTurn`.

### Findings

1. `command_asked`: a command that arrives after its comparison is wiped without
   having been asked of the relay (`freertos.c:721`).
2. `sntp_forward`: a positive correction is there to move a clock forward that is
   behind (`sntpclient.c:245`).  It is applied after a wait; when the poll task sets
   the clock from the relay in between, a clock that is not behind is moved forward,
   and stays wrong for a period.
3. `report_lock`: `enqueueReport` asserts that every entry it includes has a buffered
   value (`reporting.c:1736`), and the lock of the data model is documented to hold
   off clients (`iec61850_server.h:309`).  The lock is compiled away, and the server
   may make a report between the flag of a change and the copy of its value: the
   report has the value NULL or an old one.
4. `idle_closed`: a read that finds nothing can be tried again (`socket_STM.c:274`), but
   a connection that waits in the listening socket makes an idle one count as ready
   (`iso_server.c:863`), and the read that finds nothing is taken for its end
   (`cotp.c:655`): a client that is there loses its connection when another connects.

Other places where the code does not do what it says are in the models as they are, and
excepted by name in the properties: the receiver that is not idle when a transmission ends
(`mbrtu_m.c:296` asserts that it is), the echo of a write awaited with the size of the
last read (`modbus.c:546`), a re-reading of the settings that is cut short by the daily
reading of the clock (`freertos.c:628`, `torn`), which also starts the server though the
configuration was not read (`:716`, `DailyReading`; that takes a relay that does not answer
one of the blocks for a day), or never begun (`freertos.c:720`,
`dropped`), the severed list and the two exceptions of `ReportQueue`, the lost changes and
the clashes of `ReportControl`.  A server whose slots are all taken resets the module
when a client leaves and comes back before its old connection was destroyed
(`iso_server.c:453-458`, `AcceptTooMany`).

## 4. What is proved

TLAPS checks these for every value of the constants, from the named assumptions
of the modules (`NamesAssumption`, `TimingAssumption`, `DataAssumption`;
`SizesAssumption`, `OperAssumption`; `ClockAssumption`, `BoundsAssumption`;
`MemoryAssumption`; `ControlAssumption`; `ServerAssumption`), which TLC evaluates in every
run.

* `MbMaster_proofs!TypeCorrect`, `SenderNeverStuck`.  `NoStuckTransmitter` is not
  inductive: the restart of the receiver and the transmit complete handler pass
  the obligation to end the sender's state from one to the other.  The invariant
  adds `SlaveBusy` (a relay that is about to answer answers a request) and
  `SenderWaits` (a sender that waits for the answer has nothing on the line, and
  its transmit interrupt is past the point where the timer is started; the line
  is free while that interrupt runs).
* `MbExchange_proofs!ExecutesReplies`, `AnswersMatch`, `NeverTalksOver`, `GoodIsFresh`: the
  other four properties of `master_safety`.  They rest on how the timers of the master, the
  relay and the interrupts follow each other, so the invariant `Exchange` says where each of
  them may be for every state of the others.  It has three parts.
  `Control` holds always: `FRAME_SENT` goes from the request function to its handler in one
  iteration of the task, with no other event beside it when it is handled (`RequestWay`); the
  request, the relay's work and the reply end by deadlines counted from that iteration
  (`Clock`); a timeout alone in the event word was posted with the receive DMA stopped
  (`LateTimeouts`).
  `Clean` holds unless `cut`: one thing at a time is on the line and belongs to the request
  in the send buffer (`OneOnLine`, `OneRequest`); a request goes out on a quiet line, because
  its turn comes after the answer, or after the deadline of the one before (`QuietRequest`);
  a good frame announced alone is the answer to the request in the buffer (`Replies`), and
  from its check to the next request nothing else comes (`Execution`).  A request sent on a
  quiet line after a cut establishes `Clean` anew (`Restored`), which is why the circumstance
  ends.
  `Stale` holds from a reported timeout to the next good reply, cut or not: no good reply is
  between its check and the flag it sets, and a frame of before the timeout is only announced
  together with another event, which makes `xMBMasterPortEventGet` drop both (`OldFrame`).
  `Owners` names the one action that stores a reply, reports the quality, starts to send,
  ends a cut or forgets the last good reply.

  The theorems have two hypotheses, which the instance of `master_safety` satisfies, and both
  are needed.  `PromptRelay`: the answer, counted from the iteration that makes the request,
  ends within the period (`MB_PerForReadMODBUS`, 100 ms).  It may well come after the respond
  timer (70 ms); when it may also come after the next request TLC finds all four properties
  violated, the answer being taken for the next one's.  `ClockLeftAlone`: the SNTP client is
  off.  Its time command is written whatever the pace: with one such write TLC finds
  `NoCollision` violated, and, where blocks have a single register, `ExecuteOnReply` and
  `GoodMeansFresh`, since the eight bytes of the echo complete a reception armed for the seven
  of the last read and are copied over a frame not yet executed.  `OwnReplyOnly` it finds to
  hold on the instance of `master_safety` with one time command; that is not proved.
* `PollTask_proofs!TypeCorrect`, `PiecesFit`.  The argument is about integer
  division: the piece that starts at `n * b` ends within the block, the last one
  because it has the remainder for its size (`PieceFits`), and no piece is asked
  for with a size of zero.  The invariant adds `ReadAsked`: while a block is asked
  for, the schedule is not at its end, so that the reply that moves it on keeps
  it within its range.
* `PollTask_proofs!NeverTwice`.  `ExecutedOnce` is proved by counting: a command
  is, for each time it was given, executed, or waiting in the mailbox to be
  compared with (`Waiting`), or posted (`Posted`), and `Balance` says that the
  three together never exceed the number given.  A comparison hands a command
  from the second to the third, and the mailbox is wiped before the next turn.
* `PollTask_proofs!ChangesNotForgotten`, `StartIsConfigured`.  `ChangesTracked` allows
  any schedule that is somewhere in the configuration; what is true, and inductive, is
  that everything that changed is ahead of it, to the register (`Ahead`).  A reply keeps
  that only if it is for the block and piece the schedule is at (`InStep`) and pieces
  follow each other without a hole (`FullSize`); command 9 keeps it when it clears the
  journal's flag, since by then the schedule was sent back to block 10 (`SentBack`).
  At the end of the schedule nothing is ahead, so nothing has changed.  `StartsConfigured`
  says that of the start, unless the address or the relay's type decides (`Decided`) or the
  daily reading is just being made (`DailyReading`).  Nothing else is excused:
  before the start nobody uses the mailbox, and the schedule was not cut short (`Unused`),
  since the daily reading that cuts it short starts the server in the same step.
* `SntpClient_proofs!TypeCorrect`, `StrikesTheSecond`, `Accurate`.  The lemma
  `DelayStrobes` is the arithmetic: in every branch, and in the millisecond where the
  strobe wraps, the computed wait fits into its `uint16_t`, and clock, wait and
  correction add up to one millisecond past a second.  The invariant carries this
  sum through the wait (`Waits`: a millisecond takes one from the wait and adds one to
  the clock; once the wait is over it goes into the lag), and `Fits` relates a
  correction, under way or waiting, to the clock it was meant for: current messages
  agree with `err` up to the journey.  That the setting cuts off exactly the lag and
  the strobe, and so moves the clock by no more, follows.
* `ReportBuffer_proofs!TypeCorrect`, `ReportsStayApart`, `NextStaysListed`,
  `NoGapIsSilent`, `BufferKeepsQueue`: everything that `report_buffer` checks.  None of
  it is inductive.  What makes room work is that the addresses, taken in the order of
  the numbers, go round the block once: of any three reports, the second comes before
  the third when one walks up from the first and wraps at the end (`Cyclic`).  `Layout`
  says that of the list, with the reports in the block, apart and of distinct numbers;
  `Sound` adds the pointer and the numbers given out.  `RoomIsMade` takes the four cases of
  the code: each removes a beginning of the list (`Dropped`), and what stays is clear of the place of the new
  report (`Clear`), because what is in the way of an address that is covered comes
  before all that is not.  `Enqueued` puts the new report behind.  For `NoSilentGap` the
  invariant has `NoHoles` (every number given out after a report on the list is on the
  list or was withdrawn) and `Told` (unless the client will see
  the flag, or is excused, everything after what it has seen is still to be transmitted
  or was withdrawn).  The refinement follows step by step: the beginning that was
  dropped is the old end that `Enqueue` loses, and the flag is set because the pointer
  was in it.
* `ReportControl_proofs!TypeCorrect`, `PendingGoesFirst`, `AllAreSent`,
  `ChangesAreKept`: every safety property of the component.  `AllAreSent` is about
  `nextToTransmit` alone; a client that names a report sets it where everything before has
  been sent or is had.  The others are about two tasks that
  step through the same block, and the invariant says what each of them may count on:
  `Pends` that the poll task made a pending change due before it processes it, and that
  the entry is no longer pending when its flag is set; `Sends` that a task that sends has
  the report at `nextToTransmit` and is alone, unless the clash is on record; `Copied`
  that a pending entry's buffered value is its value, except while the poll task has
  changed one and not yet the other; and `Noted`, which is `ChangeKept` with what it
  leaves open of the entry that is being noted.  The lemma `LastWithAppend` takes it
  through a new report.
* `Server_proofs!TypeCorrect`, `CounterAgrees`, `OwnerStaysOpen`, `StoppedForAReason`,
  `RequestStays`, `AllAreHeard`: every safety property of the component.  `connectionCounter` is
  compared with the
  number of slots but says nothing of where the free slot is; `Places` says that a
  socket waits to be accepted or has one slot, never both, and that the counter is the
  number of the slots taken, so that a counter below the limit means a free slot
  (`SlotForOneMore`).  `OwnerThere` is kept because `Destroy` clears what refers to the
  connection (`DestroyKeeps`), and `Waiting` because a command waits only between its
  request and the end of the same turn, whose destroying of connections comes first for
  the slots not yet looked at.  `RequestStays` goes through the actions: only connections that
  were stopped, or the one that is read, give up a request, and a connection that is accepted
  runs, so that its request goes on waiting.  For `AllAreHeard`
  the invariant `Expected` puts the connection of everyone who is still to be looked at into
  a slot that the turn has not come to.

Only model-checked: the liveness properties, as fairness and ENABLED are out of the
prover's reach.  Every safety property of a passing run is stated by a theorem.

## 5. What is not modelled

* The contents of frames, registers and attributes, and their formatting.
* The other relays' versions of the poll task and the reply handlers: the
  preprocessor leaves them out of this build.
* Of the server task: setting up lwIP and the RAM disk, and the branch in which the
  server does not start.  The allocator, which nothing calls.
* Of the reports: unbuffered blocks, reservation, the configuration of a block and the
  encoding; what follows the severed list; the poll task's `enqueueReport` cut into
  steps.  Of the connections: the protocol layers (a request is one message, read whole), select
  before operate and time activated controls, the ports for HTTP and SSH.
* Of the SNTP client: the conversion between milliseconds and the calendar of the
  clock, the drift of the clock that the calibration is to make up for, an empty
  datagram, and its liveness.  Setting up the socket is device set-up.
* Device I/O (SPI flash, internal flash, clocks, UART set-up, Ethernet driver),
  pages of the HTTP server, and the tasks the build does not create (IEC 104,
  HTTP, console).
* Most of the lines of the repository: the static data models of the relays (data, one
  `static_model_*.c` per relay), the header files of the microcontroller, the pages of
  the HTTP server, and libIEC61850's encoders and decoders are two hundred thousand
  lines without a state or an order of steps that a model could be wrong about.
* Other third-party code.  What the model needs of HAL and of the relay is marked
  external in the map.
* Steps whose outcome lies behind this abstraction: the time is written with
  `MB_NumbDate*2` registers from a buffer of `MB_NumbDate` (freertos.c:565), the branch
  of block 28 reads `eRegStatus` unset (mbfuncholding_m.c:1487), frames having no
  registers here; a report larger than the whole buffer is skipped (reporting.c:1746)
  and one larger than the sender's memory stays first (reporting.c:2048), sizes here
  being far smaller; the ports for HTTP and SSH are used unchecked (iso_server.c:363).

## 6. Plan

1. `MbMaster`, `PollTask`, `SntpClient`, `ReportBuffer` with `ReportQueue`,
   `ReportControl`, `Server`: done.
2. `Bus`, an abstract specification of what the master promises the poll
   task (one exchange at a time, answered from its own reply, ended by a timeout
   at the latest), refined by `MbMaster` outside the `cut` circumstance and used
   by `PollTask` in place of its own `bus`.
3. `SettingGroups`: switching the setting group while the settings are read, and
   what a client sees of it.
4. `RtcCalendar`: the conversion between seconds and the calendar of the clock, as
   recursive functions against a reference definition; the SNTP client's liveness (a
   request answered in time ends in a corrected clock).
5. Proofs: every safety property has its theorem.  What is left is `OwnReplyOnly` with
   time commands (`ClockLeftAlone` dropped from `AnswersMatch`), whose invariant has to follow
   a write that is refused, dropped or answered late through the exchange it interrupts; and
   the refinement of `Bus`, once it is stated.
