# Sign group controller: TLA+ verification project

The repository is the firmware of a controller for electronic road signs. A
master speaks TSI-SP-003 to it over a serial port or TCP, a technician uses a web
page; the controller stores frames, messages and plans, decides for every *group*
of signs what is on display, and drives the LED slaves of the group over RS-485.
It is one process with one thread: an epoll loop that calls a handler per event
(10 ms timers, serial ports, sockets, inputs). **One handler is one action of the
models.** An exception nobody catches ends the process, which is started again
and reads its saved state (`Uci*` files); the restart actions of the models are
that, between any two steps, and where a handler writes several files or options
also in the middle of it.

## 1. Inventory

Paths are under `src/src/`, headers under `src/include/`.

| Component | State | Operations | Hard behaviour | Correct when | Module |
|---|---|---|---|---|---|
| Group power supervision (`sign/Group.cpp`: `PowerFunc`, `FcltSwitchFunc`, `SetPower`) | three `PWR_STATE`s, power-up timer, debounced switch and mains, saved power | 100 ms tick, power command, mains edges, reset | order of three sources around one delay; crash | never hangs between on and off, the switch in OFF wins, the command survives | `GroupPower` |
| Group display scheduler (`Group.cpp`: `NormalMode`, `LoadDsNext`, `DispBackup`, `DispNext`, `Disp*`) | `dsBak/dsCurrent/dsNext/dsExt`, `readyToLoad`, input timer, fatal error edge | display commands, inputs, switch, device commands, resets, tasks | interruptions that interrupt interruptions | no accepted request lost, priorities kept, what waits is loaded | `GroupDisplay` |
| Group tasks and slave transactions (`TaskFrm/SetATF/Msg/RqstSlave`, `sign/Slave.cpp`) | coroutine lines, entry counters, overlay buffer, request timers, per-slave expected and reported frame | send, poll, reply, time-out, resend | lost and late replies, slaves that reset; frames laid over each other | what is reported as displayed is displayed; the command is reached; a silent slave is told | `GroupTasks` |
| Dimming (`TaskAdjustDimming`, `SetDimming`) | current and target level, brightness sent, step of the move, saved level | command, sensor, step, poll, power cut | a new target or a power cut in the middle of a move | no flash, the target is reached | `Dimming` |
| Plan table (`EnablePlan`, `DisablePlan`, `LoadPlanToPlnMin`, `tsisp003/Plan.cpp`, `uci/UciPln.cpp`) | stored plans, enabled plans, a cell per minute of the week | set, enable, disable, reset, restart | wrap at midnight and at the end of the week; change of an enabled plan | a minute belongs to exactly the enabled plan that covers it | `PlanTable` |
| Controller timers and inputs (`sign/Controller.cpp`) | display and session time-out, mains, battery, temperature, inputs, restart/reboot flags | `PeriodicRun`, commands | cached edges; one timer for many sessions | see the modules that use them | parts in `GroupPower`, `GroupDisplay`, `NtsSession`, `Maintenance` |
| Session layer (`layer/LayerNTS.cpp`) and login (`tsisp003/TsiSp003App.cpp`) | per connection: session, `_ns`, `_nr`, timer, seed; shared: controller timer, LED, `isOnline` | packets, accept, release, time-outs | lost packets and replies, several masters | at-least-once and in order; only idle sessions dropped | `NtsSession`, `NtsLink`, `AtLeastOnce` |
| Application layer (`TsiSp003AppVer*.cpp`) | none of its own | parsing of commands | lengths and formats | a conversion: its effect is the input of the modules above | login only |
| Vendor commands (`UserDefinedCmd.cpp`) and upgrade (`Upgrade.cpp`) | shake-hands, packet bitmap, upload file | settings, file information, packet, start, restart | packets lost, out of order, two uploaders of one file | only a whole package is unpacked | `Upgrade`, `Maintenance` |
| Configuration (`uci/UciUserCfg.cpp`, `UciCfg.cpp`, `UciNetwork.cpp`, `UciHardware.cpp`) | options in memory, in the file, staged network settings | load with ranges, setters, factory default, commit, import | ranges in four places; a power cut between two options | an accepted setting starts; memory is the file | `UserCfg`, `Maintenance` |
| Web interface (`websocket/WsServer.cpp`) | | JSON commands | same state as the vendor commands | as there | settings, network, import, upgrade, reboot in `Maintenance` |
| Frame, message and plan store (`uci/UciFrm.cpp`, ...) | stored frames, messages, plans | set, load, erase | erased while on display | a task never asks for an erased frame | stored-or-not in `GroupDisplay`; plans in `PlanTable` |
| Persistent state (`uci/UciProcess.cpp`) | power, display, device, dimming, enabled plans, sign errors | saved at each command | crash between two files | restart finds the last command | in each module |
| Signs and device errors (`sign/Sign.cpp`, `DeviceError.cpp`, `module/Debounce.h`) | a debouncer per fault, error bits, luminance, off-line slaves | two kinds of refresh, judge, reset | faults that mask each other, latched and cleared by different handlers | error bits agree with the faults | `SignFaults` |
| Logs (`uci/UciFault.cpp`, `UciAlarm`, `UciEvent`) | ring of entries, 16-bit entry number | push, reset, load | restart, wrap | newest entry found again | `RingLog` (faults) |
| TCP server and pool (`module/TcpServer.cpp`, `OprTcp.cpp`, `ObjectPool.h`, `Epoll.cpp`, `TimerEvent.cpp`) | free slots, epoll set, idle timers | accept, release, idle | edge-triggered accept, slot reuse inside one batch of events | no slot used twice, none lost | `Transport` |
| Stream operators (`module/IOperator.cpp`, `OprSp.cpp`, `RingBuf`) | output buffer and ring | send, writable event, reopen | partial writes, full ring | | in `Transport`, above the bytes |
| Slave line layers (`layer/LayerSlv.cpp`, `SLV_LayerManager.cpp`) | frame buffer | receive, send | | | lost transmissions of `GroupTasks` |
| Facility switch, digital inputs (`module/FacilitySwitch.cpp`, `gpio/*`) | debounced position | 100 ms tick | never read before the first tick | | `GroupPower` |
| Rendering, clock, console, third-party code | | | files, pixels, I/O | | not modelled |

Interactions: `LayerNTS -> App -> Controller -> Group -> Slave` are direct calls
inside one handler. Back upward there are only shared variables: the error bits
(`ctrllerError`, read by `PowerFunc`; `signErr`, read by the status replies), the
session list (`LayerNTS::storage`, read by the controller's timer), the stores, and
the saved state.

`PROJECT.json` lists the hazards at their lines, each with the properties that
cover it or a note saying why none does.

## 2. How the modules build on each other

    GroupPower <- GroupDisplay <- MCGroupDisplay     power, and the slots it writes
               <- Dimming      <- MCDimming          power, and the task it interrupts
    GroupTasks <- MCGroupTasks                       below GroupDisplay: one group's bus
    DisplayRound                                     implemented by GroupDisplay and GroupTasks
    PlanTable  <- MCPlanTable
    NtsSession <- Transport                          sessions over sockets and a pool
               <- NtsLink, which implements AtLeastOnce
    UserCfg, Upgrade <- Maintenance <- MCMaintenance
    RingLog    <- SignFaults <- MCSignFaults

(`A <- B`: B EXTENDS A.) The modules were written in the order of the list, by how
much of the controller's purpose depends on them. `GroupDisplay` and `GroupTasks`
both contain `TaskMsg`, one as the scheduler sees it and one as the slaves see it.
`DisplayRound` is what they share, and each is shown to implement it (`KeepsRound`,
`PlaysRounds`, both also proved): `readyToLoad`, whether the group is enabled, and
where the message is in its round change together in no other way. The strong
fairness of `MsgEnds` is what `MessageLetsGo` shows of the task itself; `Load` of
`GroupTasks` offers any command that `LoadDsNext` could take.

What would come next: a composition of `GroupDisplay` and `GroupTasks` in which
`Load` takes what `LoadDsNext` finds; the display time-out; the byte streams of
`IOperator`.

## 3. The modules

Names follow the source (`dsNext` is `ds.next`, `PowerFunc` is split into
`MainPwr`, `PowerUpStart`, `PowerUpDone`, and so on; `map` gives the lines).
Operators named `Op_Bug` are *mutants*: `Op` as a plausible bug would have it.
No specification uses them; section 7 says which property each breaks. Every
module states one type invariant; the runs check deeper properties instead, and
where one follows from the types it is proved (section 5).

**`GroupPower`.** `Tick100Power` is the 100 ms part of `Group::PeriodicRun`
(`FcltSwitchFunc`, then `PowerFunc`) as one action, since nothing runs between
the two. `CmdPowerOnOff`, `PowerMonitor` (the debounced mains edge),
`ClearCtrllerError` (the part of a level-2 reset that matters here),
`PwrUpExpires` (the delay is over) and `PowerRestart` are the others. The delay
is a three-valued timer, not a number.

**`GroupDisplay`** composes the display scheduler with `GroupPower`, because
power-up and the switch write the slots. `Tick100Display` is the whole 100 ms
tick, both parts. Every alternative of `NormalMode` starts with the common part
(`Schedule`: edges of the fatal error, `LoadDsNext`, device enable) and ends in
what the task found does: a message starts, ends or is sent again
(`MsgStarts/MsgEnds/MsgResends`), falls back to the plan, nothing
(`NormalWait`), or an erased frame is asked for (`FrameThrows`). `MsgStarts` is any
entry of a message: each closes `readyToLoad` of an enabled group, also one that
power-up opened in the middle of the round (`Group.cpp:604`). Slaves, and
which plan entry the clock finds, are nondeterministic. `wanted` (the last accepted
request), and `thrown` are history variables.

**`GroupTasks`.** The value of `task` is the protothread's line: a task that has
sent something ends its call there, because the half-duplex bus is locked until
the answer's time is over. `FrmSet ... FrmSync` are `TaskFrm`, `Atf*` is
`GroupIslus::TaskSetATF`, `Msg*` is `TaskMsg` with its overlay buffer, its retries
and its transition, `Null*` the message 0, `Rqst*` is `TaskRqstSlave` with `Judged`
for what it makes of an answer or of silence. `SetFrame` and `SDFrame` change what
the controller expects (`exp`: ids and CRCs) and what the slaves that hear it hold
(`dev`); a CRC is the content it stands for. The environment loses any
transmission to any set of slaves, answers late, resets or kills a slave, cycles
the power, loads another command or disables the group. A slave is external: it
is what `Slave.cpp` expects of one.

**`DisplayRound`** is the agreement of the two: `Waits`, `Starts` and `Ends` are a
turn in which the message goes on, begins an entry or is over; `Finds` says that the
group may be opened meanwhile and is enabled or disabled only at the begin of a
task. `GroupTasks` reads the round off the task's line and counters (`RoundNow`).

**`Dimming`.** `DimBegin ... DimDone` are the lines of `TaskAdjustDimming`, which runs
only while `IsPowerOn` and goes on from its line after a power cut. `Value` has
the integer division of the code, `Arrived` its way of counting the level,
`LuxLevel` the average of the working sensors. `DimRestart` reads the saved
command back with the flag 0x80 (`boot`).

**`PlanTable`.** `SignSetPlan`, `EnDisAll`, `EnablePlan`, `DisablePlan`, the
resets, `TaskPln` at any minute (the master sets the clock), `OtherShown`
(another task takes `onDispPlnId`) and `Restart`. A plan's entries are walked in
the code's order, the later one wins.

**`NtsSession`.** Per connection `nts` (session, `_ns`, `_nr`), its timer, and
what became of the connection; shared the controller's timer, `commError`,
`isOnline` and the LED. Every packet is one action with the whole of
`LayerNTS::Rx`, the handler and `Tx` in it: `StartSession`, `Password`,
`EndSession`, `Answered` (any other command), `AnsweredTwice` (FAF2 with a wrong
password sends Reject and then Ack, which take two numbers), `Unanswered`, `BadLength`. A pool slot
that never had a connection holds any session value, since `LayerNTS` does not
initialise it. `Release` does not touch the session, as in the code.

**`Transport`** puts those sessions on the serial port and on pool slots. `Wait`
is `epoll_wait`: it takes every event that is ready into `batch`; `Handle` takes
one of them, in any order, and sees what the ones before it did, also when the slot
it names was released or already has a new peer. `Listen` accepts one connection
per edge, `TimerRun` closes the slots whose idle timer is over, `Disconnected` the
one whose peer hung up, `TxFails` the one whose reply cannot be kept. A peer that
vanishes without closing does nothing, which is no step.

**`NtsLink`** adds one master and a line. The master is not in the repository; it
is what the sequence numbers are made for: one command outstanding, repeated
with the same numbers until its reply comes. The line loses any packet or reply
and garbles packets (`RxNak`), but keeps order and length, and a master that gave
up waits for the line to be quiet before it logs in again. Without that last
assumption a late StartSession can reset a session under a new login.

**`AtLeastOnce`** is what the master may rely on; `NtsLink` implements it with
`confirmed <- job - 1` (property `KeepsPromise`).

**`UserCfg`.** A configuration is a function from option to value. `Suits` has the
range `LoadConfig` wants of each option, `Refused` the options of a file it throws
at; `SaveAll` is a handler that saves its
options in order to the end, `SaveSome` one that the power cut off. `ReadBack` is
the conversion that is not the identity: minutes 08 and 09 are read as octal.

**`Upgrade`.** File information, packets and start, with `rcvd` uninitialised as
`new uint8_t[]` leaves it, and the web user's upload into the same file. Unpacking
is external and succeeds only on a whole package (gzip and md5sum).

**`Maintenance`** composes both with the shake-hands, the network settings
(`staged` is what a `uci set` without its commit leaves) and the restarts. Each
vendor command and each web command has its own range checks and its own order of
saving. `CmdSystemReset255` is the part of a level-255 system reset that loads the
factory default; unlike the web user's it asks for no restart. A process that ends in
an uncaught exception during the 5 s of `rr` is not modelled here: it would lose the
flag. `Boot` is a start: it runs only when `LoadConfig` throws nothing.

**`RingLog`** is `UciFault`: the ring in memory, the file as a sequence of options
(an option written again moves to the end of its section, as libuci does), and
the loading that rests on it. `Push` is one entry into memory and file, `At` the
entry some places behind the newest.

**`SignFaults`.** `StRound` and `ExtRound` are the two refreshes of a sign, `Judge`
is what `TaskRqstSlave` finds of a slave, `SystemReset` and `ResetLog` the resets.
Troubles are what the slaves report; `Checked` is the debouncer. `PushAll` writes the
log (`Pushed`, one entry after the other), then the bits. `CrashInStRound`,
`CrashInExtRound` and `CrashInJudge` are a crash between the two, `CrashInReset` one
between the saved bits of a reset and its emptying the log. A start logs the watchdog's
reset twice, or once when the clock chip does not tell when the controller was last
alive (`ResetTimeLogged`). `torn` (history) names the bits whose log entry does not tell
them, by a reset or by such a crash.

## 4. The runs

| Run | Instance | What it shows |
|---|---|---|
| `group_dimming` | one sign, three levels in two steps, a sensor that reads two values, fails or was never read | the power supervision never hangs and comes up; brightness is that of the level, moves without a flash and reaches the target; power cuts and restarts anywhere |
| `group_display` | a frame and a message, no inputs; fatal errors; the switch; resets that erase | fatal means blank, no accepted request is lost, no erased frame is asked for, rounds are those of `DisplayRound` |
| `group_display_ext` | an emergency input, a message, an atomic frame, restarts that load the last display, mains that fail | the switch is over the master and its position current, under interruptions by an input |
| `group_display_live` | a frame that resets erase, an input, fatal errors, device commands | every waiting request is loaded, also after an erased frame ended the process, and every input that was let in is shown, however many commands come |
| `group_tasks` | two slaves, seven commands (frame, blank, atomic, undefined, two messages with overlays, one that only its time ends), one fault, one change of command | what is reported is shown, the command is reached, a silent slave is reported, a message plays the rounds of `DisplayRound` and lets the next command load |
| `plan_table` | two groups, two ids, seven plans, two days of four minutes | the table is exactly the calendar of the enabled plans |
| `transport` | serial port and a pool of one slot, numbers 0..1, time-outs 0 and 2, idle time-out 1 | sessions are supervised and shown, only idle ones dropped, pool and event loop agree, silence ends every session and connection |
| `nts_link` | one session, 5 commands, 3 packets each way, numbers 0..2 | at least once and in order; no repetition refused |
| `maintenance` | twelve requests that change options, an import, two network settings, two file sizes, two packet numbers | what a start refuses, that memory is the file, that a network change reboots, that only whole packages are unpacked |
| `maintenance_starts` (violation) | same, with the ten standard and three extended baud rates of the code; the web user saves 230400 | the finding of section 6 |
| `sign_faults` | two slaves, a log of three entries, numbers 0..3, one trouble at a time of six (LEDs, light sensor, silence, CRC error, self-test, temperature) | the log tells the bits and goes on over restarts; off-line slaves are told |
| `sign_faults_live` | one slave, a log of one entry, troubles that mask each other | the bits are the debounced faults; what lasts is told |

**Bounds.** Ids are small sets because the scheduler only compares types and
equality. The display runs split what can happen together: an input or not,
a fatal error or not; the pairs that interrupt each other (input with switch,
switch with fatal error, input with fatal error) each have a run.
`CommandedOn`, a state constraint of `MCGroupDisplay`, keeps the power command and
the group's enabling on and stops behind a mains failure in the run with an input;
`group_display` has them free. In
`group_tasks` one fault (a lost transmission, a late answer, a reset, a dead slave or
a power cycle) meets one change of command at any line; two slaves are what lets one
be right and the other not; the messages have an overlay in the middle (so that its
first entry is set a second time in the second round), an overlay first, a last
entry that stays, one that is short, and an end with and without a transition. A week of two days has the wrap at midnight,
the wrap at the week's end and a day that neither touches; four minutes allow entries
that are disjoint, meet, overlap and contain each other. `SeqMax = 2` wraps within a
session of `nts_link` (five commands use 0 1 2 1 2), and three packets on the line
allow the first, its repetition and the next one. In `transport` one slot is reused
again and again by pending connections, which is where an event can meet the
wrong peer; `Backlog = 1`. Two time-out values make one timer outlive another, 0 is
the time-out switched off. `OneAtATime` (state constraint of `MCMaintenance`) lets
options, network and upload change in turn: they share only the restart flag. A
request of `MCMaintenance` changes few options: one it should, one at the edge of a
range, one only `LoadConfig` refuses. In `Dimming` two steps are the first and the
last of the code's sixteen, and 3 levels a middle one. In `SignFaults` a debouncing
count of 2 is one check more than none; the log of three wraps, its numbers too.

**Deadlock** is checked in all runs but `nts_link`, which ends when all commands
are confirmed and the line is empty.

**Fairness.** The 10 ms timer event of the epoll loop fires for ever and time
passes; that is all the code justifies, and no command, packet, input, fault,
switch position or crash is fair.

- `DimSpec`: weak fairness of the dimming task's next line, of a poll, of the 100 ms
  tick and of the end of the power-up delay.
- `LiveSpec`: the same for `NormalMode`, the tick and the input's display time;
  `MsgStarts` weakly and `MsgEnds` strongly fair: a slave may make a round start again
  (`MsgResends`), but does not at every round for ever. Requests, inputs and faults are
  not fair in it, and may come without end: `RequestIsLoaded` and `InputIsShown` hold all
  the same.
- `GroupTasks`: weak fairness of the polls and of the no-reply timers; strong
  fairness of the task's own steps, because a step waits for a condition and for a
  timer no longer than a poll: the condition comes back when the answer does.
- `TransportFairSpec`: `TransportTick`, `Wait`, `Handle`, `PeriodicRun`.
- `FaultSpec`: both refreshes and the judgement of each slave, which polling repeats.

`ComesUp`, `SilentIsDropped`, `SilentIsReleased`, `LastingIsTold`, `ReachesTarget`,
`ShowsCommand` and `MessageLetsGo` are conditional on the environment's standing
still from some point on.

## 5. What is proved

TLAPS proves these for every value of the constants that the named `ASSUME`s
allow (`DisplayConstants`, `DimmingConstants`, `PlanConstants`, `SessionConstants`,
`TaskConstants`, `TransportConstants`, `LinkConstants`, `MaintConstants`,
`SignFaultsConstants`);
TLC evaluates those in the runs above.

| Module | Theorems | Inductive invariant, and why it is needed |
|---|---|---|
| `GroupProofs` (power) | `PowerTypeCorrect`, `PowerNeverWedged`, `PowerCommandSurvives`, `PowerSwitchOff` | `PowerInv` adds `UnreadSwitch` (beside a switch that was never read no other source has finished its power-up: `PowerFunc` takes all three to ON in one step) and `OffSwitch` (a switch in OFF has its source at OFF) |
| `GroupProofs` (display) | `DisplayTypeCorrect`, `DisplayFatalShowsBlank`, `DisplayKeepsRound`; under `Quiet`: `DisplayNeverThrows`, `DisplaySwitchOverrides`, `DisplaySwitchMsgIsCurrent`; under `Quiet` and `OneInput`: `DisplayLastRequestKept` | `FatalInv` for the fatal error. The others rest on `SlotInv` (where an input may sit, that what is on display is resolved to the plan) and on `ScheduleKeeps`: a run of the schedule keeps the request `Held`, in `dsNext`, covered in `dsBak` or on display. `KeptInv` says that it is the last accepted one, `ErasedInv` that it is no frame a reset erased, `SwitchInv` that it suits the switch while the group is on. `DisplayKeepsRound` needs only the types: each step is a turn of `DisplayRound` or a stutter |
| `GroupProofs` (dimming) | `DimmingIsLevel`, `DimmingNeverFlashes`, under `RisingTable` | `BrightInv` gives the brightness as the exact value of the step inside a move, as the level's at rest, and unset before the first; the lemmas are about the integer division of `Value` |
| `GroupTasksProofs` | `TasksTypeCorrect`, `TasksReportedIsShown`, `TasksReportedAlwaysShown`, `TasksPlayRounds` | an answer that agrees with the expectation is worth what the expectation is worth, so `IInv` follows it line by line: `FrmInv` and `SlotsInv` say what each line has set in which slot, `CountInv` how `msg.set` stands to the entry on display in each round and what `orBuf` holds, `ShowInv` that only a slot set for this command is told to be shown and that no answer of before a send is taken for one of after, `AirInv` the same of a late answer. The lemma `EntryReady` is the heart: an entry that is shown again without being set again, past `SetMax`, has no overlay behind it. `TasksPlayRounds` takes from `CountInv` where `MsgFirstSet` enters the loop |
| `PlanTableProofs` | `PlanTableExact`, `PlanActiveIsEnabled`, `PlanTableIsCalendar`, `PlanRestartKeepsTable` | `TableInv` adds that enabled plans are defined, `CellsInv` what a cell may hold; the lemmas say which minutes `LoadPlan`, `UnloadPlan` and `LoadAll` write, and the last of the visits that reach a cell exists by the finite order of visits |
| `NtsSessionProofs` | `SessionTypeCorrect`, `SessionSupervised`, `SessionCommError`, `SessionShown`, `SessionOnlyIdleDropped` | `SessionInv` adds that no timer exceeds the unchanged time-out, without which a refreshed controller timer could fall behind another session's |
| `TransportProofs` | `TransportPool`, `TransportSupervised`, `TransportShown`, `TransportCommError`, `TransportIdleOutlives`, `TransportOnlyIdleDropped` | the session invariant again, now with several connections closed at once and the serial port opened again; `PoolIsSound` is inductive by lemmas on sequences without repetition; `ListenIsPending` (a waiting connection has its edge or its event in the batch) and `IdleIsLast` (an idle timer is never behind its session's) are the strengthening |
| `NtsLinkProofs` | `LinkTypeCorrect`, `LinkImplementsSession`, `LinkRepeatIsAccepted`, `LinkKeepsPromise` | the invariant says what may be on the line: which packets a master may have outstanding, in which order with its earlier ones, which replies answer which of them, and how the numbers of both sides stand to each other before, at and after the login. The refinement of `AtLeastOnce` follows step by step: every step is a step of it or a stutter |
| `MaintenanceProofs` | `MemoryIsAlwaysFile`, `LoadAlwaysFailsOnlyFor`, `NetChangeAlwaysReboots`, `UpgradeIsAlwaysWhole` | memory and file change together in `SaveAll` and `LoadFactoryDefault`, a cut ends the process; `FileInv` adds that the file of a running process that imported nothing passes every check but those in `Unchecked`, option by option and pair by pair; a network file differs only behind a commit, which sets the reboot; the upload's file holds exactly the pieces written since it was begun |
| `SignFaultsProofs` (bits) | `SignBitsAreFaults`, `SignOfflineIsTold` | `FaultsInv` relates each bit to its debouncer also between the log's write and the bit's, in rounds, judgements and resets, and after a start that reads the saved bits back |
| `SignFaultsProofs` (log) | `SignLogInv`, `SignLogTellsBits`, `SignLogGoesOn` | `LogInv`: the file loads back to the log in memory (`FileHolds`: the options stand in the order they were written, the newest last), the saved bits are the bits, and `Says`: the newest entry of each code names its bit, unless `torn`. The entries a round pushes come from a recursive function; `PushedSteps` unfolds it and `UpTo`, an induction up to a bound from the least element of a finite set, carries `FileHolds` and `Says` through them, so the library's induction theorems are not needed |

Hypotheses that are not in an `ASSUME`, because the code does not grant them; each
theorem names its own, and TLC finds a counterexample without it:

- `Quiet`: no fatal errors, or no inputs. With both, a fatal error drops what waits
  in `dsNext` under an input (`Group.cpp:224`): section 6. For `SwitchMsgIsCurrent` what
  is dropped is the request for AUTO, and the switch message the input covered comes
  back. That property takes a switch that was never read for MSG2, as the code does.
- `OneInput`: at most one input besides the switch. With two, the one that interrupts
  the other covers it (`Group.cpp:1701`): section 6.
- `LoneEntry`: a message of one entry whose onTime is 0 (`Group.cpp:584`, section 6).
  The theorem excludes only the time in which it is the command.
- `RisingTable`: brightness rises strictly with the level, which
  `UciHardware.cpp:217` asks for in its message and does not check.

Where TLC's type invariant is stronger than what a proof needs (`PlanTable`:
which frame a cell names) the proof uses the weaker `TableTyped`.
`CommandSurvives`, `SwitchOffIsDark` (`PowerSwitchOff`) and `CommErrorMeansOffline`
(`SessionCommError`, `TransportCommError`) hold by their theorems, for every instance;
no run repeats them.

Model-checked only is liveness under fairness, which the prover does not reach:
`ComesUp`, `ReachesTarget`, `RequestIsLoaded`, `InputIsShown`, `ShowsCommand`, `SilentIsReported`,
`MessageLetsGo`, `SilentIsDropped`, `SilentIsReleased`, `LastingIsTold`. Every
safety property of a passing run has its theorem, some under the hypotheses above.

## 6. Disagreements found

One run shows one. `maintenance_starts`, `UciUserCfg.cpp:81`: the web page takes
any of the 13 rates of `ALLOWEDBPS` (`WsServer.cpp:601`), saves it and logs "Restart to load new setting"
(`WsServer.cpp:681`). `LoadConfig` takes only the first `STANDARDBPS_SIZE`, 10
(`SerialPort.h:6`): with 230400, 460800 or 921600 saved the restart loads nothing, and
every start after it throws. `SessionTimeout` has the same fault, without such a
promise: FA20 takes any value (`UserDefinedCmd.cpp:380`), `LoadConfig` wants 60 or
more (`UciUserCfg.cpp:71`). `LoadFailsOnlyFor` lists in `Unchecked` all options of
this kind.

Behaviour of the code that the models reproduce, and that no property of a run forbids,
mostly because nothing in the repository promises otherwise:

- *Power.* A level-2 reset clears `PowerFailure` (`Controller.cpp:409`) while the
  mains input still reads failed; the monitor pushes edges only, so the group takes
  the mains for good and powers up (`Group.cpp:283`).
- *Display.* Rounds are not always played whole: a reset of any level and power-up open
  `readyToLoad` in the middle of one (`Group.cpp:2018`, `334`), and a disabled group never
  closes it. A level-3 reset erases the frames and counts on its frame 0, waiting in
  `dsNext`, to take the old one off. With an input on display a fatal error drops
  `dsNext` unsaved (`Group.cpp:224`); the covered frame is restored and
  `IMakeFrameForSlave` throws, ending the process (`GroupVms.cpp:55`). Two inputs:
  when EXT 3 comes while EXT 4 is shown, EXT 4 is saved as what to return to
  (`Group.cpp:1701`). The request EXT 4 had covered is lost, and EXT 4 comes back
  with its timer cleared, never to expire. With `ExtIds = {3, 4}` TLC finds
  `LastRequestKept` violated.
- *Tasks.* The entries of a one-entry message with onTime 0 go to the overlay
  buffer and slot 1 is never set, yet shown (`Group.cpp:584`). The message is left
  out of `MCGroupTasks`, and with it TLC finds `ReportedIsShown` violated. A group that starts disabled waits for a frame it does not send
  (`Group.cpp:1859`): slaves that kept an old one go on showing it. A slave
  that misreports makes a task send again, which restarts the supervision of all slaves.
- *Dimming.* A command before the task's first call clears the flag 0x80, so the first
  brightness is never sent and `PowerFunc`'s own request sends an unassigned
  `setDimming`; two levels of equal brightness (`UciHardware.cpp:217` allows them,
  its message does not) count up whatever the direction (`Group.cpp:1011`), so the
  lower one is never reached and the count can pass the last level; the lux of a sensor never judged is 65535.
- *Sessions.* A session dropped by its own late packet leaves LED and `isOnline`
  on; a changed session time-out can leave a session unsupervised; a code no class
  knows gets no reply but takes a number; a damaged repetition is refused for good.
- *Transport.* A second pending connection waits for the next one
  (`TcpServer.cpp:117`); an event of the batch that names a released slot closes the
  new peer in it (`OprTcp.cpp:42`); a failing accept ends the process.
- *Maintenance.* After a change of a port, the rate or the city the web page answers
  "App will restart after 5 seconds" (`WsServer.cpp:19`, `782`); the `rr_flag` it tests is
  a local variable (`WsServer.cpp:591`), and no restart follows. Static, dhcp and static again before the reboot leaves a file without
  an address, and 0.0.0.0 is taken as one: both keep the next start from coming up. A
  level-255 reset loads the default settings without a restart. A failed commit is followed by "nothing changed". Dawn and
  dusk minutes 08 and 09 come back as 0. The check of an unknown city reads the
  wrong variable. FAF2 sends Reject, then Ack. A package whose length is a multiple of
  the packet size is never complete; start asks for `rcvd[pktN]` again and again.
- *Signs.* A reset clears the off-line bit of a slave that is off line still. A crash
  between the log and the bits leaves an entry without its bit. Faults freeze
  while one slave is silent; a CRC error saved before a restart stays until a new one
  is over (`Slave.h:47`). Not in the model: when no slave of a sign reports a voltage
  between 3 and 15 V, neither limit is found passed and the mean is divided by
  zero (`Sign.cpp:252`).

## 7. Mutants

Each property is shown to depend on the code: with the operator in the second
column replaced as the name says, TLC finds the property violated.

| Property | Mutant | The bug |
|---|---|---|
| `NeverWedged` | `Tick100Power_KeepsFs` | the switch's source is not raised with the others |
| `ComesUp` | `MainPwr_OffSticks` | returning mains are not noticed |
| `BrightnessIsLevel` | `Arrived_Up` | every move counts the level up |
| `NoFlash` | `Value_StepTooFar` | the steps run past the level |
| `ReachesTarget` | `DimMove_OnCommand` | only a commanded level is followed, not the sensors |
| `FatalShowsBlank` | `Loads_InFatal` | requests are loaded in a fatal error |
| `LastRequestKept`, `NeverThrows` | `OnFatalRising_DropsNext` | a fatal error drops what waits |
| `SwitchOverrides` | `DispChk_NoSwitch` | the switch is not asked |
| `SwitchMsgIsCurrent` | `FcltRequest_NotAuto` | AUTO does not replace the switch message |
| `RequestIsLoaded`, `KeepsRound` | `MsgEnds_NotReady` | the end of a round does not reopen loading |
| `InputIsShown` | `TakeNext_CommandFirst` | a waiting command goes before an input: commands that keep coming starve it |
| `PlaysRounds` | `MsgDone_NotReady` | the same in the task itself |
| `ReportedIsShown` | `SetMax_OneRound` | the entries before the last overlay are not set again |
| `ShowsCommand` | `Step1_OnlyReset` | a slave with the wrong content is only told to show it again |
| `SilentIsReported` | `Judged_SilenceIgnored` | only wrong answers are judged |
| `MessageLetsGo` | `MsgLastFrmTmr_OnlyTimed` | no timer for a last entry that stays |
| `TableExact` | `IsEnPlanOverlap_StartOnly` | only the start of an entry is checked for overlap |
| `TableIsCalendar` | `Span_NoWrap` | an entry over midnight is empty |
| `ActiveIsEnabled` | `DisablePlan_Active` | the plan on display may be disabled |
| `RestartKeepsTable` | `LoadAll_MissesLast` | the last plan is not loaded |
| `OnlineIsSupervised`, `SilentIsDropped` | `EndSession_StopsTimer` | one master's end stops the timer of all |
| `OnlyIdleDropped` | `RefreshTimers_SetOnce` | the controller's timer is not restarted by later packets |
| `OnlineIsShown` | `SetSession_OwnOnly` | LED and `isOnline` follow the session that changed last |
| `PoolIsSound` | `ReleaseAll_Twice` | a slot that is closed already is released again |
| `IdleOutlivesSession` | `IdleTime_TcpOnly` | the idle time does not include the session's |
| `SilentIsReleased` | `PopAndAccept_Untimed` | a new connection has no idle timer |
| `RepeatIsAccepted` | `Password_OnlineFirst` | on line before the Ack, which takes number 0 |
| `KeepsPromise` | `RxCommand_FreshOnly` | a repetition is answered but not executed: a doubled Password had taken its number |
| `LoadFailsOnlyFor` | `CheckFA20_NoTemp` | FA20 does not check its temperatures |
| `MemoryIsFile` | `SaveAll_SkipsLast` | the last option is changed in memory only |
| `NetChangeReboots` | `FA20Rr_RestartFirst` | a restart is asked for in place of the reboot |
| `UpgradeIsWhole` | `FileInfo_KeepsFile` | the file of an earlier upload is not emptied |
| `LogTellsBits` | `PushAll_NotSaved` | the bits are not saved with the entry |
| `OfflineIsTold` | `RefreshDevErr_AnyGood` | one good slave clears the bit |
| `LogGoesOn` | `Written_InPlace` | the file keeps the places of its options |
| `BitsAreFaults` | `InitFaults_NoVoltage` | a saved voltage fault is not read back into its debouncer |
| `LastingIsTold` | `Differing_OnsetOnly` | the end of a fault is not pushed |

## 8. Not modelled, and why

- Contents of frames, fonts and bitmaps, the parsing of packets and the replies that
  only read (logs, versions, status, extended status) are conversions without
  state; files, sysfs, termios, RTC and HTTP are I/O; third-party code is vendored.
- The web page's display commands end in the `Controller` methods already modelled;
  its users and passwords are left out.
- The sign test (`CmdSignTest`, FA30: frame 255 and the display mode, never saved), and
  the exceptions of 24-bit overlays, are left out of `GroupDisplay` and `GroupTasks`;
  the statuses 1 and 2 of a slave are in `CheckCurrent` though
  `AllSlavesUpdateCurrentBak` makes them rare.
- The display time-out is a request for frame 0 that may come at any moment; battery
  and temperature errors of the controller are read by nothing but the status reply.
- Alarm and event logs are rings like the fault log that hold texts.
- Below the packet: partial writes and the byte order of the ring buffer, the framing
  of `LayerDtLk` (one packet per chunk) and of the slave line. The broadcast branch of
  `LayerNTS::Rx` is unreachable in the code and is not in the model.
- Time is counted in ticks or reduced to "expired or not": durations, and the order of
  two timers with unrelated periods, are nondeterministic.

## 9. Running it

    tlc -workers 2 -config GroupDisplayExt.cfg MCGroupDisplay
    tlapm NtsSessionProofs.tla
    tlapm TransportProofs.tla
    tlapm GroupProofs.tla
    tlapm GroupTasksProofs.tla

Each `.cfg` names its module in `PROJECT.json` (`runs`); no run takes more than
five minutes.
