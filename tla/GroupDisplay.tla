---------------------------- MODULE GroupDisplay ----------------------------
(***************************************************************************)
(* The display scheduler of one sign group (src/src/sign/Group.cpp).       *)
(*                                                                         *)
(* Four slots hold what may be shown: dsCurrent is on the signs, dsNext    *)
(* waits to be loaded, dsExt holds an external input and dsBak what an     *)
(* interruption covered.  Display commands, the facility switch, external  *)
(* inputs, fatal errors, power-up and resets all write these slots from    *)
(* different handlers of the epoll loop; Group::NormalMode, run every      *)
(* 10 ms while the group is on and its bus is free, moves them.            *)
(*                                                                         *)
(* TaskPln, TaskMsg and TaskFrm drive the slaves.  Here they are reduced   *)
(* to what they do to the scheduler: TaskMsg closes readyToLoad when an    *)
(* entry of a message begins and opens it when the round ends, TaskPln     *)
(* changes the entry on display, and TaskFrm throws on a missing frame.    *)
(***************************************************************************)
EXTENDS GroupPower

CONSTANTS
  FrmIds,      \* frames a display command may name
  MsgIds,      \* messages a display command may name
  AtfIds,      \* atomic assignments of frames to the signs; none but on ISLUS
  ExtIds,      \* external inputs (messages 3-6) with a display time
  Emergency,   \* those configured as emergency (ExtInput::emergency 0, "ON")
  Faults,      \* TRUE: signs and slaves may report fatal errors
  Mains,       \* TRUE: the mains input is read and may fail
  Restarts,    \* TRUE: the process may exit and be started again
  LoadLast     \* UciHardware::LoadLastDisp

ASSUME DisplayConstants ==
  /\ FrmIds \subseteq 1..255
  /\ MsgIds \subseteq 1..255
  /\ AtfIds \subseteq 1..255
  /\ ExtIds \subseteq 3..6
  /\ Emergency \subseteq ExtIds
  /\ Faults \in BOOLEAN /\ Mains \in BOOLEAN
  /\ Restarts \in BOOLEAN /\ LoadLast \in BOOLEAN

VARIABLES
  ds,             \* [bak, cur, next, ext]: the four DispStatus slots
  readyToLoad,    \* dsNext and a normal dsExt may be loaded
  extDispTmr,     \* display time of the external input
  fatalError,     \* value of State5 fatalError; its edges live inside NormalMode
  faulty,         \* some sign has a fatal error or some slave is offline
  deviceEnDisSet, \* as commanded and saved
  deviceEnDisCur, \* as applied to the signs
  round,          \* where TaskMsg is: "begin", "loop", "end"
  plnEntry,       \* onDispPlnEntryType: "none", "frm", "msg"
  defined,        \* frames, messages and plans are stored (not erased by a reset)
  savedDisp,      \* UciProcess: last logged display command, N_A for none
  wanted,         \* history: the last request the group accepted
  thrown          \* history: a task threw and ended the process

dispVars == << ds, readyToLoad, extDispTmr, fatalError, faulty, deviceEnDisSet,
               deviceEnDisCur, round, plnEntry, defined, savedDisp, wanted, thrown >>
vars == << powerVars, dispVars >>

DispType == {"N_A", "FRM", "MSG", "PLN", "ATF", "EXT", "FSW", "BLK"}
DispStatus == [type : DispType, id : 0..255]
Slots == [bak : DispStatus, cur : DispStatus, next : DispStatus, ext : DispStatus]

(* Names of the form Op_Bug are mutants: Op as a plausible bug would have  *)
(* it.  No specification uses them; the README says which property each    *)
(* one breaks.                                                             *)

N_A == [type |-> "N_A", id |-> 0]
BLK == [type |-> "BLK", id |-> 0]
Frm(id) == [type |-> "FRM", id |-> id]
Msg(id) == [type |-> "MSG", id |-> id]
Atf(id) == [type |-> "ATF", id |-> id]
Ext(id) == [type |-> "EXT", id |-> id]
Fsw(id) == [type |-> "FSW", id |-> id]
Pln0    == [type |-> "PLN", id |-> 0]

(* Frame 0 and message 0 stand for the plan. *)
AsPlan(d) == IF d.type \in {"FRM", "MSG"} /\ d.id = 0 THEN Pln0 ELSE d

TypeOK ==
  /\ PowerTypeOK
  /\ ds \in Slots
  /\ readyToLoad \in BOOLEAN
  /\ extDispTmr \in Timer
  /\ fatalError \in BOOLEAN
  /\ faulty \in BOOLEAN
  /\ deviceEnDisSet \in BOOLEAN
  /\ deviceEnDisCur \in BOOLEAN
  /\ round \in {"begin", "loop", "end"}
  /\ plnEntry \in {"none", "frm", "msg"}
  /\ defined \in BOOLEAN
  /\ savedDisp \in DispStatus
  /\ wanted \in DispStatus
  /\ thrown \in BOOLEAN

-----------------------------------------------------------------------------
(* Operations on the slots. *)

(* DispBackup: what was covered comes back unless something else waits. *)
DispBackup(d) ==
  IF d.next.type = "N_A" THEN [d EXCEPT !.next = d.bak, !.bak = N_A] ELSE d

OnFatalRising_DropsNext(d) ==
  [d EXCEPT !.bak = IF d.cur.type = "EXT" THEN d.bak ELSE d.cur, !.next = N_A, !.cur = BLK]

(* NormalMode, rising edge of the fatal error: the group goes blank. *)
OnFatalRising(d) ==
  [d EXCEPT !.bak  = IF d.cur.type = "EXT" THEN d.bak
                     ELSE IF d.next.type \notin {"N_A", "EXT"} THEN d.next ELSE d.cur,
            !.next = N_A,
            !.cur  = BLK]

OnFatalFalling(d) == [DispBackup(d) EXCEPT !.cur = N_A]

AfterFatalEdge(d) ==
  IF faulty /\ ~fatalError THEN OnFatalRising(d)
  ELSE IF ~faulty /\ fatalError THEN OnFatalFalling(d)
  ELSE d

(* IsDsNextEmergency *)
IsEmergency(d) == d.ext.type = "EXT" /\ d.ext.id \in Emergency

ExtExpired(d) == d.cur.type = "EXT" /\ extDispTmr = "expired"

TakeNext_CommandFirst(d) ==
  IF d.next.type # "N_A"
    THEN [d EXCEPT !.bak = d.cur, !.cur = d.next, !.next = N_A]
  ELSE IF d.ext.type = "EXT"
    THEN [d EXCEPT !.bak = d.cur, !.cur = d.ext, !.ext = N_A]
  ELSE d

(* LoadDsNext: the switch first, then an external input, then dsNext. *)
TakeNext(d) ==
  IF d.next.type = "FSW"
    THEN [d EXCEPT !.bak = Frm(0), !.cur = d.next, !.next = N_A]
  ELSE IF d.ext.type = "EXT"
    THEN [d EXCEPT !.bak = d.cur, !.cur = d.ext, !.ext = N_A]
  ELSE IF d.next.type # "N_A"
    THEN [d EXCEPT !.bak = d.cur, !.cur = d.next, !.next = N_A]
  ELSE d

NotEmpty(d) == IF d.cur.type = "N_A" THEN [d EXCEPT !.bak = Frm(0), !.cur = Frm(0)] ELSE d

LoadDsNext(d) == LET e == NotEmpty(TakeNext(d)) IN [e EXCEPT !.cur = AsPlan(@)]

(* The part of NormalMode that runs when there is no fatal error. *)
LoadWhenReady(d) == LoadDsNext(IF ExtExpired(d) THEN DispBackup(d) ELSE d)

-----------------------------------------------------------------------------
(* DispNext, for everything but an external input. *)
Request(x) ==
  /\ ds' = [ds EXCEPT !.next = x]
  /\ wanted' = x

(* The constructor; LoadLastDisp puts a saved command back through DispFrm, *)
(* DispMsg or DispAtomic, which check the switch unless the id is 0.        *)
BootSlots ==
  [ bak |-> N_A, cur |-> N_A, ext |-> N_A,
    next |-> IF LoadLast /\ savedDisp \in {Frm(0), Msg(0)} THEN savedDisp ELSE BLK ]

DisplayInit ==
  /\ savedDisp = N_A
  /\ ds = BootSlots
  /\ wanted = ds.next
  /\ readyToLoad = TRUE
  /\ extDispTmr = "clear"
  /\ fatalError = FALSE
  /\ faulty = FALSE
  /\ deviceEnDisSet \in BOOLEAN
  /\ deviceEnDisCur = ~deviceEnDisSet
  /\ round = "begin"
  /\ plnEntry = "none"
  /\ defined = TRUE
  /\ thrown = FALSE

Init == PowerInit /\ DisplayInit

(* Everything but the saved values is built again. *)
Reboot ==
  /\ PowerRestart
  /\ ds' = BootSlots
  /\ wanted' = ds'.next
  /\ readyToLoad' = TRUE
  /\ extDispTmr' = "clear"
  /\ fatalError' = FALSE
  /\ faulty' = FALSE
  /\ deviceEnDisCur' = ~deviceEnDisSet
  /\ round' = "begin"
  /\ plnEntry' = "none"
  /\ UNCHANGED << deviceEnDisSet, defined, savedDisp >>

Restart == Restarts /\ Reboot /\ UNCHANGED thrown

-----------------------------------------------------------------------------
(* Commands.  A command that is refused changes nothing and is no step.    *)

DispChk_NoSwitch == mainPwr # "OFF" /\ cmdPwr # "OFF" /\ ~fatalError

DispChk == mainPwr # "OFF" /\ cmdPwr # "OFF" /\ fs = "AUTO" /\ ~fatalError

(* The saved command is read at boot and only with LoadLast: without it    *)
(* the model does not tell saved commands apart.                           *)
Save(x) == savedDisp' = IF LoadLast THEN x ELSE savedDisp

(* Frame 0 and message 0 are never refused. *)
DispFrm(id) ==
  /\ id # 0 => DispChk
  /\ Request(Frm(id))
  /\ Save(Frm(id))
  /\ UNCHANGED << powerVars, readyToLoad, extDispTmr, fatalError, faulty, deviceEnDisSet,
                  deviceEnDisCur, round, plnEntry, defined, thrown >>

DispMsg(id) ==
  /\ id # 0 => DispChk
  /\ Request(Msg(id))
  /\ Save(Msg(id))
  /\ UNCHANGED << powerVars, readyToLoad, extDispTmr, fatalError, faulty, deviceEnDisSet,
                  deviceEnDisCur, round, plnEntry, defined, thrown >>

DispAtomic(id) ==
  /\ DispChk
  /\ Request(Atf(id))
  /\ Save(Atf(id))
  /\ UNCHANGED << powerVars, readyToLoad, extDispTmr, fatalError, faulty, deviceEnDisSet,
                  deviceEnDisCur, round, plnEntry, defined, thrown >>

CmdDispFrm(id)       == (id # 0 => defined) /\ DispFrm(id)
CmdDispMsg(id)       == (id # 0 => defined) /\ DispMsg(id)
CmdDispAtomicFrm(id) == defined /\ DispAtomic(id)

(* Applied to the signs by NormalMode. *)
SetDevice(v) ==
  /\ deviceEnDisSet' = v
  /\ UNCHANGED << powerVars, ds, readyToLoad, extDispTmr, fatalError, faulty, deviceEnDisCur,
                  round, plnEntry, defined, savedDisp, wanted, thrown >>

CmdDisableEnableDevice == \E v \in BOOLEAN : SetDevice(v)

(* Group::SystemReset *)
SystemReset ==
  /\ Request(Frm(0))
  /\ Save(Frm(0))
  /\ readyToLoad' = TRUE
  /\ deviceEnDisSet' = TRUE

(* Level 2 also clears the controller errors, level 3 also erases frames   *)
(* and messages, which an ISLUS keeps.                                     *)
CmdSystemReset(lvl) ==
  /\ SystemReset
  /\ defined' = (defined /\ (lvl < 3 \/ AtfIds # {}))
  /\ IF lvl >= 2 THEN ClearCtrllerError ELSE UNCHANGED powerVars
  /\ UNCHANGED << extDispTmr, fatalError, faulty, deviceEnDisCur, round, plnEntry, thrown >>

(* SignSetFrame / SignSetMessage store them again. *)
Store ==
  /\ ~defined
  /\ defined' = TRUE
  /\ UNCHANGED << powerVars, ds, readyToLoad, extDispTmr, fatalError, faulty, deviceEnDisSet,
                  deviceEnDisCur, round, plnEntry, savedDisp, wanted, thrown >>

(* DispExt: a rising edge of input x, unless a higher one (a smaller id)   *)
(* is on display or waits.                                                 *)
ExtAllowed(x) ==
  /\ IsPowerOn
  /\ fs = "AUTO"
  /\ ~(ds.cur.type = "EXT" /\ ds.cur.id < x)
  /\ ~(ds.ext.type = "EXT" /\ ds.ext.id < x)

(* DispNext for an external input.  An input that may not cover a flashing *)
(* display is dropped while one is on: no step, as for any refused input.  *)
ExtInput(x) ==
  /\ ExtAllowed(x)
  /\ extDispTmr' = "running"
  /\ ds' = IF ds.cur = Ext(x) THEN ds ELSE [ds EXCEPT !.ext = Ext(x)]
  /\ UNCHANGED << powerVars, readyToLoad, fatalError, faulty, deviceEnDisSet, deviceEnDisCur,
                  round, plnEntry, defined, savedDisp, wanted, thrown >>

-----------------------------------------------------------------------------
(* What FcltSwitchFunc and PowerFunc request for switch position p; the    *)
(* else branch of both takes every other position for MSG2.                *)
SwitchRequest(p) ==
  IF p = "AUTO" THEN Frm(0) ELSE IF p = "MSG1" THEN Fsw(1) ELSE Fsw(2)

(* PowerFunc asks for the position the switch is in, if it was ever read. *)
PowerUpRequest(p) == PowerUpDone(p) /\ FcltPwr(p) \in {"RISING", "ON"}

(* Every 100 ms of PeriodicRun: FcltSwitchFunc; PowerFunc. *)
Tick100Display(p) ==
  /\ Tick100Power(p)
  /\ IF FcltRequest(p) \/ PowerUpRequest(p)
     THEN Request(SwitchRequest(p))
     ELSE UNCHANGED << ds, wanted >>
  /\ readyToLoad' = (readyToLoad \/ PowerUpDone(p))
  /\ extDispTmr' = IF PowerUpDone(p) THEN "clear" ELSE extDispTmr
  /\ UNCHANGED << fatalError, faulty, deviceEnDisSet, deviceEnDisCur, round, plnEntry,
                  defined, savedDisp, thrown >>

ExtExpires ==
  /\ extDispTmr = "running"
  /\ extDispTmr' = "expired"
  /\ UNCHANGED << powerVars, ds, readyToLoad, fatalError, faulty, deviceEnDisSet,
                  deviceEnDisCur, round, plnEntry, defined, savedDisp, wanted, thrown >>

(* Signs and slaves report to the objects NormalMode polls. *)
FaultChanges ==
  /\ Faults
  /\ faulty' = ~faulty
  /\ UNCHANGED << powerVars, ds, readyToLoad, extDispTmr, fatalError, deviceEnDisSet,
                  deviceEnDisCur, round, plnEntry, defined, savedDisp, wanted, thrown >>

-----------------------------------------------------------------------------
(* NormalMode, every 10 ms while the group is on and the bus is free.      *)

Loads_InFatal == readyToLoad

Ready     == readyToLoad \/ (~faulty /\ (fatalError \/ IsEmergency(ds)))
Loads     == ~faulty /\ Ready
Scheduled == LET d == AfterFatalEdge(ds) IN IF Loads THEN LoadWhenReady(d) ELSE d
Device    == IF faulty \/ Ready THEN deviceEnDisSet ELSE deviceEnDisCur

(* TaskPln looks at the plan table only between two rounds, and shows the  *)
(* blank frame when there is no plan.                                      *)
Entries ==
  {"same"} \cup (IF Scheduled.cur.type = "PLN" /\ Ready
                 THEN {"frm"} \cup (IF defined THEN {"msg"} ELSE {}) ELSE {})
Entry(e) == IF e = "same" THEN plnEntry ELSE e

(* reloadCurrent, a new plan entry and EnDisDevice restart the task.       *)
Round(e) ==
  IF Scheduled # ds \/ Device # deviceEnDisCur \/ e # "same" THEN "begin" ELSE round

PlaysMsg(e) ==
  \/ Scheduled.cur.type \in {"MSG", "FSW", "EXT"}
  \/ Scheduled.cur.type = "PLN" /\ Entry(e) = "msg"

MissingMsg(e) == PlaysMsg(e) /\ Round(e) = "begin" /\ ~defined
MissingFrm    == Scheduled # ds /\ Scheduled.cur.type = "FRM" /\ ~defined

(* What a run of NormalMode does whatever its tasks go through. *)
Schedule(e) ==
  /\ IsPowerOn
  /\ e \in Entries
  /\ ~MissingFrm
  /\ fatalError' = faulty
  /\ extDispTmr' = IF Loads /\ ExtExpired(AfterFatalEdge(ds)) THEN "clear" ELSE extDispTmr
  /\ deviceEnDisCur' = Device
  /\ plnEntry' = Entry(e)
  /\ UNCHANGED << powerVars, faulty, deviceEnDisSet, defined, savedDisp, thrown >>

(* The task waits for the slaves, for a timer, or shows something else     *)
(* than a message; a switch or input message that is not defined is shown  *)
(* blank for ever.                                                         *)
NormalWait(e) ==
  /\ Schedule(e)
  /\ MissingMsg(e) => Scheduled.cur.type \in {"FSW", "EXT"}
  /\ ds' = Scheduled
  /\ readyToLoad' = Ready
  /\ round' = Round(e)
  /\ UNCHANGED wanted

(* An entry begins: the first one is set, the next one follows, or the last *)
(* one gives way to the first again.                                        *)
MsgStarts(e) ==
  /\ Schedule(e)
  /\ PlaysMsg(e) /\ ~MissingMsg(e)
  /\ ds' = Scheduled
  /\ readyToLoad' = (Ready /\ ~Device)
  /\ round' = "loop"
  /\ UNCHANGED wanted

MsgEnds_NotReady(e) ==
  /\ Schedule(e)
  /\ PlaysMsg(e)
  /\ Round(e) = "loop"
  /\ ds' = Scheduled
  /\ readyToLoad' = Ready
  /\ round' = "end"
  /\ UNCHANGED wanted

(* The last frame has been on for LastFrmTime, or its own time is over.    *)
MsgEnds(e) ==
  /\ Schedule(e)
  /\ PlaysMsg(e)
  /\ Round(e) = "loop"
  /\ ds' = Scheduled
  /\ readyToLoad' = TRUE
  /\ round' = "end"
  /\ UNCHANGED wanted

(* A slave shows something else: the message is sent again from the start. *)
MsgResends(e) ==
  /\ Schedule(e)
  /\ PlaysMsg(e)
  /\ Round(e) \in {"loop", "end"}
  /\ ds' = Scheduled
  /\ readyToLoad' = Ready
  /\ round' = "begin"
  /\ UNCHANGED wanted

(* A commanded message that does not exist: TaskMsg falls back to the plan. *)
MsgFallsBack(e) ==
  /\ Schedule(e)
  /\ MissingMsg(e)
  /\ Scheduled.cur.type \notin {"FSW", "EXT"}
  /\ ds' = [Scheduled EXCEPT !.cur = Pln0]
  /\ wanted' = IF Scheduled.next.type = "N_A" THEN Pln0 ELSE wanted
  /\ readyToLoad' = Ready
  /\ round' = "begin"

(* IMakeFrameForSlave throws on a frame that does not exist; nothing       *)
(* catches it before main, which ends the process.                         *)
FrameThrows ==
  /\ IsPowerOn
  /\ MissingFrm
  /\ Reboot
  /\ thrown' = TRUE

NormalMode ==
  \/ \E e \in Entries : \/ NormalWait(e) \/ MsgStarts(e) \/ MsgEnds(e)
                        \/ MsgResends(e) \/ MsgFallsBack(e)
  \/ FrameThrows

-----------------------------------------------------------------------------
PowerEvent ==
  /\ PwrUpExpires \/ CmdPowerOnOff \/ (Mains /\ PowerMonitor)
  /\ UNCHANGED dispVars

Command ==
  \/ \E id \in FrmIds \cup {0} : CmdDispFrm(id)
  \/ \E id \in MsgIds \cup {0} : CmdDispMsg(id)
  \/ \E id \in AtfIds : CmdDispAtomicFrm(id)
  \/ CmdDisableEnableDevice
  \/ \E lvl \in 0..3 : CmdSystemReset(lvl)
  \/ Store

Next ==
  \/ NormalMode
  \/ \E p \in Positions : Tick100Display(p)
  \/ ExtExpires
  \/ PowerEvent
  \/ Command
  \/ \E x \in ExtIds : ExtInput(x)
  \/ FaultChanges
  \/ Restart

Spec == Init /\ [][Next]_vars

-----------------------------------------------------------------------------
(* While the group acts on a fatal error nothing but blank is on display:  *)
(* no command, input, switch move, power-up or reset taken meanwhile gets  *)
(* past NormalMode, and no task falls back to the plan.                    *)
FatalShowsBlank == fatalError => ds.cur = BLK

(* The request in force: waiting in dsNext, else covered by an external    *)
(* input or a fatal error, else on display.                                *)
InForce ==
  IF ds.next.type # "N_A" THEN ds.next
  ELSE IF ds.cur.type = "EXT" \/ fatalError THEN ds.bak ELSE ds.cur

(* An accepted request is never lost: interruptions by fatal errors,       *)
(* inputs, power cuts and device commands, in any order, end with the      *)
(* last accepted request (frame 0 and message 0 being the plan).           *)
LastRequestKept == AsPlan(InForce) = AsPlan(wanted)

(* With the switch on a message no frame, message or atomic frame a master *)
(* commanded is on display, even one that an interruption had covered.     *)
SwitchOverrides ==
  (IsPowerOn /\ fs \in {"MSG1", "MSG2"} /\ ds.next.type = "N_A" /\ ~fatalError)
    => ds.cur.type \notin {"FRM", "MSG", "ATF"}

(* A switch message comes on display only while the switch is there, also  *)
(* when it was requested before an interruption - by power, commands and   *)
(* either inputs or fatal errors, not both: an input on display when a     *)
(* fatal error comes makes NormalMode forget the request for AUTO and      *)
(* return to the switch message it had covered.  A switch that was never   *)
(* read (NA) is taken for MSG2 by the code, and by the property.           *)
ShowsSwitch == ds.cur.type = "FSW"
SwitchMsgIsCurrent ==
  [][ (ShowsSwitch' /\ ds'.cur # ds.cur)
        => fs' \in (IF ds'.cur.id = 1 THEN {"MSG1"} ELSE {"MSG2", "NA"}) ]_vars

(* The scheduler keeps its part of DisplayRound, and makes of TaskMsg what   *)
(* GroupTasks shows of it.                                                   *)
Rounds == INSTANCE DisplayRound WITH enabled <- deviceEnDisCur, ready <- readyToLoad
KeepsRound == Rounds!RoundSpec

(* No task is ever sent to show a frame that a reset erased.               *)
NeverThrows == ~thrown

=============================================================================
