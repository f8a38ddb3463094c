----------------------------- MODULE GroupProofs -----------------------------
(***************************************************************************)
(* What a Group (Group.cpp) keeps in every reachable state: its power      *)
(* supervision, its display scheduler and its dimming, for any frames,     *)
(* messages, inputs, sensors and configuration.                            *)
(*                                                                         *)
(* Of the scheduler, FatalShowsBlank is inductive beside the type          *)
(* invariant, and gives that rounds are whole.  The other promises follow  *)
(* what is held of a request through the slots (Held, the InForce of any   *)
(* slots): first what every operation on the slots does to it, then the    *)
(* invariants that say whose request it is (KeptInv), that no erased frame *)
(* can be it (ErasedInv) and that it suits the facility switch (SwitchInv).*)
(*                                                                         *)
(* Of the dimming, BrightInv says more than BrightnessIsLevel: inside a    *)
(* move the value sent is exactly that of the step, and the level changes  *)
(* with the last one.  NoFlash follows from it, because the values of the  *)
(* steps of one move lie in order between the two levels.                  *)
(***************************************************************************)
EXTENDS GroupDisplay, Dimming, FiniteSetTheorems, WellFoundedInduction, TLAPS

-----------------------------------------------------------------------------
(* The power supervision alone.  NeverWedged is not inductive: it needs to *)
(* know that a switch that was never read ("NA") stands beside sources     *)
(* that have not finished their power-up, because PowerFunc takes all      *)
(* three to "ON" in the same step.                                         *)
UnreadSwitch == fsPwr = "NA" => fs = "NA" /\ mainPwr # "ON" /\ cmdPwr # "ON"
OffSwitch    == fs = "OFF" => fsPwr = "OFF"

PowerInv ==
  /\ PowerTypeOK
  /\ NeverWedged
  /\ CommandSurvives
  /\ UnreadSwitch
  /\ OffSwitch

(* The state the constructor of Group builds satisfies the invariant. *)
LEMMA BootLemma == PowerInit => PowerInv
  BY DEF PowerInit, Boot, PowerInv, PowerTypeOK, NeverWedged, CommandSurvives,
         UnreadSwitch, OffSwitch, PwrState, FsState, Timer

(* One 100 ms tick keeps it, whatever position the switch is found in. *)
LEMMA TickLemma ==
  ASSUME PowerInv, NEW p \in Positions, Tick100Power(p)
  PROVE  PowerInv'
<1> USE DEF PowerInv, PowerTypeOK, PwrState, FsState, Timer
<1>1. p \in FsState
  BY DEF Positions
<1>2. FcltPwr(p) \in PwrState /\ MainPwr \in {"OFF", "ON", "RISING"}
  BY DEF FcltPwr, MainPwr
<1>3. CASE PowerUpDone(p)
  <2>1. mainPwr' = "ON" /\ cmdPwr' = "ON" /\ fsPwr' = "ON" /\ fs' = p
    BY <1>3 DEF Tick100Power
  <2>2. p # "OFF"
    BY <1>3 DEF PowerUpDone, AnyRising, Sources, FcltPwr, OffSwitch
  <2>3. cmdPwr # "OFF"
    BY <1>3 DEF PowerUpDone, AnyRising, Sources
  <2>4. QED
    BY <1>1, <2>1, <2>2, <2>3
       DEF Tick100Power, NeverWedged, CommandSurvives, UnreadSwitch, OffSwitch, IsPowerOn
<1>4. CASE ~PowerUpDone(p)
  <2>1. mainPwr' = MainPwr /\ fsPwr' = FcltPwr(p) /\ cmdPwr' = cmdPwr /\ fs' = p
    BY <1>4 DEF Tick100Power
  <2>2. PowerTypeOK' /\ CommandSurvives'
    BY <1>1, <1>2, <2>1 DEF Tick100Power, CommandSurvives
  <2>3. UnreadSwitch'
    BY <2>1 DEF UnreadSwitch, FcltPwr, MainPwr
  <2>4. OffSwitch'
    BY <2>1 DEF OffSwitch, FcltPwr
  <2>5. NeverWedged'
    BY <1>2, <2>1, <2>3 DEF NeverWedged, IsPowerOn, UnreadSwitch
  <2>6. QED
    BY <2>2, <2>3, <2>4, <2>5
<1>5. QED
  BY <1>3, <1>4

(* Every step of the power supervision keeps it. *)
LEMMA PowerInvStep == PowerInv /\ [PowerNext]_powerVars => PowerInv'
<1> SUFFICES ASSUME PowerInv, [PowerNext]_powerVars
             PROVE  PowerInv'
  OBVIOUS
<1> USE DEF PowerInv, PowerTypeOK, PwrState, FsState, Timer
<1>1. CASE Tick100
  BY <1>1, TickLemma DEF Tick100
<1>2. CASE PwrUpExpires
  BY <1>2 DEF PwrUpExpires, NeverWedged, CommandSurvives, UnreadSwitch, OffSwitch, IsPowerOn
<1>3. CASE PowerOff
  BY <1>3 DEF PowerOff, NeverWedged, CommandSurvives, UnreadSwitch, OffSwitch, IsPowerOn
<1>4. CASE PowerOn
  BY <1>4 DEF PowerOn, NeverWedged, CommandSurvives, UnreadSwitch, OffSwitch, IsPowerOn
<1>5. CASE PowerMonitor
  BY <1>5 DEF PowerMonitor, NeverWedged, CommandSurvives, UnreadSwitch, OffSwitch, IsPowerOn
<1>6. CASE ClearCtrllerError
  <2>1. UNCHANGED << mains, fs, cmdPwr, fsPwr, mainPwr, pwrUpTmr, savedPower >> /\ ~powerFailure'
    BY <1>6 DEF ClearCtrllerError
  <2>2. PowerTypeOK'
    BY <1>6, <2>1 DEF ClearCtrllerError
  <2>3. NeverWedged' /\ CommandSurvives' /\ UnreadSwitch' /\ OffSwitch'
    BY <2>1 DEF NeverWedged, CommandSurvives, UnreadSwitch, OffSwitch, IsPowerOn
  <2>4. QED
    BY <2>2, <2>3
<1>7. CASE PowerRestart
  BY <1>7 DEF PowerRestart, Boot, NeverWedged, CommandSurvives, UnreadSwitch, OffSwitch
<1>8. CASE UNCHANGED powerVars
  BY <1>8 DEF powerVars, NeverWedged, CommandSurvives, UnreadSwitch, OffSwitch, IsPowerOn
<1>9. QED
  BY <1>1, <1>2, <1>3, <1>4, <1>5, <1>6, <1>7, <1>8 DEF PowerNext, UpNext, CmdPowerOnOff

LEMMA PowerInvariant == PowerSpec => []PowerInv
  BY BootLemma, PowerInvStep, PTL DEF PowerSpec

(* The variables of the power supervision keep their types. *)
THEOREM PowerTypeCorrect == PowerSpec => []PowerTypeOK
<1>1. PowerInv => PowerTypeOK
  BY DEF PowerInv
<1>2. QED
  BY <1>1, PowerInvariant, PTL

(* No interleaving of commands, switch moves, mains edges, ticks and       *)
(* crashes leaves the group neither on, nor off, nor on its way up.        *)
THEOREM PowerNeverWedged == PowerSpec => []NeverWedged
<1>1. PowerInv => NeverWedged
  BY DEF PowerInv
<1>2. QED
  BY <1>1, PowerInvariant, PTL

(* The commanded power state is the one a restart would bring back.        *)
THEOREM PowerCommandSurvives == PowerSpec => []CommandSurvives
<1>1. PowerInv => CommandSurvives
  BY DEF PowerInv
<1>2. QED
  BY <1>1, PowerInvariant, PTL

(* With the switch in OFF the group is never on. *)
THEOREM PowerSwitchOff == PowerSpec => []SwitchOffIsDark
<1>1. PowerInv => SwitchOffIsDark
  BY DEF PowerInv, OffSwitch, SwitchOffIsDark, IsPowerOn
<1>2. QED
  BY <1>1, PowerInvariant, PTL

-----------------------------------------------------------------------------
(* The power supervision sees the composed system as itself or idle.       *)
LEMMA PowerOfNext == PowerTypeOK /\ [Next]_vars => [PowerNext]_powerVars
<1> SUFFICES ASSUME PowerTypeOK, [Next]_vars PROVE [PowerNext]_powerVars
  OBVIOUS
<1>1. CASE NormalMode
  <2>1. ASSUME NEW e \in Entries, Schedule(e) PROVE UNCHANGED powerVars
    BY <2>1 DEF Schedule
  <2>2. CASE FrameThrows
    BY <2>2 DEF FrameThrows, Reboot, PowerNext
  <2>3. QED
    BY <1>1, <2>1, <2>2 DEF NormalMode, NormalWait, MsgStarts, MsgEnds, MsgResends, MsgFallsBack
<1>2. CASE \E p \in Positions : Tick100Display(p)
  BY <1>2 DEF Tick100Display, PowerNext, UpNext, Tick100
<1>3. CASE ExtExpires
  BY <1>3 DEF ExtExpires
<1>4. CASE PowerEvent
  BY <1>4 DEF PowerEvent, PowerNext, UpNext
<1>5. CASE Command
  <2>1. ASSUME NEW level \in 0..3, CmdSystemReset(level) PROVE [PowerNext]_powerVars
    <3>1. CASE level < 2
      BY <2>1, <3>1 DEF CmdSystemReset, SystemReset
    <3>2. CASE level >= 2
      <4>1. ClearCtrllerError
        BY <2>1, <3>2 DEF CmdSystemReset, SystemReset
      <4>2. CASE powerFailure
        BY <4>1, <4>2 DEF PowerNext, UpNext
      <4>3. CASE ~powerFailure
        BY <4>1, <4>3 DEF ClearCtrllerError, powerVars, PowerTypeOK
      <4>4. QED
        BY <4>2, <4>3
    <3>3. QED
      BY <3>1, <3>2
  <2>2. QED
    BY <1>5, <2>1 DEF Command, CmdDispFrm, DispFrm, CmdDispMsg, DispMsg,
                         CmdDispAtomicFrm, DispAtomic, CmdDisableEnableDevice, SetDevice, Store
<1>6. CASE \E x \in ExtIds : ExtInput(x)
  BY <1>6 DEF ExtInput
<1>7. CASE FaultChanges
  BY <1>7 DEF FaultChanges
<1>8. CASE Restart
  BY <1>8 DEF Restart, Reboot, PowerNext
<1>9. CASE UNCHANGED vars
  BY <1>9 DEF vars
<1>10. QED
  BY <1>1, <1>2, <1>3, <1>4, <1>5, <1>6, <1>7, <1>8, <1>9 DEF Next

-----------------------------------------------------------------------------
(* The operations on the slots yield slots. *)
LEMMA StatusTypes ==
  /\ N_A \in DispStatus /\ Frm(0) \in DispStatus /\ BLK \in DispStatus /\ Pln0 \in DispStatus
  /\ \A id \in 0..255 : /\ Frm(id) \in DispStatus /\ Msg(id) \in DispStatus
                        /\ Atf(id) \in DispStatus /\ Ext(id) \in DispStatus
                        /\ Fsw(id) \in DispStatus
  BY DEF DispStatus, DispType, N_A, BLK, Pln0, Frm, Msg, Atf, Ext, Fsw

LEMMA SlotTypes ==
  ASSUME NEW d \in Slots
  PROVE  /\ DispBackup(d) \in Slots
         /\ OnFatalRising(d) \in Slots
         /\ OnFatalFalling(d) \in Slots
         /\ LoadDsNext(d) \in Slots
<1> USE StatusTypes
<1>1. d.bak \in DispStatus /\ d.cur \in DispStatus /\ d.next \in DispStatus /\ d.ext \in DispStatus
  BY DEF Slots
<1>2. DispBackup(d) \in Slots /\ OnFatalRising(d) \in Slots
  BY <1>1 DEF Slots, DispBackup, OnFatalRising
<1>3. OnFatalFalling(d) \in Slots
  BY <1>2 DEF Slots, OnFatalFalling
<1>4. TakeNext(d) \in Slots
  BY <1>1 DEF Slots, TakeNext
<1>5. ASSUME NEW f \in Slots PROVE NotEmpty(f) \in Slots
  BY DEF Slots, NotEmpty
<1>6. ASSUME NEW f \in Slots PROVE [f EXCEPT !.cur = AsPlan(@)] \in Slots
  <2>1. AsPlan(f.cur) \in DispStatus
    BY DEF Slots, AsPlan
  <2>2. QED
    BY <2>1 DEF Slots
<1>7. LoadDsNext(d) \in Slots
  BY <1>4, <1>5, <1>6 DEF LoadDsNext
<1>8. QED
  BY <1>2, <1>3, <1>7

LEMMA ScheduledType == TypeOK => Scheduled \in Slots
<1> SUFFICES ASSUME TypeOK PROVE Scheduled \in Slots
  OBVIOUS
<1>1. AfterFatalEdge(ds) \in Slots
  BY SlotTypes DEF TypeOK, AfterFatalEdge
<1>2. ASSUME NEW d \in Slots PROVE LoadWhenReady(d) \in Slots
  BY SlotTypes DEF LoadWhenReady
<1>3. QED
  BY <1>1, <1>2 DEF Scheduled

(* In a fatal error the schedule leaves blank on display. *)
LEMMA FatalSchedule ==
  ASSUME TypeOK, FatalShowsBlank, faulty
  PROVE  Scheduled.cur = BLK
<1>1. ~Loads
  BY DEF Loads
<1>2. CASE fatalError
  BY <1>1, <1>2 DEF Scheduled, AfterFatalEdge, FatalShowsBlank
<1>3. CASE ~fatalError
  BY <1>1, <1>3 DEF Scheduled, AfterFatalEdge, OnFatalRising, TypeOK, Slots
<1>4. QED
  BY <1>2, <1>3

LEMMA FatalPlaysNothing ==
  ASSUME TypeOK, FatalShowsBlank, faulty, NEW e
  PROVE  ~PlaysMsg(e)
  BY FatalSchedule DEF PlaysMsg, BLK

-----------------------------------------------------------------------------
FatalInv == TypeOK /\ FatalShowsBlank

LEMMA FatalInit == Init => FatalInv
<1> SUFFICES ASSUME Init PROVE FatalInv
  OBVIOUS
<1>1. PowerTypeOK
  BY BootLemma DEF Init, PowerInv
<1>2. BootSlots \in Slots
  BY StatusTypes DEF BootSlots, Slots, DisplayInit, Init
<1>3. QED
  BY <1>1, <1>2, StatusTypes
     DEF Init, DisplayInit, FatalInv, TypeOK, FatalShowsBlank, Timer, Slots

(* A restart builds everything again. *)
LEMMA RebootFatal ==
  ASSUME FatalInv, Reboot, PowerTypeOK', thrown' \in BOOLEAN
  PROVE  FatalInv'
<1>1. BootSlots \in Slots
  BY StatusTypes DEF BootSlots, Slots, FatalInv, TypeOK
<1>2. BootSlots.next \in DispStatus
  BY <1>1 DEF Slots
<1>3. QED
  BY <1>1, <1>2 DEF Reboot, FatalInv, TypeOK, FatalShowsBlank, Timer

(* Whatever the tasks go through, a run of NormalMode keeps it. *)
LEMMA NormalFatal ==
  ASSUME FatalInv, PowerTypeOK', NormalMode
  PROVE  FatalInv'
<1> USE DEF FatalInv
<1>1. ASSUME NEW e \in Entries, Schedule(e)
      PROVE  /\ fatalError' = faulty /\ fatalError' \in BOOLEAN /\ faulty' \in BOOLEAN
             /\ extDispTmr' \in Timer
             /\ deviceEnDisCur' \in BOOLEAN /\ deviceEnDisSet' \in BOOLEAN
             /\ plnEntry' \in {"none", "frm", "msg"}
             /\ defined' \in BOOLEAN /\ savedDisp' \in DispStatus /\ thrown' \in BOOLEAN
             /\ Round(e) \in {"begin", "loop", "end"}
  <2>1. e \in {"same", "frm", "msg"}
    BY DEF Entries
  <2>2. Entry(e) \in {"none", "frm", "msg"}
    BY <2>1 DEF Entry, TypeOK
  <2>3. Device \in BOOLEAN
    BY DEF Device, TypeOK
  <2>4. QED
    BY <1>1, <2>2, <2>3 DEF Schedule, Round, TypeOK, Timer
<1>2. Scheduled \in Slots /\ (faulty => Scheduled.cur = BLK)
  BY ScheduledType, FatalSchedule
<1>3. Ready \in BOOLEAN
  BY DEF Ready
<1>4. ASSUME NEW e \in Entries, NormalWait(e) PROVE FatalInv'
  BY <1>1, <1>2, <1>3, <1>4 DEF NormalWait, TypeOK, FatalShowsBlank
<1>5. ASSUME NEW e \in Entries, MsgStarts(e) PROVE FatalInv'
  BY <1>1, <1>2, <1>5 DEF MsgStarts, TypeOK, FatalShowsBlank
<1>6. ASSUME NEW e \in Entries, MsgEnds(e) PROVE FatalInv'
  BY <1>1, <1>2, <1>6 DEF MsgEnds, TypeOK, FatalShowsBlank
<1>7. ASSUME NEW e \in Entries, MsgResends(e) PROVE FatalInv'
  BY <1>1, <1>2, <1>3, <1>7 DEF MsgResends, TypeOK, FatalShowsBlank
<1>8. ASSUME NEW e \in Entries, MsgFallsBack(e) PROVE FatalInv'
  <2>1. ~faulty
    BY <1>8, FatalPlaysNothing DEF MsgFallsBack, MissingMsg
  <2>2. [Scheduled EXCEPT !.cur = Pln0] \in Slots
    BY <1>2, StatusTypes DEF Slots
  <2>3. wanted' \in DispStatus
    BY <1>8, StatusTypes DEF MsgFallsBack, TypeOK
  <2>4. QED
    BY <1>1, <1>3, <1>8, <2>1, <2>2, <2>3 DEF MsgFallsBack, TypeOK, FatalShowsBlank
<1>9. ASSUME FrameThrows PROVE FatalInv'
  BY <1>9, RebootFatal DEF FrameThrows
<1>10. QED
  BY <1>4, <1>5, <1>6, <1>7, <1>8, <1>9 DEF NormalMode

(* A request changes only the slot that waits. *)
LEMMA RequestType ==
  ASSUME TypeOK, NEW x \in DispStatus, Request(x)
  PROVE  ds' \in Slots /\ wanted' \in DispStatus /\ ds'.cur = ds.cur
  BY DEF TypeOK, Request, Slots

LEMMA FatalStep == FatalInv /\ [Next]_vars /\ PowerTypeOK' => FatalInv'
<1> SUFFICES ASSUME FatalInv, [Next]_vars, PowerTypeOK' PROVE FatalInv'
  OBVIOUS
<1> USE DEF FatalInv
<1>1. CASE NormalMode
  BY <1>1, NormalFatal
<1>2. ASSUME NEW p \in Positions, Tick100Display(p) PROVE FatalInv'
  <2>1. SwitchRequest(p) \in DispStatus
    BY StatusTypes DEF SwitchRequest
  <2>2. ds' \in Slots /\ wanted' \in DispStatus /\ ds'.cur = ds.cur
    BY <1>2, <2>1, RequestType DEF Tick100Display, TypeOK
  <2>3. QED
    BY <1>2, <2>2 DEF Tick100Display, TypeOK, FatalShowsBlank, Timer
<1>3. CASE ExtExpires
  BY <1>3 DEF ExtExpires, TypeOK, FatalShowsBlank, Timer
<1>4. CASE PowerEvent
  BY <1>4 DEF PowerEvent, dispVars, TypeOK, FatalShowsBlank
<1>5. CASE Command
  <2>0. FrmIds \cup MsgIds \cup AtfIds \cup {0} \subseteq 0..255
    BY DisplayConstants
  <2>1. ASSUME NEW id \in FrmIds \cup {0}, CmdDispFrm(id) PROVE FatalInv'
    <3>1. Frm(id) \in DispStatus
      BY <2>0, StatusTypes
    <3>2. ds' \in Slots /\ wanted' \in DispStatus /\ ds'.cur = ds.cur
      BY <2>1, <3>1, RequestType DEF CmdDispFrm, DispFrm
    <3>3. QED
      BY <2>1, <3>1, <3>2 DEF CmdDispFrm, DispFrm, Save, TypeOK, FatalShowsBlank
  <2>2. ASSUME NEW id \in MsgIds \cup {0}, CmdDispMsg(id) PROVE FatalInv'
    <3>1. Msg(id) \in DispStatus
      BY <2>0, StatusTypes
    <3>2. ds' \in Slots /\ wanted' \in DispStatus /\ ds'.cur = ds.cur
      BY <2>2, <3>1, RequestType DEF CmdDispMsg, DispMsg
    <3>3. QED
      BY <2>2, <3>1, <3>2 DEF CmdDispMsg, DispMsg, Save, TypeOK, FatalShowsBlank
  <2>3. ASSUME NEW id \in AtfIds, CmdDispAtomicFrm(id) PROVE FatalInv'
    <3>1. Atf(id) \in DispStatus
      BY <2>0, StatusTypes
    <3>2. ds' \in Slots /\ wanted' \in DispStatus /\ ds'.cur = ds.cur
      BY <2>3, <3>1, RequestType DEF CmdDispAtomicFrm, DispAtomic
    <3>3. QED
      BY <2>3, <3>1, <3>2 DEF CmdDispAtomicFrm, DispAtomic, Save, TypeOK, FatalShowsBlank
  <2>4. ASSUME NEW v \in BOOLEAN, SetDevice(v) PROVE FatalInv'
    BY <2>4 DEF SetDevice, TypeOK, FatalShowsBlank
  <2>5. ASSUME NEW level \in 0..3, CmdSystemReset(level) PROVE FatalInv'
    <3>1. ds' \in Slots /\ wanted' \in DispStatus /\ ds'.cur = ds.cur
      BY <2>5, StatusTypes, RequestType DEF CmdSystemReset, SystemReset
    <3>2. QED
      BY <2>5, <3>1, StatusTypes DEF CmdSystemReset, SystemReset, Save, TypeOK, FatalShowsBlank
  <2>6. CASE Store
    BY <2>6 DEF Store, TypeOK, FatalShowsBlank
  <2>7. QED
    BY <1>5, <2>1, <2>2, <2>3, <2>4, <2>5, <2>6 DEF Command, CmdDisableEnableDevice
<1>6. ASSUME NEW x \in ExtIds, ExtInput(x) PROVE FatalInv'
  <2>1. Ext(x) \in DispStatus
    BY StatusTypes, DisplayConstants
  <2>2. ds' \in Slots /\ ds'.cur = ds.cur
    BY <1>6, <2>1 DEF ExtInput, TypeOK, Slots
  <2>3. QED
    BY <1>6, <2>2 DEF ExtInput, TypeOK, FatalShowsBlank, Timer
<1>7. CASE FaultChanges
  BY <1>7 DEF FaultChanges, TypeOK, FatalShowsBlank
<1>8. CASE Restart
  BY <1>8, RebootFatal DEF Restart, TypeOK
<1>9. CASE UNCHANGED vars
  BY <1>9 DEF vars, dispVars, TypeOK, FatalShowsBlank
<1>10. QED
  BY <1>1, <1>2, <1>3, <1>4, <1>5, <1>6, <1>7, <1>8, <1>9 DEF Next

(* The power supervision keeps its invariant inside the composed system.   *)
LEMMA PowerInside == Spec => []PowerInv
<1>1. Init => PowerInv
  BY BootLemma DEF Init
<1>2. PowerInv => PowerTypeOK
  BY DEF PowerInv
<1>3. QED
  BY <1>1, <1>2, PowerOfNext, PowerInvStep, PTL DEF Spec

LEMMA FatalInvariant == Spec => []FatalInv
<1>1. PowerInv => PowerTypeOK
  BY DEF PowerInv
<1>2. QED
  BY <1>1, PowerInside, FatalInit, FatalStep, PTL DEF Spec

(* Every variable of the scheduler keeps its type. *)
THEOREM DisplayTypeCorrect == Spec => []TypeOK
<1>1. FatalInv => TypeOK
  BY DEF FatalInv
<1>2. QED
  BY <1>1, FatalInvariant, PTL

(* While the group acts on a fatal error the signs are blank, whatever     *)
(* commands, inputs, switch moves, power-ups and resets arrive meanwhile.  *)
THEOREM DisplayFatalShowsBlank == Spec => []FatalShowsBlank
<1>1. FatalInv => FatalShowsBlank
  BY DEF FatalInv
<1>2. QED
  BY <1>1, FatalInvariant, PTL

-----------------------------------------------------------------------------
(* What is kept of a request.  An external input and a fatal error that    *)
(* meet each lose what the other covered (Group.cpp:224), so from here on  *)
(* a group has either no fatal errors or no inputs.                        *)

Quiet == Faults = FALSE \/ ExtIds = {}

(* InForce of any slots.  The request sits in the slot that waits, else in *)
(* the one an input or a fatal error covered, else it is on display.       *)
Held(d, fatal) ==
  IF d.next.type # "N_A" THEN d.next
  ELSE IF d.cur.type = "EXT" \/ fatal THEN d.bak ELSE d.cur

NoInput(d) == "EXT" \notin {d.bak.type, d.cur.type, d.next.type, d.ext.type}

(* A waiting input comes back from dsBak only over another input.          *)
Ordered(d) == d.next.type = "EXT" => d.cur.type = "EXT"

SlotInv ==
  /\ FatalInv
  /\ Faults = FALSE => ~faulty /\ ~fatalError
  /\ ExtIds = {} => NoInput(ds)
  /\ AsPlan(ds.cur) = ds.cur
  /\ Ordered(ds)

(* y took the place of x: the same request, or x is no request and y is    *)
(* none either, or the plan.                                               *)
Nobody(x) == x.type \in {"N_A", "EXT"}
Keeps(y, x) == AsPlan(y) = AsPlan(x) \/ (Nobody(x) /\ (Nobody(y) \/ AsPlan(y) = Pln0))

LEMMA AsPlanLemma ==
  ASSUME NEW x \in DispStatus
  PROVE  /\ AsPlan(x) \in DispStatus
         /\ AsPlan(AsPlan(x)) = AsPlan(x)
         /\ (AsPlan(x).type = "N_A" <=> x.type = "N_A")
         /\ (AsPlan(x).type = "EXT" <=> x.type = "EXT")
         /\ (Nobody(AsPlan(x)) <=> Nobody(x))
         /\ (x.type = "FSW" => AsPlan(x) = x)
         /\ (AsPlan(x).type = "FSW" => AsPlan(x) = x)
  BY DEF AsPlan, Pln0, DispStatus, DispType, Nobody

(* When the display time of an input is over, what it covered waits.       *)
LEMMA BackupKeeps ==
  ASSUME NEW d \in Slots, d.cur.type = "EXT"
  PROVE  /\ DispBackup(d) \in Slots /\ Ordered(DispBackup(d))
         /\ DispBackup(d).cur = d.cur /\ DispBackup(d).ext = d.ext
         /\ Keeps(Held(DispBackup(d), FALSE), Held(d, FALSE))
<1>1. /\ d.bak \in DispStatus /\ d.cur \in DispStatus
      /\ d.next \in DispStatus /\ d.ext \in DispStatus
  BY DEF Slots
<1>2. DispBackup(d) \in Slots
  BY SlotTypes
<1>3. CASE d.next.type # "N_A"
  BY <1>2, <1>3 DEF DispBackup, Ordered, Keeps
<1>4. CASE d.next.type = "N_A"
  <2>1. /\ DispBackup(d).next = d.bak /\ DispBackup(d).bak = N_A
        /\ DispBackup(d).cur = d.cur /\ DispBackup(d).ext = d.ext
    BY <1>1, <1>4 DEF DispBackup, Slots
  <2>2. Held(d, FALSE) = d.bak
    BY <1>4 DEF Held
  <2>3. CASE d.bak.type = "N_A"
    BY <1>2, <2>1, <2>2, <2>3 DEF Held, Ordered, Keeps, Nobody, N_A
  <2>4. CASE d.bak.type # "N_A"
    BY <1>2, <2>1, <2>2, <2>4 DEF Held, Ordered, Keeps
  <2>5. QED
    BY <2>1, <2>3, <2>4
<1>5. QED
  BY <1>3, <1>4

(* LoadDsNext shows the request, or an input over it.  Only an input that  *)
(* covers an input loses what was held.                                    *)
LEMMA LoadKeeps ==
  ASSUME NEW d \in Slots, Ordered(d)
  PROVE  LET r == LoadDsNext(d) IN
         /\ r \in Slots /\ Ordered(r) /\ AsPlan(r.cur) = r.cur
         /\ NoInput(d) => NoInput(r)
         /\ r.cur.type = "EXT" \/ r.next.type = "N_A"
         /\ \/ Keeps(Held(r, FALSE), Held(d, FALSE))
            \/ d.cur.type = "EXT" /\ d.ext.type = "EXT" /\ Nobody(Held(r, FALSE))
         /\ r.ext = d.ext \/ r.ext = N_A
         /\ r.cur.type = "EXT" =>
              \/ r.cur = d.cur /\ r.ext = d.ext
              \/ r.cur = d.ext /\ r.ext = N_A
              \/ d.next.type = "EXT"
<1> DEFINE t == TakeNext(d)
           n == NotEmpty(t)
           r == LoadDsNext(d)
           x == Held(d, FALSE)
<1> USE StatusTypes
<1>1. /\ d.bak \in DispStatus /\ d.cur \in DispStatus
      /\ d.next \in DispStatus /\ d.ext \in DispStatus
  BY DEF Slots
<1>2. /\ t \in Slots /\ Ordered(t)
      /\ NoInput(d) => NoInput(t)
      /\ t.cur.type = "EXT" \/ t.next.type = "N_A"
      /\ t.ext = d.ext \/ t.ext = N_A
      /\ t.cur.type = "EXT" =>
           \/ t.cur = d.cur /\ t.ext = d.ext
           \/ t.cur = d.ext /\ t.ext = N_A
           \/ d.next.type = "EXT"
      /\ \/ Held(t, FALSE) = x
         \/ x.type = "EXT" /\ Held(t, FALSE).type = "EXT"
         \/ d.cur.type = "EXT" /\ d.ext.type = "EXT" /\ Held(t, FALSE).type = "EXT"
  <2>1. CASE d.next.type = "FSW"
    <3>1. /\ t.bak = Frm(0) /\ t.cur = d.next /\ t.next = N_A /\ t.ext = d.ext
          /\ t \in Slots
      BY <1>1, <2>1 DEF TakeNext, Slots
    <3>2. t.cur.type = "FSW" /\ t.next.type = "N_A" /\ t.bak.type = "FRM"
      BY <2>1, <3>1 DEF N_A, Frm
    <3>3. Held(t, FALSE) = x
      BY <2>1, <3>1, <3>2 DEF Held
    <3>4. Ordered(t) /\ (NoInput(d) => NoInput(t))
      BY <3>1, <3>2 DEF Ordered, NoInput
    <3>5. QED
      BY <3>1, <3>2, <3>3, <3>4
  <2>2. CASE d.next.type # "FSW" /\ d.ext.type = "EXT"
    <3>1. /\ t.bak = d.cur /\ t.cur = d.ext /\ t.next = d.next /\ t.ext = N_A
          /\ t \in Slots
      BY <1>1, <2>2 DEF TakeNext, Slots
    <3>2. QED
      BY <2>2, <3>1 DEF Ordered, NoInput, Held, Nobody
  <2>3. CASE d.next.type \notin {"FSW", "N_A"} /\ d.ext.type # "EXT"
    <3>1. /\ t.bak = d.cur /\ t.cur = d.next /\ t.next = N_A /\ t.ext = d.ext
          /\ t \in Slots
      BY <1>1, <2>3 DEF TakeNext, Slots
    <3>2. QED
      BY <2>3, <3>1 DEF Ordered, NoInput, Held, N_A, Nobody
  <2>4. CASE d.next.type = "N_A" /\ d.ext.type # "EXT"
    BY <2>4 DEF TakeNext, Held
  <2>5. QED
    BY <2>1, <2>2, <2>3, <2>4
<1>3. /\ n \in Slots /\ n.next = t.next /\ n.ext = t.ext
      /\ IF t.cur.type = "N_A" THEN n.cur = Frm(0) /\ n.bak = Frm(0)
                               ELSE n.cur = t.cur /\ n.bak = t.bak
  BY <1>2 DEF NotEmpty, Slots
<1>4. n.cur \in DispStatus /\ t.cur \in DispStatus
  BY <1>2, <1>3 DEF Slots
<1>5. /\ r \in Slots /\ r.cur = AsPlan(n.cur)
      /\ r.next = n.next /\ r.ext = n.ext /\ r.bak = n.bak
  <2>1. r = [n EXCEPT !.cur = AsPlan(@)]
    BY DEF LoadDsNext
  <2>2. QED
    BY <1>3, <1>4, <2>1, AsPlanLemma DEF Slots
<1>6. CASE t.cur.type = "N_A"
  <2>1. /\ r.cur = Pln0 /\ r.bak = Frm(0) /\ r.next = t.next /\ r.ext = t.ext
        /\ AsPlan(r.cur) = r.cur
    <3>1. AsPlan(Frm(0)) = Pln0 /\ AsPlan(Pln0) = Pln0
      BY DEF AsPlan, Frm, Pln0
    <3>2. QED
      BY <1>3, <1>5, <1>6, <3>1
  <2>2. r.next.type = "N_A" /\ Held(t, FALSE) = t.cur /\ Held(r, FALSE) = Pln0
    BY <1>2, <1>6, <2>1 DEF Held, Pln0
  <2>3. Nobody(x)
    BY <1>2, <1>6, <2>2 DEF Nobody
  <2>4. Keeps(Held(r, FALSE), x)
    BY <2>1, <2>2, <2>3 DEF Keeps
  <2>5. r.cur.type # "EXT" /\ Ordered(r) /\ (NoInput(t) => NoInput(r))
    <3>1. r.cur.type # "EXT" /\ r.bak.type # "EXT" /\ r.next.type # "EXT"
      BY <2>1, <2>2 DEF Pln0, Frm
    <3>2. QED
      BY <2>1, <3>1 DEF Ordered, NoInput
  <2>6. QED
    BY <1>2, <1>5, <2>1, <2>2, <2>4, <2>5
<1>7. CASE t.cur.type # "N_A"
  <2>1. /\ r.cur = AsPlan(t.cur) /\ r.bak = t.bak /\ r.next = t.next /\ r.ext = t.ext
        /\ AsPlan(r.cur) = r.cur /\ (r.cur.type = "EXT" <=> t.cur.type = "EXT")
        /\ (r.cur.type = "EXT" => r.cur = t.cur)
    <3>1. t.cur.type = "EXT" => AsPlan(t.cur) = t.cur
      BY DEF AsPlan
    <3>2. QED
      BY <1>3, <1>4, <1>5, <1>7, <3>1, AsPlanLemma
  <2>2. t.bak \in DispStatus /\ t.next \in DispStatus
    BY <1>2 DEF Slots
  <2>3. /\ AsPlan(Held(r, FALSE)) = AsPlan(Held(t, FALSE))
        /\ Nobody(Held(r, FALSE)) <=> Nobody(Held(t, FALSE))
    <3>1. CASE t.next.type # "N_A" \/ t.cur.type = "EXT"
      BY <2>1, <3>1 DEF Held
    <3>2. CASE t.next.type = "N_A" /\ t.cur.type # "EXT"
      BY <1>4, <2>1, <3>2, AsPlanLemma DEF Held
    <3>3. QED
      BY <3>1, <3>2
  <2>4. \/ Keeps(Held(r, FALSE), x)
        \/ d.cur.type = "EXT" /\ d.ext.type = "EXT" /\ Nobody(Held(r, FALSE))
    <3>1. /\ x.type = "EXT" => Nobody(x)
          /\ Held(t, FALSE).type = "EXT" => Nobody(Held(t, FALSE))
      BY DEF Nobody
    <3>2. QED
      BY <1>2, <2>3, <3>1 DEF Keeps
  <2>5. NoInput(t) => NoInput(r)
    BY <2>1 DEF NoInput
  <2>6. Ordered(r)
    BY <1>2, <2>1 DEF Ordered
  <2>7. QED
    BY <1>2, <1>5, <2>1, <2>4, <2>5, <2>6
<1>8. QED
  BY <1>6, <1>7

(* Both edges of a fatal error keep what is held. *)
LEMMA EdgeKeeps ==
  ASSUME Quiet, SlotInv
  PROVE  LET d == AfterFatalEdge(ds) IN
         /\ d \in Slots /\ Ordered(d) /\ d.ext = ds.ext
         /\ ExtIds = {} => NoInput(d)
         /\ Keeps(Held(d, faulty), Held(ds, fatalError))
         /\ d = ds \/ (~faulty /\ fatalError) \/ (faulty /\ d.cur = BLK)
         /\ d.cur.type = "EXT" => d = ds
<1> DEFINE d == AfterFatalEdge(ds)
<1>1. ds \in Slots
  BY DEF SlotInv, FatalInv, TypeOK
<1>2. /\ ds.bak \in DispStatus /\ ds.cur \in DispStatus
      /\ ds.next \in DispStatus /\ ds.ext \in DispStatus
  BY <1>1 DEF Slots
<1>3. d \in Slots
  BY <1>1, SlotTypes DEF AfterFatalEdge
<1>4. CASE faulty /\ ~fatalError
  <2>1. ExtIds = {} /\ NoInput(ds)
    BY <1>4 DEF Quiet, SlotInv
  <2>2. d.next = N_A /\ d.cur = BLK /\ d.ext = ds.ext
    BY <1>1, <1>4 DEF AfterFatalEdge, OnFatalRising, Slots
  <2>3. d.bak = Held(ds, FALSE)
    BY <1>1, <1>4, <2>1 DEF AfterFatalEdge, OnFatalRising, Slots, Held, NoInput
  <2>4. Held(d, faulty) = Held(ds, fatalError)
    BY <1>4, <2>1, <2>2, <2>3 DEF Held, N_A, NoInput
  <2>5. NoInput(d) /\ Ordered(d)
    BY <2>1, <2>2, <2>3 DEF NoInput, Held, N_A, BLK, Ordered
  <2>6. Keeps(Held(d, faulty), Held(ds, fatalError)) /\ BLK.type # "EXT"
    BY <2>4 DEF Keeps, BLK
  <2>7. QED
    BY <1>3, <1>4, <2>2, <2>5, <2>6
<1>5. CASE ~faulty /\ fatalError
  <2>1. ExtIds = {} /\ NoInput(ds)
    BY <1>5 DEF Quiet, SlotInv
  <2>2. d.cur = N_A /\ d.ext = ds.ext
    BY <1>1, <1>5 DEF AfterFatalEdge, OnFatalFalling, DispBackup, Slots
  <2>3. d.next = Held(ds, TRUE) /\ d.bak \in {ds.bak, N_A}
    BY <1>1, <1>5 DEF AfterFatalEdge, OnFatalFalling, DispBackup, Slots, Held
  <2>4. Keeps(Held(d, faulty), Held(ds, fatalError))
    BY <1>5, <2>2, <2>3 DEF Held, N_A, Keeps, Nobody
  <2>5. NoInput(d) /\ Ordered(d)
    BY <2>1, <2>2, <2>3 DEF NoInput, Held, N_A, Ordered
  <2>6. N_A.type # "EXT"
    BY DEF N_A
  <2>7. QED
    BY <1>3, <1>5, <2>2, <2>4, <2>5, <2>6
<1>6. CASE faulty <=> fatalError
  <2>1. d = ds
    BY <1>6 DEF AfterFatalEdge
  <2>2. Held(d, faulty) = Held(ds, fatalError)
    BY <1>6, <2>1 DEF Held
  <2>3. QED
    BY <1>3, <2>1, <2>2 DEF Keeps, SlotInv
<1>7. QED
  BY <1>4, <1>5, <1>6

LEMMA KeepsTwice ==
  ASSUME NEW x \in DispStatus, NEW y \in DispStatus, NEW z \in DispStatus,
         Keeps(y, x), Keeps(z, y)
  PROVE  Keeps(z, x)
<1>1. CASE AsPlan(y) = AsPlan(x)
  <2>1. Nobody(y) <=> Nobody(x)
    BY <1>1, AsPlanLemma
  <2>2. QED
    BY <1>1, <2>1 DEF Keeps
<1>2. CASE Nobody(x) /\ Nobody(y)
  <2>1. AsPlan(z) = AsPlan(y) => Nobody(z)
    BY <1>2, AsPlanLemma
  <2>2. QED
    BY <1>2, <2>1 DEF Keeps
<1>3. CASE Nobody(x) /\ AsPlan(y) = Pln0
  <2>1. ~Nobody(y)
    BY <1>3, AsPlanLemma DEF Nobody, Pln0
  <2>2. QED
    BY <1>3, <2>1 DEF Keeps
<1>4. QED
  BY <1>1, <1>2, <1>3 DEF Keeps

LEMMA HeldType == \A d \in Slots : Held(d, TRUE) \in DispStatus /\ Held(d, FALSE) \in DispStatus
  BY DEF Held, Slots

(* A run of the schedule keeps what is held; loading puts it on display,   *)
(* or an input over it.                                                    *)
LEMMA ScheduleKeeps ==
  ASSUME Quiet, SlotInv
  PROVE  /\ Scheduled \in Slots /\ Ordered(Scheduled) /\ AsPlan(Scheduled.cur) = Scheduled.cur
         /\ ExtIds = {} => NoInput(Scheduled)
         /\ \/ Keeps(Held(Scheduled, faulty), Held(ds, fatalError))
            \/ ds.cur.type = "EXT" /\ ds.ext.type = "EXT" /\ Nobody(Held(Scheduled, faulty))
         /\ \/ Loads /\ (Scheduled.cur.type = "EXT" \/ Scheduled.next.type = "N_A")
            \/ ~Loads /\ (Scheduled = ds \/ (faulty /\ Scheduled.cur = BLK))
         /\ Scheduled.ext = ds.ext \/ Scheduled.ext = N_A
         /\ Scheduled.cur.type = "EXT" =>
              \/ Scheduled.cur = ds.cur /\ Scheduled.ext = ds.ext
              \/ Scheduled.cur = ds.ext /\ Scheduled.ext = N_A
              \/ Nobody(Held(ds, fatalError))
<1> DEFINE d == AfterFatalEdge(ds)
           e == IF ExtExpired(d) THEN DispBackup(d) ELSE d
<1>1. ds \in Slots /\ d \in Slots /\ fatalError \in BOOLEAN /\ faulty \in BOOLEAN
  BY EdgeKeeps DEF SlotInv, FatalInv, TypeOK
<1>2. CASE Loads
  <2>1. ~faulty
    BY <1>2 DEF Loads
  <2>2. /\ e \in Slots /\ Ordered(e) /\ e.cur = d.cur /\ e.ext = d.ext
        /\ Keeps(Held(e, FALSE), Held(d, FALSE))
        /\ NoInput(d) => e = d
    <3>1. CASE ExtExpired(d)
      BY <1>1, <3>1, BackupKeeps DEF ExtExpired, NoInput
    <3>2. CASE ~ExtExpired(d)
      BY <1>1, <3>2, EdgeKeeps DEF Keeps
    <3>3. QED
      BY <3>1, <3>2
  <2>3. Scheduled = LoadDsNext(e)
    BY <1>2 DEF Scheduled, LoadWhenReady
  <2>4. Keeps(Held(e, FALSE), Held(ds, fatalError))
    <3>1. Keeps(Held(d, FALSE), Held(ds, fatalError))
      BY <2>1, EdgeKeeps DEF Held
    <3>2. /\ Held(e, FALSE) \in DispStatus /\ Held(d, FALSE) \in DispStatus
          /\ Held(ds, fatalError) \in DispStatus
      BY <1>1, <2>2, HeldType
    <3>3. QED
      BY <2>2, <3>1, <3>2, KeepsTwice
  <2>5. /\ Scheduled \in Slots /\ Ordered(Scheduled) /\ AsPlan(Scheduled.cur) = Scheduled.cur
        /\ ExtIds = {} => NoInput(Scheduled)
        /\ Scheduled.cur.type = "EXT" \/ Scheduled.next.type = "N_A"
        /\ Scheduled.ext = ds.ext \/ Scheduled.ext = N_A
    BY <2>2, <2>3, EdgeKeeps, LoadKeeps
  <2>6. \/ Keeps(Held(Scheduled, faulty), Held(ds, fatalError))
        \/ ds.cur.type = "EXT" /\ ds.ext.type = "EXT" /\ Nobody(Held(Scheduled, faulty))
    <3>1. /\ Held(Scheduled, FALSE) \in DispStatus /\ Held(e, FALSE) \in DispStatus
          /\ Held(ds, fatalError) \in DispStatus
      BY <1>1, <2>2, <2>5, HeldType
    <3>2. Held(Scheduled, faulty) = Held(Scheduled, FALSE)
      BY <2>1 DEF Held
    <3>3. \/ Keeps(Held(Scheduled, FALSE), Held(e, FALSE))
          \/ e.cur.type = "EXT" /\ e.ext.type = "EXT" /\ Nobody(Held(Scheduled, FALSE))
      BY <2>2, <2>3, LoadKeeps
    <3>4. e.cur.type = "EXT" => e.cur = ds.cur /\ e.ext = ds.ext
      BY <2>2, EdgeKeeps
    <3>5. QED
      BY <2>4, <3>1, <3>2, <3>3, <3>4, KeepsTwice
  <2>7. Scheduled.cur.type = "EXT" =>
          \/ Scheduled.cur = ds.cur /\ Scheduled.ext = ds.ext
          \/ Scheduled.cur = ds.ext /\ Scheduled.ext = N_A
          \/ Nobody(Held(ds, fatalError))
    <3>1. SUFFICES ASSUME Scheduled.cur.type = "EXT",
                          ~(Scheduled.cur = ds.ext /\ Scheduled.ext = N_A),
                          e.next.type # "EXT"
                   PROVE  Scheduled.cur = ds.cur /\ Scheduled.ext = ds.ext
      <4>1. CASE e.next.type = "EXT"
        <5>1. Nobody(Held(e, FALSE)) /\ AsPlan(Held(e, FALSE)).type = "EXT"
          BY <4>1 DEF Nobody, Held, AsPlan
        <5>2. Nobody(Held(ds, fatalError))
          <6>1. Held(ds, fatalError) \in DispStatus
            BY <1>1, HeldType
          <6>2. QED
            BY <2>4, <5>1, <6>1, AsPlanLemma DEF Keeps, Nobody
        <5>3. QED
          BY <5>2
      <4>2. QED
        BY <4>1
    <3>2. Scheduled.cur = e.cur /\ Scheduled.ext = e.ext
      <4>1. e.ext = ds.ext
        BY <2>2, EdgeKeeps
      <4>2. \/ Scheduled.cur = e.cur /\ Scheduled.ext = e.ext
            \/ Scheduled.cur = e.ext /\ Scheduled.ext = N_A
        BY <2>2, <2>3, <3>1, LoadKeeps
      <4>3. QED
        BY <3>1, <4>1, <4>2
    <3>3. d.cur.type = "EXT" /\ e.cur = d.cur /\ e.ext = d.ext
      BY <2>2, <3>1, <3>2
    <3>4. d = ds
      BY <3>3, EdgeKeeps
    <3>5. QED
      BY <3>2, <3>3, <3>4
  <2>8. QED
    BY <1>2, <2>5, <2>6, <2>7
<1>3. CASE ~Loads
  <2>1. Scheduled = d
    BY <1>3 DEF Scheduled
  <2>2. ~(~faulty /\ fatalError)
    BY <1>3 DEF Loads, Ready
  <2>3. d = ds \/ (faulty /\ d.cur = BLK)
    BY <2>2, EdgeKeeps
  <2>4. AsPlan(d.cur) = d.cur
    BY <2>3 DEF SlotInv, BLK, AsPlan
  <2>5. QED
    BY <1>3, <2>1, <2>3, <2>4, EdgeKeeps
<1>4. QED
  BY <1>2, <1>3

-----------------------------------------------------------------------------
(* No request is an input or empty, and only a frame's is a frame. *)
LEMMA RequestsAsk ==
  /\ \A id : /\ ~Nobody(Frm(id)) /\ ~Nobody(Msg(id)) /\ ~Nobody(Atf(id)) /\ ~Nobody(Fsw(id))
             /\ AsPlan(Msg(id)).type # "FRM" /\ AsPlan(Atf(id)).type # "FRM"
             /\ AsPlan(Fsw(id)).type # "FRM"
  /\ AsPlan(Frm(0)).type # "FRM"
<1>1. ASSUME NEW id
      PROVE  ~Nobody(Frm(id)) /\ ~Nobody(Msg(id)) /\ ~Nobody(Atf(id)) /\ ~Nobody(Fsw(id))
  BY DEF Frm, Msg, Atf, Fsw, Nobody
<1>2. ASSUME NEW id
      PROVE  /\ AsPlan(Msg(id)).type # "FRM" /\ AsPlan(Atf(id)).type # "FRM"
             /\ AsPlan(Fsw(id)).type # "FRM" /\ AsPlan(Frm(0)).type # "FRM"
  BY DEF Frm, Msg, Atf, Fsw, AsPlan, Pln0
<1>3. QED
  BY <1>1, <1>2

(* The ways a step may touch the slots. *)
LEMMA SlotCases ==
  ASSUME TypeOK, [Next]_vars
  PROVE  \/ /\ UNCHANGED << ds, wanted, fatalError, thrown >>
            /\ (~defined' => ~defined) /\ (Faults = FALSE => UNCHANGED faulty)
         \/ /\ UNCHANGED << fatalError, faulty, thrown >>
            /\ \E x \in DispStatus : /\ Request(x) /\ ~Nobody(x)
                                     /\ ~defined' => AsPlan(x).type # "FRM"
         \/ Reboot /\ (UNCHANGED thrown \/ FrameThrows)
         \/ \E e \in Entries : /\ Schedule(e)
                               /\ \/ ds' = Scheduled /\ UNCHANGED wanted
                                  \/ MsgFallsBack(e)
         \/ \E x \in ExtIds : ExtInput(x)
<1> DEFINE Idle == /\ UNCHANGED << ds, wanted, fatalError, thrown >>
                   /\ (~defined' => ~defined) /\ (Faults = FALSE => UNCHANGED faulty)
           Asks == /\ UNCHANGED << fatalError, faulty, thrown >>
                   /\ \E x \in DispStatus : /\ Request(x) /\ ~Nobody(x)
                                            /\ ~defined' => AsPlan(x).type # "FRM"
<1>1. CASE NormalMode
  <2>1. CASE FrameThrows
    BY <2>1 DEF FrameThrows
  <2>2. ASSUME NEW e \in Entries,
               NormalWait(e) \/ MsgStarts(e) \/ MsgEnds(e) \/ MsgResends(e) \/ MsgFallsBack(e)
        PROVE  Schedule(e) /\ ((ds' = Scheduled /\ UNCHANGED wanted) \/ MsgFallsBack(e))
    BY <2>2 DEF NormalWait, MsgStarts, MsgEnds, MsgResends, MsgFallsBack
  <2>3. QED
    BY <1>1, <2>1, <2>2 DEF NormalMode
<1>2. ASSUME NEW p \in Positions, Tick100Display(p) PROVE Idle \/ Asks
  <2>1. /\ SwitchRequest(p) \in DispStatus /\ ~Nobody(SwitchRequest(p))
        /\ AsPlan(SwitchRequest(p)).type # "FRM"
    <3>1. 1 \in 0..255 /\ 2 \in 0..255
      OBVIOUS
    <3>2. QED
      BY <3>1, StatusTypes, RequestsAsk DEF SwitchRequest
  <2>2. QED
    BY <1>2, <2>1 DEF Tick100Display
<1>3. CASE Command
  <2>0. FrmIds \cup MsgIds \cup AtfIds \cup {0} \subseteq 0..255
    BY DisplayConstants
  <2>1. ASSUME NEW id \in FrmIds \cup {0}, CmdDispFrm(id) PROVE Asks
    <3>1. Frm(id) \in DispStatus /\ ~Nobody(Frm(id)) /\ (id = 0 => AsPlan(Frm(id)).type # "FRM")
      <4>1. id \in 0..255
        BY <2>0
      <4>2. QED
        BY <4>1, StatusTypes, RequestsAsk
    <3>2. QED
      BY <2>1, <3>1 DEF CmdDispFrm, DispFrm
  <2>2. ASSUME NEW id \in MsgIds \cup {0}, CmdDispMsg(id) PROVE Asks
    <3>1. Msg(id) \in DispStatus /\ ~Nobody(Msg(id)) /\ AsPlan(Msg(id)).type # "FRM"
      <4>1. id \in 0..255
        BY <2>0
      <4>2. QED
        BY <4>1, StatusTypes, RequestsAsk
    <3>2. QED
      BY <2>2, <3>1 DEF CmdDispMsg, DispMsg
  <2>3. ASSUME NEW id \in AtfIds, CmdDispAtomicFrm(id) PROVE Asks
    <3>1. Atf(id) \in DispStatus /\ ~Nobody(Atf(id)) /\ AsPlan(Atf(id)).type # "FRM"
      <4>1. id \in 0..255
        BY <2>0
      <4>2. QED
        BY <4>1, StatusTypes, RequestsAsk
    <3>2. QED
      BY <2>3, <3>1 DEF CmdDispAtomicFrm, DispAtomic
  <2>4. ASSUME NEW level \in 0..3, CmdSystemReset(level) PROVE Asks
    <3>1. Frm(0) \in DispStatus /\ ~Nobody(Frm(0)) /\ AsPlan(Frm(0)).type # "FRM"
      BY StatusTypes, RequestsAsk
    <3>2. QED
      BY <2>4, <3>1 DEF CmdSystemReset, SystemReset
  <2>5. ASSUME NEW v \in BOOLEAN, SetDevice(v) PROVE Idle
    BY <2>5 DEF SetDevice
  <2>6. ASSUME Store PROVE Idle
    BY <2>6 DEF Store
  <2>7. Idle \/ Asks
    BY <1>3, <2>1, <2>2, <2>3, <2>4, <2>5, <2>6 DEF Command, CmdDisableEnableDevice
  <2>8. QED
    BY <2>7
<1>4. CASE ExtExpires \/ FaultChanges \/ PowerEvent \/ UNCHANGED vars
  BY <1>4 DEF ExtExpires, FaultChanges, PowerEvent, dispVars, vars
<1>5. CASE Restart
  BY <1>5 DEF Restart
<1>6. QED
  BY <1>1, <1>2, <1>3, <1>4, <1>5 DEF Next

(* A request waits in dsNext and touches nothing else. *)
LEMMA RequestHeld ==
  ASSUME TypeOK, NEW x \in DispStatus, ~Nobody(x), Request(x)
  PROVE  /\ ds'.next = x /\ ds'.bak = ds.bak /\ ds'.cur = ds.cur /\ ds'.ext = ds.ext
         /\ wanted' = x /\ Held(ds', fatalError') = x
  BY DEF TypeOK, Request, Slots, Held, Nobody

LEMMA BootHeld ==
  ASSUME Reboot
  PROVE  /\ ds'.cur = N_A /\ ds'.bak = N_A /\ ds'.ext = N_A
         /\ wanted' = ds'.next /\ ds'.next \in {Frm(0), Msg(0), BLK}
         /\ Held(ds', fatalError') = ds'.next /\ ~Nobody(ds'.next)
         /\ ~fatalError' /\ ~faulty'
<1>1. /\ ds'.cur = N_A /\ ds'.bak = N_A /\ ds'.ext = N_A
      /\ wanted' = ds'.next /\ ds'.next \in {Frm(0), Msg(0), BLK}
      /\ ~fatalError' /\ ~faulty'
  BY DEF Reboot, BootSlots
<1>2. ~Nobody(ds'.next) /\ Held(ds', fatalError') = ds'.next
  BY <1>1 DEF Held, Nobody, Frm, Msg, BLK
<1>3. QED
  BY <1>1, <1>2

(* TaskMsg falls back to the plan only from a message or a plan on show.   *)
LEMMA FallBackHeld ==
  ASSUME FatalInv, NEW e \in Entries, MsgFallsBack(e)
  PROVE  /\ ~faulty /\ ~fatalError' /\ Scheduled.cur.type \notin {"EXT", "FSW"}
         /\ ds'.cur = Pln0 /\ ds'.next = Scheduled.next /\ ds'.bak = Scheduled.bak
         /\ ds'.ext = Scheduled.ext
         /\ IF Scheduled.next.type = "N_A"
            THEN Held(ds', fatalError') = Pln0 /\ wanted' = Pln0
            ELSE /\ Held(ds', fatalError') = Held(Scheduled, faulty)
                 /\ wanted' = wanted
<1>1. ~faulty
  BY FatalPlaysNothing DEF MsgFallsBack, MissingMsg, FatalInv
<1>2. Scheduled \in Slots
  BY ScheduledType DEF FatalInv
<1>3. /\ ds'.cur = Pln0 /\ ds'.next = Scheduled.next /\ ds'.bak = Scheduled.bak
      /\ ds'.ext = Scheduled.ext
  BY <1>2 DEF MsgFallsBack, Slots
<1>4. ~fatalError' /\ Scheduled.cur.type \notin {"EXT", "FSW"}
  BY <1>1 DEF MsgFallsBack, Schedule
<1>5. QED
  BY <1>1, <1>3, <1>4 DEF MsgFallsBack, Held, Pln0

LEMMA SlotStep ==
  ASSUME Quiet, SlotInv, [Next]_vars, FatalInv'
  PROVE  SlotInv'
<1> USE DEF SlotInv
<1>0. TypeOK /\ ds \in Slots
  BY DEF FatalInv, TypeOK
<1>1. CASE UNCHANGED << ds, fatalError >> /\ (Faults = FALSE => UNCHANGED faulty)
  BY <1>1 DEF NoInput, Ordered, AsPlan
<1>2. ASSUME UNCHANGED << fatalError, faulty >>,
             NEW x \in DispStatus, Request(x), ~Nobody(x)
      PROVE  SlotInv'
  BY <1>0, <1>2, RequestHeld DEF NoInput, Ordered, Nobody, AsPlan
<1>3. CASE Reboot
  BY <1>3, BootHeld DEF NoInput, Ordered, AsPlan, N_A, Nobody
<1>4. ASSUME NEW e \in Entries, Schedule(e), ds' = Scheduled PROVE SlotInv'
  BY <1>4, ScheduleKeeps DEF Schedule, NoInput, Ordered, AsPlan
<1>5. ASSUME NEW e \in Entries, MsgFallsBack(e) PROVE SlotInv'
  <2>1. Scheduled.next.type # "EXT"
    BY <1>5, FallBackHeld, ScheduleKeeps DEF Ordered
  <2>2. Faults = FALSE => ~faulty' /\ ~fatalError'
    BY <1>5 DEF MsgFallsBack, Schedule
  <2>3. /\ ds'.cur = Pln0 /\ ds'.next = Scheduled.next /\ ds'.bak = Scheduled.bak
        /\ ds'.ext = Scheduled.ext
    BY <1>5, FallBackHeld
  <2>4. AsPlan(ds'.cur) = ds'.cur /\ Ordered(ds') /\ (ExtIds = {} => NoInput(ds'))
    <3>1. ExtIds = {} => NoInput(Scheduled)
      BY ScheduleKeeps
    <3>2. QED
      BY <2>1, <2>3, <3>1 DEF NoInput, Ordered, AsPlan, Pln0
  <2>5. QED
    BY <2>2, <2>4
<1>6. ASSUME NEW x \in ExtIds, ExtInput(x) PROVE SlotInv'
  <2>1. ds'.cur = ds.cur /\ ds'.next = ds.next
    BY <1>0, <1>6 DEF ExtInput, Slots
  <2>2. QED
    BY <1>6, <2>1 DEF ExtInput, Ordered, AsPlan
<1>7. QED
  BY <1>0, <1>1, <1>2, <1>3, <1>4, <1>5, <1>6, SlotCases

LEMMA SlotInvariant ==
  ASSUME Quiet
  PROVE  Spec => []SlotInv
<1>1. Init => SlotInv
  BY FatalInit DEF Init, DisplayInit, SlotInv, BootSlots, NoInput, Ordered, AsPlan,
                   N_A, BLK, Frm, Msg
<1>2. SlotInv /\ [Next]_vars /\ FatalInv' => SlotInv'
  BY SlotStep
<1>3. QED
  BY <1>1, <1>2, FatalInvariant, PTL DEF Spec

-----------------------------------------------------------------------------
(* The last accepted request is the one held.  A second input that covers  *)
(* the first one would take the place of what the first covered.           *)

OneInput == \A x, y \in ExtIds : x = y

KeptInv ==
  /\ ~Nobody(wanted)
  /\ AsPlan(Held(ds, fatalError)) = AsPlan(wanted)
  /\ ds.cur.type = "EXT" => /\ ds.ext.type # "EXT"
                            /\ \E y \in ExtIds : ds.cur = Ext(y)
  /\ ds.ext.type = "EXT" => \E y \in ExtIds : ds.ext = Ext(y)

(* So the schedule keeps it, and the request that is held is somebody's.   *)
LEMMA ScheduleWanted ==
  ASSUME Quiet, SlotInv, KeptInv
  PROVE  /\ ~Nobody(Held(ds, fatalError))
         /\ AsPlan(Held(Scheduled, faulty)) = AsPlan(wanted)
<1>1. Held(ds, fatalError) \in DispStatus /\ wanted \in DispStatus
  BY HeldType DEF SlotInv, FatalInv, TypeOK
<1>2. ~Nobody(Held(ds, fatalError))
  BY <1>1, AsPlanLemma DEF KeptInv
<1>3. Keeps(Held(Scheduled, faulty), Held(ds, fatalError))
  BY ScheduleKeeps DEF KeptInv
<1>4. QED
  BY <1>2, <1>3 DEF Keeps, KeptInv

LEMMA KeptStep ==
  ASSUME Quiet, OneInput, SlotInv, KeptInv, [Next]_vars
  PROVE  KeptInv'
<1>0. TypeOK /\ ds \in Slots /\ FatalInv
  BY DEF SlotInv, FatalInv, TypeOK
<1>1. CASE UNCHANGED << ds, fatalError, wanted >>
  BY <1>1 DEF KeptInv, Nobody, Held, AsPlan
<1>2. ASSUME NEW x \in DispStatus, Request(x), ~Nobody(x) PROVE KeptInv'
  BY <1>0, <1>2, RequestHeld DEF KeptInv
<1>3. CASE Reboot
  BY <1>3, BootHeld DEF KeptInv, N_A
<1>4. /\ Scheduled.cur.type = "EXT" => /\ Scheduled.ext.type # "EXT"
                                       /\ \E y \in ExtIds : Scheduled.cur = Ext(y)
      /\ Scheduled.ext.type = "EXT" => \E y \in ExtIds : Scheduled.ext = Ext(y)
  BY ScheduleKeeps, ScheduleWanted DEF KeptInv, N_A
<1>5. ASSUME NEW e \in Entries, Schedule(e), ds' = Scheduled, UNCHANGED wanted PROVE KeptInv'
  <2>1. Held(ds', fatalError') = Held(Scheduled, faulty)
    BY <1>5 DEF Schedule, Held
  <2>2. QED
    BY <1>4, <1>5, <2>1, ScheduleWanted DEF KeptInv
<1>6. ASSUME NEW e \in Entries, MsgFallsBack(e) PROVE KeptInv'
  <2>1. ~Nobody(Pln0) /\ Pln0.type # "EXT"
    BY DEF Nobody, Pln0
  <2>2. QED
    BY <1>0, <1>4, <1>6, <2>1, FallBackHeld, ScheduleWanted DEF KeptInv
<1>7. ASSUME NEW x \in ExtIds, ExtInput(x) PROVE KeptInv'
  <2>1. UNCHANGED << wanted, fatalError >>
    BY <1>7 DEF ExtInput
  <2>2. CASE ds.cur = Ext(x)
    BY <1>1, <1>7, <2>1, <2>2 DEF ExtInput
  <2>3. CASE ds.cur # Ext(x)
    <3>1. ds'.ext = Ext(x) /\ ds'.cur = ds.cur /\ ds'.next = ds.next /\ ds'.bak = ds.bak
      BY <1>0, <1>7, <2>3 DEF ExtInput, Slots
    <3>2. ds.cur.type # "EXT"
      BY <2>3 DEF KeptInv, OneInput
    <3>3. QED
      BY <2>1, <3>1, <3>2 DEF KeptInv, Held
  <2>4. QED
    BY <2>2, <2>3
<1>8. QED
  BY <1>0, <1>1, <1>2, <1>3, <1>5, <1>6, <1>7, SlotCases

LEMMA KeptInvariant ==
  ASSUME Quiet, OneInput
  PROVE  Spec => []KeptInv
<1>1. Init => KeptInv
  BY DEF Init, DisplayInit, KeptInv, BootSlots, Nobody, Held, N_A, BLK, Frm, Msg
<1>2. SlotInv /\ KeptInv /\ [Next]_vars => KeptInv'
  BY KeptStep
<1>3. QED
  BY <1>1, <1>2, SlotInvariant, PTL DEF Spec

(* A group never loses an accepted request: fatal errors or one external   *)
(* input, power cuts, switch moves, device commands, resets and restarts,  *)
(* in any order, leave the last one waiting, covered or on display.        *)
THEOREM DisplayLastRequestKept ==
  ASSUME Quiet, OneInput
  PROVE  Spec => []LastRequestKept
<1>1. KeptInv => LastRequestKept
  BY DEF KeptInv, LastRequestKept, InForce, Held
<1>2. QED
  BY <1>1, KeptInvariant, PTL

-----------------------------------------------------------------------------
(* No frame is shown that a reset erased: a reset that erases is itself a  *)
(* request for the plan, and until something is stored again no frame is   *)
(* accepted, so the request that is held is none.  What two inputs lose of *)
(* each other's cover only leaves less to show.                            *)

ErasedInv ==
  /\ ~thrown
  /\ ~defined => AsPlan(Held(ds, fatalError)).type # "FRM"

LEMMA NotFrmKept ==
  ASSUME NEW x \in DispStatus, NEW y \in DispStatus,
         AsPlan(x).type # "FRM", Keeps(y, x) \/ Nobody(y)
  PROVE  AsPlan(y).type # "FRM"
<1>1. CASE Nobody(y)
  BY <1>1 DEF Nobody, AsPlan
<1>2. CASE Keeps(y, x)
  BY <1>1, <1>2 DEF Keeps, Pln0
<1>3. QED
  BY <1>1, <1>2

(* After a run of the schedule, too.                                       *)
LEMMA ScheduleErased ==
  ASSUME Quiet, SlotInv, ErasedInv, ~defined
  PROVE  AsPlan(Held(Scheduled, faulty)).type # "FRM"
<1>1. Held(ds, fatalError) \in DispStatus /\ Held(Scheduled, faulty) \in DispStatus
  BY HeldType, ScheduleKeeps DEF SlotInv, FatalInv, TypeOK
<1>2. \/ Keeps(Held(Scheduled, faulty), Held(ds, fatalError))
      \/ Nobody(Held(Scheduled, faulty))
  BY ScheduleKeeps
<1>3. QED
  BY <1>1, <1>2, NotFrmKept DEF ErasedInv

LEMMA NoMissingFrm ==
  ASSUME Quiet, SlotInv, ErasedInv
  PROVE  ~MissingFrm
<1> SUFFICES ASSUME ~defined, Scheduled # ds, Scheduled.cur.type = "FRM"
             PROVE  FALSE
  BY DEF MissingFrm
<1>1. Loads /\ Scheduled.next.type = "N_A"
  BY ScheduleKeeps DEF BLK
<1>2. Held(Scheduled, faulty) = Scheduled.cur
  BY <1>1 DEF Held, Loads
<1>3. Scheduled.cur = AsPlan(Scheduled.cur)
  BY ScheduleKeeps
<1>4. QED
  BY <1>2, <1>3, ScheduleErased

LEMMA ErasedStep ==
  ASSUME Quiet, SlotInv, ErasedInv, [Next]_vars
  PROVE  ErasedInv'
<1>0. TypeOK /\ FatalInv
  BY DEF SlotInv, FatalInv
<1>1. CASE UNCHANGED << ds, fatalError, thrown >> /\ (~defined' => ~defined)
  BY <1>1 DEF ErasedInv, Held, AsPlan
<1>2. ASSUME NEW x \in DispStatus, Request(x), ~Nobody(x), UNCHANGED thrown,
             ~defined' => AsPlan(x).type # "FRM"
      PROVE  ErasedInv'
  <2>1. Held(ds', fatalError') = x
    BY <1>0, <1>2, RequestHeld
  <2>2. QED
    BY <1>2, <2>1 DEF ErasedInv
<1>3. CASE Reboot /\ UNCHANGED thrown
  <2>1. Held(ds', fatalError') = ds'.next /\ ds'.next \in {Frm(0), Msg(0), BLK}
    BY <1>3, BootHeld
  <2>2. AsPlan(Held(ds', fatalError')).type # "FRM"
    BY <2>1 DEF AsPlan, Pln0, Frm, Msg, BLK
  <2>3. QED
    BY <1>3, <2>2 DEF ErasedInv
<1>4. ~FrameThrows
  BY NoMissingFrm DEF FrameThrows
<1>5. ASSUME NEW e \in Entries, Schedule(e), ds' = Scheduled \/ MsgFallsBack(e)
      PROVE  ErasedInv'
  <2>1. UNCHANGED thrown /\ (~defined' => ~defined) /\ fatalError' = faulty
    BY <1>5 DEF Schedule
  <2>2. \/ Held(ds', fatalError') = Pln0
        \/ Held(ds', fatalError') = Held(Scheduled, faulty)
    BY <1>0, <1>5, <2>1, FallBackHeld DEF Held
  <2>3. AsPlan(Pln0).type # "FRM"
    BY DEF AsPlan, Pln0
  <2>4. QED
    BY <2>1, <2>2, <2>3, ScheduleErased DEF ErasedInv
<1>6. ASSUME NEW x \in ExtIds, ExtInput(x) PROVE ErasedInv'
  <2>1. ds'.cur = ds.cur /\ ds'.next = ds.next /\ ds'.bak = ds.bak
    BY <1>0, <1>6 DEF ExtInput, TypeOK, Slots
  <2>2. Held(ds', fatalError') = Held(ds, fatalError)
    BY <1>6, <2>1 DEF ExtInput, Held
  <2>3. QED
    BY <1>6, <2>2 DEF ExtInput, ErasedInv
<1>7. QED
  BY <1>0, <1>1, <1>2, <1>3, <1>4, <1>5, <1>6, SlotCases

(* No order of resets, commands, restarts, power cuts and fatal errors or  *)
(* inputs, however many, makes NormalMode show a frame that is not stored, *)
(* which would throw out of the epoll loop and end the program.            *)
THEOREM DisplayNeverThrows ==
  ASSUME Quiet
  PROVE  Spec => []NeverThrows
<1>1. Init => ErasedInv
  BY DEF Init, DisplayInit, ErasedInv
<1>2. SlotInv /\ ErasedInv /\ [Next]_vars => ErasedInv'
  BY ErasedStep
<1>3. ErasedInv => NeverThrows
  BY DEF ErasedInv, NeverThrows
<1>4. QED
  BY <1>1, <1>2, <1>3, SlotInvariant, PTL DEF Spec

-----------------------------------------------------------------------------
(* The switch.  Whatever is held while the group is on suits the position: *)
(* every move between powered positions is a request of its own, and so is *)
(* the power-up after any other.  A switch that was never read is taken    *)
(* for MSG2, on or off.                                                    *)

Suits(x, p) ==
  /\ p \in {"MSG1", "MSG2"} => AsPlan(x).type \notin {"FRM", "MSG", "ATF"}
  /\ x.type = "FSW" => p \in IF x.id = 1 THEN {"MSG1"} ELSE {"MSG2", "NA"}

SwitchInv == (IsPowerOn \/ fs = "NA") => Suits(Held(ds, fatalError), fs)

LEMMA SuitsKept ==
  ASSUME NEW x \in DispStatus, NEW y \in DispStatus, NEW p,
         Suits(x, p), Keeps(y, x) \/ Nobody(y)
  PROVE  Suits(y, p)
<1>1. CASE AsPlan(y) = AsPlan(x)
  <2>1. y.type = "FSW" => x = y
    BY <1>1, AsPlanLemma
  <2>2. QED
    BY <1>1, <2>1 DEF Suits
<1>2. CASE Nobody(y)
  BY <1>2 DEF Nobody, Suits, AsPlan
<1>3. CASE AsPlan(y) = Pln0
  <2>1. y.type # "FSW"
    BY <1>3, AsPlanLemma DEF Pln0
  <2>2. QED
    BY <1>3, <2>1 DEF Suits, Pln0
<1>4. QED
  BY <1>1, <1>2, <1>3 DEF Keeps

(* A tick that leaves the group on and asks for nothing found it on, or    *)
(* the switch was never read.                                              *)
LEMMA QuietTick ==
  ASSUME PowerInv, NEW p \in Positions, Tick100Power(p),
         ~FcltRequest(p), ~PowerUpRequest(p)
  PROVE  /\ IsPowerOn' \/ fs' = "NA" => IsPowerOn \/ fs = "NA"
         /\ IsPowerOn' \/ fs' = "NA" => fs' = fs
<1> USE DEF PowerInv, PowerTypeOK, PwrState, FsState, Timer
<1>1. p \in FsState /\ fs' = p
  BY DEF Positions, Tick100Power
<1>2. fs' = "NA" => fs = "NA"
  BY <1>1 DEF Positions
<1>3. ASSUME IsPowerOn' PROVE (IsPowerOn \/ fs = "NA") /\ fs' = fs
  <2>1. CASE PowerUpDone(p)
    <3>1. FcltPwr(p) = "NA"
      <4>1. FcltPwr(p) \in PwrState
        BY <1>1 DEF FcltPwr
      <4>2. FcltPwr(p) # "OFF"
        BY <2>1 DEF PowerUpDone, AnyRising, Sources
      <4>3. QED
        BY <2>1, <4>1, <4>2 DEF PowerUpRequest
    <3>2. p = fs /\ fsPwr = "NA"
      BY <3>1 DEF FcltPwr
    <3>3. QED
      BY <1>1, <3>2 DEF UnreadSwitch
  <2>2. CASE ~PowerUpDone(p)
    <3>1. mainPwr' = MainPwr /\ fsPwr' = FcltPwr(p) /\ cmdPwr' = cmdPwr
      BY <2>2 DEF Tick100Power
    <3>2. mainPwr = "ON" /\ cmdPwr = "ON" /\ FcltPwr(p) = "ON"
      BY <1>3, <3>1 DEF IsPowerOn, MainPwr
    <3>3. fsPwr = "ON"
      <4>1. fsPwr \in {"ON", "NA"}
        BY <3>2 DEF FcltPwr
      <4>2. QED
        BY <3>2, <4>1 DEF NeverWedged, IsPowerOn
    <3>4. p = fs
      BY <3>2, <3>3 DEF FcltRequest, FcltPwr
    <3>5. QED
      BY <1>1, <3>2, <3>3, <3>4 DEF IsPowerOn
  <2>3. QED
    BY <2>1, <2>2
<1>4. QED
  BY <1>2, <1>3

(* Every other step leaves the switch as it is and turns nothing on.       *)
LEMMA PowerElse ==
  ASSUME [Next]_vars, ~Restart, ~FrameThrows,
         \A p \in Positions : ~Tick100Display(p)
  PROVE  fs' = fs /\ (IsPowerOn' => IsPowerOn)
<1>1. CASE NormalMode
  BY <1>1 DEF NormalMode, NormalWait, MsgStarts, MsgEnds, MsgResends, MsgFallsBack,
              Schedule, powerVars, IsPowerOn
<1>2. CASE PowerEvent
  BY <1>2 DEF PowerEvent, PwrUpExpires, CmdPowerOnOff, PowerOff, PowerOn, PowerMonitor, IsPowerOn
<1>3. CASE Command
  <2>1. ASSUME NEW level \in 0..3, CmdSystemReset(level) PROVE fs' = fs /\ (IsPowerOn' => IsPowerOn)
    <3>1. UNCHANGED powerVars \/ ClearCtrllerError
      BY <2>1 DEF CmdSystemReset
    <3>2. QED
      BY <3>1 DEF ClearCtrllerError, powerVars, IsPowerOn
  <2>2. QED
    BY <1>3, <2>1 DEF Command, CmdDispFrm, DispFrm, CmdDispMsg, DispMsg, CmdDispAtomicFrm,
          DispAtomic, CmdDisableEnableDevice, SetDevice, Store, powerVars, IsPowerOn
<1>4. CASE ExtExpires \/ FaultChanges \/ UNCHANGED vars \/ \E x \in ExtIds : ExtInput(x)
  BY <1>4 DEF ExtExpires, FaultChanges, ExtInput, vars, powerVars, IsPowerOn
<1>5. QED
  BY <1>1, <1>2, <1>3, <1>4 DEF Next

(* With the switch anywhere but in AUTO a master's request is refused.     *)
LEMMA CommandSuits ==
  ASSUME Command
  PROVE  \/ UNCHANGED << ds, fatalError >>
         \/ /\ UNCHANGED fatalError
            /\ \E x \in DispStatus : Request(x) /\ ~Nobody(x) /\ Suits(x, fs)
<1> DEFINE Fine == /\ UNCHANGED fatalError
                   /\ \E x \in DispStatus : Request(x) /\ ~Nobody(x) /\ Suits(x, fs)
<1>0. FrmIds \cup MsgIds \cup AtfIds \cup {0} \subseteq 0..255
  BY DisplayConstants
<1>1. ASSUME NEW id \in FrmIds \cup {0}, CmdDispFrm(id) PROVE Fine
  <2>1. Frm(id) \in DispStatus /\ ~Nobody(Frm(id))
    <3>1. id \in 0..255
      BY <1>0
    <3>2. QED
      BY <3>1, StatusTypes, RequestsAsk
  <2>2. Suits(Frm(id), fs)
    BY <1>1 DEF CmdDispFrm, DispFrm, DispChk, Suits, Frm, AsPlan, Pln0
  <2>3. QED
    BY <1>1, <2>1, <2>2 DEF CmdDispFrm, DispFrm
<1>2. ASSUME NEW id \in MsgIds \cup {0}, CmdDispMsg(id) PROVE Fine
  <2>1. Msg(id) \in DispStatus /\ ~Nobody(Msg(id))
    <3>1. id \in 0..255
      BY <1>0
    <3>2. QED
      BY <3>1, StatusTypes, RequestsAsk
  <2>2. Suits(Msg(id), fs)
    BY <1>2 DEF CmdDispMsg, DispMsg, DispChk, Suits, Msg, AsPlan, Pln0
  <2>3. QED
    BY <1>2, <2>1, <2>2 DEF CmdDispMsg, DispMsg
<1>3. ASSUME NEW id \in AtfIds, CmdDispAtomicFrm(id) PROVE Fine
  <2>1. Atf(id) \in DispStatus /\ ~Nobody(Atf(id))
    <3>1. id \in 0..255
      BY <1>0
    <3>2. QED
      BY <3>1, StatusTypes, RequestsAsk
  <2>2. Suits(Atf(id), fs)
    BY <1>3 DEF CmdDispAtomicFrm, DispAtomic, DispChk, Suits, Atf, AsPlan, Pln0
  <2>3. QED
    BY <1>3, <2>1, <2>2 DEF CmdDispAtomicFrm, DispAtomic
<1>4. ASSUME NEW level \in 0..3, CmdSystemReset(level) PROVE Fine
  <2>1. Frm(0) \in DispStatus /\ ~Nobody(Frm(0)) /\ Suits(Frm(0), fs)
    BY StatusTypes DEF Frm, Nobody, Suits, AsPlan, Pln0
  <2>2. QED
    BY <1>4, <2>1 DEF CmdSystemReset, SystemReset
<1>5. ASSUME NEW v \in BOOLEAN, SetDevice(v) PROVE UNCHANGED << ds, fatalError >>
  BY <1>5 DEF SetDevice
<1>6. ASSUME Store PROVE UNCHANGED << ds, fatalError >>
  BY <1>6 DEF Store
<1>7. QED
  BY <1>1, <1>2, <1>3, <1>4, <1>5, <1>6 DEF Command, CmdDisableEnableDevice

LEMMA SwitchStep ==
  ASSUME Quiet, SlotInv, PowerInv, PowerInv', SwitchInv, [Next]_vars
  PROVE  SwitchInv'
<1>0. TypeOK /\ FatalInv /\ Held(ds, fatalError) \in DispStatus
  BY HeldType DEF SlotInv, FatalInv, TypeOK
<1>1. ASSUME NEW p \in Positions, Tick100Display(p) PROVE SwitchInv'
  <2>1. fs' = p
    BY <1>1 DEF Tick100Display, Tick100Power
  <2>2. CASE Request(SwitchRequest(p))
    <3>1. SwitchRequest(p) \in DispStatus /\ ~Nobody(SwitchRequest(p))
      <4>1. 1 \in 0..255 /\ 2 \in 0..255
        OBVIOUS
      <4>2. QED
        BY <4>1, StatusTypes, RequestsAsk DEF SwitchRequest
    <3>2. Held(ds', fatalError') = SwitchRequest(p)
      BY <1>0, <2>2, <3>1, RequestHeld
    <3>3. p # "OFF" => Suits(SwitchRequest(p), p)
      <4>1. p \in {"NA", "OFF", "AUTO", "MSG1", "MSG2"}
        BY <1>0 DEF Positions, TypeOK, PowerTypeOK, FsState
      <4>2. QED
        BY <4>1 DEF SwitchRequest, Frm, Fsw, Suits, AsPlan, Pln0
    <3>4. p = "OFF" => ~IsPowerOn'
      BY <2>1 DEF PowerInv, OffSwitch, IsPowerOn
    <3>5. QED
      BY <2>1, <3>2, <3>3, <3>4 DEF SwitchInv
  <2>3. CASE ~(FcltRequest(p) \/ PowerUpRequest(p))
    <3>1. UNCHANGED << ds, fatalError >> /\ Tick100Power(p)
      BY <1>1, <2>3 DEF Tick100Display
    <3>2. Held(ds', fatalError') = Held(ds, fatalError)
      BY <3>1 DEF Held
    <3>3. QED
      BY <2>3, <3>1, <3>2, QuietTick DEF SwitchInv
  <2>4. QED
    BY <1>1, <2>2, <2>3 DEF Tick100Display
<1>2. CASE Reboot
  <2>1. ds'.next \in {Frm(0), Msg(0), BLK} /\ Held(ds', fatalError') = ds'.next
    BY <1>2, BootHeld
  <2>2. QED
    BY <2>1 DEF SwitchInv, Suits, Frm, Msg, BLK, AsPlan, Pln0
<1>3. CASE ~Restart /\ ~FrameThrows /\ \A p \in Positions : ~Tick100Display(p)
  <2>1. fs' = fs /\ (IsPowerOn' => IsPowerOn)
    BY <1>3, PowerElse
  <2>2. ASSUME Held(ds', fatalError') \in DispStatus,
               \/ Keeps(Held(ds', fatalError'), Held(ds, fatalError))
               \/ Nobody(Held(ds', fatalError'))
        PROVE  SwitchInv'
    BY <1>0, <2>1, <2>2, SuitsKept DEF SwitchInv
  <2>3. ASSUME Held(ds', fatalError') = Held(ds, fatalError) PROVE SwitchInv'
    BY <1>0, <2>2, <2>3 DEF Keeps
  <2>4. CASE UNCHANGED << ds, fatalError >>
    BY <2>3, <2>4 DEF Held
  <2>5. CASE Command
    <3>1. ASSUME NEW x \in DispStatus, Request(x), ~Nobody(x), Suits(x, fs) PROVE SwitchInv'
      BY <1>0, <2>1, <3>1, RequestHeld DEF SwitchInv
    <3>2. QED
      BY <2>4, <2>5, <3>1, CommandSuits
  <2>6. ASSUME NEW e \in Entries, Schedule(e), ds' = Scheduled PROVE SwitchInv'
    <3>1. Held(ds', fatalError') = Held(Scheduled, faulty)
      BY <2>6 DEF Schedule, Held
    <3>2. Held(Scheduled, faulty) \in DispStatus
      BY <1>0, HeldType, ScheduleKeeps DEF TypeOK
    <3>3. QED
      BY <2>2, <3>1, <3>2, ScheduleKeeps
  <2>7. ASSUME NEW e \in Entries, MsgFallsBack(e) PROVE SwitchInv'
    <3>1. CASE Scheduled.next.type = "N_A"
      <4>1. Held(ds', fatalError') = Pln0
        BY <1>0, <2>7, <3>1, FallBackHeld
      <4>2. QED
        BY <4>1 DEF SwitchInv, Suits, Pln0, AsPlan
    <3>2. CASE Scheduled.next.type # "N_A"
      <4>1. Held(ds', fatalError') = Held(Scheduled, faulty)
        BY <1>0, <2>7, <3>2, FallBackHeld
      <4>2. Held(Scheduled, faulty) \in DispStatus
        BY <1>0, HeldType, ScheduleKeeps DEF TypeOK
      <4>3. QED
        BY <2>2, <4>1, <4>2, ScheduleKeeps
    <3>3. QED
      BY <3>1, <3>2
  <2>8. CASE NormalMode
    BY <1>3, <2>6, <2>7, <2>8 DEF NormalMode, NormalWait, MsgStarts, MsgEnds, MsgResends
  <2>9. ASSUME NEW x \in ExtIds, ExtInput(x) PROVE SwitchInv'
    <3>1. /\ ds'.cur = ds.cur /\ ds'.next = ds.next /\ ds'.bak = ds.bak
          /\ fatalError' = fatalError
      BY <1>0, <2>9 DEF ExtInput, TypeOK, Slots
    <3>2. QED
      BY <2>3, <3>1 DEF Held
  <2>10. CASE ExtExpires \/ FaultChanges \/ PowerEvent \/ UNCHANGED vars
    BY <2>4, <2>10 DEF ExtExpires, FaultChanges, PowerEvent, dispVars, vars
  <2>11. QED
    BY <1>3, <2>5, <2>8, <2>9, <2>10 DEF Next
<1>4. QED
  BY <1>1, <1>2, <1>3 DEF Restart, FrameThrows

LEMMA SwitchInvariant ==
  ASSUME Quiet
  PROVE  Spec => []SwitchInv
<1>1. Init => SwitchInv
  BY DEF Init, DisplayInit, SwitchInv, Suits, Held, BootSlots, N_A, BLK, Frm, Msg, AsPlan, Pln0
<1>2. SlotInv /\ PowerInv /\ PowerInv' /\ SwitchInv /\ [Next]_vars => SwitchInv'
  BY SwitchStep
<1>3. QED
  BY <1>1, <1>2, SlotInvariant, PowerInside, PTL DEF Spec

(* With the switch on a message a group that is on never shows a frame, a  *)
(* message or an atomic frame of the master, not even one that an input, a *)
(* fatal error or a power cut had covered (with any number of inputs, or   *)
(* with fatal errors).                                                     *)
THEOREM DisplaySwitchOverrides ==
  ASSUME Quiet
  PROVE  Spec => []SwitchOverrides
<1>1. SlotInv /\ SwitchInv => SwitchOverrides
  <2> SUFFICES ASSUME SlotInv, SwitchInv, IsPowerOn, fs \in {"MSG1", "MSG2"},
                      ds.next.type = "N_A", ~fatalError, ds.cur.type # "EXT"
               PROVE  ds.cur.type \notin {"FRM", "MSG", "ATF"}
    BY DEF SwitchOverrides
  <2>1. Held(ds, fatalError) = ds.cur
    BY DEF Held
  <2>2. QED
    BY <2>1 DEF SwitchInv, Suits, SlotInv
<1>2. QED
  BY <1>1, SlotInvariant, SwitchInvariant, PTL

(* In a configuration without inputs, or one whose signs never report a    *)
(* fatal error (Quiet), a switch message comes on display only in its own  *)
(* position, or 2 on a switch never read, also when it was requested       *)
(* before an interruption and the switch moved meanwhile.  Quiet is        *)
(* needed: of an input on display, a request for AUTO and a fatal error    *)
(* NormalMode keeps what the input covered, the switch message.            *)
THEOREM DisplaySwitchMsgIsCurrent ==
  ASSUME Quiet
  PROVE  Spec => SwitchMsgIsCurrent
<1>1. ASSUME SlotInv, SwitchInv', [Next]_vars, ds'.cur.type = "FSW", ds'.cur # ds.cur
      PROVE  fs' \in (IF ds'.cur.id = 1 THEN {"MSG1"} ELSE {"MSG2", "NA"})
  <2>0. TypeOK /\ FatalInv
    BY <1>1 DEF SlotInv, FatalInv
  <2>1. ~(\E x \in DispStatus : Request(x) /\ ~Nobody(x))
    BY <1>1, <2>0, RequestHeld
  <2>2. ~Reboot
    BY <1>1, BootHeld DEF N_A
  <2>3. ~(\E x \in ExtIds : ExtInput(x))
    BY <1>1, <2>0 DEF ExtInput, TypeOK, Slots
  <2>4. ~(\E e \in Entries : MsgFallsBack(e))
    BY <1>1, <2>0, FallBackHeld DEF Pln0
  <2>5. PICK e \in Entries : Schedule(e) /\ ds' = Scheduled
    BY <1>1, <2>0, <2>1, <2>2, <2>3, <2>4, SlotCases
  <2>6. Loads /\ ds'.next.type = "N_A"
    BY <1>1, <2>5, ScheduleKeeps DEF BLK
  <2>7. ~fatalError' /\ IsPowerOn'
    BY <2>5, <2>6 DEF Schedule, Loads, powerVars, IsPowerOn
  <2>8. Held(ds', fatalError') = ds'.cur
    BY <1>1, <2>6, <2>7 DEF Held
  <2>9. QED
    BY <1>1, <2>7, <2>8 DEF SwitchInv, Suits
<1>2. SlotInv /\ SwitchInv' /\ [Next]_vars =>
        [(ShowsSwitch' /\ ds'.cur # ds.cur)
           => fs' \in (IF ds'.cur.id = 1 THEN {"MSG1"} ELSE {"MSG2", "NA"})]_vars
  BY <1>1 DEF ShowsSwitch
<1>3. QED
  BY <1>2, SlotInvariant, SwitchInvariant, PTL DEF SwitchMsgIsCurrent, Spec

-----------------------------------------------------------------------------
(* Rounds, with any inputs and faults. *)

(* Every step of the scheduler is a turn of DisplayRound, seen through the  *)
(* device that is enabled, readyToLoad and the round: the command loads or  *)
(* the task goes on, then an entry begins, the round ends or neither.       *)
LEMMA RoundStep ==
  ASSUME TypeOK, [Next]_vars
  PROVE  [Rounds!Turn]_(Rounds!roundVars)
<1> USE DEF Rounds!Finds, Rounds!Waits, Rounds!Starts, Rounds!Ends
<1> DEFINE Places == {"begin", "loop", "end"}
<1>0. round \in Places /\ readyToLoad \in BOOLEAN /\ deviceEnDisCur \in BOOLEAN
      /\ deviceEnDisSet \in BOOLEAN
  BY DEF TypeOK
<1>1. ASSUME NEW r \in Places, NEW o \in BOOLEAN, Rounds!Finds(r, o),
             Rounds!Waits(r, o) \/ Rounds!Starts(o) \/ Rounds!Ends(r)
      PROVE  Rounds!Turn
  BY <1>1 DEF Rounds!Turn
<1>2. CASE UNCHANGED << deviceEnDisCur, readyToLoad, round >>
  BY <1>2 DEF Rounds!roundVars
<1>3. ASSUME readyToLoad' \in {readyToLoad, TRUE}, UNCHANGED << deviceEnDisCur, round >>
      PROVE  Rounds!Turn
  <2>1. Rounds!Finds(round, readyToLoad') /\ Rounds!Waits(round, readyToLoad')
    BY <1>3
  <2>2. readyToLoad' \in BOOLEAN
    BY <1>0, <1>3
  <2>3. QED
    BY <1>0, <1>1, <2>1, <2>2
<1>4. ASSUME Reboot PROVE Rounds!Turn
  <2>1. Rounds!Finds("begin", TRUE) /\ Rounds!Waits("begin", TRUE)
    BY <1>0, <1>4 DEF Reboot
  <2>2. QED
    BY <1>1, <2>1
<1>5. CASE NormalMode
  <2>1. CASE FrameThrows
    BY <1>4, <2>1 DEF FrameThrows
  <2>2. ASSUME NEW e \in Entries, Schedule(e)
        PROVE  Round(e) \in Places /\ Ready \in BOOLEAN /\ Rounds!Finds(Round(e), Ready)
    <3>1. Ready \in {readyToLoad, TRUE}
      BY <1>0 DEF Ready
    <3>2. Device \in BOOLEAN /\ deviceEnDisCur' = Device
      BY <1>0, <2>2 DEF Device, Schedule
    <3>3. CASE Scheduled # ds \/ Device # deviceEnDisCur \/ e # "same"
      <4>1. Round(e) = "begin"
        BY <3>3 DEF Round
      <4>2. QED
        BY <1>0, <3>1, <3>2, <4>1
    <3>4. CASE ~(Scheduled # ds \/ Device # deviceEnDisCur \/ e # "same")
      <4>1. Round(e) = round
        BY <3>4 DEF Round
      <4>2. QED
        BY <1>0, <3>1, <3>2, <3>4, <4>1
    <3>5. QED
      BY <3>3, <3>4
  <2>3. ASSUME NEW e \in Entries, NormalWait(e) PROVE Rounds!Turn
    <3>1. Schedule(e) /\ Rounds!Waits(Round(e), Ready)
      BY <2>3 DEF NormalWait
    <3>2. QED
      BY <1>1, <2>2, <3>1
  <2>4. ASSUME NEW e \in Entries, MsgStarts(e) PROVE Rounds!Turn
    <3>1. Schedule(e) /\ Rounds!Starts(Ready)
      BY <2>4 DEF MsgStarts, Schedule
    <3>2. QED
      BY <1>1, <2>2, <3>1
  <2>5. ASSUME NEW e \in Entries, MsgEnds(e) PROVE Rounds!Turn
    <3>1. Schedule(e) /\ Rounds!Ends(Round(e))
      BY <2>5 DEF MsgEnds
    <3>2. QED
      BY <1>1, <2>2, <3>1
  <2>6. ASSUME NEW e \in Entries, MsgResends(e) \/ MsgFallsBack(e) PROVE Rounds!Turn
    <3>1. Schedule(e) /\ Rounds!Waits("begin", Ready)
      BY <2>6 DEF MsgResends, MsgFallsBack
    <3>2. Ready \in BOOLEAN /\ Rounds!Finds("begin", Ready)
      <4>1. Ready \in BOOLEAN /\ Ready \in {readyToLoad, TRUE}
        BY <2>2, <3>1
      <4>2. deviceEnDisCur' \in BOOLEAN
        BY <1>0, <3>1 DEF Schedule, Device
      <4>3. QED
        BY <4>1, <4>2
    <3>3. QED
      BY <1>1, <3>1, <3>2
  <2>7. QED
    BY <1>5, <2>1, <2>3, <2>4, <2>5, <2>6 DEF NormalMode
<1>6. CASE \E p \in Positions : Tick100Display(p)
  <2>1. PICK p \in Positions : readyToLoad' = (readyToLoad \/ PowerUpDone(p))
                               /\ UNCHANGED << deviceEnDisCur, round >>
    BY <1>6 DEF Tick100Display
  <2>2. QED
    BY <1>0, <1>3, <2>1
<1>7. CASE Command
  <2>1. ASSUME NEW k \in 0..3, CmdSystemReset(k) PROVE Rounds!Turn
    BY <1>3, <2>1 DEF CmdSystemReset, SystemReset
  <2>2. QED
    BY <1>2, <1>7, <2>1 DEF Command, CmdDispFrm, DispFrm, CmdDispMsg, DispMsg, CmdDispAtomicFrm,
                            DispAtomic, CmdDisableEnableDevice, SetDevice, Store
<1>8. CASE Restart
  BY <1>4, <1>8 DEF Restart
<1>9. CASE ExtExpires \/ PowerEvent \/ FaultChanges \/ (\E x \in ExtIds : ExtInput(x)) \/ UNCHANGED vars
  BY <1>2, <1>9 DEF ExtExpires, PowerEvent, FaultChanges, ExtInput, vars, dispVars
<1>10. QED
  BY <1>5, <1>6, <1>7, <1>8, <1>9 DEF Next

(* The scheduler keeps its part of DisplayRound: only an entry that begins  *)
(* closes readyToLoad, the end of a round opens it, and the group is        *)
(* enabled or disabled only where a task begins (Group::NormalMode,         *)
(* EnDisDevice, TaskMsg).                                                   *)
THEOREM DisplayKeepsRound == Spec => KeepsRound
<1>1. Init => Rounds!RoundInit
  BY DEF Init, DisplayInit, Rounds!RoundInit
<1>2. FatalInv => TypeOK
  BY DEF FatalInv
<1>3. TypeOK /\ [Next]_vars => [Rounds!Turn]_(Rounds!roundVars)
  BY RoundStep
<1>4. QED
  BY <1>1, <1>2, <1>3, FatalInvariant, PTL DEF Spec, KeepsRound, Rounds!RoundSpec

-----------------------------------------------------------------------------
(* The dimming.                                                            *)
(* UciHardware also takes a table in which two neighbours are equal.  Then *)
(* a move down over them counts the level up, and the promise is broken.   *)
RisingTable == \A l \in 1..Len(Table) - 1 : Table[l] < Table[l + 1]

-----------------------------------------------------------------------------
(* The brightness of a step.                                               *)
LEMMA QuotNat ==
  ASSUME NEW d \in Nat, NEW j \in Nat, j <= Steps
  PROVE  Quot(d * j, Steps) \in 0..d
<1> DEFINE n == d * j
           q == n \div Steps
<1>1. n \in Nat /\ Steps \in Nat \ {0}
  BY DimmingConstants
<1>2. n <= d * Steps
  BY DimmingConstants
<1>3. q \in Nat /\ Steps * q <= n
  BY <1>1
<1>4. q <= d
  <2>1. Steps * q <= Steps * d
    BY <1>1, <1>2, <1>3
  <2> HIDE DEF q
  <2>2. QED
    BY <1>1, <1>3, <2>1
<1>5. QED
  BY <1>1, <1>3, <1>4 DEF Quot

LEMMA QuotGrows ==
  ASSUME NEW d \in Nat, NEW j \in Nat
  PROVE  Quot(d * j, Steps) <= Quot(d * (j + 1), Steps)
<1> DEFINE n == d * j
           m == d * (j + 1)
<1>1. n \in Nat /\ m \in Nat /\ n <= m /\ Steps \in Nat \ {0}
  BY DimmingConstants
<1> HIDE DEF n, m
<1>2. n \div Steps <= m \div Steps
  BY <1>1
<1>3. QED
  BY <1>1, <1>2 DEF Quot, n, m

LEMMA QuotOdd ==
  ASSUME NEW n \in Nat PROVE Quot(-n, Steps) = -Quot(n, Steps)
<1>1. Steps \in Nat \ {0}
  BY DimmingConstants
<1>2. n \div Steps \in Nat
  BY <1>1
<1>3. CASE n > 0
  <2>1. -n < 0 /\ -(-n) = n
    BY <1>3
  <2>2. QED
    BY <1>2, <1>3, <2>1 DEF Quot
<1>4. CASE n = 0
  <2>1. 0 \div Steps = 0
    BY <1>1
  <2>2. QED
    BY <1>4, <2>1 DEF Quot
<1>5. QED
  BY <1>3, <1>4

(* The values of a move run from one level to the other, without turning.  *)
LEMMA LevelIsByte == \A l \in Levels : Table[l] \in Nat /\ 1 <= Table[l] /\ Table[l] <= 255
<1> DEFINE B == 1..255
<1>1. Table \in Seq(B)
  BY DimmingConstants
<1>2. \A x \in B : x \in Nat /\ 1 <= x /\ x <= 255
  OBVIOUS
<1> HIDE DEF B
<1>3. QED
  BY <1>1, <1>2 DEF Levels

LEMMA ValueUp ==
  ASSUME NEW a \in Levels, NEW b \in Levels, Table[a] <= Table[b],
         NEW k \in 0..Steps - 1
  PROVE  /\ Value(a, b, k) \in Table[a]..Table[b]
         /\ k + 1 < Steps => Value(a, b, k) <= Value(a, b, k + 1)
<1> DEFINE d == Table[b] - Table[a]
<1>1. Table[a] \in Nat /\ Table[b] \in Nat /\ d \in Nat /\ Table[b] = Table[a] + d
  BY LevelIsByte
<1>2. k + 1 \in Nat /\ k + 1 <= Steps /\ Steps \in Nat
  BY DimmingConstants
<1> HIDE DEF d
<1>3. ASSUME NEW j \in 0..Steps - 1
      PROVE  Value(a, b, j) = IF j = Steps - 1 THEN Table[b] ELSE Table[a] + Quot(d * (j + 1), Steps)
  BY DEF Value, d
<1>4. Value(a, b, k) \in Table[a]..Table[b]
  <2>1. Quot(d * (k + 1), Steps) \in 0..d
    BY <1>1, <1>2, QuotNat
  <2>2. QED
    BY <1>1, <1>3, <2>1
<1>5. ASSUME k + 1 < Steps PROVE Value(a, b, k) <= Value(a, b, k + 1)
  <2>1. k + 1 \in 0..Steps - 1 /\ k # Steps - 1 /\ k + 1 + 1 <= Steps /\ k + 1 + 1 \in Nat
    BY <1>2, <1>5
  <2>2. Quot(d * (k + 1), Steps) \in 0..d /\ Quot(d * (k + 1 + 1), Steps) \in 0..d
    BY <1>1, <1>2, <2>1, QuotNat
  <2>3. Quot(d * (k + 1), Steps) <= Quot(d * (k + 1 + 1), Steps)
    BY <1>1, <1>2, QuotGrows
  <2>4. QED
    BY <1>1, <1>3, <2>1, <2>2, <2>3
<1>6. QED
  BY <1>4, <1>5

LEMMA ValueDown ==
  ASSUME NEW a \in Levels, NEW b \in Levels, Table[b] <= Table[a],
         NEW k \in 0..Steps - 1
  PROVE  /\ Value(a, b, k) \in Table[b]..Table[a]
         /\ k + 1 < Steps => Value(a, b, k + 1) <= Value(a, b, k)
<1> DEFINE d == Table[a] - Table[b]
<1>1. Table[a] \in Nat /\ Table[b] \in Nat /\ d \in Nat /\ Table[a] = Table[b] + d
  BY LevelIsByte
<1>2. k + 1 \in Nat /\ k + 1 <= Steps /\ Steps \in Nat
  BY DimmingConstants
<1>3. ASSUME NEW j \in 0..Steps - 1
      PROVE  Value(a, b, j) = IF j = Steps - 1 THEN Table[b] ELSE Table[a] - Quot(d * (j + 1), Steps)
  <2>1. j + 1 \in Nat /\ d * (j + 1) \in Nat /\ j + 1 <= Steps
    BY <1>1, <1>2
  <2>2. (Table[b] - Table[a]) * (j + 1) = -(d * (j + 1))
    BY <1>1, <2>1
  <2>3. Quot(-(d * (j + 1)), Steps) = -Quot(d * (j + 1), Steps)
    BY <2>1, QuotOdd
  <2>4. Quot(d * (j + 1), Steps) \in 0..d
    BY <1>1, <2>1, QuotNat
  <2>5. QED
    BY <1>1, <2>2, <2>3, <2>4 DEF Value
<1> HIDE DEF d
<1>4. Value(a, b, k) \in Table[b]..Table[a]
  <2>1. Quot(d * (k + 1), Steps) \in 0..d
    BY <1>1, <1>2, QuotNat
  <2>2. QED
    BY <1>1, <1>3, <2>1
<1>5. ASSUME k + 1 < Steps PROVE Value(a, b, k + 1) <= Value(a, b, k)
  <2>1. k + 1 \in 0..Steps - 1 /\ k # Steps - 1 /\ k + 1 + 1 <= Steps /\ k + 1 + 1 \in Nat
    BY <1>2, <1>5
  <2>2. Quot(d * (k + 1), Steps) \in 0..d /\ Quot(d * (k + 1 + 1), Steps) \in 0..d
    BY <1>1, <1>2, <2>1, QuotNat
  <2>3. Quot(d * (k + 1), Steps) <= Quot(d * (k + 1 + 1), Steps)
    BY <1>1, <1>2, QuotGrows
  <2>4. QED
    BY <1>1, <1>3, <2>1, <2>2, <2>3
<1>6. QED
  BY <1>4, <1>5

(* So each lies between, and each next one between it and the goal.        *)
LEMMA ValueBetween ==
  ASSUME NEW a \in Levels, NEW b \in Levels, NEW k \in 0..Steps - 1
  PROVE  /\ Value(a, b, k) \in Nat /\ 1 <= Value(a, b, k) /\ Value(a, b, k) <= 255
         /\ Between(Table[a], Table[b], Value(a, b, k))
         /\ k + 1 < Steps => Between(Value(a, b, k), Table[b], Value(a, b, k + 1))
<1>1. /\ Table[a] \in Nat /\ 1 <= Table[a] /\ Table[a] <= 255
      /\ Table[b] \in Nat /\ 1 <= Table[b] /\ Table[b] <= 255
      /\ Steps \in Nat
  BY LevelIsByte, DimmingConstants
<1>2. CASE Table[a] <= Table[b]
  <2>1. /\ Value(a, b, k) \in Table[a]..Table[b]
        /\ k + 1 < Steps => Value(a, b, k) <= Value(a, b, k + 1)
    BY <1>2, ValueUp
  <2>2. k + 1 < Steps => k + 1 \in 0..Steps - 1
    BY <1>1
  <2>3. k + 1 < Steps => Value(a, b, k + 1) \in Table[a]..Table[b]
    BY <1>2, <2>2, ValueUp
  <2>4. QED
    BY <1>1, <2>1, <2>3 DEF Between
<1>3. CASE Table[b] <= Table[a]
  <2>1. /\ Value(a, b, k) \in Table[b]..Table[a]
        /\ k + 1 < Steps => Value(a, b, k + 1) <= Value(a, b, k)
    BY <1>3, ValueDown
  <2>2. k + 1 < Steps => k + 1 \in 0..Steps - 1
    BY <1>1
  <2>3. k + 1 < Steps => Value(a, b, k + 1) \in Table[b]..Table[a]
    BY <1>3, <2>2, ValueDown
  <2>4. QED
    BY <1>1, <2>1, <2>3 DEF Between
<1>4. QED
  BY <1>1, <1>2, <1>3

-----------------------------------------------------------------------------
(* There is a level to go to, whatever the sensors say.                    *)
LEMMA LeastLevel ==
  ASSUME NEW W \in SUBSET Levels, W # {}
  PROVE  \E l \in W : \A k \in W : l <= k
<1> DEFINE C == { 1..l : l \in W }
<1>1. Levels \subseteq Nat /\ IsFiniteSet(Levels)
  BY DimmingConstants, FS_Interval DEF Levels
<1>2. C \subseteq FiniteSubsetsOf(Levels) /\ C # {}
  <2>1. ASSUME NEW l \in W PROVE 1..l \in FiniteSubsetsOf(Levels)
    <3>1. 1..l \in SUBSET Levels
      BY DimmingConstants DEF Levels
    <3>2. IsFiniteSet(1..l)
      BY <1>1, <3>1, FS_Subset
    <3>3. QED
      BY <3>1, <3>2 DEF FiniteSubsetsOf
  <2>2. QED
    BY <2>1
<1>3. PICK c \in C : \A b \in C : <<b, c>> \notin StrictSubsetOrdering(Levels)
  <2> HIDE DEF C
  <2>1. QED
    BY <1>2, FS_StrictSubsetOrderingWellFounded, WFMin
<1>4. PICK l \in W : c = 1..l
  BY <1>3
<1>5. ASSUME NEW k \in W, k < l PROVE FALSE
  <2>1. 1..k \subseteq 1..l /\ 1..k # 1..l
    <3>1. l \in 1..l /\ l \notin 1..k
      BY <1>1, <1>5
    <3>2. QED
      BY <1>1, <1>5, <3>1
  <2>2. 1..k \in SUBSET Levels /\ 1..l \in SUBSET Levels
    BY DimmingConstants DEF Levels
  <2>3. <<1..k, c>> \in StrictSubsetOrdering(Levels)
    BY <1>4, <2>1, <2>2 DEF StrictSubsetOrdering
  <2>4. QED
    BY <1>3, <2>3
<1>6. QED
  BY <1>1, <1>5

LEMMA TargetIsLevel ==
  ASSUME target.set \in Commanded, twilight \in Twilights
  PROVE  TargetLvl \in Levels
<1>1. Len(Table) \in Levels /\ twilight \in Levels
  BY DimmingConstants DEF Levels
<1>2. LuxLevel \in Levels
  <2> DEFINE lux == LuxSum[Working] \div Cardinality(Working)
             Within == { l \in Levels : lux <= Luminance[l] }
  <2>1. Within # {} => \E l \in Within : \A k \in Within : l <= k
    BY LeastLevel
  <2> HIDE DEF lux
  <2>2. Within # {} => (CHOOSE l \in Within : \A k \in Within : l <= k) \in Levels
    BY <2>1
  <2>3. LuxLevel = IF Working = {} THEN twilight
                   ELSE IF Within = {} THEN Len(Table)
                        ELSE CHOOSE l \in Within : \A k \in Within : l <= k
    BY DEF LuxLevel, lux
  <2> HIDE DEF Within
  <2>4. QED
    BY <1>1, <2>2, <2>3
<1>3. QED
  BY <1>2 DEF TargetLvl, Commanded

-----------------------------------------------------------------------------
(* Inside a move the brightness sent is that of the step, and the level is *)
(* the one left until the last step; at rest it is that of the level.      *)
InMove ==
  /\ adjust.to \in {adjust.from - 1, adjust.from + 1}
  /\ lvl = IF adjust.step = Steps - 1 THEN adjust.to ELSE adjust.from
  /\ sent = Value(adjust.from, adjust.to, adjust.step)

AdjustTyped ==
  adjust \in [line : {"begin", "rest", "send", "timer"}, from : Levels, to : Levels,
              step : 0..Steps - 1]

BrightInv ==
  /\ lvl \in Levels /\ AdjustTyped
  /\ target \in [boot : BOOLEAN, set : Commanded] /\ savedDim \in Commanded
  /\ twilight \in Twilights
  /\ adjust.line = "begin" => sent = Unset
  /\ adjust.line = "rest" => sent \in {Unset, Table[lvl]}
  /\ adjust.line \in {"send", "timer"} => InMove

LEMMA BrightInit == DimInit => BrightInv
<1>1. 1 \in Levels /\ 0 \in 0..Steps - 1
  BY DimmingConstants DEF Levels
<1>2. QED
  BY <1>1 DEF DimInit, FirstTarget, FirstAdjust, BrightInv, AdjustTyped, Commanded

(* A turn of the loop: the next step of a move to a neighbour.             *)
LEMMA TurnKeeps ==
  ASSUME RisingTable, NEW a \in Levels, NEW b \in Levels, b \in {a - 1, a + 1},
         NEW k \in 0..Steps - 1, lvl = a, Turn(a, b, k)
  PROVE  AdjustTyped' /\ lvl' \in Levels /\ adjust'.line \in {"send", "timer"} /\ InMove'
<1>1. adjust' = [line |-> IF sent = Value(a, b, k) THEN "timer" ELSE "send",
                 from |-> a, to |-> b, step |-> k]
  BY DEF Turn
<1>2. AdjustTyped' /\ adjust'.line \in {"send", "timer"}
  BY <1>1 DEF AdjustTyped
<1>3. adjust'.from = a /\ adjust'.to = b /\ adjust'.step = k
  BY <1>1
<1>4. Arrived(a, b) = b
  <2>1. Table[a] \in Nat /\ Table[b] \in Nat
    BY LevelIsByte
  <2>2. CASE b = a + 1
    <3>1. Table[a] < Table[b]
      BY <2>2, DimmingConstants DEF RisingTable, Levels
    <3>2. QED
      BY <2>1, <2>2, <3>1 DEF Arrived
  <2>3. CASE b = a - 1
    <3>1. b + 1 = a /\ b \in 1..Len(Table) - 1
      BY <2>3, DimmingConstants DEF Levels
    <3>2. Table[b] < Table[a]
      BY <3>1 DEF RisingTable
    <3>3. QED
      BY <2>3, <3>2 DEF Arrived
  <2>4. QED
    BY <2>2, <2>3
<1>5. lvl' = IF k = Steps - 1 THEN b ELSE a
  BY <1>4 DEF Turn
<1>6. sent' = Value(a, b, k)
  BY DEF Turn
<1>7. QED
  BY <1>2, <1>3, <1>5, <1>6 DEF InMove, Value

(* The move of each step that makes a turn.                                *)
LEMMA MoveTurns ==
  ASSUME BrightInv, DimMove
  PROVE  \E b \in Levels : b \in {lvl - 1, lvl + 1} /\ Turn(lvl, b, 0)
<1>1. TargetLvl \in Levels /\ TargetLvl # lvl /\ lvl \in Levels
  BY TargetIsLevel DEF BrightInv, DimMove
<1>2. (IF TargetLvl > lvl THEN lvl + 1 ELSE lvl - 1) \in Levels \cap {lvl - 1, lvl + 1}
  BY <1>1, DimmingConstants DEF Levels
<1>3. QED
  BY <1>2 DEF DimMove

LEMMA StepTurns ==
  ASSUME BrightInv, DimStep
  PROVE  /\ adjust.step \in 0..Steps - 1 /\ adjust.step + 1 \in 0..Steps - 1
         /\ adjust.from \in Levels /\ adjust.to \in Levels
         /\ adjust.to \in {adjust.from - 1, adjust.from + 1} /\ lvl = adjust.from
         /\ sent = Value(adjust.from, adjust.to, adjust.step)
         /\ Turn(adjust.from, adjust.to, adjust.step + 1)
<1>1. adjust.line = "timer" /\ adjust.step < Steps - 1
  BY DEF DimStep, At
<1>2. /\ adjust.step \in 0..Steps - 1
      /\ adjust.from \in Levels /\ adjust.to \in Levels
  BY DEF BrightInv, AdjustTyped
<1>3. InMove
  BY <1>1 DEF BrightInv
<1>4. adjust.step + 1 \in 0..Steps - 1 /\ adjust.step # Steps - 1
  BY <1>1, <1>2, DimmingConstants
<1>5. QED
  BY <1>2, <1>3, <1>4 DEF InMove, DimStep

LEMMA BrightInductive ==
  ASSUME RisingTable, BrightInv, [DimNext]_allVars
  PROVE  BrightInv'
<1>u. ASSUME UNCHANGED << lvl, adjust, sent >>,
             target' \in [boot : BOOLEAN, set : Commanded], savedDim' \in Commanded,
             twilight' \in Twilights
      PROVE  BrightInv'
  BY <1>u DEF BrightInv, AdjustTyped, InMove
<1>r. 1 \in Levels /\ 0 \in 0..Steps - 1
  BY DimmingConstants DEF Levels
<1>1. CASE DimBegin
  <2>1. adjust' = [adjust EXCEPT !.line = "rest"] /\ lvl' = lvl /\ adjust.line = "begin"
    BY <1>1 DEF DimBegin, At
  <2>2. sent' \in {Unset, Table[lvl']} /\ target' = [target EXCEPT !.boot = FALSE]
    BY <1>1, <2>1 DEF DimBegin, BrightInv
  <2>3. AdjustTyped' /\ adjust'.line = "rest"
    BY <2>1 DEF BrightInv, AdjustTyped
  <2>4. QED
    BY <1>1, <2>1, <2>2, <2>3 DEF DimBegin, BrightInv
<1>2. CASE DimMove
  <2>1. PICK b \in Levels : b \in {lvl - 1, lvl + 1} /\ Turn(lvl, b, 0)
    BY <1>2, MoveTurns
  <2>2. AdjustTyped' /\ lvl' \in Levels /\ adjust'.line \in {"send", "timer"} /\ InMove'
    BY <1>r, <2>1, TurnKeeps DEF BrightInv
  <2>3. QED
    BY <1>2, <2>2 DEF DimMove, BrightInv
<1>3. CASE DimSend
  <2>1. adjust' = [adjust EXCEPT !.line = "timer"] /\ adjust.line = "send" /\ UNCHANGED << lvl, sent >>
    BY <1>3 DEF DimSend, At
  <2>2. AdjustTyped' /\ adjust'.line = "timer"
        /\ adjust'.from = adjust.from /\ adjust'.to = adjust.to /\ adjust'.step = adjust.step
    BY <2>1 DEF BrightInv, AdjustTyped
  <2>3. InMove'
    BY <2>1, <2>2 DEF BrightInv, InMove, Value
  <2>4. QED
    BY <1>3, <2>1, <2>2, <2>3 DEF DimSend, BrightInv
<1>4. CASE DimStep
  <2>1. AdjustTyped' /\ lvl' \in Levels /\ adjust'.line \in {"send", "timer"} /\ InMove'
    BY <1>4, StepTurns, TurnKeeps
  <2>2. QED
    BY <1>4, <2>1 DEF DimStep, BrightInv
<1>5. CASE DimDone
  <2>1. /\ adjust' = [adjust EXCEPT !.line = "rest"] /\ UNCHANGED << lvl, sent >>
        /\ adjust.line = "timer" /\ adjust.step = Steps - 1
    BY <1>5 DEF DimDone, At
  <2>2. AdjustTyped' /\ adjust'.line = "rest"
    BY <2>1 DEF BrightInv, AdjustTyped
  <2>3. sent = Table[lvl]
    BY <2>1 DEF BrightInv, InMove, Value
  <2>4. QED
    BY <1>5, <2>1, <2>2, <2>3 DEF DimDone, BrightInv
<1>6. CASE PollExt
  BY <1>6, <1>u DEF PollExt, BrightInv
<1>7. CASE PowerStep
  BY <1>7, <1>u DEF PowerStep, BrightInv
<1>8. CASE DimRestart
  BY <1>8, <1>r DEF DimRestart, FirstTarget, FirstAdjust, BrightInv, AdjustTyped
<1>9. CASE LightChanges
  BY <1>9, <1>u DEF LightChanges, BrightInv
<1>10. CASE \E d \in Commanded : SetDimming(d)
  BY <1>10, <1>u DEF SetDimming, BrightInv
<1>11. CASE UNCHANGED allVars
  BY <1>11, <1>u DEF allVars, dimVars, BrightInv
<1>12. QED
  BY <1>1, <1>2, <1>3, <1>4, <1>5, <1>6, <1>7, <1>8, <1>9, <1>10, <1>11
     DEF DimNext, AdjustDimming

LEMMA BrightAlways ==
  ASSUME RisingTable PROVE DimSpec => []BrightInv
<1>1. BrightInv /\ [DimNext]_allVars => BrightInv'
  BY BrightInductive
<1>2. QED
  BY <1>1, BrightInit, PTL DEF DimSpec

(* The brightness the slaves are given is that of the level the group      *)
(* counts, and inside a move lies between the two levels, whatever power   *)
(* cut, command or light comes in the middle - for a table that rises.     *)
THEOREM DimmingIsLevel ==
  ASSUME RisingTable PROVE DimSpec => []BrightnessIsLevel
<1>1. BrightInv => BrightnessIsLevel
  <2>1. SUFFICES ASSUME BrightInv, sent # Unset
                 PROVE  IF adjust.line \in {"begin", "rest"} THEN sent = Table[lvl]
                        ELSE Between(Table[adjust.from], Table[adjust.to], sent)
    BY DEF BrightnessIsLevel
  <2>2. CASE adjust.line \in {"begin", "rest"}
    BY <2>1, <2>2 DEF BrightInv
  <2>3. CASE adjust.line \notin {"begin", "rest"}
    <3>1. adjust.line \in {"send", "timer"} /\ adjust.from \in Levels /\ adjust.to \in Levels
          /\ adjust.step \in 0..Steps - 1
      BY <2>1, <2>3 DEF BrightInv, AdjustTyped
    <3>2. sent = Value(adjust.from, adjust.to, adjust.step)
      BY <2>1, <3>1 DEF BrightInv, InMove
    <3>3. QED
      BY <2>3, <3>1, <3>2, ValueBetween
  <2>4. QED
    BY <2>2, <2>3
<1>2. QED
  BY <1>1, BrightAlways, PTL

-----------------------------------------------------------------------------
(* A turn whose value lies towards the goal is no flash.                   *)
NoFlashStep ==
  sent # Unset /\ sent' \notin {sent, Unset} =>
    /\ Between(sent, Table[adjust'.to], sent')
    /\ Distance(adjust'.from, adjust'.to) = 1

LEMMA TurnNears ==
  ASSUME NEW a \in Levels, NEW b \in Levels, b \in {a - 1, a + 1}, NEW k \in 0..Steps - 1,
         Turn(a, b, k), Between(sent, Table[b], Value(a, b, k))
  PROVE  Between(sent, Table[adjust'.to], sent') /\ Distance(adjust'.from, adjust'.to) = 1
<1>1. adjust'.from = a /\ adjust'.to = b /\ sent' = Value(a, b, k)
  BY DEF Turn
<1>2. Distance(a, b) = 1
  BY DEF Distance, Levels
<1>3. QED
  BY <1>1, <1>2

(* A new brightness goes towards the level of the move, one level away:    *)
(* the signs never flash - for a table that rises.                         *)
THEOREM DimmingNeverFlashes ==
  ASSUME RisingTable PROVE DimSpec => NoFlash
<1>1. ASSUME BrightInv, [DimNext]_allVars PROVE [NoFlashStep]_allVars
  <2>1. SUFFICES ASSUME DimNext, sent # Unset, sent' \notin {sent, Unset}
                 PROVE  /\ Between(sent, Table[adjust'.to], sent')
                        /\ Distance(adjust'.from, adjust'.to) = 1
    BY <1>1 DEF NoFlashStep
  <2>2. CASE DimMove
    <3>1. PICK b \in Levels : b \in {lvl - 1, lvl + 1} /\ Turn(lvl, b, 0)
      BY <1>1, <2>2, MoveTurns
    <3>2. sent = Table[lvl] /\ lvl \in Levels /\ 0 \in 0..Steps - 1
      BY <1>1, <2>1, <2>2, DimmingConstants DEF BrightInv, DimMove, At
    <3>3. Between(sent, Table[b], Value(lvl, b, 0))
      BY <3>2, ValueBetween
    <3>4. QED
      BY <3>1, <3>2, <3>3, TurnNears
  <2>3. CASE DimStep
    <3> DEFINE a == adjust.from
               b == adjust.to
               k == adjust.step
    <3>1. /\ k \in 0..Steps - 1 /\ k + 1 \in 0..Steps - 1
          /\ a \in Levels /\ b \in Levels /\ b \in {a - 1, a + 1}
          /\ sent = Value(a, b, k) /\ Turn(a, b, k + 1)
      BY <1>1, <2>3, StepTurns
    <3> HIDE DEF a, b, k
    <3>2. k + 1 < Steps
      BY <3>1, DimmingConstants
    <3>3. Between(sent, Table[b], Value(a, b, k + 1))
      BY <3>1, <3>2, ValueBetween
    <3>4. QED
      BY <3>1, <3>3, TurnNears
  <2>4. CASE DimBegin
    BY <1>1, <2>1, <2>4 DEF DimBegin, At, BrightInv
  <2>5. ASSUME UNCHANGED sent PROVE FALSE
    BY <2>1, <2>5
  <2>6. CASE DimSend \/ DimDone \/ PollExt \/ PowerStep \/ LightChanges
    BY <2>5, <2>6 DEF DimSend, DimDone, PollExt, PowerStep, LightChanges
  <2>7. CASE DimRestart
    BY <2>1, <2>7 DEF DimRestart
  <2>8. CASE \E d \in Commanded : SetDimming(d)
    BY <2>5, <2>8 DEF SetDimming
  <2>9. QED
    BY <2>1, <2>2, <2>3, <2>4, <2>6, <2>7, <2>8 DEF DimNext, AdjustDimming
<1>2. BrightInv /\ [DimNext]_allVars => [NoFlashStep]_allVars
  BY <1>1
<1>3. QED
  BY <1>2, BrightAlways, PTL DEF DimSpec, NoFlash, NoFlashStep
=============================================================================
