----------------------------- MODULE GroupPower -----------------------------
(***************************************************************************)
(* Power supervision of one sign group (src/src/sign/Group.cpp).           *)
(*                                                                         *)
(* A group is on only while three sources agree: the mains, the power      *)
(* command of the master and the facility switch on the door.  A source    *)
(* that returns waits in "RISING" until the slaves have had time to boot;  *)
(* then all three go to "ON" in one step.  Every 100 ms Group::PeriodicRun *)
(* runs FcltSwitchFunc and PowerFunc one after the other: the action       *)
(* Tick100 below.  The mains input itself is debounced by the controller   *)
(* (PowerMonitor), which only reports its edges.                           *)
(***************************************************************************)
EXTENDS Naturals

VARIABLES
  mains,         \* Controller::pMainPwr after debouncing: "NA", "ok", "failed"
  powerFailure,  \* DEV::ERROR::PowerFailure in Controller::ctrllerError, saved on change
  fs,            \* FacilitySwitch::fsState of the group
  cmdPwr, fsPwr, mainPwr, \* the three sources, enum PWR_STATE
  pwrUpTmr,      \* BootTimer of the power-up delay: "clear", "running", "expired"
  savedPower     \* UciProcess: the last commanded power, survives a restart

powerVars == << mains, powerFailure, fs, cmdPwr, fsPwr, mainPwr, pwrUpTmr,
                savedPower >>

PwrState == {"OFF", "ON", "RISING", "NA"}
FsState  == {"NA", "OFF", "AUTO", "MSG1", "MSG2"}
Timer    == {"clear", "running", "expired"}

PowerTypeOK ==
  /\ mains \in {"NA", "ok", "failed"}
  /\ powerFailure \in BOOLEAN
  /\ fs \in FsState
  /\ cmdPwr \in {"OFF", "ON", "RISING"}
  /\ fsPwr \in PwrState
  /\ mainPwr \in PwrState
  /\ pwrUpTmr \in Timer
  /\ savedPower \in BOOLEAN

(* Names of the form Op_Bug are mutants: Op as a plausible bug would have  *)
(* it.  No specification uses them; the README says which property each    *)
(* one breaks.                                                             *)

(* The constructor of Group: only the commanded power is read back. *)
Boot(power) ==
  [ fs |-> "NA", cmdPwr |-> IF power THEN "RISING" ELSE "OFF",
    fsPwr |-> "NA", mainPwr |-> "NA", pwrUpTmr |-> "clear" ]

PowerInit ==
  /\ mains = "NA"
  /\ powerFailure \in BOOLEAN
  /\ savedPower \in BOOLEAN
  /\ fs = Boot(savedPower).fs
  /\ cmdPwr = Boot(savedPower).cmdPwr
  /\ fsPwr = Boot(savedPower).fsPwr
  /\ mainPwr = Boot(savedPower).mainPwr
  /\ pwrUpTmr = Boot(savedPower).pwrUpTmr

(* The process exits at any point and is started again. *)
PowerRestart ==
  /\ mains' = "NA"
  /\ fs' = Boot(savedPower).fs
  /\ cmdPwr' = Boot(savedPower).cmdPwr
  /\ fsPwr' = Boot(savedPower).fsPwr
  /\ mainPwr' = Boot(savedPower).mainPwr
  /\ pwrUpTmr' = Boot(savedPower).pwrUpTmr
  /\ UNCHANGED << powerFailure, savedPower >>

-----------------------------------------------------------------------------

IsPowerOn == cmdPwr = "ON" /\ fsPwr = "ON" /\ mainPwr = "ON"

(* The debounced position the switch may be found in at the next 100 ms.   *)
(* Once it has been read it never becomes NA again: an invalid key leaves  *)
(* fsState as it was.                                                      *)
Positions == {fs} \cup {"OFF", "AUTO", "MSG1", "MSG2"}

(* fsPwr after FcltSwitchFunc has read position p. *)
FcltPwr(p) ==
  IF p = fs THEN fsPwr
  ELSE IF p = "OFF" THEN "OFF"
  ELSE IF fsPwr = "OFF" THEN "RISING"
  ELSE IF fsPwr = "NA" THEN "ON" ELSE fsPwr

FcltRequest_NotAuto(p) == p # fs /\ p \notin {"OFF", "AUTO"} /\ fsPwr \in {"ON", "RISING"}

(* FcltSwitchFunc puts a request in dsNext only when the switch moved      *)
(* between two powered positions.                                          *)
FcltRequest(p) == p # fs /\ p # "OFF" /\ fsPwr \in {"ON", "RISING"}

MainPwr_OffSticks ==
  IF powerFailure THEN "OFF" ELSE IF mainPwr = "NA" THEN "RISING" ELSE mainPwr

(* mainPwr at the head of PowerFunc. *)
MainPwr ==
  IF powerFailure THEN "OFF"
  ELSE IF mainPwr \in {"OFF", "NA"} THEN "RISING" ELSE mainPwr

Sources(p) == {MainPwr, cmdPwr, FcltPwr(p)}

AnyOff(p)    == "OFF" \in Sources(p)
AnyRising(p) == "OFF" \notin Sources(p) /\ "RISING" \in Sources(p)

PowerUpDone(p)  == AnyRising(p) /\ pwrUpTmr = "expired"
PowerUpStart(p) == AnyRising(p) /\ pwrUpTmr = "clear"

Tick100Power_KeepsFs(p) ==
  /\ fs' = p
  /\ IF PowerUpDone(p)
     THEN mainPwr' = "ON" /\ cmdPwr' = "ON" /\ fsPwr' = FcltPwr(p)
     ELSE mainPwr' = MainPwr /\ fsPwr' = FcltPwr(p) /\ cmdPwr' = cmdPwr
  /\ pwrUpTmr' = IF AnyOff(p) \/ PowerUpDone(p) THEN "clear"
                 ELSE IF PowerUpStart(p) THEN "running" ELSE pwrUpTmr
  /\ UNCHANGED << mains, powerFailure, savedPower >>

(* FcltSwitchFunc followed by PowerFunc.  What they ask of the display is  *)
(* in module GroupDisplay.                                                 *)
Tick100Power(p) ==
  /\ fs' = p
  /\ IF PowerUpDone(p)
     THEN mainPwr' = "ON" /\ cmdPwr' = "ON" /\ fsPwr' = "ON"
     ELSE mainPwr' = MainPwr /\ fsPwr' = FcltPwr(p) /\ cmdPwr' = cmdPwr
  /\ pwrUpTmr' = IF AnyOff(p) \/ PowerUpDone(p) THEN "clear"
                 ELSE IF PowerUpStart(p) THEN "running" ELSE pwrUpTmr
  /\ UNCHANGED << mains, powerFailure, savedPower >>

(* SetPower(0): the MOSFET pin drops at once, the power state is saved. *)
PowerOff ==
  /\ cmdPwr # "OFF"
  /\ cmdPwr' = "OFF"
  /\ savedPower' = FALSE
  /\ UNCHANGED << mains, powerFailure, fs, fsPwr, mainPwr, pwrUpTmr >>

(* SetPower(1): nothing happens unless the group was off. *)
PowerOn ==
  /\ cmdPwr = "OFF"
  /\ cmdPwr' = "RISING"
  /\ savedPower' = TRUE
  /\ UNCHANGED << mains, powerFailure, fs, fsPwr, mainPwr, pwrUpTmr >>

CmdPowerOnOff == PowerOff \/ PowerOn

(* Controller::PowerMonitor: PowerFailure is pushed on an edge only. *)
PowerMonitor ==
  \E m \in {"ok", "failed"} \ {mains} :
    /\ mains' = m
    /\ powerFailure' = (m = "failed")
    /\ UNCHANGED << fs, cmdPwr, fsPwr, mainPwr, pwrUpTmr, savedPower >>

(* The part of CmdSystemReset, level 2 and above, that reaches the power   *)
(* supervision: every controller error is cleared and saved as cleared.    *)
ClearCtrllerError ==
  /\ powerFailure' = FALSE
  /\ UNCHANGED << mains, fs, cmdPwr, fsPwr, mainPwr, pwrUpTmr, savedPower >>

PwrUpExpires ==
  /\ pwrUpTmr = "running"
  /\ pwrUpTmr' = "expired"
  /\ UNCHANGED << mains, powerFailure, fs, cmdPwr, fsPwr, mainPwr, savedPower >>

Tick100 == \E p \in Positions : Tick100Power(p)

UpNext ==
  \/ Tick100
  \/ PwrUpExpires
  \/ CmdPowerOnOff
  \/ PowerMonitor
  \/ powerFailure /\ ClearCtrllerError

PowerNext == UpNext \/ PowerRestart

PowerSpec == PowerInit /\ [][PowerNext]_powerVars

(* The timer event of the epoll loop keeps firing and time passes; the     *)
(* master, the mains, the switch and crashes are under no obligation.      *)
PowerFairSpec ==
  /\ PowerSpec
  /\ WF_powerVars(Tick100)
  /\ WF_powerVars(PwrUpExpires)

-----------------------------------------------------------------------------
(* No power source waits for ever: once the mains have been read, either   *)
(* some source is off, or one is rising (so the delay will finish), or all *)
(* three are on.  PowerFunc only leaves "RISING" for all three at once, so *)
(* a source that reached "ON" alone beside an "NA" would hang the group.   *)
NeverWedged ==
  (mainPwr # "NA" /\ "OFF" \notin {cmdPwr, fsPwr, mainPwr})
    => \/ IsPowerOn
       \/ "RISING" \in {cmdPwr, fsPwr, mainPwr}

(* A group the master switched off is off after any crash, and no power-up *)
(* that was already counting turns it on behind the master's back.         *)
CommandSurvives == savedPower <=> cmdPwr # "OFF"

(* The facility switch in position OFF keeps the group dark, whatever the  *)
(* two other sources and their delay do meanwhile.                         *)
SwitchOffIsDark == fs = "OFF" => ~IsPowerOn

(* With the three sources left available from some point on, and no crash *)
(* after it, the group comes up and stays up, whatever came before.        *)
Available == ~powerFailure /\ cmdPwr # "OFF" /\ fs # "OFF"
ComesUp ==
  (<>[]Available /\ <>[][UpNext]_powerVars) => <>[]IsPowerOn
=============================================================================
