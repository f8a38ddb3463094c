------------------------------- MODULE Dimming -------------------------------
(***************************************************************************)
(* The brightness of a sign group (TaskAdjustDimming and SetDimming of     *)
(* src/src/sign/Group.cpp) beside the power supervision of GroupPower.     *)
(*                                                                         *)
(* The level wanted is the one commanded or, when that is 0, the one the   *)
(* light sensors of the signs ask for.  The task goes there level by level *)
(* and through each level in Steps brightness values, which every ext      *)
(* status request carries to the slaves.  It runs only while the group is  *)
(* on, and goes on from the line where a power cut stopped it.             *)
(***************************************************************************)
EXTENDS GroupPower, Integers, Sequences, FiniteSets

CONSTANTS
  Table,      \* UciHardware::dimming, the brightness of each level
  Steps,      \* 16
  Signs,      \* the signs of the group
  Readings,   \* what their light sensors read
  Luminance,  \* UciUserCfg::luminance, the highest reading of each level
  Twilights   \* NightDimmingLevel, DawnDimmingLevel, DayDimmingLevel

Levels == 1..Len(Table)

ASSUME DimmingConstants ==
  /\ Steps \in Nat \ {0}
  /\ Table \in Seq(1..255) /\ Table # << >>
  /\ \A l \in 1..Len(Table) - 1 : Table[l] <= Table[l + 1]
  /\ Luminance \in [Levels -> Nat]
  /\ Twilights \subseteq Levels
  /\ Readings \subseteq Nat

VARIABLES
  lvl,        \* currentDimmingLvl
  target,     \* targetDimmingLvl: its flag 0x80 and the level commanded
  savedDim,   \* UciProcess: the level commanded, survives a restart
  adjust,     \* TaskAdjustDimming: its line, the levels it moves between, its step
  sent,       \* setDimming, Unset until the first assignment
  told,       \* the slaves have got setDimming
  light,      \* per sign: what its sensor says
  twilight    \* the level of the time of day

dimVars == << lvl, target, savedDim, adjust, sent, told, light, twilight >>
allVars == << powerVars, dimVars >>

Unset   == -1
Unread  == 65535   \* Sign::Lux while lsConnectionFault was never judged
Faulty  == -2      \* luminanceFault
Lights  == Readings \cup {Unread, Faulty}
Commanded == Levels \cup {0}

Between(a, b, x) == (a <= x /\ x <= b) \/ (b <= x /\ x <= a)

DimTypeOK ==
  /\ PowerTypeOK
  /\ lvl \in Levels
  /\ target \in [boot : BOOLEAN, set : Commanded]
  /\ savedDim \in Commanded
  /\ adjust \in [line : {"begin", "rest", "send", "timer"}, from : Levels, to : Levels,
                 step : 0..Steps - 1]
  /\ sent \in {Unset} \cup 1..255
  /\ told \in BOOLEAN
  /\ light \in [Signs -> Lights] /\ twilight \in Twilights

-----------------------------------------------------------------------------
LuxSum[S \in SUBSET Signs] ==
  IF S = {} THEN 0 ELSE LET s == CHOOSE s \in S : TRUE IN light[s] + LuxSum[S \ {s}]

Working == { s \in Signs : light[s] # Faulty }

(* UciUserCfg::GetLuxLevel of the average of the working sensors. *)
LuxLevel ==
  IF Working = {} THEN twilight
  ELSE LET lux == LuxSum[Working] \div Cardinality(Working)
           Within == { l \in Levels : lux <= Luminance[l] }
       IN IF Within = {} THEN Len(Table) ELSE CHOOSE l \in Within : \A k \in Within : l <= k

TargetLvl == IF target.set = 0 THEN LuxLevel ELSE target.set

(* Division truncates towards zero. *)
Quot(a, b) == IF a >= 0 THEN a \div b ELSE -((-a) \div b)

Value_StepTooFar(from, to, k) == Table[from] + Quot((Table[to] - Table[from]) * (k + 2), Steps)

(* The brightness of step k of a move. *)
Value(from, to, k) ==
  IF k = Steps - 1 THEN Table[to]
  ELSE Table[from] + Quot((Table[to] - Table[from]) * (k + 1), Steps)

Arrived_Up(from, to) == from + 1

(* The level changes with the last step, up unless the brightness goes down. *)
Arrived(from, to) == IF Table[to] < Table[from] THEN from - 1 ELSE from + 1

(* One turn of the for loop: a new value is sent, then its time is waited. *)
Turn(from, to, k) ==
  LET dv == Value(from, to, k)
  IN /\ sent' = dv
     /\ lvl' = IF k = Steps - 1 THEN Arrived(from, to) ELSE lvl
     /\ told' = (told /\ sent = dv)
     /\ adjust' = [ line |-> IF sent = dv THEN "timer" ELSE "send",
                    from |-> from, to |-> to, step |-> k ]

At(line) == IsPowerOn /\ adjust.line = line

(* The first call sends the brightness of level 1, unless a command has     *)
(* taken the flag away.                                                     *)
DimBegin ==
  /\ At("begin")
  /\ adjust' = [adjust EXCEPT !.line = "rest"]
  /\ target' = [target EXCEPT !.boot = FALSE]
  /\ IF target.boot THEN sent' = Table[lvl] /\ told' = TRUE ELSE UNCHANGED << sent, told >>
  /\ UNCHANGED << powerVars, lvl, savedDim, light, twilight >>

DimMove_OnCommand ==
  /\ At("rest") /\ TargetLvl # lvl /\ target.set # 0
  /\ Turn(lvl, IF TargetLvl > lvl THEN lvl + 1 ELSE lvl - 1, 0)
  /\ UNCHANGED << powerVars, target, savedDim, light, twilight >>

(* A move to the next level towards the target. *)
DimMove ==
  /\ At("rest") /\ TargetLvl # lvl
  /\ Turn(lvl, IF TargetLvl > lvl THEN lvl + 1 ELSE lvl - 1, 0)
  /\ UNCHANGED << powerVars, target, savedDim, light, twilight >>

DimSend ==
  /\ At("send")
  /\ told' = TRUE /\ adjust' = [adjust EXCEPT !.line = "timer"]
  /\ UNCHANGED << powerVars, lvl, target, savedDim, sent, light, twilight >>

DimStep ==
  /\ At("timer") /\ adjust.step < Steps - 1
  /\ Turn(adjust.from, adjust.to, adjust.step + 1)
  /\ UNCHANGED << powerVars, target, savedDim, light, twilight >>

DimDone ==
  /\ At("timer") /\ adjust.step = Steps - 1
  /\ adjust' = [adjust EXCEPT !.line = "rest"]
  /\ UNCHANGED << powerVars, lvl, target, savedDim, sent, told, light, twilight >>

(* Every ext status request carries setDimming. *)
PollExt ==
  /\ IsPowerOn /\ adjust.line # "begin" /\ ~told
  /\ told' = TRUE
  /\ UNCHANGED << powerVars, lvl, target, savedDim, adjust, sent, light, twilight >>

AdjustDimming == DimBegin \/ DimMove \/ DimSend \/ DimStep \/ DimDone

-----------------------------------------------------------------------------
(* SetDimming, from CmdSetDimmingLevel of a master or the web page, and from *)
(* a system reset.                                                          *)
SetDimming(d) ==
  /\ target' = [boot |-> FALSE, set |-> d] /\ savedDim' = d
  /\ UNCHANGED << powerVars, lvl, adjust, sent, told, light, twilight >>

(* A sensor reads something else, fails or is found connected. *)
LightChanges ==
  /\ \/ \E s \in Signs, x \in Lights \ {Unread} :
          light' = [light EXCEPT ![s] = x] /\ UNCHANGED twilight
     \/ twilight' \in Twilights /\ UNCHANGED light
  /\ UNCHANGED << powerVars, lvl, target, savedDim, adjust, sent, told >>

(* The slaves forget their brightness while they have no power; PowerFunc    *)
(* ends a power-up with an ext status request to all of them.               *)
PowerStep ==
  /\ UpNext
  /\ told' = IF IsPowerOn' THEN told \/ ~IsPowerOn ELSE FALSE
  /\ UNCHANGED << lvl, target, savedDim, adjust, sent, light, twilight >>

(* The constructors of Group and Sign. *)
FirstTarget(d) == [boot |-> TRUE, set |-> d]
FirstAdjust    == [line |-> "begin", from |-> 1, to |-> 1, step |-> 0]

DimInit ==
  /\ PowerInit
  /\ savedDim \in Commanded /\ twilight \in Twilights
  /\ lvl = 1 /\ target = FirstTarget(savedDim)
  /\ adjust = FirstAdjust /\ sent = Unset /\ told = FALSE
  /\ light \in [Signs -> {Unread, Faulty}]

DimRestart ==
  /\ PowerRestart
  /\ UNCHANGED << savedDim, twilight >>
  /\ lvl' = 1 /\ target' = FirstTarget(savedDim)
  /\ adjust' = FirstAdjust /\ sent' = Unset /\ told' = FALSE
  /\ light' \in [Signs -> {Unread, Faulty}]

DimNext ==
  \/ AdjustDimming \/ PollExt \/ PowerStep \/ DimRestart \/ LightChanges
  \/ \E d \in Commanded : SetDimming(d)

(* The timer event keeps firing (see GroupPower): the task goes on, a poll   *)
(* comes, and a power-up that has begun ends.                               *)
DimSpec ==
  /\ DimInit /\ [][DimNext]_allVars
  /\ WF_allVars(AdjustDimming) /\ WF_allVars(PollExt)
  /\ WF_powerVars(PowerStep /\ Tick100) /\ WF_powerVars(PowerStep /\ PwrUpExpires)

-----------------------------------------------------------------------------
(* Whenever the task rests, the brightness sent is that of the level it     *)
(* counts; during a move it lies between the two levels, even when a power   *)
(* cut or a new command came in the middle.                                 *)
BrightnessIsLevel ==
  sent # Unset =>
    IF adjust.line \in {"begin", "rest"} THEN sent = Table[lvl]
    ELSE Between(Table[adjust.from], Table[adjust.to], sent)

(* No flash: a new brightness is nearer to the level the task goes to than   *)
(* the one before, whatever is commanded or read meanwhile.                  *)
Distance(x, y) == IF x > y THEN x - y ELSE y - x
NoFlash ==
  [][ (sent # Unset /\ sent' \notin {sent, Unset}) =>
        /\ Between(sent, Table[adjust'.to], sent')
        /\ Distance(adjust'.from, adjust'.to) = 1 ]_allVars

(* With the group on, the target unchanged and setDimming once assigned, the *)
(* slaves get the brightness of the target level in the end: the level       *)
(* commanded, or the one of the sensors.                                     *)
Settled == IsPowerOn /\ sent # Unset
ReachesTarget ==
  \A l \in Levels :
    <>[](Settled /\ TargetLvl = l) => <>[](lvl = l /\ sent = Table[l] /\ told)
=============================================================================
