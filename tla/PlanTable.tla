----------------------------- MODULE PlanTable -----------------------------
(***************************************************************************)
(* The plans of the controller and the minute tables of its groups         *)
(* (Plan::Init, Group::EnDisPlan, Group::TaskPln, Controller::SignSetPlan, *)
(* Controller::CmdEnDisPlan).                                              *)
(*                                                                         *)
(* A plan names weekdays and up to six entries, each with a frame or       *)
(* message to show from a start to a stop minute.  A group writes the      *)
(* entries of its enabled plans into plnMin, one cell per minute of the    *)
(* week, and TaskPln looks up the current minute once a second.  Plans     *)
(* and the set of enabled ones survive a restart, the table is rebuilt     *)
(* from them.                                                              *)
(***************************************************************************)
EXTENDS Naturals, Sequences

CONSTANTS
  Groups,
  PlanIds,       \* 1..255 in the code
  FmIds,         \* frames and messages an entry may name
  DaysAWeek,     \* 7
  MinutesADay,   \* 1440
  PlanDefs       \* the plans a master may send

Days == 0 .. (DaysAWeek - 1)
MinutesAWeek == DaysAWeek * MinutesADay
Minutes == 0 .. (MinutesAWeek - 1)

PlnEntry == [fm : FmIds, start : 0 .. (MinutesADay - 1), stop : 0 .. (MinutesADay - 1)]
Plan == [weekdays : SUBSET Days, entries : Seq(PlnEntry)]

(* A Plan that Init has not accepted (micode 0). *)
Undefined == [weekdays |-> {}, entries |-> << >>]

ASSUME PlanConstants ==
  /\ DaysAWeek \in Nat \ {0} /\ MinutesADay \in Nat \ {0}
  /\ PlanIds \subseteq Nat \ {0}
  /\ PlanDefs \subseteq Plan /\ Undefined \notin PlanDefs

VARIABLES
  plns,         \* UciPln: the stored plan of each id, Undefined if none; saved
  enabledPln,   \* UciProcess: the enabled plans of each group; saved
  plnMin,       \* per group, the PlnMinute of each minute of the week
  onDispPlnId,  \* per group, the plan on display, 0 for none
  shown         \* history: onDispPlnId has been assigned since the restart

vars == << plns, enabledPln, plnMin, onDispPlnId, shown >>

PlnMinute == [plnId : PlanIds \cup {0}, fm : FmIds \cup {0}]
EmptyTable == [m \in Minutes |-> [plnId |-> 0, fm |-> 0]]

TypeOK ==
  /\ plns \in [PlanIds -> PlanDefs \cup {Undefined}]
  /\ enabledPln \in [Groups -> SUBSET PlanIds]
  /\ plnMin \in [Groups -> [Minutes -> PlnMinute]]
  /\ onDispPlnId \in [Groups -> PlanIds \cup {0}]
  /\ shown \in [Groups -> BOOLEAN]

-----------------------------------------------------------------------------
(* Plan::Init *)

Start(e) == e.start
Stop(e)  == IF e.start >= e.stop THEN e.stop + MinutesADay ELSE e.stop

(* The overlap check of Init, for entries i before j. *)
Collide(a, b) ==
  \/ Start(a) >= Start(b) /\ Start(a) < Stop(b)
  \/ Stop(a) > Start(b) /\ Stop(a) <= Stop(b)

InitAccepts(p) ==
  /\ p.weekdays # {}
  /\ Len(p.entries) \in 1 .. 6
  /\ \A i, j \in 1 .. Len(p.entries) : i < j => ~Collide(p.entries[i], p.entries[j])

-----------------------------------------------------------------------------
(* The minutes of entry e on weekday d: the do-while loop from start to    *)
(* stop, which steps over midnight and over the end of the week.           *)
Span_NoWrap(d, e) == {m \in Minutes : m >= d * MinutesADay + e.start /\ m < d * MinutesADay + Stop(e)}

Span(d, e) ==
  LET start == d * MinutesADay + e.start
      last  == d * MinutesADay + Stop(e)
      stop  == IF last >= MinutesAWeek THEN last - MinutesAWeek ELSE last
  IN  IF start < stop
      THEN {m \in Minutes : start <= m /\ m < stop}
      ELSE {m \in Minutes : start <= m \/ m < stop}

(* The visits of the loops over days and entries, in the order of a write. *)
Visits(p) == p.weekdays \X DOMAIN p.entries
At(p, v)  == Span(v[1], p.entries[v[2]])
Before(v, w) == v[1] < w[1] \/ (v[1] = w[1] /\ v[2] < w[2])

Covered(p) == UNION {At(p, v) : v \in Visits(p)}

LastVisit(p, m) ==
  CHOOSE v \in Visits(p) : /\ m \in At(p, v)
                           /\ \A w \in Visits(p) : m \in At(p, w) => ~Before(v, w)

(* IsEnPlanOverlap *)
IsEnPlanOverlap_StartOnly(tab, p) ==
  \E v \in Visits(p) : tab[v[1] * MinutesADay + p.entries[v[2]].start].plnId # 0
IsEnPlanOverlap(tab, p) == \E m \in Covered(p) : tab[m].plnId # 0

(* LoadPlanToPlnMin: later visits overwrite earlier ones. *)
LoadPlan(tab, id, p) ==
  [m \in Minutes |->
     IF m \in Covered(p)
     THEN [plnId |-> id, fm |-> p.entries[LastVisit(p, m)[2]].fm] ELSE tab[m]]

(* DisablePlan clears plnId only; an entry without a plan is never read. *)
UnloadPlan(tab, p) ==
  [m \in Minutes |-> IF m \in Covered(p) THEN EmptyTable[m] ELSE tab[m]]

(* The constructor loads the enabled plans in the order of their ids:      *)
(* later ones overwrite earlier ones.                                      *)
LoadAll_MissesLast(en, ps) ==
  [m \in Minutes |->
     LET owners == {q \in en : /\ ps[q] # Undefined /\ m \in Covered(ps[q])
                               /\ \E r \in PlanIds : q < r}
     IN  IF owners = {} THEN [plnId |-> 0, fm |-> 0]
         ELSE LET id == CHOOSE q \in owners : \A r \in owners : r <= q
              IN  LoadPlan(EmptyTable, id, ps[id])[m]]
LoadAll(en, ps) ==
  [m \in Minutes |->
     LET owners == {q \in en : ps[q] # Undefined /\ m \in Covered(ps[q])}
     IN  IF owners = {} THEN [plnId |-> 0, fm |-> 0]
         ELSE LET id == CHOOSE q \in owners : \A r \in owners : r <= q
              IN  LoadPlan(EmptyTable, id, ps[id])[m]]

-----------------------------------------------------------------------------
IsPlanDefined(id) == plns[id] # Undefined
IsPlanActive(g, id) == IF id = 0 THEN onDispPlnId[g] # 0 ELSE onDispPlnId[g] = id

Init ==
  /\ plns = [id \in PlanIds |-> Undefined]
  /\ enabledPln = [g \in Groups |-> {}]
  /\ plnMin = [g \in Groups |-> EmptyTable]
  /\ onDispPlnId \in [Groups -> PlanIds \cup {0}]
  /\ shown = [g \in Groups |-> FALSE]

(* The process exits and starts again.  onDispPlnId is not initialised by  *)
(* the constructor: any byte that the heap held.                           *)
Restart ==
  /\ plnMin' = [g \in Groups |-> LoadAll(enabledPln[g], plns)]
  /\ onDispPlnId' \in [Groups -> PlanIds \cup {0}]
  /\ shown' = [g \in Groups |-> FALSE]
  /\ UNCHANGED << plns, enabledPln >>

(* SignSetPlan: refused while any group shows the plan or has it enabled. *)
SignSetPlan(id, p) ==
  /\ \A g \in Groups : ~IsPlanActive(g, id) /\ id \notin enabledPln[g]
  /\ InitAccepts(p)
  /\ plns' = [plns EXCEPT ![id] = p]
  /\ UNCHANGED << enabledPln, plnMin, onDispPlnId, shown >>

(* EnDisPlan with id 0 empties the table, to enable as well as to disable. *)
EnDisAll(g) ==
  /\ ~IsPlanActive(g, 0)
  /\ plnMin' = [plnMin EXCEPT ![g] = EmptyTable]
  /\ enabledPln' = [enabledPln EXCEPT ![g] = {}]
  /\ UNCHANGED << plns, onDispPlnId, shown >>

EnablePlan(g, id) ==
  /\ ~IsPlanActive(g, id)
  /\ IsPlanDefined(id)
  /\ id \notin enabledPln[g]
  /\ ~IsEnPlanOverlap(plnMin[g], plns[id])
  /\ plnMin' = [plnMin EXCEPT ![g] = LoadPlan(@, id, plns[id])]
  /\ enabledPln' = [enabledPln EXCEPT ![g] = @ \cup {id}]
  /\ UNCHANGED << plns, onDispPlnId, shown >>

DisablePlan_Active(g, id) ==
  /\ IsPlanDefined(id)
  /\ id \in enabledPln[g]
  /\ plnMin' = [plnMin EXCEPT ![g] = UnloadPlan(@, plns[id])]
  /\ enabledPln' = [enabledPln EXCEPT ![g] = @ \ {id}]
  /\ UNCHANGED << plns, onDispPlnId, shown >>
DisablePlan(g, id) ==
  /\ ~IsPlanActive(g, id)
  /\ IsPlanDefined(id)
  /\ id \in enabledPln[g]
  /\ plnMin' = [plnMin EXCEPT ![g] = UnloadPlan(@, plns[id])]
  /\ enabledPln' = [enabledPln EXCEPT ![g] = @ \ {id}]
  /\ UNCHANGED << plns, onDispPlnId, shown >>

(* SystemReset of level 1 on one group, or on all of them; it forgets what *)
(* is on display first, so that EnDisPlan(0) is not refused.  From level 3 *)
(* on, for all groups only, the stored plans are erased too.               *)
SystemReset(gs, lvl) ==
  /\ onDispPlnId' = [g \in Groups |-> IF g \in gs THEN 0 ELSE onDispPlnId[g]]
  /\ plnMin' = [g \in Groups |-> IF g \in gs THEN EmptyTable ELSE plnMin[g]]
  /\ enabledPln' = [g \in Groups |-> IF g \in gs THEN {} ELSE enabledPln[g]]
  /\ plns' = IF lvl >= 3 THEN [id \in PlanIds |-> Undefined] ELSE plns
  /\ shown' = [g \in Groups |-> g \in gs \/ shown[g]]

CmdSystemReset ==
  \/ \E g \in Groups : SystemReset({g}, 1)
  \/ \E lvl \in {1, 3} : SystemReset(Groups, lvl)

(* What TaskPln finds at minute m of the week. *)
Current(g, m) ==
  LET id == plnMin[g][m].plnId IN IF id # 0 /\ IsPlanDefined(id) THEN id ELSE 0

(* TaskPln reads the clock, which the master may set (UpdateTime), while   *)
(* the plan is on display; what is on display is GroupDisplay's subject.   *)
TaskPln(g) ==
  \E m \in Minutes :
    /\ onDispPlnId' = [onDispPlnId EXCEPT ![g] = Current(g, m)]
    /\ shown' = [shown EXCEPT ![g] = TRUE]
    /\ UNCHANGED << plns, enabledPln, plnMin >>

(* TaskFrm and TaskMsg set onDispPlnId to 0 when they show a frame, a      *)
(* message, a switch message, an input or a blank.                         *)
OtherShown(g) ==
  /\ onDispPlnId' = [onDispPlnId EXCEPT ![g] = 0]
  /\ shown' = [shown EXCEPT ![g] = TRUE]
  /\ UNCHANGED << plns, enabledPln, plnMin >>

Next ==
  \/ \E id \in PlanIds, p \in PlanDefs : SignSetPlan(id, p)
  \/ \E g \in Groups : EnDisAll(g)
  \/ \E g \in Groups, id \in PlanIds : EnablePlan(g, id)
  \/ \E g \in Groups, id \in PlanIds : DisablePlan(g, id)
  \/ CmdSystemReset
  \/ \E g \in Groups : TaskPln(g) \/ OtherShown(g)
  \/ Restart

Spec == Init /\ [][Next]_vars

-----------------------------------------------------------------------------
(* The table says, at every minute, exactly which enabled plan owns it:    *)
(* no sequence of set, enable, disable, reset and restart leaves a cell of *)
(* a plan that is not enabled, loses one of an enabled plan or lets two    *)
(* plans share a minute.                                                   *)
TableExact ==
  \A g \in Groups, m \in Minutes :
    \A id \in PlanIds :
      plnMin[g][m].plnId = id
        <=> (id \in enabledPln[g] /\ IsPlanDefined(id) /\ m \in Covered(plns[id]))

(* What the table shows is what the calendar says of the stored plans: an  *)
(* entry holds from its start to its stop on each of its weekdays, or past *)
(* midnight into the day after.  Plans are changed only while no group has *)
(* them enabled, so the table never shows an older version of a plan.      *)
Holds(w, e, d, t) ==
  IF e.start < e.stop THEN d \in w /\ e.start <= t /\ t < e.stop
  ELSE \/ d \in w /\ e.start <= t
       \/ (d + DaysAWeek - 1) % DaysAWeek \in w /\ t < e.stop
TableIsCalendar ==
  \A g \in Groups, d \in Days, t \in 0 .. (MinutesADay - 1) :
    LET c == plnMin[g][d * MinutesADay + t]
        Showing(id) == {i \in DOMAIN plns[id].entries :
                          Holds(plns[id].weekdays, plns[id].entries[i], d, t)}
    IN  IF c.plnId = 0
        THEN \A id \in enabledPln[g] : Showing(id) = {}
        ELSE /\ c.plnId \in enabledPln[g]
             /\ \E i \in Showing(c.plnId) : plns[c.plnId].entries[i].fm = c.fm

(* A plan on display is enabled, so that nothing but a reset takes it away *)
(* under the display; before a task has run the value is garbage.          *)
ActiveIsEnabled ==
  \A g \in Groups :
    (shown[g] /\ onDispPlnId[g] # 0) => onDispPlnId[g] \in enabledPln[g]

(* A restart rebuilds the very table the group had. *)
RestartKeepsTable == [][ Restart => plnMin' = plnMin ]_vars
=============================================================================
