-------------------------- MODULE PlanTableProofs --------------------------
(***************************************************************************)
(* For any groups, plans and length of the week the minute tables are      *)
(* exact, say what the calendar says and survive a restart, and a plan on  *)
(* display stays enabled.  TableInv follows the owner of each cell,        *)
(* CellsInv its frame or message.                                          *)
(***************************************************************************)
EXTENDS PlanTable, FiniteSetTheorems, WellFoundedInduction, TLAPS

(* The parts of TypeOK the argument needs. *)
TableTyped ==
  /\ plns \in [PlanIds -> PlanDefs \cup {Undefined}]
  /\ enabledPln \in [Groups -> SUBSET PlanIds]
  /\ onDispPlnId \in [Groups -> PlanIds \cup {0}]
  /\ shown \in [Groups -> BOOLEAN]
  /\ plnMin = [g \in Groups |-> plnMin[g]]
  /\ \A g \in Groups, m \in Minutes : plnMin[g][m].plnId \in PlanIds \cup {0}

EnabledDefined ==
  \A g \in Groups : \A id \in enabledPln[g] : IsPlanDefined(id)

TableInv == TableTyped /\ EnabledDefined /\ TableExact /\ ActiveIsEnabled

(* LoadPlan gives the minutes of the plan, and no others, to the plan. *)
LEMMA LoadPlanOwns ==
  ASSUME NEW tab, NEW id, NEW p, NEW m \in Minutes
  PROVE  LoadPlan(tab, id, p)[m].plnId = IF m \in Covered(p) THEN id ELSE tab[m].plnId
  BY DEF LoadPlan

LEMMA UnloadPlanFrees ==
  ASSUME NEW tab, NEW p, NEW m \in Minutes
  PROVE  UnloadPlan(tab, p)[m].plnId = IF m \in Covered(p) THEN 0 ELSE tab[m].plnId
  BY DEF UnloadPlan, EmptyTable

(* A cell of a plan shows what the last visit of its loops wrote. *)
Cell(ps, id, m) ==
  IF id = 0 THEN EmptyTable[m]
  ELSE [plnId |-> id, fm |-> ps[id].entries[LastVisit(ps[id], m)[2]].fm]

LEMMA LoadPlanCells ==
  ASSUME NEW tab, NEW ps, NEW id \in PlanIds, NEW m \in Minutes
  PROVE  LoadPlan(tab, id, ps[id])[m] = IF m \in Covered(ps[id]) THEN Cell(ps, id, m) ELSE tab[m]
<1>1. id # 0
  BY PlanConstants
<1>2. QED
  BY <1>1 DEF LoadPlan, Cell

(* The constructor gives a minute to a plan that covers it, and to the     *)
(* only one if there is only one.                                          *)
LEMMA LoadAllOwns ==
  ASSUME NEW en \in SUBSET PlanIds, NEW ps, NEW m \in Minutes, NEW o \in en,
         ps[o] # Undefined, m \in Covered(ps[o]),
         \A q \in en : (ps[q] # Undefined /\ m \in Covered(ps[q])) => q = o
  PROVE  LoadAll(en, ps)[m] = Cell(ps, o, m)
<1> DEFINE owners == {q \in en : ps[q] # Undefined /\ m \in Covered(ps[q])}
           id == CHOOSE q \in owners : \A r \in owners : r <= q
<1>1. owners = {o}
  OBVIOUS
<1>2. o \in Nat
  BY PlanConstants
<1>3. \A r \in owners : r <= o
  BY <1>1, <1>2
<1>4. id \in owners
  BY <1>1, <1>3
<1>5. id = o
  BY <1>1, <1>4
<1>6. owners # {}
  BY <1>1
<1>7. LoadAll(en, ps)[m] = LoadPlan(EmptyTable, id, ps[id])[m]
  BY <1>6 DEF LoadAll
<1>8. LoadPlan(EmptyTable, o, ps[o])[m] = Cell(ps, o, m)
  BY LoadPlanCells
<1> QED
  BY <1>5, <1>7, <1>8

LEMMA LoadAllEmpty ==
  ASSUME NEW en, NEW ps, NEW m \in Minutes,
         \A q \in en : ~(ps[q] # Undefined /\ m \in Covered(ps[q]))
  PROVE  LoadAll(en, ps)[m] = Cell(ps, 0, m)
<1>1. {q \in en : ps[q] # Undefined /\ m \in Covered(ps[q])} = {}
  OBVIOUS
<1> QED
  BY <1>1 DEF LoadAll, Cell, EmptyTable

LEMMA TableInit == Init => TableInv
<1> SUFFICES ASSUME Init PROVE TableInv
  OBVIOUS
<1>1. \A g \in Groups, m \in Minutes : plnMin[g][m].plnId = 0
  BY DEF Init, EmptyTable
<1>2. 0 \notin PlanIds
  BY PlanConstants
<1> QED
  BY <1>1, <1>2 DEF Init, TableInv, TableTyped, EnabledDefined, TableExact, ActiveIsEnabled,
       IsPlanDefined

-----------------------------------------------------------------------------
LEMMA SetKeeps ==
  ASSUME TableInv, NEW id \in PlanIds, NEW p \in PlanDefs, SignSetPlan(id, p)
  PROVE  TableInv'
<1> USE DEF TableInv
<1>1. p # Undefined
  BY PlanConstants
<1>2. \A g \in Groups : id \notin enabledPln[g]
  BY DEF SignSetPlan
<1>3. \A q \in PlanIds : q # id => plns'[q] = plns[q]
  BY DEF SignSetPlan, TableTyped
<1>4. TableTyped'
  BY DEF SignSetPlan, TableTyped
<1>5. EnabledDefined'
  BY <1>2, <1>3 DEF SignSetPlan, TableTyped, EnabledDefined, IsPlanDefined
<1>6. ActiveIsEnabled'
  BY DEF SignSetPlan, ActiveIsEnabled
<1>7. TableExact'
  <2> SUFFICES ASSUME NEW g \in Groups, NEW m \in Minutes, NEW q \in PlanIds
               PROVE  plnMin'[g][m].plnId = q
                        <=> (q \in enabledPln'[g] /\ plns'[q] # Undefined /\ m \in Covered(plns'[q]))
    BY DEF TableExact, IsPlanDefined
  <2>1. /\ plnMin' = plnMin /\ enabledPln' = enabledPln
    BY DEF SignSetPlan
  <2>2. plnMin[g][m].plnId = q
          <=> (q \in enabledPln[g] /\ plns[q] # Undefined /\ m \in Covered(plns[q]))
    BY DEF TableExact, IsPlanDefined
  <2>3. CASE q = id
    BY <1>2, <2>1, <2>2, <2>3
  <2>4. CASE q # id
    BY <1>3, <2>1, <2>2, <2>4
  <2> QED
    BY <2>3, <2>4
<1> QED
  BY <1>4, <1>5, <1>6, <1>7

LEMMA EnableKeeps ==
  ASSUME TableInv, NEW g \in Groups, NEW id \in PlanIds, EnablePlan(g, id)
  PROVE  TableInv'
<1> USE DEF TableInv
<1>1. /\ plns' = plns /\ onDispPlnId' = onDispPlnId /\ shown' = shown
      /\ enabledPln' = [enabledPln EXCEPT ![g] = @ \cup {id}]
      /\ plnMin' = [plnMin EXCEPT ![g] = LoadPlan(@, id, plns[id])]
      /\ plns[id] # Undefined /\ id \notin enabledPln[g]
  BY DEF EnablePlan, IsPlanDefined
<1>2. \A m \in Covered(plns[id]) : plnMin[g][m].plnId = 0
  BY DEF EnablePlan, IsEnPlanOverlap
<1>3. /\ enabledPln'[g] = enabledPln[g] \cup {id}
      /\ \A h \in Groups \ {g} : enabledPln'[h] = enabledPln[h] /\ plnMin'[h] = plnMin[h]
  BY <1>1 DEF TableTyped
<1>4. \A m \in Minutes :
        plnMin'[g][m].plnId = IF m \in Covered(plns[id]) THEN id ELSE plnMin[g][m].plnId
  <2>1. plnMin'[g] = LoadPlan(plnMin[g], id, plns[id])
    BY <1>1 DEF TableTyped
  <2> QED
    BY <2>1, LoadPlanOwns
<1>5. TableTyped'
  <2>1. plnMin' = [h \in Groups |-> plnMin'[h]]
    BY <1>1 DEF TableTyped
  <2>2. \A h \in Groups, m \in Minutes : plnMin'[h][m].plnId \in PlanIds \cup {0}
    BY <1>3, <1>4 DEF TableTyped
  <2> QED
    BY <1>1, <2>1, <2>2 DEF TableTyped
<1>6. EnabledDefined'
  BY <1>1, <1>3 DEF EnabledDefined, IsPlanDefined, TableTyped
<1>7. ActiveIsEnabled'
  BY <1>1, <1>3 DEF ActiveIsEnabled
<1>8. TableExact'
  <2> SUFFICES ASSUME NEW h \in Groups, NEW m \in Minutes, NEW q \in PlanIds
               PROVE  plnMin'[h][m].plnId = q
                        <=> (q \in enabledPln'[h] /\ plns[q] # Undefined /\ m \in Covered(plns[q]))
    BY <1>1 DEF TableExact, IsPlanDefined
  <2>1. plnMin[h][m].plnId = q
          <=> (q \in enabledPln[h] /\ plns[q] # Undefined /\ m \in Covered(plns[q]))
    BY DEF TableExact, IsPlanDefined
  <2>2. q # 0
    BY PlanConstants
  <2>3. CASE h # g
    BY <1>3, <2>1, <2>3
  <2>4. CASE h = g /\ q = id
    BY <1>1, <1>3, <1>4, <2>1, <2>4
  <2>5. CASE h = g /\ q # id
    BY <1>2, <1>3, <1>4, <2>1, <2>2, <2>5
  <2> QED
    BY <2>3, <2>4, <2>5
<1> QED
  BY <1>5, <1>6, <1>7, <1>8

LEMMA DisableKeeps ==
  ASSUME TableInv, NEW g \in Groups, NEW id \in PlanIds, DisablePlan(g, id)
  PROVE  TableInv'
<1> USE DEF TableInv
<1>1. /\ plns' = plns /\ onDispPlnId' = onDispPlnId /\ shown' = shown
      /\ enabledPln' = [enabledPln EXCEPT ![g] = @ \ {id}]
      /\ plnMin' = [plnMin EXCEPT ![g] = UnloadPlan(@, plns[id])]
      /\ plns[id] # Undefined /\ id \in enabledPln[g] /\ onDispPlnId[g] # id
  BY PlanConstants DEF DisablePlan, IsPlanDefined, IsPlanActive
<1>2. /\ enabledPln'[g] = enabledPln[g] \ {id}
      /\ \A h \in Groups \ {g} : enabledPln'[h] = enabledPln[h] /\ plnMin'[h] = plnMin[h]
  BY <1>1 DEF TableTyped
<1>3. \A m \in Minutes :
        plnMin'[g][m].plnId = IF m \in Covered(plns[id]) THEN 0 ELSE plnMin[g][m].plnId
  <2>1. plnMin'[g] = UnloadPlan(plnMin[g], plns[id])
    BY <1>1 DEF TableTyped
  <2> QED
    BY <2>1, UnloadPlanFrees
<1>4. TableTyped'
  <2>1. plnMin' = [h \in Groups |-> plnMin'[h]]
    BY <1>1 DEF TableTyped
  <2>2. \A h \in Groups, m \in Minutes : plnMin'[h][m].plnId \in PlanIds \cup {0}
    BY <1>2, <1>3 DEF TableTyped
  <2> QED
    BY <1>1, <2>1, <2>2 DEF TableTyped
<1>5. EnabledDefined'
  BY <1>1, <1>2 DEF EnabledDefined, IsPlanDefined
<1>6. ActiveIsEnabled'
  BY <1>1, <1>2 DEF ActiveIsEnabled
<1>7. TableExact'
  <2> SUFFICES ASSUME NEW h \in Groups, NEW m \in Minutes, NEW q \in PlanIds
               PROVE  plnMin'[h][m].plnId = q
                        <=> (q \in enabledPln'[h] /\ plns[q] # Undefined /\ m \in Covered(plns[q]))
    BY <1>1 DEF TableExact, IsPlanDefined
  <2>1. \A r \in PlanIds : plnMin[h][m].plnId = r
          <=> (r \in enabledPln[h] /\ plns[r] # Undefined /\ m \in Covered(plns[r]))
    BY DEF TableExact, IsPlanDefined
  <2>2. q # 0
    BY PlanConstants
  <2>3. CASE h # g
    BY <1>2, <2>1, <2>3
  <2>4. CASE h = g /\ m \in Covered(plns[id])
    <3>1. plnMin[g][m].plnId = id
      BY <1>1, <2>1, <2>4
    <3> QED
      BY <1>2, <1>3, <2>1, <2>2, <2>4, <3>1
  <2>5. CASE h = g /\ m \notin Covered(plns[id])
    BY <1>2, <1>3, <2>1, <2>5
  <2> QED
    BY <2>3, <2>4, <2>5
<1> QED
  BY <1>4, <1>5, <1>6, <1>7

(* EnDisPlan(0) and the resets empty whole tables. *)
LEMMA EmptiedTables ==
  ASSUME TableInv, NEW gs \in SUBSET Groups,
         plnMin' = [g \in Groups |-> IF g \in gs THEN EmptyTable ELSE plnMin[g]],
         enabledPln' = [g \in Groups |-> IF g \in gs THEN {} ELSE enabledPln[g]],
         \/ plns' = plns
         \/ gs = Groups /\ plns' = [id \in PlanIds |-> Undefined],
         onDispPlnId' \in [Groups -> PlanIds \cup {0}],
         \A g \in gs : onDispPlnId'[g] = 0,
         \A g \in Groups \ gs : onDispPlnId'[g] = onDispPlnId[g] /\ shown'[g] = shown[g],
         shown' \in [Groups -> BOOLEAN]
  PROVE  TableInv'
<1> USE DEF TableInv
<1>1. \A g \in gs, m \in Minutes : plnMin'[g][m].plnId = 0 /\ enabledPln'[g] = {}
  BY DEF EmptyTable
<1>2. \A g \in Groups \ gs : /\ plnMin'[g] = plnMin[g] /\ enabledPln'[g] = enabledPln[g]
                             /\ plns' = plns
  OBVIOUS
<1>3. 0 \notin PlanIds
  BY PlanConstants
<1>4. TableTyped'
  <2>1. plnMin' = [h \in Groups |-> plnMin'[h]]
    OBVIOUS
  <2>2. \A h \in Groups, m \in Minutes : plnMin'[h][m].plnId \in PlanIds \cup {0}
    BY <1>1, <1>2 DEF TableTyped
  <2> QED
    BY <2>1, <2>2 DEF TableTyped
<1>5. EnabledDefined'
  BY <1>1, <1>2 DEF EnabledDefined, IsPlanDefined
<1>6. ActiveIsEnabled'
  BY <1>2 DEF ActiveIsEnabled
<1>7. TableExact'
  <2> SUFFICES ASSUME NEW h \in Groups, NEW m \in Minutes, NEW q \in PlanIds
               PROVE  plnMin'[h][m].plnId = q
                        <=> (q \in enabledPln'[h] /\ plns'[q] # Undefined /\ m \in Covered(plns'[q]))
    BY DEF TableExact, IsPlanDefined
  <2>1. CASE h \in gs
    BY <1>1, <1>3, <2>1
  <2>2. CASE h \notin gs
    <3>1. plnMin[h][m].plnId = q
            <=> (q \in enabledPln[h] /\ plns[q] # Undefined /\ m \in Covered(plns[q]))
      BY DEF TableExact, IsPlanDefined
    <3>2. plnMin'[h] = plnMin[h] /\ enabledPln'[h] = enabledPln[h] /\ plns' = plns
      BY <1>2, <2>2
    <3> QED
      BY <3>1, <3>2
  <2> QED
    BY <2>1, <2>2
<1> QED
  BY <1>4, <1>5, <1>6, <1>7

(* After a restart a minute has the owner it had before. *)
LEMMA RestartCells ==
  ASSUME TableInv, NEW g \in Groups, NEW m \in Minutes
  PROVE  /\ LoadAll(enabledPln[g], plns)[m] = Cell(plns, plnMin[g][m].plnId, m)
         /\ Cell(plns, plnMin[g][m].plnId, m).plnId = plnMin[g][m].plnId
<1> USE DEF TableInv
<1>1. \A q \in PlanIds : plnMin[g][m].plnId = q
        <=> (q \in enabledPln[g] /\ plns[q] # Undefined /\ m \in Covered(plns[q]))
  BY DEF TableExact, IsPlanDefined
<1>2. enabledPln[g] \in SUBSET PlanIds
  BY DEF TableTyped
<1>3. CASE plnMin[g][m].plnId = 0
  <2>1. 0 \notin PlanIds
    BY PlanConstants
  <2>2. \A q \in enabledPln[g] : ~(plns[q] # Undefined /\ m \in Covered(plns[q]))
    BY <1>1, <1>2, <1>3, <2>1
  <2> QED
    BY <1>3, <2>2, LoadAllEmpty DEF Cell, EmptyTable
<1>4. CASE plnMin[g][m].plnId # 0
  <2> DEFINE o == plnMin[g][m].plnId
  <2>1. o \in PlanIds
    BY <1>4 DEF TableTyped
  <2>2. /\ o \in enabledPln[g] /\ plns[o] # Undefined /\ m \in Covered(plns[o])
        /\ \A q \in enabledPln[g] : (plns[q] # Undefined /\ m \in Covered(plns[q])) => q = o
    BY <1>1, <1>2, <2>1
  <2>3. LoadAll(enabledPln[g], plns)[m] = Cell(plns, o, m)
    <3> HIDE DEF o
    <3> QED
      BY <1>2, <2>2, LoadAllOwns
  <2> QED
    BY <1>4, <2>3 DEF Cell
<1> QED
  BY <1>3, <1>4

LEMMA RestartKeeps == ASSUME TableInv, Restart PROVE TableInv'
<1> USE DEF TableInv
<1>1. /\ plns' = plns /\ enabledPln' = enabledPln
      /\ plnMin' = [g \in Groups |-> LoadAll(enabledPln[g], plns)]
      /\ onDispPlnId' \in [Groups -> PlanIds \cup {0}]
      /\ shown' = [g \in Groups |-> FALSE]
  BY DEF Restart
<1>2. ASSUME NEW g \in Groups, NEW m \in Minutes
      PROVE  plnMin'[g][m].plnId = plnMin[g][m].plnId
  BY <1>1, RestartCells
<1>3. TableTyped'
  <2>1. plnMin' = [g \in Groups |-> plnMin'[g]]
    BY <1>1
  <2> QED
    BY <1>1, <1>2, <2>1 DEF TableTyped
<1>4. EnabledDefined'
  BY <1>1 DEF EnabledDefined, IsPlanDefined
<1>5. ActiveIsEnabled'
  BY <1>1 DEF ActiveIsEnabled
<1>6. TableExact'
  BY <1>1, <1>2 DEF TableExact, IsPlanDefined
<1> QED
  BY <1>3, <1>4, <1>5, <1>6

LEMMA TaskKeeps ==
  ASSUME TableInv, NEW g \in Groups, TaskPln(g) \/ OtherShown(g) PROVE TableInv'
<1> USE DEF TableInv
<1>1. PICK c \in PlanIds \cup {0} :
        /\ onDispPlnId' = [onDispPlnId EXCEPT ![g] = c]
        /\ c # 0 => c \in enabledPln[g]
  <2>1. CASE TaskPln(g)
    <3>1. PICK m \in Minutes : onDispPlnId' = [onDispPlnId EXCEPT ![g] = Current(g, m)]
      BY <2>1 DEF TaskPln
    <3>2. Current(g, m) \in PlanIds \cup {0} /\ (Current(g, m) # 0 => Current(g, m) \in enabledPln[g])
      BY DEF Current, TableTyped, TableExact
    <3> QED
      BY <3>1, <3>2
  <2>2. CASE OtherShown(g)
    BY <2>2 DEF OtherShown
  <2> QED
    BY <2>1, <2>2
<1>2. /\ shown' = [shown EXCEPT ![g] = TRUE]
      /\ UNCHANGED << plns, enabledPln, plnMin >>
  BY DEF TaskPln, OtherShown
<1>3. TableTyped'
  BY <1>1, <1>2 DEF TableTyped
<1>4. ActiveIsEnabled'
  BY <1>1, <1>2 DEF ActiveIsEnabled, TableTyped
<1>5. EnabledDefined' /\ TableExact'
  BY <1>2 DEF EnabledDefined, TableExact, IsPlanDefined
<1> QED
  BY <1>3, <1>4, <1>5

-----------------------------------------------------------------------------
LEMMA TableStep == ASSUME TableInv, [Next]_vars PROVE TableInv'
<1>1. CASE \E id \in PlanIds, p \in PlanDefs : SignSetPlan(id, p)
  BY <1>1, SetKeeps
<1>2. ASSUME NEW g \in Groups, EnDisAll(g) PROVE TableInv'
  <2>1. /\ onDispPlnId[g] = 0
        /\ plnMin' = [h \in Groups |-> IF h \in {g} THEN EmptyTable ELSE plnMin[h]]
        /\ enabledPln' = [h \in Groups |-> IF h \in {g} THEN {} ELSE enabledPln[h]]
        /\ UNCHANGED << plns, onDispPlnId, shown >>
    BY <1>2 DEF EnDisAll, IsPlanActive, TableInv, TableTyped
  <2>2. onDispPlnId \in [Groups -> PlanIds \cup {0}] /\ shown \in [Groups -> BOOLEAN]
    BY DEF TableInv, TableTyped
  <2>3. {g} \in SUBSET Groups
    OBVIOUS
  <2> QED
    BY <2>1, <2>2, <2>3, EmptiedTables
<1>3. CASE \E g \in Groups, id \in PlanIds : EnablePlan(g, id)
  BY <1>3, EnableKeeps
<1>4. CASE \E g \in Groups, id \in PlanIds : DisablePlan(g, id)
  BY <1>4, DisableKeeps
<1>5. CASE CmdSystemReset
  <2>1. PICK gs \in SUBSET Groups, lvl \in {1, 3} :
          SystemReset(gs, lvl) /\ (lvl = 3 => gs = Groups)
    <3>1. ASSUME NEW g \in Groups, SystemReset({g}, 1)
          PROVE  \E gs \in SUBSET Groups, lvl \in {1, 3} :
                   SystemReset(gs, lvl) /\ (lvl = 3 => gs = Groups)
      <4>1. {g} \in SUBSET Groups /\ 1 \in {1, 3} /\ ~(1 = 3)
        OBVIOUS
      <4> QED
        BY <3>1, <4>1
    <3>2. ASSUME NEW lvl \in {1, 3}, SystemReset(Groups, lvl)
          PROVE  \E gs \in SUBSET Groups, l \in {1, 3} :
                   SystemReset(gs, l) /\ (l = 3 => gs = Groups)
      BY <3>2
    <3> QED
      BY <1>5, <3>1, <3>2 DEF CmdSystemReset
  <2>2. /\ onDispPlnId' \in [Groups -> PlanIds \cup {0}] /\ shown' \in [Groups -> BOOLEAN]
        /\ \A g \in gs : onDispPlnId'[g] = 0
        /\ \A g \in Groups \ gs : onDispPlnId'[g] = onDispPlnId[g] /\ shown'[g] = shown[g]
    BY <2>1 DEF SystemReset, TableInv, TableTyped
  <2>3. \/ plns' = plns
        \/ gs = Groups /\ plns' = [id \in PlanIds |-> Undefined]
    BY <2>1 DEF SystemReset
  <2>4. /\ plnMin' = [g \in Groups |-> IF g \in gs THEN EmptyTable ELSE plnMin[g]]
        /\ enabledPln' = [g \in Groups |-> IF g \in gs THEN {} ELSE enabledPln[g]]
    BY <2>1 DEF SystemReset
  <2> QED
    BY <2>2, <2>3, <2>4, EmptiedTables
<1>6. CASE \E g \in Groups : TaskPln(g) \/ OtherShown(g)
  BY <1>6, TaskKeeps
<1>7. CASE Restart
  BY <1>7, RestartKeeps
<1>8. CASE UNCHANGED vars
  BY <1>8 DEF vars, TableInv, TableTyped, EnabledDefined, TableExact, ActiveIsEnabled,
              IsPlanDefined
<1> QED
  BY <1>1, <1>2, <1>3, <1>4, <1>5, <1>6, <1>7, <1>8 DEF Next

LEMMA TableInvariant == Spec => []TableInv
  BY TableInit, TableStep, PTL DEF Spec

(* For any plans, groups and length of the week: at every minute the table *)
(* of a group names exactly the enabled plan that covers it, after any     *)
(* sequence of set, enable, disable, reset and restart (Group::EnDisPlan). *)
THEOREM PlanTableExact == Spec => []TableExact
<1>1. TableInv => TableExact
  BY DEF TableInv
<1> QED
  BY <1>1, TableInvariant, PTL

(* A plan on display is enabled: nothing but a reset takes it away under   *)
(* the display (Group::IsPlanActive).                                      *)
THEOREM PlanActiveIsEnabled == Spec => []ActiveIsEnabled
<1>1. TableInv => ActiveIsEnabled
  BY DEF TableInv
<1> QED
  BY <1>1, TableInvariant, PTL

-----------------------------------------------------------------------------
(* What the cells of a plan show.                                          *)

CellsInv ==
  \A g \in Groups : plnMin[g] = [m \in Minutes |-> Cell(plns, plnMin[g][m].plnId, m)]

LEMMA EmptyCells ==
  ASSUME NEW ps
  PROVE  EmptyTable = [m \in Minutes |-> Cell(ps, EmptyTable[m].plnId, m)]
  BY DEF EmptyTable, Cell

LEMMA CellsStep ==
  ASSUME TableInv, CellsInv, [Next]_vars
  PROVE  CellsInv'
<1> DEFINE Fine(g) == plnMin'[g] = [m \in Minutes |-> Cell(plns', plnMin'[g][m].plnId, m)]
<1> SUFFICES ASSUME NEW g \in Groups PROVE Fine(g)
  BY DEF CellsInv
<1>0. /\ plnMin = [h \in Groups |-> plnMin[h]]
      /\ \A m \in Minutes : plnMin[g][m].plnId \in PlanIds \cup {0}
      /\ plns \in [PlanIds -> PlanDefs \cup {Undefined}]
      /\ 0 \notin PlanIds
  BY PlanConstants DEF TableInv, TableTyped
<1>1. plnMin[g] = [m \in Minutes |-> Cell(plns, plnMin[g][m].plnId, m)]
  BY DEF CellsInv
<1>2. CASE UNCHANGED << plns, plnMin >>
  BY <1>1, <1>2
<1>3. ASSUME NEW id \in PlanIds, NEW p \in PlanDefs, SignSetPlan(id, p) PROVE Fine(g)
  <2>1. /\ plnMin' = plnMin
        /\ \A q \in PlanIds \ {id} : plns'[q] = plns[q]
        /\ id \notin enabledPln[g]
    BY <1>0, <1>3 DEF SignSetPlan
  <2>2. \A m \in Minutes : plnMin[g][m].plnId # id
    BY <2>1 DEF TableInv, TableExact
  <2>3. \A m \in Minutes : Cell(plns', plnMin[g][m].plnId, m) = Cell(plns, plnMin[g][m].plnId, m)
    BY <1>0, <2>1, <2>2 DEF Cell
  <2>4. QED
    BY <1>1, <2>1, <2>3
<1>4. ASSUME NEW gs \in SUBSET Groups,
             plnMin' = [h \in Groups |-> IF h \in gs THEN EmptyTable ELSE plnMin[h]],
             gs = Groups \/ plns' = plns
      PROVE  Fine(g)
  <2>1. CASE g \in gs
    BY <1>4, <2>1, EmptyCells
  <2>2. CASE g \notin gs
    BY <1>1, <1>4, <2>2
  <2>3. QED
    BY <2>1, <2>2
<1>5. ASSUME NEW h \in Groups, EnDisAll(h) PROVE Fine(g)
  <2>1. plnMin' = [k \in Groups |-> IF k \in {h} THEN EmptyTable ELSE plnMin[k]] /\ plns' = plns
    BY <1>0, <1>5 DEF EnDisAll
  <2>2. {h} \in SUBSET Groups
    OBVIOUS
  <2>3. QED
    BY <1>4, <2>1, <2>2
<1>6. ASSUME NEW h \in Groups, NEW id \in PlanIds, EnablePlan(h, id) PROVE Fine(g)
  <2>1. plns' = plns /\ plnMin' = [plnMin EXCEPT ![h] = LoadPlan(@, id, plns[id])]
    BY <1>6 DEF EnablePlan
  <2>2. CASE g # h
    BY <1>0, <1>1, <2>1, <2>2
  <2>3. CASE g = h
    <3>1. plnMin'[g] = LoadPlan(plnMin[g], id, plns[id])
      BY <1>0, <2>1, <2>3
    <3>2. \A m \in Minutes : plnMin'[g][m] = Cell(plns, plnMin'[g][m].plnId, m)
      <4>1. ASSUME NEW m \in Minutes PROVE plnMin'[g][m] = Cell(plns, plnMin'[g][m].plnId, m)
        <5>0. LoadPlan(plnMin[g], id, plns[id])[m] =
                 IF m \in Covered(plns[id]) THEN Cell(plns, id, m) ELSE plnMin[g][m]
          BY <1>0 DEF LoadPlan, Cell
        <5>1. plnMin'[g][m] = IF m \in Covered(plns[id]) THEN Cell(plns, id, m) ELSE plnMin[g][m]
          BY <3>1, <5>0
        <5>2. Cell(plns, id, m).plnId = id
          BY <1>0 DEF Cell
        <5>3. plnMin[g][m] = Cell(plns, plnMin[g][m].plnId, m)
          BY <1>1
        <5>4. QED
          BY <5>1, <5>2, <5>3
      <4>2. QED
        BY <4>1
    <3>3. plnMin'[g] = [m \in Minutes |-> plnMin'[g][m]]
      BY <3>1 DEF LoadPlan
    <3>4. QED
      BY <2>1, <3>2, <3>3
  <2>4. QED
    BY <2>2, <2>3
<1>7. ASSUME NEW h \in Groups, NEW id \in PlanIds, DisablePlan(h, id) PROVE Fine(g)
  <2>1. plns' = plns /\ plnMin' = [plnMin EXCEPT ![h] = UnloadPlan(@, plns[id])]
    BY <1>7 DEF DisablePlan
  <2>2. CASE g # h
    BY <1>0, <1>1, <2>1, <2>2
  <2>3. CASE g = h
    <3>1. plnMin'[g] = UnloadPlan(plnMin[g], plns[id])
      BY <1>0, <2>1, <2>3
    <3>2. ASSUME NEW m \in Minutes PROVE plnMin'[g][m] = Cell(plns, plnMin'[g][m].plnId, m)
      <4>1. plnMin'[g][m] = IF m \in Covered(plns[id]) THEN EmptyTable[m] ELSE plnMin[g][m]
        BY <3>1 DEF UnloadPlan
      <4>2. EmptyTable[m] = Cell(plns, EmptyTable[m].plnId, m)
        BY DEF EmptyTable, Cell
      <4>3. plnMin[g][m] = Cell(plns, plnMin[g][m].plnId, m)
        BY <1>1
      <4>4. QED
        BY <4>1, <4>2, <4>3
    <3>3. plnMin'[g] = [m \in Minutes |-> plnMin'[g][m]]
      BY <3>1 DEF UnloadPlan
    <3>4. QED
      BY <2>1, <3>2, <3>3
  <2>4. QED
    BY <2>2, <2>3
<1>8. ASSUME NEW gs \in SUBSET Groups, NEW lvl \in {1, 3}, SystemReset(gs, lvl),
             lvl = 3 => gs = Groups
      PROVE  Fine(g)
  <2>1. /\ plnMin' = [h \in Groups |-> IF h \in gs THEN EmptyTable ELSE plnMin[h]]
        /\ gs = Groups \/ plns' = plns
    BY <1>8 DEF SystemReset
  <2>2. QED
    BY <1>4, <2>1
<1>9. CASE CmdSystemReset
  <2>1. ASSUME NEW h \in Groups, SystemReset({h}, 1) PROVE Fine(g)
    <3>1. {h} \in SUBSET Groups /\ 1 \in {1, 3} /\ 1 # 3
      OBVIOUS
    <3>2. QED
      BY <1>8, <2>1, <3>1
  <2>2. ASSUME NEW lvl \in {1, 3}, SystemReset(Groups, lvl) PROVE Fine(g)
    BY <1>8, <2>2
  <2>3. QED
    BY <1>9, <2>1, <2>2 DEF CmdSystemReset
<1>10. CASE Restart
  <2>1. plns' = plns /\ plnMin'[g] = LoadAll(enabledPln[g], plns)
    BY <1>10 DEF Restart
  <2>2. plnMin'[g] = [m \in Minutes |-> plnMin'[g][m]]
    BY <2>1 DEF LoadAll
  <2>3. \A m \in Minutes : plnMin'[g][m] = Cell(plns, plnMin'[g][m].plnId, m)
    BY <2>1, RestartCells
  <2>4. QED
    BY <2>1, <2>2, <2>3
<1>11. CASE \E h \in Groups : TaskPln(h) \/ OtherShown(h)
  BY <1>2, <1>11 DEF TaskPln, OtherShown
<1>12. CASE UNCHANGED vars
  BY <1>2, <1>12 DEF vars
<1>13. QED
  BY <1>3, <1>5, <1>6, <1>7, <1>9, <1>10, <1>11, <1>12 DEF Next

LEMMA CellsInvariant == Spec => []CellsInv
<1>1. ASSUME Init PROVE CellsInv
  <2>1. SUFFICES ASSUME NEW g \in Groups
                 PROVE  plnMin[g] = [m \in Minutes |-> Cell(plns, plnMin[g][m].plnId, m)]
    BY DEF CellsInv
  <2>2. plnMin[g] = EmptyTable
    BY <1>1 DEF Init
  <2>3. QED
    BY <2>2, EmptyCells
<1>2. TableInv /\ CellsInv /\ [Next]_vars => CellsInv'
  BY CellsStep
<1>3. QED
  BY <1>1, <1>2, TableInvariant, PTL DEF Spec

(* The table the constructor rebuilds from the saved plans is the one that *)
(* the commands before the restart had built, frames and messages included. *)
THEOREM PlanRestartKeepsTable == Spec => RestartKeepsTable
<1>1. ASSUME TableInv, CellsInv, Restart PROVE plnMin' = plnMin
  <2>1. /\ plnMin = [g \in Groups |-> plnMin[g]]
        /\ plnMin' = [g \in Groups |-> LoadAll(enabledPln[g], plns)]
    BY <1>1 DEF Restart, TableInv, TableTyped
  <2>2. ASSUME NEW g \in Groups PROVE LoadAll(enabledPln[g], plns) = plnMin[g]
    <3>1. plnMin[g] = [m \in Minutes |-> Cell(plns, plnMin[g][m].plnId, m)]
      BY <1>1 DEF CellsInv
    <3>2. LoadAll(enabledPln[g], plns) = [m \in Minutes |-> LoadAll(enabledPln[g], plns)[m]]
      BY DEF LoadAll
    <3>3. QED
      BY <1>1, <3>1, <3>2, RestartCells
  <2>3. QED
    BY <2>1, <2>2
<1>2. TableInv /\ CellsInv /\ [Next]_vars => [Restart => plnMin' = plnMin]_vars
  BY <1>1
<1>3. QED
  BY <1>2, TableInvariant, CellsInvariant, PTL DEF RestartKeepsTable, Spec

-----------------------------------------------------------------------------
(* The calendar. *)

LEMMA Later ==
  ASSUME NEW a \in Nat, NEW b \in Nat, NEW n \in Nat, a < b
  PROVE  a * n + n <= b * n
<1>1. PICK k \in Nat : b = a + 1 + k
  <2>1. b - a - 1 \in Nat /\ b = a + 1 + (b - a - 1)
    OBVIOUS
  <2>2. QED
    BY <2>1
<1>2. b * n = a * n + n + k * n
  BY <1>1
<1>3. k * n \in Nat /\ a * n \in Nat
  OBVIOUS
<1>4. QED
  BY <1>2, <1>3

LEMMA DayBefore ==
  ASSUME NEW d \in Days
  PROVE  (d + DaysAWeek - 1) % DaysAWeek = IF d = 0 THEN DaysAWeek - 1 ELSE d - 1
<1>1. DaysAWeek \in Nat \ {0} /\ d \in Nat /\ d < DaysAWeek
  BY PlanConstants DEF Days
<1>2. ASSUME NEW n \in Nat \ {0}, NEW a \in Nat, a < n PROVE a % n = a /\ (a + n) % n = a
  BY <1>2
<1>3. CASE d = 0
  BY <1>1, <1>2, <1>3
<1>4. CASE d # 0
  <2>1. d - 1 \in Nat /\ d - 1 < DaysAWeek /\ d + DaysAWeek - 1 = (d - 1) + DaysAWeek
    BY <1>1, <1>4
  <2>2. ((d - 1) + DaysAWeek) % DaysAWeek = d - 1
    BY <1>1, <1>2, <2>1
  <2>3. QED
    BY <1>4, <2>1, <2>2
<1>5. QED
  BY <1>3, <1>4

LEMMA Spans ==
  ASSUME NEW v \in Days, NEW e \in PlnEntry, NEW d \in Days, NEW t \in 0 .. (MinutesADay - 1)
  PROVE  /\ d * MinutesADay + t \in Minutes
         /\ d * MinutesADay + t \in Span(v, e) <=>
              IF e.start < e.stop THEN d = v /\ e.start <= t /\ t < e.stop
              ELSE \/ d = v /\ e.start <= t
                   \/ v = (IF d = 0 THEN DaysAWeek - 1 ELSE d - 1) /\ t < e.stop
<1> DEFINE M == MinutesADay
           dM == d * M
           vM == v * M
           W == DaysAWeek * M
           s == e.start
           q == e.stop
           m == d * M + t
<1>1. /\ DaysAWeek \in Nat \ {0} /\ M \in Nat \ {0}
      /\ v \in Nat /\ d \in Nat /\ t \in Nat /\ v < DaysAWeek /\ d < DaysAWeek /\ t < M
      /\ s \in Nat /\ q \in Nat /\ s < M /\ q < M
  BY PlanConstants DEF Days, PlnEntry
<1>2. dM \in Nat /\ vM \in Nat /\ W \in Nat /\ M \in Nat
  BY <1>1
<1>3. /\ dM + M <= W /\ vM + M <= W
      /\ d < v => dM + M <= vM
      /\ v < d => vM + M <= dM
      /\ v + 1 < d => (v + 1) * M + M <= dM
      /\ (v + 1) * M = vM + M
      /\ v = DaysAWeek - 1 => vM + M = W
      /\ v + 1 < DaysAWeek => (v + 1) * M + M <= W
      /\ d = 0 => dM = 0
      /\ d > 0 => M <= dM
      /\ v > 0 => M <= vM
      /\ v = 0 => vM = 0
  <2>1. /\ d < v => dM + M <= vM
        /\ v < d => vM + M <= dM
        /\ v + 1 < d => (v + 1) * M + M <= dM
        /\ dM + M <= W /\ vM + M <= W
        /\ v + 1 < DaysAWeek => (v + 1) * M + M <= W
    BY <1>1, Later
  <2>2. (v + 1) * M = vM + M /\ 0 * M = 0
    BY <1>1
  <2>3. v = DaysAWeek - 1 => v + 1 = DaysAWeek
    BY <1>1
  <2>4. /\ d > 0 => 0 * M + M <= dM
        /\ v > 0 => 0 * M + M <= vM
    BY <1>1, Later
  <2>5. QED
    BY <1>1, <1>2, <2>1, <2>2, <2>3, <2>4
<1>4. m = dM + t /\ m \in Minutes
  BY <1>1, <1>2, <1>3 DEF Minutes, MinutesAWeek
<1> HIDE DEF M, dM, vM, W, s, q, m
<1>5. CASE s < q
  <2>1. Stop(e) = q
    BY <1>1, <1>5 DEF Stop, s, q
  <2>2. Span(v, e) = {n \in Minutes : vM + s <= n /\ n < vM + q}
    <3>1. vM + q < W /\ vM + s < vM + q
      BY <1>1, <1>2, <1>3, <1>5
    <3>2. QED
      BY <1>1, <1>2, <2>1, <3>1 DEF Span, MinutesAWeek, M, vM, W, s, q
  <2>3. vM + s <= dM + t /\ dM + t < vM + q <=> d = v /\ s <= t /\ t < q
    <3>1. CASE d = v
      BY <1>1, <1>2, <3>1 DEF dM, vM
    <3>2. CASE d < v
      BY <1>1, <1>2, <1>3, <3>2
    <3>3. CASE v < d
      BY <1>1, <1>2, <1>3, <3>3
    <3>4. QED
      BY <1>1, <3>1, <3>2, <3>3
  <2>4. QED
    BY <1>4, <1>5, <2>2, <2>3 DEF m, dM, M, s, q
<1>6. CASE ~(s < q)
  <2>1. Stop(e) = q + M
    BY <1>1, <1>6 DEF Stop, s, q, M
  <2>2. CASE v = DaysAWeek - 1
    <3>1. vM + (q + M) >= W /\ vM + (q + M) - W = q
      BY <1>1, <1>2, <1>3, <2>2
    <3>2. Span(v, e) = {n \in Minutes : IF vM + s < q THEN vM + s <= n /\ n < q
                                                      ELSE vM + s <= n \/ n < q}
      BY <1>1, <1>2, <2>1, <3>1 DEF Span, MinutesAWeek, M, vM, W, s, q
    <3>3. ~(vM + s < q)
      BY <1>1, <1>2, <1>6
    <3>4. vM + s <= dM + t \/ dM + t < q
            <=> \/ d = v /\ s <= t
                \/ d = 0 /\ t < q
      <4>1. dM + t < q <=> d = 0 /\ t < q
        BY <1>1, <1>2, <1>3
      <4>2. vM + s <= dM + t <=> d = v /\ s <= t
        <5>1. CASE d = v
          BY <1>1, <1>2, <5>1 DEF dM, vM
        <5>2. CASE d < v
          BY <1>1, <1>2, <1>3, <5>2
        <5>3. QED
          BY <1>1, <2>2, <5>1, <5>2
      <4>3. QED
        BY <4>1, <4>2
    <3>5. v = (IF d = 0 THEN DaysAWeek - 1 ELSE d - 1) <=> d = 0
      BY <1>1, <2>2
    <3>6. QED
      BY <1>4, <1>6, <3>2, <3>3, <3>4, <3>5 DEF m, dM, M, s, q
  <2>3. CASE v + 1 < DaysAWeek
    <3>1. vM + (q + M) < W /\ vM + s < vM + (q + M)
      BY <1>1, <1>2, <1>3, <2>3
    <3>2. Span(v, e) = {n \in Minutes : vM + s <= n /\ n < vM + (q + M)}
      BY <1>1, <1>2, <2>1, <3>1 DEF Span, MinutesAWeek, M, vM, W, s, q
    <3>3. vM + s <= dM + t /\ dM + t < vM + (q + M)
            <=> \/ d = v /\ s <= t
                \/ d = v + 1 /\ t < q
      <4>1. CASE d = v
        BY <1>1, <1>2, <4>1 DEF dM, vM
      <4>2. CASE d < v
        BY <1>1, <1>2, <1>3, <4>2
      <4>3. CASE d = v + 1
        <5>1. dM = vM + M
          BY <1>3, <4>3 DEF dM
        <5>2. QED
          BY <1>1, <1>2, <4>3, <5>1
      <4>4. CASE d > v + 1
        BY <1>1, <1>2, <1>3, <4>4
      <4>5. QED
        BY <1>1, <4>1, <4>2, <4>3, <4>4
    <3>4. v = (IF d = 0 THEN DaysAWeek - 1 ELSE d - 1) <=> d = v + 1
      BY <1>1, <2>3
    <3>5. QED
      BY <1>4, <1>6, <3>2, <3>3, <3>4 DEF m, dM, M, s, q
  <2>4. QED
    BY <1>1, <2>2, <2>3
<1>7. QED
  BY <1>4, <1>5, <1>6 DEF m, dM, M, s, q

(* A plan covers a minute exactly when the calendar says so. *)
LEMMA CoveredByCalendar ==
  ASSUME NEW p \in Plan, NEW d \in Days, NEW t \in 0 .. (MinutesADay - 1)
  PROVE  /\ \A v \in Visits(p) : d * MinutesADay + t \in At(p, v) =>
                v[2] \in DOMAIN p.entries /\ Holds(p.weekdays, p.entries[v[2]], d, t)
         /\ \A i \in DOMAIN p.entries : Holds(p.weekdays, p.entries[i], d, t) =>
                d * MinutesADay + t \in Covered(p)
<1> DEFINE b == IF d = 0 THEN DaysAWeek - 1 ELSE d - 1
<1>1. p.weekdays \subseteq Days /\ \A i \in DOMAIN p.entries : p.entries[i] \in PlnEntry
  BY DEF Plan
<1>2. (d + DaysAWeek - 1) % DaysAWeek = b /\ b \in Days
  BY DayBefore, PlanConstants DEF Days
<1> HIDE DEF b
<1>3. ASSUME NEW v \in Visits(p), d * MinutesADay + t \in At(p, v)
      PROVE  v[2] \in DOMAIN p.entries /\ Holds(p.weekdays, p.entries[v[2]], d, t)
  <2>1. v[1] \in p.weekdays /\ v[2] \in DOMAIN p.entries
    BY <1>3 DEF Visits
  <2>2. d * MinutesADay + t \in Span(v[1], p.entries[v[2]])
    BY <1>3 DEF At
  <2>3. v[1] \in Days /\ p.entries[v[2]] \in PlnEntry
    BY <1>1, <2>1
  <2>4. IF p.entries[v[2]].start < p.entries[v[2]].stop
        THEN d = v[1] /\ p.entries[v[2]].start <= t /\ t < p.entries[v[2]].stop
        ELSE \/ d = v[1] /\ p.entries[v[2]].start <= t
             \/ v[1] = b /\ t < p.entries[v[2]].stop
    BY <2>2, <2>3, Spans DEF b
  <2>5. QED
    BY <1>2, <2>1, <2>4 DEF Holds
<1>4. ASSUME NEW i \in DOMAIN p.entries, Holds(p.weekdays, p.entries[i], d, t)
      PROVE  d * MinutesADay + t \in Covered(p)
  <2>1. PICK v \in p.weekdays : d * MinutesADay + t \in Span(v, p.entries[i])
    <3>1. CASE p.entries[i].start < p.entries[i].stop
      BY <1>1, <1>4, <3>1, Spans DEF Holds
    <3>2. CASE ~(p.entries[i].start < p.entries[i].stop) /\ d \in p.weekdays /\ p.entries[i].start <= t
      BY <1>1, <3>2, Spans
    <3>3. CASE ~(p.entries[i].start < p.entries[i].stop) /\ b \in p.weekdays /\ t < p.entries[i].stop
      BY <1>1, <1>2, <3>3, Spans DEF b
    <3>4. QED
      BY <1>2, <1>4, <3>1, <3>2, <3>3 DEF Holds
  <2>2. << v, i >> \in Visits(p) /\ d * MinutesADay + t \in At(p, << v, i >>)
    BY <2>1 DEF Visits, At
  <2>3. QED
    BY <2>2 DEF Covered
<1>5. QED
  BY <1>3, <1>4

(* A nonempty finite set has a maximal element in any strict order. *)
LEMMA Maximal ==
  ASSUME NEW T, IsFiniteSet(T), T # {}, NEW R,
         \A x, y, z \in T : <<x, y>> \in R /\ <<y, z>> \in R => <<x, z>> \in R,
         \A x \in T : <<x, x>> \notin R
  PROVE  \E x \in T : \A y \in T : <<x, y>> \notin R
<1> DEFINE U(x) == {y \in T : <<x, y>> \in R}
           C == {U(x) : x \in T}
<1>1. C \subseteq FiniteSubsetsOf(T) /\ C # {}
  <2>1. ASSUME NEW x \in T PROVE U(x) \in FiniteSubsetsOf(T)
    <3>1. U(x) \in SUBSET T
      OBVIOUS
    <3>2. IsFiniteSet(U(x))
      BY <3>1, FS_Subset
    <3>3. QED
      BY <3>1, <3>2 DEF FiniteSubsetsOf
  <2> HIDE DEF U
  <2>2. QED
    BY <2>1
<1>2. PICK c \in C : \A b \in C : <<b, c>> \notin StrictSubsetOrdering(T)
  <2> HIDE DEF C
  <2>1. QED
    BY <1>1, FS_StrictSubsetOrderingWellFounded, WFMin
<1>3. PICK x \in T : c = U(x)
  BY <1>2
<1>4. ASSUME NEW y \in T, <<x, y>> \in R PROVE FALSE
  <2>1. U(y) \subseteq U(x) /\ y \in U(x) /\ y \notin U(y)
    BY <1>4
  <2>2. U(y) \in C
    OBVIOUS
  <2>3. <<U(y), c>> \in StrictSubsetOrdering(T)
    BY <1>3, <2>1 DEF StrictSubsetOrdering
  <2>4. QED
    BY <1>2, <2>2, <2>3
<1>5. QED
  BY <1>4

(* The loops of LoadPlanToPlnMin have a last visit to every minute they    *)
(* cover: there are finitely many, one after the other.                    *)
LEMMA LastVisitExists ==
  ASSUME NEW p \in Plan, NEW m \in Covered(p)
  PROVE  LastVisit(p, m) \in Visits(p) /\ m \in At(p, LastVisit(p, m))
<1> DEFINE T == {v \in Visits(p) : m \in At(p, v)}
           N == Days \X DOMAIN p.entries
           R == {s \in N \X N : Before(s[1], s[2])}
<1>1. IsFiniteSet(Visits(p)) /\ Visits(p) \subseteq N
  <2>1. Days = 0 .. (DaysAWeek - 1) /\ DaysAWeek \in Nat /\ p.weekdays \in SUBSET Days
    BY PlanConstants DEF Days, Plan
  <2>2. IsFiniteSet(Days)
    BY <2>1, FS_Interval
  <2>3. IsFiniteSet(p.weekdays)
    BY <2>1, <2>2, FS_Subset
  <2>4. p.entries \in Seq(PlnEntry)
    BY DEF Plan
  <2>5. DOMAIN p.entries = 1 .. Len(p.entries) /\ Len(p.entries) \in Nat
    BY <2>4
  <2>6. IsFiniteSet(DOMAIN p.entries)
    BY <2>5, FS_Interval
  <2>7. QED
    BY <2>1, <2>3, <2>6, FS_Product DEF Visits
<1>2. T \in SUBSET Visits(p) /\ T # {}
  BY DEF Covered
<1>3. IsFiniteSet(T)
  BY <1>1, <1>2, FS_Subset
<1>4. \A v \in N : v[1] \in Nat /\ v[2] \in Nat
  <2>1. p.entries \in Seq(PlnEntry)
    BY DEF Plan
  <2>2. QED
    BY <2>1, PlanConstants DEF Days
<1>5. T \subseteq N
  BY <1>1, <1>2
<1>6. \A x, y, z \in T : << x, y >> \in R /\ << y, z >> \in R => << x, z >> \in R
  BY <1>4, <1>5 DEF Before
<1>7. \A x \in T : << x, x >> \notin R
  BY <1>4, <1>5 DEF Before
<1>8. PICK v \in T : \A w \in T : << v, w >> \notin R
  <2> HIDE DEF T, R
  <2>1. QED
    BY <1>2, <1>3, <1>6, <1>7, Maximal
<1>9. /\ v \in Visits(p) /\ m \in At(p, v)
      /\ \A w \in Visits(p) : m \in At(p, w) => ~Before(v, w)
  BY <1>5, <1>8
<1>10. QED
  BY <1>9 DEF LastVisit

(* Group::TaskPln finds at every minute of the week what the stored plans  *)
(* ask for on that weekday and time of day, entries past midnight and past *)
(* the end of the week included, for any plans and length of the week.     *)
THEOREM PlanTableIsCalendar == Spec => []TableIsCalendar
<1>1. ASSUME TableInv, CellsInv PROVE TableIsCalendar
  <2> SUFFICES ASSUME NEW g \in Groups, NEW d \in Days, NEW t \in 0 .. (MinutesADay - 1)
               PROVE  LET c == plnMin[g][d * MinutesADay + t]
                          Showing(id) == {i \in DOMAIN plns[id].entries :
                                            Holds(plns[id].weekdays, plns[id].entries[i], d, t)}
                      IN  IF c.plnId = 0
                          THEN \A id \in enabledPln[g] : Showing(id) = {}
                          ELSE /\ c.plnId \in enabledPln[g]
                               /\ \E i \in Showing(c.plnId) : plns[c.plnId].entries[i].fm = c.fm
    BY DEF TableIsCalendar
  <2> DEFINE m == d * MinutesADay + t
             c == plnMin[g][m]
  <2>1. m \in Minutes
    <3>1. d \in Nat /\ d < DaysAWeek /\ DaysAWeek \in Nat /\ MinutesADay \in Nat
      BY PlanConstants DEF Days
    <3>2. d * MinutesADay + MinutesADay <= DaysAWeek * MinutesADay
      BY <3>1, Later
    <3>3. d * MinutesADay \in Nat /\ DaysAWeek * MinutesADay \in Nat
      BY <3>1
    <3>4. QED
      BY <3>1, <3>2, <3>3 DEF Minutes, MinutesAWeek
  <2>2. /\ c.plnId \in PlanIds \cup {0} /\ 0 \notin PlanIds
        /\ \A id \in PlanIds : c.plnId = id
              <=> (id \in enabledPln[g] /\ IsPlanDefined(id) /\ m \in Covered(plns[id]))
    BY <1>1, <2>1, PlanConstants DEF TableInv, TableTyped, TableExact
  <2>3. \A id \in enabledPln[g] : id \in PlanIds /\ IsPlanDefined(id) /\ plns[id] \in Plan
    BY <1>1, PlanConstants DEF TableInv, TableTyped, EnabledDefined, IsPlanDefined
  <2>4. CASE c.plnId = 0
    <3>1. \A id \in enabledPln[g] : m \notin Covered(plns[id])
      BY <2>2, <2>3, <2>4
    <3>2. QED
      BY <2>3, <2>4, <3>1, CoveredByCalendar
  <2>5. CASE c.plnId # 0
    <3> DEFINE o == c.plnId
               v == LastVisit(plns[o], m)
    <3>1. o \in PlanIds /\ o \in enabledPln[g] /\ plns[o] \in Plan /\ m \in Covered(plns[o])
      BY <2>2, <2>3, <2>5
    <3>2. v \in Visits(plns[o]) /\ m \in At(plns[o], v)
      BY <3>1, LastVisitExists
    <3>3. v[2] \in DOMAIN plns[o].entries /\ Holds(plns[o].weekdays, plns[o].entries[v[2]], d, t)
      BY <3>1, <3>2, CoveredByCalendar
    <3>4. c = Cell(plns, o, m)
      BY <1>1, <2>1 DEF CellsInv
    <3>5. c.fm = plns[o].entries[v[2]].fm
      <4> HIDE DEF m, c, v
      <4>1. c = [plnId |-> o, fm |-> plns[o].entries[v[2]].fm]
        BY <2>5, <3>4 DEF Cell, v
      <4>2. QED
        BY <4>1
    <3>6. QED
      BY <2>5, <3>1, <3>3, <3>5
  <2>6. QED
    BY <2>4, <2>5
<1>2. QED
  BY <1>1, TableInvariant, CellsInvariant, PTL
=============================================================================
