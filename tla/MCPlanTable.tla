---------------------------- MODULE MCPlanTable ----------------------------
(***************************************************************************)
(* PlanTable on a week of two days of four minutes each.  The plans:       *)
(* an entry inside a day, an entry over midnight (and so over the end of   *)
(* the week), a whole day (start = stop), two entries that meet, and two   *)
(* that overlap though Plan::Init accepts them.                            *)
(***************************************************************************)
EXTENDS PlanTable

E(f, a, b) == [fm |-> f, start |-> a, stop |-> b]
P(w, es) == [weekdays |-> w, entries |-> es]

MCPlanDefs ==
  { P({0}, << E(1, 1, 3) >>),
    P({1}, << E(1, 3, 1) >>),
    P({0, 1}, << E(1, 0, 2), E(2, 2, 3) >>),
    P({0}, << E(2, 2, 2) >>),
    P({0, 1}, << E(1, 3, 1), E(2, 0, 2) >>),
    P({0}, << E(1, 0, 3), E(2, 1, 2) >>),
    P({0}, << E(1, 0, 2), E(2, 1, 3) >>) }
=============================================================================
