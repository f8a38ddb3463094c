---------------------------- MODULE MCGroupTasks ----------------------------
(* Instances of GroupTasks for TLC. *)
EXTENDS GroupTasks

All(f)    == [ type |-> "frm", frm |-> [s \in Slaves |-> f] ]
Each(fs)  == [ type |-> "atf", frm |-> [s \in Slaves |-> fs[s]] ]
Undefined == [ type |-> "null" ]
Msg(es, t) == [ type |-> "msg", entries |-> es, trans |-> t ]
E1(f, on) == [ frm |-> f, on |-> on ]

(* A frame, the blank frame, an atomic command, an undefined message.  Of   *)
(* messages: an overlay in the middle, whose first entry is set again in    *)
(* the second round, with a short last entry and transitions; an overlay    *)
(* first, below a last entry that stays; and one that only its own time     *)
(* ends, with no transition.                                                *)
MCCmds ==
  { All(0), All(1), Each(<<1, 2>>), Undefined,
    Msg(<< E1(1, "long"), E1(2, "zero"), E1(1, "short") >>, TRUE),
    Msg(<< E1(2, "zero"), E1(1, "zero") >>, FALSE),
    Msg(<< E1(2, "long") >>, FALSE) }

=============================================================================
