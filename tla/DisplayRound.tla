---------------------------- MODULE DisplayRound ----------------------------
(***************************************************************************)
(* What the scheduler of a group and the task that plays a message promise *)
(* each other (Group::NormalMode, Group::TaskMsg): when another command    *)
(* may be loaded.  A round of a message is closed by each of its entries   *)
(* while the group is enabled and opened by its end; nothing else closes   *)
(* it, and the group is enabled or disabled only where a task begins.      *)
(***************************************************************************)

VARIABLES
  enabled,  \* deviceEnDisCur
  ready,    \* readyToLoad
  round     \* "begin": no entry of a message yet; "loop"; "end": the last one is over

roundVars == << enabled, ready, round >>

RoundInit == enabled \in BOOLEAN /\ ready = TRUE /\ round = "begin"

(* Where the task of this turn finds itself: where it was, or at its begin  *)
(* with what was loaded.  The group may have been opened meanwhile.         *)
Finds(r, o) ==
  /\ o \in {ready, TRUE}
  /\ \/ r = round /\ enabled' = enabled
     \/ r = "begin" /\ enabled' \in BOOLEAN

Waits(r, o) == round' = r /\ ready' = o
Starts(o)   == round' = "loop" /\ ready' = (o /\ ~enabled')
Ends(r)     == r = "loop" /\ round' = "end" /\ ready' = TRUE

Turn ==
  \E r \in {"begin", "loop", "end"}, o \in BOOLEAN :
    Finds(r, o) /\ (Waits(r, o) \/ Starts(o) \/ Ends(r))

RoundSpec == RoundInit /\ [][Turn]_roundVars
=============================================================================
