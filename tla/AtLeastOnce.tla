---------------------------- MODULE AtLeastOnce ----------------------------
(***************************************************************************)
(* What a session promises its master: the commands of a master that       *)
(* issues one at a time are executed in order, and one that was confirmed  *)
(* has been executed.  A command may be executed again.                    *)
(***************************************************************************)
EXTENDS Naturals

VARIABLES
  executed,   \* the last command executed
  confirmed   \* the last command the master knows to be executed

Init == executed = 0 /\ confirmed = 0

(* The first execution of the next command.  Once more the same command is *)
(* a stuttering step. *)
Execute ==
  /\ executed = confirmed
  /\ executed' = confirmed + 1
  /\ UNCHANGED confirmed

Confirm ==
  /\ executed = confirmed + 1
  /\ confirmed' = executed
  /\ UNCHANGED executed

Spec == Init /\ [][Execute \/ Confirm]_<< executed, confirmed >>
=============================================================================
