--------------------------- MODULE MCGroupDisplay ---------------------------
(***************************************************************************)
(* Instances of GroupDisplay for TLC.  The slots, the power sources and    *)
(* the switch multiply: the run with an external input keeps the command   *)
(* on and the group enabled, the run about liveness keeps the switch too.  *)
(***************************************************************************)
EXTENDS GroupDisplay

(* State constraint: the power command stays on and the group enabled.    *)
(* The mains act on the sources as the switch in OFF does: they may fail,  *)
(* but the steps after the failure are not explored.                       *)
CommandedOn == savedPower /\ deviceEnDisSet /\ ~powerFailure

-----------------------------------------------------------------------------
(* Liveness of one run of the process, on power and with the switch on     *)
(* AUTO.  NormalMode is called by the timer event for ever, the display    *)
(* time of an input passes, a round that is begun starts and ends: slaves  *)
(* answer, LastFrmTime is 1 to 60 s, and a slave does not lose every round *)
(* half-way (strong fairness: MsgResends may happen, not always).          *)
SteadyInit == Init /\ savedPower /\ ~powerFailure

SteadyNext ==
  \/ NormalMode
  \/ Tick100Display("AUTO")
  \/ ExtExpires
  \/ PwrUpExpires /\ UNCHANGED dispVars
  \/ Command
  \/ \E x \in ExtIds : ExtInput(x)
  \/ FaultChanges

LiveSpec ==
  /\ SteadyInit
  /\ [][SteadyNext]_vars
  /\ WF_vars(NormalMode)
  /\ WF_vars(\E e \in Entries : MsgStarts(e))
  /\ SF_vars(\E e \in Entries : MsgEnds(e))
  /\ WF_vars(Tick100Display("AUTO"))
  /\ WF_vars(PwrUpExpires /\ UNCHANGED dispVars)
  /\ WF_vars(ExtExpires)

(* A request that waits is loaded, replaced by a newer one or covered by a *)
(* fatal error: NormalMode always comes back to readyToLoad, whatever      *)
(* messages, inputs and device commands it goes through meanwhile.         *)
RequestIsLoaded ==
  (ds.next.type # "N_A") ~> (ds.next.type = "N_A" \/ fatalError)

(* An external input that was let in is shown, unless a fatal error or the *)
(* end of the process comes first: not even commands that keep coming, one *)
(* waiting whenever NormalMode loads, put it off for ever.                 *)
InputIsShown ==
  \A x \in ExtIds : (ds.ext = Ext(x)) ~> (ds.cur.type = "EXT" \/ fatalError \/ ~IsPowerOn)

=============================================================================
