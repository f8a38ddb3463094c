---------------------------- MODULE MCMaintenance ----------------------------
(***************************************************************************)
(* An instance of Maintenance for TLC.  A request changes a few options of *)
(* the default: one it should, one at each edge of a range, one that only  *)
(* LoadConfig refuses.                                                     *)
(***************************************************************************)
EXTENDS Maintenance, TLC

MCDawnDusk(m) ==
  << << 5, m >>, << 6, 30 >>, << 7, 0 >>, << 8, 0 >>, << 16, 0 >>, << 17, 0 >>, << 18, 0 >>, << 19, 0 >> >>

MCExt(t) == << t, 0, 0, 0 >>

MCDefault == [o \in Option |->
  CASE o = "BroadcastId" -> 0
    [] o = "TmcBaudrate" -> 38400
    [] o = "TmcTcpPort" -> 38400
    [] o = "WsPort" -> 38401
    [] o = "SessionTimeout" -> 180
    [] o \in {"OverTemp", "Fan1OnTemp", "Fan2OnTemp", "Humidity"} -> 60
    [] o = "TmcComPort" -> 2
    [] o = "DawnDimmingLevel" -> 8
    [] o = "DayDimmingLevel" -> 16
    [] o = "LuxNightMax" -> 100
    [] o = "LuxDayMin" -> 300
    [] o = "Lux18HoursMin" -> 10000
    [] o = "DawnDusk" -> MCDawnDusk(0)
    [] o = "Luminance" -> [i \in 1 .. 16 |-> 10 * i]
    [] o \in {"ExtInput1", "ExtInput2", "ExtInput3", "ExtInput4"} -> MCExt(1)
    [] OTHER -> 1]

With(f) == f @@ MCDefault

\* The ids exchanged, a session timeout that LoadConfig refuses and a
\* restart; a temperature it refuses.
MCFA20 == {
  With([DeviceId |-> 0, BroadcastId |-> 1, TmcBaudrate |-> 9600, SessionTimeout |-> 0]),
  With([OverTemp |-> 101]) }

MCFE == { With([SessionTimeout |-> 60, Font |-> 0]), With([OverTemp |-> 99, Font |-> 9]) }

MCFA01 == { With([DawnDusk |-> MCDawnDusk(8)]),
            With([DawnDusk |-> MCDawnDusk(8), Luminance |-> [i \in 1 .. 16 |-> 1]]) }

MCFA02 == { With([ExtInput2 |-> MCExt(5)]), With([ExtInput2 |-> << 5, 0, 2, 0 >>]) }

\* Dimming levels whose saving, night first, passes through a bad pair.
MCWeb == {
  With([NightDimmingLevel |-> 8, DawnDimmingLevel |-> 12]),
  With([TmcBaudrate |-> 230400]),
  With([DayDimmingLevel |-> 17]) }

MCWebExt == { With([ExtInput4 |-> MCExt(7)]) }

\* Another controller, with the ids exchanged.
MCImports == { With([DeviceId |-> 0, BroadcastId |-> 1]) }

MCNetDefault == [ETH1 |-> << "static", "ip1", "mask", "", "" >>, ETH2 |-> << "static", "ip2", "mask", "", "" >>]

MCNetSettings == {
  << "static", "ip2", "mask", "gw", "" >>,
  << "dhcp", "", "", "", "" >> }

-----------------------------------------------------------------------------
(* State constraint: the options, the network and the upload change in     *)
(* turn, one of them at a time (a command that changes two is checked, and *)
(* not continued); after a network change the protocol waits for its       *)
(* restart, the web user does not.                                         *)
OneAtATime ==
  LET cfg == file # MCDefault \/ torn \/ imported
      net == ethFile # MCNetDefault \/ staged # MCNetDefault \/ ethUsed # MCNetDefault
      upg == info # NoInfo \/ ufile # {}
  IN  ~(cfg /\ net) /\ ~(cfg /\ upg) /\ ~(net /\ upg) /\ (net /\ rr # {} => shake = 0)
=============================================================================
