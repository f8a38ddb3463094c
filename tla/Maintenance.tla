---------------------------- MODULE Maintenance ----------------------------
(***************************************************************************)
(* The commands that maintain the controller: the vendor commands FA and   *)
(* FE of the protocol (src/src/tsisp003/UserDefinedCmd.cpp), those of the  *)
(* web user (src/src/websocket/WsServer.cpp), the network settings         *)
(* (src/src/uci/UciNetwork.cpp), and the restarts they ask for             *)
(* (Controller::PeriodicRun, main).                                        *)
(*                                                                         *)
(* The process has one thread and a handler runs to its end, unless the    *)
(* power goes.  A start reads all the files; where LoadConfig throws, main *)
(* returns 255 and is started again, for ever.                             *)
(***************************************************************************)
EXTENDS UserCfg, Upgrade

CONSTANTS
  FA20Requests, FERequests, FA01Requests, FA02Requests,   \* of the protocol
  WebRequests, WebExtRequests, Imports,                   \* of the web user
  NetDefault,        \* the interfaces of a new controller
  NetSettings,       \* of an interface: << proto, ipaddr, netmask, gateway, dns >>
  Fonts,             \* those of UciHardware
  ExtendedBps        \* ALLOWEDBPS

VARIABLES
  up,        \* "run"; "exit": the process ended; "off": so did the system
  imported,  \* the file was replaced by an import since the start
  shake,     \* shake_hands_status
  rr,        \* Controller::rr_flag, RESTART and REBOOT
  eth,       \* UciNetwork::eths
  staged,    \* /etc/config/network as the next uci commit would write it
  ethFile,   \* /etc/config/network
  ethUsed    \* what the system runs with: read when it boots

vars == << cfgVars, upgVars, up, imported, shake, rr, eth, staged, ethFile, ethUsed >>

netVars == << eth, staged, ethFile, ethUsed >>

Eth == {"ETH1", "ETH2"}

-----------------------------------------------------------------------------
(* What ends with the process is set to what the next one starts with.     *)
Ends(how) ==
  /\ up' = how
  /\ mem' = file'
  /\ imported' = FALSE /\ shake' = 0 /\ rr' = {}
  /\ info' = NoInfo /\ rcvd' = << >> /\ upgraded' = FALSE
  /\ pktN' \in 0 .. PktMax
  /\ UNCHANGED << ufile, sent >>
  /\ IF how = "off" THEN staged' = ethFile' /\ ethUsed' = ethFile'
                    ELSE UNCHANGED << staged, ethUsed >>
  /\ eth' = ethFile'

PowerOff == up # "off" /\ UNCHANGED << file, torn, ethFile >> /\ Ends("off")

(* UciNetwork::LoadConfig wants an address and a mask of a static one.  It *)
(* looks at no staged settings: it has a savedir of its own.               *)
NetLoads == \A e \in Eth : ethFile[e][1] = "static" => ethFile[e][2] # "" /\ ethFile[e][3] # ""

Starts == Loads /\ NetLoads

(* DbHelper::Init: the first LoadConfig that throws ends main.             *)
Boot ==
  /\ up # "run"
  /\ IF Starts THEN up' = "run" ELSE UNCHANGED up
  /\ LoadConfig
  /\ eth' = ethFile
  /\ UNCHANGED << file, torn, upgVars, imported, shake, rr, staged, ethFile, ethUsed >>

(* rrTmr expires: reboot.sh, external, reboots; a restart is an exception  *)
(* that main returns on.                                                   *)
RrExpires ==
  /\ up = "run" /\ rr # {}
  /\ UNCHANGED << file, torn, ethFile >>
  /\ Ends(IF "REBOOT" \in rr THEN "off" ELSE "exit")

(* A handler that only saves options; the power may go while it does.      *)
Handler(r, order) ==
  /\ up = "run"
  /\ \/ SaveAll(r, order) /\ UNCHANGED << upgVars, up, imported, shake, rr, netVars >>
     \/ SaveSome(r, order) /\ UNCHANGED ethFile /\ Ends("off")

-----------------------------------------------------------------------------
(* The network.  SaveETH sets the fields that differ one by one and stops  *)
(* at the first that fails; a field that was set is in memory and staged.  *)
(* With dhcp only proto is compared, and the others are staged as empty.   *)
(* An address 0.0.0.0 is printed as "".                                    *)
NetDiff(e, n) == {k \in 1 .. 5 : eth[e][k] # n[k] /\ (k = 1 \/ n[1] = "static")}

NetWith(m, n, done) == [k \in 1 .. 5 |-> IF k \in done THEN n[k] ELSE m[k]]

NetStaged(e, n, done, whole) ==
  IF whole /\ n[1] = "dhcp" THEN << n[1], "", "", "", "" >> ELSE NetWith(staged[e], n, done)

Firsts(D) == {{j \in D : j < k} : k \in D} \cup {D}

(* The interface of the protocol's user configuration is ETH1, static, and *)
(* its dns stays.                                                          *)
SaveETH(e, n, whole) ==
  \E done \in Firsts(NetDiff(e, n)) :
    /\ whole <=> done = NetDiff(e, n)
    /\ eth' = [eth EXCEPT ![e] = NetWith(@, n, done)]
    /\ staged' = [staged EXCEPT ![e] = NetStaged(e, n, done, whole)]

UciCommit == ethFile' = staged'

NetValid(n) ==
  /\ n[2] \notin {"", "255.255.255.255"}
  /\ n[3] \notin {"", "255.255.255.255"}
  /\ n[4] \notin {"", "255.255.255.255", n[2]}

-----------------------------------------------------------------------------
(* FAF0 and FAF2: a challenge and its answer.                              *)
FAF0_ShakehandsRqst ==
  /\ up = "run" /\ shake' = 1
  /\ UNCHANGED << cfgVars, upgVars, up, imported, rr, netVars >>

FAF2_ShakehandsPasswd ==
  /\ up = "run" /\ shake = 1 /\ shake' \in {0, 2}
  /\ UNCHANGED << cfgVars, upgVars, up, imported, rr, netVars >>

(* FA20.  The second fan has the temperature of the first.                 *)
FA20Order == << "SeedOffset", "PasswordOffset", "DeviceId", "BroadcastId",
  "TmcBaudrate", "TmcTcpPort", "SessionTimeout", "DisplayTimeout", "OverTemp",
  "Fan1OnTemp", "Fan2OnTemp", "Humidity", "City", "MultiLedFaultThreshold",
  "LockedMsg", "LockedFrm", "LastFrmTime" >>

CheckFA20_NoTemp(r, n) ==
  /\ shake = 2
  /\ r["BroadcastId"] # r["DeviceId"]
  /\ r["City"] < NumberOfTz
  /\ NetValid(n)

CheckFA20(r, n) ==
  /\ shake = 2
  /\ r["BroadcastId"] # r["DeviceId"]
  /\ r["OverTemp"] <= 100 /\ r["Fan1OnTemp"] <= 100 /\ r["Humidity"] <= 100
  /\ r["City"] < NumberOfTz
  /\ NetValid(n)

NeedRestart(r, opts) == IF Changed(r, opts) = {} THEN {} ELSE {"RESTART"}

FA20Rr_RestartFirst(rebooting, r) ==
  IF NeedRestart(r, {"TmcBaudrate", "TmcTcpPort", "City"}) # {}
    THEN {"RESTART"} ELSE IF rebooting THEN {"REBOOT"} ELSE {}

(* The reboot is asked for alone, the restart only without it.             *)
FA20Rr(rebooting, r) ==
  IF rebooting THEN {"REBOOT"} ELSE NeedRestart(r, {"TmcBaudrate", "TmcTcpPort", "City"})

(* A commit that succeeds asks for the reboot, whether or not it changed   *)
(* the file.                                                               *)
FA20Net(n, committed) ==
  \E whole \in BOOLEAN :
    /\ SaveETH("ETH1", n, whole)
    /\ committed => whole /\ NetDiff("ETH1", n) # {}
    /\ IF committed THEN UciCommit ELSE UNCHANGED ethFile
    /\ UNCHANGED ethUsed

FA20_SetUserCfg ==
  \E q \in FA20Requests, ip \in NetSettings, committed \in BOOLEAN :
    LET r == [q EXCEPT !["Fan2OnTemp"] = q["Fan1OnTemp"]]
        n == << "static", ip[2], ip[3], ip[4], eth["ETH1"][5] >>
    IN  /\ up = "run" /\ CheckFA20(r, n)
        /\ \/ /\ SaveAll(r, FA20Order)
              /\ FA20Net(n, committed)
              /\ rr' = rr \cup FA20Rr(committed, r)
              /\ UNCHANGED << upgVars, up, imported, shake >>
           \/ SaveSome(r, FA20Order) /\ UNCHANGED ethFile /\ Ends("off")

(* FE.                                                                     *)
FEOrder == << "PasswordOffset", "SeedOffset", "DeviceId", "OverTemp",
  "Fan1OnTemp", "Fan2OnTemp", "Humidity", "BroadcastId", "SessionTimeout",
  "DisplayTimeout" >>

CheckFE(r) ==
  /\ r["SessionTimeout"] >= 60
  /\ r["DisplayTimeout"] = 0 \/ r["SessionTimeout"] <= r["DisplayTimeout"] * 60
  /\ r["DeviceId"] # r["BroadcastId"]
  /\ \A o \in Temps : r[o] <= 99
  /\ r["Font"] \in Fonts

FE_SetGuiConfig ==
  \E r \in FERequests : CheckFE(r) /\ Handler(r, FEOrder)

(* FA01: the start of each of the four times is before its stop.           *)
CheckFA01(r) ==
  LET d == r["DawnDusk"] IN
  /\ IsDawnDusk(d)
  /\ \A i \in {1, 3, 5, 7} : d[i][1] * 256 + d[i][2] < d[i + 1][1] * 256 + d[i + 1][2]
  /\ IsLuminance(r["Luminance"])

FA01_SetLuminance ==
  \E r \in FA01Requests :
    CheckFA01(r) /\ Handler(r, << "DawnDusk", "Luminance" >>)

(* FA02 sets the first three inputs, GetUint the ranges of the web user's. *)
IsFlag(v) == v \in {0, 1}

FA02_SetExtInput ==
  \E r \in FA02Requests :
    /\ \A o \in {"ExtInput1", "ExtInput2", "ExtInput3"} : IsFlag(r[o][3]) /\ IsFlag(r[o][4])
    /\ Handler(r, << "ExtInput1", "ExtInput2", "ExtInput3" >>)

(* FAF5 and FAFA.                                                          *)
AskRestart(kind) ==
  /\ up = "run"
  /\ rr' = rr \cup {kind}
  /\ UNCHANGED << cfgVars, upgVars, up, imported, shake, netVars >>

FAF5_Restart == shake = 2 /\ AskRestart("RESTART")

FAFA_Reboot == shake = 2 /\ AskRestart("REBOOT")

(* FA10, FA11 and FA12.                                                    *)
FA1x_Upgrade ==
  /\ up = "run" /\ shake = 2
  /\ \/ \E len \in FileSizes, k \in PktSizesK : FileInfo(len, k)
     \/ \E n \in 0 .. PktMax, len \in PktLens : FilePacket(n, len)
     \/ Start
  /\ UNCHANGED << cfgVars, up, imported, shake, rr, netVars >>

(* Level 255 of the system reset loads the default too, and the App goes   *)
(* on with it: no restart is asked for.  The other levels touch no         *)
(* settings.                                                               *)
CmdSystemReset255 ==
  /\ up = "run"
  /\ \/ LoadFactoryDefault /\ UNCHANGED << upgVars, up, imported, shake, rr, netVars >>
     \/ LoadFactoryDefault_Cut /\ UNCHANGED ethFile /\ Ends("off")

-----------------------------------------------------------------------------
(* The web user.                                                           *)
WebOrder == << "SeedOffset", "PasswordOffset", "DeviceId", "BroadcastId",
  "TmcComPort", "TmcBaudrate", "TmcTcpPort", "SessionTimeout",
  "DisplayTimeout", "OverTemp", "City", "MultiLedFaultThreshold", "LockedMsg",
  "LockedFrm", "LastFrmTime", "NightDimmingLevel", "DawnDimmingLevel",
  "DayDimmingLevel", "LuxNightMax", "LuxDayMin", "Lux18HoursMin" >>

CheckWeb(r, bps) ==
  /\ r["DeviceId"] # r["BroadcastId"]
  /\ r["TmcBaudrate"] \in bps
  /\ r["MultiLedFaultThreshold"] \in PositiveWord
  /\ r["TmcTcpPort"] \in Port
  /\ r["OverTemp"] \in 0 .. 99
  /\ r["City"] < NumberOfTz
  /\ r["NightDimmingLevel"] \in 1 .. 8
  /\ r["DawnDimmingLevel"] \in r["NightDimmingLevel"] + 1 .. 15
  /\ r["DayDimmingLevel"] \in r["DawnDimmingLevel"] + 1 .. 16
  /\ \A o \in Luxes : r[o] \in PositiveWord
  /\ r["LuxNightMax"] < 10000
  /\ r["LuxNightMax"] < r["LuxDayMin"] /\ r["LuxDayMin"] < r["Lux18HoursMin"]

(* Its answer says that the App will restart after 5 seconds; rr_flag is a *)
(* local variable here.                                                    *)
CMD_SetUserConfig ==
  \E r \in WebRequests :
    CheckWeb(r, ExtendedBps) /\ Handler(r, WebOrder)

CMD_SetExtInput ==
  \E r \in WebExtRequests :
    /\ \A o \in ExtInputs : IsFlag(r[o][3]) /\ IsFlag(r[o][4])
    /\ Handler(r, << "ExtInput1", "ExtInput2", "ExtInput3", "ExtInput4" >>)

CMD_DefaultUserConfig ==
  /\ up = "run"
  /\ \/ /\ LoadFactoryDefault
        /\ rr' = rr \cup {"REBOOT"}
        /\ UNCHANGED << upgVars, up, imported, shake, netVars >>
     \/ LoadFactoryDefault_Cut /\ UNCHANGED ethFile /\ Ends("off")

(* Both interfaces: one gateway at most, two addresses.  SaveETH and the   *)
(* commit may fail, and the handler throws.                                *)
WebNetValid(n1, n2) ==
  /\ n1[4] = "" \/ n2[4] = ""
  /\ n1[2] = "" \/ n2[2] = "" \/ n1[2] # n2[2]

SaveBoth(n1, n2) ==
  \E d1 \in Firsts(NetDiff("ETH1", n1)), d2 \in Firsts(NetDiff("ETH2", n2)) :
    LET w1 == d1 = NetDiff("ETH1", n1)
        w2 == d2 = NetDiff("ETH2", n2)
    IN  /\ d2 # {} => w1
        /\ eth' = [eth EXCEPT !["ETH1"] = NetWith(@, n1, d1), !["ETH2"] = NetWith(@, n2, d2)]
        /\ staged' = [staged EXCEPT !["ETH1"] = NetStaged("ETH1", n1, d1, w1),
                                    !["ETH2"] = IF w1 THEN NetStaged("ETH2", n2, d2, w2) ELSE @]
        /\ \/ UNCHANGED << ethFile, rr >>      \* nothing changed, or one uci failed
           \/ /\ w1 /\ w2 /\ d1 \cup d2 # {}
              /\ UciCommit
              /\ rr' = rr \cup {"REBOOT"}

CMD_SetNetworkConfig ==
  /\ up = "run"
  /\ \E n1, n2 \in NetSettings : WebNetValid(n1, n2) /\ SaveBoth(n1, n2)
  /\ UNCHANGED << cfgVars, upgVars, up, imported, shake, ethUsed >>

(* An import unpacks another controller's export over the files, config/*  *)
(* only: the network is the system's.  It asks for a restart unless it     *)
(* failed; failing while it unpacks, it may have replaced the file.        *)
CMD_ImportConfig ==
  /\ up = "run"
  /\ \/ /\ file' \in Imports
        /\ imported' = TRUE
        /\ rr' \in {rr, rr \cup {"RESTART"}}
        /\ UNCHANGED << mem, torn, upgVars, up, shake, netVars >>
     \/ file' = file /\ torn' = TRUE /\ UNCHANGED ethFile /\ Ends("off")

CMD_UpgradeFirmware ==
  /\ up = "run"
  /\ WebUpgradeFile
  /\ rr' = IF ufile' = {Web} THEN rr \cup {"RESTART"} ELSE rr
  /\ UNCHANGED << cfgVars, up, imported, shake, netVars >>

CMD_Reboot == AskRestart("REBOOT")

-----------------------------------------------------------------------------
Init ==
  /\ file = DefaultFile /\ mem = DefaultFile /\ torn = FALSE
  /\ UpgradeInit
  /\ up = "run" /\ imported = FALSE /\ shake = 0 /\ rr = {}
  /\ eth = NetDefault
  /\ staged = eth /\ ethFile = eth /\ ethUsed = eth

Protocol ==
  \/ FAF0_ShakehandsRqst \/ FAF2_ShakehandsPasswd
  \/ FA20_SetUserCfg \/ FE_SetGuiConfig
  \/ FA01_SetLuminance \/ FA02_SetExtInput
  \/ FAF5_Restart \/ FAFA_Reboot
  \/ FA1x_Upgrade
  \/ CmdSystemReset255

WebUser ==
  \/ CMD_SetUserConfig \/ CMD_SetExtInput \/ CMD_DefaultUserConfig
  \/ CMD_SetNetworkConfig
  \/ CMD_ImportConfig \/ CMD_UpgradeFirmware \/ CMD_Reboot

Next == Protocol \/ WebUser \/ RrExpires \/ PowerOff \/ Boot

Spec == Init /\ [][Next]_vars

-----------------------------------------------------------------------------
(* Options that some handler takes in a wider range than LoadConfig.       *)
Unchecked == {"TmcComPort", "TmcBaudrate", "TmcTcpPort", "SessionTimeout",
              "DisplayTimeout", "MultiLedFaultThreshold", "LastFrmTime"}

(* Options whose range depends on an option that is saved by another step. *)
Pairs == {"DeviceId", "DawnDimmingLevel", "DayDimmingLevel"}

(* What reaches the handlers.  The default file is one to start with, an   *)
(* import another controller's export.  A request holds what its frame or  *)
(* its form has room for: a byte, a word, a number of no sign.             *)
ASSUME MaintConstants ==
  /\ Refused(DefaultFile) = {}
  /\ \A f \in Imports : Refused(f) \subseteq Unchecked \cup Pairs
  /\ \A q \in FA20Requests :
       /\ Option \subseteq DOMAIN q
       /\ \A o \in {"OverTemp", "Fan1OnTemp", "Humidity"} : q[o] \in Nat
  /\ \A q \in FERequests :
       \A o \in Temps : q[o] \in Nat
  /\ \A q \in FA02Requests \cup WebExtRequests :
       \A o \in ExtInputs : IsExtInput(q[o])

-----------------------------------------------------------------------------
(* Type invariant.                                                         *)
MaintTypeOK ==
  /\ DOMAIN mem = Option /\ DOMAIN file = Option /\ torn \in BOOLEAN
  /\ up \in {"run", "exit", "off"} /\ imported \in BOOLEAN
  /\ shake \in 0 .. 2 /\ rr \subseteq {"RESTART", "REBOOT"}
  /\ DOMAIN rcvd = Packets(info) /\ upgraded \in BOOLEAN

(* A file the handlers wrote is refused by the next start only for an      *)
(* option nobody checks; when the power went between two setters, or an    *)
(* import replaced the file under them, also for a pair that is half old   *)
(* and half new (UciUserCfg.cpp:23-204 against the checks of each handler).*)
LoadFailsOnlyFor ==
  Refused(file) \subseteq Unchecked \cup (IF up = "run" /\ ~imported THEN {} ELSE Pairs)

(* Setters write only what differs from memory; still, without an import,  *)
(* the file of a running controller holds what the memory holds, whichever *)
(* handlers of whichever user ran in whichever order - except the minutes  *)
(* of DawnDusk, which are read back as octal (UciUserCfg.cpp:276-321).     *)
MemoryIsFile ==
  up = "run" /\ ~imported => \A o \in Option \ {"DawnDusk"} : file[o] = mem[o]

(* A network file that differs from what the system runs with is never     *)
(* left to the next power cut: a reboot is due, even when a uci failed in  *)
(* an earlier command and a later one committed what it had staged, and    *)
(* whatever restart is asked for besides (Controller.cpp:118-142).         *)
NetChangeReboots == up = "run" /\ ethFile # ethUsed => "REBOOT" \in rr

(* "Restart to load new setting" (WsServer.cpp:681, and 673, 689 for the   *)
(* others): the event logged for a port or rate that the web user set.     *)
(* The restart takes the setting: LoadConfig refuses none of them          *)
(* (UciUserCfg.cpp:81).                                                    *)
LoadedByRestart == {"TmcComPort", "TmcBaudrate", "TmcTcpPort"}
RestartLoadsSetting == up = "run" /\ ~imported => Refused(file) \cap LoadedByRestart = {}
=============================================================================
