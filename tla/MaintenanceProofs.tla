-------------------------- MODULE MaintenanceProofs --------------------------
(***************************************************************************)
(* Proofs about Maintenance, for every set of requests, every network      *)
(* setting and every package size.                                         *)
(***************************************************************************)
EXTENDS Maintenance, TLAPS

-----------------------------------------------------------------------------
(* What SaveAll leaves in the file and in memory agrees where it agreed    *)
(* before: a setter that writes nothing finds the value there already.     *)
LEMMA SaveAllAgrees ==
  ASSUME NEW r, NEW order, SaveAll(r, order),
         \A o \in Option \ {"DawnDusk"} : file[o] = mem[o]
  PROVE  \A o \in Option \ {"DawnDusk"} : file'[o] = mem'[o]
<1> DEFINE S == Prefix(order, Len(order))
<1> TAKE o \in Option \ {"DawnDusk"}
<1>1. file'[o] = IF o \in Changed(r, S) THEN r[o] ELSE file[o]
  BY DEF SaveAll, InFile, ReadBack
<1>2. mem'[o] = IF o \in S THEN r[o] ELSE mem[o]
  BY DEF SaveAll, InMem
<1>3. o \in Changed(r, S) <=> o \in S /\ mem[o] # r[o]
  BY DEF Changed
<1> QED BY <1>1, <1>2, <1>3

(* Without an import the file of a running controller is its memory.       *)
LEMMA MemoryInductive ==
  ASSUME MemoryIsFile, [Next]_vars
  PROVE  MemoryIsFile'
<1> SUFFICES ASSUME up' = "run", ~imported'
             PROVE  \A o \in Option \ {"DawnDusk"} : file'[o] = mem'[o]
  BY DEF MemoryIsFile
<1> DEFINE Same == \A o \in Option \ {"DawnDusk"} : file[o] = mem[o]
<1> DEFINE Goal == \A o \in Option \ {"DawnDusk"} : file'[o] = mem'[o]
<1>h. ASSUME NEW r, NEW order, Handler(r, order) PROVE Goal
  BY <1>h, SaveAllAgrees DEF Handler, MemoryIsFile, Ends
<1>u. ASSUME up = up', imported = imported', UNCHANGED cfgVars PROVE Goal
  BY <1>u DEF MemoryIsFile, cfgVars
<1>1. CASE FAF0_ShakehandsRqst \/ FAF2_ShakehandsPasswd
  BY <1>1, <1>u DEF FAF0_ShakehandsRqst, FAF2_ShakehandsPasswd
<1>2. CASE FA20_SetUserCfg
  <2> PICK q \in FA20Requests, ip \in NetSettings, committed \in BOOLEAN :
        LET r == [q EXCEPT !["Fan2OnTemp"] = q["Fan1OnTemp"]]
        IN  /\ up = "run"
            /\ \/ SaveAll(r, FA20Order) /\ UNCHANGED << up, imported >>
               \/ Ends("off")
    BY <1>2 DEF FA20_SetUserCfg
  <2> QED BY SaveAllAgrees DEF MemoryIsFile, Ends
<1>3. CASE FE_SetGuiConfig \/ FA01_SetLuminance \/ FA02_SetExtInput
  BY <1>3, <1>h DEF FE_SetGuiConfig, FA01_SetLuminance, FA02_SetExtInput
<1>4. CASE FAF5_Restart \/ FAFA_Reboot \/ CMD_Reboot
  BY <1>4, <1>u DEF FAF5_Restart, FAFA_Reboot, CMD_Reboot, AskRestart
<1>5. CASE FA1x_Upgrade \/ CMD_UpgradeFirmware \/ CMD_SetNetworkConfig
  BY <1>5, <1>u DEF FA1x_Upgrade, CMD_UpgradeFirmware, CMD_SetNetworkConfig
<1>6. CASE CMD_SetUserConfig \/ CMD_SetExtInput
  BY <1>6, <1>h DEF CMD_SetUserConfig, CMD_SetExtInput
<1>7. CASE CMD_DefaultUserConfig \/ CmdSystemReset255
  BY <1>7 DEF CMD_DefaultUserConfig, CmdSystemReset255, LoadFactoryDefault, Ends
<1>8. CASE CMD_ImportConfig
  BY <1>8 DEF CMD_ImportConfig, Ends
<1>9. CASE RrExpires \/ PowerOff
  BY <1>9 DEF RrExpires, PowerOff, Ends
<1>10. CASE Boot
  BY <1>10 DEF Boot, LoadConfig
<1>11. CASE UNCHANGED vars
  BY <1>11, <1>u DEF vars
<1> QED
  BY <1>1, <1>2, <1>3, <1>4, <1>5, <1>6, <1>7, <1>8, <1>9, <1>10, <1>11
     DEF Next, Protocol, WebUser

(* MemoryIsFile holds whichever handlers run, in whichever order.          *)
THEOREM MemoryIsAlwaysFile == Spec => []MemoryIsFile
<1>1. Init => MemoryIsFile
  BY DEF Init, MemoryIsFile
<1> QED BY <1>1, MemoryInductive, PTL DEF Spec

-----------------------------------------------------------------------------
(* The network a stopped controller will boot with is the one it ran with. *)
RebootInv == NetChangeReboots /\ (up # "run" => ethFile = ethUsed)

LEMMA EndsOff == Ends("off") => RebootInv'
  BY DEF Ends, RebootInv, NetChangeReboots

LEMMA EndsExit == Ends("exit") /\ ethFile' = ethFile /\ ethFile = ethUsed => RebootInv'
  BY DEF Ends, RebootInv, NetChangeReboots

LEMMA RebootInductive ==
  ASSUME RebootInv, [Next]_vars
  PROVE  RebootInv'
<1>h. ASSUME NEW r, NEW order, Handler(r, order) PROVE RebootInv'
  BY <1>h, EndsOff DEF Handler, RebootInv, NetChangeReboots, netVars
<1>u. ASSUME UNCHANGED << up, ethFile, ethUsed >>, rr \subseteq rr' PROVE RebootInv'
  BY <1>u DEF RebootInv, NetChangeReboots
<1>1. CASE FAF0_ShakehandsRqst \/ FAF2_ShakehandsPasswd \/ FA1x_Upgrade
  BY <1>1, <1>u DEF FAF0_ShakehandsRqst, FAF2_ShakehandsPasswd, FA1x_Upgrade, netVars
<1>2. CASE FA20_SetUserCfg
  <2> PICK q \in FA20Requests, ip \in NetSettings, committed \in BOOLEAN :
        LET r == [q EXCEPT !["Fan2OnTemp"] = q["Fan1OnTemp"]]
            n == << "static", ip[2], ip[3], ip[4], eth["ETH1"][5] >>
        IN  /\ up = "run"
            /\ \/ /\ FA20Net(n, committed) /\ UNCHANGED up
                  /\ rr' = rr \cup FA20Rr(committed, r)
               \/ Ends("off")
    BY <1>2 DEF FA20_SetUserCfg
  <2>1. CASE Ends("off") BY <2>1, EndsOff
  <2>2. CASE ~Ends("off")
    <3>1. UNCHANGED << up, ethUsed >> /\ up = "run"
      BY <2>2 DEF FA20Net
    <3>2. ethFile' # ethFile => "REBOOT" \in rr'
      BY <2>2 DEF FA20Net, FA20Rr
    <3>3. rr \subseteq rr'
      BY <2>2
    <3> QED BY <3>1, <3>2, <3>3 DEF RebootInv, NetChangeReboots
  <2> QED BY <2>1, <2>2
<1>3. CASE FE_SetGuiConfig \/ FA01_SetLuminance \/ FA02_SetExtInput
  BY <1>3, <1>h DEF FE_SetGuiConfig, FA01_SetLuminance, FA02_SetExtInput
<1>4. CASE FAF5_Restart \/ FAFA_Reboot \/ CMD_Reboot
  BY <1>4, <1>u DEF FAF5_Restart, FAFA_Reboot, CMD_Reboot, AskRestart, netVars
<1>5. CASE CMD_SetUserConfig \/ CMD_SetExtInput
  BY <1>5, <1>h DEF CMD_SetUserConfig, CMD_SetExtInput
<1>6. CASE CMD_DefaultUserConfig \/ CmdSystemReset255
  BY <1>6, <1>u, EndsOff DEF CMD_DefaultUserConfig, CmdSystemReset255, netVars
<1>7. CASE CMD_SetNetworkConfig
  <2>1. UNCHANGED << up, ethUsed >> /\ up = "run"
    BY <1>7 DEF CMD_SetNetworkConfig
  <2>2. UNCHANGED << ethFile, rr >> \/ rr' = rr \cup {"REBOOT"}
    BY <1>7 DEF CMD_SetNetworkConfig, SaveBoth
  <2> QED BY <2>1, <2>2 DEF RebootInv, NetChangeReboots
<1>8. CASE CMD_ImportConfig
  BY <1>8, <1>u, EndsOff DEF CMD_ImportConfig, netVars
<1>9. CASE CMD_UpgradeFirmware
  BY <1>9, <1>u DEF CMD_UpgradeFirmware, netVars
<1>10. CASE RrExpires
  <2>1. CASE "REBOOT" \in rr
    BY <1>10, <2>1, EndsOff DEF RrExpires
  <2>2. CASE "REBOOT" \notin rr
    <3>1. Ends("exit") /\ ethFile' = ethFile /\ ethFile = ethUsed
      BY <1>10, <2>2 DEF RrExpires, RebootInv, NetChangeReboots
    <3> QED BY <3>1, EndsExit
  <2> QED BY <2>1, <2>2
<1>11. CASE PowerOff
  BY <1>11, EndsOff DEF PowerOff
<1>12. CASE Boot
  BY <1>12 DEF Boot, RebootInv, NetChangeReboots
<1>13. CASE UNCHANGED vars
  BY <1>13, <1>u DEF vars
<1> QED
  BY <1>1, <1>2, <1>3, <1>4, <1>5, <1>6, <1>7, <1>8, <1>9, <1>10, <1>11, <1>12, <1>13
     DEF Next, Protocol, WebUser

(* A changed network file is never without a reboot that is due.           *)
THEOREM NetChangeAlwaysReboots == Spec => []NetChangeReboots
<1>1. Init => RebootInv
  BY DEF Init, RebootInv, NetChangeReboots
<1>2. RebootInv => NetChangeReboots
  BY DEF RebootInv
<1> QED BY <1>1, <1>2, RebootInductive, PTL DEF Spec

-----------------------------------------------------------------------------
(* The package file holds what was written since it was begun.             *)
FileIsSent == ufile = sent

LEMMA FileIsSentInductive ==
  ASSUME FileIsSent, [Next]_vars
  PROVE  FileIsSent'
<1>e. ASSUME NEW how, Ends(how) PROVE FileIsSent'
  BY <1>e DEF Ends, FileIsSent
<1>h. ASSUME NEW r, NEW order, Handler(r, order) PROVE FileIsSent'
  BY <1>h, <1>e DEF Handler, FileIsSent, upgVars
<1>u. ASSUME UNCHANGED upgVars PROVE FileIsSent'
  BY <1>u DEF FileIsSent, upgVars
<1>1. CASE FAF0_ShakehandsRqst \/ FAF2_ShakehandsPasswd
  BY <1>1, <1>u DEF FAF0_ShakehandsRqst, FAF2_ShakehandsPasswd
<1>2. CASE FA20_SetUserCfg
  <2>1. UNCHANGED upgVars \/ Ends("off")
    BY <1>2 DEF FA20_SetUserCfg
  <2> QED BY <2>1, <1>e, <1>u
<1>3. CASE FE_SetGuiConfig \/ FA01_SetLuminance \/ FA02_SetExtInput
  BY <1>3, <1>h DEF FE_SetGuiConfig, FA01_SetLuminance, FA02_SetExtInput
<1>4. CASE FAF5_Restart \/ FAFA_Reboot \/ CMD_Reboot
  BY <1>4, <1>u DEF FAF5_Restart, FAFA_Reboot, CMD_Reboot, AskRestart
<1>5. CASE FA1x_Upgrade
  BY <1>5 DEF FA1x_Upgrade, FileInfo, FilePacket, Start, FileIsSent
<1>6. CASE CMD_SetUserConfig \/ CMD_SetExtInput
  BY <1>6, <1>h DEF CMD_SetUserConfig, CMD_SetExtInput
<1>7. CASE CMD_DefaultUserConfig \/ CmdSystemReset255 \/ CMD_ImportConfig
  BY <1>7, <1>u, <1>e DEF CMD_DefaultUserConfig, CmdSystemReset255, CMD_ImportConfig
<1>8. CASE CMD_SetNetworkConfig
  BY <1>8, <1>u DEF CMD_SetNetworkConfig
<1>9. CASE CMD_UpgradeFirmware
  BY <1>9 DEF CMD_UpgradeFirmware, WebUpgradeFile, FileIsSent
<1>10. CASE RrExpires \/ PowerOff
  BY <1>10, <1>e DEF RrExpires, PowerOff
<1>11. CASE Boot
  BY <1>11, <1>u DEF Boot
<1>12. CASE UNCHANGED vars
  BY <1>12, <1>u DEF vars
<1> QED
  BY <1>1, <1>2, <1>3, <1>4, <1>5, <1>6, <1>7, <1>8, <1>9, <1>10, <1>11, <1>12
     DEF Next, Protocol, WebUser

(* Only a start unpacks, and it unpacks a whole package.                   *)
LEMMA UpgradeStep ==
  ASSUME FileIsSent, [Next]_vars, upgraded', ~upgraded
  PROVE  Whole(sent', info)
<1>e. ASSUME NEW how, Ends(how) PROVE FALSE
  BY <1>e DEF Ends
<1>u. ASSUME UNCHANGED upgVars PROVE FALSE
  BY <1>u DEF upgVars
<1>1. CASE FA1x_Upgrade
  BY <1>1 DEF FA1x_Upgrade, FileInfo, FilePacket, Start, FileIsSent, UnpackFirmware
<1>2. CASE CMD_UpgradeFirmware
  BY <1>2 DEF CMD_UpgradeFirmware, WebUpgradeFile
<1>3. CASE FA20_SetUserCfg
  BY <1>3, <1>e, <1>u DEF FA20_SetUserCfg
<1>4. CASE \/ FE_SetGuiConfig \/ FA01_SetLuminance \/ FA02_SetExtInput
           \/ CMD_SetUserConfig \/ CMD_SetExtInput
  BY <1>4, <1>e, <1>u DEF FE_SetGuiConfig, FA01_SetLuminance, FA02_SetExtInput,
     CMD_SetUserConfig, CMD_SetExtInput, Handler
<1>5. CASE \/ FAF0_ShakehandsRqst \/ FAF2_ShakehandsPasswd \/ FAF5_Restart \/ FAFA_Reboot
           \/ CMD_Reboot \/ CMD_SetNetworkConfig \/ Boot
  BY <1>5, <1>u DEF FAF0_ShakehandsRqst, FAF2_ShakehandsPasswd, FAF5_Restart, FAFA_Reboot,
     CMD_Reboot, CMD_SetNetworkConfig, Boot, AskRestart
<1>6. CASE \/ CMD_DefaultUserConfig \/ CmdSystemReset255 \/ CMD_ImportConfig
           \/ RrExpires \/ PowerOff
  BY <1>6, <1>e, <1>u DEF CMD_DefaultUserConfig, CmdSystemReset255, CMD_ImportConfig,
     RrExpires, PowerOff
<1>7. CASE UNCHANGED vars
  BY <1>7, <1>u DEF vars
<1> QED
  BY <1>1, <1>2, <1>3, <1>4, <1>5, <1>6, <1>7 DEF Next, Protocol, WebUser

(* An upgrade that is acknowledged unpacked one whole package.             *)
THEOREM UpgradeIsAlwaysWhole == Spec => UpgradeIsWhole
<1>1. Init => FileIsSent
  BY DEF Init, UpgradeInit, FileIsSent
<1>2. FileIsSent /\ [Next]_vars => [upgraded' /\ ~upgraded => Whole(sent', info)]_upgVars
  BY UpgradeStep
<1> QED BY <1>1, <1>2, FileIsSentInductive, PTL DEF Spec, UpgradeIsWhole

-----------------------------------------------------------------------------
(* What stands alone is in its range in every file, whatever it went       *)
(* through; the pairs are right in the file of a running controller.       *)
Alone == Option \ (Unchecked \cup Pairs)

Single(f) == \A o \in Alone : InRange(o, f[o])

Paired(f) == \A o \in Pairs : Suits(o, f)

LEMMA SingleIsWeak ==
  ASSUME NEW f PROVE Single(f) <=> Refused(f) \subseteq Unchecked \cup Pairs
<1>1. ASSUME NEW o \in Alone PROVE Suits(o, f)
  BY DEF Alone, Suits, Unchecked, Pairs
<1> QED BY <1>1 DEF Single, Refused, Alone

LEMMA PairedIsStrong ==
  ASSUME NEW f PROVE Single(f) /\ Paired(f) <=> Refused(f) \subseteq Unchecked
<1>1. ASSUME NEW o \in Pairs PROVE InRange(o, f[o]) /\ o \in Option \ Unchecked
  <2>1. o = "DeviceId" \/ o = "DawnDimmingLevel" \/ o = "DayDimmingLevel"
    BY <1>1 DEF Pairs
  <2>2. o \in Option \ Unchecked
    BY <2>1 DEF Option, Unchecked
  <2>3. InRange(o, f[o])
    <3>1. CASE o = "DeviceId" BY <3>1 DEF InRange, Temps, Luxes, ExtInputs
    <3>2. CASE o = "DawnDimmingLevel" BY <3>2 DEF InRange, Temps, Luxes, ExtInputs
    <3>3. CASE o = "DayDimmingLevel" BY <3>3 DEF InRange, Temps, Luxes, ExtInputs
    <3> QED BY <2>1, <3>1, <3>2, <3>3
  <2> QED BY <2>2, <2>3
<1>2. Single(f) <=> Refused(f) \subseteq Unchecked \cup Pairs
  BY SingleIsWeak
<1> QED BY <1>1, <1>2 DEF Paired, Refused

LEMMA PairedMeans ==
  ASSUME NEW f
  PROVE  Paired(f) <=> /\ f["DeviceId"] # f["BroadcastId"]
                       /\ f["DawnDimmingLevel"] \in f["NightDimmingLevel"] + 1 .. 15
                       /\ f["DayDimmingLevel"] \in f["DawnDimmingLevel"] + 1 .. 16
<1>1. Suits("DeviceId", f) <=> f["DeviceId"] # f["BroadcastId"]
  BY DEF Suits
<1>2. Suits("DawnDimmingLevel", f) <=> f["DawnDimmingLevel"] \in f["NightDimmingLevel"] + 1 .. 15
  BY DEF Suits
<1>3. Suits("DayDimmingLevel", f) <=> f["DayDimmingLevel"] \in f["DawnDimmingLevel"] + 1 .. 16
  BY DEF Suits
<1> QED BY <1>1, <1>2, <1>3 DEF Paired, Pairs

-----------------------------------------------------------------------------
(* Which values are in range.                                              *)
Free == {"SeedOffset", "PasswordOffset", "BroadcastId", "City", "LockedMsg", "LockedFrm"}

LEMMA FreeInRange == ASSUME NEW o \in Free, NEW v PROVE InRange(o, v)
<1>1. CASE o = "SeedOffset" BY <1>1 DEF InRange, Temps, Luxes, ExtInputs
<1>2. CASE o = "PasswordOffset" BY <1>2 DEF InRange, Temps, Luxes, ExtInputs
<1>3. CASE o = "BroadcastId" BY <1>3 DEF InRange, Temps, Luxes, ExtInputs
<1>4. CASE o = "City" BY <1>4 DEF InRange, Temps, Luxes, ExtInputs
<1>5. CASE o = "LockedMsg" BY <1>5 DEF InRange, Temps, Luxes, ExtInputs
<1>6. CASE o = "LockedFrm" BY <1>6 DEF InRange, Temps, Luxes, ExtInputs
<1> QED BY <1>1, <1>2, <1>3, <1>4, <1>5, <1>6 DEF Free

LEMMA TempInRange == ASSUME NEW o \in Temps, NEW v \in 0 .. 100 PROVE InRange(o, v)
<1>1. CASE o = "OverTemp" BY <1>1 DEF InRange, Temps, Luxes, ExtInputs
<1>2. CASE o = "Fan1OnTemp" BY <1>2 DEF InRange, Temps, Luxes, ExtInputs
<1>3. CASE o = "Fan2OnTemp" BY <1>3 DEF InRange, Temps, Luxes, ExtInputs
<1>4. CASE o = "Humidity" BY <1>4 DEF InRange, Temps, Luxes, ExtInputs
<1> QED BY <1>1, <1>2, <1>3, <1>4 DEF Temps

LEMMA LuxInRange == ASSUME NEW o \in Luxes, NEW v \in PositiveWord PROVE InRange(o, v)
<1>1. CASE o = "LuxNightMax" BY <1>1 DEF InRange, Temps, Luxes, ExtInputs
<1>2. CASE o = "LuxDayMin" BY <1>2 DEF InRange, Temps, Luxes, ExtInputs
<1>3. CASE o = "Lux18HoursMin" BY <1>3 DEF InRange, Temps, Luxes, ExtInputs
<1> QED BY <1>1, <1>2, <1>3 DEF Luxes

LEMMA NightInRange == ASSUME NEW v \in 1 .. 8 PROVE InRange("NightDimmingLevel", v)
  BY DEF InRange, Temps, Luxes, ExtInputs

LEMMA ExtInRange == ASSUME NEW o \in ExtInputs, NEW v, IsExtInput(v) PROVE InRange(o, v)
<1>1. CASE o = "ExtInput1" BY <1>1 DEF InRange, Temps, Luxes, ExtInputs
<1>2. CASE o = "ExtInput2" BY <1>2 DEF InRange, Temps, Luxes, ExtInputs
<1>3. CASE o = "ExtInput3" BY <1>3 DEF InRange, Temps, Luxes, ExtInputs
<1>4. CASE o = "ExtInput4" BY <1>4 DEF InRange, Temps, Luxes, ExtInputs
<1> QED BY <1>1, <1>2, <1>3, <1>4 DEF ExtInputs

LEMMA DuskInRange == ASSUME NEW v PROVE InRange("DawnDusk", v) <=> IsDawnDusk(v)
  BY DEF InRange, Temps, Luxes, ExtInputs

LEMMA LuminanceInRange == ASSUME NEW v, IsLuminance(v) PROVE InRange("Luminance", v)
  BY DEF InRange, Temps, Luxes, ExtInputs

(* A value in range is in range as it is read back.                        *)
LEMMA ReadBackInRange ==
  ASSUME NEW o, NEW v, InRange(o, v) PROVE InRange(o, ReadBack(o, v))
<1>1. CASE o = "DawnDusk"
  <2> DEFINE w == [i \in DOMAIN v |-> << v[i][1], IF v[i][2] \in {8, 9} THEN 0 ELSE v[i][2] >>]
  <2>1. ReadBack(o, v) = w
    BY <1>1 DEF ReadBack
  <2>2. IsDawnDusk(v)
    BY <1>1, DuskInRange
  <2>3. IsDawnDusk(w)
    BY <2>2 DEF IsDawnDusk
  <2> QED BY <1>1, <2>1, <2>3, DuskInRange
<1>2. CASE o # "DawnDusk"
  BY <1>2 DEF ReadBack
<1> QED BY <1>1, <1>2

(* What a request may save, and leaves the options that stand alone right  *)
(* even when the power goes in between ...                                 *)
Saves(order) == Prefix(order, Len(order))

InRanges(r, order) ==
  /\ Len(order) \in Nat
  /\ \A o \in Saves(order) \cap Alone : InRange(o, r[o])

LEMMA SingleSaved ==
  ASSUME NEW r, NEW order, InRanges(r, order), Single(file), SaveAll(r, order) \/ SaveSome(r, order)
  PROVE  Single(file')
<1>1. PICK S : S \subseteq Saves(order) /\ file' = InFile(r, S)
  <2>1. CASE SaveAll(r, order)
    BY <2>1 DEF SaveAll, Saves
  <2>2. CASE SaveSome(r, order)
    <3>1. PICK n \in 0 .. Len(order) - 1 : file' = InFile(r, Changed(r, Prefix(order, n)))
      BY <2>2 DEF SaveSome
    <3>2. Changed(r, Prefix(order, n)) \subseteq Saves(order)
      BY DEF InRanges, Changed, Prefix, Saves
    <3> QED BY <3>1, <3>2
  <2> QED BY <2>1, <2>2
<1>2. ASSUME NEW o \in Alone PROVE InRange(o, file'[o])
  <2>1. file'[o] = IF o \in Changed(r, S) THEN ReadBack(o, r[o]) ELSE file[o]
    BY <1>1 DEF InFile, Alone
  <2>2. CASE o \in Changed(r, S)
    <3>1. InRange(o, r[o])
      BY <1>1, <2>2 DEF Changed, InRanges
    <3>2. InRange(o, ReadBack(o, r[o]))
      BY <3>1, ReadBackInRange
    <3> QED BY <2>1, <2>2, <3>2
  <2>3. CASE o \notin Changed(r, S)
    BY <2>1, <2>3 DEF Single
  <2> QED BY <2>2, <2>3
<1> QED BY <1>2 DEF Single

(* ... and the pairs when it does not: both ids or none, and with one      *)
(* dimming level all three.                                                *)
Agrees(r, order) ==
  /\ {"DeviceId", "BroadcastId"} \cap Saves(order) # {} =>
       {"DeviceId", "BroadcastId"} \subseteq Saves(order) /\ r["DeviceId"] # r["BroadcastId"]
  /\ {"NightDimmingLevel", "DawnDimmingLevel", "DayDimmingLevel"} \cap Saves(order) # {} =>
       /\ {"NightDimmingLevel", "DawnDimmingLevel", "DayDimmingLevel"} \subseteq Saves(order)
       /\ r["DawnDimmingLevel"] \in r["NightDimmingLevel"] + 1 .. 15
       /\ r["DayDimmingLevel"] \in r["DawnDimmingLevel"] + 1 .. 16

LEMMA PairsSaved ==
  ASSUME NEW r, NEW order, Agrees(r, order), SaveAll(r, order), Paired(file),
         \A o \in Option \ {"DawnDusk"} : file[o] = mem[o],
         \A o \in Option \ {"DawnDusk"} : file'[o] = mem'[o]
  PROVE  Paired(file')
<1>1. ASSUME NEW o \in {"DeviceId", "BroadcastId", "NightDimmingLevel", "DawnDimmingLevel", "DayDimmingLevel"}
      PROVE  file'[o] = IF o \in Saves(order) THEN r[o] ELSE file[o]
  <2>1. o \in Option \ {"DawnDusk"}
    BY <1>1 DEF Option
  <2>2. mem'[o] = IF o \in Saves(order) THEN r[o] ELSE mem[o]
    BY <2>1 DEF SaveAll, InMem, Saves
  <2> QED BY <2>1, <2>2
<1>2. file'["DeviceId"] # file'["BroadcastId"]
  BY <1>1, PairedMeans DEF Agrees
<1>3. /\ file'["DawnDimmingLevel"] \in file'["NightDimmingLevel"] + 1 .. 15
      /\ file'["DayDimmingLevel"] \in file'["DawnDimmingLevel"] + 1 .. 16
  <2>1. CASE {"NightDimmingLevel", "DawnDimmingLevel", "DayDimmingLevel"} \cap Saves(order) = {}
    <3>1. /\ file'["NightDimmingLevel"] = file["NightDimmingLevel"]
          /\ file'["DawnDimmingLevel"] = file["DawnDimmingLevel"]
          /\ file'["DayDimmingLevel"] = file["DayDimmingLevel"]
      BY <1>1, <2>1
    <3> QED BY <3>1, PairedMeans
  <2>2. CASE {"NightDimmingLevel", "DawnDimmingLevel", "DayDimmingLevel"} \cap Saves(order) # {}
    <3>1. /\ file'["NightDimmingLevel"] = r["NightDimmingLevel"]
          /\ file'["DawnDimmingLevel"] = r["DawnDimmingLevel"]
          /\ file'["DayDimmingLevel"] = r["DayDimmingLevel"]
      BY <1>1, <2>2 DEF Agrees
    <3> QED BY <2>2, <3>1 DEF Agrees
  <2> QED BY <2>1, <2>2
<1> QED BY <1>2, <1>3, PairedMeans

-----------------------------------------------------------------------------
(* What the check of each handler makes of its request.                    *)
LEMMA FA20Saves ==
  ASSUME NEW q \in FA20Requests, NEW r, NEW n,
         r = [q EXCEPT !["Fan2OnTemp"] = q["Fan1OnTemp"]], CheckFA20(r, n)
  PROVE  InRanges(r, FA20Order) /\ Agrees(r, FA20Order)
<1>1. Saves(FA20Order) =
        {"SeedOffset", "PasswordOffset", "DeviceId", "BroadcastId", "TmcBaudrate", "TmcTcpPort",
         "SessionTimeout", "DisplayTimeout", "OverTemp", "Fan1OnTemp", "Fan2OnTemp", "Humidity",
         "City", "MultiLedFaultThreshold", "LockedMsg", "LockedFrm", "LastFrmTime"}
  BY DEF Saves, Prefix, FA20Order
<1>2. \A o \in Temps : r[o] \in 0 .. 100
  BY MaintConstants DEF CheckFA20, Temps, Option
<1>3. ASSUME NEW o \in Saves(FA20Order) \cap Alone PROVE InRange(o, r[o])
  <2>1. o \in Temps \cup Free
    BY <1>1, <1>3 DEF Alone, Unchecked, Pairs, Temps, Free
  <2> QED BY <1>2, <2>1, TempInRange, FreeInRange
<1>4. Len(FA20Order) \in Nat
  BY DEF FA20Order
<1>5. Agrees(r, FA20Order)
  BY <1>1 DEF Agrees, CheckFA20
<1> QED BY <1>3, <1>4, <1>5 DEF InRanges

LEMMA FESaves ==
  ASSUME NEW r \in FERequests, CheckFE(r)
  PROVE  InRanges(r, FEOrder) /\ Agrees(r, FEOrder)
<1>1. Saves(FEOrder) =
        {"PasswordOffset", "SeedOffset", "DeviceId", "OverTemp", "Fan1OnTemp", "Fan2OnTemp",
         "Humidity", "BroadcastId", "SessionTimeout", "DisplayTimeout"}
  BY DEF Saves, Prefix, FEOrder
<1>2. \A o \in Temps : r[o] \in 0 .. 100
  BY MaintConstants DEF CheckFE, Temps
<1>3. ASSUME NEW o \in Saves(FEOrder) \cap Alone PROVE InRange(o, r[o])
  <2>1. o \in Temps \cup Free
    BY <1>1, <1>3 DEF Alone, Unchecked, Pairs, Temps, Free
  <2> QED BY <1>2, <2>1, TempInRange, FreeInRange
<1>4. Len(FEOrder) \in Nat
  BY DEF FEOrder
<1>5. Agrees(r, FEOrder)
  BY <1>1 DEF Agrees, CheckFE
<1> QED BY <1>3, <1>4, <1>5 DEF InRanges

LEMMA FA01Saves ==
  ASSUME NEW r, CheckFA01(r)
  PROVE  InRanges(r, << "DawnDusk", "Luminance" >>) /\ Agrees(r, << "DawnDusk", "Luminance" >>)
<1>1. Saves(<< "DawnDusk", "Luminance" >>) = {"DawnDusk", "Luminance"}
  BY DEF Saves, Prefix
<1>2. InRange("DawnDusk", r["DawnDusk"]) /\ InRange("Luminance", r["Luminance"])
  BY DuskInRange, LuminanceInRange DEF CheckFA01
<1> QED BY <1>1, <1>2 DEF InRanges, Agrees

LEMMA ExtSaves ==
  ASSUME NEW r \in FA02Requests \cup WebExtRequests, NEW order,
         Len(order) \in Nat, Saves(order) \subseteq ExtInputs
  PROVE  InRanges(r, order) /\ Agrees(r, order)
<1>1. \A o \in ExtInputs : InRange(o, r[o])
  BY MaintConstants, ExtInRange
<1> QED BY <1>1 DEF InRanges, Agrees, ExtInputs

LEMMA WebSaves ==
  ASSUME NEW r, NEW bps, CheckWeb(r, bps)
  PROVE  InRanges(r, WebOrder) /\ Agrees(r, WebOrder)
<1>1. Saves(WebOrder) =
        {"SeedOffset", "PasswordOffset", "DeviceId", "BroadcastId", "TmcComPort", "TmcBaudrate",
         "TmcTcpPort", "SessionTimeout", "DisplayTimeout", "OverTemp", "City",
         "MultiLedFaultThreshold", "LockedMsg", "LockedFrm", "LastFrmTime", "NightDimmingLevel",
         "DawnDimmingLevel", "DayDimmingLevel", "LuxNightMax", "LuxDayMin", "Lux18HoursMin"}
  BY DEF Saves, Prefix, WebOrder
<1>2. InRange("OverTemp", r["OverTemp"])
  BY TempInRange DEF CheckWeb, Temps
<1>3. InRange("NightDimmingLevel", r["NightDimmingLevel"])
  BY NightInRange DEF CheckWeb
<1>4. \A o \in Luxes : r[o] \in PositiveWord
  BY DEF CheckWeb
<1>5. ASSUME NEW o \in Saves(WebOrder) \cap Alone PROVE InRange(o, r[o])
  <2>1. o \in Luxes \cup Free \/ o = "OverTemp" \/ o = "NightDimmingLevel"
    BY <1>1, <1>5 DEF Alone, Unchecked, Pairs, Luxes, Free
  <2> QED BY <1>2, <1>3, <1>4, <2>1, LuxInRange, FreeInRange
<1>6. Len(WebOrder) \in Nat
  BY DEF WebOrder
<1>7. Agrees(r, WebOrder)
  BY <1>1 DEF Agrees, CheckWeb
<1> QED BY <1>5, <1>6, <1>7 DEF InRanges

-----------------------------------------------------------------------------
(* The file is right in what stands alone always, and in the pairs while   *)
(* the controller runs on it.                                              *)
FileInv ==
  /\ MemoryIsFile
  /\ Single(file)
  /\ up = "run" /\ ~imported => Paired(file)

LEMMA FileInductive ==
  ASSUME FileInv, [Next]_vars
  PROVE  FileInv'
<1>1. MemoryIsFile'
  BY MemoryInductive DEF FileInv
<1>h. ASSUME NEW r, NEW order, InRanges(r, order), Agrees(r, order),
             up = "run",
             \/ SaveAll(r, order) /\ UNCHANGED << up, imported >>
             \/ SaveSome(r, order) /\ Ends("off")
      PROVE  FileInv'
  <2>1. Single(file')
    BY <1>h, SingleSaved DEF FileInv
  <2>2. ASSUME up' = "run", ~imported' PROVE Paired(file')
    <3>1. SaveAll(r, order) /\ ~imported /\ up = "run"
      BY <1>h, <2>2 DEF Ends
    <3> QED BY <1>1, <1>h, <2>2, <3>1, PairsSaved DEF FileInv, MemoryIsFile
  <2> QED BY <1>1, <2>1, <2>2 DEF FileInv
<1>u. ASSUME UNCHANGED << file, up, imported >> PROVE FileInv'
  BY <1>1, <1>u DEF FileInv
<1>e. ASSUME UNCHANGED file, NEW how \in {"exit", "off"}, Ends(how) PROVE FileInv'
  BY <1>1, <1>e DEF FileInv, Ends
<1>d. Single(DefaultFile) /\ Paired(DefaultFile)
  BY MaintConstants, SingleIsWeak, PairedIsStrong
<1>n. ASSUME NEW n \in 0 .. 2, file' = DefaultWith(n) PROVE Single(file')
  <2>1. Prefix(KeptIds, n) \subseteq {"DeviceId", "BroadcastId"}
    BY DEF Prefix, KeptIds
  <2>2. ASSUME NEW o \in Alone, o # "BroadcastId" PROVE file'[o] = DefaultFile[o]
    BY <1>n, <2>1, <2>2 DEF DefaultWith, Alone, Pairs
  <2> QED BY <1>d, <2>2, FreeInRange DEF Single, Free
<1>2. CASE FAF0_ShakehandsRqst \/ FAF2_ShakehandsPasswd
  BY <1>2, <1>u DEF FAF0_ShakehandsRqst, FAF2_ShakehandsPasswd, cfgVars
<1>3. CASE FA20_SetUserCfg
  <2> PICK q \in FA20Requests, ip \in NetSettings, committed \in BOOLEAN :
        LET r == [q EXCEPT !["Fan2OnTemp"] = q["Fan1OnTemp"]]
            n == << "static", ip[2], ip[3], ip[4], eth["ETH1"][5] >>
        IN  /\ up = "run" /\ CheckFA20(r, n)
            /\ \/ SaveAll(r, FA20Order) /\ UNCHANGED << up, imported >>
               \/ SaveSome(r, FA20Order) /\ Ends("off")
    BY <1>3 DEF FA20_SetUserCfg
  <2> QED BY <1>h, FA20Saves
<1>4. CASE FE_SetGuiConfig
  BY <1>4, <1>h, FESaves DEF FE_SetGuiConfig, Handler
<1>5. CASE FA01_SetLuminance
  BY <1>5, <1>h, FA01Saves DEF FA01_SetLuminance, Handler
<1>6. CASE FA02_SetExtInput
  <2>1. Saves(<< "ExtInput1", "ExtInput2", "ExtInput3" >>) \subseteq ExtInputs
    BY DEF Saves, Prefix, ExtInputs
  <2> QED BY <1>6, <1>h, <2>1, ExtSaves DEF FA02_SetExtInput, Handler
<1>7. CASE FAF5_Restart \/ FAFA_Reboot \/ CMD_Reboot
  BY <1>7, <1>u DEF FAF5_Restart, FAFA_Reboot, CMD_Reboot, AskRestart, cfgVars
<1>8. CASE FA1x_Upgrade \/ CMD_UpgradeFirmware \/ CMD_SetNetworkConfig
  BY <1>8, <1>u DEF FA1x_Upgrade, CMD_UpgradeFirmware, CMD_SetNetworkConfig, cfgVars
<1>9. CASE CMD_SetUserConfig
  BY <1>9, <1>h, WebSaves DEF CMD_SetUserConfig, Handler
<1>10. CASE CMD_SetExtInput
  <2>1. Saves(<< "ExtInput1", "ExtInput2", "ExtInput3", "ExtInput4" >>) \subseteq ExtInputs
    BY DEF Saves, Prefix, ExtInputs
  <2> QED BY <1>10, <1>h, <2>1, ExtSaves DEF CMD_SetExtInput, Handler
<1>11. CASE CMD_DefaultUserConfig \/ CmdSystemReset255
  <2>1. CASE LoadFactoryDefault /\ UNCHANGED << up, imported >>
    <3>1. Single(file')
      BY <1>n, <2>1 DEF LoadFactoryDefault
    <3>2. ASSUME up' = "run", ~imported' PROVE Paired(file')
      <4>1. Paired(file) /\ mem["DeviceId"] = file["DeviceId"] /\ mem["BroadcastId"] = file["BroadcastId"]
        BY <2>1, <3>2 DEF FileInv, MemoryIsFile, Option
      <4>2. Prefix(KeptIds, 2) = {"DeviceId", "BroadcastId"}
        BY DEF Prefix, KeptIds
      <4>3. /\ file'["DeviceId"] = mem["DeviceId"] /\ file'["BroadcastId"] = mem["BroadcastId"]
            /\ \A o \in {"NightDimmingLevel", "DawnDimmingLevel", "DayDimmingLevel"} : file'[o] = DefaultFile[o]
        BY <2>1, <4>2 DEF LoadFactoryDefault, DefaultWith, Option
      <4> QED BY <1>d, <4>1, <4>3, PairedMeans
    <3> QED BY <1>1, <3>1, <3>2 DEF FileInv
  <2>2. CASE LoadFactoryDefault_Cut /\ Ends("off")
    <3>1. Single(file')
      BY <1>n, <2>2 DEF LoadFactoryDefault_Cut, FileInv
    <3> QED BY <1>1, <2>2, <3>1 DEF FileInv, Ends
  <2> QED BY <1>11, <2>1, <2>2 DEF CMD_DefaultUserConfig, CmdSystemReset255
<1>12. CASE CMD_ImportConfig
  <2>1. CASE file' \in Imports /\ imported'
    <3>1. Single(file')
      BY <2>1, MaintConstants, SingleIsWeak
    <3> QED BY <1>1, <2>1, <3>1 DEF FileInv
  <2>2. CASE ~(file' \in Imports /\ imported')
    BY <1>12, <1>e, <2>2 DEF CMD_ImportConfig
  <2> QED BY <2>1, <2>2
<1>13. CASE RrExpires \/ PowerOff
  BY <1>13, <1>e DEF RrExpires, PowerOff
<1>14. CASE Boot
  <2>1. CASE Starts
    <3>1. Paired(file)
      BY <2>1, PairedIsStrong DEF Starts, Loads
    <3> QED BY <1>1, <1>14, <3>1 DEF Boot, FileInv
  <2>2. CASE ~Starts
    BY <1>14, <1>u, <2>2 DEF Boot
  <2> QED BY <2>1, <2>2
<1>15. CASE UNCHANGED vars
  BY <1>15, <1>u DEF vars, cfgVars
<1> QED
  BY <1>2, <1>3, <1>4, <1>5, <1>6, <1>7, <1>8, <1>9, <1>10, <1>11, <1>12, <1>13, <1>14, <1>15
     DEF Next, Protocol, WebUser

(* The next start refuses a file only for an option that no handler        *)
(* checks, or for a pair after a cut or an import.                         *)
THEOREM LoadAlwaysFailsOnlyFor == Spec => []LoadFailsOnlyFor
<1>1. Init => FileInv
  BY MaintConstants, SingleIsWeak, PairedIsStrong DEF Init, FileInv, MemoryIsFile
<1>2. FileInv => LoadFailsOnlyFor
  BY SingleIsWeak, PairedIsStrong DEF FileInv, LoadFailsOnlyFor
<1> QED BY <1>1, <1>2, FileInductive, PTL DEF Spec
=============================================================================
