------------------------------ MODULE UserCfg ------------------------------
(***************************************************************************)
(* The user configuration (src/src/uci/UciUserCfg.cpp, UciCfg.cpp): the    *)
(* options in memory and in the file config/UciUserCfg, what a start       *)
(* accepts (LoadConfig) and what a setter does.                            *)
(*                                                                         *)
(* Every setter opens the file, changes one option, commits and closes it, *)
(* so a handler that changes many leaves a file with some of them when the *)
(* power goes.  A configuration is a function from option to value; a      *)
(* handler saves a set of options in a fixed order.  uci_commit, external, *)
(* replaces the file at once; CopyFile does not.                           *)
(***************************************************************************)
EXTENDS Integers, Sequences

CONSTANTS
  NumberOfTz,   \* the cities known
  StandardBps,  \* the first STANDARDBPS_SIZE of ALLOWEDBPS
  BusyPorts,    \* serial ports UciHardware gives to signs or to the monitor
  DefaultFile   \* config/UciUserCfg.def

VARIABLES
  mem,    \* the options of the running UciUserCfg
  file,   \* those of the file, as they would be loaded
  torn    \* the file is cut short

cfgVars == << mem, file, torn >>

Option == {
  "DeviceId", "BroadcastId", "SeedOffset", "PasswordOffset", "TmcComPort",
  "TmcBaudrate", "TmcTcpPort", "WsPort", "SessionTimeout", "DisplayTimeout",
  "OverTemp", "Fan1OnTemp", "Fan2OnTemp", "Humidity", "City",
  "MultiLedFaultThreshold", "LockedMsg", "LockedFrm", "LastFrmTime",
  "NightDimmingLevel", "DawnDimmingLevel", "DayDimmingLevel", "LuxNightMax",
  "LuxDayMin", "Lux18HoursMin", "DawnDusk", "Luminance", "ExtInput1",
  "ExtInput2", "ExtInput3", "ExtInput4" }

-----------------------------------------------------------------------------
(* LoadConfig throws for an option outside its range.  City is missing:    *)
(* the test of an unknown city reads the wrong cnt and never fails.        *)
(* DawnDusk is eight pairs << hour, minute >>, Luminance sixteen levels,   *)
(* an ExtInput is << dispTime, reserved, emergency, flashingOv >>.         *)
PositiveWord == 1 .. 65535
Port         == 1024 .. 65535

IsDawnDusk(d) == \A i \in DOMAIN d : d[i][1] \in 0 .. 23 /\ d[i][2] \in 0 .. 59

IsLuminance(l) ==
  /\ \A i \in DOMAIN l : l[i] \in PositiveWord
  /\ \A i \in DOMAIN l : i + 1 \in DOMAIN l => l[i] < l[i + 1]

IsExtInput(x) == \A i \in DOMAIN x : x[i] \in 0 .. 65535

Temps     == {"OverTemp", "Fan1OnTemp", "Fan2OnTemp", "Humidity"}
Luxes     == {"LuxNightMax", "LuxDayMin", "Lux18HoursMin"}
ExtInputs == {"ExtInput1", "ExtInput2", "ExtInput3", "ExtInput4"}

InRange(o, v) ==
  /\ o \in Temps                    => v \in 0 .. 100
  /\ o \in Luxes                    => v \in PositiveWord
  /\ o \in ExtInputs                => IsExtInput(v)
  /\ o = "DawnDusk"                 => IsDawnDusk(v)
  /\ o = "Luminance"                => IsLuminance(v)
  /\ o = "NightDimmingLevel"        => v \in 1 .. 8
  /\ o = "LastFrmTime"              => v \in 1 .. 60
  /\ o = "DisplayTimeout"           => v \in 0 .. 10080
  /\ o = "SessionTimeout"           => v \in PositiveWord /\ v >= 60
  /\ o \in {"TmcTcpPort", "WsPort"} => v \in Port
  /\ o = "MultiLedFaultThreshold"   => v \in PositiveWord
  /\ o = "TmcBaudrate"              => v \in StandardBps
  /\ o = "TmcComPort"               => v \notin BusyPorts

(* Some options are compared with another one.                             *)
Suits(o, f) ==
  /\ o = "DeviceId"         => f[o] # f["BroadcastId"]
  /\ o = "TmcTcpPort"       => f[o] # f["WsPort"]
  /\ o = "DawnDimmingLevel" => f[o] \in f["NightDimmingLevel"] + 1 .. 15
  /\ o = "DayDimmingLevel"  => f[o] \in f["DawnDimmingLevel"] + 1 .. 16

(* The options for which LoadConfig throws.                                *)
Refused(f) == {o \in Option : ~(InRange(o, f[o]) /\ Suits(o, f))}

Loads == ~torn /\ Refused(file) = {}

LoadConfig == mem' = file

-----------------------------------------------------------------------------
(* What the file holds of a value that was saved.  PrintDawnDusk writes a  *)
(* minute with two digits and GetIntArray reads it with base 0: "08" and   *)
(* "09" are no octal numbers and are read as 0.  SeedOffset and            *)
(* PasswordOffset are written with 0x; the others are decimal.             *)
ReadBack(o, v) ==
  IF o = "DawnDusk"
    THEN [i \in DOMAIN v |-> << v[i][1], IF v[i][2] \in {8, 9} THEN 0 ELSE v[i][2] >>]
    ELSE v

(* Each setter compares with memory, and writes only what changes there.   *)
Changed(r, opts) == {o \in opts : mem[o] # r[o]}

InFile(r, opts) == [o \in Option |-> IF o \in Changed(r, opts) THEN ReadBack(o, r[o]) ELSE file[o]]

InMem(r, opts) == [o \in Option |-> IF o \in opts THEN r[o] ELSE mem[o]]

Prefix(order, n) == {order[i] : i \in 1 .. n}

SaveAll_SkipsLast(r, order) ==
  /\ file' = InFile(r, Prefix(order, Len(order) - 1))
  /\ mem' = InMem(r, Prefix(order, Len(order)))
  /\ UNCHANGED torn

(* A handler runs to its end ...                                           *)
SaveAll(r, order) ==
  /\ file' = InFile(r, Prefix(order, Len(order)))
  /\ mem' = InMem(r, Prefix(order, Len(order)))
  /\ UNCHANGED torn

(* ... or the power goes when it has saved the first options; the memory   *)
(* goes with it.                                                           *)
SaveSome(r, order) ==
  /\ \E done \in {Changed(r, Prefix(order, n)) : n \in 0 .. Len(order) - 1} :
       file' = InFile(r, done)
  /\ UNCHANGED torn

(* LoadFactoryDefault copies the default file, saves the device and the    *)
(* broadcast id of the memory into it and loads it.                        *)
KeptIds == << "DeviceId", "BroadcastId" >>

DefaultWith(n) ==
  [o \in Option |-> IF o \in Prefix(KeptIds, n) THEN mem[o] ELSE DefaultFile[o]]

LoadFactoryDefault ==
  /\ file' = DefaultWith(2)
  /\ mem' = file'
  /\ torn' = FALSE

LoadFactoryDefault_Cut ==
  \/ torn' = TRUE /\ UNCHANGED file
  \/ torn' = FALSE /\ \E n \in 0 .. 1 : file' = DefaultWith(n)
=============================================================================
