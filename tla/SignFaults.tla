------------------------------ MODULE SignFaults ------------------------------
(***************************************************************************)
(* The faults of one sign (src/src/sign/Sign.cpp, Slave.cpp,               *)
(* DeviceError.cpp, module/Debounce.h) and the log of faults.              *)
(*                                                                         *)
(* Slaves report what troubles them.  A trouble becomes a fault only after *)
(* Cnt checks, and stops being one after Cnt checks without it.  An edge   *)
(* of a fault sets or clears its error bit; a bit that changes is logged   *)
(* and saved, in this order and in two files, and a process that starts    *)
(* again takes its faults from the bits it finds saved.                    *)
(***************************************************************************)
EXTENDS RingLog, FiniteSets

CONSTANTS
  Cnt,       \* the debouncing count
  Slaves, First, \* the slaves of the sign; the first has the light sensor
  NoisySets, \* bound: the sets of troubles that may come in one behaviour
  LogsReset  \* UciHardware::IsResetLogAllowed

Fatal   == {"chain", "multiLed", "selftest", "voltage", "overtemp"}
Lux     == {"ls18hours", "lsMidday", "lsMidnight"}
Offline == "offline"   \* InternalCommunicationsFailure
MpcErr  == "mpcError"  \* MainProcessorCommunicationsError
Lumi    == "luminance" \* SignLuminanceControllerFailure
Debounced == Fatal \cup {"singleLed", "lantern"}
Codes   == Debounced \cup {Lumi, Offline, MpcErr}
Detectors == Debounced \cup Lux \cup {"lsConnection"}

(* What a slave or its line can suffer from: fewLeds and manyLeds are the   *)
(* two thresholds of the faulty LEDs, cool is a temperature within 3        *)
(* degrees below the limit, lsGone the connection bit of the light sensor.  *)
Troubles == {"chain", "selftest", "lantern", "voltage", "overtemp", "cool", "fewLeds",
             "manyLeds", "lsGone", "lsZero", "silent", "crc"} \cup Lux

ASSUME SignFaultsConstants ==
  /\ Cnt \in Nat \ {0} /\ First \in Slaves
  /\ NoisySets \subseteq SUBSET Troubles /\ LogsReset \in BOOLEAN

VARIABLES
  noisy,      \* the troubles of this behaviour (rigid, see NoisySets)
  trouble,    \* those the slaves report now; silent and crc are of slave First
  dbn,        \* the Debounce of each detector
  luminance,  \* luminanceFault is high
  fatal,      \* fatalError is high
  offline,    \* Slave::isOffline
  cnCrc,      \* Slave::isCNCrcErr
  bits, savedBits, \* signErr, and UciProcess's copy of it on disk
  log, logFile,    \* UciFault in memory and on disk
  torn        \* history: bits changed without an entry, or logged without being saved

signVars == << trouble, dbn, luminance, fatal, offline, cnCrc >>
errVars  == << bits, savedBits, log, logFile, torn >>
faultVars == << noisy, signVars, errVars >>

Unknown == -1   \* isOffline: N/A

-----------------------------------------------------------------------------
(* Debounce; every edge is used up in the round that made it. *)
High == [v |-> "1", cnt0 |-> 0, cnt1 |-> Cnt]
Low  == [v |-> "0", cnt0 |-> Cnt, cnt1 |-> 0]
NA   == [v |-> "NA", cnt0 |-> 0, cnt1 |-> 0]

Checked(d, t) ==
  IF t THEN IF d.cnt1 + 1 >= Cnt THEN High ELSE [d EXCEPT !.cnt1 = @ + 1]
  ELSE IF d.cnt0 + 1 >= Cnt THEN Low ELSE [d EXCEPT !.cnt0 = @ + 1]

FaultTypeOK ==
  /\ trouble \subseteq noisy /\ noisy \subseteq Troubles
  /\ dbn \in [Detectors -> [v : {"0", "1", "NA"}, cnt0 : 0..Cnt, cnt1 : 0..Cnt]]
  /\ luminance \in BOOLEAN /\ fatal \in BOOLEAN
  /\ offline \in [Slaves -> {Unknown, 0, 1}] /\ cnCrc \in [Slaves -> {0, 1}]
  /\ bits \subseteq Codes /\ savedBits \subseteq Codes /\ torn \subseteq Codes
  /\ log.last \in Slots \cup {-1}
  /\ \A i \in Slots : log.ring[i].valid => log.ring[i].no \in 0..Numbers - 1

IsHigh(D, c) == D[c].v = "1"
IsLow(D, c)  == D[c].v = "0"

-----------------------------------------------------------------------------
(* An error bit that is pushed: the log entry, then the bits, each saved at *)
(* once.  A push of the value the bit already has does nothing.             *)
Entry(c, onset) == [code |-> c, onset |-> onset]

(* The log and its file after the bits of the codes of C have changed, in    *)
(* this order.                                                             *)
Pushed(order, C) ==
  LET after[k \in 0..Len(order)] ==
        IF k = 0 THEN [log |-> log, file |-> logFile]
        ELSE IF order[k] \in C THEN Push(after[k-1], Entry(order[k], order[k] \notin bits))
        ELSE after[k-1]
  IN after[Len(order)]

(* The bits after those of the set C have changed. *)
Toggled(C) == (bits \ C) \cup (C \ bits)

PushAll_NotSaved(order, C) ==
  /\ LET s == Pushed(order, C) IN log' = s.log /\ logFile' = s.file
  /\ bits' = Toggled(C) /\ savedBits' = savedBits
  /\ torn' = torn \ C

PushAll(order, C) ==
  /\ LET s == Pushed(order, C) IN log' = s.log /\ logFile' = s.file
  /\ bits' = Toggled(C) /\ savedBits' = Toggled(C)
  /\ torn' = torn \ C

Differing_OnsetOnly(C, want) == {c \in C : want[c] /\ c \notin bits}

(* Those of the codes C whose bit does not have the value wanted. *)
Differing(C, want) == {c \in C : want[c] # (c \in bits)}

-----------------------------------------------------------------------------
AnyFatal(D) == \E c \in Fatal : IsHigh(D, c)

(* A sign looks at its slaves only when each of them has answered. *)
AllAnswered == "silent" \notin trouble

(* DbncFault: an edge of the detector decides, without one the bit stays. *)
AfterEdge(D, c) == IF D[c].v # dbn[c].v THEN IsHigh(D, c) ELSE c \in bits

StCodes == {"lantern", "chain", "selftest"}
StOrder == << "lantern", "chain", "selftest" >>

StChecked ==
  [c \in Detectors |-> IF c \in StCodes THEN Checked(dbn[c], c \in trouble) ELSE dbn[c]]
StPushes == Differing(StCodes, [c \in StCodes |-> AfterEdge(StChecked, c)])

(* RefreshSlaveStatusAtSt *)
StRound ==
  /\ AllAnswered
  /\ dbn' = StChecked /\ fatal' = AnyFatal(StChecked)
  /\ PushAll(StOrder, StPushes)
  /\ UNCHANGED << noisy, trouble, luminance, offline, cnCrc >>

LedsBad   == {"fewLeds", "manyLeds"} \cap trouble # {}
SensorOk  == {"lsGone", "lsZero"} \cap trouble = {}

(* Faulty LEDs are not looked at behind a faulty chain, nor single ones     *)
(* beside many.                                                            *)
Multi  == IF IsLow(dbn, "chain") THEN Checked(dbn["multiLed"], "manyLeds" \in trouble)
          ELSE dbn["multiLed"]
Single == IF IsLow(dbn, "chain") /\ Multi.v = "0" THEN Checked(dbn["singleLed"], LedsBad)
          ELSE dbn["singleLed"]

(* Between the limit and 3 degrees below nothing is counted. *)
OverTemp ==
  IF "overtemp" \in trouble THEN Checked(dbn["overtemp"], TRUE)
  ELSE IF "cool" \in trouble THEN dbn["overtemp"] ELSE Checked(dbn["overtemp"], FALSE)

(* A light sensor that reads anything is connected at once. *)
LsConnection == IF SensorOk THEN Low ELSE Checked(dbn["lsConnection"], "lsGone" \in trouble)

(* The checks of its reading that are made at this hour, once it is found   *)
(* connected; fresh are those whose window of the day has just begun.       *)
LuxChecked(x, now, fresh) ==
  IF LsConnection.v = "0" /\ x \in now
  THEN Checked(IF x \in fresh THEN [NA EXCEPT !.v = dbn[x].v] ELSE dbn[x],
               x \in trouble)
  ELSE dbn[x]

ExtChecked(now, fresh) ==
  [c \in Detectors |->
     CASE c = "voltage"      -> Checked(dbn[c], c \in trouble)
       [] c = "overtemp"     -> OverTemp
       [] c = "multiLed"     -> Multi
       [] c = "singleLed"    -> Single
       [] c = "lsConnection" -> LsConnection
       [] c \in Lux          -> LuxChecked(c, now, fresh)
       [] OTHER              -> dbn[c]]

(* luminanceFault: lost with the connection, judged by the readings. *)
Luminance(D) ==
  IF IsHigh(D, "lsConnection") /\ ~IsHigh(dbn, "lsConnection") THEN TRUE
  ELSE IF ~IsLow(D, "lsConnection") THEN luminance
  ELSE IF \E x \in Lux : IsHigh(D, x) THEN TRUE
  ELSE IF \A x \in Lux : IsLow(D, x) THEN FALSE ELSE luminance

ExtCodes == {"voltage", "overtemp", "multiLed", "singleLed", Lumi}
ExtOrder == << "voltage", "overtemp", "multiLed", "singleLed", Lumi >>
ExtWant(D) ==
  [c \in ExtCodes |->
     CASE c = Lumi       -> Luminance(D)
       [] c = "overtemp" -> IF "overtemp" \in trouble THEN c \in bits \/ IsHigh(D, c)
                            ELSE c \in bits /\ ("cool" \in trouble \/ ~IsLow(D, c))
       [] OTHER          -> AfterEdge(D, c)]
ExtPushes(D) == Differing(ExtCodes, ExtWant(D))

(* The hours: 18 hours are always counted, midday and midnight in a window. *)
Hours == { {"ls18hours"}, {"ls18hours", "lsMidday"}, {"ls18hours", "lsMidnight"} }

(* RefreshSlaveStatusAtExtSt *)
ExtRound ==
  /\ AllAnswered
  /\ \E now \in Hours : \E fresh \in SUBSET (now \ {"ls18hours"}) :
       LET D == ExtChecked(now, fresh)
       IN /\ dbn' = D /\ fatal' = AnyFatal(D) /\ luminance' = Luminance(D)
          /\ PushAll(ExtOrder, ExtPushes(D))
  /\ UNCHANGED << noisy, trouble, offline, cnCrc >>

-----------------------------------------------------------------------------
RefreshDevErr_AnyGood(of, code) ==
  IF \A s \in Slaves : of[s] # 0 THEN {code} \ bits ELSE {code} \cap bits

(* RefreshDevErr: one bad slave sets the bit, only all good ones clear it;   *)
(* here the code if its bit changes.                                        *)
RefreshDevErr(of, code) ==
  IF \E s \in Slaves : of[s] = 1 THEN {code} \ bits
  ELSE IF \A s \in Slaves : of[s] = 0 THEN {code} \cap bits
  ELSE {}

(* ReportOffline and ReportCNCrcErr do nothing unless the slave's state     *)
(* changes.                                                                *)
Reported(old, new, code) == IF new = old THEN {} ELSE RefreshDevErr(new, code)

Silent(s) == s = First /\ "silent" \in trouble
BadCrc(s) == s = First /\ "crc" \in trouble

(* TaskRqstSlave judges a slave: silent for long, or answering with frames  *)
(* that match, or that did not for long.                                    *)
JudgedOffline(s) == [offline EXCEPT ![s] = IF Silent(s) THEN 1 ELSE 0]
JudgedCnCrc(s)   == [cnCrc EXCEPT ![s] = IF Silent(s) THEN @ ELSE IF BadCrc(s) THEN 1 ELSE 0]

JudgeOrder == << Offline, MpcErr >>
JudgePushes(s) ==
  Reported(offline, JudgedOffline(s), Offline) \cup Reported(cnCrc, JudgedCnCrc(s), MpcErr)

Judge(s) ==
  /\ << JudgedOffline(s), JudgedCnCrc(s) >> # << offline, cnCrc >>
  /\ offline' = JudgedOffline(s) /\ cnCrc' = JudgedCnCrc(s)
  /\ PushAll(JudgeOrder, JudgePushes(s))
  /\ UNCHANGED << noisy, trouble, dbn, luminance, fatal >>

-----------------------------------------------------------------------------
(* Sign::ClearFaults and SaveSignErr, in a system reset of level 2 or more:  *)
(* nothing is logged; the log itself is emptied where this is allowed.       *)
SystemReset ==
  /\ dbn' = [c \in Detectors |-> Low]
  /\ luminance' = FALSE /\ fatal' = FALSE
  /\ bits' = {} /\ savedBits' = {}
  /\ torn' = torn \cup bits
  /\ IF LogsReset THEN log' = EmptyLog /\ logFile' = EmptyFile
     ELSE UNCHANGED << log, logFile >>
  /\ UNCHANGED << noisy, trouble, offline, cnCrc >>

(* CmdResetLog, ResetLogs of the web page. *)
ResetLog ==
  /\ LogsReset
  /\ log' = EmptyLog /\ logFile' = EmptyFile
  /\ UNCHANGED << noisy, signVars, bits, savedBits, torn >>

TroubleChanges ==
  /\ \E t \in noisy : trouble' = IF t \in trouble THEN trouble \ {t} ELSE trouble \cup {t}
  /\ UNCHANGED << noisy, dbn, luminance, fatal, offline, cnCrc, errVars >>

(* InitFaults, and the constructors. *)
InitFaults_NoVoltage(B) ==
  [c \in Detectors |-> IF c = "lsConnection" THEN NA
                       ELSE IF c \in Debounced \ {"voltage"} /\ c \in B THEN High ELSE Low]

InitFaults(B) ==
  [c \in Detectors |-> IF c = "lsConnection" THEN NA
                       ELSE IF c \in Debounced /\ c \in B THEN High ELSE Low]

(* LogResetTime: the time the controller was last alive, and now; the first *)
(* is not logged when the clock chip does not tell it.                      *)
Watchdog(onset) == Entry("watchdog", onset)

ResetTimeLogged(s, alarm) ==
  Push(IF alarm THEN Push(s, Watchdog(TRUE)) ELSE s, Watchdog(FALSE))

(* The process starts with the files F and B. *)
Start(F, B) ==
  /\ \E alarm \in BOOLEAN :
       LET w == ResetTimeLogged([log |-> Loaded(F), file |-> F], alarm)
       IN log' = w.log /\ logFile' = w.file
  /\ bits' = B /\ savedBits' = B
  /\ dbn' = InitFaults(B) /\ fatal' = AnyFatal(InitFaults(B)) /\ luminance' = (Lumi \in B)
  /\ offline' = [s \in Slaves |-> Unknown] /\ cnCrc' = [s \in Slaves |-> 0]
  /\ UNCHANGED << noisy, trouble >>

Restart == Start(logFile, savedBits) /\ UNCHANGED torn

(* A crash in a round or a judgement, between the two files of one push: the *)
(* entry is there, the bit is not.                                         *)
CrashIn(order, C) ==
  \E k \in DOMAIN order :
    LET told == C \cap { order[j] : j \in 1..k-1 }
    IN /\ order[k] \in C
       /\ Start(Pushed(order, told \cup {order[k]}).file, Toggled(told))
       /\ torn' = (torn \ told) \cup {order[k]}

CrashInStRound  == AllAnswered /\ CrashIn(StOrder, StPushes)
CrashInExtRound == AllAnswered /\ \E now \in Hours : CrashIn(ExtOrder, ExtPushes(ExtChecked(now, {})))
CrashInJudge(s) == CrashIn(JudgeOrder, JudgePushes(s))

(* A crash in a system reset: the bits are saved, the log is not yet emptied. *)
CrashInReset == Start(logFile, {}) /\ torn' = torn \cup bits

FaultInit ==
  /\ noisy \in NoisySets
  /\ trouble = {}
  /\ bits = {} /\ savedBits = {} /\ torn = {}
  /\ dbn = InitFaults({}) /\ luminance = FALSE /\ fatal = FALSE
  /\ offline = [s \in Slaves |-> Unknown] /\ cnCrc = [s \in Slaves |-> 0]
  /\ log = EmptyLog /\ logFile = EmptyFile

Runs == StRound \/ ExtRound \/ (\E s \in Slaves : Judge(s)) \/ TroubleChanges \/ ResetLog
Crashes == CrashInStRound \/ CrashInExtRound \/ (\E s \in Slaves : CrashInJudge(s)) \/ CrashInReset
FaultNext == Runs \/ SystemReset \/ Restart \/ Crashes

(* Polling goes on: rounds and judgements come again and again. *)
FaultSpec ==
  /\ FaultInit /\ [][FaultNext]_faultVars
  /\ WF_faultVars(StRound) /\ WF_faultVars(ExtRound)
  /\ \A s \in Slaves : WF_faultVars(Judge(s))

-----------------------------------------------------------------------------
(* The error bits a master reads are the debounced faults, and the fatal    *)
(* error that blanks the sign is their combination, through masked checks,  *)
(* resets, restarts and crashes between the two files.                      *)
BitsAreFaults ==
  /\ \A c \in Debounced : c \in bits <=> IsHigh(dbn, c)
  /\ Lumi \in bits <=> luminance
  /\ fatal <=> (bits \cap Fatal # {})

(* The newest entry of a fault in the log says what its bit says, unless a  *)
(* reset cleared the bit without an entry or a crash left an entry without  *)
(* its bit.                                                                *)
Newest(l, c, k) ==
  LET Of(j) == At(l, j).valid /\ At(l, j).what.code = c
  IN Of(k) /\ \A j \in 1..k-1 : ~Of(j)
LogTellsBits ==
  \A c \in Codes \ torn : \A k \in 1..Entries :
    Newest(log, c, k) => (At(log, k).what.onset <=> c \in bits)

(* The log goes on across a restart: behind the entries of the restart, two *)
(* or one, come those from before it, in order, and the numbers go on; for  *)
(* this the newest entry must be found again in the file.                   *)
GoesOn(n) ==
  /\ \A k \in n + 1..Entries : At(log', k) = At(log, k - n)
  /\ n = 2 /\ Entries > 1 => At(log', 2).valid /\ At(log', 2).no = NextNo(log)
  /\ At(log', 1).valid
  /\ At(log', 1).no = IF n = 1 THEN NextNo(log) ELSE (NextNo(log) + 1) % Numbers

LogGoesOn == [][Restart => GoesOn(1) \/ GoesOn(2)]_faultVars

(* A slave found off-line is in the error bits as long as it is, unless a   *)
(* reset took the bit away, and no bit stays when all slaves answer.        *)
OfflineIsTold ==
  /\ (\E s \in Slaves : offline[s] = 1) => Offline \in bits \cup torn
  /\ (\A s \in Slaves : offline[s] = 0) => Offline \notin bits

Undisturbed == <>[][Runs]_faultVars

(* A trouble that stays is told in the end and one that is over is not,     *)
(* once no reset, restart or crash comes any more: chain, self test,        *)
(* voltage, temperature and lantern at all times, LEDs while the chain is    *)
(* good, and a slave that answers again.                                    *)
Watched == "silent" \notin trouble
LastingIsTold ==
  Undisturbed =>
    /\ \A c \in {"chain", "selftest", "voltage", "lantern", "overtemp"} :
         /\ <>[](Watched /\ c \in trouble) => <>[](c \in bits)
         /\ <>[](Watched /\ c \notin trouble /\ "cool" \notin trouble) => <>[](c \notin bits)
    /\ <>[](Watched /\ "chain" \notin trouble /\ "manyLeds" \in trouble) => <>[]("multiLed" \in bits)
    /\ <>[](Watched /\ "chain" \notin trouble /\ ~LedsBad)
         => <>[]({"singleLed", "multiLed"} \cap bits = {})
    /\ <>[]Watched => <>[](Offline \notin bits)

=============================================================================
