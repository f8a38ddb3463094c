--------------------------- MODULE SignFaultsProofs ---------------------------
(***************************************************************************)
(* What SignFaults keeps for any debouncing count, any slaves, any troubles *)
(* and a log of any length.  The bits are written from edges and the fatal  *)
(* error from levels, of different detectors in different rounds; that both *)
(* agree rests on InitFaults, which turns the saved bits back into levels,  *)
(* and on a check that never makes a detector high without a trouble, nor   *)
(* low with one.                                                            *)
(***************************************************************************)
EXTENDS SignFaults, SequenceTheorems, FiniteSetTheorems, WellFoundedInduction, TLAPS

FaultTyped ==
  /\ dbn \in [Detectors -> [v : {"0", "1", "NA"}, cnt0 : Int, cnt1 : Int]]
  /\ luminance \in BOOLEAN /\ fatal \in BOOLEAN
  /\ offline \in [Slaves -> {Unknown, 0, 1}]

FaultsInv == FaultTyped /\ BitsAreFaults /\ OfflineIsTold

-----------------------------------------------------------------------------
(* A check with a trouble leaves a detector as it is or makes it high, one  *)
(* without leaves it or makes it low. *)
Detector == [v : {"0", "1", "NA"}, cnt0 : Int, cnt1 : Int]

LEMMA CheckedType ==
  ASSUME NEW d \in Detector
  PROVE  /\ Checked(d, TRUE) \in Detector /\ Checked(d, TRUE).v \in {d.v, "1"}
         /\ Checked(d, FALSE) \in Detector /\ Checked(d, FALSE).v \in {d.v, "0"}
  BY SignFaultsConstants DEF Checked, Detector, High, Low

LEMMA CheckedCases ==
  ASSUME NEW d, NEW t
  PROVE  Checked(d, t) = IF t THEN Checked(d, TRUE) ELSE Checked(d, FALSE)
  BY Zenon DEF Checked

LEMMA StCheckedType ==
  ASSUME FaultTyped
  PROVE  StChecked \in [Detectors -> Detector]
<1> SUFFICES ASSUME NEW c \in Detectors PROVE StChecked[c] \in Detector
  BY DEF StChecked
<1>1. dbn[c] \in Detector
  BY DEF FaultTyped, Detector
<1>2. StChecked[c] \in {dbn[c], Checked(dbn[c], TRUE), Checked(dbn[c], FALSE)}
  <2>1. Checked(dbn[c], c \in trouble) \in {Checked(dbn[c], TRUE), Checked(dbn[c], FALSE)}
    BY CheckedCases
  <2>2. QED
    BY <2>1 DEF StChecked
<1>3. QED
  BY <1>1, <1>2, CheckedType

LEMMA ExtCheckedType ==
  ASSUME FaultTyped, NEW now, NEW fresh
  PROVE  ExtChecked(now, fresh) \in [Detectors -> Detector]
<1> SUFFICES ASSUME NEW c \in Detectors PROVE ExtChecked(now, fresh)[c] \in Detector
  BY DEF ExtChecked
<1>1. \A d \in Detectors : dbn[d] \in Detector
  BY DEF FaultTyped, Detector
<1>2. {"voltage", "overtemp", "multiLed", "singleLed", "lsConnection", "chain"} \subseteq Detectors
  BY DEF Detectors, Debounced, Fatal
<1>3. ASSUME NEW d \in Detector, NEW t PROVE Checked(d, t) \in Detector
  <2>1. Checked(d, t) \in {Checked(d, TRUE), Checked(d, FALSE)}
    BY CheckedCases
  <2>2. QED
    BY <2>1, CheckedType
<1>4. Checked(dbn[c], c \in trouble) \in Detector
  BY <1>1, <1>3
<1>5. OverTemp \in Detector
  BY <1>1, <1>2, CheckedType DEF OverTemp
<1>6. Multi \in Detector
  <2>1. Checked(dbn["multiLed"], "manyLeds" \in trouble) \in Detector
    BY <1>1, <1>2, <1>3
  <2>2. QED
    BY <1>1, <1>2, <2>1 DEF Multi
<1>7. Single \in Detector
  <2>1. Checked(dbn["singleLed"], LedsBad) \in Detector
    BY <1>1, <1>2, <1>3
  <2>2. QED
    BY <1>1, <1>2, <2>1 DEF Single
<1>8. LsConnection \in Detector
  <2>1. Checked(dbn["lsConnection"], "lsGone" \in trouble) \in Detector
    BY <1>1, <1>2, <1>3
  <2>2. QED
    BY <2>1, SignFaultsConstants DEF LsConnection, Low, Detector
<1>9. LuxChecked(c, now, fresh) \in Detector
  <2>1. [NA EXCEPT !.v = dbn[c].v] \in Detector
    BY <1>1 DEF NA, Detector
  <2>2. /\ Checked(dbn[c], c \in trouble) \in Detector
        /\ Checked([NA EXCEPT !.v = dbn[c].v], c \in trouble) \in Detector
    BY <1>1, <1>3, <2>1
  <2>3. QED
    BY <1>1, <2>2 DEF LuxChecked
<1>10. QED
  BY <1>1, <1>4, <1>5, <1>6, <1>7, <1>8, <1>9 DEF ExtChecked

(* The two ends of the temperature: between them the detector stands still. *)
LEMMA OverTempEdges ==
  ASSUME FaultTyped
  PROVE  /\ "overtemp" \in trouble => OverTemp.v \in {dbn["overtemp"].v, "1"}
         /\ "overtemp" \notin trouble => OverTemp.v \in {dbn["overtemp"].v, "0"}
         /\ ("cool" \in trouble /\ "overtemp" \notin trouble) => OverTemp = dbn["overtemp"]
         /\ dbn["overtemp"].v \in {"0", "1", "NA"}
<1>1. dbn["overtemp"] \in Detector
  BY DEF FaultTyped, Detector, Detectors, Debounced, Fatal
<1>2. QED
  BY <1>1, CheckedType DEF OverTemp, Detector

-----------------------------------------------------------------------------
(* The bits after a round have the values wanted. *)
LEMMA DifferingToggled ==
  ASSUME NEW C, NEW W, NEW c, W[c] \in BOOLEAN
  PROVE  c \in Toggled(Differing(C, W)) <=> IF c \in C THEN W[c] ELSE c \in bits
  BY DEF Differing, Toggled

LEMMA EdgeType ==
  ASSUME NEW D, NEW c
  PROVE  AfterEdge(D, c) \in BOOLEAN
<1>1. CASE D[c].v # dbn[c].v
  BY <1>1 DEF AfterEdge, IsHigh
<1>2. CASE D[c].v = dbn[c].v
  BY <1>2 DEF AfterEdge, IsHigh
<1>3. QED
  BY <1>1, <1>2

LEMMA FatalBits ==
  ASSUME NEW B, NEW D, \A c \in Fatal : c \in B <=> IsHigh(D, c)
  PROVE  AnyFatal(D) <=> B \cap Fatal # {}
  BY DEF AnyFatal

LEMMA StRoundStep ==
  ASSUME FaultsInv, StRound
  PROVE  FaultsInv'
<1> USE DEF FaultsInv
<1>1. /\ dbn' = StChecked /\ fatal' = AnyFatal(dbn') /\ bits' = Toggled(StPushes)
      /\ UNCHANGED << luminance, offline >> /\ torn' = torn \ StPushes
  BY DEF StRound, PushAll
<1>2. FaultTyped'
  BY <1>1, StCheckedType DEF FaultTyped, Detector, AnyFatal
<1>3. \A c \in StCodes : c \in bits' <=> AfterEdge(StChecked, c)
  <2> DEFINE W == [c \in StCodes |-> AfterEdge(StChecked, c)]
  <2>1. \A c \in StCodes : W[c] \in BOOLEAN /\ W[c] = AfterEdge(StChecked, c)
    BY EdgeType
  <2>2. bits' = Toggled(Differing(StCodes, W))
    BY <1>1 DEF StPushes
  <2> HIDE DEF W
  <2>3. QED
    BY <2>1, <2>2, DifferingToggled
<1>4. \A c : c \notin StCodes => (c \in bits' <=> c \in bits)
  BY <1>1 DEF StPushes, Toggled, Differing
<1>5. \A c \in Debounced : c \in bits' <=> IsHigh(dbn', c)
  <2> SUFFICES ASSUME NEW c \in Debounced PROVE c \in bits' <=> IsHigh(dbn', c)
    OBVIOUS
  <2>1. c \in Detectors /\ (c \in bits <=> IsHigh(dbn, c))
    BY DEF BitsAreFaults, Detectors
  <2>2. CASE c \in StCodes
    BY <1>1, <1>3, <2>1, <2>2 DEF AfterEdge, IsHigh
  <2>3. CASE c \notin StCodes
    BY <1>1, <1>4, <2>1, <2>3 DEF StChecked, IsHigh
  <2>4. QED
    BY <2>2, <2>3
<1>6. Lumi \notin StCodes /\ Offline \notin StCodes
  BY DEF StCodes, Lumi, Offline
<1>7. BitsAreFaults'
  <2>1. \A c \in Fatal : c \in bits' <=> IsHigh(dbn', c)
    BY <1>5 DEF Debounced
  <2>2. fatal' <=> (bits' \cap Fatal # {})
    BY <1>1, <2>1, FatalBits
  <2>3. QED
    BY <1>1, <1>4, <1>5, <1>6, <2>2 DEF BitsAreFaults
<1>8. OfflineIsTold'
  BY <1>1, <1>4, <1>6 DEF OfflineIsTold, StPushes, Differing
<1>9. QED
  BY <1>2, <1>7, <1>8

(* What each bit of this round is made: for the temperature, whose bit is  *)
(* set and cleared by levels between which nothing happens, it takes that  *)
(* the bit said what the detector did.                                     *)
LEMMA ExtWantIsHigh ==
  ASSUME FaultsInv, NEW now, NEW fresh, NEW D, D = ExtChecked(now, fresh), NEW c \in ExtCodes
  PROVE  /\ ExtWant(D)[c] \in BOOLEAN
         /\ c # Lumi => (ExtWant(D)[c] <=> IsHigh(D, c))
         /\ c = Lumi => ExtWant(D)[c] = Luminance(D)
<1> USE DEF FaultsInv
<1>1. D \in [Detectors -> Detector] /\ dbn \in [Detectors -> Detector]
  BY ExtCheckedType DEF FaultTyped, Detector
<1>2. CASE c = Lumi
  <2>1. ExtWant(D)[c] = Luminance(D)
    BY <1>2 DEF ExtWant, Lumi
  <2>2. luminance \in BOOLEAN
    BY DEF FaultTyped
  <2>3. QED
    BY <1>2, <2>1, <2>2 DEF Luminance
<1>3. CASE c = "overtemp"
  <2>1. c \in Debounced /\ c \in Detectors /\ c # Lumi
    BY <1>3 DEF Debounced, Detectors, Fatal, Lumi
  <2>2. c \in bits <=> dbn[c].v = "1"
    BY <2>1 DEF BitsAreFaults, IsHigh
  <2>3. D[c] = OverTemp
    BY <1>3, <2>1 DEF ExtChecked, Lux
  <2>4. ExtWant(D)[c] = IF "overtemp" \in trouble THEN c \in bits \/ IsHigh(D, c)
                        ELSE c \in bits /\ ("cool" \in trouble \/ ~IsLow(D, c))
    BY <1>3, <2>1 DEF ExtWant
  <2>5. CASE "overtemp" \in trouble
    <3>1. ExtWant(D)[c] = (c \in bits \/ IsHigh(D, c))
      BY <2>4, <2>5
    <3>2. QED
      BY <1>3, <2>1, <2>2, <2>3, <2>5, <3>1, OverTempEdges DEF IsHigh
  <2>6. CASE "overtemp" \notin trouble
    <3>1. ExtWant(D)[c] = (c \in bits /\ ("cool" \in trouble \/ ~IsLow(D, c)))
      BY <2>4, <2>6
    <3>2. QED
      BY <1>3, <2>1, <2>2, <2>3, <2>6, <3>1, OverTempEdges DEF IsHigh, IsLow
  <2>7. QED
    BY <2>5, <2>6
<1>4. CASE c \in {"voltage", "multiLed", "singleLed"}
  <2>1. c \in Debounced /\ c \in Detectors /\ c # Lumi /\ c # "overtemp"
    BY <1>4 DEF Debounced, Detectors, Fatal, Lumi
  <2>2. ExtWant(D)[c] = AfterEdge(D, c)
    BY <2>1 DEF ExtWant
  <2>3. c \in bits <=> IsHigh(dbn, c)
    BY <2>1 DEF BitsAreFaults
  <2>4. AfterEdge(D, c) \in BOOLEAN /\ (AfterEdge(D, c) <=> IsHigh(D, c))
    BY <2>3, EdgeType DEF AfterEdge, IsHigh
  <2>5. QED
    BY <2>1, <2>2, <2>4
<1>5. QED
  BY <1>2, <1>3, <1>4 DEF ExtCodes

LEMMA ExtRoundStep ==
  ASSUME FaultsInv, ExtRound
  PROVE  FaultsInv'
<1> USE DEF FaultsInv
<1>1. PICK now \in Hours : \E fresh \in SUBSET (now \ {"ls18hours"}) :
        LET D == ExtChecked(now, fresh)
        IN /\ dbn' = D /\ fatal' = AnyFatal(D) /\ luminance' = Luminance(D)
           /\ PushAll(ExtOrder, ExtPushes(D))
  BY DEF ExtRound
<1>0. PICK fresh \in SUBSET (now \ {"ls18hours"}) :
        LET D == ExtChecked(now, fresh)
        IN /\ dbn' = D /\ fatal' = AnyFatal(D) /\ luminance' = Luminance(D)
           /\ PushAll(ExtOrder, ExtPushes(D))
  BY <1>1
<1> DEFINE D == ExtChecked(now, fresh)
<1>2. /\ dbn' = D /\ fatal' = AnyFatal(D) /\ luminance' = Luminance(D) /\ UNCHANGED offline
      /\ bits' = Toggled(Differing(ExtCodes, ExtWant(D)))
      /\ torn' = torn \ Differing(ExtCodes, ExtWant(D))
  BY <1>0 DEF ExtRound, PushAll, ExtPushes
<1>3. /\ \A c \in ExtCodes : ExtWant(D)[c] \in BOOLEAN
      /\ \A c \in ExtCodes \ {Lumi} : ExtWant(D)[c] <=> IsHigh(D, c)
      /\ ExtWant(D)[Lumi] = Luminance(D) /\ Lumi \in ExtCodes
  BY ExtWantIsHigh DEF ExtCodes
<1>4. FaultTyped'
  <2>1. D \in [Detectors -> Detector]
    BY ExtCheckedType
  <2>2. Luminance(D) \in BOOLEAN /\ AnyFatal(D) \in BOOLEAN
    BY <1>3 DEF AnyFatal
  <2>3. QED
    BY <1>2, <2>1, <2>2 DEF FaultTyped, Detector
<1> HIDE DEF D
<1>5. \A c \in ExtCodes : c \in bits' <=> ExtWant(D)[c]
  BY <1>2, <1>3, DifferingToggled
<1>6. \A c : c \notin ExtCodes => (c \in bits' <=> c \in bits)
  BY <1>2 DEF Toggled, Differing
<1>7. \A c \in Debounced : c \in bits' <=> IsHigh(dbn', c)
  <2> SUFFICES ASSUME NEW c \in Debounced PROVE c \in bits' <=> IsHigh(dbn', c)
    OBVIOUS
  <2>1. c \in Detectors /\ (c \in bits <=> IsHigh(dbn, c)) /\ c # Lumi
    BY DEF BitsAreFaults, Detectors, Debounced, Fatal, Lumi
  <2>2. CASE c \in ExtCodes
    BY <1>2, <1>3, <1>5, <2>1, <2>2
  <2>3. CASE c \notin ExtCodes
    <3>1. c \notin {"voltage", "overtemp", "multiLed", "singleLed"}
      BY <2>3 DEF ExtCodes
    <3>2. c \in {"chain", "selftest", "lantern"}
      BY <3>1 DEF Debounced, Fatal
    <3>3. D[c] = dbn[c]
      BY <2>1, <3>2 DEF D, ExtChecked, Lux
    <3>4. QED
      BY <1>2, <1>6, <2>1, <2>3, <3>3 DEF IsHigh
  <2>4. QED
    BY <2>2, <2>3
<1>8. BitsAreFaults'
  <2>1. \A c \in Fatal : c \in bits' <=> IsHigh(dbn', c)
    BY <1>7 DEF Debounced
  <2>2. fatal' <=> (bits' \cap Fatal # {})
    BY <1>2, <2>1, FatalBits
  <2>3. Lumi \in bits' <=> luminance'
    BY <1>2, <1>3, <1>5
  <2>4. QED
    BY <1>7, <2>2, <2>3 DEF BitsAreFaults
<1>9. OfflineIsTold'
  <2>1. Offline \notin ExtCodes
    BY DEF ExtCodes, Offline, Lumi
  <2>2. QED
    BY <1>2, <1>6, <2>1 DEF OfflineIsTold, Differing
<1>10. QED
  BY <1>4, <1>8, <1>9

-----------------------------------------------------------------------------
(* A slave that is judged changes the two bits of the slaves only. *)
LEMMA JudgeStep ==
  ASSUME FaultsInv, NEW s \in Slaves, Judge(s)
  PROVE  FaultsInv'
<1> USE DEF FaultsInv
<1> DEFINE of == JudgedOffline(s)
           C  == JudgePushes(s)
<1>1. /\ offline' = of /\ bits' = Toggled(C) /\ torn' = torn \ C
      /\ UNCHANGED << dbn, luminance, fatal >>
  BY DEF Judge, PushAll
<1>2. of \in [Slaves -> {Unknown, 0, 1}]
  BY DEF FaultTyped, JudgedOffline
<1>3. C \subseteq {Offline, MpcErr} /\ (Offline \in C <=> Offline \in Reported(offline, of, Offline))
  BY DEF JudgePushes, Reported, RefreshDevErr, Offline, MpcErr
<1> HIDE DEF of, C
<1>4. \A c : c \notin {Offline, MpcErr} => (c \in bits' <=> c \in bits)
  BY <1>1, <1>3 DEF Toggled
<1>5. \A c \in Debounced \cup {Lumi} : c \notin {Offline, MpcErr}
  BY DEF Debounced, Fatal, Lumi, Offline, MpcErr
<1>6. BitsAreFaults'
  BY <1>1, <1>4, <1>5 DEF BitsAreFaults, Debounced, IsHigh
<1>7. OfflineIsTold'
  <2>1. CASE of = offline
    <3>1. Offline \notin C
      BY <1>3, <2>1 DEF Reported
    <3>2. QED
      BY <1>1, <2>1, <3>1 DEF OfflineIsTold, Toggled
  <2>2. CASE of # offline
    <3>1. Offline \in C <=> Offline \in RefreshDevErr(of, Offline)
      BY <1>3, <2>2 DEF Reported
    <3>2. CASE \E z \in Slaves : of[z] = 1
      <4>1. Offline \in C <=> Offline \notin bits
        BY <3>1, <3>2 DEF RefreshDevErr
      <4>2. ~(\A z \in Slaves : of[z] = 0)
        BY <3>2
      <4>3. QED
        BY <1>1, <4>1, <4>2 DEF OfflineIsTold, Toggled
    <3>3. CASE ~(\E z \in Slaves : of[z] = 1) /\ \A z \in Slaves : of[z] = 0
      <4>1. Offline \in C <=> Offline \in bits
        BY <3>1, <3>3 DEF RefreshDevErr
      <4>2. QED
        BY <1>1, <3>3, <4>1 DEF OfflineIsTold, Toggled
    <3>4. CASE ~(\E z \in Slaves : of[z] = 1) /\ ~(\A z \in Slaves : of[z] = 0)
      BY <1>1, <3>4 DEF OfflineIsTold
    <3>5. QED
      BY <3>2, <3>3, <3>4
  <2>3. QED
    BY <2>1, <2>2
<1>8. QED
  BY <1>1, <1>2, <1>6, <1>7 DEF FaultTyped

(* Every fault is cleared, and a bit that said so is on record as torn. *)
LEMMA ResetStep ==
  ASSUME FaultsInv, SystemReset
  PROVE  FaultsInv'
<1> USE DEF FaultsInv
<1>1. /\ dbn' = [c \in Detectors |-> Low] /\ ~luminance' /\ ~fatal' /\ bits' = {}
      /\ luminance' \in BOOLEAN /\ fatal' \in BOOLEAN
      /\ torn' = torn \cup bits /\ UNCHANGED offline
  BY DEF SystemReset
<1>2. FaultTyped'
  BY <1>1, SignFaultsConstants DEF FaultTyped, Low
<1>3. \A c \in Debounced : ~IsHigh(dbn', c)
  BY <1>1 DEF Detectors, IsHigh, Low
<1>4. QED
  BY <1>1, <1>2, <1>3 DEF BitsAreFaults, OfflineIsTold

(* The constructors take the levels from the bits, whatever a crash left   *)
(* of them.                                                                *)
LEMMA StartStep ==
  ASSUME NEW F, NEW B, Start(F, B)
  PROVE  FaultsInv'
<1>1. /\ dbn' = InitFaults(B) /\ fatal' = AnyFatal(InitFaults(B)) /\ luminance' = (Lumi \in B)
      /\ bits' = B /\ offline' = [s \in Slaves |-> Unknown]
  BY DEF Start
<1>2. FaultTyped'
  <2>1. dbn' \in [Detectors -> [v : {"0", "1", "NA"}, cnt0 : Int, cnt1 : Int]]
    BY <1>1, SignFaultsConstants DEF InitFaults, High, Low, NA
  <2>2. fatal' \in BOOLEAN /\ luminance' \in BOOLEAN
    BY <1>1 DEF AnyFatal
  <2>3. QED
    BY <1>1, <2>1, <2>2 DEF FaultTyped
<1>3. \A c \in Debounced : c \in B <=> IsHigh(InitFaults(B), c)
  <2>1. "lsConnection" \notin Debounced /\ Debounced \subseteq Detectors
    BY DEF Debounced, Fatal, Detectors
  <2>2. QED
    BY <2>1 DEF InitFaults, IsHigh, High, Low
<1>4. AnyFatal(InitFaults(B)) <=> B \cap Fatal # {}
  <2>1. \A c \in Fatal : c \in B <=> IsHigh(InitFaults(B), c)
    BY <1>3 DEF Debounced
  <2>2. QED
    BY <2>1, FatalBits
<1>5. BitsAreFaults'
  BY <1>1, <1>3, <1>4 DEF BitsAreFaults
<1>6. OfflineIsTold'
  <2>1. First \in Slaves /\ \A s \in Slaves : offline'[s] = -1
    BY <1>1, SignFaultsConstants DEF Unknown
  <2>2. QED
    BY <2>1 DEF OfflineIsTold
<1>7. QED
  BY <1>2, <1>5, <1>6 DEF FaultsInv

LEMMA FaultsStart == FaultInit => FaultsInv
<1> SUFFICES ASSUME FaultInit PROVE FaultsInv
  OBVIOUS
<1>1. FaultTyped
  <2>1. dbn \in [Detectors -> [v : {"0", "1", "NA"}, cnt0 : Int, cnt1 : Int]]
    BY SignFaultsConstants DEF FaultInit, InitFaults, High, Low, NA
  <2>2. QED
    BY <2>1 DEF FaultInit, FaultTyped
<1>2. \A c \in Debounced : ~IsHigh(dbn, c)
  BY DEF FaultInit, InitFaults, Detectors, Debounced, Fatal, IsHigh, Low, NA
<1>3. First \in Slaves /\ \A s \in Slaves : offline[s] = -1
  BY SignFaultsConstants DEF FaultInit, Unknown
<1>4. QED
  BY <1>1, <1>2, <1>3 DEF FaultInit, FaultsInv, BitsAreFaults, OfflineIsTold

LEMMA FaultsStep ==
  ASSUME FaultsInv, [FaultNext]_faultVars
  PROVE  FaultsInv'
<1>1. CASE UNCHANGED << dbn, luminance, fatal, offline, bits, torn >>
  BY <1>1 DEF FaultsInv, FaultTyped, BitsAreFaults, OfflineIsTold, AnyFatal, IsHigh
<1>2. CASE ResetLog \/ TroubleChanges \/ UNCHANGED faultVars
  BY <1>1, <1>2 DEF ResetLog, TroubleChanges, faultVars, signVars, errVars
<1>3. CASE Restart
  BY <1>3, StartStep DEF Restart
<1>4. ASSUME NEW order, NEW C, CrashIn(order, C) PROVE FaultsInv'
  BY <1>4, StartStep DEF CrashIn
<1>5. CASE Crashes
  BY <1>4, <1>5, StartStep DEF Crashes, CrashInStRound, CrashInExtRound, CrashInJudge, CrashInReset
<1>6. QED
  BY <1>2, <1>3, <1>5, StRoundStep, ExtRoundStep, JudgeStep, ResetStep DEF FaultNext, Runs

LEMMA FaultsInvariant == FaultSpec => []FaultsInv
  BY FaultsStart, FaultsStep, PTL DEF FaultSpec

(* The bits a master reads are the debounced faults and the fatal error is  *)
(* their combination, after any rounds, resets, restarts and crashes.       *)
THEOREM SignBitsAreFaults == FaultSpec => []BitsAreFaults
<1>1. FaultsInv => BitsAreFaults
  BY DEF FaultsInv
<1>2. QED
  BY <1>1, FaultsInvariant, PTL

(* A slave found off-line is in the error bits as long as it is. *)
THEOREM SignOfflineIsTold == FaultSpec => []OfflineIsTold
<1>1. FaultsInv => OfflineIsTold
  BY DEF FaultsInv
<1>2. QED
  BY <1>1, FaultsInvariant, PTL

-----------------------------------------------------------------------------
(* The log.  Its file has an option for each valid entry and the newest one  *)
(* last, so that a process that starts reads back the very log it had; and   *)
(* the newest entry of each code tells its bit.  Both outlive every push, of *)
(* a round of any number of pushes, and a crash after any of them.           *)
(* Induction up to a bound: the first number that is not in S has none        *)
(* before it. *)
LEMMA UpTo ==
  ASSUME NEW n \in Nat, NEW S, 0 \in S, \A k \in 0..n-1 : k \in S => k + 1 \in S
  PROVE  \A k \in 0..n : k \in S
<1> SUFFICES ASSUME NEW x \in 0..n, x \notin S PROVE FALSE
  OBVIOUS
<1> DEFINE Bad == { k \in 0..n : k \notin S }
           C == { 0..k : k \in Bad }
<1>1. C \subseteq FiniteSubsetsOf(0..n) /\ C # {}
  <2>1. ASSUME NEW k \in Bad PROVE 0..k \in FiniteSubsetsOf(0..n)
    <3>1. 0..k \in SUBSET (0..n) /\ IsFiniteSet(0..k)
      BY FS_Interval
    <3>2. QED
      BY <3>1 DEF FiniteSubsetsOf
  <2>2. QED
    BY <2>1
<1>2. PICK c \in C : \A b \in C : <<b, c>> \notin StrictSubsetOrdering(0..n)
  <2> HIDE DEF C
  <2>1. IsFiniteSet(0..n)
    BY FS_Interval
  <2>2. QED
    BY <1>1, <2>1, FS_StrictSubsetOrderingWellFounded, WFMin
<1>3. PICK k \in Bad : c = 0..k
  BY <1>2
<1>4. k - 1 \in Bad /\ 0..k-1 \in C
  OBVIOUS
<1>5. <<0..k-1, 0..k>> \in StrictSubsetOrdering(0..n)
  <2>1. k \in 0..k /\ k \notin 0..k-1 /\ 0..k-1 \subseteq 0..k /\ 0..k \subseteq 0..n
    OBVIOUS
  <2>2. QED
    BY <2>1 DEF StrictSubsetOrdering
<1>6. QED
  BY <1>2, <1>3, <1>4, <1>5

(* The recursive function of Pushed does what its equation says, one code    *)
(* after the other. *)
LEMMA PushedSteps ==
  ASSUME NEW order, Len(order) \in Nat, NEW C
  PROVE  \E f : /\ f[0] = [log |-> log, file |-> logFile]
                /\ \A k \in 1..Len(order) :
                     f[k] = IF order[k] \in C THEN Push(f[k-1], Entry(order[k], order[k] \notin bits))
                            ELSE f[k-1]
                /\ Pushed(order, C) = f[Len(order)]
<1> DEFINE n == Len(order)
           Next1(x, k) == IF order[k] \in C THEN Push(x, Entry(order[k], order[k] \notin bits)) ELSE x
           Step(f, m) == [k \in 0..m |-> IF k = 0 THEN [log |-> log, file |-> logFile] ELSE Next1(f[k-1], k)]
           S == { m \in 0..n : \E f : f = Step(f, m) }
           after == CHOOSE f : f = Step(f, n)
<1>1. Pushed(order, C) = after[n]
  BY DEF Pushed
<1> HIDE DEF Next1
<1>2. 0 \in S
  <2> DEFINE f == [k \in 0..0 |-> [log |-> log, file |-> logFile]]
  <2>1. f = Step(f, 0)
    OBVIOUS
  <2>2. \E h : h = Step(h, 0)
    <3> HIDE DEF f, Step
    <3>1. QED
      BY <2>1
  <2>3. QED
    BY <2>2
<1>3. ASSUME NEW m \in 0..n-1, m \in S PROVE m + 1 \in S
  <2>1. PICK f : f = Step(f, m)
    BY <1>3
  <2> DEFINE g == [k \in 0..m+1 |-> IF k <= m THEN f[k] ELSE Next1(f[m], k)]
  <2>2. g = Step(g, m + 1)
    <3>1. \A k \in 0..m : f[k] = IF k = 0 THEN [log |-> log, file |-> logFile] ELSE Next1(f[k-1], k)
      BY <2>1
    <3>2. ASSUME NEW k \in 0..m+1
          PROVE g[k] = IF k = 0 THEN [log |-> log, file |-> logFile] ELSE Next1(g[k-1], k)
      BY <3>1
    <3>3. QED
      BY <3>2
  <2>3. \E h : h = Step(h, m + 1)
    <3> HIDE DEF g, Step
    <3>1. QED
      BY <2>2
  <2>4. QED
    BY <2>3
<1>4. n \in S
  <2> HIDE DEF S
  <2>1. \A k \in 0..n : k \in S
    BY <1>2, <1>3, UpTo
  <2>2. QED
    BY <2>1
<1>5. after = Step(after, n)
  BY <1>4
<1>6. QED
  <2> HIDE DEF after
  <2>1. /\ after[0] = [log |-> log, file |-> logFile]
        /\ \A k \in 1..n : after[k] = Next1(after[k-1], k)
    BY <1>5
  <2>2. QED
    BY <1>1, <2>1 DEF Next1

(* What a log holds: the codes of the sign and the watchdog's two entries. *)
What     == [code : Codes \cup {"watchdog"}, onset : BOOLEAN]
LogEntry == [valid : {TRUE}, no : 0..Numbers - 1, what : What]
Option   == [slot : Slots, entry : LogEntry]

(* The file f has an option for each valid entry of the log l, the newest   *)
(* one last. *)
FileHolds(l, f) ==
  /\ l = [ring |-> l.ring, last |-> l.last]
  /\ l.ring \in [Slots -> LogEntry \cup {NoEntry}]
  /\ f \in Seq(Option)
  /\ \A j, k \in 1..Len(f) : f[j].slot = f[k].slot => j = k
  /\ \A k \in 1..Len(f) : l.ring[f[k].slot] = f[k].entry
  /\ \A i \in Slots : l.ring[i] # NoEntry => \E k \in 1..Len(f) : f[k].slot = i
  /\ l.last = IF f = << >> THEN -1 ELSE f[Len(f)].slot

(* What is logged is told apart from an empty place. *)
LEMMA EntryIsValid ==
  /\ \A e \in LogEntry : e.valid /\ e # NoEntry
  /\ ~NoEntry.valid
<1>1. ~NoEntry.valid
  BY DEF NoEntry
<1>2. \A e \in LogEntry : e.valid = TRUE
  BY DEF LogEntry
<1>3. QED
  BY <1>1, <1>2, Zenon

(* The log after a reset, and that of a new controller. *)
LEMMA EmptyHolds == FileHolds(EmptyLog, EmptyFile)
<1>1. EmptyFile \in Seq(Option) /\ Len(EmptyFile) = 0
  BY EmptySeq DEF EmptyFile
<1>2. EmptyFile = << >>
  BY DEF EmptyFile
<1>3. EmptyLog = [ring |-> EmptyLog.ring, last |-> EmptyLog.last] /\ EmptyLog.last = -1
      /\ EmptyLog.ring = [i \in Slots |-> NoEntry]
  BY DEF EmptyLog
<1>4. QED
  BY <1>1, <1>2, <1>3 DEF FileHolds

(* LoadConfig reads back the log its file was written from. *)
LEMMA LoadedIsLog ==
  ASSUME NEW l, NEW f, FileHolds(l, f)
  PROVE  Loaded(f) = l
<1>1. f \in Seq(Option) /\ DOMAIN f = 1..Len(f)
  BY LenProperties DEF FileHolds
<1>2. ASSUME NEW i \in Slots
      PROVE  l.ring[i] = IF \E k \in DOMAIN f : f[k].slot = i
                         THEN f[CHOOSE k \in DOMAIN f : f[k].slot = i].entry ELSE NoEntry
  <2>1. CASE \E k \in DOMAIN f : f[k].slot = i
    <3> DEFINE k == CHOOSE k \in DOMAIN f : f[k].slot = i
    <3>1. k \in DOMAIN f /\ f[k].slot = i
      BY <2>1
    <3> HIDE DEF k
    <3>2. l.ring[i] = f[k].entry
      BY <1>1, <3>1 DEF FileHolds
    <3>3. QED
      BY <2>1, <3>2 DEF k
  <2>2. CASE ~ \E k \in DOMAIN f : f[k].slot = i
    BY <1>1, <2>2 DEF FileHolds
  <2>3. QED
    BY <2>1, <2>2
<1>3. l.ring = [i \in Slots |-> IF \E k \in DOMAIN f : f[k].slot = i
                 THEN f[CHOOSE k \in DOMAIN f : f[k].slot = i].entry ELSE NoEntry]
  <2>1. l.ring = [i \in Slots |-> l.ring[i]]
    BY DEF FileHolds
  <2>2. QED
    BY <1>2, <2>1, Zenon
<1>4. QED
  BY <1>3, Zenon DEF FileHolds, Loaded

(* RemoveAt by positions. *)
LEMMA RemoveAtIs ==
  ASSUME NEW S, NEW f \in Seq(S), NEW p \in 1..Len(f)
  PROVE  /\ RemoveAt(f, p) \in Seq(S) /\ Len(RemoveAt(f, p)) = Len(f) - 1
         /\ \A k \in 1..Len(f) - 1 : RemoveAt(f, p)[k] = IF k < p THEN f[k] ELSE f[k + 1]
<1> DEFINE a == SubSeq(f, 1, p - 1)
           b == SubSeq(f, p + 1, Len(f))
<1>1. Len(f) \in Nat /\ \A k \in 1..Len(f) : f[k] \in S
  BY LenProperties, ElementOfSeq
<1>2. a \in Seq(S) /\ Len(a) = p - 1 /\ \A k \in 1..p-1 : a[k] = f[k]
  BY <1>1, SubSeqProperties
<1>3. b \in Seq(S) /\ Len(b) = Len(f) - p /\ \A k \in 1..Len(f)-p : b[k] = f[p + k]
  <2>1. \A k \in p+1..Len(f) : f[k] \in S
    BY <1>1
  <2>2. /\ b \in Seq(S) /\ Len(b) = IF p + 1 <= Len(f) THEN Len(f) - (p + 1) + 1 ELSE 0
        /\ \A k \in 1..Len(f) - (p + 1) + 1 : b[k] = f[(p + 1) + k - 1]
    BY <1>1, <2>1, SubSeqProperties
  <2> HIDE DEF b
  <2>3. QED
    BY <1>1, <2>2
<1> HIDE DEF a, b
<1>4. /\ a \o b \in Seq(S) /\ Len(a \o b) = Len(f) - 1
      /\ \A k \in 1..Len(f) - 1 : (a \o b)[k] = IF k <= Len(a) THEN a[k] ELSE b[k - Len(a)]
  <2>1. /\ a \o b \in Seq(S) /\ Len(a \o b) = Len(a) + Len(b)
        /\ \A k \in 1..Len(a) + Len(b) : (a \o b)[k] = IF k <= Len(a) THEN a[k] ELSE b[k - Len(a)]
    BY <1>2, <1>3, ConcatProperties, Zenon
  <2>2. Len(a) + Len(b) = Len(f) - 1
    BY <1>1, <1>2, <1>3
  <2>3. QED
    BY <2>1, <2>2, Zenon
<1>5. ASSUME NEW k \in 1..Len(f) - 1 PROVE (a \o b)[k] = IF k < p THEN f[k] ELSE f[k + 1]
  <2>1. CASE k < p
    BY <1>2, <1>4, <2>1
  <2>2. CASE ~(k < p)
    <3>1. k - Len(a) \in 1..Len(f) - p /\ p + (k - Len(a)) = k + 1 /\ ~(k <= Len(a))
      BY <1>1, <1>2, <2>2
    <3>2. QED
      BY <1>3, <1>4, <2>2, <3>1
  <2>3. QED
    BY <2>1, <2>2
<1>6. RemoveAt(f, p) = a \o b
  BY DEF RemoveAt, a, b
<1>7. QED
  BY <1>4, <1>5, <1>6

(* The options after one is written: the others, each once, and it last. *)
Moved(f, i, e, g) ==
  /\ g \in Seq(Option) /\ Len(g) \in 1..Len(g) /\ g # << >>
  /\ g[Len(g)] = [slot |-> i, entry |-> e]
  /\ \A k \in 1..Len(g) : k = Len(g) \/ \E j \in 1..Len(f) : g[k] = f[j] /\ f[j].slot # i
  /\ \A j \in 1..Len(f) : f[j].slot # i => \E k \in 1..Len(g) : g[k] = f[j]
  /\ \A j, k \in 1..Len(g) : g[j].slot = g[k].slot => j = k

LEMMA WrittenMoves ==
  ASSUME NEW f \in Seq(Option), \A j, k \in 1..Len(f) : f[j].slot = f[k].slot => j = k,
         NEW i \in Slots, NEW e \in LogEntry
  PROVE  Moved(f, i, e, Written(f, i, e))
<1> DEFINE g == Written(f, i, e)
           old == { k \in DOMAIN f : f[k].slot = i }
           p == CHOOSE k \in old : TRUE
           others == IF old = {} THEN f ELSE RemoveAt(f, p)
           o == [slot |-> i, entry |-> e]
<1>1. Len(f) \in Nat /\ DOMAIN f = 1..Len(f)
  BY LenProperties
<1>2. g = Append(others, o) /\ o \in Option /\ o.slot = i
  BY DEF Written, Option
<1>3. /\ others \in Seq(Option) /\ Len(others) \in Nat
      /\ \A k \in 1..Len(others) : \E j \in 1..Len(f) : others[k] = f[j] /\ f[j].slot # i
      /\ \A j \in 1..Len(f) : f[j].slot # i => \E k \in 1..Len(others) : others[k] = f[j]
      /\ \A j, k \in 1..Len(others) : others[j].slot = others[k].slot => j = k
  <2>1. CASE old = {}
    <3>1. others = f
      BY <2>1
    <3>2. \A k \in 1..Len(f) : f[k].slot # i
      BY <1>1, <2>1
    <3> HIDE DEF others, old
    <3>3. QED
      BY <1>1, <3>1, <3>2
  <2>2. CASE old # {}
    <3>1. p \in 1..Len(f) /\ f[p].slot = i
      BY <1>1, <2>2
    <3>2. others = RemoveAt(f, p)
      BY <2>2
    <3> HIDE DEF others, old, p
    <3>3. /\ others \in Seq(Option) /\ Len(others) = Len(f) - 1
          /\ \A k \in 1..Len(f) - 1 : others[k] = IF k < p THEN f[k] ELSE f[k + 1]
      BY <3>1, <3>2, RemoveAtIs
    <3>4. ASSUME NEW k \in 1..Len(others)
          PROVE \E j \in 1..Len(f) : others[k] = f[j] /\ f[j].slot # i
      <4>1. CASE k < p
        <5>1. k \in 1..Len(f) /\ k # p
          BY <1>1, <3>1, <3>3, <4>1
        <5>2. QED
          BY <3>1, <3>3, <4>1, <5>1
      <4>2. CASE ~(k < p)
        <5>1. k + 1 \in 1..Len(f) /\ k + 1 # p
          BY <1>1, <3>1, <3>3, <4>2
        <5>2. QED
          BY <3>1, <3>3, <4>2, <5>1
      <4>3. QED
        BY <4>1, <4>2
    <3>5. ASSUME NEW j \in 1..Len(f), f[j].slot # i
          PROVE \E k \in 1..Len(others) : others[k] = f[j]
      <4>1. j # p
        BY <3>1, <3>5
      <4>2. CASE j < p
        BY <1>1, <3>1, <3>3, <4>2
      <4>3. CASE p < j
        <5>1. j - 1 \in 1..Len(f) - 1 /\ ~(j - 1 < p) /\ (j - 1) + 1 = j
          BY <1>1, <3>1, <4>3
        <5>2. others[j - 1] = f[j]
          BY <3>3, <5>1
        <5>3. QED
          BY <3>3, <5>1, <5>2
      <4>4. QED
        BY <1>1, <3>1, <4>1, <4>2, <4>3
    <3>6. ASSUME NEW j \in 1..Len(others), NEW k \in 1..Len(others), others[j].slot = others[k].slot
          PROVE j = k
      <4> DEFINE s(x) == IF x < p THEN x ELSE x + 1
      <4>1. ASSUME NEW x \in 1..Len(others) PROVE s(x) \in 1..Len(f) /\ others[x] = f[s(x)]
        <5>1. x \in 1..Len(f) - 1
          BY <3>3
        <5>2. others[x] = IF x < p THEN f[x] ELSE f[x + 1]
          BY <3>3, <5>1
        <5>3. x \in 1..Len(f) /\ x + 1 \in 1..Len(f)
          BY <1>1, <5>1
        <5>4. QED
          BY <5>2, <5>3
      <4>2. s(j) = s(k)
        <5> HIDE DEF s
        <5>1. QED
          BY <3>6, <4>1
      <4>3. QED
        BY <1>1, <3>1, <3>3, <4>2
    <3>7. Len(others) \in Nat
      BY <1>1, <3>1, <3>3
    <3>8. QED
      BY <3>3, <3>4, <3>5, <3>6, <3>7, Zenon
  <2>3. QED
    BY <2>1, <2>2
<1> HIDE DEF others, o, old, p, g
<1>4. /\ g \in Seq(Option) /\ g # << >> /\ Len(g) = Len(others) + 1 /\ g[Len(others) + 1] = o
      /\ \A k \in 1..Len(others) : g[k] = others[k]
  <2>0. others \in Seq(Option) /\ o \in Option
    BY <1>2, <1>3, Zenon
  <2>1. /\ Append(others, o) \in Seq(Option) /\ Append(others, o) # << >>
        /\ Len(Append(others, o)) = Len(others) + 1
        /\ \A k \in 1..Len(others) : Append(others, o)[k] = others[k]
        /\ Append(others, o)[Len(others) + 1] = o
    <3>1. \A e1 \in Option : Append(others, e1) # << >>
      BY <2>0, AppendProperties
    <3>2. QED
      BY <2>0, <3>1
  <2>2. QED
    BY <1>2, <2>1, Zenon
<1>5. /\ Len(g) \in Nat \ {0} /\ Len(g) - 1 = Len(others) /\ g[Len(g)] = o
  BY <1>3, <1>4
<1>6. \A k \in 1..Len(others) : g[k].slot # i
  BY <1>3, <1>4
<1>7. \A j, k \in 1..Len(g) : g[j].slot = g[k].slot => j = k
  <2> SUFFICES ASSUME NEW j \in 1..Len(g), NEW k \in 1..Len(g), g[j].slot = g[k].slot PROVE j = k
    OBVIOUS
  <2>1. \A x \in 1..Len(g) : x \in 1..Len(others) \/ x = Len(g)
    BY <1>3, <1>5
  <2>2. g[Len(g)].slot = i
    BY <1>2, <1>5
  <2>3. CASE j \in 1..Len(others) /\ k \in 1..Len(others)
    <3>1. others[j].slot = others[k].slot
      BY <1>4, <2>3
    <3>2. QED
      BY <1>3, <2>3, <3>1
  <2>4. QED
    BY <1>6, <2>1, <2>2, <2>3
<1>8. \A k \in 1..Len(g) : k = Len(g) \/ \E j \in 1..Len(f) : g[k] = f[j] /\ f[j].slot # i
  <2> SUFFICES ASSUME NEW k \in 1..Len(g), k # Len(g)
               PROVE  \E j \in 1..Len(f) : g[k] = f[j] /\ f[j].slot # i
    OBVIOUS
  <2>1. k \in 1..Len(others)
    BY <1>3, <1>5
  <2>2. PICK j \in 1..Len(f) : others[k] = f[j] /\ f[j].slot # i
    BY <1>3, <2>1
  <2>3. g[k] = others[k]
    BY <1>4, <2>1
  <2>4. QED
    BY <2>2, <2>3
<1>9. ASSUME NEW j \in 1..Len(f), f[j].slot # i PROVE \E k \in 1..Len(g) : g[k] = f[j]
  <2>1. PICK k \in 1..Len(others) : others[k] = f[j]
    BY <1>3, <1>9
  <2>2. k \in 1..Len(g)
    BY <1>3, <1>5
  <2>3. QED
    BY <1>4, <2>1, <2>2
<1>10. Len(g) \in 1..Len(g)
  BY <1>5
<1>11. g[Len(g)] = [slot |-> i, entry |-> e]
  BY <1>5 DEF o
<1>12. g \in Seq(Option) /\ g # << >>
  BY <1>4
<1>13. Moved(f, i, e, g)
  BY <1>7, <1>8, <1>9, <1>10, <1>11, <1>12, Zenon DEF Moved
<1>14. QED
  BY <1>13 DEF g

(* The number of an entry goes round. *)
LEMMA NumberAfter ==
  ASSUME NEW e \in LogEntry
  PROVE  (e.no + 1) % Numbers \in 0..Numbers - 1
<1>1. e.no \in 0..Numbers - 1
  BY DEF LogEntry
<1>2. QED
  BY <1>1, RingLogConstants

(* The log l1 is l with one more entry, of what happened. *)
Grows(l, what, l1) ==
  /\ l1.last = NextSlot(l) /\ l1.last \in Slots
  /\ l1.ring[l1.last] = [valid |-> TRUE, no |-> NextNo(l), what |-> what]
  /\ l1.ring[l1.last] \in LogEntry
  /\ l1.ring \in [Slots -> LogEntry \cup {NoEntry}]
  /\ \A i \in Slots \ {l1.last} : l1.ring[i] = l.ring[i]
  /\ l1 = [ring |-> l1.ring, last |-> l1.last]
  /\ l.last \in Slots \cup {-1}

(* UciFault::Push in memory adds the entry and nothing else. *)
LEMMA LoggedGrows ==
  ASSUME NEW l, NEW f, FileHolds(l, f), NEW what \in What
  PROVE  Grows(l, what, Logged(l, what))
<1> DEFINE l1 == Logged(l, what)
<1>1. Len(f) \in Nat /\ \A k \in 1..Len(f) : f[k] \in Option
  BY LenProperties, ElementOfSeq DEF FileHolds
<1>2. l.last = -1 \/ (l.last \in Slots /\ l.ring[l.last] \in LogEntry)
  <2>1. CASE f = << >>
    BY <2>1 DEF FileHolds
  <2>2. CASE f # << >>
    <3>1. Len(f) \in 1..Len(f)
      BY <1>1, <2>2, EmptySeq DEF FileHolds
    <3>2. l.last = f[Len(f)].slot /\ l.ring[l.last] = f[Len(f)].entry
      BY <2>2, <3>1 DEF FileHolds
    <3>3. QED
      BY <1>1, <3>1, <3>2 DEF Option
  <2>3. QED
    BY <2>1, <2>2
<1>3. NextSlot(l) \in Slots
  BY <1>2, RingLogConstants DEF NextSlot, Slots
<1>4. NextNo(l) \in 0..Numbers - 1
  <2>1. CASE l.last = -1
    BY <2>1, RingLogConstants DEF NextNo
  <2>2. CASE l.last # -1
    BY <1>2, <2>2, NumberAfter DEF NextNo
  <2>3. QED
    BY <2>1, <2>2
<1> DEFINE e == [valid |-> TRUE, no |-> NextNo(l), what |-> what]
<1>5. e \in LogEntry
  BY <1>4 DEF LogEntry
<1>6. l1.ring = [l.ring EXCEPT ![NextSlot(l)] = e] /\ l1.last = NextSlot(l)
      /\ l1 = [ring |-> l1.ring, last |-> l1.last]
  BY DEF Logged, e
<1>7. l.ring \in [Slots -> LogEntry \cup {NoEntry}]
  BY DEF FileHolds
<1> HIDE DEF e, l1
<1>8. /\ l1.ring \in [Slots -> LogEntry \cup {NoEntry}] /\ l1.ring[l1.last] = e
      /\ \A i \in Slots \ {l1.last} : l1.ring[i] = l.ring[i]
  BY <1>3, <1>5, <1>6, <1>7
<1>9. QED
  BY <1>2, <1>3, <1>5, <1>6, <1>8 DEF e, l1, Grows

(* A push keeps the file in step with the log. *)
LEMMA PushHolds ==
  ASSUME NEW s, FileHolds(s.log, s.file), NEW what \in What
  PROVE  FileHolds(Push(s, what).log, Push(s, what).file)
<1> DEFINE l == s.log
           f == s.file
           l1 == Logged(l, what)
           g == Written(f, l1.last, l1.ring[l1.last])
<1>1. Push(s, what).log = l1 /\ Push(s, what).file = g
  BY DEF Push
<1>2. /\ l1.last \in Slots
      /\ l1.ring[l1.last] \in LogEntry
      /\ l1.ring \in [Slots -> LogEntry \cup {NoEntry}]
      /\ \A i \in Slots \ {l1.last} : l1.ring[i] = l.ring[i]
      /\ l1 = [ring |-> l1.ring, last |-> l1.last]
  <2>1. Grows(l, what, l1)
    BY LoggedGrows
  <2> HIDE DEF l, l1
  <2>2. QED
    BY <2>1 DEF Grows
<1>3. /\ f \in Seq(Option) /\ \A j, k \in 1..Len(f) : f[j].slot = f[k].slot => j = k
      /\ \A k \in 1..Len(f) : f[k] \in Option /\ l.ring[f[k].slot] = f[k].entry
      /\ \A i \in Slots : l.ring[i] # NoEntry => \E k \in 1..Len(f) : f[k].slot = i
  BY ElementOfSeq DEF FileHolds
<1> HIDE DEF l, f, l1, g
<1>4. Moved(f, l1.last, l1.ring[l1.last], g)
  BY <1>2, <1>3, WrittenMoves DEF g
<1>5. ASSUME NEW k \in 1..Len(g) PROVE l1.ring[g[k].slot] = g[k].entry
  <2>1. CASE k = Len(g)
    BY <1>4, <2>1 DEF Moved
  <2>2. CASE k # Len(g)
    <3>1. PICK j \in 1..Len(f) : g[k] = f[j] /\ f[j].slot # l1.last
      BY <1>4, <2>2 DEF Moved
    <3>2. f[j].slot \in Slots \ {l1.last}
      <4>1. f[j] \in Option
        BY <1>3, <3>1
      <4>2. QED
        BY <3>1, <4>1 DEF Option
    <3>3. QED
      BY <1>2, <1>3, <3>1, <3>2
  <2>3. QED
    BY <2>1, <2>2
<1>6. ASSUME NEW i \in Slots, l1.ring[i] # NoEntry PROVE \E k \in 1..Len(g) : g[k].slot = i
  <2>1. CASE i = l1.last
    BY <1>4, <2>1 DEF Moved
  <2>2. CASE i # l1.last
    <3>1. PICK j \in 1..Len(f) : f[j].slot = i
      BY <1>2, <1>3, <1>6, <2>2
    <3>2. PICK k \in 1..Len(g) : g[k] = f[j]
      BY <1>4, <2>2, <3>1 DEF Moved
    <3>3. QED
      BY <3>1, <3>2
  <2>3. QED
    BY <2>1, <2>2
<1>7. l1.last = g[Len(g)].slot /\ g # << >>
  BY <1>4 DEF Moved
<1>8. g \in Seq(Option) /\ \A j, k \in 1..Len(g) : g[j].slot = g[k].slot => j = k
  BY <1>4 DEF Moved
<1>9. FileHolds(l1, g)
  BY <1>2, <1>5, <1>6, <1>7, <1>8 DEF FileHolds
<1>10. QED
  BY <1>1, <1>9

(* A reader of the log finds what was pushed first and then what it found   *)
(* before, but the oldest entry of a full ring. *)
LEMMA PushAt ==
  ASSUME NEW s, FileHolds(s.log, s.file), NEW what \in What
  PROVE  /\ At(Push(s, what).log, 1) = [valid |-> TRUE, no |-> NextNo(s.log), what |-> what]
         /\ \A k \in 1..Entries - 1 : At(Push(s, what).log, k + 1) = At(s.log, k)
<1> DEFINE l == s.log
           l1 == Logged(l, what)
<1>1. Push(s, what).log = l1
  BY DEF Push
<1>2. /\ l1.last = NextSlot(l) /\ l1.last \in Slots /\ l.last \in Slots \cup {-1}
      /\ l1.ring[l1.last] = [valid |-> TRUE, no |-> NextNo(l), what |-> what]
      /\ \A i \in Slots \ {l1.last} : l1.ring[i] = l.ring[i]
  <2>1. Grows(l, what, l1)
    BY LoggedGrows
  <2> HIDE DEF l, l1
  <2>2. QED
    BY <2>1 DEF Grows
<1>3. l.last = -1 => \A i \in Slots : l.ring[i] = NoEntry
  <2> SUFFICES ASSUME l.last = -1, NEW i \in Slots, l.ring[i] # NoEntry PROVE FALSE
    OBVIOUS
  <2>1. PICK k \in 1..Len(s.file) : s.file[k].slot = i
    BY DEF FileHolds
  <2>2. s.file \in Seq(Option) /\ s.file # << >>
    BY <2>1, EmptySeq DEF FileHolds
  <2>3. Len(s.file) \in 1..Len(s.file)
    BY <2>2, LenProperties, EmptySeq
  <2>4. s.file[Len(s.file)].slot \in Slots
    <3>1. s.file[Len(s.file)] \in Option
      BY <2>2, <2>3, ElementOfSeq
    <3>2. QED
      BY <3>1 DEF Option
  <2>5. l.last = s.file[Len(s.file)].slot
    BY <2>2 DEF FileHolds
  <2>6. QED
    BY <2>4, <2>5 DEF Slots
<1> HIDE DEF l, l1
<1>4. At(l1, 1) = [valid |-> TRUE, no |-> NextNo(l), what |-> what]
  <2>1. l1.last # -1 /\ Place(l1.last, 1) = l1.last
    BY <1>2 DEF Place, Slots
  <2>2. QED
    BY <1>2, <2>1 DEF At
<1>5. ASSUME NEW k \in 1..Entries - 1 PROVE At(l1, k + 1) = At(l, k)
  <2>1. At(l1, k + 1) = l1.ring[Place(l1.last, k + 1)]
    BY <1>2 DEF At, Slots
  <2>2. /\ Place(l1.last, k + 1) \in Slots \ {l1.last}
        /\ l.last # -1 => Place(l1.last, k + 1) = Place(l.last, k)
    BY <1>2, RingLogConstants DEF Place, Slots, NextSlot
  <2>3. QED
    BY <1>2, <1>3, <2>1, <2>2 DEF At
<1>6. QED
  BY <1>1, <1>4, <1>5 DEF l

-----------------------------------------------------------------------------
(* The newest entry of c says v. *)
Says(l, c, v) == \A k \in 1..Entries : Newest(l, c, k) => (At(l, k).what.onset <=> v)

(* After a push the newest entry of its code says what was pushed; what the *)
(* log says of the other codes stays, or has fallen off its end. *)
LEMMA PushSays ==
  ASSUME NEW s, FileHolds(s.log, s.file), NEW what \in What
  PROVE  /\ Says(Push(s, what).log, what.code, what.onset)
         /\ \A c, v : c # what.code /\ Says(s.log, c, v) => Says(Push(s, what).log, c, v)
<1> DEFINE l == s.log
           l1 == Push(s, what).log
<1>1. /\ At(l1, 1) = [valid |-> TRUE, no |-> NextNo(l), what |-> what]
      /\ \A k \in 1..Entries - 1 : At(l1, k + 1) = At(l, k)
  BY PushAt
<1> HIDE DEF l, l1
<1>2. At(l1, 1).valid /\ At(l1, 1).what = what
  BY <1>1
<1>3. Says(l1, what.code, what.onset)
  <2> SUFFICES ASSUME NEW k \in 1..Entries, Newest(l1, what.code, k)
               PROVE  At(l1, k).what.onset <=> what.onset
    BY DEF Says
  <2>1. k = 1
    BY <1>2 DEF Newest
  <2>2. QED
    BY <1>2, <2>1
<1>4. ASSUME NEW c, NEW v, c # what.code, Says(l, c, v) PROVE Says(l1, c, v)
  <2> SUFFICES ASSUME NEW k \in 1..Entries, Newest(l1, c, k) PROVE At(l1, k).what.onset <=> v
    BY DEF Says
  <2>1. k # 1
    BY <1>2, <1>4 DEF Newest
  <2>2. k - 1 \in 1..Entries /\ k - 1 \in 1..Entries - 1 /\ (k - 1) + 1 = k
    BY <2>1, RingLogConstants
  <2>3. At(l1, k) = At(l, k - 1)
    BY <1>1, <2>2
  <2>4. Newest(l, c, k - 1)
    <3>1. At(l, k - 1).valid /\ At(l, k - 1).what.code = c
      BY <2>3 DEF Newest
    <3>2. ASSUME NEW j \in 1..(k - 1) - 1 PROVE ~(At(l, j).valid /\ At(l, j).what.code = c)
      <4>1. j \in 1..Entries - 1 /\ j + 1 \in 1..k - 1
        BY RingLogConstants
      <4>2. At(l1, j + 1) = At(l, j)
        BY <1>1, <4>1
      <4>3. QED
        BY <4>1, <4>2 DEF Newest
    <3>3. QED
      BY <3>1, <3>2 DEF Newest
  <2>5. QED
    BY <1>4, <2>2, <2>3, <2>4 DEF Says
<1>5. QED
  BY <1>3, <1>4 DEF l, l1

(* The watchdog is not a code of the sign, and entries are what they say. *)
LEMMA CodesDiffer == "watchdog" \notin Codes
  BY DEF Codes, Debounced, Fatal, Lumi, Offline, MpcErr

LEMMA EntryIsWhat ==
  /\ \A c \in Codes, v \in BOOLEAN : Entry(c, v) \in What /\ Entry(c, v).code = c /\ Entry(c, v).onset = v
  /\ \A v \in BOOLEAN : Watchdog(v) \in What /\ Watchdog(v).code = "watchdog"
<1>1. ASSUME NEW c \in Codes \cup {"watchdog"}, NEW v \in BOOLEAN
      PROVE  Entry(c, v) \in What /\ Entry(c, v).code = c /\ Entry(c, v).onset = v
  BY DEF Entry, What
<1>2. QED
  BY <1>1 DEF Watchdog

(* After the entries of the codes of C, each of which is in the order, the  *)
(* log tells what each of them becomes and of the others what it told.      *)
LEMMA PushedTells ==
  ASSUME FileHolds(log, logFile), NEW order \in Seq(Codes), NEW C,
         \A c \in C : \E k \in 1..Len(order) : order[k] = c
  PROVE  LET s == Pushed(order, C)
         IN /\ FileHolds(s.log, s.file)
            /\ \A c \in C : Says(s.log, c, c \notin bits)
            /\ \A c \in Codes \ C : \A v : Says(log, c, v) => Says(s.log, c, v)
<1>1. Len(order) \in Nat /\ \A k \in 1..Len(order) : order[k] \in Codes
  BY LenProperties, ElementOfSeq
<1>2. PICK f : /\ f[0] = [log |-> log, file |-> logFile]
               /\ \A k \in 1..Len(order) :
                    f[k] = IF order[k] \in C
                           THEN Push(f[k-1], Entry(order[k], order[k] \notin bits)) ELSE f[k-1]
               /\ Pushed(order, C) = f[Len(order)]
  BY <1>1, PushedSteps
<1> DEFINE n == Len(order)
           Good(k) == /\ FileHolds(f[k].log, f[k].file)
                      /\ \A j \in 1..k : order[j] \in C => Says(f[k].log, order[j], order[j] \notin bits)
                      /\ \A c \in Codes \ C : \A v : Says(log, c, v) => Says(f[k].log, c, v)
           S == { k \in 0..n : Good(k) }
<1>3. 0 \in S
  <2>1. f[0].log = log /\ f[0].file = logFile /\ 0 \in 0..n
    BY <1>1, <1>2
  <2>2. QED
    BY <2>1
<1>4. ASSUME NEW k \in 0..n-1, k \in S PROVE k + 1 \in S
  <2>1. k + 1 \in 1..n /\ (k + 1) - 1 = k /\ order[k + 1] \in Codes
    BY <1>1
  <2>2. f[k + 1] = IF order[k + 1] \in C
                   THEN Push(f[k], Entry(order[k + 1], order[k + 1] \notin bits)) ELSE f[k]
    BY <1>2, <2>1
  <2>3. Good(k)
    BY <1>4
  <2>4. \A j \in 1..k+1 : j \in 1..k \/ j = k + 1
    BY <1>1
  <2>5. CASE order[k + 1] \notin C
    <3>1. f[k + 1] = f[k]
      BY <2>2, <2>5
    <3>2. Good(k + 1)
      BY <2>3, <2>4, <2>5, <3>1
    <3>3. QED
      BY <2>1, <3>2
  <2>6. CASE order[k + 1] \in C
    <3> DEFINE c1 == order[k + 1]
               what == Entry(c1, c1 \notin bits)
               x == f[k]
               y == f[k + 1]
    <3>1. what \in What /\ what.code = c1 /\ what.onset = (c1 \notin bits)
      BY <2>1, EntryIsWhat
    <3>2. y = Push(x, what)
      BY <2>2, <2>6
    <3>3. FileHolds(x.log, x.file)
      BY <2>3
    <3> HIDE DEF what, x, y
    <3>4. FileHolds(y.log, y.file)
      BY <3>1, <3>2, <3>3, PushHolds
    <3>5. Says(y.log, c1, c1 \notin bits) /\ \A c, v : c # c1 /\ Says(x.log, c, v) => Says(y.log, c, v)
      BY <3>1, <3>2, <3>3, PushSays
    <3>6. ASSUME NEW j \in 1..k+1, order[j] \in C PROVE Says(y.log, order[j], order[j] \notin bits)
      <4>1. CASE order[j] = c1
        BY <3>5, <4>1
      <4>2. CASE order[j] # c1
        <5>1. j \in 1..k
          BY <2>4, <4>2
        <5>2. Says(x.log, order[j], order[j] \notin bits)
          BY <2>3, <3>6, <5>1 DEF x
        <5>3. QED
          BY <3>5, <4>2, <5>2
      <4>3. QED
        BY <4>1, <4>2
    <3>7. ASSUME NEW c \in Codes \ C, NEW v, Says(log, c, v) PROVE Says(y.log, c, v)
      <4>1. Says(x.log, c, v) /\ c # c1
        BY <2>3, <2>6, <3>7 DEF x
      <4>2. QED
        BY <3>5, <4>1
    <3>8. Good(k + 1)
      BY <3>4, <3>6, <3>7 DEF y
    <3>9. QED
      BY <2>1, <3>8
  <2>7. QED
    BY <2>5, <2>6
<1>5. Good(n)
  <2> HIDE DEF Good
  <2>1. 0 \in S /\ \A k \in 0..n-1 : k \in S => k + 1 \in S
    BY <1>3, <1>4
  <2> HIDE DEF S
  <2>2. \A k \in 0..n : k \in S
    BY <1>1, <2>1, UpTo
  <2>3. n \in S
    BY <1>1, <2>2
  <2>4. QED
    BY <2>3 DEF S
<1>6. \A c \in C : Says(f[n].log, c, c \notin bits)
  <2> SUFFICES ASSUME NEW c \in C PROVE Says(f[n].log, c, c \notin bits)
    OBVIOUS
  <2>1. PICK k \in 1..n : order[k] = c
    OBVIOUS
  <2>2. QED
    BY <1>5, <2>1
<1>7. QED
  BY <1>2, <1>5, <1>6

-----------------------------------------------------------------------------
(* The inductive invariant: the file holds the log, the saved bits are the   *)
(* bits, and what the log says of each code that is not torn is its bit. *)
LogInv ==
  /\ FileHolds(log, logFile) /\ savedBits = bits
  /\ \A c \in Codes \ torn : Says(log, c, c \in bits)

(* A round that pushes the bits of C keeps it: each is logged as what it     *)
(* becomes. *)
LEMMA PushAllLog ==
  ASSUME LogInv, NEW order \in Seq(Codes), NEW C, \A c \in C : \E k \in 1..Len(order) : order[k] = c,
         PushAll(order, C)
  PROVE  LogInv'
<1> DEFINE s == Pushed(order, C)
<1>1. /\ FileHolds(s.log, s.file)
      /\ \A c \in C : Says(s.log, c, c \notin bits)
      /\ \A c \in Codes \ C : \A v : Says(log, c, v) => Says(s.log, c, v)
  BY PushedTells DEF LogInv
<1>2. /\ log' = s.log /\ logFile' = s.file /\ bits' = Toggled(C) /\ savedBits' = bits'
      /\ torn' = torn \ C
  BY DEF PushAll
<1> HIDE DEF s
<1>3. ASSUME NEW c \in Codes, c \notin torn' PROVE Says(log', c, c \in bits')
  <2>1. CASE c \in C
    <3>1. (c \in bits') = (c \notin bits)
      BY <1>2, <2>1 DEF Toggled
    <3>2. QED
      BY <1>1, <1>2, <2>1, <3>1
  <2>2. CASE c \notin C
    <3>1. (c \in bits') = (c \in bits) /\ c \notin torn
      BY <1>2, <1>3, <2>2 DEF Toggled
    <3>2. Says(log, c, c \in bits)
      BY <3>1 DEF LogInv
    <3>3. QED
      BY <1>1, <1>2, <2>2, <3>1, <3>2
  <2>3. QED
    BY <2>1, <2>2
<1>4. FileHolds(log, logFile)'
  BY <1>1, <1>2 DEF FileHolds
<1>5. \A c \in Codes \ torn' : Says(log', c, c \in bits')
  BY <1>3
<1>6. QED
  BY <1>2, <1>4, <1>5 DEF LogInv, Says, Newest, At, Place

(* An empty log says nothing. *)
LEMMA EmptySays == \A c, v : Says(EmptyLog, c, v)
<1> SUFFICES ASSUME NEW c, NEW v, NEW k \in 1..Entries, Newest(EmptyLog, c, k) PROVE FALSE
  BY DEF Says
<1>1. At(EmptyLog, k) = NoEntry
  BY DEF At, EmptyLog
<1>2. QED
  BY <1>1 DEF Newest, NoEntry

(* The process starts with the file of the log l and the bits B: the log    *)
(* then tells of every code what l told.                                    *)
LEMMA StartLog ==
  ASSUME NEW l, NEW F, FileHolds(l, F), NEW B, Start(F, B),
         \A c \in Codes \ torn' : Says(l, c, c \in B)
  PROVE  LogInv'
<1>0. PICK alarm \in BOOLEAN :
        LET w == ResetTimeLogged([log |-> Loaded(F), file |-> F], alarm)
        IN log' = w.log /\ logFile' = w.file
  BY DEF Start
<1> DEFINE s0 == [log |-> Loaded(F), file |-> F]
           s1 == IF alarm THEN Push(s0, Watchdog(TRUE)) ELSE s0
           s2 == Push(s1, Watchdog(FALSE))
<1>1. log' = s2.log /\ logFile' = s2.file /\ bits' = B /\ savedBits' = B
  BY <1>0 DEF Start, ResetTimeLogged
<1>2. s0.log = l /\ s0.file = F
  BY LoadedIsLog
<1> HIDE DEF s0
<1>3. FileHolds(s1.log, s1.file)
  BY <1>2, EntryIsWhat, PushHolds
<1>4. \A c \in Codes : \A v : Says(l, c, v) => Says(s1.log, c, v)
  <2>1. /\ FileHolds(s0.log, s0.file) /\ Watchdog(TRUE) \in What
        /\ Watchdog(TRUE).code = "watchdog"
    BY <1>2, EntryIsWhat
  <2>2. \A c, v : c # "watchdog" /\ Says(s0.log, c, v) => Says(s1.log, c, v)
    <3>1. CASE alarm
      BY <2>1, <3>1, PushSays
    <3>2. CASE ~alarm
      BY <3>2
    <3>3. QED
      BY <3>1, <3>2
  <2>3. QED
    BY <1>2, <2>2, CodesDiffer
<1> HIDE DEF s1
<1>5. FileHolds(s2.log, s2.file)
  BY <1>3, EntryIsWhat, PushHolds
<1>6. \A c \in Codes : \A v : Says(s1.log, c, v) => Says(s2.log, c, v)
  <2>1. Watchdog(FALSE) \in What /\ Watchdog(FALSE).code = "watchdog"
    BY EntryIsWhat
  <2>2. \A c, v : c # "watchdog" /\ Says(s1.log, c, v) => Says(s2.log, c, v)
    BY <1>3, <2>1, PushSays
  <2>3. QED
    BY <2>2, CodesDiffer
<1> HIDE DEF s2
<1>7. \A c \in Codes \ torn' : Says(log', c, c \in bits')
  BY <1>1, <1>4, <1>6
<1>8. FileHolds(log, logFile)'
  BY <1>1, <1>5 DEF FileHolds
<1>9. QED
  BY <1>1, <1>7, <1>8 DEF LogInv, Says, Newest, At, Place

(* A crash between the two files of a push: the codes told before it are     *)
(* told and saved, the one it hit is torn. *)
LEMMA CrashLog ==
  ASSUME LogInv, NEW order \in Seq(Codes), NEW C, CrashIn(order, C)
  PROVE  LogInv'
<1>1. Len(order) \in Nat /\ DOMAIN order = 1..Len(order)
  BY LenProperties
<1>2. PICK k \in 1..Len(order) :
        LET told == C \cap { order[j] : j \in 1..k-1 }
        IN /\ order[k] \in C
           /\ Start(Pushed(order, told \cup {order[k]}).file, Toggled(told))
           /\ torn' = (torn \ told) \cup {order[k]}
  BY <1>1 DEF CrashIn
<1> DEFINE told == C \cap { order[j] : j \in 1..k-1 }
           T == told \cup {order[k]}
           s == Pushed(order, T)
<1>3. \A c \in T : \E j \in 1..Len(order) : order[j] = c
  <2> SUFFICES ASSUME NEW c \in T PROVE \E j \in 1..Len(order) : order[j] = c
    OBVIOUS
  <2>1. PICK j \in 1..k : order[j] = c
    <3>1. CASE c = order[k]
      BY <3>1
    <3>2. CASE c \in told
      BY <3>2
    <3>3. QED
      BY <3>1, <3>2
  <2>2. QED
    BY <1>1, <2>1
<1>4. Start(s.file, Toggled(told)) /\ torn' = (torn \ told) \cup {order[k]}
  BY <1>2
<1> HIDE DEF told, T
<1>5. /\ FileHolds(s.log, s.file)
      /\ \A c \in T : Says(s.log, c, c \notin bits)
      /\ \A c \in Codes \ T : \A v : Says(log, c, v) => Says(s.log, c, v)
  BY <1>3, PushedTells DEF LogInv
<1> HIDE DEF s
<1>6. ASSUME NEW c \in Codes, c \notin torn' PROVE Says(s.log, c, c \in Toggled(told))
  <2>0. c # order[k]
    BY <1>4, <1>6
  <2>1. CASE c \in told
    <3>1. (c \in Toggled(told)) = (c \notin bits) /\ c \in T
      BY <2>1 DEF Toggled, T
    <3>2. QED
      BY <1>5, <3>1
  <2>2. CASE c \notin told
    <3>1. (c \in Toggled(told)) = (c \in bits) /\ c \notin torn /\ c \notin T
      BY <1>4, <1>6, <2>0, <2>2 DEF Toggled, T
    <3>2. Says(log, c, c \in bits)
      BY <3>1 DEF LogInv
    <3>3. QED
      BY <1>5, <3>1, <3>2
  <2>3. QED
    BY <2>1, <2>2
<1>7. QED
  BY <1>4, <1>5, <1>6, StartLog

(* Each code a round may change has its place in the round's order. *)
LEMMA OrdersAreCodes ==
  /\ StOrder \in Seq(Codes) /\ \A c \in StCodes : \E k \in 1..Len(StOrder) : StOrder[k] = c
  /\ ExtOrder \in Seq(Codes) /\ \A c \in ExtCodes : \E k \in 1..Len(ExtOrder) : ExtOrder[k] = c
  /\ JudgeOrder \in Seq(Codes)
  /\ \A c \in {Offline, MpcErr} : \E k \in 1..Len(JudgeOrder) : JudgeOrder[k] = c
<1>1. {"lantern", "chain", "selftest", "voltage", "overtemp", "multiLed", "singleLed",
       Lumi, Offline, MpcErr} \subseteq Codes
  BY DEF Codes, Debounced, Fatal
<1>2. StOrder \in Seq(Codes) /\ Len(StOrder) = 3 /\ StOrder[1] = "lantern"
      /\ StOrder[2] = "chain" /\ StOrder[3] = "selftest"
  BY <1>1 DEF StOrder
<1>3. ExtOrder \in Seq(Codes) /\ Len(ExtOrder) = 5 /\ ExtOrder[1] = "voltage"
      /\ ExtOrder[2] = "overtemp" /\ ExtOrder[3] = "multiLed" /\ ExtOrder[4] = "singleLed"
      /\ ExtOrder[5] = Lumi
  BY <1>1 DEF ExtOrder
<1>4. /\ JudgeOrder \in Seq(Codes) /\ Len(JudgeOrder) = 2
      /\ JudgeOrder[1] = Offline /\ JudgeOrder[2] = MpcErr
  BY <1>1 DEF JudgeOrder
<1>5. \A c \in StCodes : \E k \in 1..Len(StOrder) : StOrder[k] = c
  BY <1>2 DEF StCodes
<1>6. \A c \in ExtCodes : \E k \in 1..Len(ExtOrder) : ExtOrder[k] = c
  BY <1>3 DEF ExtCodes
<1>7. \A c \in {Offline, MpcErr} : \E k \in 1..Len(JudgeOrder) : JudgeOrder[k] = c
  BY <1>4
<1>8. QED
  BY <1>2, <1>3, <1>4, <1>5, <1>6, <1>7

LEMMA LogStep ==
  ASSUME LogInv, FaultNext \/ UNCHANGED faultVars
  PROVE  LogInv'
<1>1. CASE StRound
  <2>1. StPushes \subseteq StCodes
    BY DEF StPushes, Differing
  <2>2. PushAll(StOrder, StPushes)
    BY <1>1 DEF StRound
  <2>3. QED
    BY <2>1, <2>2, OrdersAreCodes, PushAllLog
<1>2. CASE ExtRound
  <2>1. PICK now, fresh : PushAll(ExtOrder, ExtPushes(ExtChecked(now, fresh)))
    BY <1>2 DEF ExtRound
  <2>2. ExtPushes(ExtChecked(now, fresh)) \subseteq ExtCodes
    BY DEF ExtPushes, Differing
  <2>3. QED
    BY <2>1, <2>2, OrdersAreCodes, PushAllLog
<1>3. CASE \E s \in Slaves : Judge(s)
  <2>1. PICK s \in Slaves : Judge(s)
    BY <1>3
  <2>2. PushAll(JudgeOrder, JudgePushes(s))
    BY <2>1 DEF Judge
  <2>3. JudgePushes(s) \subseteq {Offline, MpcErr}
    BY DEF JudgePushes, Reported, RefreshDevErr
  <2>4. QED
    BY <2>2, <2>3, OrdersAreCodes, PushAllLog
<1>4. CASE TroubleChanges \/ UNCHANGED faultVars
  <2>1. UNCHANGED << bits, savedBits, log, logFile, torn >>
    BY <1>4 DEF TroubleChanges, faultVars, errVars
  <2>2. QED
    BY <2>1 DEF LogInv, FileHolds, Says, Newest, At, Place
<1>5. CASE ResetLog
  <2>1. log' = EmptyLog /\ logFile' = EmptyFile /\ UNCHANGED << bits, savedBits, torn >>
    BY <1>5 DEF ResetLog
  <2>2. FileHolds(log', logFile') /\ \A c \in Codes \ torn' : Says(log', c, c \in bits')
    BY <2>1, EmptyHolds, EmptySays
  <2>3. FileHolds(log, logFile)'
    BY <2>2 DEF FileHolds
  <2>4. QED
    BY <2>1, <2>2, <2>3 DEF LogInv, Says, Newest, At, Place
<1>6. CASE SystemReset
  <2>1. /\ bits' = {} /\ savedBits' = {} /\ torn' = torn \cup bits
        /\ (log' = EmptyLog /\ logFile' = EmptyFile) \/ UNCHANGED << log, logFile >>
    BY <1>6 DEF SystemReset
  <2>2. FileHolds(log', logFile')
    BY <2>1, EmptyHolds DEF LogInv
  <2>3. ASSUME NEW c \in Codes, c \notin torn' PROVE Says(log', c, c \in bits')
    <3>1. c \notin torn /\ (c \in bits') = FALSE /\ (c \in bits) = FALSE
      BY <2>1, <2>3
    <3>2. Says(log, c, FALSE)
      BY <3>1 DEF LogInv
    <3>3. Says(log', c, FALSE)
      BY <2>1, <3>2, EmptySays
    <3>4. QED
      BY <3>1, <3>3
  <2>4. FileHolds(log, logFile)'
    BY <2>2 DEF FileHolds
  <2>5. QED
    BY <2>1, <2>3, <2>4 DEF LogInv, Says, Newest, At, Place
<1>7. CASE Restart
  <2>1. Start(logFile, savedBits) /\ torn' = torn
    BY <1>7 DEF Restart
  <2>2. QED
    BY <2>1, StartLog DEF LogInv
<1>8. CASE CrashInStRound
  BY <1>8, OrdersAreCodes, CrashLog DEF CrashInStRound
<1>9. CASE CrashInExtRound
  BY <1>9, OrdersAreCodes, CrashLog DEF CrashInExtRound
<1>10. CASE \E s \in Slaves : CrashInJudge(s)
  BY <1>10, OrdersAreCodes, CrashLog DEF CrashInJudge
<1>11. CASE CrashInReset
  <2>1. Start(logFile, {}) /\ torn' = torn \cup bits /\ FileHolds(log, logFile)
    BY <1>11 DEF CrashInReset, LogInv
  <2>2. ASSUME NEW c \in Codes, c \notin torn' PROVE Says(log, c, c \in {})
    <3>1. c \notin torn /\ (c \in bits) = FALSE /\ (c \in {}) = FALSE
      BY <2>1, <2>2
    <3>2. QED
      BY <3>1 DEF LogInv
  <2>3. QED
    BY <2>1, <2>2, StartLog
<1>12. QED
  BY <1>1, <1>2, <1>3, <1>4, <1>5, <1>6, <1>7, <1>8, <1>9, <1>10, <1>11
     DEF FaultNext, Runs, Crashes

LEMMA LogStarts ==
  ASSUME FaultInit
  PROVE  LogInv
<1>1. log = EmptyLog /\ logFile = EmptyFile /\ bits = {} /\ savedBits = {}
  BY DEF FaultInit
<1>2. QED
  BY <1>1, EmptyHolds, EmptySays DEF LogInv

(* The log in the file is the log in memory, the saved bits are the bits and *)
(* the log tells them, always: through rounds of several pushes, resets,     *)
(* restarts and crashes between the two files of a push.                    *)
THEOREM SignLogInv == FaultSpec => []LogInv
<1>1. FaultInit => LogInv
  BY LogStarts
<1>2. LogInv /\ [FaultNext]_faultVars => LogInv'
  BY LogStep
<1>3. QED
  BY <1>1, <1>2, PTL DEF FaultSpec

(* The newest entry of a fault in the log (UciFault::Push, Sign's error bits) *)
(* says what its bit says, unless a reset or a crash tore them apart.       *)
THEOREM SignLogTellsBits == FaultSpec => []LogTellsBits
<1>1. LogInv => LogTellsBits
  BY DEF LogInv, LogTellsBits, Says
<1>2. QED
  BY <1>1, SignLogInv, PTL

(* A start that logs the time of the reset goes on with the log it finds:  *)
(* one entry more, when the clock chip does not tell the time of the alarm, *)
(* or two.                                                                  *)
LEMMA OneEntryMore ==
  ASSUME NEW s, FileHolds(s.log, s.file), NEW onset \in BOOLEAN
  PROVE  LET t == Push(s, Watchdog(onset))
         IN /\ FileHolds(t.log, t.file)
            /\ At(t.log, 1).valid /\ At(t.log, 1).no = NextNo(s.log)
            /\ \A k \in 2..Entries : At(t.log, k) = At(s.log, k - 1)
            /\ NextNo(t.log) = (NextNo(s.log) + 1) % Numbers
<1> DEFINE t == Push(s, Watchdog(onset))
<1>1. Watchdog(onset) \in What
  BY EntryIsWhat
<1>2. /\ FileHolds(t.log, t.file)
      /\ At(t.log, 1) = [valid |-> TRUE, no |-> NextNo(s.log), what |-> Watchdog(onset)]
      /\ \A k \in 1..Entries - 1 : At(t.log, k + 1) = At(s.log, k)
  BY <1>1, PushHolds, PushAt
<1>3. NextNo(t.log) = (NextNo(s.log) + 1) % Numbers
  <2>1. t.log = Logged(s.log, Watchdog(onset))
    BY DEF Push
  <2> HIDE DEF t
  <2>2. Grows(s.log, Watchdog(onset), t.log)
    BY <1>1, <2>1, LoggedGrows
  <2>3. t.log.last \in Slots /\ t.log.ring[t.log.last].no = NextNo(s.log)
    BY <2>2 DEF Grows
  <2>4. t.log.last # -1
    BY <2>3 DEF Slots
  <2>5. QED
    BY <2>3, <2>4 DEF NextNo
<1> HIDE DEF t
<1>4. ASSUME NEW k \in 2..Entries PROVE At(t.log, k) = At(s.log, k - 1)
  <2>1. k - 1 \in 1..Entries - 1 /\ (k - 1) + 1 = k
    BY RingLogConstants
  <2>2. QED
    BY <1>2, <2>1
<1>5. QED
  BY <1>2, <1>3, <1>4 DEF t

(* A restart (UciFault::LoadConfig, LogResetTime) finds the log again and    *)
(* goes on with it: order and numbers, for a log of any length, and whether  *)
(* or not the clock chip tells when the controller was last alive.           *)
THEOREM SignLogGoesOn == FaultSpec => LogGoesOn
<1>1. ASSUME LogInv, Restart PROVE GoesOn(1) \/ GoesOn(2)
  <2> DEFINE s0 == [log |-> Loaded(logFile), file |-> logFile]
  <2>1. PICK alarm \in BOOLEAN : log' = ResetTimeLogged(s0, alarm).log
    BY <1>1 DEF Restart, Start
  <2>2. s0.log = log /\ FileHolds(s0.log, s0.file)
    BY <1>1, LoadedIsLog DEF LogInv
  <2> HIDE DEF s0
  <2>3. CASE ~alarm
    <3> DEFINE s1 == Push(s0, Watchdog(FALSE))
    <3>1. log' = s1.log
      BY <2>1, <2>3 DEF ResetTimeLogged
    <3>2. /\ At(s1.log, 1).valid /\ At(s1.log, 1).no = NextNo(log)
          /\ \A k \in 2..Entries : At(s1.log, k) = At(log, k - 1)
      BY <2>2, OneEntryMore
    <3> HIDE DEF s1
    <3>3. QED
      BY <3>1, <3>2 DEF GoesOn
  <2>4. CASE alarm
    <3> DEFINE s1 == Push(s0, Watchdog(TRUE))
               s2 == Push(s1, Watchdog(FALSE))
    <3>1. log' = s2.log
      BY <2>1, <2>4 DEF ResetTimeLogged
    <3>2. /\ FileHolds(s1.log, s1.file)
          /\ At(s1.log, 1).valid /\ At(s1.log, 1).no = NextNo(log)
          /\ \A k \in 2..Entries : At(s1.log, k) = At(log, k - 1)
          /\ NextNo(s1.log) = (NextNo(log) + 1) % Numbers
      BY <2>2, OneEntryMore
    <3> HIDE DEF s1
    <3>3. /\ At(s2.log, 1).valid /\ At(s2.log, 1).no = NextNo(s1.log)
          /\ \A k \in 2..Entries : At(s2.log, k) = At(s1.log, k - 1)
      BY <3>2, OneEntryMore
    <3> HIDE DEF s2
    <3>4. ASSUME NEW k \in 3..Entries PROVE At(log', k) = At(log, k - 2)
      <4>1. k \in 2..Entries /\ k - 1 \in 2..Entries /\ (k - 1) - 1 = k - 2
        BY RingLogConstants
      <4>2. At(s2.log, k) = At(s1.log, k - 1) /\ At(s1.log, k - 1) = At(log, k - 2)
        BY <3>2, <3>3, <4>1
      <4>3. QED
        BY <3>1, <4>2
    <3>5. Entries > 1 => At(log', 2) = At(s1.log, 1)
      BY <3>1, <3>3, RingLogConstants
    <3>6. QED
      BY <3>1, <3>2, <3>3, <3>4, <3>5 DEF GoesOn
  <2>5. QED
    BY <2>3, <2>4
<1>2. LogInv /\ [FaultNext]_faultVars => [Restart => GoesOn(1) \/ GoesOn(2)]_faultVars
  BY <1>1
<1>3. QED
  BY <1>2, SignLogInv, PTL DEF FaultSpec, LogGoesOn
=============================================================================
