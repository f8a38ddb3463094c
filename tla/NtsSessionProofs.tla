-------------------------- MODULE NtsSessionProofs --------------------------
(***************************************************************************)
(* What NtsSession keeps for any connections, any time-outs and any packets *)
(* in any order.  OnlineIsSupervised is inductive once it is known that no *)
(* timer of a session exceeds the configured time-out: a packet of one     *)
(* session sets the controller's timer to that value, which must not fall  *)
(* below another session's timer.                                          *)
(***************************************************************************)
EXTENDS NtsSession, TLAPS

TimersAreBounded == (~changed /\ timeout # 0) => \A c \in Conns : ntsTmr[c] <= timeout

SessionInv ==
  /\ TypeOK
  /\ TimersAreBounded
  /\ OnlineIsSupervised
  /\ CommErrorMeansOffline
  /\ OnlineIsShown

-----------------------------------------------------------------------------
(* Types of the operators on one end point. *)

LEMMA IncNType == \A n \in Seq0 : IncN(n) \in Seq0
  BY SessionConstants DEF IncN, Seq0

LEMMA AtType == \A v \in Session : At(v) \in EndPoint
  BY SessionConstants DEF At, EndPoint, Seq0

LEMMA DurationType ==
  TypeOK => /\ Duration \in Ticks /\ timeout \in Nat
            /\ timeout # 0 => Duration = timeout /\ Duration # Clear
  BY SessionConstants DEF TypeOK, Duration, Ticks, Clear

(* A reply and an accepted number leave the session on line or off line.   *)
LEMMA RepliedType ==
  ASSUME NEW e \in EndPoint
  PROVE  Replied(e) \in EndPoint /\ Replied(e).session = e.session
  BY IncNType DEF Replied, EndPoint

LEMMA ReceivedType ==
  ASSUME TypeOK, NEW c \in Conns, NEW ns \in Seq0, NEW nr \in Seq0
  PROVE  /\ Received(c, ns, nr) \in EndPoint
         /\ Received(c, ns, nr).session = Current(c).session
<1>1. At("OFF_LINE") \in EndPoint
  BY AtType DEF Session
<1>2. Current(c) \in EndPoint
  BY <1>1 DEF TypeOK, Current
<1>3. QED
  BY <1>2, IncNType DEF Received, EndPoint

(* A session on line after a packet was on line, and in time, before.      *)
LEMMA CurrentOnline ==
  ASSUME TypeOK, NEW c \in Conns, Current(c).session = "ON_LINE"
  PROVE  Online(c)
  BY DEF Current, At, Online

-----------------------------------------------------------------------------
LEMMA SessionStart == Init => SessionInv
<1> SUFFICES ASSUME Init PROVE SessionInv
  OBVIOUS
<1>1. TypeOK
  BY AtType DEF Init, TypeOK, Ticks, Clear
<1>2. \A c \in Conns : ~Known(c)
  BY DEF Init, Known, Online
<1>3. TimersAreBounded
  <2>1. timeout \in Nat /\ \A c \in Conns : ntsTmr[c] = Clear
    BY SessionConstants DEF Init
  <2>2. \A t \in Nat : Clear <= t
    BY DEF Clear
  <2>3. QED
    BY <2>1, <2>2 DEF TimersAreBounded
<1>4. QED
  BY <1>1, <1>2, <1>3 DEF SessionInv, OnlineIsSupervised, CommErrorMeansOffline, OnlineIsShown

(* Session(v) on an open connection: sessions other than c keep their      *)
(* state, and c is on line exactly if v says so.                           *)
LEMMA SetSessionLemma ==
  ASSUME TypeOK, OnlineIsShown, NEW c \in Conns, NEW v \in Session, SetSession(c, v),
         \A d \in Conns \ {c} : line'[d] = line[d]
  PROVE  /\ nts' \in [Conns -> EndPoint] /\ isOnline' \in BOOLEAN /\ ledPin' \in BOOLEAN
         /\ nts'[c] = At(v)
         /\ \A d \in Conns \ {c} : nts'[d] = nts[d]
         /\ OnlineIsShown'
<1>1. nts' \in [Conns -> EndPoint] /\ nts'[c] = At(v)
  BY AtType DEF SetSession, TypeOK
<1>2. \A d \in Conns \ {c} : nts'[d] = nts[d]
  BY DEF SetSession, TypeOK
<1>3. isOnline' = AnyOnline(nts') /\ isOnline' \in BOOLEAN
  BY DEF SetSession, AnyOnline
<1>4. ledPin' \in BOOLEAN
  BY DEF SetSession, TypeOK, AnyOnline
<1>5. OnlineIsShown'
  <2> SUFFICES ASSUME NEW d \in Conns, Known(d)' PROVE isOnline' /\ ~ledPin'
    BY DEF OnlineIsShown
  <2>1. isOnline'
    BY <1>3 DEF Known, Online, AnyOnline
  <2>2. CASE v = "ON_LINE"
    BY <2>1, <2>2 DEF SetSession
  <2>3. CASE v # "ON_LINE"
    <3>1. d # c
      BY <1>1, <2>3 DEF Known, Online, At
    <3>2. Known(d)
      BY <1>2, <3>1 DEF Known, Online
    <3>3. ~ledPin
      BY <3>2 DEF OnlineIsShown
    <3>4. QED
      BY <2>1, <2>3, <3>3, <1>3 DEF SetSession
  <2>4. QED
    BY <2>2, <2>3
<1>6. QED
  BY <1>1, <1>2, <1>3, <1>4, <1>5

(* The end of Rx on connection c, whose session is e, known before or just *)
(* begun: the timers of the other sessions stay below the controller's.    *)
LEMMA RefreshLemma ==
  ASSUME SessionInv, NEW c \in Conns, NEW e \in EndPoint, RefreshTimers(c, e),
         nts'[c].session = e.session,
         \A d \in Conns \ {c} : nts'[d] = nts[d],
         e.session # "ON_LINE" \/ line[c] # "unused",
         UNCHANGED << timeout, line, changed >>
  PROVE  /\ ntsTmr' \in [Conns -> Ticks] /\ sessTmr' \in Ticks /\ commError' \in BOOLEAN
         /\ TimersAreBounded' /\ OnlineIsSupervised' /\ CommErrorMeansOffline'
<1>1. CASE e.session = "ON_LINE"
  <2>1. /\ ntsTmr' = [ntsTmr EXCEPT ![c] = Duration]
        /\ sessTmr' = Duration /\ commError' = FALSE
    BY <1>1 DEF RefreshTimers
  <2>2. ntsTmr' \in [Conns -> Ticks] /\ sessTmr' \in Ticks
    BY <2>1, DurationType DEF SessionInv, TypeOK
  <2>3. TimersAreBounded'
    BY <2>1, DurationType DEF SessionInv, TypeOK, TimersAreBounded
  <2>4. OnlineIsSupervised'
    <3> SUFFICES ASSUME ~changed, timeout # 0, NEW d \in Conns, Known(d)'
                 PROVE  ntsTmr'[d] # Clear /\ sessTmr' # Clear /\ ntsTmr'[d] <= sessTmr'
      BY DEF OnlineIsSupervised
    <3>1. sessTmr' = timeout /\ timeout \in Nat /\ sessTmr' # Clear
      BY <2>1, DurationType DEF SessionInv
    <3>2. CASE d = c
      BY <2>1, <3>1, <3>2, DurationType DEF SessionInv, TypeOK
    <3>3. CASE d # c
      <4>1. Known(d) /\ ntsTmr'[d] = ntsTmr[d]
        BY <2>1, <3>3 DEF Known, Online, SessionInv, TypeOK
      <4>2. ntsTmr[d] # Clear /\ ntsTmr[d] <= timeout
        BY <4>1 DEF SessionInv, OnlineIsSupervised, TimersAreBounded
      <4>3. QED
        BY <3>1, <4>1, <4>2
    <3>4. QED
      BY <3>2, <3>3
  <2>5. QED
    BY <2>1, <2>2, <2>3, <2>4 DEF CommErrorMeansOffline
<1>2. CASE e.session # "ON_LINE"
  <2>1. UNCHANGED << ntsTmr, sessTmr, commError >>
    BY <1>2 DEF RefreshTimers
  <2>2. \A d \in Conns : Known(d)' => Known(d)
    BY <1>2 DEF Known, Online
  <2>3. QED
    BY <2>1, <2>2 DEF SessionInv, TypeOK, TimersAreBounded, OnlineIsSupervised, CommErrorMeansOffline
<1>3. QED
  BY <1>1, <1>2

(* A step that takes connection c off line, clears its timer and leaves    *)
(* the other sessions and the controller's timer alone.                    *)
LEMMA OffLineLemma ==
  ASSUME SessionInv, NEW c \in Conns, ~Known(c)',
         \A d \in Conns \ {c} : nts'[d] = nts[d] /\ line'[d] = line[d],
         ntsTmr' = [ntsTmr EXCEPT ![c] = Clear] \/ ntsTmr' = ntsTmr,
         UNCHANGED << sessTmr, timeout, commError, changed >>
  PROVE  /\ ntsTmr' \in [Conns -> Ticks]
         /\ TimersAreBounded' /\ OnlineIsSupervised' /\ CommErrorMeansOffline'
<1>1. ntsTmr' \in [Conns -> Ticks]
  BY DEF SessionInv, TypeOK, Ticks
<1>2. \A d \in Conns : Known(d)' => Known(d) /\ ntsTmr'[d] = ntsTmr[d]
  BY DEF Known, Online, SessionInv, TypeOK
<1>3. TimersAreBounded'
  BY SessionConstants DEF SessionInv, TypeOK, TimersAreBounded, Clear
<1>4. QED
  BY <1>1, <1>2, <1>3 DEF SessionInv, OnlineIsSupervised, CommErrorMeansOffline

-----------------------------------------------------------------------------
(* One lemma for each kind of step. *)

LEMMA LoginStep ==
  ASSUME SessionInv, NEW c \in Conns,
         StartSession(c) \/ \E ok \in BOOLEAN : Password(c, ok)
  PROVE  SessionInv'
<1> USE DEF SessionInv
<1>1. CASE StartSession(c)
  <2>1. "START" \in Session /\ At("START").session # "ON_LINE"
    BY DEF Session, At
  <2>2. SetSession(c, "START") /\ UNCHANGED << ntsTmr, sessTmr, timeout, commError, line, changed >>
    BY <1>1 DEF StartSession
  <2>3. /\ nts' \in [Conns -> EndPoint] /\ isOnline' \in BOOLEAN /\ ledPin' \in BOOLEAN
        /\ nts'[c] = At("START") /\ OnlineIsShown'
        /\ \A d \in Conns \ {c} : nts'[d] = nts[d]
    BY <2>1, <2>2, SetSessionLemma
  <2>4. ~Known(c)'
    BY <2>1, <2>3 DEF Known, Online
  <2>5. TimersAreBounded' /\ OnlineIsSupervised' /\ CommErrorMeansOffline'
    BY <2>2, <2>3, <2>4, OffLineLemma
  <2>6. QED
    BY <2>2, <2>3, <2>5 DEF TypeOK
<1>2. CASE Password(c, TRUE)
  <2>1. "ON_LINE" \in Session /\ At("ON_LINE") \in EndPoint /\ line[c] # "unused"
    BY <1>2, AtType DEF Session, Password
  <2>2. /\ SetSession(c, "ON_LINE") /\ RefreshTimers(c, At("ON_LINE"))
        /\ UNCHANGED << timeout, line, changed >>
    BY <1>2 DEF Password
  <2>3. /\ nts' \in [Conns -> EndPoint] /\ isOnline' \in BOOLEAN /\ ledPin' \in BOOLEAN
        /\ nts'[c] = At("ON_LINE") /\ OnlineIsShown'
        /\ \A d \in Conns \ {c} : nts'[d] = nts[d]
    BY <2>1, <2>2, SetSessionLemma
  <2>4. /\ ntsTmr' \in [Conns -> Ticks] /\ sessTmr' \in Ticks /\ commError' \in BOOLEAN
        /\ TimersAreBounded' /\ OnlineIsSupervised' /\ CommErrorMeansOffline'
    BY <2>1, <2>2, <2>3, RefreshLemma
  <2>5. QED
    BY <2>2, <2>3, <2>4 DEF TypeOK
<1>3. CASE Password(c, FALSE)
  <2>1. "OFF_LINE" \in Session /\ At("OFF_LINE").session # "ON_LINE"
    BY DEF Session, At
  <2>2. /\ SetSession(c, "OFF_LINE") /\ ntsTmr' = [ntsTmr EXCEPT ![c] = Clear]
        /\ UNCHANGED << sessTmr, timeout, commError, line, changed >>
    BY <1>3 DEF Password
  <2>3. /\ nts' \in [Conns -> EndPoint] /\ isOnline' \in BOOLEAN /\ ledPin' \in BOOLEAN
        /\ nts'[c] = At("OFF_LINE") /\ OnlineIsShown'
        /\ \A d \in Conns \ {c} : nts'[d] = nts[d]
    BY <2>1, <2>2, SetSessionLemma
  <2>4. ~Known(c)'
    BY <2>1, <2>3 DEF Known, Online
  <2>5. /\ ntsTmr' \in [Conns -> Ticks]
        /\ TimersAreBounded' /\ OnlineIsSupervised' /\ CommErrorMeansOffline'
    BY <2>2, <2>3, <2>4, OffLineLemma
  <2>6. QED
    BY <2>2, <2>3, <2>5 DEF TypeOK
<1>4. QED
  BY <1>1, <1>2, <1>3

(* EndSession sets the controller's timer though its session ends, and the *)
(* sessions that stay are below it. *)
LEMMA EndSessionStep ==
  ASSUME SessionInv, NEW c \in Conns, NEW ns \in Seq0, NEW nr \in Seq0, EndSession(c, ns, nr)
  PROVE  SessionInv'
<1> USE DEF SessionInv
<1>1. "OFF_LINE" \in Session /\ At("OFF_LINE").session # "ON_LINE"
  BY DEF Session, At
<1>2. /\ SetSession(c, "OFF_LINE") /\ ntsTmr' = [ntsTmr EXCEPT ![c] = Clear]
      /\ sessTmr' = Duration /\ commError' = FALSE
      /\ UNCHANGED << timeout, line, changed >>
  BY DEF EndSession
<1>3. /\ nts' \in [Conns -> EndPoint] /\ isOnline' \in BOOLEAN /\ ledPin' \in BOOLEAN
      /\ nts'[c] = At("OFF_LINE") /\ OnlineIsShown'
      /\ \A d \in Conns \ {c} : nts'[d] = nts[d]
  BY <1>1, <1>2, SetSessionLemma
<1>4. TypeOK'
  BY <1>2, <1>3, DurationType DEF TypeOK, Ticks
<1>5. \A d \in Conns : Known(d)' => Known(d) /\ ntsTmr'[d] = ntsTmr[d]
  BY <1>1, <1>2, <1>3 DEF Known, Online, TypeOK
<1>6. TimersAreBounded'
  BY <1>2, DurationType DEF TypeOK, TimersAreBounded, Clear
<1>7. OnlineIsSupervised'
  <2> SUFFICES ASSUME ~changed, timeout # 0, NEW d \in Conns, Known(d)'
               PROVE  ntsTmr'[d] # Clear /\ sessTmr' # Clear /\ ntsTmr'[d] <= sessTmr'
    BY <1>2 DEF OnlineIsSupervised
  <2>1. ntsTmr'[d] # Clear /\ ntsTmr'[d] <= timeout
    BY <1>5 DEF OnlineIsSupervised, TimersAreBounded
  <2>2. sessTmr' = timeout /\ sessTmr' # Clear
    BY <1>2, DurationType
  <2>3. QED
    BY <2>1, <2>2
<1>8. QED
  BY <1>2, <1>3, <1>4, <1>6, <1>7 DEF CommErrorMeansOffline

LEMMA PacketStep ==
  ASSUME SessionInv, NEW c \in Conns, NEW ns \in Seq0, NEW nr \in Seq0,
         Answered(c, ns, nr) \/ AnsweredTwice(c, ns, nr) \/ Unanswered(c, ns, nr)
  PROVE  SessionInv'
<1> USE DEF SessionInv
<1>1. PICK e \in EndPoint :
        /\ e.session = Current(c).session
        /\ nts' = [nts EXCEPT ![c] = e] /\ RefreshTimers(c, e)
  BY ReceivedType, RepliedType DEF Answered, AnsweredTwice, Unanswered
<1>2. line[c] = "open" /\ UNCHANGED << timeout, isOnline, ledPin, line, changed >>
  BY DEF Answered, AnsweredTwice, Unanswered, Accepts
<1>3. nts' \in [Conns -> EndPoint] /\ nts'[c] = e /\ \A d \in Conns \ {c} : nts'[d] = nts[d]
  BY <1>1 DEF TypeOK
<1>4. /\ ntsTmr' \in [Conns -> Ticks] /\ sessTmr' \in Ticks /\ commError' \in BOOLEAN
      /\ TimersAreBounded' /\ OnlineIsSupervised' /\ CommErrorMeansOffline'
  BY <1>1, <1>2, <1>3, RefreshLemma
<1>5. \A d \in Conns : Known(d)' => Known(d)
  BY <1>1, <1>2, <1>3, CurrentOnline DEF Known, Online
<1>6. QED
  BY <1>2, <1>3, <1>4, <1>5 DEF TypeOK, OnlineIsShown

LEMMA BadLengthStep ==
  ASSUME SessionInv, NEW c \in Conns, BadLength(c)
  PROVE  SessionInv'
<1> USE DEF SessionInv
<1>1. nts' \in [Conns -> EndPoint] /\ \A d \in Conns : nts'[d].session = nts[d].session
  BY RepliedType DEF BadLength, TypeOK
<1>2. \A d \in Conns : Known(d)' <=> Known(d)
  BY <1>1 DEF BadLength, Known, Online
<1>3. QED
  BY <1>1, <1>2 DEF BadLength, TypeOK, TimersAreBounded, OnlineIsSupervised,
                    CommErrorMeansOffline, OnlineIsShown

LEMMA ConnectionStep ==
  ASSUME SessionInv, NEW c \in Conns, Accept(c) \/ Release(c)
  PROVE  SessionInv'
<1> USE DEF SessionInv
<1>1. CASE Accept(c)
  <2>1. "OFF_LINE" \in Session /\ At("OFF_LINE").session # "ON_LINE"
    BY DEF Session, At
  <2>2. /\ SetSession(c, "OFF_LINE") /\ ntsTmr' = [ntsTmr EXCEPT ![c] = Clear]
        /\ line' = [line EXCEPT ![c] = "open"]
        /\ UNCHANGED << sessTmr, timeout, commError, changed >>
    BY <1>1 DEF Accept
  <2>3. /\ line' \in [Conns -> {"unused", "open", "closed"}]
        /\ \A d \in Conns \ {c} : line'[d] = line[d]
    BY <2>2 DEF TypeOK
  <2>4. /\ nts' \in [Conns -> EndPoint] /\ isOnline' \in BOOLEAN /\ ledPin' \in BOOLEAN
        /\ nts'[c] = At("OFF_LINE") /\ OnlineIsShown'
        /\ \A d \in Conns \ {c} : nts'[d] = nts[d]
    BY <2>1, <2>2, <2>3, SetSessionLemma
  <2>5. ~Known(c)'
    BY <2>1, <2>4 DEF Known, Online
  <2>6. /\ ntsTmr' \in [Conns -> Ticks]
        /\ TimersAreBounded' /\ OnlineIsSupervised' /\ CommErrorMeansOffline'
    BY <2>2, <2>3, <2>4, <2>5, OffLineLemma
  <2>7. QED
    BY <2>2, <2>3, <2>4, <2>6 DEF TypeOK
<1>2. CASE Release(c)
  <2>1. \A d \in Conns : Known(d)' => Known(d)
    BY <1>2 DEF Release, Known, Online, TypeOK
  <2>2. QED
    BY <1>2, <2>1 DEF Release, TypeOK, TimersAreBounded, OnlineIsSupervised,
                      CommErrorMeansOffline, OnlineIsShown
<1>3. QED
  BY <1>1, <1>2

(* The controller's timer: with nothing timed out nobody known is on line. *)
LEMMA PeriodicStep == ASSUME SessionInv, PeriodicRun PROVE SessionInv'
<1> USE DEF SessionInv
<1>1. "OFF_LINE" \in Session /\ At("OFF_LINE").session = "OFF_LINE" /\ At("OFF_LINE") \in EndPoint
  BY AtType DEF Session, At
<1>2. sessTmr = 0 /\ sessTmr' = Clear /\ UNCHANGED << timeout, line, changed >>
  BY DEF PeriodicRun
<1>3. CASE timeout > 0 /\ \E c \in Conns : TimedOut(c)
  <2> DEFINE on == {c \in Conns : nts[c].session # "OFF_LINE"}
  <2>1. /\ nts' = [c \in Conns |-> IF c \in on THEN At("OFF_LINE") ELSE nts[c]]
        /\ ntsTmr' = [c \in Conns |-> IF c \in on THEN Clear ELSE ntsTmr[c]]
        /\ commError' = TRUE /\ isOnline' = FALSE /\ ledPin' = TRUE
    BY <1>3 DEF PeriodicRun
  <2>2. TypeOK'
    BY <1>1, <1>2, <2>1 DEF TypeOK, Ticks
  <2>3. \A c \in Conns : ~Known(c)'
    BY <1>1, <2>1 DEF Known, Online
  <2>4. TimersAreBounded'
    <3> SUFFICES ASSUME ~changed, timeout # 0, NEW c \in Conns PROVE ntsTmr'[c] <= timeout
      BY <1>2 DEF TimersAreBounded
    <3>1. ntsTmr[c] <= timeout /\ Clear <= timeout
      BY DurationType DEF TimersAreBounded, Clear
    <3>2. QED
      BY <2>1, <3>1
  <2>5. QED
    BY <2>1, <2>2, <2>3, <2>4 DEF OnlineIsSupervised, CommErrorMeansOffline, OnlineIsShown
<1>4. CASE ~(timeout > 0 /\ \E c \in Conns : TimedOut(c))
  <2>1. UNCHANGED << nts, ntsTmr, commError, isOnline, ledPin >>
    BY <1>4 DEF PeriodicRun
  <2>2. TypeOK' /\ TimersAreBounded' /\ CommErrorMeansOffline' /\ OnlineIsShown'
    BY <1>2, <2>1 DEF TypeOK, Ticks, TimersAreBounded, CommErrorMeansOffline, OnlineIsShown, Known, Online
  <2>3. ASSUME ~changed, timeout # 0, NEW c \in Conns, Known(c) PROVE FALSE
    <3>1. ntsTmr[c] \in Nat /\ ntsTmr[c] <= 0
      BY <1>2, <2>3 DEF OnlineIsSupervised, TypeOK, Ticks
    <3>2. TimedOut(c) /\ timeout > 0
      BY <2>3, <3>1, DurationType DEF TimedOut, Known
    <3>3. QED
      BY <1>4, <3>2
  <2>4. OnlineIsSupervised'
    BY <1>2, <2>1, <2>3 DEF OnlineIsSupervised, Known, Online
  <2>5. QED
    BY <2>2, <2>4
<1>5. QED
  BY <1>3, <1>4

LEMMA TickStep == ASSUME SessionInv, Tick PROVE SessionInv'
<1> USE DEF SessionInv
<1>1. /\ ntsTmr' = [c \in Conns |-> Less(ntsTmr[c])] /\ sessTmr' = Less(sessTmr)
      /\ UNCHANGED << nts, timeout, commError, isOnline, ledPin, line, changed >>
  BY DEF Tick
<1>2. TypeOK'
  <2>1. ntsTmr \in [Conns -> Ticks] /\ sessTmr \in Ticks
    BY DEF TypeOK
  <2>2. ntsTmr' \in [Conns -> Ticks] /\ sessTmr' \in Ticks
    BY <1>1, <2>1 DEF Less, Ticks, Clear
  <2>3. QED
    BY <1>1, <2>2 DEF TypeOK
<1>3. TimersAreBounded'
  <2> SUFFICES ASSUME ~changed, timeout # 0, NEW c \in Conns PROVE ntsTmr'[c] <= timeout
    BY <1>1 DEF TimersAreBounded
  <2>1. ntsTmr[c] \in Ticks /\ ntsTmr[c] <= timeout
    BY DEF TimersAreBounded, TypeOK
  <2>2. timeout \in Nat
    BY DurationType
  <2>3. ntsTmr'[c] = Less(ntsTmr[c])
    BY <1>1
  <2>4. Less(ntsTmr[c]) \in Ticks /\ Less(ntsTmr[c]) <= ntsTmr[c]
    BY <2>1 DEF Less, Ticks, Clear
  <2>5. QED
    BY <2>1, <2>2, <2>3, <2>4 DEF Ticks, Clear
<1>4. OnlineIsSupervised'
  <2> SUFFICES ASSUME ~changed, timeout # 0, NEW c \in Conns, Known(c)
               PROVE  ntsTmr'[c] # Clear /\ sessTmr' # Clear /\ ntsTmr'[c] <= sessTmr'
    BY <1>1 DEF OnlineIsSupervised, Known, Online
  <2>1. /\ ntsTmr[c] \in Ticks /\ sessTmr \in Ticks
        /\ ntsTmr[c] # Clear /\ sessTmr # Clear /\ ntsTmr[c] <= sessTmr
    BY DEF OnlineIsSupervised, TypeOK
  <2>2. ntsTmr'[c] = Less(ntsTmr[c]) /\ sessTmr' = Less(sessTmr)
    BY <1>1
  <2>3. QED
    BY <2>1, <2>2 DEF Less, Ticks, Clear
<1>5. QED
  BY <1>1, <1>2, <1>3, <1>4 DEF CommErrorMeansOffline, OnlineIsShown, Known, Online

LEMMA RestartStep == ASSUME SessionInv, Restart PROVE SessionInv'
<1>1. TypeOK'
  <2>1. nts' \in [Conns -> EndPoint]
    BY AtType DEF Restart
  <2>2. line' \in [Conns -> {"unused", "open", "closed"}]
    BY DEF Restart
  <2>3. ntsTmr' \in [Conns -> Ticks] /\ sessTmr' \in Ticks
    BY DEF Restart, Ticks
  <2>4. QED
    BY <2>1, <2>2, <2>3 DEF SessionInv, Restart, TypeOK
<1>2. \A c \in Conns : ~Known(c)'
  BY DEF Restart, Known, Online
<1>3. TimersAreBounded'
  <2>1. timeout' \in Nat /\ \A c \in Conns : ntsTmr'[c] = Clear
    BY DurationType DEF SessionInv, Restart
  <2>2. \A t \in Nat : Clear <= t
    BY DEF Clear
  <2>3. QED
    BY <2>1, <2>2 DEF TimersAreBounded
<1>4. QED
  BY <1>1, <1>2, <1>3 DEF SessionInv, OnlineIsSupervised, CommErrorMeansOffline, OnlineIsShown

LEMMA SessionStep == SessionInv /\ [Next]_vars => SessionInv'
<1> SUFFICES ASSUME SessionInv, [Next]_vars PROVE SessionInv'
  OBVIOUS
<1>1. ASSUME NEW c \in Conns, Accept(c) \/ Release(c) PROVE SessionInv'
  BY <1>1, ConnectionStep
<1>2. ASSUME NEW c \in Conns, Rx(c) PROVE SessionInv'
  BY <1>2, LoginStep, EndSessionStep, PacketStep, BadLengthStep DEF Rx
<1>3. CASE PeriodicRun
  BY <1>3, PeriodicStep
<1>4. CASE Tick
  BY <1>4, TickStep
<1>5. CASE SystemReset
  BY <1>5 DEF SystemReset, SessionInv, TypeOK, TimersAreBounded, OnlineIsSupervised,
              CommErrorMeansOffline, OnlineIsShown, Known, Online
<1>6. ASSUME NEW v \in Timeouts, SetTimeout(v) PROVE SessionInv'
  BY <1>6 DEF SetTimeout, SessionInv, TypeOK, TimersAreBounded, OnlineIsSupervised,
              CommErrorMeansOffline, OnlineIsShown, Known, Online
<1>7. CASE Restart
  BY <1>7, RestartStep
<1>8. CASE UNCHANGED vars
  BY <1>8 DEF vars, SessionInv, TypeOK, TimersAreBounded, OnlineIsSupervised,
              CommErrorMeansOffline, OnlineIsShown, Known, Online
<1>9. QED
  BY <1>1, <1>2, <1>3, <1>4, <1>5, <1>6, <1>7, <1>8 DEF Next, Quiet

LEMMA SessionInvariant == Spec => []SessionInv
  BY SessionStart, SessionStep, PTL DEF Spec

(* The sessions, their numbers and their timers keep their types. *)
THEOREM SessionTypeCorrect == Spec => []TypeOK
<1>1. SessionInv => TypeOK
  BY DEF SessionInv
<1>2. QED
  BY <1>1, SessionInvariant, PTL

(* Every session on line is watched by its own and the controller's timer. *)
THEOREM SessionSupervised == Spec => []OnlineIsSupervised
<1>1. SessionInv => OnlineIsSupervised
  BY DEF SessionInv
<1>2. QED
  BY <1>1, SessionInvariant, PTL

(* The communications error excludes a session on line. *)
THEOREM SessionCommError == Spec => []CommErrorMeansOffline
<1>1. SessionInv => CommErrorMeansOffline
  BY DEF SessionInv
<1>2. QED
  BY <1>1, SessionInvariant, PTL

(* A session on line is shown on the LED and to the web interface. *)
THEOREM SessionShown == Spec => []OnlineIsShown
<1>1. SessionInv => OnlineIsShown
  BY DEF SessionInv
<1>2. QED
  BY <1>1, SessionInvariant, PTL

(* The time-out of one session drops only sessions that timed out: from    *)
(* OnlineIsSupervised, when the controller's timer is over so are theirs.  *)
THEOREM SessionOnlyIdleDropped == Spec => OnlyIdleDropped
<1> DEFINE Drop == (PeriodicRun /\ ~changed) =>
                     \A c \in Conns : (Known(c) /\ ~Online(c)') => TimedOut(c)
<1>1. SessionInv /\ [Next]_vars => [Drop]_vars
  <2> SUFFICES ASSUME SessionInv, PeriodicRun, ~changed,
                      NEW c \in Conns, Known(c), ~Online(c)'
               PROVE  TimedOut(c)
    OBVIOUS
  <2>1. sessTmr = 0
    BY DEF PeriodicRun
  <2>2. timeout # 0
    BY DurationType DEF SessionInv, PeriodicRun, Known, Online
  <2>3. ntsTmr[c] \in Nat /\ ntsTmr[c] <= 0
    BY <2>1, <2>2 DEF SessionInv, OnlineIsSupervised, TypeOK, Ticks
  <2>4. QED
    BY <2>3 DEF TimedOut, Known
<1>2. QED
  BY <1>1, SessionInvariant, PTL DEF Spec, OnlyIdleDropped
=============================================================================
