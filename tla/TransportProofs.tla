--------------------------- MODULE TransportProofs ---------------------------
(***************************************************************************)
(* What Transport keeps for any number of slots, any order of the events   *)
(* and any time-outs.  The sessions keep what NtsSessionProofs shows of    *)
(* them, also when slots are closed several at a time and when the serial  *)
(* port is opened again.  Of the pool, PoolIsSound is inductive by itself, *)
(* given what one knows of sequences without repetition.  An idle timer    *)
(* outlives its session because each packet sets both, and it longer.      *)
(***************************************************************************)
EXTENDS Transport, NtsSessionProofs, FiniteSetTheorems, SequenceTheorems

(* An edge or an event of the listener stands for a connection that waits,  *)
(* and not both for the same one.                                          *)
ListenIsPending ==
  /\ edge => waiting > 0
  /\ << "listen" >> \in batch => waiting > 0
  /\ edge /\ << "listen" >> \in batch => waiting > 1

(* The idle timer of an open connection runs at least as long as the       *)
(* session timer.                                                          *)
IdleIsLast ==
  (~changed /\ timeout # 0) => \A c \in Open : Online(c) => ntsTmr[c] <= idle[c]

TransportInv ==
  /\ SessionInv
  /\ TransportTypeOK
  /\ PoolIsSound
  /\ ListenIsPending
  /\ IdleIsLast

-----------------------------------------------------------------------------
(* Sequences without repetition. *)

LEMMA SetToSeqsLemma ==
  ASSUME NEW S, IsFiniteSet(S), NEW f \in SetToSeqs(S)
  PROVE  f \in Seq(S) /\ IsInjective(f) /\ ToSet(f) = S
<1> DEFINE n == Cardinality(S)
<1>1. n \in Nat
  BY FS_CardinalityType
<1>2. f \in [1 .. n -> S] /\ \A i, j \in 1 .. n : i # j => f[i] # f[j]
  BY DEF SetToSeqs
<1>3. IsInjective(f)
  BY <1>2 DEF IsInjective
<1>4. f \in Injection(1 .. n, S)
  BY <1>2, <1>3 DEF Injection
<1>5. Cardinality(1 .. n) = n
  BY <1>1, FS_Interval
<1>6. f \in Surjection(1 .. n, S)
  BY <1>4, <1>5, FS_Injection
<1>7. ToSet(f) = S
  BY <1>2, <1>6 DEF Surjection, ToSet
<1>8. f \in Seq(S)
  BY <1>1, <1>2
<1>9. QED
  BY <1>3, <1>7, <1>8

LEMMA ConcatLemma ==
  ASSUME NEW S, NEW s \in Seq(S), NEW t \in Seq(S), IsInjective(s), IsInjective(t),
         ToSet(s) \cap ToSet(t) = {}
  PROVE  s \o t \in Seq(S) /\ IsInjective(s \o t) /\ ToSet(s \o t) = ToSet(s) \cup ToSet(t)
<1> DEFINE r == s \o t
<1>1. /\ r \in Seq(S) /\ Len(r) = Len(s) + Len(t)
      /\ Len(s) \in Nat /\ Len(t) \in Nat
      /\ \A i \in 1 .. Len(s) + Len(t) : r[i] = IF i <= Len(s) THEN s[i] ELSE t[i - Len(s)]
  BY ConcatProperties, LenProperties
<1>2. DOMAIN s = 1 .. Len(s) /\ DOMAIN t = 1 .. Len(t) /\ DOMAIN r = 1 .. Len(s) + Len(t)
  BY <1>1, LenProperties
<1>3. IsInjective(r)
  <2> SUFFICES ASSUME NEW i \in DOMAIN r, NEW j \in DOMAIN r, r[i] = r[j] PROVE i = j
    BY DEF IsInjective
  <2>1. CASE i <= Len(s) /\ j <= Len(s)
    BY <1>1, <1>2, <2>1 DEF IsInjective
  <2>2. CASE i > Len(s) /\ j > Len(s)
    <3>1. i - Len(s) \in DOMAIN t /\ j - Len(s) \in DOMAIN t
      BY <1>1, <1>2, <2>2
    <3>2. t[i - Len(s)] = t[j - Len(s)]
      BY <1>1, <1>2, <2>2
    <3>3. i - Len(s) = j - Len(s)
      BY <3>1, <3>2 DEF IsInjective
    <3>4. QED
      BY <3>3, <1>1, <1>2
  <2>3. CASE i <= Len(s) /\ j > Len(s)
    <3>1. i \in DOMAIN s /\ j - Len(s) \in DOMAIN t /\ s[i] = t[j - Len(s)]
      BY <1>1, <1>2, <2>3
    <3>2. s[i] \in ToSet(s) /\ s[i] \in ToSet(t)
      BY <3>1 DEF ToSet
    <3>3. QED
      BY <3>2
  <2>4. CASE i > Len(s) /\ j <= Len(s)
    <3>1. j \in DOMAIN s /\ i - Len(s) \in DOMAIN t /\ s[j] = t[i - Len(s)]
      BY <1>1, <1>2, <2>4
    <3>2. s[j] \in ToSet(s) /\ s[j] \in ToSet(t)
      BY <3>1 DEF ToSet
    <3>3. QED
      BY <3>2
  <2>5. QED
    BY <1>1, <1>2, <2>1, <2>2, <2>3, <2>4
<1>4. ToSet(r) \subseteq ToSet(s) \cup ToSet(t)
  <2> SUFFICES ASSUME NEW i \in DOMAIN r PROVE r[i] \in ToSet(s) \cup ToSet(t)
    BY DEF ToSet
  <2>1. CASE i <= Len(s)
    BY <1>1, <1>2, <2>1 DEF ToSet
  <2>2. CASE i > Len(s)
    <3>1. i - Len(s) \in DOMAIN t /\ r[i] = t[i - Len(s)]
      BY <1>1, <1>2, <2>2
    <3>2. QED
      BY <3>1 DEF ToSet
  <2>3. QED
    BY <1>1, <1>2, <2>1, <2>2
<1>5. ToSet(s) \subseteq ToSet(r)
  <2> SUFFICES ASSUME NEW i \in DOMAIN s PROVE s[i] \in ToSet(r)
    BY DEF ToSet
  <2>1. i \in DOMAIN r /\ r[i] = s[i]
    BY <1>1, <1>2
  <2>2. QED
    BY <2>1 DEF ToSet
<1>6. ToSet(t) \subseteq ToSet(r)
  <2> SUFFICES ASSUME NEW i \in DOMAIN t PROVE t[i] \in ToSet(r)
    BY DEF ToSet
  <2>1. i + Len(s) \in DOMAIN r /\ r[i + Len(s)] = t[i]
    BY <1>1, <1>2
  <2>2. QED
    BY <2>1 DEF ToSet
<1>7. QED
  BY <1>1, <1>3, <1>4, <1>5, <1>6

LEMMA FrontLemma ==
  ASSUME NEW S, NEW s \in Seq(S), s # << >>, IsInjective(s)
  PROVE  /\ Last(s) \in ToSet(s)
         /\ Front(s) \in Seq(S) /\ IsInjective(Front(s))
         /\ ToSet(Front(s)) = ToSet(s) \ {Last(s)}
<1> DEFINE n == Len(s)
           f == Front(s)
<1>1. n \in Nat \ {0} /\ DOMAIN s = 1 .. n
  BY EmptySeq, LenProperties
<1>2. f \in Seq(S) /\ DOMAIN f = 1 .. n - 1 /\ \A i \in 1 .. n - 1 : f[i] = s[i]
  BY <1>1 DEF Front
<1>3. Last(s) \in ToSet(s)
  BY <1>1 DEF Last, ToSet
<1>4. IsInjective(f)
  BY <1>1, <1>2 DEF IsInjective
<1>5. \A i \in 1 .. n - 1 : s[i] # Last(s)
  BY <1>1 DEF IsInjective, Last
<1>6. ToSet(f) \subseteq ToSet(s) \ {Last(s)}
  BY <1>1, <1>2, <1>5 DEF ToSet
<1>7. ASSUME NEW x \in ToSet(s), x # Last(s) PROVE x \in ToSet(f)
  <2>1. PICK i \in 1 .. n : x = s[i]
    BY <1>1 DEF ToSet
  <2>2. i \in 1 .. n - 1
    BY <1>1, <1>7, <2>1 DEF Last
  <2>3. QED
    BY <1>2, <2>1, <2>2 DEF ToSet
<1>8. QED
  BY <1>2, <1>3, <1>4, <1>6, <1>7

-----------------------------------------------------------------------------
(* The sessions.  A session whose connection is closed keeps its state, so *)
(* nothing changes that SessionInv is about.                               *)

LEMMA ClosedSession ==
  ASSUME SessionInv, NEW s \in SUBSET Open,
         line' = [c \in Conns |-> IF c \in s THEN "closed" ELSE line[c]],
         UNCHANGED << nts, ntsTmr, sessTmr, timeout, commError, isOnline, ledPin, changed >>
  PROVE  SessionInv'
<1>1. line' \in [Conns -> {"unused", "open", "closed"}]
  BY DEF SessionInv, TypeOK
<1>2. \A c \in Conns : Known(c)' => Known(c)
  BY DEF Known, Online, Open
<1>3. QED
  BY <1>1, <1>2 DEF SessionInv, TypeOK, TimersAreBounded, OnlineIsSupervised,
                    CommErrorMeansOffline, OnlineIsShown

LEMMA UnchangedSession == SessionInv /\ UNCHANGED vars => SessionInv'
  BY DEF vars, SessionInv, TypeOK, TimersAreBounded, OnlineIsSupervised,
         CommErrorMeansOffline, OnlineIsShown, Known, Online

LEMMA ReOpenSession ==
  ASSUME SessionInv, NEW c \in Conns, ReOpen(c)
  PROVE  SessionInv'
<1>1. "OFF_LINE" \in Session /\ At("OFF_LINE").session # "ON_LINE"
  BY DEF Session, At
<1>2. /\ SetSession(c, "OFF_LINE") /\ ntsTmr' = [ntsTmr EXCEPT ![c] = Clear]
      /\ UNCHANGED << sessTmr, timeout, commError, line, changed >>
  BY DEF ReOpen
<1>3. /\ nts' \in [Conns -> EndPoint] /\ isOnline' \in BOOLEAN /\ ledPin' \in BOOLEAN
      /\ nts'[c] = At("OFF_LINE") /\ OnlineIsShown'
      /\ \A d \in Conns \ {c} : nts'[d] = nts[d]
  BY <1>1, <1>2, SetSessionLemma DEF SessionInv
<1>4. ~Known(c)'
  BY <1>1, <1>3 DEF Known, Online
<1>5. /\ ntsTmr' \in [Conns -> Ticks]
      /\ TimersAreBounded' /\ OnlineIsSupervised' /\ CommErrorMeansOffline'
  BY <1>2, <1>3, <1>4, OffLineLemma
<1>6. QED
  BY <1>2, <1>3, <1>5 DEF SessionInv, TypeOK

LEMMA PacketSession == ASSUME SessionInv, NEW c \in Conns, Rx(c) PROVE SessionInv'
  BY LoginStep, EndSessionStep, PacketStep, BadLengthStep DEF Rx

LEMMA ControllerSession == ASSUME SessionInv, ControllerStep PROVE SessionInv'
<1>1. CASE PeriodicRun
  BY <1>1, PeriodicStep
<1>2. CASE SystemReset
  BY <1>2 DEF SystemReset, SessionInv, TypeOK, TimersAreBounded, OnlineIsSupervised,
              CommErrorMeansOffline, OnlineIsShown, Known, Online
<1>3. ASSUME NEW v \in Timeouts, SetTimeout(v) PROVE SessionInv'
  BY <1>3 DEF SetTimeout, SessionInv, TypeOK, TimersAreBounded, OnlineIsSupervised,
              CommErrorMeansOffline, OnlineIsShown, Known, Online
<1>4. QED
  BY <1>1, <1>2, <1>3 DEF ControllerStep

LEMMA AcceptSession == ASSUME SessionInv, NEW c \in TcpConns, Accept(c) PROVE SessionInv'
  BY ConnectionStep, SessionConstants

(* A packet leaves the other connections alone. *)
LEMMA RxFrame ==
  ASSUME TypeOK, NEW c \in Conns, Rx(c)
  PROVE  /\ \A d \in Conns \ {c} : nts'[d] = nts[d] /\ ntsTmr'[d] = ntsTmr[d]
         /\ UNCHANGED << timeout, line, changed >>
<1> USE DEF TypeOK
<1>1. CASE StartSession(c)
  BY <1>1 DEF StartSession, SetSession
<1>2. ASSUME NEW ok \in BOOLEAN, Password(c, ok)
      PROVE  /\ \A d \in Conns \ {c} : nts'[d] = nts[d] /\ ntsTmr'[d] = ntsTmr[d]
             /\ UNCHANGED << timeout, line, changed >>
  BY <1>2 DEF Password, SetSession, RefreshTimers
<1>3. ASSUME NEW ns \in Seq0, NEW nr \in Seq0,
             \/ EndSession(c, ns, nr) \/ Answered(c, ns, nr)
             \/ AnsweredTwice(c, ns, nr) \/ Unanswered(c, ns, nr)
      PROVE  /\ \A d \in Conns \ {c} : nts'[d] = nts[d] /\ ntsTmr'[d] = ntsTmr[d]
             /\ UNCHANGED << timeout, line, changed >>
  <2>1. CASE EndSession(c, ns, nr)
    BY <2>1 DEF EndSession, SetSession
  <2>2. CASE Answered(c, ns, nr)
    BY <2>2 DEF Answered, RefreshTimers
  <2>3. CASE Unanswered(c, ns, nr)
    BY <2>3 DEF Unanswered, RefreshTimers
  <2>4. CASE AnsweredTwice(c, ns, nr)
    BY <2>4 DEF AnsweredTwice, RefreshTimers
  <2>5. QED
    BY <1>3, <2>1, <2>2, <2>3, <2>4
<1>4. CASE BadLength(c)
  BY <1>4 DEF BadLength
<1>5. QED
  BY <1>1, <1>2, <1>3, <1>4 DEF Rx

-----------------------------------------------------------------------------
(* The pool. *)

LEMMA OpenIsFinite == IsFiniteSet(Open)
<1>1. Open \in SUBSET TcpConns
  BY DEF Open
<1>2. QED
  BY <1>1, TransportConstants, FS_Subset

LEMMA WithoutLemma ==
  ASSUME NEW A, IsFiniteSet(A), NEW B \in SUBSET A
  PROVE  Cardinality(A \ B) = Cardinality(A) - Cardinality(B)
<1>1. IsFiniteSet(A \ B) /\ IsFiniteSet(B)
  BY FS_Subset, A \ B \in SUBSET A
<1>2. PICK rest : rest = A \ B
  OBVIOUS
<1>3. Cardinality(rest \cup B) = Cardinality(rest) + Cardinality(B) - Cardinality(rest \cap B)
  BY <1>1, <1>2, FS_Union
<1>4. rest \cup B = A /\ rest \cap B = {}
  BY <1>2
<1>5. Cardinality(A) = Cardinality(rest) + Cardinality(B) - 0
  BY <1>3, <1>4, FS_EmptySet
<1>6. Cardinality(rest) \in Nat /\ Cardinality(B) \in Nat
  BY <1>1, <1>2, FS_CardinalityType
<1>7. QED
  BY <1>2, <1>5, <1>6

LEMMA PopStep ==
  ASSUME TypeOK, TransportTypeOK, PoolIsSound, free # << >>, PopAndAccept
  PROVE  /\ Last(free) \in TcpConns
         /\ Accept(Last(free)) /\ idle' = [idle EXCEPT ![Last(free)] = IdleTime]
         /\ free' \in Seq(TcpConns) /\ timed' \subseteq TcpConns /\ evtSize' \in Int
         /\ Open' = Open \cup {Last(free)}
         /\ PoolIsSound'
<1> DEFINE c == Last(free)
<1>1. /\ free' = Front(free) /\ Accept(c) /\ evtSize' = evtSize + 1
      /\ timed' = timed \cup {c} /\ idle' = [idle EXCEPT ![c] = IdleTime]
  BY DEF PopAndAccept
<1>2. free \in Seq(TcpConns) /\ IsInjective(free) /\ ToSet(free) = TcpConns \ Open
  BY DEF TransportTypeOK, PoolIsSound
<1>3. /\ c \in ToSet(free)
      /\ free' \in Seq(TcpConns) /\ IsInjective(free') /\ ToSet(free') = ToSet(free) \ {c}
  BY <1>1, <1>2, FrontLemma
<1>4. Open' = Open \cup {c}
  BY <1>1, <1>2, <1>3, SessionConstants DEF Accept, Open, TypeOK
<1>5. evtSize' = Cardinality(Open')
  BY <1>1, <1>2, <1>3, <1>4, OpenIsFinite, FS_AddElement DEF PoolIsSound
<1>6. evtSize' \in Int
  BY <1>1 DEF TransportTypeOK
<1>7. QED
  BY <1>1, <1>2, <1>3, <1>4, <1>5, <1>6 DEF PoolIsSound, TransportTypeOK

LEMMA ReleaseStep ==
  ASSUME TransportTypeOK, PoolIsSound, NEW s \in SUBSET TcpConns, ReleaseAll(s)
  PROVE  /\ free' \in Seq(TcpConns) /\ timed' \subseteq TcpConns /\ evtSize' \in Int
         /\ Open' = Open \ s
         /\ PoolIsSound'
<1> DEFINE open == s \cap Open
<1>1. /\ line' = [c \in Conns |-> IF c \in open THEN "closed" ELSE line[c]]
      /\ timed' = timed \ s /\ evtSize' = evtSize - Cardinality(open)
  BY DEF ReleaseAll
<1>2. PICK back \in SetToSeqs(open) : free' = free \o back
  BY DEF ReleaseAll
<1>3. IsFiniteSet(open) /\ IsFiniteSet(Open \ open)
  <2>1. open \in SUBSET Open /\ Open \ open \in SUBSET Open
    OBVIOUS
  <2>2. QED
    BY <2>1, OpenIsFinite, FS_Subset
<1>4. back \in Seq(open) /\ IsInjective(back) /\ ToSet(back) = open
  BY <1>3, SetToSeqsLemma
<1>5. back \in Seq(TcpConns)
  <2>1. open \subseteq TcpConns
    OBVIOUS
  <2>2. QED
    BY <1>4, <2>1, SeqMonotonic
<1>6. free \in Seq(TcpConns) /\ IsInjective(free) /\ ToSet(free) = TcpConns \ Open
  BY DEF TransportTypeOK, PoolIsSound
<1>7. /\ free' \in Seq(TcpConns) /\ IsInjective(free')
      /\ ToSet(free') = (TcpConns \ Open) \cup open
  <2>1. ToSet(free) \cap ToSet(back) = {}
    BY <1>4, <1>6
  <2>2. QED
    BY <1>2, <1>4, <1>5, <1>6, <2>1, ConcatLemma
<1>8. Open' = Open \ s
  BY <1>1, SessionConstants DEF Open
<1>9. Open \ s = Open \ open
  OBVIOUS
<1>10. evtSize' = Cardinality(Open') /\ evtSize' \in Int
  <2>1. Cardinality(Open \ open) = Cardinality(Open) - Cardinality(open)
    BY OpenIsFinite, WithoutLemma
  <2>2. Cardinality(Open') = Cardinality(Open \ open)
    BY <1>8, <1>9
  <2>3. evtSize = Cardinality(Open) /\ evtSize' = evtSize - Cardinality(open)
    BY <1>1 DEF PoolIsSound
  <2>4. Cardinality(open) \in Nat /\ evtSize \in Int
    BY <1>3, FS_CardinalityType DEF TransportTypeOK
  <2>5. QED
    BY <2>1, <2>2, <2>3, <2>4
<1>11. timed' = Open' /\ timed' \subseteq TcpConns
  BY <1>1, <1>8 DEF PoolIsSound, Open
<1>12. QED
  BY <1>7, <1>8, <1>10, <1>11 DEF PoolIsSound, Open

LEMMA PoolUnchanged ==
  PoolIsSound /\ UNCHANGED << line, free, timed, evtSize >> => PoolIsSound'
  BY DEF PoolIsSound, Open

-----------------------------------------------------------------------------
(* The idle timers. *)

LEMMA IdleTimeType == TypeOK => IdleTime \in Nat /\ IdleTime >= timeout
  BY DurationType, TransportConstants DEF IdleTime

(* Only connection c did anything, and its idle timer was set. *)
LEMMA TouchedIdle ==
  ASSUME TypeOK, IdleIsLast, SessionInv', NEW c \in Conns,
         \A d \in Conns \ {c} : nts'[d] = nts[d] /\ ntsTmr'[d] = ntsTmr[d] /\ line'[d] = line[d],
         UNCHANGED << timeout, changed >>,
         \A d \in TcpConns \ {c} : idle'[d] = idle[d],
         c \in TcpConns => idle'[c] = IdleTime
  PROVE  IdleIsLast'
<1> SUFFICES ASSUME ~changed, timeout # 0, NEW d \in Open', Online(d)'
             PROVE  ntsTmr'[d] <= idle'[d]
  BY DEF IdleIsLast
<1>1. d \in TcpConns /\ d \in Conns
  BY SessionConstants DEF Open
<1>2. CASE d = c
  <2>1. ntsTmr'[c] <= timeout
    BY DEF SessionInv, TimersAreBounded
  <2>2. idle'[c] = IdleTime /\ IdleTime \in Nat /\ timeout <= IdleTime /\ timeout \in Nat
    BY <1>1, <1>2, IdleTimeType, DurationType
  <2>3. ntsTmr'[c] \in Int
    BY DEF SessionInv, TypeOK, Ticks, Clear
  <2>4. QED
    BY <1>2, <2>1, <2>2, <2>3
<1>3. CASE d # c
  <2>1. d \in Open /\ Online(d)
    BY <1>1, <1>3 DEF Open, Online
  <2>2. ntsTmr[d] <= idle[d]
    BY <2>1 DEF IdleIsLast
  <2>3. QED
    BY <1>1, <1>3, <2>2
<1>4. QED
  BY <1>2, <1>3

(* Connections were closed and nothing else. *)
LEMMA ReleasedIdle ==
  ASSUME TypeOK, IdleIsLast, NEW s \in SUBSET TcpConns, ReleaseAll(s), Open' = Open \ s
  PROVE  IdleIsLast'
<1> SUFFICES ASSUME ~changed, timeout # 0, NEW d \in Open \ s, Online(d)'
             PROVE  ntsTmr'[d] <= idle'[d]
  BY DEF IdleIsLast, ReleaseAll
<1>1. Online(d) /\ d \in TcpConns
  BY DEF Online, ReleaseAll, Open
<1>2. ntsTmr'[d] = ntsTmr[d] /\ idle'[d] = idle[d]
  BY <1>1 DEF ReleaseAll
<1>3. QED
  BY <1>1, <1>2 DEF IdleIsLast

LEMMA UnchangedIdle ==
  IdleIsLast /\ UNCHANGED << nts, ntsTmr, timeout, line, changed, idle >> => IdleIsLast'
  BY DEF IdleIsLast, Open, Online

-----------------------------------------------------------------------------
(* One lemma for each kind of step. *)

LEMMA TransportStart == TransportInit => TransportInv
<1> SUFFICES ASSUME TransportInit PROVE TransportInv
  OBVIOUS
<1>1. SessionInv
  BY SessionStart DEF TransportInit
<1>2. Open = {}
  BY SessionConstants DEF TransportInit, Init, Open
<1>3. free \in Seq(TcpConns) /\ IsInjective(free) /\ ToSet(free) = TcpConns
  BY SetToSeqsLemma, TransportConstants DEF TransportInit
<1>4. TransportTypeOK
  <2>1. idle \in [TcpConns -> Ticks]
    BY DEF TransportInit, Ticks
  <2>2. waiting \in 0 .. Backlog /\ evtSize \in Int
    BY TransportConstants DEF TransportInit
  <2>3. timed = {} /\ hungUp = {} /\ batch = {} /\ edge = FALSE
    BY DEF TransportInit
  <2>4. QED
    BY <1>3, <2>1, <2>2, <2>3 DEF TransportTypeOK
<1>5. PoolIsSound
  BY <1>2, <1>3, FS_EmptySet DEF TransportInit, PoolIsSound
<1>6. ListenIsPending /\ IdleIsLast
  BY <1>2 DEF TransportInit, ListenIsPending, IdleIsLast
<1>7. QED
  BY <1>1, <1>4, <1>5, <1>6 DEF TransportInv

LEMMA ConnectStep == ASSUME TransportInv, Connect PROVE TransportInv'
<1> USE DEF TransportInv, Connect
<1>1. SessionInv'
  BY UnchangedSession
<1>2. UNCHANGED << line, free, timed, evtSize, nts, ntsTmr, timeout, changed, idle >>
  BY DEF vars
<1>3. PoolIsSound' /\ IdleIsLast'
  BY <1>2, PoolUnchanged, UnchangedIdle
<1>4. waiting' = waiting + 1 /\ waiting' \in 0 .. Backlog /\ waiting \in Nat
  BY TransportConstants DEF TransportTypeOK
<1>5. TransportTypeOK'
  BY <1>2, <1>4 DEF TransportTypeOK, Open
<1>6. ListenIsPending'
  BY <1>4 DEF ListenIsPending
<1>7. QED
  BY <1>1, <1>3, <1>5, <1>6

LEMMA WaitStep == ASSUME TransportInv, Wait PROVE TransportInv'
<1> USE DEF TransportInv, Wait
<1>1. SessionInv'
  BY UnchangedSession
<1>2. UNCHANGED << line, free, timed, evtSize, nts, ntsTmr, timeout, changed, idle >>
  BY DEF vars
<1>3. PoolIsSound' /\ IdleIsLast'
  BY <1>2, PoolUnchanged, UnchangedIdle
<1>4. TransportTypeOK'
  BY <1>2 DEF TransportTypeOK, Open, Ready
<1>5. << "listen" >> \in Ready => edge
  BY DEF Ready, HungUp
<1>6. ListenIsPending'
  BY <1>5 DEF ListenIsPending
<1>7. QED
  BY <1>1, <1>3, <1>4, <1>6

(* Connections released inside a batch or outside. *)
LEMMA ReleasedStep ==
  ASSUME TransportInv, NEW s \in SUBSET TcpConns, ReleaseAll(s),
         batch' \subseteq batch
  PROVE  TransportInv'
<1> USE DEF TransportInv
<1>1. SessionInv'
  <2>1. s \cap Open \in SUBSET Open
    OBVIOUS
  <2>2. QED
    BY <2>1, ClosedSession DEF ReleaseAll
<1>2. /\ free' \in Seq(TcpConns) /\ timed' \subseteq TcpConns /\ evtSize' \in Int
      /\ Open' = Open \ s
      /\ PoolIsSound'
  BY ReleaseStep
<1>3. IdleIsLast'
  BY <1>2, ReleasedIdle DEF SessionInv
<1>4. idle' \in [TcpConns -> Ticks]
  BY DEF ReleaseAll, TransportTypeOK, Ticks
<1>5. hungUp' \subseteq Open' /\ UNCHANGED << waiting, edge >>
  BY <1>2 DEF ReleaseAll, TransportTypeOK
<1>6. TransportTypeOK'
  BY <1>2, <1>4, <1>5 DEF TransportTypeOK
<1>7. ListenIsPending'
  BY <1>5 DEF ListenIsPending
<1>8. QED
  BY <1>1, <1>2, <1>3, <1>6, <1>7

LEMMA ListenStep ==
  ASSUME TransportInv, << "listen" >> \in batch, batch' = batch \ {<< "listen" >>}, Listen
  PROVE  TransportInv'
<1> USE DEF TransportInv
<1>1. /\ waiting' = waiting - 1 /\ waiting \in Nat /\ waiting' \in 0 .. Backlog
      /\ UNCHANGED << hungUp, edge >>
  BY TransportConstants DEF Listen, ListenIsPending, TransportTypeOK
<1>2. ListenIsPending'
  BY <1>1 DEF ListenIsPending
<1>3. CASE free = << >>
  <2>1. UNCHANGED << vars, free, idle, timed, evtSize >>
    BY <1>3 DEF Listen
  <2>2. SessionInv'
    BY <2>1, UnchangedSession
  <2>3. UNCHANGED << line, free, timed, evtSize, nts, ntsTmr, timeout, changed, idle >>
    BY <2>1 DEF vars
  <2>4. PoolIsSound' /\ IdleIsLast'
    BY <2>3, PoolUnchanged, UnchangedIdle
  <2>5. TransportTypeOK'
    BY <1>1, <2>3 DEF TransportTypeOK, Open
  <2>6. QED
    BY <1>2, <2>2, <2>4, <2>5
<1>4. CASE free # << >>
  <2> DEFINE c == Last(free)
  <2>1. PopAndAccept
    BY <1>4 DEF Listen
  <2>2. /\ c \in TcpConns
        /\ Accept(c) /\ idle' = [idle EXCEPT ![c] = IdleTime]
        /\ free' \in Seq(TcpConns) /\ timed' \subseteq TcpConns /\ evtSize' \in Int
        /\ Open' = Open \cup {c}
        /\ PoolIsSound'
    BY <1>4, <2>1, PopStep DEF SessionInv
  <2>3. SessionInv'
    BY <2>2, AcceptSession
  <2>4. idle' \in [TcpConns -> Ticks]
    BY <2>2, IdleTimeType DEF TransportTypeOK, Ticks, SessionInv
  <2>5. TransportTypeOK'
    BY <1>1, <2>2, <2>4 DEF TransportTypeOK
  <2>6. /\ \A d \in Conns \ {c} :
             nts'[d] = nts[d] /\ ntsTmr'[d] = ntsTmr[d] /\ line'[d] = line[d]
        /\ UNCHANGED << timeout, changed >>
    BY <2>2 DEF Accept, SetSession, SessionInv, TypeOK
  <2>7. /\ \A d \in TcpConns \ {c} : idle'[d] = idle[d]
        /\ idle'[c] = IdleTime
    BY <2>2 DEF TransportTypeOK
  <2>8. c \in Conns
    BY <2>2, SessionConstants
  <2>9. IdleIsLast'
    BY <2>3, <2>6, <2>7, <2>8, TouchedIdle DEF SessionInv
  <2>10. QED
    BY <1>2, <2>2, <2>3, <2>5, <2>9
<1>5. QED
  BY <1>3, <1>4

LEMMA HandleStep == ASSUME TransportInv, Handle PROVE TransportInv'
<1>1. PICK e \in batch :
        /\ batch' = batch \ {e}
        /\ \/ e = << "listen" >> /\ Listen
           \/ e = << "timer" >> /\ TimerRun
           \/ \E c \in TcpConns : e = HungUp(c) /\ Disconnected(c)
  BY DEF Handle
<1>2. CASE e = << "listen" >> /\ Listen
  BY <1>1, <1>2, ListenStep
<1>3. CASE e = << "timer" >> /\ TimerRun
  <2>1. Expired \in SUBSET TcpConns
    BY DEF Expired, TransportInv, TransportTypeOK
  <2>2. QED
    BY <1>1, <1>3, <2>1, ReleasedStep DEF TimerRun
<1>4. ASSUME NEW c \in TcpConns, Disconnected(c) PROVE TransportInv'
  <2>1. {c} \in SUBSET TcpConns
    OBVIOUS
  <2>2. QED
    BY <1>1, <1>4, <2>1, ReleasedStep DEF Disconnected
<1>5. QED
  BY <1>1, <1>2, <1>3, <1>4

(* Steps that touch connection c and neither open nor close one. *)
LEMMA TouchStep ==
  ASSUME TransportInv, NEW c \in Conns, SessionInv',
         \A d \in Conns \ {c} : nts'[d] = nts[d] /\ ntsTmr'[d] = ntsTmr[d],
         UNCHANGED << timeout, line, changed >>,
         idle' = Touched(c) \/ (idle' = idle /\ c \notin TcpConns),
         UNCHANGED << free, timed, evtSize, hungUp, waiting, edge, batch >>
  PROVE  TransportInv'
<1> USE DEF TransportInv
<1>1. IdleTime \in Ticks
  BY IdleTimeType DEF SessionInv, Ticks
<1>2. /\ idle' \in [TcpConns -> Ticks]
      /\ \A d \in TcpConns \ {c} : idle'[d] = idle[d]
      /\ c \in TcpConns => idle'[c] = IdleTime
  BY <1>1 DEF Touched, TransportTypeOK
<1>3. IdleIsLast'
  BY <1>2, TouchedIdle DEF SessionInv
<1>4. PoolIsSound'
  BY PoolUnchanged
<1>5. TransportTypeOK'
  BY <1>2 DEF TransportTypeOK, Open
<1>6. ListenIsPending'
  BY DEF ListenIsPending
<1>7. QED
  BY <1>3, <1>4, <1>5, <1>6

LEMMA BytesStep ==
  ASSUME TransportInv, NEW c \in Conns, Packet(c) \/ ReOpen(c)
  PROVE  TransportInv'
<1>1. CASE Packet(c)
  <2>1. Rx(c) /\ idle' = Touched(c)
        /\ UNCHANGED << free, timed, evtSize, hungUp, waiting, edge, batch >>
    BY <1>1 DEF Packet
  <2>2. SessionInv'
    BY <2>1, PacketSession DEF TransportInv
  <2>3. /\ \A d \in Conns \ {c} : nts'[d] = nts[d] /\ ntsTmr'[d] = ntsTmr[d]
        /\ UNCHANGED << timeout, line, changed >>
    BY <2>1, RxFrame DEF TransportInv, SessionInv
  <2>4. QED
    BY <2>1, <2>2, <2>3, TouchStep
<1>2. CASE ReOpen(c)
  <2>1. SessionInv'
    BY <1>2, ReOpenSession DEF TransportInv
  <2>2. \A d \in Conns \ {c} : nts'[d] = nts[d] /\ ntsTmr'[d] = ntsTmr[d]
    BY <1>2 DEF ReOpen, SetSession, TransportInv, SessionInv, TypeOK
  <2>3. /\ UNCHANGED << timeout, line, changed >> /\ idle' = idle /\ c \notin TcpConns
        /\ UNCHANGED << free, timed, evtSize, hungUp, waiting, edge, batch >>
    BY <1>2 DEF ReOpen
  <2>4. QED
    BY <2>1, <2>2, <2>3, TouchStep
<1>3. QED
  BY <1>1, <1>2

LEMMA DiscardedStep ==
  ASSUME TransportInv, NEW c \in TcpConns, Discarded(c)
  PROVE  TransportInv'
<1>1. SessionInv'
  BY UnchangedSession DEF Discarded, TransportInv
<1>2. c \in Conns
  BY SessionConstants
<1>3. QED
  BY <1>1, <1>2, TouchStep DEF Discarded, vars

LEMMA PeerClosesStep ==
  ASSUME TransportInv, NEW c \in TcpConns, PeerCloses(c)
  PROVE  TransportInv'
<1> USE DEF TransportInv, PeerCloses
<1>1. SessionInv'
  BY UnchangedSession
<1>2. UNCHANGED << line, free, timed, evtSize, nts, ntsTmr, timeout, changed, idle >>
  BY DEF vars
<1>3. PoolIsSound' /\ IdleIsLast'
  BY <1>2, PoolUnchanged, UnchangedIdle
<1>4. TransportTypeOK'
  BY <1>2 DEF TransportTypeOK, Open
<1>5. QED
  BY <1>1, <1>3, <1>4 DEF ListenIsPending

LEMMA TransportTickStep == ASSUME TransportInv, TransportTick PROVE TransportInv'
<1> USE DEF TransportInv
<1>1. Tick /\ idle' = [c \in TcpConns |-> Less(idle[c])]
      /\ UNCHANGED << free, timed, evtSize, hungUp, waiting, edge, batch >>
  BY DEF TransportTick
<1>2. SessionInv'
  BY <1>1, TickStep
<1>3. UNCHANGED << nts, line, timeout, changed >>
      /\ ntsTmr' = [c \in Conns |-> Less(ntsTmr[c])]
  BY <1>1 DEF Tick
<1>4. \A t \in Ticks : Less(t) \in Ticks
  BY DEF Less, Ticks, Clear
<1>5. TransportTypeOK'
  BY <1>1, <1>3, <1>4 DEF TransportTypeOK, Open
<1>6. PoolIsSound'
  BY <1>1, <1>3, PoolUnchanged
<1>7. IdleIsLast'
  <2> SUFFICES ASSUME ~changed, timeout # 0, NEW c \in Open, Online(c)
               PROVE  ntsTmr'[c] <= idle'[c]
    BY <1>3 DEF IdleIsLast, Open, Online
  <2>1. c \in TcpConns /\ c \in Conns
    BY SessionConstants DEF Open
  <2>2. ntsTmr[c] \in Ticks /\ idle[c] \in Ticks /\ ntsTmr[c] <= idle[c]
    BY <2>1 DEF IdleIsLast, SessionInv, TypeOK, TransportTypeOK
  <2>3. ntsTmr'[c] = Less(ntsTmr[c]) /\ idle'[c] = Less(idle[c])
    BY <1>1, <1>3, <2>1
  <2>4. QED
    BY <2>2, <2>3 DEF Less, Ticks, Clear
<1>8. QED
  BY <1>1, <1>2, <1>5, <1>6, <1>7 DEF ListenIsPending

LEMMA ControllerLemma == ASSUME TransportInv, ControllerStep PROVE TransportInv'
<1> USE DEF TransportInv
<1>1. SessionInv'
  BY ControllerSession
<1>2. UNCHANGED << free, idle, timed, evtSize, hungUp, waiting, edge, batch >>
  BY DEF ControllerStep, transportVars
<1>3. line' = line
  BY DEF ControllerStep, PeriodicRun, SystemReset, SetTimeout
<1>4. TransportTypeOK' /\ PoolIsSound' /\ ListenIsPending'
  BY <1>2, <1>3, PoolUnchanged DEF TransportTypeOK, Open, ListenIsPending
<1>5. IdleIsLast'
  <2>1. CASE PeriodicRun
    <3>1. UNCHANGED << timeout, changed >>
      BY <2>1 DEF PeriodicRun
    <3>2. ASSUME NEW c \in Conns, Online(c)' PROVE Online(c) /\ ntsTmr'[c] = ntsTmr[c]
      <4>1. At("OFF_LINE").session # "ON_LINE"
        BY DEF At
      <4>2. QED
        BY <2>1, <3>2, <4>1 DEF PeriodicRun, Online, SessionInv, TypeOK
    <3>3. QED
      BY <1>2, <1>3, <3>1, <3>2, SessionConstants DEF IdleIsLast, Open
  <2>2. CASE SystemReset
    BY <1>2, <2>2, UnchangedIdle DEF SystemReset
  <2>3. ASSUME NEW v \in Timeouts, SetTimeout(v) PROVE IdleIsLast'
    BY <2>3 DEF SetTimeout, IdleIsLast
  <2>4. QED
    BY <2>1, <2>2, <2>3 DEF ControllerStep
<1>6. QED
  BY <1>1, <1>4, <1>5

LEMMA TransportRestartStep == ASSUME TransportInv, TransportRestart PROVE TransportInv'
<1> USE DEF TransportInv
<1>1. SessionInv'
  BY RestartStep DEF TransportRestart
<1>2. Open' = {}
  BY SessionConstants DEF TransportRestart, Restart, Open
<1>3. free' \in Seq(TcpConns) /\ IsInjective(free') /\ ToSet(free') = TcpConns
  BY SetToSeqsLemma, TransportConstants DEF TransportRestart
<1>4. TransportTypeOK'
  <2>1. idle' \in [TcpConns -> Ticks]
    BY DEF TransportRestart, Ticks
  <2>2. waiting' \in 0 .. Backlog /\ evtSize' \in Int
    BY TransportConstants DEF TransportRestart
  <2>3. timed' = {} /\ hungUp' = {} /\ batch' = {} /\ ~edge' /\ edge' \in BOOLEAN
    BY DEF TransportRestart
  <2>4. QED
    BY <1>3, <2>1, <2>2, <2>3 DEF TransportTypeOK
<1>5. PoolIsSound'
  BY <1>2, <1>3, FS_EmptySet DEF TransportRestart, PoolIsSound
<1>6. ListenIsPending' /\ IdleIsLast'
  BY <1>2 DEF TransportRestart, ListenIsPending, IdleIsLast
<1>7. QED
  BY <1>1, <1>4, <1>5, <1>6

LEMMA TransportStep == TransportInv /\ [TransportNext]_allVars => TransportInv'
<1> SUFFICES ASSUME TransportInv, [TransportNext]_allVars PROVE TransportInv'
  OBVIOUS
<1>1. CASE Connect
  BY <1>1, ConnectStep
<1>2. CASE Wait
  BY <1>2, WaitStep
<1>3. CASE Handle
  BY <1>3, HandleStep
<1>4. CASE TransportTick
  BY <1>4, TransportTickStep
<1>5. CASE ControllerStep
  BY <1>5, ControllerLemma
<1>6. ASSUME NEW c \in TcpConns, PeerCloses(c) PROVE TransportInv'
  BY <1>6, PeerClosesStep
<1>7. ASSUME NEW c \in Conns, Packet(c) \/ ReOpen(c) PROVE TransportInv'
  BY <1>7, BytesStep
<1>8. ASSUME NEW c \in TcpConns, Discarded(c) PROVE TransportInv'
  BY <1>8, DiscardedStep
<1>9. ASSUME NEW c \in TcpConns, TxFails(c) PROVE TransportInv'
  <2>1. {c} \in SUBSET TcpConns
    OBVIOUS
  <2>2. QED
    BY <1>9, <2>1, ReleasedStep DEF TxFails
<1>10. CASE TransportRestart
  BY <1>10, TransportRestartStep
<1>11. CASE UNCHANGED allVars
  <2>1. UNCHANGED vars /\ UNCHANGED transportVars
    BY <1>11 DEF allVars
  <2>2. SessionInv'
    BY <2>1, UnchangedSession DEF TransportInv
  <2>3. PoolIsSound' /\ IdleIsLast'
    BY <2>1, PoolUnchanged, UnchangedIdle DEF TransportInv, vars, transportVars
  <2>4. QED
    BY <2>1, <2>2, <2>3 DEF TransportInv, TransportTypeOK, ListenIsPending, Open, vars, transportVars
<1>12. QED
  BY <1>1, <1>2, <1>3, <1>4, <1>5, <1>6, <1>7, <1>8, <1>9, <1>10, <1>11
     DEF TransportNext, Silence

LEMMA TransportInvariant == TransportSpec => []TransportInv
  BY TransportStart, TransportStep, PTL DEF TransportSpec

(* Every slot is in the pool once, or open and registered, for any number  *)
(* of slots, whatever a batch of events names.                             *)
THEOREM TransportPool == TransportSpec => []PoolIsSound
<1>1. TransportInv => PoolIsSound
  BY DEF TransportInv
<1>2. QED
  BY <1>1, TransportInvariant, PTL

(* A session on line is watched by its own and the controller's timer,     *)
(* also when connections are closed under it.                              *)
THEOREM TransportSupervised == TransportSpec => []OnlineIsSupervised
<1>1. TransportInv => OnlineIsSupervised
  BY DEF TransportInv, SessionInv
<1>2. QED
  BY <1>1, TransportInvariant, PTL

(* A session on line is shown on the LED and to the web interface, also    *)
(* after its slot was used by another peer.                                *)
THEOREM TransportShown == TransportSpec => []OnlineIsShown
<1>1. TransportInv => OnlineIsShown
  BY DEF TransportInv, SessionInv
<1>2. QED
  BY <1>1, TransportInvariant, PTL

(* The communications error excludes a session on line. *)
THEOREM TransportCommError == TransportSpec => []CommErrorMeansOffline
<1>1. TransportInv => CommErrorMeansOffline
  BY DEF TransportInv, SessionInv
<1>2. QED
  BY <1>1, TransportInvariant, PTL

(* The timer of idle connections closes none whose session lives: when it  *)
(* is over, the timer of the session is, by IdleIsLast.                    *)
THEOREM TransportIdleOutlives == TransportSpec => IdleOutlivesSession
<1> DEFINE Kept ==
      \A c \in Open :
        (<< "timer" >> \in batch \ batch' /\ c \in Expired /\ timeout # 0 /\ ~changed)
          => ~Online(c) \/ TimedOut(c)
<1>1. TransportInv => Kept
  <2> SUFFICES ASSUME TransportInv, NEW c \in Open, c \in Expired, timeout # 0, ~changed, Online(c)
               PROVE  TimedOut(c)
    OBVIOUS
  <2>1. c \in Conns /\ Known(c)
    BY SessionConstants DEF Open, Known
  <2>2. ntsTmr[c] \in Ticks /\ ntsTmr[c] # Clear
    BY <2>1 DEF TransportInv, SessionInv, TypeOK, OnlineIsSupervised
  <2>3. idle[c] = 0 /\ ntsTmr[c] <= idle[c]
    BY DEF TransportInv, IdleIsLast, Expired
  <2>4. QED
    BY <2>2, <2>3 DEF TimedOut, Ticks, Clear
<1>2. TransportInv /\ [TransportNext]_allVars => [Kept]_allVars
  BY <1>1
<1>3. QED
  BY <1>2, TransportInvariant, PTL DEF TransportSpec, IdleOutlivesSession

(* The time-out of one session drops only sessions that timed out, also    *)
(* over connections that are closed and opened again between its runs.     *)
THEOREM TransportOnlyIdleDropped == TransportSpec => OnlyIdleDropped
<1> DEFINE Drop == (PeriodicRun /\ ~changed) =>
                     \A c \in Conns : (Known(c) /\ ~Online(c)') => TimedOut(c)
<1>1. TransportInv => Drop
  <2> SUFFICES ASSUME TransportInv, PeriodicRun, ~changed,
                      NEW c \in Conns, Known(c), ~Online(c)'
               PROVE  TimedOut(c)
    OBVIOUS
  <2>1. sessTmr = 0
    BY DEF PeriodicRun
  <2>2. timeout # 0
    BY DurationType DEF TransportInv, SessionInv, PeriodicRun, Known, Online
  <2>3. ntsTmr[c] \in Nat /\ ntsTmr[c] <= 0
    BY <2>1, <2>2 DEF TransportInv, SessionInv, OnlineIsSupervised, TypeOK, Ticks
  <2>4. QED
    BY <2>3 DEF TimedOut, Known
<1>2. TransportInv => [Drop]_vars
  BY <1>1
<1>3. QED
  BY <1>2, TransportInvariant, PTL DEF OnlyIdleDropped
=============================================================================
