----------------------------- MODULE NtsSession -----------------------------
(***************************************************************************)
(* The sessions of the TSI-SP-003 protocol (src/src/layer/LayerNTS.cpp,    *)
(* the login of src/src/tsisp003/TsiSp003App.cpp and the session timer of  *)
(* src/src/sign/Controller.cpp).                                           *)
(*                                                                         *)
(* Each connection, the serial port or a slot of the TCP pool, has its own *)
(* session with two sequence numbers and a timer.  The controller has one  *)
(* more timer, set by the packets of every session, and when it expires    *)
(* one session that timed out takes all of them off line.  Packets here    *)
(* are any packets; module NtsLink adds a master and a line that loses     *)
(* them.  RefreshDispTime, called beside RefreshSessionTime, belongs to    *)
(* the display time-out and is left out.                                   *)
(***************************************************************************)
EXTENDS Integers

CONSTANTS
  Conns,       \* all objects of LayerNTS::storage
  TcpConns,    \* those of the TCP pool; the others are serial ports
  SeqMax,      \* 255
  Timeouts     \* values of SessionTimeoutSec, in ticks; 0 for no time-out

ASSUME SessionConstants ==
  /\ TcpConns \subseteq Conns
  /\ SeqMax \in Nat /\ SeqMax > 0
  /\ Timeouts \subseteq Nat /\ Timeouts # {}

VARIABLES
  nts,        \* per connection: session, _ns and _nr
  ntsTmr,     \* per connection: ntsSessionTimeout, ticks left or Clear
  sessTmr,    \* Controller::sessionTimeout
  timeout,    \* UciUserCfg::SessionTimeoutSec; saved
  commError,  \* CommunicationsTimeoutError of Controller::ctrllerError; saved
  isOnline,   \* Controller::isOnline
  ledPin,     \* the pin of the status LED, low while a session is on line
  line,       \* "unused": ClrRx was never called; "open"; "closed"
  changed     \* history: timeout was changed since the start

vars == << nts, ntsTmr, sessTmr, timeout, commError, isOnline, ledPin, line, changed >>

Seq0   == 0 .. SeqMax
Clear  == -1
Ticks  == {Clear} \cup Nat
Session == {"OFF_LINE", "START", "ON_LINE"}
EndPoint == [session : Session, ns : Seq0, nr : Seq0]

TypeOK ==
  /\ nts \in [Conns -> EndPoint]
  /\ ntsTmr \in [Conns -> Ticks]
  /\ sessTmr \in Ticks
  /\ timeout \in Timeouts
  /\ commError \in BOOLEAN /\ isOnline \in BOOLEAN /\ ledPin \in BOOLEAN
  /\ line \in [Conns -> {"unused", "open", "closed"}]
  /\ changed \in BOOLEAN

-----------------------------------------------------------------------------
(* Names of the form Op_Bug are mutants: Op as a plausible bug would have  *)
(* it.  No specification uses them; the README says which property each    *)
(* one breaks.                                                             *)

(* IncN: a number that wraps skips 0, which is kept for a new session. *)
IncN(n) == IF n = SeqMax THEN 1 ELSE n + 1

Online(c)    == nts[c].session = "ON_LINE"
AnyOnline(n) == \E c \in Conns : n[c].session = "ON_LINE"
TimedOut(c)  == Online(c) /\ ntsTmr[c] = 0

At(v) == [session |-> v, ns |-> 0, nr |-> 0]

Duration == IF timeout = 0 THEN Clear ELSE timeout

SetSession_OwnOnly(c, v) ==
  /\ nts' = [nts EXCEPT ![c] = At(v)]
  /\ isOnline' = (v = "ON_LINE")
  /\ ledPin' = (v # "ON_LINE")

(* Session(v) on connection c: the pin and isOnline follow all sessions.   *)
SetSession(c, v) ==
  /\ nts' = [nts EXCEPT ![c] = At(v)]
  /\ isOnline' = AnyOnline(nts')
  /\ ledPin' = IF v = "OFF_LINE" THEN ledPin \/ ~AnyOnline(nts')
               ELSE ledPin /\ v # "ON_LINE"

(* The packet (ns, nr) follows the last one, or is that one once more.     *)
Fresh(e, ns)      == ns = e.nr
Repeat(e, ns, nr) == IncN(ns) = e.nr /\ IncN(nr) = e.ns

(* Rx drops a session that timed out without calling Session(OFF_LINE).    *)
Current(c) == IF TimedOut(c) THEN At("OFF_LINE") ELSE nts[c]

(* Sequence numbers count on line only; any other packet is answered NAK,  *)
(* which changes nothing.                                                  *)
Accepts(c, ns, nr) ==
  LET e == Current(c)
  IN  /\ line[c] = "open"
      /\ e.session = "ON_LINE" => Fresh(e, ns) \/ Repeat(e, ns, nr)

(* The session as the upper layer finds it. *)
Received(c, ns, nr) ==
  LET e == Current(c)
  IN  IF e.session # "ON_LINE" THEN e
      ELSE IF Fresh(e, ns) THEN [e EXCEPT !.nr = IncN(ns)] ELSE [e EXCEPT !.ns = nr]

(* Tx counts a reply of a session that is on line. *)
Replied(e) == IF e.session = "ON_LINE" THEN [e EXCEPT !.ns = IncN(@)] ELSE e

RefreshTimers_SetOnce(c, e) ==
  IF e.session = "ON_LINE"
  THEN /\ ntsTmr' = [ntsTmr EXCEPT ![c] = Duration]
       /\ sessTmr' = IF sessTmr = Clear THEN Duration ELSE sessTmr
       /\ commError' = FALSE
  ELSE UNCHANGED << ntsTmr, sessTmr, commError >>

(* The end of Rx: e is the session the upper layer leaves. *)
RefreshTimers(c, e) ==
  IF e.session = "ON_LINE"
  THEN /\ ntsTmr' = [ntsTmr EXCEPT ![c] = Duration]
       /\ sessTmr' = Duration
       /\ commError' = FALSE
  ELSE UNCHANGED << ntsTmr, sessTmr, commError >>

-----------------------------------------------------------------------------
(* LayerNTS does not initialise session: until its first ClrRx a slot of   *)
(* the pool holds any value, which IsAnyOnline reads.                      *)
Init ==
  /\ line = [c \in Conns |-> IF c \in TcpConns THEN "unused" ELSE "open"]
  /\ nts \in [Conns -> {At(v) : v \in Session}]
  /\ \A c \in Conns \ TcpConns : nts[c].session = "OFF_LINE"
  /\ ntsTmr = [c \in Conns |-> Clear]
  /\ sessTmr = Clear
  /\ timeout \in Timeouts
  /\ commError \in BOOLEAN
  /\ isOnline = FALSE
  /\ ledPin = TRUE
  /\ changed = FALSE
(* The process exits and starts again. *)
Restart ==
  /\ line' = [c \in Conns |-> IF c \in TcpConns THEN "unused" ELSE "open"]
  /\ nts' \in [Conns -> {At(v) : v \in Session}]
  /\ \A c \in Conns \ TcpConns : nts'[c].session = "OFF_LINE"
  /\ ntsTmr' = [c \in Conns |-> Clear]
  /\ sessTmr' = Clear
  /\ isOnline' = FALSE
  /\ ledPin' = TRUE
  /\ changed' = FALSE
  /\ UNCHANGED << timeout, commError >>

(* OprTcp::Accept: a slot of the pool takes a new connection; its ClrRx    *)
(* ends the session the slot had kept.                                     *)
Accept(c) ==
  /\ c \in TcpConns /\ line[c] # "open"
  /\ line' = [line EXCEPT ![c] = "open"]
  /\ SetSession(c, "OFF_LINE")
  /\ ntsTmr' = [ntsTmr EXCEPT ![c] = Clear]
  /\ UNCHANGED << sessTmr, timeout, commError, changed >>

(* OprTcp::Release: closed by the peer, after idle time or a failed write; *)
(* the session is not told.                                                *)
Release(c) ==
  /\ c \in TcpConns /\ line[c] = "open"
  /\ line' = [line EXCEPT ![c] = "closed"]
  /\ UNCHANGED << nts, ntsTmr, sessTmr, timeout, commError, isOnline, ledPin, changed >>

-----------------------------------------------------------------------------
(* Packets.  A packet that is not accepted (wrong address, checksum or     *)
(* number) changes nothing and is no step.                                 *)

StartSession(c) ==
  /\ line[c] = "open"
  /\ SetSession(c, "START")
  /\ UNCHANGED << ntsTmr, sessTmr, timeout, commError, line, changed >>

Password_OnlineFirst(c, ok) ==
  /\ line[c] = "open"
  /\ nts[c].session = "START"
  /\ nts' = [nts EXCEPT ![c] = Replied(At(IF ok THEN "ON_LINE" ELSE "OFF_LINE"))]
  /\ isOnline' = AnyOnline(nts') /\ ledPin' = ~AnyOnline(nts')
  /\ IF ok THEN RefreshTimers(c, At("ON_LINE"))
     ELSE /\ ntsTmr' = [ntsTmr EXCEPT ![c] = Clear]
          /\ UNCHANGED << sessTmr, commError >>
  /\ UNCHANGED << timeout, line, changed >>

(* Password while it is expected, right (ok) or wrong: the reply first,    *)
(* then the session, "'cause nr&ns related to SESSION::ON_LINE".           *)
Password(c, ok) ==
  /\ line[c] = "open"
  /\ nts[c].session = "START"
  /\ SetSession(c, IF ok THEN "ON_LINE" ELSE "OFF_LINE")
  /\ IF ok THEN RefreshTimers(c, At("ON_LINE"))
     ELSE /\ ntsTmr' = [ntsTmr EXCEPT ![c] = Clear]
          /\ UNCHANGED << sessTmr, commError >>
  /\ UNCHANGED << timeout, line, changed >>

EndSession_StopsTimer(c, ns, nr) ==
  /\ Accepts(c, ns, nr)
  /\ Received(c, ns, nr).session = "ON_LINE"
  /\ SetSession(c, "OFF_LINE")
  /\ ntsTmr' = [ntsTmr EXCEPT ![c] = Clear]
  /\ sessTmr' = Clear
  /\ commError' = FALSE
  /\ UNCHANGED << timeout, line, changed >>

(* EndSession refreshes the controller's timer itself: afterwards the      *)
(* session is off line and Rx does not.                                    *)
EndSession(c, ns, nr) ==
  /\ Accepts(c, ns, nr)
  /\ Received(c, ns, nr).session = "ON_LINE"
  /\ SetSession(c, "OFF_LINE")
  /\ ntsTmr' = [ntsTmr EXCEPT ![c] = Clear]
  /\ sessTmr' = Duration
  /\ commError' = FALSE
  /\ UNCHANGED << timeout, line, changed >>

(* Every command that is executed or rejected with one reply, a Password   *)
(* or EndSession out of place included.                                    *)
Answered(c, ns, nr) ==
  /\ Accepts(c, ns, nr)
  /\ LET e == Replied(Received(c, ns, nr))
     IN  /\ nts' = [nts EXCEPT ![c] = e]
         /\ RefreshTimers(c, e)
  /\ UNCHANGED << timeout, isOnline, ledPin, line, changed >>

(* FAF2 with a wrong password sends Reject, then Ack: two replies.         *)
AnsweredTwice(c, ns, nr) ==
  /\ Accepts(c, ns, nr)
  /\ LET e == Replied(Replied(Received(c, ns, nr)))
     IN  /\ nts' = [nts EXCEPT ![c] = e]
         /\ RefreshTimers(c, e)
  /\ UNCHANGED << timeout, isOnline, ledPin, line, changed >>

(* No reply at all, on line: a code no class knows (UserDefinedCmd) and    *)
(* data that is not hexadecimal (LayerPrst::Rx).                           *)
Unanswered(c, ns, nr) ==
  /\ Accepts(c, ns, nr)
  /\ LET e == Received(c, ns, nr)
     IN  /\ nts' = [nts EXCEPT ![c] = e]
         /\ RefreshTimers(c, e)
  /\ UNCHANGED << timeout, isOnline, ledPin, line, changed >>

(* A packet that lost a byte is rejected before anything else is looked    *)
(* at, with a reply that takes a number.                                   *)
BadLength(c) ==
  /\ line[c] = "open"
  /\ nts' = [nts EXCEPT ![c] = Replied(@)]
  /\ UNCHANGED << ntsTmr, sessTmr, timeout, commError, isOnline, ledPin, line, changed >>

Rx(c) ==
  \/ StartSession(c)
  \/ \E ok \in BOOLEAN : Password(c, ok)
  \/ \E ns, nr \in Seq0 : \/ EndSession(c, ns, nr) \/ Answered(c, ns, nr)
                          \/ AnsweredTwice(c, ns, nr) \/ Unanswered(c, ns, nr)
  \/ BadLength(c)

-----------------------------------------------------------------------------
(* Controller::PeriodicRun when sessionTimeout has expired. *)
PeriodicRun ==
  /\ sessTmr = 0
  /\ sessTmr' = Clear
  /\ IF timeout > 0 /\ \E c \in Conns : TimedOut(c)
     THEN LET on == {c \in Conns : nts[c].session # "OFF_LINE"}
          IN  /\ nts' = [c \in Conns |-> IF c \in on THEN At("OFF_LINE") ELSE nts[c]]
              /\ ntsTmr' = [c \in Conns |-> IF c \in on THEN Clear ELSE ntsTmr[c]]
              /\ commError' = TRUE
              /\ isOnline' = FALSE
              /\ ledPin' = TRUE
     ELSE UNCHANGED << nts, ntsTmr, commError, isOnline, ledPin >>
  /\ UNCHANGED << timeout, line, changed >>

Less(t) == IF t > 0 THEN t - 1 ELSE t
Tick ==
  /\ ntsTmr' = [c \in Conns |-> Less(ntsTmr[c])]
  /\ sessTmr' = Less(sessTmr)
  /\ UNCHANGED << nts, timeout, commError, isOnline, ledPin, line, changed >>

(* The vendor's commands and the web interface change SessionTimeoutSec.   *)
SetTimeout(v) ==
  /\ v # timeout
  /\ timeout' = v
  /\ changed' = TRUE
  /\ UNCHANGED << nts, ntsTmr, sessTmr, commError, isOnline, ledPin, line >>

(* A level 2 reset from the web interface clears the controller's errors;  *)
(* one from a master is a command that Rx follows with the same.           *)
SystemReset ==
  /\ commError
  /\ commError' = FALSE
  /\ UNCHANGED << nts, ntsTmr, sessTmr, timeout, isOnline, ledPin, line, changed >>

Quiet ==
  \/ PeriodicRun
  \/ SystemReset
  \/ Tick
  \/ \E c \in Conns : Release(c)
  \/ \E v \in Timeouts : SetTimeout(v)

Next ==
  \/ \E c \in Conns : Accept(c) \/ Rx(c)
  \/ Quiet
  \/ Restart

Spec == Init /\ [][Next]_vars

(* Time passes and the timer event of the controller keeps firing. *)
FairSpec == Spec /\ WF_vars(Tick) /\ WF_vars(PeriodicRun)

-----------------------------------------------------------------------------
Known(c) == line[c] # "unused" /\ Online(c)

(* A session on line is supervised: its timer runs and the controller's    *)
(* runs at least as long.  The controller forgets its timer when it        *)
(* expires, whoever else is on line.  Holds as long as nobody changes the  *)
(* time-out.                                                               *)
OnlineIsSupervised ==
  (~changed /\ timeout # 0) =>
    \A c \in Conns :
      Known(c) => ntsTmr[c] # Clear /\ sessTmr # Clear /\ ntsTmr[c] <= sessTmr

(* One session that times out takes all others off line: only such as were *)
(* silent for as long, never one whose master is active.                   *)
OnlyIdleDropped ==
  [][ (PeriodicRun /\ ~changed) =>
        \A c \in Conns : (Known(c) /\ ~Online(c)') => TimedOut(c) ]_vars

(* The communications error is never reported while a master is on line.   *)
CommErrorMeansOffline == commError => \A c \in Conns : ~Known(c)

(* A session on line shows on the LED and to the web interface, whatever   *)
(* other sessions start, fail and end.                                     *)
OnlineIsShown == (\E c \in Conns : Known(c)) => isOnline /\ ~ledPin

(* When nothing is received any more all sessions go off line, those on    *)
(* closed connections included.                                            *)
SilentIsDropped ==
  <>[][Quiet]_vars =>
    <>[](changed \/ timeout = 0 \/ \A c \in Conns : ~Known(c))
=============================================================================
