------------------------------ MODULE Transport ------------------------------
(***************************************************************************)
(* Under the sessions of NtsSession: the listener and its pool of          *)
(* connections (src/src/module/TcpServer.cpp, OprTcp.cpp, ObjectPool.h),   *)
(* the serial port (OprSp.cpp), the event loop (Epoll.cpp) and the timer   *)
(* that closes idle connections (TimerEvent.cpp).                          *)
(*                                                                         *)
(* One epoll_wait returns every event that is ready; they are handled one  *)
(* after another, in an order nobody chose, and each sees what those       *)
(* before it did.  Events name the operator, not its socket.  Bytes come   *)
(* and go outside of the batches: they concern one connection only.        *)
(***************************************************************************)
EXTENDS NtsSession, SequencesExt

CONSTANTS
  TcpTimeout,  \* UciHardware::TcpTimeout, in ticks
  Backlog      \* bound: connections the kernel keeps for accept

ASSUME TransportConstants ==
  /\ IsFiniteSet(TcpConns)
  /\ TcpTimeout \in Nat \ {0} /\ Backlog \in Nat

VARIABLES
  free,     \* ObjectPool::freeObj up to freeCnt
  idle,     \* per slot: tcpIdleTmr
  timed,    \* the slots TimerEvent calls
  evtSize,  \* Epoll::evtSize, without the events that never end
  hungUp,   \* slots whose peer closed the connection they have
  waiting,  \* connections nobody accepted yet
  edge,     \* EPOLLET: a connection arrived since the last epoll_wait
  batch     \* events of the last epoll_wait that are not handled yet

transportVars == << free, idle, timed, evtSize, hungUp, waiting, edge, batch >>
allVars == << vars, transportVars >>

Open == {c \in TcpConns : line[c] = "open"}
HungUp(c) == << "hung up", c >>
Event == {<< "listen" >>, << "timer" >>} \cup {HungUp(c) : c \in TcpConns}

TransportTypeOK ==
  /\ free \in Seq(TcpConns)
  /\ idle \in [TcpConns -> Ticks]
  /\ timed \subseteq TcpConns
  /\ evtSize \in Int
  /\ hungUp \subseteq Open
  /\ waiting \in 0 .. Backlog
  /\ edge \in BOOLEAN
  /\ batch \subseteq Event

IdleTime_TcpOnly == TcpTimeout

IdleTime == timeout + TcpTimeout

TransportInit ==
  /\ Init
  /\ free \in SetToSeqs(TcpConns)
  /\ idle = [c \in TcpConns |-> Clear]
  /\ timed = {} /\ evtSize = 0
  /\ hungUp = {}
  /\ waiting = 0 /\ edge = FALSE /\ batch = {}

-----------------------------------------------------------------------------
(* The listener. *)

(* A peer connects.  The listener's event is edge-triggered. *)
Connect ==
  /\ waiting < Backlog
  /\ waiting' = waiting + 1
  /\ edge' = TRUE
  /\ UNCHANGED << vars, free, idle, timed, evtSize, hungUp, batch >>

PopAndAccept_Untimed ==
  LET c == Last(free)
  IN  /\ free' = Front(free)
      /\ Accept(c)
      /\ evtSize' = evtSize + 1
      /\ timed' = timed \cup {c}
      /\ UNCHANGED idle

(* ObjectPool::Pop and OprTcp::Accept. *)
PopAndAccept ==
  LET c == Last(free)
  IN  /\ free' = Front(free)
      /\ Accept(c)
      /\ evtSize' = evtSize + 1
      /\ timed' = timed \cup {c}
      /\ idle' = [idle EXCEPT ![c] = IdleTime]

(* TcpServer::Accept takes one connection per event; with an empty pool it *)
(* closes it at once.                                                      *)
Listen ==
  /\ waiting' = waiting - 1
  /\ IF free = << >> THEN UNCHANGED << vars, free, idle, timed, evtSize >>
     ELSE PopAndAccept
  /\ UNCHANGED << hungUp, edge >>

-----------------------------------------------------------------------------
(* Closing. *)

ReleaseAll_Twice(s) ==
  /\ line' = [c \in Conns |-> IF c \in s THEN "closed" ELSE line[c]]
  /\ \E back \in SetToSeqs(s) : free' = free \o back
  /\ timed' = timed \ s
  /\ evtSize' = evtSize - Cardinality(s)
  /\ idle' = [c \in TcpConns |-> IF c \in s THEN Clear ELSE idle[c]]
  /\ hungUp' = hungUp \ s
  /\ UNCHANGED << nts, ntsTmr, sessTmr, timeout, commError, isOnline, ledPin, changed >>
  /\ UNCHANGED << waiting, edge >>

(* OprTcp::Release of the slots in s, one by one, open or not; the slots   *)
(* that were open go back to the pool in any order.                        *)
ReleaseAll(s) ==
  LET open == s \cap Open
  IN  /\ line' = [c \in Conns |-> IF c \in open THEN "closed" ELSE line[c]]
      /\ \E back \in SetToSeqs(open) : free' = free \o back
      /\ timed' = timed \ s
      /\ evtSize' = evtSize - Cardinality(open)
      /\ idle' = [c \in TcpConns |-> IF c \in s THEN Clear ELSE idle[c]]
      /\ hungUp' = hungUp \ s
      /\ UNCHANGED << nts, ntsTmr, sessTmr, timeout, commError, isOnline, ledPin, changed >>
      /\ UNCHANGED << waiting, edge >>

PeerCloses(c) ==
  /\ c \in Open \ hungUp
  /\ hungUp' = hungUp \cup {c}
  /\ UNCHANGED << vars, free, idle, timed, evtSize, waiting, edge, batch >>

(* EPOLLRDHUP or EPOLLERR, for whatever the slot is used by now. *)
Disconnected(c) == ReleaseAll({c})

(* TimerEvent: the idle timers of all connections. *)
Expired == {c \in timed : idle[c] = 0}
TimerRun == ReleaseAll(Expired)

-----------------------------------------------------------------------------
(* The event loop: epoll_wait, then one handler after another. *)
Ready ==
  {e \in Event :
     \/ e = << "listen" >> /\ edge
     \/ e = << "timer" >> /\ Expired # {}
     \/ \E c \in hungUp : e = HungUp(c)}

Wait ==
  /\ batch = {} /\ Ready # {}
  /\ batch' = Ready
  /\ edge' = FALSE
  /\ UNCHANGED << vars, free, idle, timed, evtSize, hungUp, waiting >>

Handle ==
  \E e \in batch :
    /\ batch' = batch \ {e}
    /\ \/ e = << "listen" >> /\ Listen
       \/ e = << "timer" >> /\ TimerRun
       \/ \E c \in TcpConns : e = HungUp(c) /\ Disconnected(c)

-----------------------------------------------------------------------------
(* Bytes. *)

Touched(c) == [x \in TcpConns |-> IF x = c THEN IdleTime ELSE idle[x]]

(* RxHandle with a packet that reaches the session. *)
Packet(c) ==
  /\ Rx(c)
  /\ idle' = Touched(c)
  /\ UNCHANGED << free, timed, evtSize, hungUp, waiting, edge, batch >>

(* RxHandle with bytes that are no packet, or with any while a part of the *)
(* last reply still waits for the socket (IsTxRdy): they are discarded.    *)
Discarded(c) ==
  /\ c \in Open
  /\ idle' = Touched(c)
  /\ UNCHANGED << vars, free, timed, evtSize, hungUp, waiting, edge, batch >>

(* A reply that can be neither written nor kept ends the connection.  What *)
(* Rx does after it looks at the session only, so this is a step of its    *)
(* own.                                                                    *)
TxFails(c) ==
  /\ c \in Open
  /\ ReleaseAll({c})
  /\ UNCHANGED batch

(* OprSp::ReOpen: the serial port was closed under the program. *)
ReOpen(c) ==
  /\ c \in Conns \ TcpConns
  /\ SetSession(c, "OFF_LINE")
  /\ ntsTmr' = [ntsTmr EXCEPT ![c] = Clear]
  /\ UNCHANGED << sessTmr, timeout, commError, line, changed >>
  /\ UNCHANGED << free, idle, timed, evtSize, hungUp, waiting, edge, batch >>

-----------------------------------------------------------------------------
TransportTick ==
  /\ Tick
  /\ idle' = [c \in TcpConns |-> Less(idle[c])]
  /\ UNCHANGED << free, timed, evtSize, hungUp, waiting, edge, batch >>

(* Steps of the controller that leave the connections alone. *)
ControllerStep ==
  /\ \/ PeriodicRun
     \/ SystemReset
     \/ \E v \in Timeouts : SetTimeout(v)
  /\ UNCHANGED transportVars

TransportRestart ==
  /\ Restart
  /\ free' \in SetToSeqs(TcpConns)
  /\ idle' = [c \in TcpConns |-> Clear]
  /\ timed' = {} /\ evtSize' = 0
  /\ hungUp' = {}
  /\ waiting' = 0 /\ edge' = FALSE /\ batch' = {}

(* Nothing arrives. *)
Silence ==
  \/ Wait
  \/ Handle
  \/ TransportTick
  \/ ControllerStep
  \/ \E c \in TcpConns : PeerCloses(c)

TransportNext ==
  \/ Connect
  \/ Silence
  \/ \E c \in Conns : Packet(c) \/ ReOpen(c)
  \/ \E c \in TcpConns : Discarded(c) \/ TxFails(c)
  \/ TransportRestart

TransportSpec == TransportInit /\ [][TransportNext]_allVars

(* Time passes and the event loop goes round. *)
TransportFairSpec ==
  /\ TransportSpec
  /\ WF_allVars(TransportTick) /\ WF_allVars(Wait) /\ WF_allVars(Handle)
  /\ WF_allVars(PeriodicRun /\ UNCHANGED transportVars)

-----------------------------------------------------------------------------
(* Every slot is either in the pool, once, or open and registered with the *)
(* event loop and its timer, also when an event of the batch names a slot  *)
(* that an event before it released or gave to somebody else.              *)
PoolIsSound ==
  /\ IsInjective(free)
  /\ ToSet(free) = TcpConns \ Open
  /\ timed = Open
  /\ evtSize = Cardinality(Open)

(* A connection is not closed for being idle while its session lives.      *)
(* Holds as long as nobody changes the time-out.                           *)
IdleOutlivesSession ==
  [][ \A c \in Open :
        (<< "timer" >> \in batch \ batch' /\ c \in Expired /\ timeout # 0 /\ ~changed)
          => ~Online(c) \/ TimedOut(c) ]_allVars

(* When nothing arrives any more every slot goes back to the pool, those   *)
(* of peers that vanished without closing included.                        *)
SilentIsReleased == <>[][Silence]_allVars => <>[](Open = {})
=============================================================================
