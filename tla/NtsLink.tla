------------------------------ MODULE NtsLink ------------------------------
(***************************************************************************)
(* One session of NtsSession, a master and the line between them.          *)
(*                                                                         *)
(* The master is not part of the repository.  It is modelled as the sign   *)
(* controller expects it: it logs in, has one command outstanding, sends   *)
(* it again with the same numbers when no reply comes, and counts a reply  *)
(* by its number.  The line keeps the order and loses packets; the         *)
(* controller itself drops what arrives while it transmits.                *)
(***************************************************************************)
EXTENDS NtsSession, Sequences

CONSTANTS
  Conn,      \* the connection of the master, a serial port
  MaxJobs,   \* bound: commands the master issues
  LineSize   \* bound: packets on their way in one direction

(* The master is on a serial port: there is no Accept and no Release here. *)
(* With a single number replies could not be told from one another.        *)
ASSUME LinkConstants ==
  /\ Conn \in Conns \ TcpConns
  /\ SeqMax > 1
  /\ MaxJobs \in Nat /\ LineSize \in Nat

VARIABLES
  seed,      \* LayerNTS::seed
  mst,       \* the master: where it is, its numbers, the seed it was given
  job,       \* the command the master wants executed
  toDev,     \* packets to the controller
  toMst,     \* replies
  executed   \* history: the last command executed

linkVars == << vars, seed, mst, job, toDev, toMst, executed >>

Seeds == {0, 1}
Numbers == [ns : Seq0, nr : Seq0]
Packet == [mi : {"StartSession", "Password", "Command"}, ns : Seq0, nr : Seq0,
           seed : Seeds, job : 1 .. (MaxJobs + 1)]
Reply  == [mi : {"StartSession", "Password", "Command", "NAK"}, ok : BOOLEAN,
           ns : Seq0, seed : Seeds]

LinkTypeOK ==
  /\ TypeOK
  /\ seed \in Seeds
  /\ mst \in [st : {"off", "seed", "pass", "on"}, ns : Seq0, nr : Seq0, seed : Seeds]
  /\ job \in 1 .. (MaxJobs + 1)
  /\ toDev \in Seq(Packet) /\ Len(toDev) <= LineSize
  /\ toMst \in Seq(Reply) /\ Len(toMst) <= LineSize
  /\ executed \in 0 .. MaxJobs

LinkInit ==
  /\ Init
  /\ seed = 0
  /\ mst = [st |-> "off", ns |-> 0, nr |-> 0, seed |-> 0]
  /\ job = 1
  /\ toDev = << >> /\ toMst = << >>
  /\ executed = 0

-----------------------------------------------------------------------------
(* The master *)

Next1(n) == IF n = SeqMax THEN 1 ELSE n + 1

(* A new login waits until nothing is on its way any more. *)
Login ==
  /\ mst.st = "off"
  /\ toDev = << >> /\ toMst = << >>
  /\ mst' = [mst EXCEPT !.st = "seed", !.ns = 0, !.nr = 0]
  /\ UNCHANGED << vars, seed, job, toDev, toMst, executed >>

GiveUp ==
  /\ mst.st # "off"
  /\ mst' = [mst EXCEPT !.st = "off"]
  /\ UNCHANGED << vars, seed, job, toDev, toMst, executed >>

(* The packet of the master's state, for the first time or once more. *)
Send ==
  /\ mst.st # "off"
  /\ mst.st = "on" => job <= MaxJobs
  /\ Len(toDev) < LineSize
  /\ toDev' = Append(toDev,
       [mi |-> CASE mst.st = "seed" -> "StartSession"
                 [] mst.st = "pass" -> "Password"
                 [] mst.st = "on"   -> "Command",
        ns |-> mst.ns, nr |-> mst.nr, seed |-> mst.seed, job |-> job])
  /\ UNCHANGED << vars, seed, mst, job, toMst, executed >>

(* The reply the master waits for, and what it makes of it. *)
Seeded    == mst.st = "seed" /\ Head(toMst).mi = "StartSession"
LoggedIn  == mst.st = "pass" /\ Head(toMst).mi = "Password" /\ Head(toMst).ok
Confirmed == mst.st = "on" /\ Head(toMst).mi = "Command" /\ Head(toMst).ok /\ Head(toMst).ns = mst.nr
Refused   == \/ mst.st = "pass" /\ Head(toMst).mi = "Password" /\ ~Head(toMst).ok
             \/ mst.st = "on" /\ Head(toMst).mi = "Command" /\ ~Head(toMst).ok

Receive ==
  /\ toMst # << >>
  /\ toMst' = Tail(toMst)
  /\ mst' = IF Seeded THEN [mst EXCEPT !.st = "pass", !.seed = Head(toMst).seed]
            ELSE IF LoggedIn THEN [mst EXCEPT !.st = "on"]
            ELSE IF Confirmed THEN [mst EXCEPT !.ns = Next1(@), !.nr = Next1(@)]
            ELSE IF Refused THEN [mst EXCEPT !.st = "off"]
            ELSE mst
  /\ job' = IF Confirmed THEN job + 1 ELSE job
  /\ UNCHANGED << vars, seed, toDev, executed >>

-----------------------------------------------------------------------------
(* The controller receives the packet p at the head of the line. *)

(* Tx: a reply carries _ns as it was before it is counted. *)
Answer(mi, ok, p, s) ==
  [mi |-> mi, ok |-> ok, seed |-> s,
   ns |-> IF mi = "StartSession" THEN 0 ELSE Received(Conn, p.ns, p.nr).ns]
Reject(p) == Answer(p.mi, FALSE, p, seed)
Nak == [mi |-> "NAK", ok |-> FALSE, ns |-> 0, seed |-> 0]

Sent(r) == toMst' = Append(toMst, r)

RxStartSession(p) ==
  /\ p.mi = "StartSession"
  /\ StartSession(Conn)
  /\ seed' \in Seeds
  /\ Sent(Answer("StartSession", TRUE, p, seed'))
  /\ UNCHANGED executed

RxPassword(p) ==
  /\ p.mi = "Password"
  /\ Password(Conn, p.seed = seed)
  /\ Sent(Answer("Password", p.seed = seed, p, seed))
  /\ UNCHANGED << seed, executed >>

(* A Password when none is expected, a command without a session. *)
RxRejected(p) ==
  /\ \/ p.mi = "Password" /\ nts[Conn].session # "START"
     \/ p.mi = "Command" /\ Current(Conn).session # "ON_LINE"
  /\ Answered(Conn, p.ns, p.nr)
  /\ Sent(Reject(p))
  /\ UNCHANGED << seed, executed >>

RxCommand_FreshOnly(p) ==
  /\ p.mi = "Command"
  /\ Current(Conn).session = "ON_LINE"
  /\ Answered(Conn, p.ns, p.nr)
  /\ executed' = IF Fresh(nts[Conn], p.ns) THEN p.job ELSE executed
  /\ Sent(Answer("Command", TRUE, p, seed))
  /\ UNCHANGED seed

(* A command is executed whether its packet is fresh or comes once more. *)
RxCommand(p) ==
  /\ p.mi = "Command"
  /\ Current(Conn).session = "ON_LINE"
  /\ Answered(Conn, p.ns, p.nr)
  /\ executed' = p.job
  /\ Sent(Answer("Command", TRUE, p, seed))
  /\ UNCHANGED seed

(* Numbers that do not match, or, for any packet, a wrong checksum. *)
RxNak ==
  /\ UNCHANGED << vars, seed, executed >>
  /\ Sent(Nak)

DeviceRx ==
  /\ toDev # << >>
  /\ Len(toMst) < LineSize
  /\ toDev' = Tail(toDev)
  /\ LET p == Head(toDev)
     IN  \/ RxStartSession(p) \/ RxPassword(p) \/ RxRejected(p) \/ RxCommand(p)
         \/ RxNak
  /\ UNCHANGED << mst, job >>

(* Time passes, or the controller restarts. *)
Device ==
  /\ Tick \/ PeriodicRun \/ Restart
  /\ UNCHANGED << seed, mst, job, toDev, toMst, executed >>

Lose ==
  /\ \/ toDev # << >> /\ toDev' = Tail(toDev) /\ UNCHANGED toMst
     \/ toMst # << >> /\ toMst' = Tail(toMst) /\ UNCHANGED toDev
  /\ UNCHANGED << vars, seed, mst, job, executed >>

LinkNext == Login \/ GiveUp \/ Send \/ Receive \/ DeviceRx \/ Device \/ Lose

LinkSpec == LinkInit /\ [][LinkNext]_linkVars

-----------------------------------------------------------------------------
(* The session keeps its promise through lost packets and replies, through *)
(* repeated ones, time-outs, restarts and new logins.                      *)
Promise == INSTANCE AtLeastOnce WITH confirmed <- job - 1
KeepsPromise == Promise!Spec

(* "master did not get last reply, so _nr & _ns step back" (LayerNTS.cpp,  *)
(* line 98): while master and controller are on line, the packet the       *)
(* master would send next or once more is accepted, however many of its    *)
(* packets and replies were lost or doubled.                               *)
RepeatIsAccepted ==
  (mst.st = "on" /\ Online(Conn)) => Accepts(Conn, mst.ns, mst.nr)
=============================================================================
