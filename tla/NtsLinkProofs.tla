---------------------------- MODULE NtsLinkProofs ----------------------------
(***************************************************************************)
(* What NtsLink keeps for any numbers, any length of the lines and any     *)
(* number of commands.  The argument follows the packets on their way: the *)
(* line keeps the order, so a reply that confirms a command tells that no  *)
(* older packet can reach the controller any more.  That is why a number   *)
(* that comes round again, and there may be as few as two of them, is not  *)
(* mistaken for the one before.                                            *)
(***************************************************************************)
EXTENDS NtsLink, NtsSessionProofs

(* A packet of the command the master waits for, and of the one before. *)
Wanted(p) == p.mi = "Command" /\ p.ns = mst.ns /\ p.job = job
Former(p) == p.mi = "Command" /\ IncN(p.ns) = mst.ns /\ p.job = job - 1

(* The replies that tell the master something. *)
Executes(r) == r.mi = "Command" /\ r.ok
Confirms(r) == Executes(r) /\ r.ns = mst.ns
LetsIn(r)   == r.mi = "Password" /\ r.ok

OnWay(mi) == \E i \in DOMAIN toDev : toDev[i].mi = mi

(* The controller has let the master in since its last login. *)
Joined ==
  \/ mst.st = "on"
  \/ OnWay("Command")
  \/ \E i \in DOMAIN toMst : LetsIn(toMst[i])

PacketsInv ==
  \A i \in DOMAIN toDev :
    /\ toDev[i].nr = toDev[i].ns
    /\ IF toDev[i].mi = "Command"
       THEN (Wanted(toDev[i]) \/ Former(toDev[i])) /\ toDev[i].job <= MaxJobs
       ELSE toDev[i].ns = 0 /\ mst.ns = 0

OrderInv ==
  \A i, j \in DOMAIN toDev :
    /\ i < j /\ toDev[j].mi = "StartSession" => toDev[i].mi = "StartSession"
    /\ i < j /\ Wanted(toDev[i]) => Wanted(toDev[j])

RepliesInv ==
  \A i, j \in DOMAIN toMst :
    i < j /\ Confirms(toMst[i]) /\ Executes(toMst[j]) => Confirms(toMst[j])

MasterInv ==
  /\ mst.nr = mst.ns
  /\ mst.st \in {"seed", "pass"} =>
       /\ mst.ns = 0
       /\ ~OnWay("Command")
       /\ \A i \in DOMAIN toMst : ~Executes(toMst[i])
  /\ mst.st = "seed" =>
       /\ ~OnWay("Password")
       /\ \A i \in DOMAIN toMst : ~LetsIn(toMst[i])

(* The two numbers of the controller are the same, and one command ahead   *)
(* of the master at most.                                                  *)
NumbersInv ==
  /\ line[Conn] = "open"
  /\ nts[Conn].ns = nts[Conn].nr
  /\ executed \in {job - 1, job}

JoinedInv ==
  Joined => /\ ~OnWay("StartSession")
            /\ nts[Conn].session # "START"
            /\ Online(Conn) => nts[Conn].ns \in {mst.ns, IncN(mst.ns)}

FormerInv ==
  (\E i \in DOMAIN toDev : Former(toDev[i])) =>
     /\ executed = job - 1
     /\ Online(Conn) => nts[Conn].ns = mst.ns

ConfirmInv ==
  (\E i \in DOMAIN toMst : Confirms(toMst[i])) =>
     /\ executed = job
     /\ \A i \in DOMAIN toDev : Wanted(toDev[i])
     /\ Online(Conn) => nts[Conn].ns = IncN(mst.ns)

LinkInv ==
  /\ PacketsInv /\ OrderInv /\ RepliesInv /\ MasterInv /\ NumbersInv
  /\ JoinedInv /\ FormerInv /\ ConfirmInv

Inv == SessionInv /\ LinkTypeOK /\ LinkInv

-----------------------------------------------------------------------------
(* With two numbers or more the next one is another. *)
LEMMA NextNumber ==
  ASSUME NEW n \in Seq0
  PROVE  IncN(n) \in Seq0 /\ IncN(n) # n /\ IncN(n) # 0 /\ Next1(n) = IncN(n)
  BY LinkConstants, SessionConstants DEF Seq0, IncN, Next1

LEMMA NotBoth ==
  ASSUME job \in Nat, NEW p
  PROVE  ~(Wanted(p) /\ Former(p))
  BY DEF Wanted, Former

-----------------------------------------------------------------------------
(* The session in a step of the link. *)

LEMMA PacketType ==
  ASSUME LinkTypeOK
  PROVE  /\ \A i \in DOMAIN toDev : i \in Nat /\ toDev[i] \in Packet /\ toDev[i].ns \in Seq0
         /\ \A i \in DOMAIN toMst : i \in Nat /\ toMst[i] \in Reply
         /\ mst.ns \in Seq0 /\ mst.nr \in Seq0 /\ job \in Nat /\ Conn \in Conns
         /\ toDev # << >> => Head(toDev) = toDev[1] /\ 1 \in DOMAIN toDev /\ toDev[1] \in Packet
         /\ toMst # << >> => Head(toMst) = toMst[1] /\ 1 \in DOMAIN toMst /\ toMst[1] \in Reply
<1>1. toDev \in Seq(Packet) /\ toMst \in Seq(Reply)
  BY DEF LinkTypeOK
<1>2. \A i \in DOMAIN toDev : i \in Nat /\ toDev[i] \in Packet
  BY <1>1
<1>3. \A i \in DOMAIN toMst : i \in Nat /\ toMst[i] \in Reply
  BY <1>1
<1>4. toDev # << >> => Head(toDev) = toDev[1] /\ 1 \in DOMAIN toDev
  BY <1>1
<1>5. toMst # << >> => Head(toMst) = toMst[1] /\ 1 \in DOMAIN toMst
  BY <1>1
<1>6. \A p \in Packet : p.ns \in Seq0
  BY DEF Packet
<1>7. mst.ns \in Seq0 /\ mst.nr \in Seq0 /\ job \in Nat /\ Conn \in Conns
  BY LinkConstants DEF LinkTypeOK
<1>8. QED
  BY <1>2, <1>3, <1>4, <1>5, <1>6, <1>7

(* Whatever happens on the link is a step of the session or none. *)
LEMMA LinkStep ==
  ASSUME LinkTypeOK, [LinkNext]_linkVars
  PROVE  [Next]_vars
<1>1. CASE Login \/ GiveUp \/ Send \/ Receive \/ Lose \/ UNCHANGED linkVars
  BY <1>1 DEF Login, GiveUp, Send, Receive, Lose, linkVars
<1>2. CASE DeviceRx
  <2> DEFINE p == Head(toDev)
  <2>1. p.ns \in Seq0 /\ p.nr \in Seq0 /\ Conn \in Conns
    BY <1>2, PacketType DEF DeviceRx, Packet
  <2>2. CASE RxStartSession(p)
    BY <2>1, <2>2 DEF RxStartSession, Next, Rx
  <2>3. CASE RxPassword(p)
    <3>1. Password(Conn, p.seed = seed) /\ (p.seed = seed) \in BOOLEAN
      BY <2>3 DEF RxPassword
    <3>2. QED
      BY <2>1, <3>1 DEF Next, Rx
  <2>4. CASE RxRejected(p) \/ RxCommand(p)
    BY <2>1, <2>4 DEF RxRejected, RxCommand, Next, Rx
  <2>5. CASE RxNak
    BY <2>5 DEF RxNak
  <2>6. QED
    BY <1>2, <2>2, <2>3, <2>4, <2>5 DEF DeviceRx
<1>3. CASE Device
  BY <1>3 DEF Device, Next, Quiet
<1>4. QED
  BY <1>1, <1>2, <1>3 DEF LinkNext

(* The numbers of a packet that is answered: on line they were the ones    *)
(* expected or those of the packet before; the controller's are then one   *)
(* ahead of them.                                                          *)
LEMMA AnsweredNumbers ==
  ASSUME TypeOK, NumbersInv, NEW n \in Seq0, Answered(Conn, n, n)
  PROVE  /\ nts[Conn] \in EndPoint
         /\ Current(Conn).session = "ON_LINE" =>
              /\ n = nts[Conn].ns \/ IncN(n) = nts[Conn].ns
              /\ Received(Conn, n, n).ns = n
              /\ nts'[Conn] = [session |-> "ON_LINE", ns |-> IncN(n), nr |-> IncN(n)]
              /\ Online(Conn)
         /\ Current(Conn).session # "ON_LINE" =>
              nts'[Conn] \in {nts[Conn], At("OFF_LINE")} /\ ~Online(Conn)'
<1> DEFINE e == nts[Conn]
<1>1. Conn \in Conns
  BY LinkConstants
<1>2. e \in EndPoint /\ e.ns = e.nr
  BY <1>1 DEF TypeOK, NumbersInv
<1>3. nts'[Conn] = Replied(Received(Conn, n, n)) /\ Accepts(Conn, n, n)
  BY <1>1 DEF Answered, TypeOK
<1>4. CASE Current(Conn).session = "ON_LINE"
  <2>1. Current(Conn) = e /\ e.session = "ON_LINE"
    BY <1>4 DEF Current, At
  <2>2. n = e.ns \/ IncN(n) = e.ns
    BY <1>2, <1>3, <2>1 DEF Accepts, Fresh, Repeat
  <2>3. Received(Conn, n, n) = [session |-> "ON_LINE", ns |-> n, nr |-> IncN(n)]
    BY <1>2, <2>1, <2>2 DEF Received, Fresh, EndPoint
  <2>4. QED
    BY <1>2, <1>3, <1>4, <2>1, <2>2, <2>3 DEF Replied, Online
<1>5. CASE Current(Conn).session # "ON_LINE"
  <2>1. nts'[Conn] = Current(Conn)
    BY <1>3, <1>5 DEF Received, Replied
  <2>2. QED
    BY <1>2, <1>5, <2>1 DEF Current, Online
<1>6. QED
  BY <1>2, <1>4, <1>5

-----------------------------------------------------------------------------
(* The parts of the invariant in the steps that only shorten or lengthen a *)
(* line.                                                                   *)

LEMMA ShorterToDev ==
  ASSUME Inv, toDev # << >>, toDev' = Tail(toDev), UNCHANGED << mst, job >>
  PROVE  /\ PacketsInv' /\ OrderInv'
         /\ \A i \in DOMAIN toDev' : \E k \in DOMAIN toDev : 1 < k /\ toDev'[i] = toDev[k]
<1>1. toDev \in Seq(Packet)
  BY DEF Inv, LinkTypeOK
<1>2. \A i \in DOMAIN toDev' :
        i \in Nat /\ i + 1 \in DOMAIN toDev /\ toDev'[i] = toDev[i + 1] /\ 1 < i + 1
  BY <1>1
<1>3. PacketsInv'
  BY <1>2 DEF Inv, LinkInv, PacketsInv, Wanted, Former
<1>4. OrderInv'
  <2> SUFFICES ASSUME NEW i \in DOMAIN toDev', NEW j \in DOMAIN toDev', i < j
               PROVE  /\ toDev'[j].mi = "StartSession" => toDev'[i].mi = "StartSession"
                      /\ Wanted(toDev'[i]) => Wanted(toDev'[j])
    BY DEF OrderInv, Wanted
  <2>1. i + 1 < j + 1
    BY <1>2
  <2>2. QED
    BY <1>2, <2>1 DEF Inv, LinkInv, OrderInv
<1>5. QED
  BY <1>2, <1>3, <1>4

LEMMA ShorterToMst ==
  ASSUME Inv, toMst # << >>, toMst' = Tail(toMst)
  PROVE  /\ mst'.ns = mst.ns => RepliesInv'
         /\ \A i \in DOMAIN toMst' : \E k \in DOMAIN toMst : 1 < k /\ toMst'[i] = toMst[k]
<1>1. toMst \in Seq(Reply)
  BY DEF Inv, LinkTypeOK
<1>2. \A i \in DOMAIN toMst' :
        i \in Nat /\ i + 1 \in DOMAIN toMst /\ toMst'[i] = toMst[i + 1] /\ 1 < i + 1
  BY <1>1
<1>3. ASSUME mst'.ns = mst.ns PROVE RepliesInv'
  <2> SUFFICES ASSUME NEW i \in DOMAIN toMst', NEW j \in DOMAIN toMst', i < j,
                      Confirms(toMst'[i]), Executes(toMst'[j])
               PROVE  Confirms(toMst'[j])
    BY <1>3 DEF RepliesInv, Confirms, Executes
  <2>1. i + 1 < j + 1
    BY <1>2
  <2>2. QED
    BY <1>2, <2>1 DEF Inv, LinkInv, RepliesInv
<1>4. QED
  BY <1>2, <1>3

LEMMA LongerToMst ==
  ASSUME Inv, NEW r \in Reply, Sent(r), UNCHANGED mst,
         Executes(r) => \/ Confirms(r)
                        \/ \A i \in DOMAIN toMst : ~Confirms(toMst[i])
  PROVE  /\ RepliesInv'
         /\ \A i \in DOMAIN toMst' :
              (i \in DOMAIN toMst /\ toMst'[i] = toMst[i]) \/ toMst'[i] = r
<1>1. toMst \in Seq(Reply) /\ toMst' = Append(toMst, r)
  BY DEF Inv, LinkTypeOK, Sent
<1>2. /\ \A i \in DOMAIN toMst' :
           \/ i \in DOMAIN toMst /\ toMst'[i] = toMst[i]
           \/ i \notin DOMAIN toMst /\ toMst'[i] = r /\ \A j \in DOMAIN toMst : j < i
      /\ \A i \in DOMAIN toMst' : i \in Nat
  BY <1>1
<1>3. RepliesInv'
  <2> SUFFICES ASSUME NEW i \in DOMAIN toMst', NEW j \in DOMAIN toMst', i < j,
                      Confirms(toMst'[i]), Executes(toMst'[j])
               PROVE  Confirms(toMst'[j])
    BY DEF RepliesInv, Confirms, Executes
  <2>1. i \in DOMAIN toMst
    BY <1>1
  <2>2. toMst'[i] = toMst[i]
    BY <1>2, <2>1
  <2>3. QED
    BY <1>2, <2>1, <2>2 DEF Inv, LinkInv, RepliesInv
<1>4. QED
  BY <1>2, <1>3

(* The session ends, or nothing happens to it, and the lines lose packets  *)
(* or gain replies that tell the master nothing: the controller restarts,  *)
(* times out, refuses a packet; the line loses one.                        *)
Forgets ==
  /\ UNCHANGED << mst, job, executed >> /\ line'[Conn] = line[Conn]
  /\ \/ nts'[Conn] = nts[Conn]
     \/ nts'[Conn].session = "OFF_LINE" /\ nts'[Conn].ns = nts'[Conn].nr
  /\ \A i \in DOMAIN toDev' : \E k \in DOMAIN toDev : toDev'[i] = toDev[k]
  /\ \A i \in DOMAIN toMst' :
       \/ \E k \in DOMAIN toMst : toMst'[i] = toMst[k]
       \/ ~Executes(toMst'[i]) /\ ~LetsIn(toMst'[i])

LEMMA ForgetsStep ==
  ASSUME Inv, Forgets
  PROVE  MasterInv' /\ NumbersInv' /\ JoinedInv' /\ FormerInv' /\ ConfirmInv'
<1> USE DEF Inv, LinkInv, Forgets
<1>1. \A mi : OnWay(mi)' => OnWay(mi)
  BY DEF OnWay
<1>2. \A i \in DOMAIN toMst' :
        /\ LetsIn(toMst'[i]) => \E k \in DOMAIN toMst : LetsIn(toMst[k])
        /\ Executes(toMst'[i]) => \E k \in DOMAIN toMst : toMst'[i] = toMst[k]
  OBVIOUS
<1>3. Joined' => Joined
  BY <1>1, <1>2 DEF Joined, LetsIn
<1>4. Online(Conn)' => nts'[Conn] = nts[Conn] /\ Online(Conn)
  BY DEF Online
<1>5. MasterInv'
  BY <1>1, <1>2 DEF MasterInv, Executes, LetsIn
<1>6. NumbersInv'
  BY DEF NumbersInv
<1>7. JoinedInv'
  BY <1>1, <1>3, <1>4 DEF JoinedInv
<1>8. FormerInv'
  BY <1>4 DEF FormerInv, Former
<1>9. ConfirmInv'
  <2> SUFFICES ASSUME \E i \in DOMAIN toMst' : Confirms(toMst[i])'
               PROVE  /\ executed = job
                      /\ \A i \in DOMAIN toDev' : Wanted(toDev'[i])
                      /\ Online(Conn)' => nts'[Conn].ns = IncN(mst.ns)
    BY DEF ConfirmInv, Wanted
  <2>1. \E k \in DOMAIN toMst : Confirms(toMst[k])
    BY <1>2 DEF Confirms, Executes
  <2>2. QED
    BY <1>4, <2>1 DEF ConfirmInv
<1>10. QED
  BY <1>5, <1>6, <1>7, <1>8, <1>9

-----------------------------------------------------------------------------
(* The master. *)

LEMMA MasterLoginStep ==
  ASSUME Inv, Login
  PROVE  LinkInv'
<1>1. DOMAIN toDev' = {} /\ DOMAIN toMst' = {}
  BY DEF Login
<1>2. mst'.st = "seed" /\ mst'.ns = 0 /\ mst'.nr = 0
  BY DEF Inv, LinkTypeOK, Login
<1>3. nts' = nts /\ line' = line /\ executed' = executed /\ job' = job
  BY DEF Login, vars
<1>4. PacketsInv' /\ OrderInv' /\ RepliesInv' /\ FormerInv' /\ ConfirmInv'
  BY <1>1 DEF PacketsInv, OrderInv, RepliesInv, FormerInv, ConfirmInv
<1>5. ~Joined' /\ MasterInv'
  BY <1>1, <1>2 DEF Joined, OnWay, MasterInv
<1>6. NumbersInv'
  BY <1>3 DEF Inv, LinkInv, NumbersInv
<1>7. QED
  BY <1>4, <1>5, <1>6 DEF LinkInv, JoinedInv

(* The master only changes where it is: to "off", or let in by a reply. *)
LEMMA SameNumbers ==
  ASSUME Inv, UNCHANGED << job, toDev, executed, nts, line >>,
         mst'.ns = mst.ns, mst'.nr = mst.nr,
         mst'.st \in {"seed", "pass"} => mst.st \in {"seed", "pass"},
         mst'.st = "seed" => mst.st = "seed",
         mst'.st = "on" => Joined,
         \A i \in DOMAIN toMst' : \E k \in DOMAIN toMst : toMst'[i] = toMst[k],
         RepliesInv'
  PROVE  LinkInv'
<1> USE DEF Inv, LinkInv
<1>1. PacketsInv' /\ OrderInv' /\ FormerInv' /\ NumbersInv'
  BY DEF PacketsInv, OrderInv, FormerInv, NumbersInv, Wanted, Former, Online
<1>2. Joined' => Joined
  BY DEF Joined, OnWay, LetsIn
<1>3. JoinedInv'
  BY <1>2 DEF JoinedInv, OnWay, Online
<1>4. MasterInv'
  BY DEF MasterInv, OnWay, Executes, LetsIn
<1>5. ConfirmInv'
  BY DEF ConfirmInv, Confirms, Executes, Wanted, Online
<1>6. QED
  BY <1>1, <1>3, <1>4, <1>5

LEMMA GiveUpStep ==
  ASSUME Inv, GiveUp
  PROVE  LinkInv'
<1>1. mst'.st = "off" /\ mst'.ns = mst.ns /\ mst'.nr = mst.nr
  BY DEF Inv, LinkTypeOK, GiveUp
<1>2. UNCHANGED << job, toDev, toMst, executed, nts, line >>
  BY DEF GiveUp, vars
<1>3. RepliesInv'
  BY <1>1, <1>2 DEF Inv, LinkInv, RepliesInv, Confirms, Executes
<1>4. QED
  BY <1>1, <1>2, <1>3, SameNumbers

(* A packet of the present command is the last one on its way, one of the  *)
(* login is sent only while no command is.                                 *)
LEMMA SendStep ==
  ASSUME Inv, Send
  PROVE  LinkInv'
<1> DEFINE x == [mi |-> CASE mst.st = "seed" -> "StartSession"
                          [] mst.st = "pass" -> "Password"
                          [] mst.st = "on"   -> "Command",
                 ns |-> mst.ns, nr |-> mst.nr, seed |-> mst.seed, job |-> job]
<1> USE DEF Inv, LinkInv
<1>1. /\ toDev' = Append(toDev, x)
      /\ UNCHANGED << nts, line, mst, job, toMst, executed >>
      /\ mst.st \in {"seed", "pass", "on"} /\ (mst.st = "on" => job <= MaxJobs)
  BY DEF Send, vars, LinkTypeOK
<1>2. /\ x.ns = mst.ns /\ x.nr = mst.ns /\ x.job = job
      /\ mst.st = "seed" => x.mi = "StartSession"
      /\ mst.st = "pass" => x.mi = "Password"
      /\ mst.st = "on" => x.mi = "Command"
  BY DEF MasterInv
<1> HIDE DEF x
<1>3. /\ \A i \in DOMAIN toDev' :
           \/ i \in DOMAIN toDev /\ toDev'[i] = toDev[i]
           \/ i \notin DOMAIN toDev /\ toDev'[i] = x /\ \A j \in DOMAIN toDev : j < i
      /\ \A i \in DOMAIN toDev' : i \in Nat
  <2>1. toDev \in Seq(Packet)
    BY DEF LinkTypeOK
  <2>2. QED
    BY <1>1, <2>1
<1>4. mst.st = "on" => Wanted(x)
  BY <1>2 DEF Wanted
<1>5. mst.st # "on" => mst.ns = 0 /\ ~OnWay("Command") /\ \A i \in DOMAIN toMst : ~Executes(toMst[i])
  BY <1>1 DEF MasterInv
<1>6. PacketsInv'
  BY <1>1, <1>2, <1>3, <1>4, <1>5 DEF PacketsInv, Wanted, Former
<1>7. OrderInv'
  <2> SUFFICES ASSUME NEW i \in DOMAIN toDev', NEW j \in DOMAIN toDev', i < j
               PROVE  /\ toDev'[j].mi = "StartSession" => toDev'[i].mi = "StartSession"
                      /\ Wanted(toDev'[i]) => Wanted(toDev'[j])
    BY <1>1 DEF OrderInv, Wanted
  <2>0. toDev \in Seq(Packet)
    BY DEF LinkTypeOK
  <2>1. i \in DOMAIN toDev /\ toDev'[i] = toDev[i]
    BY <1>1, <2>0
  <2>2. CASE j \in DOMAIN toDev
    BY <1>3, <2>1, <2>2 DEF OrderInv
  <2>3. CASE j \notin DOMAIN toDev
    <3>1. toDev'[j] = x
      BY <1>3, <2>3
    <3>2. CASE mst.st = "on"
      BY <1>2, <1>4, <2>1, <3>1, <3>2
    <3>3. CASE mst.st # "on"
      <4>1. toDev[i].mi # "Command"
        BY <1>5, <2>1, <3>3 DEF OnWay
      <4>2. ~Wanted(toDev[i])
        BY <4>1 DEF Wanted
      <4>3. mst.st = "seed" => toDev[i].mi = "StartSession"
        <5>1. toDev[i].mi \in {"StartSession", "Password", "Command"}
          BY <2>1, PacketType DEF Packet
        <5>2. mst.st = "seed" => toDev[i].mi # "Password"
          BY <2>1 DEF MasterInv, OnWay
        <5>3. QED
          BY <4>1, <5>1, <5>2
      <4>4. QED
        BY <1>1, <1>2, <2>1, <3>1, <3>3, <4>2, <4>3
    <3>4. QED
      BY <3>2, <3>3
  <2>4. QED
    BY <2>2, <2>3
<1>8. OnWay("StartSession")' => OnWay("StartSession") \/ mst.st = "seed"
  BY <1>1, <1>2, <1>3 DEF OnWay
<1>9. mst.st # "on" => (OnWay("Command")' => OnWay("Command")) /\ (Joined' => Joined)
  BY <1>1, <1>2, <1>3 DEF OnWay, Joined, LetsIn
<1>10. mst.st = "seed" => ~Joined
  BY <1>5 DEF MasterInv, Joined
<1>11. MasterInv'
  <2>1. mst.st = "seed" => ~OnWay("Password")'
    BY <1>2, <1>3 DEF MasterInv, OnWay
  <2>2. QED
    BY <1>1, <1>9, <2>1 DEF MasterInv, Executes, LetsIn
<1>12. JoinedInv'
  <2> SUFFICES ASSUME Joined'
               PROVE  /\ ~OnWay("StartSession")'
                      /\ nts[Conn].session # "START"
                      /\ Online(Conn) => nts[Conn].ns \in {mst.ns, IncN(mst.ns)}
    BY <1>1 DEF JoinedInv, Online
  <2>1. Joined
    BY <1>9 DEF Joined
  <2>2. QED
    BY <1>8, <1>10, <2>1 DEF JoinedInv
<1>13. FormerInv'
  <2>1. ~Former(x) \/ ~(mst.st = "on")
    BY <1>4, NotBoth, PacketType
  <2>2. mst.st # "on" => ~Former(x)
    BY <1>1, <1>2 DEF Former
  <2>3. \A i \in DOMAIN toDev' : Former(toDev'[i]) => i \in DOMAIN toDev /\ Former(toDev[i])
    BY <1>3, <2>1, <2>2
  <2>4. QED
    BY <1>1, <2>3 DEF FormerInv, Former, Online
<1>14. ConfirmInv'
  <2> SUFFICES ASSUME NEW k \in DOMAIN toMst, Confirms(toMst[k])
               PROVE  /\ executed = job
                      /\ \A i \in DOMAIN toDev' : Wanted(toDev'[i])
                      /\ Online(Conn) => nts[Conn].ns = IncN(mst.ns)
    BY <1>1 DEF ConfirmInv, Confirms, Executes, Wanted, Online
  <2>1. mst.st = "on"
    BY <1>5 DEF Confirms
  <2>2. QED
    BY <1>3, <1>4, <2>1 DEF ConfirmInv
<1>15. RepliesInv' /\ NumbersInv'
  BY <1>1 DEF RepliesInv, Confirms, Executes, NumbersInv
<1>16. QED
  BY <1>6, <1>7, <1>11, <1>12, <1>13, <1>14, <1>15

(* A reply that confirms the command leaves nothing but that command on    *)
(* its way, which thereby becomes the one before.                          *)
LEMMA ConfirmedStep ==
  ASSUME Inv, Receive, Confirmed
  PROVE  LinkInv'
<1> USE DEF Inv, LinkInv
<1>1. /\ toMst # << >> /\ toMst' = Tail(toMst) /\ 1 \in DOMAIN toMst /\ Head(toMst) = toMst[1]
      /\ UNCHANGED << nts, line, toDev, executed >>
  BY PacketType DEF Receive, vars
<1>2. Confirms(toMst[1]) /\ mst.st = "on"
  BY <1>1 DEF Confirmed, Confirms, Executes, MasterInv
<1>3. /\ mst'.st = "on" /\ mst'.ns = IncN(mst.ns) /\ mst'.nr = IncN(mst.ns) /\ job' = job + 1
  <2>1. ~Seeded /\ ~LoggedIn
    BY <1>2 DEF Seeded, LoggedIn
  <2>2. mst' = [mst EXCEPT !.ns = Next1(@), !.nr = Next1(@)] /\ job' = job + 1
    BY <2>1 DEF Receive
  <2>3. mst' = [mst EXCEPT !.ns = IncN(mst.ns), !.nr = IncN(mst.ns)]
    BY <2>2, NextNumber, PacketType DEF MasterInv
  <2>4. QED
    BY <1>2, <2>2, <2>3 DEF LinkTypeOK
<1>4. /\ executed = job
      /\ \A i \in DOMAIN toDev : Wanted(toDev[i])
      /\ Online(Conn) => nts[Conn].ns = IncN(mst.ns)
  BY <1>1, <1>2 DEF ConfirmInv
<1>5. job \in Nat /\ mst.ns \in Seq0 /\ IncN(mst.ns) # mst.ns
  BY PacketType, NextNumber
<1>6. \A i \in DOMAIN toMst' : ~Confirms(toMst[i])'
  <2>1. \A i \in DOMAIN toMst' : \E k \in DOMAIN toMst : 1 < k /\ toMst'[i] = toMst[k]
    BY <1>1, ShorterToMst
  <2>2. \A i \in DOMAIN toMst' : Executes(toMst'[i]) => Confirms(toMst'[i])
    BY <1>1, <1>2, <2>1 DEF RepliesInv
  <2>3. QED
    BY <1>3, <1>5, <2>2 DEF Confirms, Executes
<1>7. \A i \in DOMAIN toDev' : Former(toDev[i])' /\ ~Wanted(toDev[i])'
  BY <1>1, <1>3, <1>4, <1>5 DEF Former, Wanted
<1>8. PacketsInv'
  <2>1. \A i \in DOMAIN toDev' : toDev'[i].mi = "Command"
    BY <1>1, <1>4 DEF Wanted
  <2>2. QED
    BY <1>1, <1>7, <2>1 DEF PacketsInv
<1>9. OrderInv'
  <2>1. \A i \in DOMAIN toDev' : toDev'[i].mi # "StartSession"
    BY <1>1, <1>4 DEF Wanted
  <2>2. QED
    BY <1>7, <2>1 DEF OrderInv
<1>10. RepliesInv' /\ ConfirmInv'
  BY <1>6 DEF RepliesInv, ConfirmInv
<1>11. MasterInv'
  BY <1>3 DEF MasterInv
<1>12. NumbersInv'
  BY <1>1, <1>3, <1>4, <1>5 DEF NumbersInv
<1>13. JoinedInv'
  <2>1. Joined
    BY <1>2 DEF Joined
  <2>2. QED
    BY <1>1, <1>3, <1>4, <2>1 DEF JoinedInv, OnWay, Online
<1>14. FormerInv'
  BY <1>1, <1>3, <1>4, <1>5 DEF FormerInv, Online
<1>15. QED
  BY <1>8, <1>9, <1>10, <1>11, <1>12, <1>13, <1>14

LEMMA ReceiveStep ==
  ASSUME Inv, Receive
  PROVE  LinkInv'
<1> USE DEF Inv, LinkInv
<1>1. /\ toMst # << >> /\ toMst' = Tail(toMst) /\ 1 \in DOMAIN toMst /\ Head(toMst) = toMst[1]
      /\ UNCHANGED << nts, line, toDev, executed >>
  BY PacketType DEF Receive, vars
<1>2. CASE Confirmed
  BY <1>2, ConfirmedStep
<1>3. CASE ~Confirmed
  <2>1. /\ job' = job
        /\ mst' = IF Seeded THEN [mst EXCEPT !.st = "pass", !.seed = Head(toMst).seed]
                  ELSE IF LoggedIn THEN [mst EXCEPT !.st = "on"]
                  ELSE IF Refused THEN [mst EXCEPT !.st = "off"]
                  ELSE mst
    BY <1>3 DEF Receive
  <2>2. mst'.ns = mst.ns /\ mst'.nr = mst.nr
    BY <2>1 DEF LinkTypeOK
  <2>3. /\ mst'.st \in {"seed", "pass"} => mst.st \in {"seed", "pass"}
        /\ mst'.st = "seed" => mst.st = "seed"
        /\ mst'.st = "on" => mst.st = "on" \/ LoggedIn
    BY <2>1 DEF LinkTypeOK, Seeded
  <2>4. mst'.st = "on" => Joined
    BY <1>1, <2>3 DEF LoggedIn, LetsIn, Joined
  <2>5. /\ \A i \in DOMAIN toMst' : \E k \in DOMAIN toMst : toMst'[i] = toMst[k]
        /\ RepliesInv'
    BY <1>1, <2>2, ShorterToMst
  <2>6. QED
    BY <1>1, <2>1, <2>2, <2>3, <2>4, <2>5, SameNumbers
<1>4. QED
  BY <1>2, <1>3

-----------------------------------------------------------------------------
(* The controller. *)

LEMMA LoseStep ==
  ASSUME Inv, Lose
  PROVE  LinkInv'
<1> USE DEF Inv, LinkInv
<1>1. UNCHANGED << nts, line, mst, job, executed >>
  BY DEF Lose, vars
<1>2. CASE toDev # << >> /\ toDev' = Tail(toDev) /\ UNCHANGED toMst
  <2>1. PacketsInv' /\ OrderInv' /\ \A i \in DOMAIN toDev' : \E k \in DOMAIN toDev : toDev'[i] = toDev[k]
    BY <1>1, <1>2, ShorterToDev
  <2>2. Forgets /\ RepliesInv'
    BY <1>1, <1>2, <2>1 DEF Forgets, RepliesInv, Confirms, Executes
  <2>3. QED
    BY <2>1, <2>2, ForgetsStep
<1>3. CASE toMst # << >> /\ toMst' = Tail(toMst) /\ UNCHANGED toDev
  <2>1. RepliesInv' /\ \A i \in DOMAIN toMst' : \E k \in DOMAIN toMst : toMst'[i] = toMst[k]
    BY <1>1, <1>3, ShorterToMst
  <2>2. Forgets /\ PacketsInv' /\ OrderInv'
    BY <1>1, <1>3, <2>1 DEF Forgets, PacketsInv, OrderInv, Wanted, Former
  <2>3. QED
    BY <2>1, <2>2, ForgetsStep
<1>4. QED
  BY <1>2, <1>3 DEF Lose

LEMMA DeviceStep ==
  ASSUME Inv, Device
  PROVE  LinkInv'
<1> USE DEF Inv, LinkInv
<1>1. UNCHANGED << mst, job, toDev, toMst, executed >>
  BY DEF Device
<1>2. Conn \in Conns \ TcpConns /\ nts \in [Conns -> EndPoint]
  BY LinkConstants DEF LinkTypeOK, TypeOK
<1>3. /\ line'[Conn] = line[Conn]
      /\ \/ nts'[Conn] = nts[Conn]
         \/ nts'[Conn].session = "OFF_LINE" /\ nts'[Conn].ns = nts'[Conn].nr
  <2>1. CASE Tick
    BY <2>1 DEF Tick
  <2>2. CASE PeriodicRun
    BY <1>2, <2>2 DEF PeriodicRun, At
  <2>3. CASE Restart
    <3>1. nts'[Conn] \in {At(v) : v \in Session} /\ nts'[Conn].session = "OFF_LINE"
      BY <1>2, <2>3 DEF Restart
    <3>2. line'[Conn] = "open"
      BY <1>2, <2>3 DEF Restart
    <3>3. QED
      BY <3>1, <3>2 DEF At, NumbersInv
  <2>4. QED
    BY <2>1, <2>2, <2>3 DEF Device
<1>4. Forgets
  BY <1>1, <1>3 DEF Forgets
<1>5. PacketsInv' /\ OrderInv' /\ RepliesInv'
  BY <1>1 DEF PacketsInv, OrderInv, RepliesInv, Wanted, Former, Confirms, Executes
<1>6. QED
  BY <1>4, <1>5, ForgetsStep

(* A packet is taken from the line and answered. *)
LEMMA RxLines ==
  ASSUME Inv, DeviceRx, NEW r \in Reply, Sent(r), ~Executes(r)
  PROVE  /\ PacketsInv' /\ OrderInv' /\ RepliesInv'
         /\ UNCHANGED << mst, job >> /\ 1 \in DOMAIN toDev /\ Head(toDev) = toDev[1]
         /\ \A i \in DOMAIN toDev' : \E k \in DOMAIN toDev : 1 < k /\ toDev'[i] = toDev[k]
         /\ \A i \in DOMAIN toMst' :
              (i \in DOMAIN toMst /\ toMst'[i] = toMst[i]) \/ toMst'[i] = r
<1>1. toDev # << >> /\ toDev' = Tail(toDev) /\ UNCHANGED << mst, job >>
  BY DEF DeviceRx
<1>2. QED
  BY <1>1, ShorterToDev, LongerToMst, PacketType DEF Inv

LEMMA AnswerType ==
  ASSUME LinkTypeOK, NEW mi \in {"StartSession", "Password", "Command"}, NEW ok \in BOOLEAN,
         NEW p \in Packet, NEW s \in Seeds
  PROVE  /\ Answer(mi, ok, p, s) \in Reply
         /\ Answer(mi, ok, p, s).mi = mi /\ Answer(mi, ok, p, s).ok = ok
<1>1. p.ns \in Seq0 /\ p.nr \in Seq0 /\ 0 \in Seq0
  BY SessionConstants DEF Packet, Seq0
<1>2. Received(Conn, p.ns, p.nr) \in EndPoint
  BY <1>1, ReceivedType, LinkConstants DEF LinkTypeOK
<1>3. QED
  BY <1>1, <1>2 DEF Answer, Reply, EndPoint

(* StartSession gives a new seed and ends the session: no master that was  *)
(* let in since its last login has one on its way.                         *)
LEMMA RxStartSessionStep ==
  ASSUME Inv, DeviceRx, RxStartSession(Head(toDev))
  PROVE  LinkInv'
<1> DEFINE p == Head(toDev)
           r == Answer("StartSession", TRUE, p, seed')
<1> USE DEF Inv, LinkInv
<1>1. r \in Reply /\ Sent(r) /\ ~Executes(r) /\ ~LetsIn(r)
  <2>1. p \in Packet /\ seed' \in Seeds /\ Sent(r)
    BY PacketType DEF DeviceRx, RxStartSession
  <2>2. QED
    BY <2>1, AnswerType DEF Executes, LetsIn
<1> HIDE DEF r
<1>2. /\ PacketsInv' /\ OrderInv' /\ RepliesInv'
      /\ UNCHANGED << mst, job >> /\ 1 \in DOMAIN toDev /\ Head(toDev) = toDev[1]
      /\ \A i \in DOMAIN toDev' : \E k \in DOMAIN toDev : 1 < k /\ toDev'[i] = toDev[k]
      /\ \A i \in DOMAIN toMst' :
           (i \in DOMAIN toMst /\ toMst'[i] = toMst[i]) \/ toMst'[i] = r
  BY <1>1, RxLines
<1>3. nts'[Conn] = At("START") /\ UNCHANGED << executed, line >>
  BY LinkConstants DEF RxStartSession, StartSession, SetSession, LinkTypeOK, TypeOK
<1>4. toDev[1].mi = "StartSession"
  BY <1>2 DEF RxStartSession
<1>5. ~Joined
  BY <1>2, <1>4 DEF JoinedInv, OnWay
<1>6. ~Joined'
  BY <1>1, <1>2, <1>5 DEF Joined, OnWay, LetsIn
<1>7. MasterInv'
  BY <1>1, <1>2 DEF MasterInv, OnWay, Executes, LetsIn
<1>8. NumbersInv'
  BY <1>2, <1>3 DEF NumbersInv, At
<1>9. FormerInv'
  BY <1>6 DEF FormerInv, Former, Joined, OnWay
<1>10. ConfirmInv'
  <2>1. \A i \in DOMAIN toMst : ~Confirms(toMst[i])
    BY <1>2, <1>4 DEF ConfirmInv, Wanted
  <2>2. QED
    BY <1>1, <1>2, <2>1 DEF ConfirmInv, Confirms, Executes
<1>11. QED
  BY <1>2, <1>6, <1>7, <1>8, <1>9, <1>10 DEF JoinedInv

(* The right password lets the master in: both start to count at 0. *)
LEMMA RxPasswordStep ==
  ASSUME Inv, DeviceRx, RxPassword(Head(toDev))
  PROVE  LinkInv'
<1> DEFINE p == Head(toDev)
           ok == p.seed = seed
           r == Answer("Password", ok, p, seed)
<1> USE DEF Inv, LinkInv
<1>1. r \in Reply /\ Sent(r) /\ ~Executes(r) /\ (~ok => ~LetsIn(r))
  <2>1. p \in Packet /\ seed \in Seeds /\ Sent(r) /\ ok \in BOOLEAN
    BY PacketType DEF DeviceRx, RxPassword, LinkTypeOK
  <2>2. r \in Reply
    BY <2>1, AnswerType
  <2>3. r.mi = "Password" /\ (~ok => ~r.ok)
    BY DEF Answer
  <2>4. QED
    BY <2>1, <2>2, <2>3 DEF Executes, LetsIn
<1> HIDE DEF r
<1>2. /\ PacketsInv' /\ OrderInv' /\ RepliesInv'
      /\ UNCHANGED << mst, job >> /\ 1 \in DOMAIN toDev /\ Head(toDev) = toDev[1]
      /\ \A i \in DOMAIN toDev' : \E k \in DOMAIN toDev : 1 < k /\ toDev'[i] = toDev[k]
      /\ \A i \in DOMAIN toMst' :
           (i \in DOMAIN toMst /\ toMst'[i] = toMst[i]) \/ toMst'[i] = r
  BY <1>1, RxLines
<1>3. /\ nts'[Conn] = At(IF ok THEN "ON_LINE" ELSE "OFF_LINE") /\ nts[Conn].session = "START"
      /\ UNCHANGED << executed, line >>
  BY LinkConstants DEF RxPassword, Password, SetSession, LinkTypeOK, TypeOK
<1>4. toDev[1].mi = "Password" /\ mst.ns = 0
  BY <1>2 DEF RxPassword, PacketsInv
<1>5. ~Joined
  BY <1>3 DEF JoinedInv
<1>6. ~OnWay("StartSession")' /\ ~OnWay("Command")'
  BY <1>2, <1>4, <1>5 DEF OrderInv, OnWay, Joined
<1>7. MasterInv'
  <2>1. mst.st # "seed"
    BY <1>2, <1>4 DEF MasterInv, OnWay
  <2>2. QED
    BY <1>1, <1>2, <1>6, <2>1 DEF MasterInv, Executes
<1>8. NumbersInv'
  BY <1>2, <1>3 DEF NumbersInv, At
<1>9. FormerInv'
  BY <1>6 DEF FormerInv, Former, OnWay
<1>10. ConfirmInv'
  <2>1. \A i \in DOMAIN toMst : ~Confirms(toMst[i])
    BY <1>2, <1>4 DEF ConfirmInv, Wanted
  <2>2. QED
    BY <1>1, <1>2, <2>1 DEF ConfirmInv, Confirms, Executes
<1>11. JoinedInv'
  <2>1. CASE ok
    BY <1>2, <1>3, <1>4, <1>6, <2>1 DEF JoinedInv, At, Online
  <2>2. CASE ~ok
    <3>1. ~Joined'
      BY <1>1, <1>2, <1>5, <1>6, <2>2 DEF Joined, LetsIn
    <3>2. QED
      BY <3>1 DEF JoinedInv
  <2>3. QED
    BY <2>1, <2>2
<1>12. QED
  BY <1>2, <1>7, <1>8, <1>9, <1>10, <1>11

(* A packet out of place takes a number only on line, where it can only be *)
(* a Password of the login that let the master in.                         *)
LEMMA RxRejectedStep ==
  ASSUME Inv, DeviceRx, RxRejected(Head(toDev))
  PROVE  LinkInv'
<1> DEFINE p == Head(toDev)
           r == Reject(p)
<1> USE DEF Inv, LinkInv
<1>1. r \in Reply /\ Sent(r) /\ ~Executes(r) /\ ~LetsIn(r)
  <2>1. p \in Packet /\ seed \in Seeds /\ Sent(r) /\ p.mi \in {"StartSession", "Password", "Command"}
    BY PacketType DEF DeviceRx, RxRejected, LinkTypeOK, Packet
  <2>2. FALSE \in BOOLEAN
    OBVIOUS
  <2>3. QED
    BY <2>1, <2>2, AnswerType DEF Executes, LetsIn, Reject
<1> HIDE DEF r
<1>2. /\ PacketsInv' /\ OrderInv' /\ RepliesInv'
      /\ UNCHANGED << mst, job >> /\ 1 \in DOMAIN toDev /\ Head(toDev) = toDev[1]
      /\ \A i \in DOMAIN toDev' : \E k \in DOMAIN toDev : 1 < k /\ toDev'[i] = toDev[k]
      /\ \A i \in DOMAIN toMst' :
           (i \in DOMAIN toMst /\ toMst'[i] = toMst[i]) \/ toMst'[i] = r
  BY <1>1, RxLines
<1>3. toDev[1].nr = toDev[1].ns /\ toDev[1].ns \in Seq0
  BY <1>2, PacketType DEF PacketsInv
<1>4. Answered(Conn, toDev[1].ns, toDev[1].ns) /\ UNCHANGED << executed, line >>
  BY <1>2, <1>3 DEF RxRejected, Answered
<1>5. CASE Current(Conn).session # "ON_LINE"
  <2>1. nts'[Conn] \in {nts[Conn], At("OFF_LINE")}
    BY <1>3, <1>4, <1>5, AnsweredNumbers DEF LinkTypeOK
  <2>2. Forgets
    BY <1>1, <1>2, <1>4, <2>1 DEF Forgets, At
  <2>3. QED
    BY <1>2, <2>2, ForgetsStep
<1>6. CASE Current(Conn).session = "ON_LINE"
  <2>1. toDev[1].mi = "Password" /\ toDev[1].ns = 0 /\ mst.ns = 0
    BY <1>2, <1>6 DEF RxRejected, PacketsInv
  <2>2. nts'[Conn] = [session |-> "ON_LINE", ns |-> IncN(0), nr |-> IncN(0)]
    BY <1>3, <1>4, <1>6, <2>1, AnsweredNumbers DEF LinkTypeOK
  <2>3. \A mi : OnWay(mi)' => OnWay(mi)
    BY <1>2 DEF OnWay
  <2>4. Joined' => Joined
    BY <1>1, <1>2, <2>3 DEF Joined, LetsIn
  <2>5. MasterInv'
    BY <1>1, <1>2, <2>3 DEF MasterInv, Executes, LetsIn
  <2>6. NumbersInv'
    BY <1>2, <1>4, <2>2 DEF NumbersInv
  <2>7. JoinedInv'
    BY <1>2, <2>1, <2>2, <2>3, <2>4 DEF JoinedInv
  <2>8. FormerInv'
    <3>1. \A i \in DOMAIN toDev' : ~Former(toDev'[i])
      <4>1. \A i \in DOMAIN toDev' : toDev'[i].ns \in Seq0
        BY <1>2, PacketType
      <4>2. QED
        BY <4>1, <2>1, NextNumber DEF Former
    <3>2. QED
      BY <1>2, <3>1 DEF FormerInv, Former
  <2>9. ConfirmInv'
    <3>1. \A i \in DOMAIN toMst : ~Confirms(toMst[i])
      BY <1>2, <2>1 DEF ConfirmInv, Wanted
    <3>2. QED
      BY <1>1, <1>2, <3>1 DEF ConfirmInv, Confirms, Executes
  <2>10. QED
    BY <1>2, <2>5, <2>6, <2>7, <2>8, <2>9
<1>7. QED
  BY <1>5, <1>6

(* A command is the one the master waits for, and everything behind it is  *)
(* too, or the one before, which was executed and is only repeated.        *)
LEMMA RxCommandStep ==
  ASSUME Inv, DeviceRx, RxCommand(Head(toDev))
  PROVE  /\ LinkInv'
         /\ executed' = job \/ executed' = executed
<1> DEFINE p == Head(toDev)
           r == Answer("Command", TRUE, p, seed)
<1> USE DEF Inv, LinkInv
<1>1. toDev # << >> /\ toDev' = Tail(toDev) /\ UNCHANGED << mst, job >>
  BY DEF DeviceRx
<1>2. /\ 1 \in DOMAIN toDev /\ p = toDev[1] /\ p \in Packet /\ p.ns \in Seq0 /\ p.mi = "Command"
      /\ p.nr = p.ns /\ job \in Nat
  BY <1>1, PacketType DEF RxCommand, PacketsInv
<1>3. /\ PacketsInv' /\ OrderInv'
      /\ \A i \in DOMAIN toDev' : \E k \in DOMAIN toDev : 1 < k /\ toDev'[i] = toDev[k]
  BY <1>1, ShorterToDev
<1>4. Answered(Conn, p.ns, p.ns) /\ UNCHANGED line /\ Current(Conn).session = "ON_LINE" /\ executed' = p.job
  BY <1>2 DEF RxCommand, Answered
<1>5. /\ p.ns = nts[Conn].ns \/ IncN(p.ns) = nts[Conn].ns
      /\ Received(Conn, p.ns, p.ns).ns = p.ns
      /\ nts'[Conn] = [session |-> "ON_LINE", ns |-> IncN(p.ns), nr |-> IncN(p.ns)]
      /\ Online(Conn)
  BY <1>2, <1>4, AnsweredNumbers DEF LinkTypeOK
<1>6. r \in Reply /\ Sent(r) /\ r.mi = "Command" /\ r.ok /\ r.ns = p.ns
  <2>1. seed \in Seeds /\ Sent(r) /\ TRUE \in BOOLEAN
    BY DEF RxCommand, LinkTypeOK
  <2>2. r.ns = p.ns
    BY <1>2, <1>5 DEF Answer
  <2>3. r \in Reply /\ r.mi = "Command" /\ r.ok = TRUE
    <3>1. "Command" \in {"StartSession", "Password", "Command"} /\ p \in Packet
      BY <1>2
    <3>2. LinkTypeOK
      OBVIOUS
    <3>3. r \in Reply
      BY <2>1, <3>1, <3>2, AnswerType
    <3>4. r.mi = "Command" /\ r.ok = TRUE
      BY DEF Answer
    <3>5. QED
      BY <3>3, <3>4
  <2>4. QED
    BY <2>1, <2>2, <2>3
<1> HIDE DEF r
<1>7. OnWay("Command") /\ Joined
  BY <1>2 DEF OnWay, Joined
<1>8. Wanted(p) \/ Former(p)
  BY <1>2 DEF PacketsInv
<1>9. Former(p) => /\ executed = job - 1 /\ p.job = job - 1 /\ nts[Conn].ns = mst.ns
                   /\ IncN(p.ns) = mst.ns /\ r.ns # mst.ns
                   /\ \A i \in DOMAIN toMst : ~Confirms(toMst[i])
  <2> SUFFICES ASSUME Former(p)
               PROVE  /\ executed = job - 1 /\ p.job = job - 1 /\ nts[Conn].ns = mst.ns
                      /\ IncN(p.ns) = mst.ns /\ r.ns # mst.ns
                      /\ \A i \in DOMAIN toMst : ~Confirms(toMst[i])
    OBVIOUS
  <2>1. executed = job - 1 /\ nts[Conn].ns = mst.ns
    BY <1>2, <1>5 DEF FormerInv
  <2>2. p.job = job - 1 /\ IncN(p.ns) = mst.ns /\ r.ns # mst.ns
    BY <1>2, <1>6, NextNumber DEF Former
  <2>3. \A i \in DOMAIN toMst : ~Confirms(toMst[i])
    BY <1>2, NotBoth DEF ConfirmInv
  <2>4. QED
    BY <2>1, <2>2, <2>3
<1>10. Wanted(p) => /\ p.ns = mst.ns /\ p.job = job /\ Confirms(r)
                    /\ \A i \in DOMAIN toDev' : Wanted(toDev'[i])
  BY <1>2, <1>3, <1>6 DEF Wanted, Confirms, Executes, OrderInv
<1>11. /\ RepliesInv'
       /\ \A i \in DOMAIN toMst' :
            (i \in DOMAIN toMst /\ toMst'[i] = toMst[i]) \/ toMst'[i] = r
  BY <1>1, <1>6, <1>8, <1>9, <1>10, LongerToMst
<1>12. \A mi : OnWay(mi)' => OnWay(mi)
  BY <1>3 DEF OnWay
<1>13. MasterInv'
  BY <1>1, <1>6, <1>7, <1>11, <1>12 DEF MasterInv, LetsIn
<1>14. NumbersInv'
  BY <1>1, <1>4, <1>5, <1>8, <1>9, <1>10 DEF NumbersInv
<1>15. JoinedInv'
  BY <1>1, <1>5, <1>7, <1>8, <1>9, <1>10, <1>12 DEF JoinedInv
<1>16. FormerInv'
  <2>1. CASE Wanted(p)
    <3>1. \A i \in DOMAIN toDev' : ~Former(toDev'[i])
      BY <1>2, <1>10, <2>1, NotBoth
    <3>2. QED
      BY <1>1, <3>1 DEF FormerInv, Former
  <2>2. CASE Former(p)
    BY <1>1, <1>4, <1>5, <1>9, <2>2 DEF FormerInv, Former
  <2>3. QED
    BY <1>8, <2>1, <2>2
<1>17. ConfirmInv'
  <2>1. CASE Wanted(p)
    BY <1>1, <1>4, <1>5, <1>10, <2>1 DEF ConfirmInv, Wanted
  <2>2. CASE Former(p)
    <3>1. \A i \in DOMAIN toMst' : ~Confirms(toMst'[i])
      BY <1>9, <1>11, <2>2 DEF Confirms
    <3>2. QED
      BY <1>1, <3>1 DEF ConfirmInv, Confirms, Executes
  <2>3. QED
    BY <1>8, <2>1, <2>2
<1>18. executed' = job \/ executed' = executed
  BY <1>4, <1>8, <1>9, <1>10
<1>19. QED
  BY <1>3, <1>11, <1>13, <1>14, <1>15, <1>16, <1>17, <1>18

LEMMA RxNakStep ==
  ASSUME Inv, DeviceRx, RxNak
  PROVE  LinkInv'
<1> USE DEF Inv, LinkInv
<1>1. Nak \in Reply /\ Sent(Nak) /\ ~Executes(Nak) /\ ~LetsIn(Nak)
  BY SessionConstants DEF Nak, Reply, Seq0, Seeds, RxNak, Executes, LetsIn
<1>2. /\ PacketsInv' /\ OrderInv' /\ RepliesInv'
      /\ UNCHANGED << mst, job >>
      /\ \A i \in DOMAIN toDev' : \E k \in DOMAIN toDev : 1 < k /\ toDev'[i] = toDev[k]
      /\ \A i \in DOMAIN toMst' :
           (i \in DOMAIN toMst /\ toMst'[i] = toMst[i]) \/ toMst'[i] = Nak
  BY <1>1, RxLines
<1>3. UNCHANGED << nts, executed, line >>
  BY DEF RxNak, vars
<1>4. Forgets
  BY <1>1, <1>2, <1>3 DEF Forgets
<1>5. QED
  BY <1>2, <1>4, ForgetsStep

-----------------------------------------------------------------------------
LEMMA LinkStart == LinkInit => Inv
<1> SUFFICES ASSUME LinkInit PROVE Inv
  OBVIOUS
<1>1. SessionInv /\ TypeOK
  BY SessionStart DEF LinkInit, SessionInv
<1>2. 0 \in Seq0 /\ MaxJobs \in Nat /\ LineSize \in Nat
  BY SessionConstants, LinkConstants DEF Seq0
<1>3. toDev = << >> /\ toMst = << >> /\ DOMAIN toDev = {} /\ DOMAIN toMst = {}
  BY DEF LinkInit
<1>4. LinkTypeOK
  BY <1>1, <1>2, <1>3 DEF LinkInit, LinkTypeOK, Seeds
<1>5. nts[Conn].ns = nts[Conn].nr /\ line[Conn] = "open"
  <2>1. nts[Conn] \in {At(v) : v \in Session}
    BY LinkConstants DEF LinkInit, Init
  <2>2. line[Conn] = "open"
    BY LinkConstants DEF LinkInit, Init
  <2>3. QED
    BY <2>1, <2>2 DEF At
<1>6. LinkInv
  BY <1>3, <1>5 DEF LinkInit, LinkInv, PacketsInv, OrderInv, RepliesInv, MasterInv, NumbersInv,
                    JoinedInv, FormerInv, ConfirmInv, Joined, OnWay
<1>7. QED
  BY <1>1, <1>4, <1>6 DEF Inv

LEMMA LinkTypeStep ==
  ASSUME Inv, [LinkNext]_linkVars, TypeOK'
  PROVE  LinkTypeOK'
<1> USE DEF Inv
<1>1. /\ toDev \in Seq(Packet) /\ toMst \in Seq(Reply) /\ seed \in Seeds
      /\ mst \in [st : {"off", "seed", "pass", "on"}, ns : Seq0, nr : Seq0, seed : Seeds]
      /\ job \in 1 .. (MaxJobs + 1) /\ executed \in 0 .. MaxJobs
      /\ Len(toDev) <= LineSize /\ Len(toMst) <= LineSize
  BY DEF LinkTypeOK
<1>2. MaxJobs \in Nat /\ LineSize \in Nat /\ 0 \in Seq0
  BY LinkConstants, SessionConstants DEF Seq0
<1>3. ASSUME NEW S, NEW q \in Seq(S), q # << >>
      PROVE  Tail(q) \in Seq(S) /\ Len(Tail(q)) = Len(q) - 1
  BY <1>3
<1>4. CASE Login \/ GiveUp
  BY <1>1, <1>2, <1>4 DEF Login, GiveUp, LinkTypeOK
<1>5. CASE Send
  <2> DEFINE x == [mi |-> CASE mst.st = "seed" -> "StartSession"
                            [] mst.st = "pass" -> "Password"
                            [] mst.st = "on"   -> "Command",
                   ns |-> mst.ns, nr |-> mst.nr, seed |-> mst.seed, job |-> job]
  <2>1. mst.st \in {"seed", "pass", "on"}
    BY <1>1, <1>5 DEF Send
  <2>2. x \in Packet
    BY <1>1, <2>1 DEF Packet
  <2>3. toDev' = Append(toDev, x) /\ Len(toDev) < LineSize
    BY <1>5 DEF Send
  <2> HIDE DEF x
  <2>4. toDev' \in Seq(Packet) /\ Len(toDev') <= LineSize
    BY <1>1, <1>2, <2>2, <2>3
  <2>5. QED
    BY <1>1, <1>5, <2>4 DEF Send, LinkTypeOK
<1>6. CASE Receive
  <2>1. toMst' \in Seq(Reply) /\ Len(toMst') <= LineSize /\ Head(toMst) \in Reply
    BY <1>1, <1>2, <1>3, <1>6, PacketType DEF Receive
  <2>2. mst' \in [st : {"off", "seed", "pass", "on"}, ns : Seq0, nr : Seq0, seed : Seeds]
    <3>1. Next1(mst.ns) \in Seq0 /\ Next1(mst.nr) \in Seq0
      BY <1>1, NextNumber
    <3>2. Head(toMst).seed \in Seeds
      BY <2>1 DEF Reply
    <3>3. QED
      BY <1>1, <1>6, <3>1, <3>2 DEF Receive
  <2>3. job' \in 1 .. (MaxJobs + 1)
    <3>1. CASE Confirmed
      <4>1. executed = job
        BY <1>6, <3>1, PacketType
           DEF Receive, Confirmed, Confirms, Executes, LinkInv, ConfirmInv, MasterInv
      <4>2. QED
        BY <1>1, <1>2, <1>6, <3>1, <4>1 DEF Receive
    <3>2. CASE ~Confirmed
      BY <1>1, <1>6, <3>2 DEF Receive
    <3>3. QED
      BY <3>1, <3>2
  <2>4. QED
    BY <1>1, <1>6, <2>1, <2>2, <2>3 DEF Receive, LinkTypeOK
<1>7. CASE DeviceRx
  <2> DEFINE p == Head(toDev)
  <2>1. /\ toDev' \in Seq(Packet) /\ Len(toDev') <= LineSize
        /\ p \in Packet /\ p = toDev[1] /\ 1 \in DOMAIN toDev
        /\ UNCHANGED << mst, job >> /\ Len(toMst) < LineSize
    BY <1>1, <1>2, <1>3, <1>7, PacketType DEF DeviceRx
  <2>2. ASSUME NEW r \in Reply, Sent(r) PROVE toMst' \in Seq(Reply) /\ Len(toMst') <= LineSize
    BY <1>1, <1>2, <2>1, <2>2 DEF Sent
  <2>3. TRUE \in BOOLEAN /\ FALSE \in BOOLEAN /\ (p.seed = seed) \in BOOLEAN
    OBVIOUS
  <2>4. CASE RxStartSession(p)
    <3>1. seed' \in Seeds /\ executed' = executed /\ Sent(Answer("StartSession", TRUE, p, seed'))
      BY <2>4 DEF RxStartSession
    <3>2. Answer("StartSession", TRUE, p, seed') \in Reply
      BY <2>1, <3>1, AnswerType
    <3>3. QED
      BY <1>1, <2>1, <2>2, <3>1, <3>2 DEF LinkTypeOK
  <2>5. CASE RxPassword(p)
    <3>1. UNCHANGED << seed, executed >> /\ Sent(Answer("Password", p.seed = seed, p, seed))
      BY <2>5 DEF RxPassword
    <3>2. Answer("Password", p.seed = seed, p, seed) \in Reply
      BY <1>1, <2>1, <2>3, AnswerType
    <3>3. QED
      BY <1>1, <2>1, <2>2, <3>1, <3>2 DEF LinkTypeOK
  <2>6. CASE RxRejected(p)
    <3>1. UNCHANGED << seed, executed >> /\ Sent(Reject(p))
      BY <2>6 DEF RxRejected
    <3>2. Reject(p) \in Reply
      <4>1. p.mi \in {"StartSession", "Password", "Command"}
        BY <2>1 DEF Packet
      <4>2. QED
        BY <1>1, <2>1, <2>3, <4>1, AnswerType DEF Reject
    <3>3. QED
      BY <1>1, <2>1, <2>2, <3>1, <3>2 DEF LinkTypeOK
  <2>7. CASE RxCommand(p)
    <3>1. UNCHANGED seed /\ Sent(Answer("Command", TRUE, p, seed)) /\ executed' = p.job /\ p.mi = "Command"
      BY <2>7 DEF RxCommand
    <3>2. Answer("Command", TRUE, p, seed) \in Reply
      BY <1>1, <2>1, <2>3, AnswerType
    <3>3. executed' \in 0 .. MaxJobs
      BY <1>2, <2>1, <3>1 DEF LinkInv, PacketsInv, Packet
    <3>4. QED
      BY <1>1, <2>1, <2>2, <3>1, <3>2, <3>3 DEF LinkTypeOK
  <2>8. CASE RxNak
    <3>1. Nak \in Reply /\ Sent(Nak) /\ UNCHANGED << seed, executed >>
      BY <1>2, <2>8 DEF Nak, Reply, Seeds, RxNak
    <3>2. QED
      BY <1>1, <2>1, <2>2, <3>1 DEF LinkTypeOK
  <2>9. QED
    BY <1>7, <2>4, <2>5, <2>6, <2>7, <2>8 DEF DeviceRx
<1>8. CASE Device
  BY <1>1, <1>8 DEF Device, LinkTypeOK
<1>9. CASE Lose
  <2>0. /\ toDev # << >> => Tail(toDev) \in Seq(Packet) /\ Len(Tail(toDev)) <= LineSize
        /\ toMst # << >> => Tail(toMst) \in Seq(Reply) /\ Len(Tail(toMst)) <= LineSize
    <3>1. Len(toDev) \in Nat /\ Len(toMst) \in Nat
      BY <1>1
    <3>2. toDev # << >> => Tail(toDev) \in Seq(Packet) /\ Len(Tail(toDev)) <= LineSize
      <4>1. toDev # << >> => Tail(toDev) \in Seq(Packet) /\ Len(Tail(toDev)) = Len(toDev) - 1
        BY <1>1, <1>3
      <4>2. QED
        BY <1>1, <1>2, <3>1, <4>1
    <3>3. toMst # << >> => Tail(toMst) \in Seq(Reply) /\ Len(Tail(toMst)) <= LineSize
      <4>1. toMst # << >> => Tail(toMst) \in Seq(Reply) /\ Len(Tail(toMst)) = Len(toMst) - 1
        BY <1>1, <1>3
      <4>2. QED
        BY <1>1, <1>2, <3>1, <4>1
    <3>4. QED
      BY <3>2, <3>3
  <2>1. toDev' \in Seq(Packet) /\ Len(toDev') <= LineSize
    BY <1>1, <1>9, <2>0 DEF Lose
  <2>2. toMst' \in Seq(Reply) /\ Len(toMst') <= LineSize
    BY <1>1, <1>9, <2>0 DEF Lose
  <2>3. QED
    BY <1>1, <1>9, <2>1, <2>2 DEF Lose, LinkTypeOK
<1>10. CASE UNCHANGED linkVars
  BY <1>1, <1>10 DEF linkVars, LinkTypeOK
<1>11. QED
  BY <1>4, <1>5, <1>6, <1>7, <1>8, <1>9, <1>10 DEF LinkNext

LEMMA LinkInvStep ==
  ASSUME Inv, [LinkNext]_linkVars
  PROVE  Inv'
<1>1. SessionInv' /\ TypeOK'
  BY LinkStep, SessionStep DEF Inv, SessionInv
<1>2. LinkTypeOK'
  BY <1>1, LinkTypeStep
<1>3. ASSUME DeviceRx PROVE LinkInv'
  BY <1>3, RxStartSessionStep, RxPasswordStep, RxRejectedStep, RxCommandStep, RxNakStep DEF DeviceRx
<1>4. ASSUME UNCHANGED linkVars PROVE LinkInv'
  BY <1>4 DEF Inv, linkVars, vars, LinkInv, PacketsInv, OrderInv, RepliesInv, MasterInv, NumbersInv,
              JoinedInv, FormerInv, ConfirmInv, Joined, OnWay, Wanted, Former, Executes, Confirms,
              LetsIn, Online
<1>5. LinkInv'
  BY <1>3, <1>4, MasterLoginStep, GiveUpStep, SendStep, ReceiveStep, DeviceStep, LoseStep DEF LinkNext
<1>6. QED
  BY <1>1, <1>2, <1>5 DEF Inv

LEMMA LinkInvariant == LinkSpec => []Inv
  BY LinkStart, LinkInvStep, PTL DEF LinkSpec

-----------------------------------------------------------------------------
(* The packets, the replies and the numbers of both sides keep their types. *)
THEOREM LinkTypeCorrect == LinkSpec => []LinkTypeOK
<1>1. Inv => LinkTypeOK
  BY DEF Inv
<1>2. QED
  BY <1>1, LinkInvariant, PTL

(* With a master and a line that loses packets the sessions keep what they *)
(* keep with any packets: the link adds no behaviour of its own.           *)
THEOREM LinkImplementsSession == LinkSpec => Spec
<1>1. LinkInit => Init
  BY DEF LinkInit
<1>2. Inv /\ [LinkNext]_linkVars => [Next]_vars
  BY LinkStep DEF Inv
<1>3. QED
  BY <1>1, <1>2, LinkInvariant, PTL DEF LinkSpec, Spec

(* On line the packet that the master would send next, or once more, is    *)
(* accepted, whatever the line has lost.                                   *)
THEOREM LinkRepeatIsAccepted == LinkSpec => []RepeatIsAccepted
<1>1. ASSUME Inv PROVE RepeatIsAccepted
  <2> SUFFICES ASSUME mst.st = "on", Online(Conn) PROVE Accepts(Conn, mst.ns, mst.nr)
    BY DEF RepeatIsAccepted
  <2>1. nts[Conn].ns = nts[Conn].nr /\ nts[Conn].ns \in {mst.ns, IncN(mst.ns)} /\ mst.nr = mst.ns
    BY <1>1 DEF Inv, LinkInv, NumbersInv, JoinedInv, Joined, MasterInv
  <2>2. line[Conn] = "open"
    BY <1>1 DEF Inv, LinkInv, NumbersInv
  <2>3. QED
    BY <2>1, <2>2 DEF Accepts, Current, Fresh, Repeat, At
<1>2. QED
  BY <1>1, LinkInvariant, PTL

(* Through lost and doubled packets, lost replies, time-outs, restarts and *)
(* new logins the commands are executed in order, and none is confirmed    *)
(* that was not executed.                                                  *)
THEOREM LinkKeepsPromise == LinkSpec => KeepsPromise
<1>1. LinkInit => Promise!Init
  BY DEF LinkInit, Promise!Init
<1>2. ASSUME Inv, [LinkNext]_linkVars
      PROVE  [Promise!Execute \/ Promise!Confirm]_<< executed, job - 1 >>
  <2>1. job \in Nat /\ executed \in {job - 1, job}
    BY <1>2, PacketType DEF Inv, LinkInv, NumbersInv
  <2>2. CASE DeviceRx
    <3>1. job' = job /\ (executed' = executed \/ executed' = job)
      BY <1>2, <2>2, RxCommandStep DEF DeviceRx, RxStartSession, RxPassword, RxRejected, RxNak
    <3>2. QED
      BY <2>1, <3>1 DEF Promise!Execute
  <2>3. CASE Receive
    <3>1. CASE Confirmed
      <4>1. executed = job
        BY <1>2, <2>3, <3>1, PacketType
           DEF Inv, Receive, Confirmed, Confirms, Executes, LinkInv, ConfirmInv, MasterInv
      <4>2. job' = job + 1 /\ executed' = executed
        BY <2>3, <3>1 DEF Receive
      <4>3. QED
        BY <2>1, <4>1, <4>2 DEF Promise!Confirm
    <3>2. CASE ~Confirmed
      BY <2>3, <3>2 DEF Receive
    <3>3. QED
      BY <3>1, <3>2
  <2>4. CASE Login \/ GiveUp \/ Send \/ Device \/ Lose \/ UNCHANGED linkVars
    BY <2>4 DEF Login, GiveUp, Send, Device, Lose, linkVars
  <2>5. QED
    BY <1>2, <2>2, <2>3, <2>4 DEF LinkNext
<1>3. QED
  BY <1>1, <1>2, LinkInvariant, PTL DEF LinkSpec, KeepsPromise, Promise!Spec
=============================================================================
