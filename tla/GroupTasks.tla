----------------------------- MODULE GroupTasks -----------------------------
(***************************************************************************)
(* The tasks of a Group that talk to its slaves (Group.cpp, Slave.cpp):    *)
(* TaskFrm and TaskMsg set frames and have them displayed, TaskRqstSlave   *)
(* polls, and the replies tell whether each slave shows what it should.    *)
(* All of them run in NormalMode, one call after the other, and share one  *)
(* half-duplex bus: a task that has sent something ends the call, because  *)
(* the bus is locked until the time for the answer is over.                *)
(*                                                                         *)
(* A protothread line is the value of "task".  The lines in Urgent are     *)
(* passed inside one call: nothing else runs while the task is there.      *)
(* Timers are abstract: a wait for a timer may end at any tick.            *)
(***************************************************************************)
EXTENDS Integers, Sequences, FiniteSets

CONSTANTS
  NSlaves,    \* slaves of the group, in the order of vSlaves
  Cmds,       \* what dsCurrent may hold: see Cmd
  Frames,     \* frame ids
  OldFrames,  \* those the slaves may still show when the controller starts
  MaxSlot,    \* frame slots of a slave besides slot 0, the blank one
  MaxFaults,  \* losses, late answers and slave resets in a behaviour (bound)
  MaxLoads    \* new commands in a behaviour (bound)

Slaves == 1..NSlaves
Slots  == 0..MaxSlot
(* What a slot holds, and so what its CRC stands for: the frames overlaid in *)
(* it.  Erased is a slot that was never set since the slave was powered.    *)
Content == SUBSET Frames
Erased  == {0}

(* A command: a frame for every slave (0: blank), an atomic one with a frame *)
(* for each, or the entries of a message and whether it has a transition     *)
(* time.  onTime is 0, below a second or longer.                             *)
OnTime == { "zero", "short", "long" }
Cmd(c) ==
  \/ c.type = "frm" /\ \E f \in Frames \cup {0} : c.frm = [s \in Slaves |-> f]
  \/ c.type = "atf" /\ c.frm \in [Slaves -> Frames]
  \/ c.type = "null"     \* a message of the switch or of an input, undefined
  \/ /\ c.type = "msg" /\ c.trans \in BOOLEAN
     /\ c.entries \in Seq([frm : Frames, on : OnTime]) /\ Len(c.entries) \in 1..MaxSlot

ASSUME TaskConstants ==
  /\ NSlaves \in Nat \ {0} /\ MaxSlot \in Nat \ {0}
  /\ MaxFaults \in Nat /\ MaxLoads \in Nat
  /\ 0 \notin Frames /\ OldFrames \subseteq Frames
  /\ \A c \in Cmds : Cmd(c)

VARIABLES
  dev,      \* the slaves themselves: their slots and what they show
  exp,      \* what the controller expects of each slave
  rep,      \* what it made of each slave's last answer
  sup,      \* its supervision of each slave
  cmd,      \* dsCurrent
  task,     \* the line of TaskFrm or TaskMsg, whichever runs dsCurrent
  atf,      \* TaskSetATF: the slaves still to be set in this pass
  msg,      \* the counters of TaskMsg, orBuf, and whether a round is over
  ready,    \* readyToLoad
  rq,       \* TaskRqstSlave: the slave asked (NSlaves+1: ext status), asked yet?
  air,      \* a status answer that missed its time, or None
  enabled,  \* deviceEnDisCur
  faults, loads

vars == << dev, exp, rep, sup, cmd, task, atf, msg, ready, rq, air, enabled, faults,
           loads >>

None   == << >>
Timer  == { "clear", "running", "expired" }
Urgent == { "frm", "msg", "mDisp", "mLoad", "mHold", "mDone" }
Waits  == { "atf", "atfNext", "fNext", "fDisp2", "fCur", "mFirst", "mDisp2", "mCur", "mSet", "mOn",
            "mTrans2", "mTransW", "mYield", "nDisp2", "nCur" }

TasksTypeOK ==
  /\ dev \in [Slaves -> [ store : [1..MaxSlot -> Content \cup {Erased}], cur : Slots,
                          shown : Content, nxt : Slots, alive : BOOLEAN, booted : BOOLEAN ]]
  /\ exp \in [Slaves -> [ cur : Slots, next : Slots, cCrc : [Slots -> Content],
                          nCrc : [Slots -> Content], bak : Slots ]]
  /\ rep \in [Slaves -> [ rx : BOOLEAN, stC : 0..3, stN : 0..1 ]]
  /\ sup \in [Slaves -> [ noRpl : Timer, crcTmr : Timer, offline : BOOLEAN, crcErr : BOOLEAN ]]
  /\ cmd \in Cmds
  /\ task \in Urgent \cup Waits
  /\ atf \subseteq Slaves
  /\ msg \in [ set : 0..2*MaxSlot, max : 0..2*MaxSlot, disp : 1..MaxSlot, err : 0..3,
               or : Content, again : BOOLEAN ]
  /\ ready \in BOOLEAN /\ enabled \in BOOLEAN
  /\ rq \in [ i : 1..NSlaves+1, asked : BOOLEAN ]
  /\ air = None \/ air.s \in Slaves
  /\ faults \in 0..MaxFaults /\ loads \in 0..MaxLoads

-----------------------------------------------------------------------------
(* What a slave answers to a status request: the slot and CRC it shows and  *)
(* those set last.                                                          *)
Status(d) == [ cur |-> d.cur, shown |-> d.shown, nxt |-> d.nxt,
               set |-> IF d.nxt = 0 THEN {} ELSE d.store[d.nxt] ]

(* Slave::CheckCurrent. *)
CheckCurrent(x, st) ==
  CASE x.cur = st.cur /\ x.cCrc[x.cur] = st.shown -> 0
    [] x.cur # st.cur /\ x.bak = st.cur /\ x.cCrc[x.bak] = st.shown ->
         IF st.cur # 0 THEN 1 ELSE 2
    [] OTHER -> 3

(* Slave::CheckNext. *)
CheckNext(x, st) == IF x.next = st.nxt /\ x.nCrc[x.next] = st.set THEN 0 ELSE 1

(* Slave::DecodeStRpl. *)
Decoded(x, st) == [ rx |-> TRUE, stC |-> CheckCurrent(x, st), stN |-> CheckNext(x, st) ]

(* Group::CheckAllSlavesCurrent and CheckAllSlavesNext: the first slave that *)
(* has not answered (-1) or whose state is not 0 decides.                    *)
First(st) ==
  IF \A s \in Slaves : st[s] = 0 THEN 0
  ELSE st[CHOOSE s \in Slaves : st[s] # 0 /\ \A t \in 1..s-1 : st[t] = 0]
AllCurrent == First([s \in Slaves |-> IF rep[s].rx THEN rep[s].stC ELSE -1])
AllNext    == First([s \in Slaves |-> IF rep[s].rx THEN rep[s].stN ELSE -1])

(* Those of T that miss a transmission: the dead, and others as a fault.    *)
Losers == { L \in SUBSET Slaves : L # {} => faults < MaxFaults }
Hears(s, T, L) == s \in T /\ dev[s].alive /\ s \notin L

(* Group::SlaveSetFrame.  A disabled group sends nothing. *)
SetFrame(T, slot, content, L) ==
  /\ exp' = [s \in Slaves |-> IF enabled /\ s \in T
               THEN [exp[s] EXCEPT !.next = slot, !.nCrc[slot] = content[s]] ELSE exp[s]]
  /\ dev' = [s \in Slaves |-> IF enabled /\ Hears(s, T, L)
               THEN [dev[s] EXCEPT !.store[slot] = content[s], !.nxt = slot] ELSE dev[s]]
  /\ faults' = IF L = {} THEN faults ELSE faults + 1

(* A slave told to show a slot: an erased one is ignored (external). *)
Shows(d, slot) ==
  CASE slot = 0 -> [d EXCEPT !.cur = 0, !.shown = {}, !.nxt = 0]
    [] slot # 0 /\ d.store[slot] = Erased -> d
    [] OTHER -> [d EXCEPT !.cur = slot, !.shown = d.store[slot], !.nxt = slot]

(* Group::SlaveSDFrame.  A disabled group shows slot 0 whatever the slot. *)
SDExpect(x, slot) == [x EXCEPT !.cur = slot, !.next = slot, !.cCrc[slot] = x.nCrc[slot]]
SDFrame(slot0, bak, L) ==
  LET slot == IF enabled THEN slot0 ELSE 0
      Bak(x) == IF bak THEN [x EXCEPT !.bak = slot] ELSE x
  IN /\ exp' = [s \in Slaves |-> Bak(SDExpect(exp[s], slot))]
     /\ dev' = [s \in Slaves |-> IF Hears(s, Slaves, L) THEN Shows(dev[s], slot) ELSE dev[s]]
     /\ faults' = IF L = {} THEN faults ELSE faults + 1

(* Group::TaskRqstSlaveReset: forget every answer, restart every timer. *)
RqstReset ==
  /\ rep' = [s \in Slaves |-> [rep[s] EXCEPT !.rx = FALSE]]
  /\ sup' = [s \in Slaves |-> [sup[s] EXCEPT !.noRpl = "clear", !.crcTmr = "clear"]]
  /\ rq' = [ i |-> 1, asked |-> FALSE ]

-----------------------------------------------------------------------------
(* TaskFrm *)

Frame(s) == IF cmd.frm[s] = 0 THEN {} ELSE {cmd.frm[s]}
IsBlank(c) == c.type = "frm" /\ \A s \in Slaves : c.frm[s] = 0
Blank    == IsBlank(cmd)

(* A slave whose frame is another one is only told to show it again. *)
Step1_OnlyReset == \/ task = "frm"
                   \/ task = "fCur" /\ AllCurrent = 2

(* Back to step 1: the task begins, or a slave lost its frames. *)
Step1 == \/ task = "frm"
         \/ task = "fCur" /\ AllCurrent \in {2, 3}

(* Step 1: the frame is set in slot 1 of every slave, until all have it. *)
FrmSet ==
  /\ cmd.type = "frm" /\ ~Blank
  /\ Step1 \/ (task = "fNext" /\ AllNext = 1)
  /\ \E L \in Losers : SetFrame(Slaves, 1, [s \in Slaves |-> Frame(s)], L)
  /\ RqstReset
  /\ task' = "fNext" /\ air' = None
  /\ UNCHANGED << cmd, atf, msg, ready, enabled, loads >>

(* Step 1 of an atomic command: GroupIslus::TaskSetATF sets slave after      *)
(* slave, asks for the result, and sets those again that do not confirm.    *)
AtfBegin ==
  /\ cmd.type = "atf" /\ Step1
  /\ task' = "atf" /\ atf' = Slaves
  /\ UNCHANGED << dev, exp, rep, sup, cmd, msg, ready, rq, air, enabled, faults, loads >>

AtfSet ==
  /\ task = "atf" /\ atf # {}
  /\ LET s == CHOOSE x \in atf : \A y \in atf : x <= y
     IN /\ \E L \in Losers : SetFrame({s}, 1, [x \in Slaves |-> Frame(x)], L)
        /\ atf' = atf \ {s}
  /\ air' = None
  /\ UNCHANGED << rep, sup, cmd, task, msg, ready, rq, enabled, loads >>

AtfAsk ==
  /\ task = "atf" /\ atf = {}
  /\ RqstReset
  /\ task' = "atfNext"
  /\ UNCHANGED << dev, exp, cmd, atf, msg, ready, air, enabled, faults, loads >>

AtfAgain ==
  /\ task = "atfNext" /\ AllNext = 1
  /\ atf' = { s \in Slaves : ~rep[s].rx \/ rep[s].stN # 0 }
  /\ task' = "atf"
  /\ UNCHANGED << dev, exp, rep, sup, cmd, msg, ready, rq, air, enabled, faults, loads >>

(* Step 2: SLAVE_SET_STORED_FRAME, sent twice; frame 0 needs no step 1. *)
FrmDisp ==
  /\ \/ task \in {"fNext", "atfNext"} /\ AllNext = 0
     \/ task = "fCur" /\ AllCurrent = 1
     \/ Blank /\ Step1
  /\ \E L \in Losers : SDFrame(IF Blank THEN 0 ELSE 1, FALSE, L)
  /\ task' = "fDisp2" /\ air' = None
  /\ UNCHANGED << rep, sup, cmd, atf, msg, ready, rq, enabled, loads >>

FrmDisp2 ==
  /\ task = "fDisp2"
  /\ \E L \in Losers : SDFrame(IF Blank THEN 0 ELSE 1, TRUE, L)
  /\ RqstReset
  /\ task' = "fCur" /\ air' = None
  /\ UNCHANGED << cmd, atf, msg, ready, enabled, loads >>

(* Step 3 with every slave right: every 10 minutes a SlaveSync takes the bus. *)
FrmSync ==
  /\ task = "fCur" /\ AllCurrent = 0
  /\ air' = None
  /\ UNCHANGED << dev, exp, rep, sup, cmd, task, atf, msg, ready, rq, enabled, faults, loads >>

-----------------------------------------------------------------------------
(* TaskMsg *)

Entries    == cmd.entries
Last       == Len(Entries)
Overlaid(k) == Entries[k].on = "zero" /\ k # Last   \* shown only under the next ones
Shown(k)    == ~Overlaid(k)

(* The entries before the last overlay are never set again. *)
SetMax_OneRound(e) == Len(e)

(* Group::InitMsgOverlayBuf: how many entries are set before all slots are   *)
(* right.  Entries before the last overlay are set again in the second round. *)
SetMax(e) ==
  LET n == Len(e)
      Over == { k \in 1..n-1 : e[k].on = "zero" }
      Late == { k \in Over : \E j \in 1..k-1 : e[j].on # "zero" }
  IN IF Late = {} \/ e[n].on = "zero" THEN n
     ELSE n + (CHOOSE k \in Late : \A j \in Late : j <= k) - 1

(* ITransFrmWithOrBuf into orBuf and SlaveSetFrame out of it: the frame laid *)
(* over what orBuf holds, when the message has overlays.                     *)
HasOverlay(e)  == \E k \in 1..Len(e)-1 : e[k].on = "zero"
Lay(f) == {f} \cup IF HasOverlay(Entries) THEN msg.or ELSE {}

(* The first entry goes to orBuf if its onTime is 0, or to slot 1. *)
MsgBegin ==
  /\ cmd.type = "msg" /\ task = "msg" /\ Entries[1].on = "zero"
  /\ msg' = [ set |-> 1, max |-> SetMax(Entries), disp |-> 1, err |-> 0,
              or |-> {Entries[1].frm}, again |-> FALSE ]
  /\ task' = "mDisp"
  /\ UNCHANGED << dev, exp, rep, sup, cmd, atf, ready, rq, air, enabled, faults, loads >>

MsgFirst ==
  /\ cmd.type = "msg"
  /\ \/ task = "msg" /\ Entries[1].on # "zero"
     \/ task = "mFirst" /\ AllNext = 1
  /\ msg' = [ set |-> 0, max |-> SetMax(Entries), disp |-> 1, err |-> 0,
              or |-> {}, again |-> FALSE ]
  /\ \E L \in Losers : SetFrame(Slaves, 1, [s \in Slaves |-> {Entries[1].frm}], L)
  /\ RqstReset
  /\ task' = "mFirst" /\ air' = None
  /\ UNCHANGED << cmd, atf, ready, enabled, loads >>

MsgFirstSet ==
  /\ task = "mFirst" /\ AllNext = 0
  /\ msg' = [msg EXCEPT !.set = 1]
  /\ task' = "mDisp"
  /\ UNCHANGED << dev, exp, rep, sup, cmd, atf, ready, rq, air, enabled, faults, loads >>

(* The head of the loop: an overlay is not displayed. *)
MsgSkip ==
  /\ task = "mDisp" /\ Overlaid(msg.disp)
  /\ ready' = (ready /\ ~enabled)
  /\ task' = "mLoad"
  /\ UNCHANGED << dev, exp, rep, sup, cmd, atf, msg, rq, air, enabled, faults, loads >>

(* One status 3 too many and the message is begun anew. *)
Retry(k) == task = "mCur" /\ Entries[k].on = "long" /\ AllCurrent \in {1, 3}

MsgDisp ==
  /\ \/ task = "mDisp" /\ Shown(msg.disp)
        /\ ready' = (ready /\ ~enabled)
        /\ msg' = [msg EXCEPT !.err = 0]
     \/ Retry(msg.disp) /\ (AllCurrent = 3 => msg.err < 2)
        /\ msg' = [msg EXCEPT !.err = IF AllCurrent = 3 THEN @ + 1 ELSE @]
        /\ UNCHANGED ready
  /\ \E L \in Losers : SDFrame(msg.disp, FALSE, L)
  /\ task' = "mDisp2" /\ air' = None
  /\ UNCHANGED << rep, sup, cmd, atf, rq, enabled, loads >>

MsgDisp2 ==
  /\ task = "mDisp2"
  /\ \E L \in Losers : SDFrame(msg.disp, FALSE, L)
  /\ RqstReset
  /\ task' = "mCur" /\ air' = None
  /\ UNCHANGED << cmd, atf, msg, ready, enabled, loads >>

(* The slaves answered.  An entry shown for less than a second is not shown  *)
(* again; a slave that went blank makes the message begin anew.              *)
MsgShown ==
  /\ task = "mCur"
  /\ AllCurrent = 0 \/ (AllCurrent \in {1, 3} /\ Entries[msg.disp].on # "long")
  /\ AllCurrent = 3 => msg.err < 2
  /\ exp' = [s \in Slaves |-> IF AllCurrent = 0 THEN [exp[s] EXCEPT !.bak = exp[s].cur]
                                ELSE exp[s]]
  /\ msg' = [msg EXCEPT !.err = IF AllCurrent = 3 THEN @ + 1 ELSE @]
  /\ task' = "mLoad"
  /\ UNCHANGED << dev, rep, sup, cmd, atf, ready, rq, air, enabled, faults, loads >>

MsgRestart ==
  /\ task = "mCur" /\ (AllCurrent = 2 \/ (AllCurrent = 3 /\ msg.err = 2))
  /\ task' = "msg"
  /\ UNCHANGED << dev, exp, rep, sup, cmd, atf, msg, ready, rq, air, enabled, faults, loads >>

Following == IF msg.disp = Last THEN 1 ELSE msg.disp + 1

(* The next entry is loaded while this one is on show: into orBuf ... *)
MsgLay ==
  /\ task = "mLoad"
  /\ msg.set < msg.max => Overlaid(Following)
  /\ msg' = IF msg.set = msg.max THEN msg
             ELSE [msg EXCEPT !.set = @ + 1,
                              !.or = IF msg.set < Last THEN @ \cup {Entries[Following].frm} ELSE @]
  /\ task' = "mHold"
  /\ UNCHANGED << dev, exp, rep, sup, cmd, atf, ready, rq, air, enabled, faults, loads >>

(* ... or into its slot. *)
MsgSet ==
  /\ \/ task = "mLoad" /\ msg.set < msg.max /\ Shown(Following)
     \/ task = "mSet" /\ AllNext = 1
  /\ \E L \in Losers :
       SetFrame(Slaves, Following, [s \in Slaves |-> Lay(Entries[Following].frm)], L)
  /\ RqstReset
  /\ task' = "mSet" /\ air' = None
  /\ UNCHANGED << cmd, atf, msg, ready, enabled, loads >>

MsgIsSet ==
  /\ task = "mSet" /\ AllNext = 0
  /\ msg' = [msg EXCEPT !.set = @ + 1]
  /\ task' = "mHold"
  /\ UNCHANGED << dev, exp, rep, sup, cmd, atf, ready, rq, air, enabled, faults, loads >>

(* onTime: the slaves are watched until it is over. *)
MsgHold ==
  /\ task = "mHold"
  /\ task' = IF Shown(msg.disp) THEN "mOn" ELSE "mDone"
  /\ UNCHANGED << dev, exp, rep, sup, cmd, atf, msg, ready, rq, air, enabled, faults, loads >>

(* No timer for a last frame that stays. *)
MsgLastFrmTmr_OnlyTimed ==
  /\ task = "mOn" /\ msg.disp = Last /\ AllCurrent >= 0
  /\ Entries[msg.disp].on # "zero"
  /\ ready' = TRUE
  /\ UNCHANGED << dev, exp, rep, sup, cmd, task, atf, msg, rq, air, enabled, faults, loads >>

(* The last frame has its own timer, after which another command may load. *)
MsgLastFrmTmr ==
  /\ task = "mOn" /\ msg.disp = Last /\ AllCurrent >= 0
  /\ ready' = TRUE
  /\ UNCHANGED << dev, exp, rep, sup, cmd, task, atf, msg, rq, air, enabled, faults, loads >>

MsgLost ==
  /\ task = "mOn" /\ AllCurrent > 0
  /\ task' = "msg"
  /\ UNCHANGED << dev, exp, rep, sup, cmd, atf, msg, ready, rq, air, enabled, faults, loads >>

(* A last entry whose onTime is 0 stays. *)
MsgOver ==
  /\ task = "mOn" /\ AllCurrent >= 0 /\ Entries[msg.disp].on # "zero"
  /\ task' = "mDone"
  /\ UNCHANGED << dev, exp, rep, sup, cmd, atf, msg, ready, rq, air, enabled, faults, loads >>

(* The transition shows slot 0, sent twice. *)
InTransition == cmd.trans /\ Entries[msg.disp].on # "zero"

MsgTrans ==
  /\ task = "mDone" /\ InTransition
  /\ \E L \in Losers : SDFrame(0, FALSE, L)
  /\ ready' = (ready \/ msg.disp = Last)
  /\ task' = "mTrans2" /\ air' = None
  /\ UNCHANGED << rep, sup, cmd, atf, msg, rq, enabled, loads >>

MsgTrans2 ==
  /\ task = "mTrans2"
  /\ \E L \in Losers : SDFrame(0, TRUE, L)
  /\ RqstReset
  /\ task' = "mTransW" /\ air' = None
  /\ UNCHANGED << cmd, atf, msg, ready, enabled, loads >>

(* The end of a round does not open it for the next command. *)
MsgDone_NotReady ==
  /\ \/ task = "mDone" /\ ~InTransition
     \/ task = "mTransW"
  /\ IF msg.disp = Last
       THEN task' = "mYield" /\ UNCHANGED msg
       ELSE task' = "mDisp" /\ msg' = [msg EXCEPT !.disp = @ + 1]
  /\ UNCHANGED << ready, dev, exp, rep, sup, cmd, atf, rq, air, enabled, faults, loads >>

MsgDone ==
  /\ \/ task = "mDone" /\ ~InTransition
     \/ task = "mTransW"
  /\ IF msg.disp = Last
       THEN task' = "mYield" /\ ready' = TRUE /\ UNCHANGED msg
       ELSE task' = "mDisp" /\ msg' = [msg EXCEPT !.disp = @ + 1] /\ UNCHANGED ready
  /\ UNCHANGED << dev, exp, rep, sup, cmd, atf, rq, air, enabled, faults, loads >>

MsgRound ==
  /\ task = "mYield"
  /\ task' = "mDisp" /\ msg' = [msg EXCEPT !.disp = 1, !.again = TRUE]
  /\ UNCHANGED << dev, exp, rep, sup, cmd, atf, ready, rq, air, enabled, faults, loads >>

(* An undefined message shows slot 0 for as long as it is asked for. *)
NullDisp ==
  /\ cmd.type = "null"
  /\ task = "msg" \/ (task = "nCur" /\ AllCurrent > 0)
  /\ \E L \in Losers : SDFrame(0, FALSE, L)
  /\ task' = "nDisp2" /\ air' = None
  /\ UNCHANGED << rep, sup, cmd, atf, msg, ready, rq, enabled, loads >>

NullDisp2 ==
  /\ task = "nDisp2"
  /\ \E L \in Losers : SDFrame(0, FALSE, L)
  /\ RqstReset
  /\ task' = "nCur" /\ air' = None
  /\ UNCHANGED << cmd, atf, msg, ready, enabled, loads >>

-----------------------------------------------------------------------------
(* TaskRqstSlave, which runs in the same call after them: where a task that *)
(* waits does not go on, because of its condition or of its timer.          *)
MayPoll ==
  \/ task \in {"fNext", "atfNext", "mFirst", "mSet"} /\ AllNext = -1
  \/ task = "mCur" /\ AllCurrent = -1
  \/ task \in {"fCur", "nCur", "mOn", "mTransW", "mYield"}

(* RqstStatus(i): the answer comes while the bus is locked, or it is lost or *)
(* late.  i = NSlaves + 1 asks for an ext status, which tells nothing here.  *)
Rqst(i, sp) ==
  /\ rq' = [ i |-> i, asked |-> TRUE ]
  /\ IF i > NSlaves THEN UNCHANGED << rep, faults, dev >> /\ sup' = sp /\ air' = None
     ELSE LET st == Status(dev[i])
              begun == [sp EXCEPT ![i].noRpl = IF @ = "clear" THEN "running" ELSE @]
          IN \/ /\ dev[i].alive
                /\ rep' = [rep EXCEPT ![i] = Decoded(exp[i], st)]
                /\ sup' = [begun EXCEPT ![i].noRpl = "clear"]
                /\ dev' = [dev EXCEPT ![i].booted = FALSE]
                /\ air' = None /\ UNCHANGED faults
             \/ /\ dev[i].alive => faults < MaxFaults
                /\ rep' = [rep EXCEPT ![i].rx = FALSE]
                /\ sup' = begun
                /\ faults' = IF dev[i].alive THEN faults + 1 ELSE faults
                /\ air' \in IF dev[i].alive THEN { None, [ s |-> i, st |-> st ] } ELSE { None }
                /\ UNCHANGED dev

(* Silence is not judged, only a wrong answer is. *)
Judged_SilenceIgnored(r, u) ==
  IF r.rx /\ (r.stC > 0 \/ r.stN > 0)
    THEN [ u EXCEPT !.offline = (u.noRpl = "expired") ] ELSE [ u EXCEPT !.crcTmr = "clear" ]

(* What is made of an answer, or of its absence. *)
Judged(r, u) ==
  IF r.rx
    THEN IF r.stC > 0 \/ r.stN > 0
           THEN [ u EXCEPT !.offline = FALSE,
                           !.crcTmr = IF @ = "clear" THEN "running" ELSE @,
                           !.crcErr = (@ \/ u.crcTmr = "expired") ]
           ELSE [ u EXCEPT !.offline = FALSE, !.crcTmr = "clear", !.crcErr = FALSE ]
    ELSE [ u EXCEPT !.offline = (@ \/ u.noRpl = "expired") ]

RqstFirst ==
  /\ MayPoll /\ ~rq.asked
  /\ Rqst(rq.i, sup)
  /\ UNCHANGED << exp, cmd, task, atf, msg, ready, enabled, loads >>

RqstNext ==
  /\ MayPoll /\ rq.asked
  /\ IF rq.i > NSlaves THEN Rqst(1, sup)
     ELSE Rqst(rq.i + 1, [sup EXCEPT ![rq.i] = Judged(rep[rq.i], @)])
  /\ UNCHANGED << exp, cmd, task, atf, msg, ready, enabled, loads >>

-----------------------------------------------------------------------------
(* What goes on around the tasks *)

Quiet == task \notin Urgent

(* A late answer, before anything else is sent. *)
LateReply ==
  /\ Quiet /\ air # None
  /\ rep' = [rep EXCEPT ![air.s] = Decoded(exp[air.s], air.st)]
  /\ sup' = [sup EXCEPT ![air.s].noRpl = "clear"]
  /\ air' = None
  /\ UNCHANGED << dev, exp, cmd, task, atf, msg, ready, rq, enabled, faults, loads >>

(* The timers of the supervision. *)
NoRplExpires(s) ==
  /\ Quiet /\ sup[s].noRpl = "running"
  /\ sup' = [sup EXCEPT ![s].noRpl = "expired"]
  /\ UNCHANGED << dev, exp, rep, cmd, task, atf, msg, ready, rq, air, enabled, faults, loads >>

CrcExpires(s) ==
  /\ Quiet /\ sup[s].crcTmr = "running"
  /\ sup' = [sup EXCEPT ![s].crcTmr = "expired"]
  /\ UNCHANGED << dev, exp, rep, cmd, task, atf, msg, ready, rq, air, enabled, faults, loads >>

(* NormalMode loads a command: when readyToLoad, which an emergency opens,   *)
(* or the blank frame at once when a fatal error rises.  The task that shows *)
(* it begins at its first line (ReloadCurrent).                              *)
TaskOf(c) == IF c.type \in {"frm", "atf"} THEN "frm" ELSE "msg"

Load(c) ==
  /\ Quiet /\ loads < MaxLoads
  /\ loads' = loads + 1
  /\ cmd' = c /\ task' = TaskOf(c)
  /\ ready' = (ready \/ ~IsBlank(c))
  /\ UNCHANGED << dev, exp, rep, sup, atf, msg, rq, air, enabled, faults >>

(* Group::EnDisDevice restarts the tasks; called with readyToLoad, or while  *)
(* the group is blank for a fatal error.                                     *)
EnDisDevice ==
  /\ Quiet /\ loads < MaxLoads
  /\ ready \/ Blank
  /\ loads' = loads + 1
  /\ enabled' = ~enabled /\ task' = TaskOf(cmd)
  /\ UNCHANGED << dev, exp, rep, sup, cmd, atf, msg, ready, rq, air, faults >>

(* A slave falls silent for good, or loses its frames and shows blank. *)
Blanked(d) == [ d EXCEPT !.store = [k \in 1..MaxSlot |-> Erased], !.cur = 0, !.shown = {},
                         !.nxt = 0, !.booted = TRUE ]
SlaveDies(s) ==
  /\ Quiet /\ faults < MaxFaults /\ dev[s].alive
  /\ dev' = [dev EXCEPT ![s].alive = FALSE]
  /\ faults' = faults + 1
  /\ UNCHANGED << exp, rep, sup, cmd, task, atf, msg, ready, rq, air, enabled, loads >>

SlaveResets(s) ==
  /\ Quiet /\ faults < MaxFaults /\ dev[s].alive
  /\ dev' = [dev EXCEPT ![s] = Blanked(@)]
  /\ faults' = faults + 1
  /\ UNCHANGED << exp, rep, sup, cmd, task, atf, msg, ready, rq, air, enabled, loads >>

(* The group is switched off and on: PowerFunc forgets the answers, not what *)
(* the slaves were told, and asks for the ext status.                        *)
PowerCycle ==
  /\ Quiet /\ faults < MaxFaults
  /\ dev' = [s \in Slaves |-> Blanked(dev[s])]
  /\ RqstReset
  /\ ready' = TRUE /\ air' = None
  /\ faults' = faults + 1
  /\ UNCHANGED << exp, cmd, task, atf, msg, enabled, loads >>

-----------------------------------------------------------------------------
(* The controller starts with no expectation while the slaves show nothing,  *)
(* or what they were told before.                                            *)
Init ==
  /\ \E old \in { {f} : f \in OldFrames } \cup {{}} :
       dev = [s \in Slaves |->
                [ store |-> [k \in 1..MaxSlot |-> IF old # {} /\ k = 1 THEN old ELSE Erased],
                  cur |-> IF old = {} THEN 0 ELSE 1, shown |-> old,
                  nxt |-> IF old = {} THEN 0 ELSE 1, alive |-> TRUE, booted |-> FALSE ]]
  /\ exp = [s \in Slaves |-> [ cur |-> 0, next |-> 0, bak |-> 0, cCrc |-> [k \in Slots |-> {}],
                               nCrc |-> [k \in Slots |-> {}] ]]
  /\ rep = [s \in Slaves |-> [ rx |-> FALSE, stC |-> 0, stN |-> 0 ]]
  /\ sup = [s \in Slaves |-> [ noRpl |-> "clear", crcTmr |-> "clear", offline |-> FALSE,
                               crcErr |-> FALSE ]]
  /\ cmd \in Cmds /\ task = TaskOf(cmd)
  /\ atf = {} /\ air = None
  /\ msg = [ set |-> 0, max |-> 0, disp |-> 1, err |-> 0, or |-> {}, again |-> FALSE ]
  /\ ready = TRUE /\ enabled \in BOOLEAN
  /\ rq = [ i |-> 1, asked |-> FALSE ]
  /\ faults = 0 /\ loads = 0

(* A display task that goes on from its line, and one that only watches. *)
GoesOn ==
  \/ FrmSet \/ AtfBegin \/ AtfSet \/ AtfAsk \/ AtfAgain \/ FrmDisp \/ FrmDisp2
  \/ MsgBegin \/ MsgFirst \/ MsgFirstSet \/ MsgSkip \/ MsgDisp \/ MsgDisp2 \/ MsgShown
  \/ MsgRestart \/ MsgLay \/ MsgSet \/ MsgIsSet \/ MsgHold \/ MsgLost \/ MsgOver
  \/ MsgTrans \/ MsgTrans2 \/ MsgDone \/ MsgRound \/ NullDisp \/ NullDisp2

Watches == FrmSync \/ MsgLastFrmTmr

Poll == RqstFirst \/ RqstNext

Around ==
  \/ LateReply \/ EnDisDevice \/ PowerCycle
  \/ \E c \in Cmds : Load(c)
  \/ \E s \in Slaves : NoRplExpires(s) \/ CrcExpires(s) \/ SlaveDies(s) \/ SlaveResets(s)

Next == GoesOn \/ Watches \/ Poll \/ Around

(* The 10 ms timer calls the tasks for ever.  A task that waits for a timer *)
(* besides its condition finds both true in the end, as its timer is shorter *)
(* than or of the length of a poll and the condition comes back (strong      *)
(* fairness); the no-reply timer of a slave expires.                         *)
Fairness ==
  /\ SF_vars(GoesOn) /\ SF_vars(MsgLastFrmTmr) /\ WF_vars(Poll)
  /\ \A s \in Slaves : WF_vars(NoRplExpires(s))

Spec == Init /\ [][Next]_vars /\ Fairness

-----------------------------------------------------------------------------
(* What each slave has to show: its frame; the entry on display under the   *)
(* overlays before it, in the second round under all of them.               *)
WantedEntry(k) ==
  {Entries[k].frm} \cup
  { Entries[j].frm : j \in { j \in 1..Last-1 : Overlaid(j) /\ (j < k \/ msg.again) } }
Wanted(s) ==
  IF ~enabled \/ cmd.type = "null" THEN {}
  ELSE IF cmd.type = "msg" THEN WantedEntry(msg.disp)
  ELSE Frame(s)

(* TaskMsg as the scheduler sees it: the entry before the first is loaded,  *)
(* entries are shown, or the last one has been on for its time and the next  *)
(* round is not begun.                                                      *)
RoundNow ==
  IF task \in {"mDisp2", "mCur", "mLoad", "mSet", "mHold"} THEN "loop"
  ELSE IF task = "mDisp" THEN
    IF msg.disp > 1 THEN "loop" ELSE IF msg.again THEN "end" ELSE "begin"
  ELSE IF task \in {"mOn", "mDone", "mTrans2", "mTransW"} THEN
    IF msg.disp = Last /\ ready THEN "end" ELSE "loop"
  ELSE IF task = "mYield" THEN "end" ELSE "begin"

Rounds == INSTANCE DisplayRound WITH round <- RoundNow

(* Through losses, resets and power cycles TaskMsg keeps what GroupDisplay  *)
(* makes of it: no other command loads between the entries of a round, and  *)
(* a round that is over lets it.                                            *)
PlaysRounds == Rounds!RoundSpec

(* While the controller finds every slave right (it reports the frame or    *)
(* message as displayed and asks for nothing else), every slave was told to *)
(* show what the command wants, not an older frame in the same slot, not an *)
(* entry without its overlays; and it does show it, unless it has reset or  *)
(* fallen silent since its answer.                                          *)
Satisfied == task \in {"fCur", "nCur", "mOn"} /\ AllCurrent = 0
ReportedIsShown ==
  Satisfied => \A s \in Slaves :
    /\ exp[s].cCrc[exp[s].cur] = Wanted(s)
    /\ dev[s].alive /\ ~dev[s].booted => dev[s].shown = Wanted(s)

(* When no slave is silent, what is commanded is shown in the end and stays *)
(* shown, whatever was lost, late or reset on the way.                      *)
ShowsCommand ==
  <>[](enabled /\ \A s \in Slaves : dev[s].alive)
    => <>[](cmd.type # "msg" => \A s \in Slaves : dev[s].shown = Wanted(s))

(* A slave that has fallen silent is reported off-line: no task starts its  *)
(* supervision anew for ever.                                               *)
SilentIsReported ==
  \A s \in Slaves : <>[](enabled /\ ~dev[s].alive) => <>(sup[s].offline)

(* A message lets go: whatever its entries, once the slaves answer it comes *)
(* back to the point where the next command is loaded.  (The blank frame of *)
(* a fatal error waits for the end of the error.)                           *)
MessageLetsGo ==
  <>[](enabled /\ \A s \in Slaves : dev[s].alive) => []<>(ready \/ Blank)

=============================================================================
