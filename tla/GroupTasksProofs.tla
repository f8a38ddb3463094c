-------------------------- MODULE GroupTasksProofs --------------------------
(***************************************************************************)
(* What the tasks on a group's bus keep, for any number of slaves, any     *)
(* commands and messages, any losses, late answers, resets and new         *)
(* commands.                                                               *)
(*                                                                         *)
(* "Displayed as commanded" is an answer that agrees with what the         *)
(* controller expects, so it is worth what the expectation is worth.  The  *)
(* invariant follows that expectation: what a line of the tasks has set in *)
(* which slot (FrmInv, SlotsInv, with the counters of TaskMsg in           *)
(* CountInv), that it is told to show only a slot set for this command,    *)
(* and that no answer of before is taken for one of after (ShowInv).       *)
(***************************************************************************)
EXTENDS GroupTasks, FiniteSetTheorems, WellFoundedInduction, TLAPS

(* A message of one entry whose onTime is 0 never sets its slot            *)
(* (Group.cpp:584): what is said of the slots is of every other command.   *)
LoneEntry(c) == c.type = "msg" /\ Len(c.entries) = 1 /\ c.entries[1].on = "zero"
Lone == LoneEntry(cmd)

(* Lines of TaskMsg inside a message, and those after its next entry is    *)
(* loaded.                                                                 *)
Playing == {"mFirst", "mDisp", "mDisp2", "mCur", "mLoad", "mSet", "mHold", "mOn", "mDone",
            "mTrans2", "mTransW", "mYield"}
Loaded  == {"mHold", "mOn", "mDone", "mTrans2", "mTransW", "mYield"}

LineInv ==
  /\ task \in {"atf", "atfNext"} => cmd.type = "atf"
  /\ task = "fNext" => cmd.type = "frm" /\ ~Blank
  /\ task \in {"frm", "fDisp2", "fCur"} => cmd.type \in {"frm", "atf"}
  /\ task \in {"nDisp2", "nCur"} => cmd.type = "null"
  /\ task = "msg" => cmd.type \in {"msg", "null"}
  /\ task \in Playing => cmd.type = "msg" /\ msg.max = SetMax(Entries) /\ msg.disp \in 1..Last
  /\ task \in {"mDisp2", "mCur", "mOn"} => Shown(msg.disp)

BlankSlot == \A s \in Slaves : exp[s].cCrc[0] = {} /\ exp[s].nCrc[0] = {}

(* The slot of a frame holds that frame once it was set.                   *)
FrmSlot(s) == exp[s].nCrc[1] = Frame(s)
FrmInv ==
  enabled =>
    /\ task \in {"fNext", "atfNext"} => \A s \in Slaves : FrmSlot(s)
    /\ task = "atf" => \A s \in Slaves \ atf : FrmSlot(s)
    /\ task \in {"fDisp2", "fCur"} /\ ~Blank => \A s \in Slaves : FrmSlot(s)

(* The overlays of a message before entry k.                               *)
Under(e, k) ==
  { e[j].frm : j \in { i \in 1..Len(e)-1 : e[i].on = "zero" /\ i # Len(e) /\ i < k } }

(* The counters: in the first round one entry is set for each on display,  *)
(* and one more once the next is loaded; in the second the same until max. *)
Base == IF msg.again THEN Last ELSE 0
At   == msg.disp + (IF task \in Loaded THEN 1 ELSE 0)
CountInv ==
  /\ task \in Playing /\ ~Lone => msg.or = Under(Entries, msg.set + 1)
  /\ task = "mFirst" => Entries[1].on # "zero" /\ msg.set = 0 /\ msg.disp = 1 /\ ~msg.again
  /\ task \in Playing \ {"mFirst"} =>
       /\ msg.set \in 1..msg.max
       /\ msg.set = Base + At \/ (msg.set = msg.max /\ (msg.again \/ msg.max < At))
       /\ msg.again => Entries[Last].on # "zero"
  /\ task = "mSet" => msg.set < msg.max /\ Shown(Following)
  /\ task \in {"mDone", "mTrans2", "mTransW", "mYield"} /\ msg.disp = Last
       => Entries[Last].on # "zero"
  /\ task = "mYield" => msg.disp = Last

(* The slots of a message: those set in the second round hold all overlays *)
(* under their entry, the others those before it.                          *)
Filled(k) ==
  {Entries[k].frm} \cup Under(Entries, IF k <= msg.set - Last THEN Last ELSE k)
SlotsInv ==
  enabled /\ ~Lone =>
    /\ task = "mFirst" => \A s \in Slaves : exp[s].nCrc[1] = {Entries[1].frm}
    /\ task \in Playing \ {"mFirst"} =>
         \A s \in Slaves : \A k \in 1..Last :
           Shown(k) /\ k <= msg.set /\ ~(task = "mSet" /\ k = Following)
             => exp[s].nCrc[k] = Filled(k)
    /\ task = "mSet" =>
         \A s \in Slaves : exp[s].nCrc[Following] = {Entries[Following].frm} \cup msg.or

(* What the slaves are told to show is what is wanted; an answer that      *)
(* agrees was given after that.                                            *)
Told  == \A s \in Slaves : exp[s].cCrc[exp[s].cur] = Wanted(s)
Sound == \A s \in Slaves :
  rep[s].rx /\ rep[s].stC = 0 /\ dev[s].alive /\ ~dev[s].booted
    => dev[s].shown = exp[s].cCrc[exp[s].cur]
Showing == \/ task \in {"fCur", "nCur", "mCur", "mOn"}
           \/ task \in {"mLoad", "mSet", "mHold"} /\ Shown(msg.disp)
Sending == task \in {"fDisp2", "nDisp2", "mDisp2"}
ShowInv ==
  /\ (Showing \/ Sending) /\ ~Lone => Told
  /\ Showing => Sound

(* A late answer tells what the slave shows still. *)
AirInv ==
  air # None /\ dev[air.s].alive /\ ~dev[air.s].booted => air.st.shown = dev[air.s].shown

IInv == /\ TasksTypeOK /\ LineInv /\ BlankSlot /\ FrmInv /\ CountInv /\ SlotsInv
        /\ ShowInv /\ AirInv

-----------------------------------------------------------------------------
(* Numbers: any set of them below a bound has a greatest and a least.      *)
LEMMA Greatest ==
  ASSUME NEW n \in Nat, NEW S \in SUBSET (1..n), S # {}
  PROVE  \E x \in S : \A y \in S : y <= x
<1> DEFINE C == { x..n : x \in S }
<1>1. IsFiniteSet(1..n)
  BY FS_Interval
<1>2. C \subseteq FiniteSubsetsOf(1..n) /\ C # {}
  <2>1. ASSUME NEW x \in S PROVE x..n \in FiniteSubsetsOf(1..n)
    <3>1. x..n \in SUBSET (1..n)
      OBVIOUS
    <3>2. QED
      BY <1>1, <3>1, FS_Subset DEF FiniteSubsetsOf
  <2>2. QED
    BY <2>1
<1>3. PICK c \in C : \A b \in C : <<b, c>> \notin StrictSubsetOrdering(1..n)
  <2> HIDE DEF C
  <2>1. QED
    BY <1>2, FS_StrictSubsetOrderingWellFounded, WFMin
<1>4. PICK x \in S : c = x..n
  BY <1>3
<1>5. ASSUME NEW y \in S, x < y PROVE FALSE
  <2>1. y..n \subseteq x..n /\ y..n # x..n
    <3>1. x \in x..n /\ x \notin y..n
      BY <1>5
    <3>2. QED
      BY <1>5, <3>1
  <2>2. y..n \in SUBSET (1..n) /\ x..n \in SUBSET (1..n)
    OBVIOUS
  <2>3. <<y..n, c>> \in StrictSubsetOrdering(1..n)
    BY <1>4, <2>1, <2>2 DEF StrictSubsetOrdering
  <2>4. QED
    BY <1>3, <2>3
<1>6. QED
  BY <1>5

(* And a least.                                                            *)
LEMMA Least ==
  ASSUME NEW n \in Nat, NEW S \in SUBSET (1..n), S # {}
  PROVE  \E x \in S : \A y \in S : x <= y
<1> DEFINE T == { n + 1 - y : y \in S }
<1>1. T \in SUBSET (1..n) /\ T # {}
  <2>1. \A y \in S : n + 1 - y \in 1..n
    OBVIOUS
  <2>2. QED
    BY <2>1
<1>2. PICK z \in T : \A y \in T : y <= z
  <2> HIDE DEF T
  <2>1. QED
    BY <1>1, Greatest
<1>3. PICK x \in S : z = n + 1 - x
  BY <1>2
<1>4. ASSUME NEW y \in S PROVE x <= y
  <2>1. n + 1 - y \in T
    OBVIOUS
  <2>2. QED
    BY <1>2, <1>3, <2>1
<1>5. QED
  BY <1>4

(* AllCurrent is 0 only when every slave answered that it is right.        *)
LEMMA FirstZero ==
  ASSUME NEW st \in [Slaves -> Int], First(st) = 0, NEW s \in Slaves
  PROVE  st[s] = 0
<1> SUFFICES ASSUME st[s] # 0 PROVE FALSE
  OBVIOUS
<1> DEFINE Off == { t \in Slaves : st[t] # 0 }
<1>1. PICK x \in Off : \A t \in Off : x <= t
  <2>1. NSlaves \in Nat /\ Off \in SUBSET (1..NSlaves) /\ Off # {}
    BY TaskConstants DEF Slaves
  <2> HIDE DEF Off
  <2>2. QED
    BY <2>1, Least
<1>2. \A t \in 1..x-1 : st[t] = 0
  BY <1>1, TaskConstants DEF Slaves
<1>3. \E y \in Slaves : st[y] # 0 /\ \A t \in 1..y-1 : st[t] = 0
  BY <1>1, <1>2
<1>4. st[CHOOSE y \in Slaves : st[y] # 0 /\ \A t \in 1..y-1 : st[t] = 0] # 0
  BY <1>3
<1>5. QED
  BY <1>4 DEF First

(* So each of them gave an answer, and it agreed.                          *)
LEMMA AllAnswered ==
  ASSUME TasksTypeOK, AllCurrent = 0, NEW s \in Slaves
  PROVE  rep[s].rx /\ rep[s].stC = 0
<1> DEFINE st == [x \in Slaves |-> IF rep[x].rx THEN rep[x].stC ELSE -1]
<1>1. rep \in [Slaves -> [rx : BOOLEAN, stC : 0..3, stN : 0..1]]
  BY DEF TasksTypeOK
<1>2. st \in [Slaves -> Int] /\ First(st) = 0
  BY <1>1 DEF AllCurrent
<1>3. st[s] = 0
  <2> HIDE DEF st
  <2>1. QED
    BY <1>2, FirstZero
<1>4. QED
  BY <1>1, <1>3

-----------------------------------------------------------------------------
(* The rounds of a message, and what the entries of a sequence are.        *)
LEMMA Entry ==
  ASSUME NEW S, NEW e \in Seq(S), NEW k \in 1..Len(e)
  PROVE  e[k] \in S
  OBVIOUS

(* What a command is made of.                                              *)
LEMMA CmdsAre ==
  /\ \A c \in Cmds : c.type = "msg" =>
       Len(c.entries) \in 1..MaxSlot /\ c.entries \in Seq([frm : Frames, on : OnTime])
  /\ \A c \in Cmds : c.type \in {"frm", "atf"} => \A s \in Slaves : c.frm[s] \in Frames \cup {0}
  /\ \A c \in Cmds : c.type \in {"frm", "atf", "null", "msg"}
  BY TaskConstants DEF Cmd

(* What is set again in the second round, and what no longer has to be.    *)
LEMMA SetMaxBounds ==
  ASSUME NEW e, NEW n \in Nat \ {0}, Len(e) = n
  PROVE  /\ SetMax(e) \in n..2*n
         /\ \A k \in 1..n : \A j \in 1..n-1 :
              /\ k > SetMax(e) - n /\ e[n].on # "zero" /\ (k = n \/ e[k].on # "zero")
              /\ e[j].on = "zero"
              => j < k
<1> DEFINE Over == { k \in 1..n-1 : e[k].on = "zero" }
           Late == { k \in Over : \E j \in 1..k-1 : e[j].on # "zero" }
           m == CHOOSE k \in Late : \A j \in Late : j <= k
<1>1. Late # {} => m \in Late /\ \A j \in Late : j <= m
  <2>1. Late \in SUBSET (1..n)
    OBVIOUS
  <2> HIDE DEF Late
  <2>2. QED
    BY <2>1, Greatest
<1>2. SetMax(e) = IF Late = {} \/ e[n].on = "zero" THEN n ELSE n + m - 1
  BY DEF SetMax
<1>3. SetMax(e) \in n..2*n
  <2>1. Late # {} => m \in 1..n-1
    BY <1>1
  <2> HIDE DEF m, Late
  <2>2. QED
    BY <1>2, <2>1
<1>4. ASSUME NEW k \in 1..n, k > SetMax(e) - n, e[n].on # "zero",
             k = n \/ e[k].on # "zero", NEW j \in 1..n-1, e[j].on = "zero", k <= j
      PROVE  FALSE
  <2>1. k # n /\ k < j /\ e[k].on # "zero"
    BY <1>4
  <2>2. j \in Late
    BY <1>4, <2>1
  <2>3. j <= m /\ k > m - 1 /\ m \in Late
    <3>1. Late # {}
      BY <2>2
    <3>2. m \in Late /\ j <= m
      BY <1>1, <2>2, <3>1
    <3> HIDE DEF m
    <3>3. SetMax(e) = n + m - 1
      BY <1>2, <1>4, <3>1 DEF m
    <3>4. QED
      BY <1>4, <3>2, <3>3
  <2>4. QED
    BY <2>1, <2>3
<1>5. QED
  BY <1>3, <1>4

-----------------------------------------------------------------------------
(* What is sent.                                                           *)
Expectation == [cur : Slots, next : Slots, cCrc : [Slots -> Content], nCrc : [Slots -> Content],
                bak : Slots]
Device == [store : [1..MaxSlot -> Content \cup {Erased}], cur : Slots, shown : Content,
           nxt : Slots, alive : BOOLEAN, booted : BOOLEAN]

(* A loss is counted while there are losses left.                          *)
LEMMA OneFault ==
  ASSUME faults \in 0..MaxFaults, NEW L \in Losers
  PROVE  (IF L = {} THEN faults ELSE faults + 1) \in 0..MaxFaults
<1>1. L # {} => faults < MaxFaults
  BY DEF Losers
<1>2. QED
  BY <1>1, TaskConstants

(* A frame that is set changes one slot of what is expected, nothing shown.*)
LEMMA SetFrameDoes ==
  ASSUME TasksTypeOK, NEW T \in SUBSET Slaves, NEW slot \in 1..MaxSlot, NEW content,
         \A s \in T : content[s] \in Content, NEW L \in Losers, SetFrame(T, slot, content, L)
  PROVE  /\ exp' \in [Slaves -> Expectation] /\ dev' \in [Slaves -> Device]
         /\ faults' \in 0..MaxFaults
         /\ \A s \in Slaves :
              /\ exp'[s].cur = exp[s].cur /\ exp'[s].cCrc = exp[s].cCrc
              /\ exp'[s].nCrc = IF enabled /\ s \in T THEN [exp[s].nCrc EXCEPT ![slot] = content[s]]
                                ELSE exp[s].nCrc
              /\ dev'[s].shown = dev[s].shown /\ dev'[s].alive = dev[s].alive
              /\ dev'[s].booted = dev[s].booted
<1>1. /\ exp \in [Slaves -> Expectation] /\ dev \in [Slaves -> Device] /\ faults \in 0..MaxFaults
      /\ slot \in Slots /\ MaxFaults \in Nat
  BY TaskConstants DEF TasksTypeOK, Expectation, Device, Slots
<1>2. ASSUME NEW s \in Slaves
      PROVE  /\ exp'[s] \in Expectation
             /\ exp'[s].cur = exp[s].cur /\ exp'[s].cCrc = exp[s].cCrc
             /\ exp'[s].nCrc = IF enabled /\ s \in T THEN [exp[s].nCrc EXCEPT ![slot] = content[s]]
                               ELSE exp[s].nCrc
  <2>1. exp[s] \in Expectation
    BY <1>1
  <2>2. CASE enabled /\ s \in T
    <3>1. exp'[s] = [exp[s] EXCEPT !.next = slot, !.nCrc[slot] = content[s]]
      BY <2>2 DEF SetFrame
    <3>2. content[s] \in Content
      BY <2>2
    <3> DEFINE n == [exp[s].nCrc EXCEPT ![slot] = content[s]]
    <3>3. n \in [Slots -> Content]
      BY <1>1, <2>1, <3>2 DEF Expectation
    <3>4. exp'[s] = [exp[s] EXCEPT !.next = slot, !.nCrc = n]
      BY <2>1, <3>1 DEF Expectation
    <3> HIDE DEF n
    <3>5. exp'[s] \in Expectation /\ exp'[s].cur = exp[s].cur /\ exp'[s].cCrc = exp[s].cCrc
      BY <1>1, <2>1, <3>3, <3>4 DEF Expectation
    <3>6. exp'[s].nCrc = n
      BY <2>1, <3>4 DEF Expectation
    <3>7. QED
      BY <2>2, <3>5, <3>6 DEF n
  <2>3. CASE ~(enabled /\ s \in T)
    <3>1. exp'[s] = exp[s]
      BY <2>3 DEF SetFrame
    <3>2. QED
      BY <2>1, <2>3, <3>1
  <2>4. QED
    BY <2>2, <2>3
<1>3. ASSUME NEW s \in Slaves
      PROVE  /\ dev'[s] \in Device
             /\ dev'[s].shown = dev[s].shown /\ dev'[s].alive = dev[s].alive
             /\ dev'[s].booted = dev[s].booted
  <2>1. dev[s] \in Device
    BY <1>1
  <2>2. CASE enabled /\ Hears(s, T, L)
    <3>1. dev'[s] = [dev[s] EXCEPT !.store[slot] = content[s], !.nxt = slot]
      BY <2>2 DEF SetFrame
    <3>2. content[s] \in Content
      BY <2>2 DEF Hears
    <3> DEFINE n == [dev[s].store EXCEPT ![slot] = content[s]]
    <3>3. n \in [1..MaxSlot -> Content \cup {Erased}]
      BY <2>1, <3>2 DEF Device
    <3>4. dev'[s] = [dev[s] EXCEPT !.store = n, !.nxt = slot]
      BY <2>1, <3>1 DEF Device
    <3> HIDE DEF n
    <3>5. QED
      BY <1>1, <2>1, <3>3, <3>4 DEF Device
  <2>3. CASE ~(enabled /\ Hears(s, T, L))
    <3>1. dev'[s] = dev[s]
      BY <2>3 DEF SetFrame
    <3>2. QED
      BY <2>1, <3>1
  <2>4. QED
    BY <2>2, <2>3
<1>4. exp' \in [Slaves -> Expectation] /\ dev' \in [Slaves -> Device]
  BY <1>2, <1>3 DEF SetFrame
<1>5. faults' \in 0..MaxFaults
  BY <1>1, OneFault DEF SetFrame
<1>6. QED
  BY <1>2, <1>3, <1>4, <1>5

(* A slave told to show a slot shows what is in it.                        *)
LEMMA ShowsType ==
  ASSUME NEW d \in Device, NEW slot \in Slots
  PROVE  Shows(d, slot) \in Device
<1>1. slot # 0 => slot \in 1..MaxSlot
  BY TaskConstants DEF Slots
<1>2. 0 \in Slots /\ {} \in Content
  BY TaskConstants DEF Slots, Content
<1>3. CASE slot # 0 /\ d.store[slot] # Erased
  <2>1. d.store[slot] \in Content
    BY <1>1, <1>3 DEF Device
  <2>2. Shows(d, slot) = [d EXCEPT !.cur = slot, !.shown = d.store[slot], !.nxt = slot]
    BY <1>3 DEF Shows
  <2>3. QED
    BY <2>1, <2>2 DEF Device
<1>4. CASE slot = 0
  BY <1>2, <1>4 DEF Shows, Device
<1>5. CASE slot # 0 /\ d.store[slot] = Erased
  BY <1>5 DEF Shows
<1>6. QED
  BY <1>3, <1>4, <1>5

(* What the slaves are told to show is what was set in that slot.          *)
LEMMA SDFrameDoes ==
  ASSUME TasksTypeOK, BlankSlot, NEW slot0 \in Slots, NEW bak \in BOOLEAN, NEW L \in Losers,
         SDFrame(slot0, bak, L)
  PROVE  /\ exp' \in [Slaves -> Expectation] /\ dev' \in [Slaves -> Device]
         /\ faults' \in 0..MaxFaults /\ BlankSlot'
         /\ \A s \in Slaves :
              /\ exp'[s].nCrc = exp[s].nCrc
              /\ exp'[s].cCrc[exp'[s].cur] = IF enabled THEN exp[s].nCrc[slot0] ELSE {}
<1> DEFINE slot == IF enabled THEN slot0 ELSE 0
<1>1. /\ exp \in [Slaves -> Expectation] /\ dev \in [Slaves -> Device] /\ faults \in 0..MaxFaults
      /\ slot \in Slots /\ 0 \in Slots /\ MaxFaults \in Nat
  BY TaskConstants DEF TasksTypeOK, Expectation, Device, Slots
<1>2. ASSUME NEW s \in Slaves
      PROVE  /\ exp'[s] \in Expectation
             /\ exp'[s].nCrc = exp[s].nCrc
             /\ exp'[s].cCrc[exp'[s].cur] = IF enabled THEN exp[s].nCrc[slot0] ELSE {}
             /\ exp'[s].cCrc[0] = {} /\ exp'[s].nCrc[0] = {}
  <2> DEFINE x == SDExpect(exp[s], slot)
  <2>1. exp[s] \in Expectation /\ exp[s].cCrc[0] = {} /\ exp[s].nCrc[0] = {}
    BY <1>1 DEF BlankSlot
  <2>2. /\ x \in Expectation /\ x.cur = slot /\ x.nCrc = exp[s].nCrc
        /\ x.cCrc[slot] = exp[s].nCrc[slot] /\ x.cCrc[0] = {}
    <3> HIDE DEF slot
    <3>1. QED
      BY <1>1, <2>1 DEF SDExpect, Expectation
  <2> HIDE DEF x
  <2>3. exp'[s] = IF bak THEN [x EXCEPT !.bak = slot] ELSE x
    BY DEF SDFrame, x
  <2>4. /\ exp'[s] \in Expectation /\ exp'[s].cur = x.cur /\ exp'[s].nCrc = x.nCrc
        /\ exp'[s].cCrc = x.cCrc
    <3> HIDE DEF slot
    <3>1. QED
      BY <1>1, <2>2, <2>3 DEF Expectation
  <2>5. QED
    BY <2>1, <2>2, <2>4
<1>3. ASSUME NEW s \in Slaves PROVE dev'[s] \in Device
  BY <1>1, ShowsType DEF SDFrame
<1>4. exp' \in [Slaves -> Expectation] /\ dev' \in [Slaves -> Device]
  BY <1>2, <1>3 DEF SDFrame
<1>5. faults' \in 0..MaxFaults
  BY <1>1, OneFault DEF SDFrame
<1>6. QED
  BY <1>2, <1>4, <1>5 DEF BlankSlot

(* What the controller makes of a slave.                                   *)
Reply == [rx : BOOLEAN, stC : 0..3, stN : 0..1]
Supervision == [noRpl : Timer, crcTmr : Timer, offline : BOOLEAN, crcErr : BOOLEAN]

(* A reset of the polling forgets every answer.                            *)
LEMMA ResetDoes ==
  ASSUME TasksTypeOK, RqstReset
  PROVE  /\ rep' \in [Slaves -> Reply] /\ sup' \in [Slaves -> Supervision]
         /\ rq' \in [i : 1..NSlaves+1, asked : BOOLEAN]
         /\ \A s \in Slaves : ~rep'[s].rx
<1>1. rep \in [Slaves -> Reply] /\ sup \in [Slaves -> Supervision]
  BY DEF TasksTypeOK, Reply, Supervision
<1>2. ASSUME NEW s \in Slaves PROVE rep'[s] \in Reply /\ ~rep'[s].rx
  BY <1>1 DEF RqstReset, Reply
<1>3. ASSUME NEW s \in Slaves PROVE sup'[s] \in Supervision
  BY <1>1 DEF RqstReset, Supervision, Timer
<1>4. rq' \in [i : 1..NSlaves+1, asked : BOOLEAN]
  <2>1. rq' = [i |-> 1, asked |-> FALSE]
    BY DEF RqstReset
  <2>2. 1 \in 1..NSlaves+1
    BY TaskConstants
  <2>3. QED
    BY <2>1, <2>2
<1>5. QED
  BY <1>2, <1>3, <1>4 DEF RqstReset

(* An answer that agrees has the content expected of the slot on show.     *)
LEMMA DecodedType ==
  ASSUME NEW x, NEW st
  PROVE  /\ Decoded(x, st) \in Reply
         /\ Decoded(x, st).stC = 0 => x.cCrc[x.cur] = st.shown
<1>1. /\ CheckCurrent(x, st) \in 0..3
      /\ CheckCurrent(x, st) = 0 => x.cCrc[x.cur] = st.shown
  BY DEF CheckCurrent
<1>2. CheckNext(x, st) \in 0..1
  BY DEF CheckNext
<1>3. QED
  BY <1>1, <1>2 DEF Decoded, Reply

(* The judgement of an answer changes the supervision only.                *)
LEMMA JudgedType ==
  ASSUME NEW r, NEW u \in Supervision
  PROVE  Judged(r, u) \in Supervision
  BY DEF Judged, Supervision, Timer

(* A poll: an answer that agrees tells what the slave shows.               *)
LEMMA RqstDoes ==
  ASSUME TasksTypeOK, NEW i \in 1..NSlaves+1, NEW sp \in [Slaves -> Supervision], Rqst(i, sp)
  PROVE  /\ dev' \in [Slaves -> Device] /\ rep' \in [Slaves -> Reply]
         /\ sup' \in [Slaves -> Supervision] /\ rq' \in [i : 1..NSlaves+1, asked : BOOLEAN]
         /\ faults' \in 0..MaxFaults /\ (air' = None \/ air'.s \in Slaves)
         /\ \A s \in Slaves : dev'[s].shown = dev[s].shown /\ dev'[s].alive = dev[s].alive
         /\ \A s \in Slaves :
              \/ rep'[s] = rep[s] /\ dev'[s] = dev[s]
              \/ rep'[s].rx /\ rep'[s].stC = 0 => dev[s].shown = exp[s].cCrc[exp[s].cur]
         /\ AirInv'
<1>1. /\ dev \in [Slaves -> Device] /\ rep \in [Slaves -> Reply] /\ faults \in 0..MaxFaults
      /\ MaxFaults \in Nat /\ NSlaves \in Nat
  BY TaskConstants DEF TasksTypeOK, Device, Reply
<1>2. rq' \in [i : 1..NSlaves+1, asked : BOOLEAN]
  <2>1. rq' = [i |-> i, asked |-> TRUE]
    BY DEF Rqst
  <2>2. QED
    BY <2>1
<1>3. CASE i > NSlaves
  BY <1>1, <1>2, <1>3 DEF Rqst, AirInv, None
<1>4. CASE ~(i > NSlaves)
  <2> DEFINE st == Status(dev[i])
             begun == [sp EXCEPT ![i].noRpl = IF @ = "clear" THEN "running" ELSE @]
             Answers == /\ rep' = [rep EXCEPT ![i] = Decoded(exp[i], st)]
                        /\ sup' = [begun EXCEPT ![i].noRpl = "clear"]
                        /\ dev' = [dev EXCEPT ![i].booted = FALSE]
                        /\ air' = None /\ UNCHANGED faults
             Misses == /\ dev[i].alive => faults < MaxFaults
                       /\ rep' = [rep EXCEPT ![i].rx = FALSE]
                       /\ sup' = begun
                       /\ faults' = IF dev[i].alive THEN faults + 1 ELSE faults
                       /\ air' \in {None, [s |-> i, st |-> st]}
                       /\ UNCHANGED dev
  <2>1. i \in Slaves
    BY <1>1, <1>4 DEF Slaves
  <2>2. Answers \/ Misses
    BY <1>4 DEF Rqst
  <2>3. begun \in [Slaves -> Supervision]
    <3>1. sp[i] \in Supervision
      BY <2>1
    <3>2. [sp[i] EXCEPT !.noRpl = IF @ = "clear" THEN "running" ELSE @] \in Supervision
      BY <3>1 DEF Supervision, Timer
    <3>3. QED
      BY <2>1, <3>2 DEF Supervision
  <2>4. st.shown = dev[i].shown
    BY DEF Status
  <2>5. CASE Answers
    <3> HIDE DEF st, begun
    <3>1. sup' \in [Slaves -> Supervision]
      <4>1. begun[i] \in Supervision
        BY <2>1, <2>3
      <4>2. [begun[i] EXCEPT !.noRpl = "clear"] \in Supervision
        BY <4>1 DEF Supervision, Timer
      <4>3. QED
        BY <2>1, <2>3, <2>5, <4>2
    <3>2. rep' \in [Slaves -> Reply]
      BY <1>1, <2>1, <2>5, DecodedType
    <3>3. dev' \in [Slaves -> Device]
      <4>1. [dev[i] EXCEPT !.booted = FALSE] \in Device
        BY <1>1, <2>1 DEF Device
      <4>2. QED
        BY <1>1, <2>1, <2>5, <4>1
    <3>4. ASSUME NEW s \in Slaves
          PROVE  /\ dev'[s].shown = dev[s].shown /\ dev'[s].alive = dev[s].alive
                 /\ \/ rep'[s] = rep[s] /\ dev'[s] = dev[s]
                    \/ rep'[s].rx /\ rep'[s].stC = 0 => dev[s].shown = exp[s].cCrc[exp[s].cur]
      <4>1. CASE s = i
        <5>1. rep'[i] = Decoded(exp[i], st) /\ dev'[i] = [dev[i] EXCEPT !.booted = FALSE]
          BY <1>1, <2>1, <2>5
        <5>2. QED
          BY <1>1, <2>4, <4>1, <5>1, DecodedType DEF Device
      <4>2. CASE s # i
        BY <1>1, <2>5, <4>2
      <4>3. QED
        BY <4>1, <4>2
    <3>5. AirInv' /\ air' = None /\ faults' = faults
      BY <2>5 DEF AirInv
    <3>6. QED
      BY <1>1, <1>2, <3>1, <3>2, <3>3, <3>4, <3>5
  <2>6. CASE Misses
    <3> HIDE DEF st, begun
    <3>1. rep' \in [Slaves -> Reply] /\ \A s \in Slaves : rep'[s] = rep[s] \/ ~rep'[s].rx
      <4>1. [rep[i] EXCEPT !.rx = FALSE] \in Reply /\ ~[rep[i] EXCEPT !.rx = FALSE].rx
        BY <1>1, <2>1 DEF Reply
      <4>2. QED
        BY <1>1, <2>1, <2>6, <4>1
    <3>2. faults' \in 0..MaxFaults
      BY <1>1, <2>6
    <3>3. AirInv' /\ (air' = None \/ air'.s \in Slaves)
      <4>1. CASE air' = None
        BY <4>1 DEF AirInv
      <4>2. CASE air' = [s |-> i, st |-> st]
        BY <2>1, <2>4, <2>6, <4>2 DEF AirInv
      <4>3. QED
        BY <2>6, <4>1, <4>2
    <3>4. QED
      BY <1>1, <1>2, <2>3, <2>6, <3>1, <3>2, <3>3
  <2>7. QED
    BY <2>2, <2>5, <2>6
<1>5. QED
  BY <1>3, <1>4

-----------------------------------------------------------------------------
(* The types.                                                              *)
Counters == [set : 0..2*MaxSlot, max : 0..2*MaxSlot, disp : 1..MaxSlot, err : 0..3,
             or : Content, again : BOOLEAN]

(* The records of the type invariant under their names.                    *)
LEMMA Typed ==
  ASSUME TasksTypeOK
  PROVE  /\ dev \in [Slaves -> Device] /\ exp \in [Slaves -> Expectation]
         /\ rep \in [Slaves -> Reply] /\ sup \in [Slaves -> Supervision]
         /\ msg \in Counters
  BY DEF TasksTypeOK, Device, Expectation, Reply, Supervision, Counters

(* And back, after a step.                                                 *)
LEMMA NowTyped ==
  ASSUME dev' \in [Slaves -> Device], exp' \in [Slaves -> Expectation],
         rep' \in [Slaves -> Reply], sup' \in [Slaves -> Supervision],
         cmd' \in Cmds, task' \in Urgent \cup Waits, atf' \subseteq Slaves, msg' \in Counters,
         ready' \in BOOLEAN, enabled' \in BOOLEAN,
         rq' \in [i : 1..NSlaves+1, asked : BOOLEAN], air' = None \/ air'.s \in Slaves,
         faults' \in 0..MaxFaults, loads' \in 0..MaxLoads
  PROVE  TasksTypeOK'
  BY DEF TasksTypeOK, Device, Expectation, Reply, Supervision, Counters

(* What the current command and the counters may hold.                     *)
LEMMA Contents ==
  ASSUME TasksTypeOK, LineInv
  PROVE  /\ cmd.type = "msg" =>
              /\ Last \in 1..MaxSlot /\ Last \in Nat \ {0}
              /\ \A k \in 1..Last : Entries[k].frm \in Frames /\ Entries[k].on \in OnTime
              /\ SetMax(Entries) \in Last..2*Last
              /\ SetMax(Entries) \in 0..2*MaxSlot
              /\ \A k \in Nat : Under(Entries, k) \in Content
         /\ cmd.type \in {"frm", "atf"} => \A s \in Slaves : Frame(s) \in Content
         /\ task \in Playing => Following \in 1..Last
<1>1. cmd \in Cmds /\ MaxSlot \in Nat
  BY TaskConstants DEF TasksTypeOK
<1>2. CASE cmd.type = "msg"
  <2>1. Last \in 1..MaxSlot /\ Entries \in Seq([frm : Frames, on : OnTime])
    BY <1>1, <1>2, CmdsAre DEF Last, Entries
  <2>2. Last \in Nat \ {0} /\ Len(Entries) = Last
    BY <1>1, <2>1 DEF Last
  <2>3. \A k \in 1..Last : Entries[k].frm \in Frames /\ Entries[k].on \in OnTime
    <3>1. \A k \in 1..Len(Entries) : Entries[k] \in [frm : Frames, on : OnTime]
      BY <2>1, Entry
    <3>2. QED
      BY <2>2, <3>1
  <2>4. SetMax(Entries) \in Last..2*Last
    BY <2>2, SetMaxBounds
  <2>5. SetMax(Entries) \in 0..2*MaxSlot
    BY <1>1, <2>1, <2>4
  <2>6. \A k \in Nat : Under(Entries, k) \in Content
    BY <2>2, <2>3 DEF Under, Content
  <2>7. task \in Playing => Following \in 1..Last
    <3>1. task \in Playing => msg.disp \in 1..Last
      BY DEF LineInv
    <3>2. QED
      BY <2>2, <3>1 DEF Following
  <2>8. QED
    BY <1>2, <2>1, <2>2, <2>3, <2>4, <2>5, <2>6, <2>7
<1>3. CASE cmd.type # "msg"
  <2>1. task \notin Playing
    BY <1>3 DEF LineInv
  <2>2. QED
    BY <1>1, <1>3, <2>1, CmdsAre DEF Frame, Content
<1>4. QED
  BY <1>2, <1>3

(* Every action of the display tasks keeps the types.                      *)
LEMMA TypeGoesOn ==
  ASSUME IInv, GoesOn
  PROVE  TasksTypeOK'
<1>1. TasksTypeOK /\ LineInv /\ CountInv /\ BlankSlot
  BY DEF IInv
<1>2. /\ dev \in [Slaves -> Device] /\ exp \in [Slaves -> Expectation]
      /\ rep \in [Slaves -> Reply] /\ sup \in [Slaves -> Supervision]
      /\ msg \in Counters
  BY <1>1, Typed
<1>3. /\ cmd \in Cmds /\ task \in Urgent \cup Waits /\ atf \subseteq Slaves
      /\ ready \in BOOLEAN /\ enabled \in BOOLEAN
      /\ rq \in [i : 1..NSlaves+1, asked : BOOLEAN] /\ (air = None \/ air.s \in Slaves)
      /\ faults \in 0..MaxFaults /\ loads \in 0..MaxLoads
  BY <1>1 DEF TasksTypeOK
<1>4. /\ 0 \in Slots /\ 1 \in Slots /\ 1 \in 1..MaxSlot
      /\ 1..MaxSlot \subseteq Slots /\ MaxSlot \in Nat
  BY TaskConstants DEF Slots
<1>5. task \in Playing => msg.disp \in 1..Last
  BY <1>1 DEF LineInv
<1>6. CASE FrmSet
  <2> DEFINE c == [s \in Slaves |-> Frame(s)]
  <2>1. PICK L \in Losers : SetFrame(Slaves, 1, c, L)
    BY <1>6 DEF FrmSet
  <2>2. 1 \in 1..MaxSlot /\ \A s \in Slaves : c[s] \in Content
    BY <1>1, <1>4, <1>6, Contents DEF FrmSet
  <2>3. exp' \in [Slaves -> Expectation] /\ dev' \in [Slaves -> Device] /\ faults' \in 0..MaxFaults
    BY <1>1, <2>1, <2>2, SetFrameDoes
  <2>4. /\ rep' \in [Slaves -> Reply] /\ sup' \in [Slaves -> Supervision]
        /\ rq' \in [i : 1..NSlaves+1, asked : BOOLEAN]
    BY <1>1, <1>6, ResetDoes DEF FrmSet
  <2>6. QED
    BY <1>2, <1>3, <1>6, <2>3, <2>4, NowTyped DEF FrmSet, Urgent, Waits
<1>7. CASE AtfBegin
  BY <1>2, <1>3, <1>7, NowTyped DEF AtfBegin, Urgent, Waits
<1>8. CASE AtfSet
  <2> DEFINE c == [s \in Slaves |-> Frame(s)]
             x == CHOOSE y \in atf : \A z \in atf : y <= z
  <2>1. PICK L \in Losers : SetFrame({x}, 1, c, L)
    BY <1>8 DEF AtfSet
  <2>2. 1 \in 1..MaxSlot /\ {x} \in SUBSET Slaves /\ \A s \in Slaves : c[s] \in Content
    <3>1. x \in atf
      <4>1. \E y \in atf : \A z \in atf : y <= z
        BY <1>3, <1>8, Least, TaskConstants DEF AtfSet, Slaves
      <4>2. QED
        BY <4>1
    <3>2. cmd.type = "atf"
      BY <1>1, <1>8 DEF AtfSet, LineInv
    <3>3. QED
      BY <1>1, <1>3, <1>4, <3>1, <3>2, Contents
  <2>3. exp' \in [Slaves -> Expectation] /\ dev' \in [Slaves -> Device] /\ faults' \in 0..MaxFaults
    BY <1>1, <2>1, <2>2, SetFrameDoes
  <2>6. QED
    BY <1>2, <1>3, <1>8, <2>3, NowTyped DEF AtfSet
<1>9. CASE AtfAsk
  BY <1>1, <1>2, <1>3, <1>9, ResetDoes, NowTyped DEF AtfAsk, Urgent, Waits
<1>10. CASE AtfAgain
  BY <1>2, <1>3, <1>10, NowTyped DEF AtfAgain, Urgent, Waits
<1>11. CASE FrmDisp
  <2>1. PICK L \in Losers : SDFrame(IF Blank THEN 0 ELSE 1, FALSE, L)
    BY <1>11 DEF FrmDisp
  <2>2. (IF Blank THEN 0 ELSE 1) \in Slots
    BY <1>4
  <2>3. exp' \in [Slaves -> Expectation] /\ dev' \in [Slaves -> Device] /\ faults' \in 0..MaxFaults
    BY <1>1, <2>1, <2>2, SDFrameDoes
  <2>6. QED
    BY <1>2, <1>3, <1>11, <2>3, NowTyped DEF FrmDisp, Urgent, Waits
<1>12. CASE FrmDisp2
  <2>1. PICK L \in Losers : SDFrame(IF Blank THEN 0 ELSE 1, TRUE, L)
    BY <1>12 DEF FrmDisp2
  <2>2. (IF Blank THEN 0 ELSE 1) \in Slots
    BY <1>4
  <2>3. exp' \in [Slaves -> Expectation] /\ dev' \in [Slaves -> Device] /\ faults' \in 0..MaxFaults
    BY <1>1, <2>1, <2>2, SDFrameDoes
  <2>4. /\ rep' \in [Slaves -> Reply] /\ sup' \in [Slaves -> Supervision]
        /\ rq' \in [i : 1..NSlaves+1, asked : BOOLEAN]
    BY <1>1, <1>12, ResetDoes DEF FrmDisp2
  <2>6. QED
    BY <1>2, <1>3, <1>12, <2>3, <2>4, NowTyped DEF FrmDisp2, Urgent, Waits
<1>13. CASE MsgBegin
  <2>1. cmd.type = "msg"
    BY <1>13 DEF MsgBegin
  <2>2. 1 \in 1..Last /\ Entries[1].frm \in Frames /\ SetMax(Entries) \in 0..2*MaxSlot
    BY <1>1, <2>1, Contents
  <2>3. msg' = [set |-> 1, max |-> SetMax(Entries), disp |-> 1, err |-> 0,
                or |-> {Entries[1].frm}, again |-> FALSE]
    BY <1>13 DEF MsgBegin
  <2>4. 1 \in 0..2*MaxSlot
    BY <1>4
  <2>5. msg' \in Counters
    BY <1>4, <2>2, <2>3, <2>4 DEF Counters, Content
  <2>6. QED
    BY <1>2, <1>3, <1>13, <2>5, NowTyped DEF MsgBegin, Urgent, Waits
<1>14. CASE MsgFirst
  <2> DEFINE c == [s \in Slaves |-> {Entries[1].frm}]
  <2>1. PICK L \in Losers : SetFrame(Slaves, 1, c, L)
    BY <1>14 DEF MsgFirst
  <2>2. 1 \in 1..MaxSlot /\ \A s \in Slaves : c[s] \in Content
    <3>1. cmd.type = "msg"
      BY <1>14 DEF MsgFirst
    <3>2. 1 \in 1..Last /\ Entries[1].frm \in Frames
      BY <1>1, <3>1, Contents
    <3>3. QED
      BY <1>4, <3>2 DEF Content
  <2>3. exp' \in [Slaves -> Expectation] /\ dev' \in [Slaves -> Device] /\ faults' \in 0..MaxFaults
    BY <1>1, <2>1, <2>2, SetFrameDoes
  <2>4. /\ rep' \in [Slaves -> Reply] /\ sup' \in [Slaves -> Supervision]
        /\ rq' \in [i : 1..NSlaves+1, asked : BOOLEAN]
    BY <1>1, <1>14, ResetDoes DEF MsgFirst
  <2>5. msg' \in Counters
    <3>1. cmd.type = "msg"
      BY <1>14 DEF MsgFirst
    <3>2. SetMax(Entries) \in 0..2*MaxSlot
      BY <1>1, <3>1, Contents
    <3>3. msg' = [set |-> 0, max |-> SetMax(Entries), disp |-> 1, err |-> 0, or |-> {},
                  again |-> FALSE]
      BY <1>14 DEF MsgFirst
    <3>4. 0 \in 0..2*MaxSlot
      BY <1>4
    <3>5. QED
      BY <1>4, <3>2, <3>3, <3>4 DEF Counters, Content
  <2>6. QED
    BY <1>2, <1>3, <1>14, <2>3, <2>4, <2>5, NowTyped DEF MsgFirst, Urgent, Waits
<1>15. CASE MsgFirstSet
  <2>1. 1 \in 0..2*MaxSlot
    BY <1>4
  <2>2. msg' = [msg EXCEPT !.set = 1]
    BY <1>15 DEF MsgFirstSet
  <2>3. msg' \in Counters
    BY <1>2, <2>1, <2>2 DEF Counters
  <2>4. QED
    BY <1>2, <1>3, <1>15, <2>3, NowTyped DEF MsgFirstSet, Urgent, Waits
<1>16. CASE MsgSkip
  BY <1>2, <1>3, <1>16, NowTyped DEF MsgSkip, Urgent, Waits
<1>17. CASE MsgDisp
  <2>1. PICK L \in Losers : SDFrame(msg.disp, FALSE, L)
    BY <1>17 DEF MsgDisp
  <2>2. msg.disp \in Slots
    BY <1>2, <1>4 DEF Counters
  <2>3. exp' \in [Slaves -> Expectation] /\ dev' \in [Slaves -> Device] /\ faults' \in 0..MaxFaults
    BY <1>1, <2>1, <2>2, SDFrameDoes
  <2>5. msg' \in Counters /\ ready' \in BOOLEAN
    <3>1. CASE task = "mDisp"
      BY <1>2, <1>3, <1>17, <3>1 DEF MsgDisp, Counters, Retry
    <3>2. CASE task = "mCur"
      <4>1. CASE AllCurrent = 3
        <5>1. msg.err + 1 \in 0..3 /\ ready' = ready /\ msg' = [msg EXCEPT !.err = @ + 1]
          BY <1>2, <1>17, <3>2, <4>1 DEF MsgDisp, Counters
        <5>2. QED
          BY <1>2, <1>3, <5>1 DEF Counters
      <4>2. CASE AllCurrent # 3
        <5>1. ready' = ready /\ msg' = [msg EXCEPT !.err = @]
          BY <1>17, <3>2, <4>2 DEF MsgDisp
        <5>2. QED
          BY <1>2, <1>3, <5>1 DEF Counters
      <4>3. QED
        BY <4>1, <4>2
    <3>3. QED
      BY <1>17, <3>1, <3>2 DEF MsgDisp, Retry
  <2>6. QED
    BY <1>2, <1>3, <1>17, <2>3, <2>5, NowTyped DEF MsgDisp, Urgent, Waits
<1>18. CASE MsgDisp2
  <2>1. PICK L \in Losers : SDFrame(msg.disp, FALSE, L)
    BY <1>18 DEF MsgDisp2
  <2>2. msg.disp \in Slots
    BY <1>2, <1>4 DEF Counters
  <2>3. exp' \in [Slaves -> Expectation] /\ dev' \in [Slaves -> Device] /\ faults' \in 0..MaxFaults
    BY <1>1, <2>1, <2>2, SDFrameDoes
  <2>4. /\ rep' \in [Slaves -> Reply] /\ sup' \in [Slaves -> Supervision]
        /\ rq' \in [i : 1..NSlaves+1, asked : BOOLEAN]
    BY <1>1, <1>18, ResetDoes DEF MsgDisp2
  <2>6. QED
    BY <1>2, <1>3, <1>18, <2>3, <2>4, NowTyped DEF MsgDisp2, Urgent, Waits
<1>19. CASE MsgShown
  <2>1. msg' \in Counters
    <3>1. CASE AllCurrent = 3
      <4>1. msg.err + 1 \in 0..3 /\ msg' = [msg EXCEPT !.err = @ + 1]
        BY <1>2, <1>19, <3>1 DEF MsgShown, Counters
      <4>2. QED
        BY <1>2, <4>1 DEF Counters
    <3>2. CASE AllCurrent # 3
      <4>1. msg' = [msg EXCEPT !.err = @]
        BY <1>19, <3>2 DEF MsgShown
      <4>2. QED
        BY <1>2, <4>1 DEF Counters
    <3>3. QED
      BY <3>1, <3>2
  <2>2. exp' \in [Slaves -> Expectation]
    <3>1. ASSUME NEW s \in Slaves
          PROVE  (IF AllCurrent = 0 THEN [exp[s] EXCEPT !.bak = exp[s].cur] ELSE exp[s])
                   \in Expectation
      BY <1>2 DEF Expectation
    <3>2. QED
      BY <1>19, <3>1 DEF MsgShown
  <2>3. QED
    BY <1>2, <1>3, <1>19, <2>1, <2>2, NowTyped DEF MsgShown, Urgent, Waits
<1>20. CASE MsgRestart
  BY <1>2, <1>3, <1>20, NowTyped DEF MsgRestart, Urgent, Waits
<1>21. CASE MsgLay
  <2>1. task \in Playing \ {"mFirst"}
    BY <1>21 DEF MsgLay, Playing
  <2>2. cmd.type = "msg"
    BY <1>1, <2>1 DEF LineInv
  <2>3. Following \in 1..Last /\ Entries[Following].frm \in Frames
    BY <1>1, <2>1, <2>2, Contents
  <2>4. msg.set \in 1..msg.max
    BY <1>1, <2>1 DEF CountInv
  <2>5. msg' \in Counters
    <3>1. CASE msg.set = msg.max
      BY <1>2, <1>21, <3>1 DEF MsgLay
    <3>2. CASE msg.set # msg.max
      <4> DEFINE or2 == IF msg.set < Last THEN msg.or \cup {Entries[Following].frm} ELSE msg.or
      <4>1. msg.set + 1 \in 0..2*MaxSlot
        BY <1>2, <1>4, <2>4, <3>2 DEF Counters
      <4>2. or2 \in Content
        BY <1>2, <2>3 DEF Counters, Content
      <4>3. msg' = [msg EXCEPT !.set = @ + 1, !.or = or2]
        BY <1>21, <3>2 DEF MsgLay
      <4> HIDE DEF or2
      <4>4. QED
        BY <1>2, <4>1, <4>2, <4>3 DEF Counters
    <3>3. QED
      BY <3>1, <3>2
  <2>6. QED
    BY <1>2, <1>3, <1>21, <2>5, NowTyped DEF MsgLay, Urgent, Waits
<1>22. CASE MsgSet
  <2> DEFINE c == [s \in Slaves |-> Lay(Entries[Following].frm)]
  <2>1. PICK L \in Losers : SetFrame(Slaves, Following, c, L)
    BY <1>22 DEF MsgSet
  <2>2. Following \in 1..MaxSlot /\ \A s \in Slaves : c[s] \in Content
    <3>1. task \in Playing
      BY <1>22 DEF MsgSet, Playing
    <3>2. cmd.type = "msg"
      BY <1>1, <3>1 DEF LineInv
    <3>3. Following \in 1..Last /\ Last \in 1..MaxSlot
      BY <1>1, <3>1, <3>2, Contents
    <3>4. Entries[Following].frm \in Frames
      BY <1>1, <3>2, <3>3, Contents
    <3>5. msg.or \in Content
      BY <1>2 DEF Counters
    <3>6. QED
      BY <1>4, <3>3, <3>4, <3>5 DEF Content, Lay
  <2>3. exp' \in [Slaves -> Expectation] /\ dev' \in [Slaves -> Device] /\ faults' \in 0..MaxFaults
    BY <1>1, <2>1, <2>2, SetFrameDoes
  <2>4. /\ rep' \in [Slaves -> Reply] /\ sup' \in [Slaves -> Supervision]
        /\ rq' \in [i : 1..NSlaves+1, asked : BOOLEAN]
    BY <1>1, <1>22, ResetDoes DEF MsgSet
  <2>6. QED
    BY <1>2, <1>3, <1>22, <2>3, <2>4, NowTyped DEF MsgSet, Urgent, Waits
<1>23. CASE MsgIsSet
  <2>1. msg.set < msg.max
    BY <1>1, <1>23 DEF MsgIsSet, CountInv
  <2>2. msg.set + 1 \in 0..2*MaxSlot
    BY <1>2, <1>4, <2>1 DEF Counters
  <2>3. msg' \in Counters
    BY <1>2, <1>23, <2>2 DEF MsgIsSet, Counters
  <2>4. QED
    BY <1>2, <1>3, <1>23, <2>3, NowTyped DEF MsgIsSet, Urgent, Waits
<1>24. CASE MsgHold
  BY <1>2, <1>3, <1>24, NowTyped DEF MsgHold, Urgent, Waits
<1>25. CASE MsgLost
  BY <1>2, <1>3, <1>25, NowTyped DEF MsgLost, Urgent, Waits
<1>26. CASE MsgOver
  BY <1>2, <1>3, <1>26, NowTyped DEF MsgOver, Urgent, Waits
<1>27. CASE MsgTrans
  <2>1. PICK L \in Losers : SDFrame(0, FALSE, L)
    BY <1>27 DEF MsgTrans
  <2>2. 0 \in Slots
    BY <1>4
  <2>3. exp' \in [Slaves -> Expectation] /\ dev' \in [Slaves -> Device] /\ faults' \in 0..MaxFaults
    BY <1>1, <2>1, <2>2, SDFrameDoes
  <2>6. QED
    BY <1>2, <1>3, <1>27, <2>3, NowTyped DEF MsgTrans, Urgent, Waits
<1>28. CASE MsgTrans2
  <2>1. PICK L \in Losers : SDFrame(0, TRUE, L)
    BY <1>28 DEF MsgTrans2
  <2>2. 0 \in Slots
    BY <1>4
  <2>3. exp' \in [Slaves -> Expectation] /\ dev' \in [Slaves -> Device] /\ faults' \in 0..MaxFaults
    BY <1>1, <2>1, <2>2, SDFrameDoes
  <2>4. /\ rep' \in [Slaves -> Reply] /\ sup' \in [Slaves -> Supervision]
        /\ rq' \in [i : 1..NSlaves+1, asked : BOOLEAN]
    BY <1>1, <1>28, ResetDoes DEF MsgTrans2
  <2>6. QED
    BY <1>2, <1>3, <1>28, <2>3, <2>4, NowTyped DEF MsgTrans2, Urgent, Waits
<1>29. CASE MsgDone
  <2>1. task \in Playing
    BY <1>29 DEF MsgDone, Playing
  <2>2. cmd.type = "msg"
    BY <1>1, <2>1 DEF LineInv
  <2>3. Last \in 1..MaxSlot
    BY <1>1, <2>2, Contents
  <2>4. CASE msg.disp = Last
    BY <1>2, <1>3, <1>29, <2>4, NowTyped DEF MsgDone, Urgent, Waits
  <2>5. CASE msg.disp # Last
    <3>1. msg.disp + 1 \in 1..MaxSlot
      BY <1>4, <1>5, <2>1, <2>3, <2>5
    <3>2. msg' = [msg EXCEPT !.disp = @ + 1]
      BY <1>29, <2>5 DEF MsgDone
    <3>3. msg' \in Counters
      BY <1>2, <3>1, <3>2 DEF Counters
    <3>4. QED
      BY <1>2, <1>3, <1>29, <2>5, <3>3, NowTyped DEF MsgDone, Urgent, Waits
  <2>6. QED
    BY <2>4, <2>5
<1>30. CASE MsgRound
  <2>1. msg' \in Counters
    BY <1>2, <1>4, <1>30 DEF MsgRound, Counters
  <2>2. QED
    BY <1>2, <1>3, <1>30, <2>1, NowTyped DEF MsgRound, Urgent, Waits
<1>31. CASE NullDisp
  <2>1. PICK L \in Losers : SDFrame(0, FALSE, L)
    BY <1>31 DEF NullDisp
  <2>2. 0 \in Slots
    BY <1>4
  <2>3. exp' \in [Slaves -> Expectation] /\ dev' \in [Slaves -> Device] /\ faults' \in 0..MaxFaults
    BY <1>1, <2>1, <2>2, SDFrameDoes
  <2>6. QED
    BY <1>2, <1>3, <1>31, <2>3, NowTyped DEF NullDisp, Urgent, Waits
<1>32. CASE NullDisp2
  <2>1. PICK L \in Losers : SDFrame(0, FALSE, L)
    BY <1>32 DEF NullDisp2
  <2>2. 0 \in Slots
    BY <1>4
  <2>3. exp' \in [Slaves -> Expectation] /\ dev' \in [Slaves -> Device] /\ faults' \in 0..MaxFaults
    BY <1>1, <2>1, <2>2, SDFrameDoes
  <2>4. /\ rep' \in [Slaves -> Reply] /\ sup' \in [Slaves -> Supervision]
        /\ rq' \in [i : 1..NSlaves+1, asked : BOOLEAN]
    BY <1>1, <1>32, ResetDoes DEF NullDisp2
  <2>6. QED
    BY <1>2, <1>3, <1>32, <2>3, <2>4, NowTyped DEF NullDisp2, Urgent, Waits
<1>33. QED
    BY <1>6, <1>7, <1>8, <1>9, <1>10, <1>11, <1>12, <1>13, <1>14, <1>15, <1>16, <1>17,
     <1>18, <1>19, <1>20, <1>21, <1>22, <1>23, <1>24, <1>25, <1>26, <1>27, <1>28, <1>29,
     <1>30, <1>31, <1>32 DEF GoesOn

(* A slave that lost its frames is still a slave.                          *)
LEMMA BlankedType ==
  ASSUME NEW d \in Device
  PROVE  Blanked(d) \in Device
<1> DEFINE none == [k \in 1..MaxSlot |-> Erased]
<1>1. none \in [1..MaxSlot -> Content \cup {Erased}]
  OBVIOUS
<1>2. 0 \in Slots /\ {} \in Content
  BY TaskConstants DEF Slots, Content
<1>3. Blanked(d) = [d EXCEPT !.store = none, !.cur = 0, !.shown = {}, !.nxt = 0, !.booted = TRUE]
  BY DEF Blanked
<1> HIDE DEF none
<1>4. QED
  BY <1>1, <1>2, <1>3 DEF Device

(* The next poll is for the next slave, once the last one was judged.      *)
LEMMA NextRqst ==
  ASSUME TasksTypeOK, RqstNext
  PROVE  \E i \in 1..NSlaves+1, sp \in [Slaves -> Supervision] : Rqst(i, sp)
<1> DEFINE i == IF rq.i > NSlaves THEN 1 ELSE rq.i + 1
           sp == IF rq.i > NSlaves THEN sup ELSE [sup EXCEPT ![rq.i] = Judged(rep[rq.i], @)]
<1>1. NSlaves \in Nat /\ rq.i \in 1..NSlaves+1 /\ sup \in [Slaves -> Supervision]
  BY TaskConstants, Typed DEF TasksTypeOK
<1>2. i \in 1..NSlaves+1
  BY <1>1
<1>3. sp \in [Slaves -> Supervision]
  <2>1. CASE rq.i > NSlaves
    BY <1>1, <2>1
  <2>2. CASE ~(rq.i > NSlaves)
    <3>1. rq.i \in Slaves
      BY <1>1, <2>2 DEF Slaves
    <3>2. Judged(rep[rq.i], sup[rq.i]) \in Supervision
      BY <1>1, <3>1, JudgedType
    <3>3. QED
      BY <1>1, <2>2, <3>1, <3>2
  <2>3. QED
    BY <2>1, <2>2
<1>4. Rqst(i, sp)
  BY DEF RqstNext
<1> HIDE DEF i, sp
<1>5. QED
  BY <1>2, <1>3, <1>4

(* And so does every other step.                                           *)
LEMMA TypeStep ==
  ASSUME IInv, Next
  PROVE  TasksTypeOK'
<1>1. TasksTypeOK
  BY DEF IInv
<1>2. /\ dev \in [Slaves -> Device] /\ exp \in [Slaves -> Expectation]
      /\ rep \in [Slaves -> Reply] /\ sup \in [Slaves -> Supervision]
      /\ msg \in Counters
  BY <1>1, Typed
<1>3. /\ cmd \in Cmds /\ task \in Urgent \cup Waits /\ atf \subseteq Slaves
      /\ ready \in BOOLEAN /\ enabled \in BOOLEAN
      /\ rq \in [i : 1..NSlaves+1, asked : BOOLEAN] /\ (air = None \/ air.s \in Slaves)
      /\ faults \in 0..MaxFaults /\ loads \in 0..MaxLoads
  BY <1>1 DEF TasksTypeOK
<1>4. /\ NSlaves \in Nat /\ MaxFaults \in Nat /\ MaxLoads \in Nat
      /\ \A c \in Cmds : TaskOf(c) \in Urgent
  BY TaskConstants DEF TaskOf, Urgent
<1>5. CASE GoesOn
  BY <1>5, TypeGoesOn
<1>6. CASE FrmSync
  BY <1>2, <1>3, <1>6, NowTyped DEF FrmSync
<1>7. CASE MsgLastFrmTmr
  BY <1>2, <1>3, <1>7, NowTyped DEF MsgLastFrmTmr
<1>8. CASE RqstFirst
  <2>1. rq.i \in 1..NSlaves+1 /\ Rqst(rq.i, sup)
    BY <1>3, <1>8 DEF RqstFirst
  <2>2. /\ dev' \in [Slaves -> Device] /\ rep' \in [Slaves -> Reply]
        /\ sup' \in [Slaves -> Supervision] /\ rq' \in [i : 1..NSlaves+1, asked : BOOLEAN]
        /\ faults' \in 0..MaxFaults /\ (air' = None \/ air'.s \in Slaves)
    BY <1>1, <1>2, <2>1, RqstDoes
  <2>3. QED
    BY <1>2, <1>3, <1>8, <2>2, NowTyped DEF RqstFirst
<1>9. CASE RqstNext
  <2>1. PICK i \in 1..NSlaves+1, sp \in [Slaves -> Supervision] : Rqst(i, sp)
    BY <1>1, <1>9, NextRqst
  <2>2. /\ dev' \in [Slaves -> Device] /\ rep' \in [Slaves -> Reply]
        /\ sup' \in [Slaves -> Supervision] /\ rq' \in [i : 1..NSlaves+1, asked : BOOLEAN]
        /\ faults' \in 0..MaxFaults /\ (air' = None \/ air'.s \in Slaves)
    BY <1>1, <2>1, RqstDoes
  <2>3. QED
    BY <1>2, <1>3, <1>9, <2>2, NowTyped DEF RqstNext
<1>10. CASE LateReply
  <2>1. air.s \in Slaves /\ air' = None
    BY <1>3, <1>10 DEF LateReply
  <2>2. rep' \in [Slaves -> Reply]
    BY <1>2, <1>10, <2>1, DecodedType DEF LateReply
  <2>3. sup' \in [Slaves -> Supervision]
    <3>1. [sup[air.s] EXCEPT !.noRpl = "clear"] \in Supervision
      BY <1>2, <2>1 DEF Supervision, Timer
    <3>2. QED
      BY <1>2, <1>10, <2>1, <3>1 DEF LateReply
  <2>4. QED
    BY <1>2, <1>3, <1>10, <2>1, <2>2, <2>3, NowTyped DEF LateReply
<1>11. CASE EnDisDevice
  <2>1. loads' \in 0..MaxLoads /\ task' \in Urgent
    BY <1>3, <1>4, <1>11 DEF EnDisDevice
  <2>2. QED
    BY <1>2, <1>3, <1>11, <2>1, NowTyped DEF EnDisDevice
<1>12. CASE PowerCycle
  <2>1. ASSUME NEW s \in Slaves PROVE Blanked(dev[s]) \in Device
    BY <1>2, BlankedType
  <2>2. dev' \in [Slaves -> Device]
    BY <1>12, <2>1 DEF PowerCycle
  <2>3. /\ rep' \in [Slaves -> Reply] /\ sup' \in [Slaves -> Supervision]
        /\ rq' \in [i : 1..NSlaves+1, asked : BOOLEAN]
    BY <1>1, <1>12, ResetDoes DEF PowerCycle
  <2>4. faults' \in 0..MaxFaults
    BY <1>3, <1>4, <1>12 DEF PowerCycle
  <2>5. QED
    BY <1>2, <1>3, <1>12, <2>2, <2>3, <2>4, NowTyped DEF PowerCycle
<1>13. ASSUME NEW c \in Cmds, Load(c) PROVE TasksTypeOK'
  <2>1. loads' \in 0..MaxLoads /\ task' \in Urgent
    BY <1>3, <1>4, <1>13 DEF Load
  <2>2. QED
    BY <1>2, <1>3, <1>13, <2>1, NowTyped DEF Load
<1>14. ASSUME NEW s \in Slaves, NoRplExpires(s) PROVE TasksTypeOK'
  <2>1. [sup[s] EXCEPT !.noRpl = "expired"] \in Supervision
    BY <1>2 DEF Supervision, Timer
  <2>2. sup' \in [Slaves -> Supervision]
    BY <1>2, <1>14, <2>1 DEF NoRplExpires
  <2>3. QED
    BY <1>2, <1>3, <1>14, <2>2, NowTyped DEF NoRplExpires
<1>15. ASSUME NEW s \in Slaves, CrcExpires(s) PROVE TasksTypeOK'
  <2>1. [sup[s] EXCEPT !.crcTmr = "expired"] \in Supervision
    BY <1>2 DEF Supervision, Timer
  <2>2. sup' \in [Slaves -> Supervision]
    BY <1>2, <1>15, <2>1 DEF CrcExpires
  <2>3. QED
    BY <1>2, <1>3, <1>15, <2>2, NowTyped DEF CrcExpires
<1>16. ASSUME NEW s \in Slaves, SlaveDies(s) PROVE TasksTypeOK'
  <2>1. [dev[s] EXCEPT !.alive = FALSE] \in Device
    BY <1>2 DEF Device
  <2>2. dev' \in [Slaves -> Device]
    BY <1>2, <1>16, <2>1 DEF SlaveDies
  <2>3. faults' \in 0..MaxFaults
    BY <1>3, <1>4, <1>16 DEF SlaveDies
  <2>4. QED
    BY <1>2, <1>3, <1>16, <2>2, <2>3, NowTyped DEF SlaveDies
<1>17. ASSUME NEW s \in Slaves, SlaveResets(s) PROVE TasksTypeOK'
  <2>1. Blanked(dev[s]) \in Device
    BY <1>2, BlankedType
  <2>2. dev' \in [Slaves -> Device]
    BY <1>2, <1>17, <2>1 DEF SlaveResets
  <2>3. faults' \in 0..MaxFaults
    BY <1>3, <1>4, <1>17 DEF SlaveResets
  <2>4. QED
    BY <1>2, <1>3, <1>17, <2>2, <2>3, NowTyped DEF SlaveResets
<1>18. QED
  BY <1>5, <1>6, <1>7, <1>8, <1>9, <1>10, <1>11, <1>12, <1>13, <1>14, <1>15, <1>16, <1>17
     DEF Next, Watches, Poll, Around

-----------------------------------------------------------------------------
(* The lines.  A command begins at the first line of its task.             *)
LEMMA Begins ==
  ASSUME NEW c \in Cmds
  PROVE  /\ TaskOf(c) = "frm" => c.type \in {"frm", "atf"}
         /\ TaskOf(c) = "msg" => c.type \in {"msg", "null"}
         /\ TaskOf(c) \in {"frm", "msg"}
  BY CmdsAre DEF TaskOf

(* Every line is reached for the kind of command it works on.              *)
LEMMA LineStep ==
  ASSUME IInv, Next
  PROVE  LineInv'
<1>1. TasksTypeOK /\ LineInv /\ CountInv
  BY DEF IInv
<1>2. msg \in Counters /\ cmd \in Cmds
  BY <1>1, Typed DEF TasksTypeOK
<1>3. cmd.type = "msg" => Last \in Nat \ {0} /\ 1 \in 1..Last
  BY <1>1, Contents
<1>4. CASE FrmSet
  BY <1>1, <1>2, <1>3, <1>4 DEF LineInv, FrmSet, Blank, IsBlank, Shown, Overlaid, Last,
     Entries, Playing, Step1
<1>5. CASE AtfBegin
  BY <1>1, <1>2, <1>3, <1>5 DEF LineInv, AtfBegin, Blank, IsBlank, Shown, Overlaid,
     Last, Entries, Playing, Step1
<1>6. CASE AtfSet
  BY <1>1, <1>2, <1>3, <1>6 DEF LineInv, AtfSet, Blank, IsBlank, Shown, Overlaid, Last,
     Entries, Playing
<1>7. CASE AtfAsk
  BY <1>1, <1>2, <1>3, <1>7 DEF LineInv, AtfAsk, Blank, IsBlank, Shown, Overlaid, Last,
     Entries, Playing
<1>8. CASE AtfAgain
  BY <1>1, <1>2, <1>3, <1>8 DEF LineInv, AtfAgain, Blank, IsBlank, Shown, Overlaid,
     Last, Entries, Playing
<1>9. CASE FrmDisp
  BY <1>1, <1>2, <1>3, <1>9 DEF LineInv, FrmDisp, Blank, IsBlank, Shown, Overlaid, Last,
     Entries, Playing, Step1
<1>10. CASE FrmDisp2
  BY <1>1, <1>2, <1>3, <1>10 DEF LineInv, FrmDisp2, Blank, IsBlank, Shown, Overlaid,
     Last, Entries, Playing, Step1
<1>11. CASE MsgBegin
  BY <1>1, <1>2, <1>3, <1>11 DEF LineInv, MsgBegin, Blank, IsBlank, Shown, Overlaid,
     Last, Entries, Playing
<1>12. CASE MsgFirst
  BY <1>1, <1>2, <1>3, <1>12 DEF LineInv, MsgFirst, Blank, IsBlank, Shown, Overlaid,
     Last, Entries, Playing
<1>13. CASE MsgFirstSet
  BY <1>1, <1>2, <1>3, <1>13 DEF LineInv, MsgFirstSet, Blank, IsBlank, Shown, Overlaid,
     Last, Entries, Playing, Retry, Counters
<1>14. CASE MsgSkip
  BY <1>1, <1>2, <1>3, <1>14 DEF LineInv, MsgSkip, Blank, IsBlank, Shown, Overlaid,
     Last, Entries, Playing
<1>15. CASE MsgDisp
  BY <1>1, <1>2, <1>3, <1>15 DEF LineInv, MsgDisp, Blank, IsBlank, Shown, Overlaid,
     Last, Entries, Playing, Retry, Counters
<1>16. CASE MsgDisp2
  BY <1>1, <1>2, <1>3, <1>16 DEF LineInv, MsgDisp2, Blank, IsBlank, Shown, Overlaid,
     Last, Entries, Playing
<1>17. CASE MsgShown
  BY <1>1, <1>2, <1>3, <1>17 DEF LineInv, MsgShown, Blank, IsBlank, Shown, Overlaid,
     Last, Entries, Playing, Retry, Counters
<1>18. CASE MsgRestart
  BY <1>1, <1>2, <1>3, <1>18 DEF LineInv, MsgRestart, Blank, IsBlank, Shown, Overlaid,
     Last, Entries, Playing
<1>19. CASE MsgLay
  BY <1>1, <1>2, <1>3, <1>19 DEF LineInv, MsgLay, Blank, IsBlank, Shown, Overlaid, Last,
     Entries, Playing, Retry, Counters
<1>20. CASE MsgSet
  BY <1>1, <1>2, <1>3, <1>20 DEF LineInv, MsgSet, Blank, IsBlank, Shown, Overlaid, Last,
     Entries, Playing
<1>21. CASE MsgIsSet
  BY <1>1, <1>2, <1>3, <1>21 DEF LineInv, MsgIsSet, Blank, IsBlank, Shown, Overlaid,
     Last, Entries, Playing, Retry, Counters
<1>22. CASE MsgHold
  BY <1>1, <1>2, <1>3, <1>22 DEF LineInv, MsgHold, Blank, IsBlank, Shown, Overlaid,
     Last, Entries, Playing
<1>23. CASE MsgLost
  BY <1>1, <1>2, <1>3, <1>23 DEF LineInv, MsgLost, Blank, IsBlank, Shown, Overlaid,
     Last, Entries, Playing
<1>24. CASE MsgOver
  BY <1>1, <1>2, <1>3, <1>24 DEF LineInv, MsgOver, Blank, IsBlank, Shown, Overlaid,
     Last, Entries, Playing
<1>25. CASE MsgTrans
  BY <1>1, <1>2, <1>3, <1>25 DEF LineInv, MsgTrans, Blank, IsBlank, Shown, Overlaid,
     Last, Entries, Playing
<1>26. CASE MsgTrans2
  BY <1>1, <1>2, <1>3, <1>26 DEF LineInv, MsgTrans2, Blank, IsBlank, Shown, Overlaid,
     Last, Entries, Playing
<1>27. CASE MsgDone
  BY <1>1, <1>2, <1>3, <1>27 DEF LineInv, MsgDone, Blank, IsBlank, Shown, Overlaid,
     Last, Entries, Playing, Retry, Counters
<1>28. CASE MsgRound
  BY <1>1, <1>2, <1>3, <1>28 DEF LineInv, MsgRound, Blank, IsBlank, Shown, Overlaid,
     Last, Entries, Playing, Retry, Counters
<1>29. CASE NullDisp
  BY <1>1, <1>2, <1>3, <1>29 DEF LineInv, NullDisp, Blank, IsBlank, Shown, Overlaid,
     Last, Entries, Playing
<1>30. CASE NullDisp2
  BY <1>1, <1>2, <1>3, <1>30 DEF LineInv, NullDisp2, Blank, IsBlank, Shown, Overlaid,
     Last, Entries, Playing
<1>31. CASE FrmSync
  BY <1>1, <1>2, <1>3, <1>31 DEF LineInv, FrmSync, Blank, IsBlank, Shown, Overlaid,
     Last, Entries, Playing, Step1
<1>32. CASE MsgLastFrmTmr
  BY <1>1, <1>2, <1>3, <1>32 DEF LineInv, MsgLastFrmTmr, Blank, IsBlank, Shown,
     Overlaid, Last, Entries, Playing
<1>33. CASE RqstFirst
  BY <1>1, <1>2, <1>3, <1>33 DEF LineInv, RqstFirst, Blank, IsBlank, Shown, Overlaid,
     Last, Entries, Playing
<1>34. CASE RqstNext
  BY <1>1, <1>2, <1>3, <1>34 DEF LineInv, RqstNext, Blank, IsBlank, Shown, Overlaid,
     Last, Entries, Playing
<1>35. CASE LateReply
  BY <1>1, <1>2, <1>3, <1>35 DEF LineInv, LateReply, Blank, IsBlank, Shown, Overlaid,
     Last, Entries, Playing
<1>36. CASE PowerCycle
  BY <1>1, <1>2, <1>3, <1>36 DEF LineInv, PowerCycle, Blank, IsBlank, Shown, Overlaid,
     Last, Entries, Playing
<1>37. CASE EnDisDevice
  BY <1>1, <1>2, <1>3, <1>37, Begins DEF LineInv, EnDisDevice, Blank, IsBlank, Shown,
     Overlaid, Last, Entries, Playing
<1>38. ASSUME NEW c \in Cmds, Load(c) PROVE LineInv'
  BY <1>1, <1>2, <1>3, <1>38, Begins DEF LineInv, Load, Blank, IsBlank, Shown, Overlaid,
     Last, Entries, Playing
<1>39. ASSUME NEW s \in Slaves, NoRplExpires(s) PROVE LineInv'
  BY <1>1, <1>2, <1>3, <1>39 DEF LineInv, NoRplExpires, Blank, IsBlank, Shown, Overlaid,
     Last, Entries, Playing
<1>40. ASSUME NEW s \in Slaves, CrcExpires(s) PROVE LineInv'
  BY <1>1, <1>2, <1>3, <1>40 DEF LineInv, CrcExpires, Blank, IsBlank, Shown, Overlaid,
     Last, Entries, Playing
<1>41. ASSUME NEW s \in Slaves, SlaveDies(s) PROVE LineInv'
  BY <1>1, <1>2, <1>3, <1>41 DEF LineInv, SlaveDies, Blank, IsBlank, Shown, Overlaid,
     Last, Entries, Playing
<1>42. ASSUME NEW s \in Slaves, SlaveResets(s) PROVE LineInv'
  BY <1>1, <1>2, <1>3, <1>42 DEF LineInv, SlaveResets, Blank, IsBlank, Shown, Overlaid,
     Last, Entries, Playing
<1>43. QED
  BY <1>4, <1>5, <1>6, <1>7, <1>8, <1>9, <1>10, <1>11, <1>12, <1>13, <1>14, <1>15,
     <1>16, <1>17, <1>18, <1>19, <1>20, <1>21, <1>22, <1>23, <1>24, <1>25, <1>26, <1>27,
     <1>28, <1>29, <1>30, <1>31, <1>32, <1>33, <1>34, <1>35, <1>36, <1>37, <1>38, <1>39,
     <1>40, <1>41, <1>42 DEF Next, GoesOn, Watches, Poll, Around

-----------------------------------------------------------------------------
(* The slots.  Four actions set one; no other changes what a slot holds,   *)
(* and none changes slot 0.                                                *)
LEMMA SlotsKept ==
  ASSUME IInv, Next
  PROVE  \/ FrmSet \/ AtfSet \/ MsgFirst \/ MsgSet
         \/ BlankSlot' /\ \A s \in Slaves : exp'[s].nCrc = exp[s].nCrc
<1>1. TasksTypeOK /\ LineInv /\ BlankSlot /\ exp \in [Slaves -> Expectation] /\ msg \in Counters
  BY Typed DEF IInv
<1>2. 0 \in Slots /\ 1 \in Slots /\ msg.disp \in Slots
  BY <1>1, TaskConstants DEF Slots, Counters
<1>3. UNCHANGED exp => BlankSlot' /\ \A s \in Slaves : exp'[s].nCrc = exp[s].nCrc
  BY <1>1 DEF BlankSlot
<1>4. ASSUME NEW slot0 \in Slots, NEW bak \in BOOLEAN, NEW L \in Losers, SDFrame(slot0, bak, L)
      PROVE  BlankSlot' /\ \A s \in Slaves : exp'[s].nCrc = exp[s].nCrc
  BY <1>1, <1>4, SDFrameDoes
<1>5. CASE FrmDisp
  BY <1>2, <1>4, <1>5 DEF FrmDisp
<1>6. CASE FrmDisp2
  BY <1>2, <1>4, <1>6 DEF FrmDisp2
<1>7. CASE MsgDisp
  BY <1>2, <1>4, <1>7 DEF MsgDisp
<1>8. CASE MsgDisp2
  BY <1>2, <1>4, <1>8 DEF MsgDisp2
<1>9. CASE MsgTrans
  BY <1>2, <1>4, <1>9 DEF MsgTrans
<1>10. CASE MsgTrans2
  BY <1>2, <1>4, <1>10 DEF MsgTrans2
<1>11. CASE NullDisp
  BY <1>2, <1>4, <1>11 DEF NullDisp
<1>12. CASE NullDisp2
  BY <1>2, <1>4, <1>12 DEF NullDisp2
<1>13. CASE MsgShown
  <2>1. ASSUME NEW s \in Slaves
        PROVE  exp'[s].nCrc = exp[s].nCrc /\ exp'[s].cCrc = exp[s].cCrc
    BY <1>1, <1>13 DEF MsgShown, Expectation
  <2>2. QED
    BY <1>1, <2>1 DEF BlankSlot
<1>14. ASSUME AtfBegin \/ AtfAsk \/ AtfAgain \/ MsgBegin \/ MsgFirstSet \/ MsgSkip \/ MsgRestart \/ MsgLay
             \/ MsgIsSet \/ MsgHold \/ MsgLost \/ MsgOver \/ MsgDone \/ MsgRound
      PROVE  UNCHANGED exp
  BY <1>14 DEF AtfBegin, AtfAsk, AtfAgain, MsgBegin, MsgFirstSet, MsgSkip, MsgRestart,
     MsgLay, MsgIsSet, MsgHold, MsgLost, MsgOver, MsgDone, MsgRound
<1>15. ASSUME Watches \/ Poll \/ Around
      PROVE  UNCHANGED exp
  BY <1>15 DEF Watches, Poll, Around, Load, NoRplExpires, CrcExpires, SlaveDies,
     SlaveResets, FrmSync, MsgLastFrmTmr, RqstFirst, RqstNext, LateReply, EnDisDevice,
     PowerCycle
<1>16. QED
  BY <1>3, <1>5, <1>6, <1>7, <1>8, <1>9, <1>10, <1>11, <1>12, <1>13, <1>14, <1>15 DEF
     Next, GoesOn

(* The four that set one: the slot of a frame, of an atomic frame for one  *)
(* slave, of the first and of the following entry.                         *)
LEMMA SetsSlot ==
  ASSUME IInv
  PROVE  /\ FrmSet => \A s \in Slaves : \A k \in Slots :
              exp'[s].nCrc[k] = IF enabled /\ k = 1 THEN Frame(s) ELSE exp[s].nCrc[k]
         /\ AtfSet => \E x \in atf : atf' = atf \ {x} /\ \A s \in Slaves : \A k \in Slots :
              exp'[s].nCrc[k] = IF enabled /\ s = x /\ k = 1 THEN Frame(s) ELSE exp[s].nCrc[k]
         /\ MsgFirst => \A s \in Slaves : \A k \in Slots :
              exp'[s].nCrc[k] = IF enabled /\ k = 1 THEN {Entries[1].frm} ELSE exp[s].nCrc[k]
         /\ MsgSet => \A s \in Slaves : \A k \in Slots :
              exp'[s].nCrc[k] = IF enabled /\ k = Following THEN Lay(Entries[Following].frm)
                                ELSE exp[s].nCrc[k]
         /\ FrmSet \/ AtfSet \/ MsgFirst \/ MsgSet =>
              /\ BlankSlot'
              /\ \A s \in Slaves : exp'[s].cur = exp[s].cur /\ exp'[s].cCrc = exp[s].cCrc
<1>1. TasksTypeOK /\ LineInv /\ BlankSlot /\ msg \in Counters
  BY Typed DEF IInv
<1>2. 0 \in Slots /\ 1 \in 1..MaxSlot /\ \A k \in 1..MaxSlot : k \in Slots /\ k # 0
  BY TaskConstants DEF Slots
<1>3. ASSUME NEW T \in SUBSET Slaves, NEW slot \in 1..MaxSlot, NEW content,
             \A s \in T : content[s] \in Content, NEW L \in Losers, SetFrame(T, slot, content, L)
      PROVE  /\ \A s \in Slaves : \A k \in Slots : exp'[s].nCrc[k] =
                  IF enabled /\ s \in T /\ k = slot THEN content[s] ELSE exp[s].nCrc[k]
             /\ \A s \in Slaves : exp'[s].cur = exp[s].cur /\ exp'[s].cCrc = exp[s].cCrc
             /\ BlankSlot'
  <2>1. ASSUME NEW s \in Slaves, NEW k \in Slots
        PROVE  exp'[s].nCrc[k] =
                 IF enabled /\ s \in T /\ k = slot THEN content[s] ELSE exp[s].nCrc[k]
    <3>1. exp[s] \in Expectation
      BY <1>1, Typed
    <3>2. exp'[s].nCrc = IF enabled /\ s \in T THEN [exp[s].nCrc EXCEPT ![slot] = content[s]]
                        ELSE exp[s].nCrc
      BY <1>1, <1>3, SetFrameDoes
    <3>3. QED
      BY <3>1, <3>2 DEF Expectation
  <2>2. \A s \in Slaves : exp'[s].cur = exp[s].cur /\ exp'[s].cCrc = exp[s].cCrc
    BY <1>1, <1>3, SetFrameDoes
  <2>3. QED
    BY <1>1, <1>2, <2>1, <2>2 DEF BlankSlot
<1>4. CASE FrmSet
  <2> DEFINE c == [s \in Slaves |-> Frame(s)]
  <2>1. PICK L \in Losers : SetFrame(Slaves, 1, c, L)
    BY <1>4 DEF FrmSet
  <2>2. \A s \in Slaves : c[s] \in Content /\ c[s] = Frame(s)
    BY <1>1, <1>4, Contents DEF FrmSet
  <2> HIDE DEF c
  <2>3. /\ \A s \in Slaves : \A k \in Slots : exp'[s].nCrc[k] =
             IF enabled /\ s \in Slaves /\ k = 1 THEN c[s] ELSE exp[s].nCrc[k]
        /\ \A s \in Slaves : exp'[s].cur = exp[s].cur /\ exp'[s].cCrc = exp[s].cCrc
        /\ BlankSlot'
    BY <1>2, <1>3, <2>1, <2>2
  <2>4. ~AtfSet /\ ~MsgFirst /\ ~MsgSet
    BY <1>4 DEF FrmSet, AtfSet, MsgFirst, MsgSet, Step1
  <2>5. QED
    BY <2>2, <2>3, <2>4
<1>5. CASE AtfSet
  <2> DEFINE c == [s \in Slaves |-> Frame(s)]
             x == CHOOSE y \in atf : \A z \in atf : y <= z
  <2>1. PICK L \in Losers : SetFrame({x}, 1, c, L) /\ atf' = atf \ {x}
    BY <1>5 DEF AtfSet
  <2>2. x \in atf /\ x \in Slaves
    <3>1. atf \in SUBSET (1..NSlaves) /\ atf # {} /\ NSlaves \in Nat
      BY <1>1, <1>5, TaskConstants DEF AtfSet, Slaves, TasksTypeOK
    <3>2. \E y \in atf : \A z \in atf : y <= z
      BY <3>1, Least
    <3>3. QED
      BY <3>1, <3>2 DEF Slaves
  <2>3. \A s \in Slaves : c[s] \in Content /\ c[s] = Frame(s)
    <3>1. cmd.type = "atf"
      BY <1>1, <1>5 DEF AtfSet, LineInv
    <3>2. QED
      BY <1>1, <3>1, Contents
  <2> HIDE DEF c, x
  <2>4. /\ \A s \in Slaves : \A k \in Slots : exp'[s].nCrc[k] =
             IF enabled /\ s \in {x} /\ k = 1 THEN c[s] ELSE exp[s].nCrc[k]
        /\ \A s \in Slaves : exp'[s].cur = exp[s].cur /\ exp'[s].cCrc = exp[s].cCrc
        /\ BlankSlot'
    BY <1>2, <1>3, <2>1, <2>2, <2>3
  <2>5. ~FrmSet /\ ~MsgFirst /\ ~MsgSet
    BY <1>5 DEF FrmSet, AtfSet, MsgFirst, MsgSet, Step1
  <2>6. QED
    BY <2>1, <2>2, <2>3, <2>4, <2>5
<1>6. CASE MsgFirst
  <2> DEFINE c == [s \in Slaves |-> {Entries[1].frm}]
  <2>1. PICK L \in Losers : SetFrame(Slaves, 1, c, L)
    BY <1>6 DEF MsgFirst
  <2>2. \A s \in Slaves : c[s] \in Content /\ c[s] = {Entries[1].frm}
    <3>1. cmd.type = "msg"
      BY <1>6 DEF MsgFirst
    <3>2. Entries[1].frm \in Frames
      BY <1>1, <3>1, Contents
    <3>3. QED
      BY <3>2 DEF Content
  <2> HIDE DEF c
  <2>3. /\ \A s \in Slaves : \A k \in Slots : exp'[s].nCrc[k] =
             IF enabled /\ s \in Slaves /\ k = 1 THEN c[s] ELSE exp[s].nCrc[k]
        /\ \A s \in Slaves : exp'[s].cur = exp[s].cur /\ exp'[s].cCrc = exp[s].cCrc
        /\ BlankSlot'
    BY <1>2, <1>3, <2>1, <2>2
  <2>4. ~AtfSet /\ ~FrmSet /\ ~MsgSet
    BY <1>6 DEF FrmSet, AtfSet, MsgFirst, MsgSet
  <2>5. QED
    BY <2>2, <2>3, <2>4
<1>7. CASE MsgSet
  <2> DEFINE c == [s \in Slaves |-> Lay(Entries[Following].frm)]
  <2>1. PICK L \in Losers : SetFrame(Slaves, Following, c, L)
    BY <1>7 DEF MsgSet
  <2>2. task \in Playing /\ cmd.type = "msg"
    BY <1>1, <1>7 DEF MsgSet, Playing, LineInv
  <2>3. Following \in 1..MaxSlot /\ Entries[Following].frm \in Frames
    <3>1. Following \in 1..Last /\ Last \in 1..MaxSlot
      BY <1>1, <2>2, Contents
    <3>2. Entries[Following].frm \in Frames
      BY <1>1, <2>2, <3>1, Contents
    <3>3. QED
      BY <3>1, <3>2, TaskConstants
  <2>4. \A s \in Slaves : c[s] \in Content /\ c[s] = Lay(Entries[Following].frm)
    BY <1>1, <2>3 DEF Content, Lay, Counters
  <2> HIDE DEF c
  <2>5. /\ \A s \in Slaves : \A k \in Slots : exp'[s].nCrc[k] =
             IF enabled /\ s \in Slaves /\ k = Following THEN c[s] ELSE exp[s].nCrc[k]
        /\ \A s \in Slaves : exp'[s].cur = exp[s].cur /\ exp'[s].cCrc = exp[s].cCrc
        /\ BlankSlot'
    BY <1>3, <2>1, <2>3, <2>4
  <2>6. ~AtfSet /\ ~FrmSet /\ ~MsgFirst
    BY <1>7 DEF FrmSet, AtfSet, MsgFirst, MsgSet, Step1
  <2>7. QED
    BY <2>4, <2>5, <2>6
<1>8. QED
  BY <1>4, <1>5, <1>6, <1>7

(* Slot 0 stands for blank.                                                *)
LEMMA BlankStep ==
  ASSUME IInv, Next
  PROVE  BlankSlot'
  BY SlotsKept, SetsSlot

(* The slot of a frame.                                                    *)
LEMMA FrmStep ==
  ASSUME IInv, Next
  PROVE  FrmInv'
<1>1. TasksTypeOK /\ LineInv /\ FrmInv
  BY DEF IInv
<1>2. 1 \in Slots
  BY TaskConstants DEF Slots
<1>3. CASE FrmSet
  <2>1. \A s \in Slaves : enabled => exp'[s].nCrc[1] = Frame(s)
    BY <1>2, <1>3, SetsSlot
  <2>2. QED
    BY <1>3, <2>1 DEF FrmSet, FrmInv, FrmSlot, Frame
<1>4. CASE AtfSet
  <2>1. PICK x \in atf : atf' = atf \ {x} /\ \A s \in Slaves : \A k \in Slots :
             exp'[s].nCrc[k] = IF enabled /\ s = x /\ k = 1 THEN Frame(s) ELSE exp[s].nCrc[k]
    BY <1>4, SetsSlot
  <2>2. enabled => \A s \in Slaves \ atf' : exp'[s].nCrc[1] = Frame(s)
    BY <1>1, <1>2, <1>4, <2>1 DEF AtfSet, FrmInv, FrmSlot
  <2>3. QED
    BY <1>4, <2>2 DEF AtfSet, FrmInv, FrmSlot, Frame
<1>5. CASE MsgFirst
  BY <1>5 DEF MsgFirst, FrmInv
<1>6. CASE MsgSet
  BY <1>6 DEF MsgSet, FrmInv
<1>7. CASE \A s \in Slaves : exp'[s].nCrc = exp[s].nCrc
  <2>1. ASSUME UNCHANGED cmd PROVE \A s \in Slaves : FrmSlot(s)' = FrmSlot(s)
    BY <1>7, <2>1 DEF FrmSlot, Frame
  <2>2. ASSUME UNCHANGED <<cmd, task, atf, enabled>> PROVE FrmInv'
    BY <1>1, <2>1, <2>2 DEF FrmInv, Blank
  <2>3. CASE AtfBegin
    BY <1>1, <2>1, <2>3 DEF AtfBegin, FrmInv, LineInv, Blank, IsBlank, Step1
  <2>4. CASE AtfAsk
    BY <1>1, <2>1, <2>4 DEF AtfAsk, FrmInv, LineInv, Blank, IsBlank, Step1
  <2>5. CASE AtfAgain
    BY <1>1, <2>1, <2>5 DEF AtfAgain, FrmInv, LineInv, Blank, IsBlank, Step1
  <2>6. CASE FrmDisp
    BY <1>1, <2>1, <2>6 DEF FrmDisp, FrmInv, LineInv, Blank, IsBlank, Step1
  <2>7. CASE FrmDisp2
    BY <1>1, <2>1, <2>7 DEF FrmDisp2, FrmInv, LineInv, Blank, IsBlank, Step1
  <2>8. CASE NullDisp \/ NullDisp2 \/ EnDisDevice \/ (\E c \in Cmds : Load(c))
    BY <2>8, Begins, <1>1 DEF NullDisp, NullDisp2, EnDisDevice, Load, FrmInv,
       TasksTypeOK
  <2>9. CASE MsgBegin \/ MsgFirstSet \/ MsgSkip \/ MsgDisp \/ MsgDisp2 \/ MsgShown
             \/ MsgRestart \/ MsgLay \/ MsgIsSet \/ MsgHold \/ MsgLost \/ MsgOver
             \/ MsgTrans \/ MsgTrans2 \/ MsgDone \/ MsgRound
    BY <2>9 DEF FrmInv, MsgBegin, MsgFirstSet, MsgSkip, MsgDisp, MsgDisp2, MsgShown,
       MsgRestart, MsgLay, MsgIsSet, MsgHold, MsgLost, MsgOver, MsgTrans, MsgTrans2,
       MsgDone, MsgRound
  <2>10. CASE Watches \/ Poll \/ LateReply \/ PowerCycle
             \/ \E s \in Slaves : NoRplExpires(s) \/ CrcExpires(s) \/ SlaveDies(s) \/ SlaveResets(s)
    BY <2>2, <2>10 DEF Watches, Poll, FrmSync, MsgLastFrmTmr, RqstFirst, RqstNext,
       LateReply, PowerCycle, NoRplExpires, CrcExpires, SlaveDies, SlaveResets
  <2>11. CASE FrmSet \/ AtfSet \/ MsgFirst \/ MsgSet
    BY <1>3, <1>4, <1>5, <1>6, <2>11
  <2>12. QED
    BY <2>3, <2>4, <2>5, <2>6, <2>7, <2>8, <2>9, <2>10, <2>11 DEF Next, GoesOn, Around
<1>8. QED
  BY <1>3, <1>4, <1>5, <1>6, <1>7, SlotsKept

(* The answer in the air.                                                  *)
LEMMA AirStep ==
  ASSUME IInv, Next
  PROVE  AirInv'
<1>1. TasksTypeOK /\ AirInv /\ sup \in [Slaves -> Supervision] /\ dev \in [Slaves -> Device]
      /\ rep \in [Slaves -> Reply] /\ rq.i \in 1..NSlaves+1 /\ NSlaves \in Nat
      /\ (air = None \/ air.s \in Slaves)
  BY TaskConstants, Typed DEF IInv, TasksTypeOK
<1>2. ASSUME air' = None PROVE AirInv'
  BY <1>2 DEF AirInv
<1>3. ASSUME UNCHANGED <<air, dev>> PROVE AirInv'
  BY <1>1, <1>3 DEF AirInv
<1>4. CASE FrmSet \/ AtfSet \/ FrmDisp \/ FrmDisp2 \/ MsgFirst \/ MsgDisp
           \/ MsgDisp2 \/ MsgSet \/ MsgTrans \/ MsgTrans2 \/ NullDisp \/ NullDisp2
  BY <1>2, <1>4 DEF FrmSet, AtfSet, FrmDisp, FrmDisp2, MsgFirst, MsgDisp, MsgDisp2,
     MsgSet, MsgTrans, MsgTrans2, NullDisp, NullDisp2
<1>5. CASE AtfBegin \/ AtfAsk \/ AtfAgain \/ MsgBegin \/ MsgFirstSet
           \/ MsgSkip \/ MsgShown \/ MsgRestart \/ MsgLay \/ MsgIsSet
           \/ MsgHold \/ MsgLost \/ MsgOver \/ MsgDone \/ MsgRound
  BY <1>3, <1>5 DEF AtfBegin, AtfAsk, AtfAgain, MsgBegin, MsgFirstSet, MsgSkip,
     MsgShown, MsgRestart, MsgLay, MsgIsSet, MsgHold, MsgLost, MsgOver, MsgDone,
     MsgRound
<1>6. CASE FrmSync \/ LateReply \/ PowerCycle
  BY <1>2, <1>6 DEF FrmSync, LateReply, PowerCycle
<1>7. CASE MsgLastFrmTmr \/ EnDisDevice
           \/ (\E c \in Cmds : Load(c)) \/ \E s \in Slaves : NoRplExpires(s) \/ CrcExpires(s)
  BY <1>3, <1>7 DEF MsgLastFrmTmr, EnDisDevice, Load, NoRplExpires, CrcExpires
<1>8. CASE RqstFirst
  BY <1>1, <1>8, RqstDoes DEF RqstFirst
<1>9. CASE RqstNext
  <2>1. PICK i \in 1..NSlaves+1, sp \in [Slaves -> Supervision] : Rqst(i, sp)
    BY <1>1, <1>9, NextRqst
  <2>2. QED
    BY <1>1, <2>1, RqstDoes
<1>10. ASSUME NEW s \in Slaves, SlaveDies(s) PROVE AirInv'
  <2>1. ASSUME NEW x \in Slaves, dev'[x].alive /\ ~dev'[x].booted
        PROVE  dev'[x] = dev[x]
    BY <1>1, <1>10, <2>1 DEF SlaveDies, Device
  <2>2. QED
    BY <1>1, <1>10, <2>1 DEF SlaveDies, AirInv
<1>11. ASSUME NEW s \in Slaves, SlaveResets(s) PROVE AirInv'
  <2>1. ASSUME NEW x \in Slaves, dev'[x].alive /\ ~dev'[x].booted
        PROVE  dev'[x] = dev[x]
    <3>1. Blanked(dev[s]).booted
      BY <1>1 DEF Blanked, Device
    <3>2. dev' = [dev EXCEPT ![s] = Blanked(@)]
      BY <1>11 DEF SlaveResets
    <3>3. QED
      BY <1>1, <2>1, <3>1, <3>2
  <2>2. QED
    BY <1>1, <1>11, <2>1 DEF SlaveResets, AirInv
<1>12. QED
  BY <1>4, <1>5, <1>6, <1>7, <1>8, <1>9, <1>10, <1>11 DEF Next, GoesOn, Watches, Poll, Around

-----------------------------------------------------------------------------
(* The counters of TaskMsg.  One entry more under the next.                *)
LEMMA UnderNext ==
  ASSUME NEW e, Len(e) \in Nat \ {0}, NEW k \in Nat
  PROVE  /\ k < Len(e) /\ k >= 1 /\ e[k].on = "zero"
              => Under(e, k + 1) = Under(e, k) \cup {e[k].frm}
         /\ k = 0 \/ k >= Len(e) \/ e[k].on # "zero" => Under(e, k + 1) = Under(e, k)
         /\ k <= 1 => Under(e, k) = {}
         /\ k >= Len(e) => Under(e, k) = Under(e, Len(e))
<1> DEFINE U(n) == { i \in 1..Len(e)-1 : e[i].on = "zero" /\ i # Len(e) /\ i < n }
<1>1. \A n \in Nat : Under(e, n) = { e[j].frm : j \in U(n) }
  BY DEF Under
<1>2. k < Len(e) /\ k >= 1 /\ e[k].on = "zero" => U(k + 1) = U(k) \cup {k}
  OBVIOUS
<1>3. k = 0 \/ k >= Len(e) \/ e[k].on # "zero" => U(k + 1) = U(k)
  <2>1. ASSUME k = 0 \/ k >= Len(e) \/ e[k].on # "zero", NEW i \in 1..Len(e)-1, e[i].on = "zero"
        PROVE  i < k + 1 <=> i < k
    BY <2>1
  <2>2. QED
    BY <2>1
<1>4. k <= 1 => U(k) = {}
  OBVIOUS
<1>5. k >= Len(e) => U(k) = U(Len(e))
  OBVIOUS
<1> HIDE DEF U
<1>6. k + 1 \in Nat
  OBVIOUS
<1>7. QED
  BY <1>1, <1>2, <1>3, <1>4, <1>5, <1>6

(* In a message: its numbers.                                              *)
LEMMA InMessage ==
  ASSUME TasksTypeOK, LineInv, task \in Playing
  PROVE  /\ cmd.type = "msg" /\ Last \in Nat \ {0} /\ Len(Entries) = Last /\ Last \in 1..MaxSlot
         /\ msg.disp \in 1..Last /\ msg.set \in Nat /\ msg.max \in Last..2*Last
         /\ Following \in 1..Last /\ msg.again \in BOOLEAN
         /\ Following = IF msg.disp = Last THEN 1 ELSE msg.disp + 1
<1>1. cmd.type = "msg" /\ msg.disp \in 1..Last /\ msg.max = SetMax(Entries)
  BY DEF LineInv
<1>2. msg \in Counters
  BY Typed
<1>3. msg.set \in Nat /\ msg.again \in BOOLEAN
  BY <1>2, TaskConstants DEF Counters
<1>4. QED
  BY <1>1, <1>3, Contents DEF Following, Last

(* The counters; a lone overlay is counted as set and never is.            *)
LEMMA CountStep ==
  ASSUME IInv, Next
  PROVE  CountInv'
<1>1. TasksTypeOK /\ LineInv /\ CountInv /\ msg \in Counters /\ cmd \in Cmds
  BY Typed DEF IInv, TasksTypeOK
<1>2. ASSUME task' \notin Playing PROVE CountInv'
  BY <1>2 DEF CountInv, Playing
<1>3. ASSUME UNCHANGED <<cmd, task, msg>> PROVE CountInv'
  BY <1>1, <1>3 DEF CountInv, Entries, Last, Base, At, Following, Shown, Overlaid, Lone
<1>4. ASSUME UNCHANGED cmd PROVE Entries' = Entries /\ Last' = Last /\ Lone' = Lone
  BY <1>4 DEF Entries, Last, Lone
<1>5. CASE MsgBegin
  <2>1. cmd.type = "msg" /\ Entries[1].on = "zero" /\ task' = "mDisp" /\ UNCHANGED cmd
    BY <1>5 DEF MsgBegin
  <2>2. Last \in Nat \ {0} /\ SetMax(Entries) \in Last..2*Last /\ Len(Entries) = Last
    BY <1>1, <2>1, Contents DEF Last
  <2>3. ~Lone => Last # 1
    BY <2>1 DEF Lone, LoneEntry, Last, Entries
  <2>4. ASSUME ~Lone PROVE Under(Entries, 2) = {Entries[1].frm}
    <3>1. Under(Entries, 1 + 1) = Under(Entries, 1) \cup {Entries[1].frm} /\ Under(Entries, 1) = {}
      <4>1. 1 < Len(Entries) /\ Len(Entries) \in Nat \ {0} /\ 1 >= 1 /\ 1 <= 1 /\ 1 \in Nat
        BY <2>2, <2>3, <2>4
      <4>2. QED
        BY <2>1, <4>1, UnderNext
    <3>2. QED
      BY <3>1
  <2>5. msg' = [set |-> 1, max |-> SetMax(Entries), disp |-> 1, err |-> 0,
                or |-> {Entries[1].frm}, again |-> FALSE]
    BY <1>5 DEF MsgBegin
  <2>6. /\ msg'.set = 1 /\ msg'.max = SetMax(Entries) /\ msg'.disp = 1
        /\ msg'.or = {Entries[1].frm} /\ ~msg'.again
    BY <2>5
  <2>7. Base' = 0 /\ At' = 1
    BY <2>1, <2>6 DEF Base, At, Loaded
  <2>8. QED
    BY <1>4, <2>1, <2>2, <2>4, <2>6, <2>7 DEF CountInv, Playing
<1>6. CASE MsgFirst
  <2>1. cmd.type = "msg" /\ task' = "mFirst" /\ UNCHANGED cmd /\ Entries[1].on # "zero"
    BY <1>1, <1>6 DEF MsgFirst, CountInv
  <2>2. Last \in Nat \ {0} /\ Len(Entries) = Last
    BY <1>1, <2>1, Contents DEF Last
  <2>3. Under(Entries, 1) = {}
    BY <2>2, UnderNext
  <2>4. msg'.set = 0 /\ msg'.disp = 1 /\ msg'.or = {} /\ ~msg'.again
    BY <1>6 DEF MsgFirst
  <2>5. QED
    BY <1>4, <2>1, <2>3, <2>4 DEF CountInv, Playing
<1>7. CASE MsgFirstSet
  <2>1. task = "mFirst" /\ task' = "mDisp" /\ UNCHANGED cmd /\ msg' = [msg EXCEPT !.set = 1]
    BY <1>7 DEF MsgFirstSet
  <2>2. Last \in Nat \ {0} /\ Len(Entries) = Last /\ msg.max \in Last..2*Last
    BY <1>1, <2>1, InMessage DEF Playing
  <2>3. Entries[1].on # "zero" /\ msg.or = Under(Entries, 0 + 1) /\ msg.disp = 1 /\ ~msg.again
    BY <1>1, <2>1 DEF CountInv, Playing, Lone, LoneEntry, Entries
  <2>4. /\ msg'.set = 1 /\ msg'.max = msg.max /\ msg'.disp = 1
        /\ msg'.or = msg.or /\ ~msg'.again
    BY <1>1, <2>1, <2>3 DEF Counters
  <2>5. Under(Entries, 1 + 1) = msg.or
    <3>1. Under(Entries, 1 + 1) = Under(Entries, 1)
      BY <2>2, <2>3, UnderNext
    <3>2. QED
      BY <2>3, <3>1
  <2>6. Base' = 0 /\ At' = 1
    BY <2>1, <2>4 DEF Base, At, Loaded
  <2>7. QED
    BY <1>4, <2>1, <2>2, <2>4, <2>5, <2>6 DEF CountInv, Playing
<1>8. CASE MsgSkip \/ MsgDisp \/ MsgDisp2 \/ MsgShown \/ MsgSet \/ MsgHold \/ MsgOver
           \/ MsgTrans \/ MsgTrans2
  <2>1. /\ task \in Playing \ {"mFirst"} /\ task' \in Playing \ {"mFirst", "mYield"} /\ UNCHANGED cmd
        /\ task' \in Loaded <=> task \in Loaded
    BY <1>8 DEF MsgSkip, MsgDisp, MsgDisp2, MsgShown, MsgSet, MsgHold, MsgOver, MsgTrans,
       MsgTrans2, Playing, Loaded, Retry
  <2>2. /\ msg'.set = msg.set /\ msg'.max = msg.max /\ msg'.disp = msg.disp
        /\ msg'.or = msg.or /\ msg'.again = msg.again
    <3>1. UNCHANGED msg \/ \E n \in 0..4 : msg' = [msg EXCEPT !.err = n]
      <4>1. msg.err \in 0..3 /\ msg.err + 1 \in 0..4
        BY <1>1 DEF Counters
      <4>2. CASE MsgDisp
        BY <4>1, <4>2 DEF MsgDisp
      <4>3. CASE MsgShown
        BY <4>1, <4>3 DEF MsgShown
      <4>4. QED
        BY <1>8, <4>2, <4>3 DEF MsgSkip, MsgDisp2, MsgSet, MsgHold, MsgOver, MsgTrans, MsgTrans2
    <3>2. QED
      BY <1>1, <3>1 DEF Counters
  <2>3. Base' = Base /\ At' = At /\ Following' = Following
    BY <1>4, <2>1, <2>2 DEF Base, At, Following
  <2>4. task' = "mSet" => msg.set < msg.max /\ Shown(Following)
    BY <1>1, <1>8 DEF MsgSkip, MsgDisp, MsgDisp2, MsgShown, MsgSet, MsgHold, MsgOver, MsgTrans,
       MsgTrans2, CountInv
  <2>5. task' \in {"mDone", "mTrans2", "mTransW"} /\ msg.disp = Last => Entries[Last].on # "zero"
    BY <1>1, <1>8 DEF MsgSkip, MsgDisp, MsgDisp2, MsgShown, MsgSet, MsgHold, MsgOver, MsgTrans,
       MsgTrans2, CountInv, Shown, Overlaid
  <2>6. QED
    BY <1>1, <1>4, <2>1, <2>2, <2>3, <2>4, <2>5 DEF CountInv, Shown, Overlaid, Playing
<1>9. CASE MsgLay \/ MsgIsSet
  <2>1. task \in {"mLoad", "mSet"} /\ task' = "mHold" /\ UNCHANGED cmd
    BY <1>9 DEF MsgLay, MsgIsSet
  <2>2. /\ Last \in Nat \ {0} /\ Len(Entries) = Last /\ msg.max \in Last..2*Last
        /\ msg.disp \in 1..Last /\ msg.set \in Nat /\ msg.again \in BOOLEAN
        /\ Following = IF msg.disp = Last THEN 1 ELSE msg.disp + 1
    BY <1>1, <2>1, InMessage DEF Playing
  <2>3. /\ ~Lone => msg.or = Under(Entries, msg.set + 1)
        /\ msg.set \in 1..msg.max
        /\ msg.set = Base + msg.disp \/ (msg.set = msg.max /\ (msg.again \/ msg.max < msg.disp))
        /\ msg.again => Entries[Last].on # "zero"
    <3>1. task \in Playing \ {"mFirst"} /\ At = msg.disp
      BY <2>1, <2>2 DEF Playing, At, Loaded
    <3>2. QED
      BY <1>1, <3>1 DEF CountInv
  <2>4. Base = IF msg.again THEN Last ELSE 0
    BY DEF Base
  <2>5. CASE MsgLay /\ msg.set = msg.max
    <3>1. UNCHANGED msg
      BY <2>5 DEF MsgLay
    <3>2. Base' = Base /\ At' = msg.disp + 1
      BY <1>4, <2>1, <3>1 DEF Base, At, Loaded
    <3>3. msg.again \/ msg.max < msg.disp + 1
      BY <2>2, <2>3, <2>4, <2>5
    <3>4. QED
      BY <1>4, <2>1, <2>2, <2>3, <2>5, <3>1, <3>2, <3>3 DEF CountInv, Playing
  <2>6. CASE msg.set # msg.max
    <3>1. msg.set = Base + msg.disp /\ msg.set + 1 \in 1..msg.max
      BY <2>2, <2>3, <2>6
    <3>2. msg.set < Last => Following = msg.set + 1 /\ ~msg.again
      BY <2>2, <2>4, <3>1
    <3>3. /\ msg'.set = msg.set + 1 /\ msg'.max = msg.max /\ msg'.disp = msg.disp
          /\ msg'.again = msg.again
          /\ msg'.or = IF MsgLay /\ msg.set < Last THEN msg.or \cup {Entries[Following].frm} ELSE msg.or
      <4>1. CASE MsgLay
        BY <1>1, <2>6, <4>1 DEF MsgLay, Counters
      <4>2. CASE ~MsgLay
        BY <1>1, <1>9, <4>2 DEF MsgIsSet, Counters
      <4>3. QED
        BY <4>1, <4>2
    <3>4. ASSUME ~Lone PROVE msg'.or = Under(Entries, (msg.set + 1) + 1)
      <4>1. CASE msg.set < Last /\ MsgLay
        <5>1. Entries[msg.set + 1].on = "zero" /\ msg.set + 1 < Last
          <6>1. Overlaid(Following)
            BY <2>2, <2>3, <2>6, <4>1 DEF MsgLay
          <6>2. QED
            BY <2>2, <3>2, <4>1, <6>1 DEF Overlaid
        <5>2. Under(Entries, (msg.set + 1) + 1)
                = Under(Entries, msg.set + 1) \cup {Entries[msg.set + 1].frm}
          <6>1. /\ msg.set + 1 \in Nat /\ msg.set + 1 >= 1 /\ msg.set + 1 < Len(Entries)
                /\ Len(Entries) \in Nat \ {0}
            BY <2>2, <5>1
          <6>2. QED
            BY <5>1, <6>1, UnderNext
        <5>3. QED
          BY <2>3, <3>2, <3>3, <3>4, <4>1, <5>2
      <4>2. CASE msg.set < Last /\ ~MsgLay
        <5>1. msg.set + 1 >= Last \/ Entries[msg.set + 1].on # "zero"
          <6>1. ~Overlaid(Following)
            BY <1>1, <1>9, <4>2 DEF MsgIsSet, CountInv, Shown
          <6>2. QED
            BY <2>2, <3>2, <4>2, <6>1 DEF Overlaid
        <5>2. Under(Entries, (msg.set + 1) + 1) = Under(Entries, msg.set + 1)
          BY <2>2, <5>1, UnderNext
        <5>3. QED
          BY <2>3, <3>3, <3>4, <4>2, <5>2
      <4>3. CASE ~(msg.set < Last)
        <5>1. Under(Entries, (msg.set + 1) + 1) = Under(Entries, msg.set + 1)
          <6>1. msg.set + 1 \in Nat /\ msg.set + 1 >= Len(Entries)
            BY <2>2, <4>3
          <6>2. QED
            BY <2>2, <6>1, UnderNext
        <5>2. QED
          BY <2>3, <3>3, <3>4, <4>3, <5>1
      <4>4. QED
        BY <4>1, <4>2, <4>3
    <3>5. Base' = Base /\ At' = msg.disp + 1
      BY <1>4, <2>1, <3>3 DEF Base, At, Loaded
    <3>6. Base \in Nat /\ msg.set + 1 = Base + (msg.disp + 1)
      BY <2>2, <2>4, <3>1
    <3>7. QED
      BY <1>4, <2>1, <2>3, <3>1, <3>3, <3>4, <3>5, <3>6 DEF CountInv, Playing
  <2>7. ASSUME MsgIsSet PROVE msg.set # msg.max
    BY <1>1, <2>2, <2>7 DEF MsgIsSet, CountInv
  <2>8. QED
    BY <1>9, <2>5, <2>6, <2>7
<1>10. CASE MsgDone
  <2>1. task \in {"mDone", "mTransW"} /\ UNCHANGED cmd
    BY <1>10 DEF MsgDone
  <2>2. msg.disp \in 1..Last /\ Last \in Nat
    BY <1>1, <2>1, InMessage DEF Playing
  <2>3. CASE msg.disp = Last
    <3>1. task' = "mYield" /\ UNCHANGED msg
      BY <1>10, <2>3 DEF MsgDone
    <3>2. Base' = Base /\ At' = At
      BY <1>4, <2>1, <3>1 DEF Base, At, Loaded
    <3>3. QED
      BY <1>1, <1>4, <2>1, <2>3, <3>1, <3>2 DEF CountInv, Playing
  <2>4. CASE msg.disp # Last
    <3>1. task' = "mDisp" /\ msg' = [msg EXCEPT !.disp = @ + 1]
      BY <1>10, <2>4 DEF MsgDone
    <3>2. /\ msg'.set = msg.set /\ msg'.max = msg.max /\ msg'.disp = msg.disp + 1
          /\ msg'.or = msg.or /\ msg'.again = msg.again
      BY <1>1, <3>1 DEF Counters
    <3>3. Base' = Base /\ At' = At
      BY <1>4, <2>1, <2>2, <3>1, <3>2 DEF Base, At, Loaded
    <3>4. QED
      BY <1>1, <1>4, <2>1, <3>1, <3>2, <3>3 DEF CountInv, Playing
  <2>5. QED
    BY <2>3, <2>4
<1>11. CASE MsgRound
  <2>1. /\ task = "mYield" /\ task' = "mDisp" /\ UNCHANGED cmd
        /\ msg' = [msg EXCEPT !.disp = 1, !.again = TRUE]
    BY <1>11 DEF MsgRound
  <2>2. /\ Last \in Nat \ {0} /\ msg.max \in Last..2*Last /\ msg.set \in Nat
    BY <1>1, <2>1, InMessage DEF Playing
  <2>3. /\ ~Lone => msg.or = Under(Entries, msg.set + 1)
        /\ msg.set \in 1..msg.max
        /\ msg.set = Base + (Last + 1) \/ (msg.set = msg.max /\ (msg.again \/ msg.max < Last + 1))
        /\ Entries[Last].on # "zero"
    BY <1>1, <2>1 DEF CountInv, Playing, At, Loaded
  <2>4. /\ msg'.set = msg.set /\ msg'.max = msg.max /\ msg'.disp = 1
        /\ msg'.or = msg.or /\ msg'.again = TRUE
    BY <1>1, <2>1 DEF Counters
  <2>5. Base' = Last /\ At' = 1
    BY <1>4, <2>1, <2>4 DEF Base, At, Loaded
  <2>6. msg.set = Last + 1 \/ msg.set = msg.max
    BY <2>2, <2>3 DEF Base
  <2>7. QED
    BY <1>4, <2>1, <2>3, <2>4, <2>5, <2>6 DEF CountInv, Playing
<1>12. CASE FrmSet \/ AtfBegin \/ AtfSet \/ AtfAsk \/ AtfAgain \/ FrmDisp \/ FrmDisp2 \/ MsgRestart
            \/ MsgLost \/ NullDisp \/ NullDisp2 \/ EnDisDevice \/ (\E c \in Cmds : Load(c))
  <2>1. task' \notin Playing
    BY <1>1, <1>12, Begins DEF FrmSet, AtfBegin, AtfSet, AtfAsk, AtfAgain, FrmDisp, FrmDisp2,
       MsgRestart, MsgLost, NullDisp, NullDisp2, EnDisDevice, Load, Playing
  <2>2. QED
    BY <1>2, <2>1
<1>13. CASE Watches \/ Poll \/ LateReply \/ PowerCycle
            \/ \E s \in Slaves : NoRplExpires(s) \/ CrcExpires(s) \/ SlaveDies(s) \/ SlaveResets(s)
  BY <1>3, <1>13 DEF Watches, Poll, FrmSync, MsgLastFrmTmr, RqstFirst, RqstNext, LateReply,
     PowerCycle, NoRplExpires, CrcExpires, SlaveDies, SlaveResets
<1>14. QED
  BY <1>5, <1>6, <1>7, <1>8, <1>9, <1>10, <1>11, <1>12, <1>13 DEF Next, GoesOn, Around

-----------------------------------------------------------------------------
(* The slots of a message.  Loading the next entry touches no other: it is *)
(* the one that comes into count, or, in the second round, under all.      *)
LEMMA NextEntry ==
  ASSUME IInv, task \in {"mLoad", "mSet"}, msg.set # msg.max
  PROVE  /\ \A k \in 1..Last : k # Following =>
              /\ k <= msg.set + 1 <=> k <= msg.set
              /\ k <= (msg.set + 1) - Last <=> k <= msg.set - Last
         /\ Following <= (msg.set + 1) - Last => msg.set >= Last
         /\ ~(Following <= (msg.set + 1) - Last) => Following = msg.set + 1
<1>1. TasksTypeOK /\ LineInv /\ CountInv
  BY DEF IInv
<1>2. /\ Last \in Nat \ {0} /\ msg.max \in Last..2*Last
      /\ msg.disp \in 1..Last /\ msg.set \in Nat /\ msg.again \in BOOLEAN
      /\ Following = IF msg.disp = Last THEN 1 ELSE msg.disp + 1
  BY <1>1, InMessage DEF Playing
<1>3. task \in Playing \ {"mFirst"} /\ At = msg.disp
  BY <1>2 DEF Playing, At, Loaded
<1>4. msg.set = Base + msg.disp /\ msg.set < msg.max
  BY <1>1, <1>2, <1>3 DEF CountInv
<1>5. CASE msg.again
  <2>1. msg.set = Last + msg.disp /\ msg.disp < Last
    BY <1>2, <1>4, <1>5 DEF Base
  <2>2. QED
    BY <1>2, <2>1
<1>6. CASE ~msg.again
  <2>1. msg.set = msg.disp
    BY <1>2, <1>4, <1>6 DEF Base
  <2>2. QED
    BY <1>2, <2>1
<1>7. QED
  BY <1>5, <1>6

(* What is laid under an entry is what orBuf holds.                        *)
LEMMA LaidIs ==
  ASSUME TasksTypeOK, LineInv, CountInv, task \in Playing, ~Lone, NEW f
  PROVE  Lay(f) = {f} \cup msg.or
<1>1. /\ Last \in Nat \ {0} /\ Len(Entries) = Last /\ msg.set \in Nat
  BY InMessage
<1>2. msg.or = Under(Entries, msg.set + 1)
  BY DEF CountInv
<1>3. ~HasOverlay(Entries) => msg.or = {}
  BY <1>1, <1>2 DEF HasOverlay, Under
<1>4. QED
  BY <1>3 DEF Lay

(* The slots.                                                              *)
LEMMA SlotsStep ==
  ASSUME IInv, Next
  PROVE  SlotsInv'
<1> SUFFICES ASSUME ~Lone' PROVE SlotsInv'
  BY DEF SlotsInv
<1>1. TasksTypeOK /\ LineInv /\ CountInv /\ SlotsInv /\ msg \in Counters /\ cmd \in Cmds
  BY Typed DEF IInv, TasksTypeOK
<1>2. ASSUME task' \notin Playing PROVE SlotsInv'
  BY <1>2 DEF SlotsInv, Playing
<1>3. ASSUME UNCHANGED cmd
      PROVE  /\ Entries' = Entries /\ Last' = Last /\ \A k : Shown(k)' = Shown(k)
             /\ UNCHANGED msg.set => \A k : Filled(k)' = Filled(k)
             /\ ~Lone
  BY <1>3 DEF Entries, Last, Shown, Overlaid, Filled, Lone
<1>4. cmd.type = "msg" => /\ Last \in Nat \ {0} /\ Last \in 1..MaxSlot /\ Len(Entries) = Last
                          /\ \A k \in 1..Last : k \in Slots
  <2>1. cmd.type = "msg" => Last \in Nat \ {0} /\ Last \in 1..MaxSlot
    BY <1>1, Contents
  <2>2. Len(Entries) = Last
    BY DEF Last
  <2>3. QED
    BY <2>1, <2>2, TaskConstants DEF Slots
<1>5. CASE MsgBegin
  <2>1. /\ cmd.type = "msg" /\ Entries[1].on = "zero" /\ task' = "mDisp" /\ UNCHANGED cmd
        /\ msg'.set = 1
    BY <1>5 DEF MsgBegin
  <2>2. Last # 1
    BY <1>3, <2>1 DEF Lone, LoneEntry, Last, Entries
  <2>3. ASSUME NEW k \in 1..Last, Shown(k), k <= 1 PROVE FALSE
    BY <1>4, <2>1, <2>2, <2>3 DEF Shown, Overlaid
  <2>4. QED
    BY <1>3, <2>1, <2>3 DEF SlotsInv
<1>6. CASE MsgFirst
  <2>1. task' = "mFirst" /\ UNCHANGED <<cmd, enabled>> /\ 1 \in Slots
    BY <1>6, TaskConstants DEF MsgFirst, Slots
  <2>2. \A s \in Slaves : enabled => exp'[s].nCrc[1] = {Entries[1].frm}
    BY <1>6, <2>1, SetsSlot
  <2>3. QED
    BY <1>3, <2>1, <2>2 DEF SlotsInv
<1>7. CASE MsgFirstSet
  <2>1. /\ task = "mFirst" /\ task' = "mDisp" /\ UNCHANGED <<cmd, exp, enabled>>
        /\ msg' = [msg EXCEPT !.set = 1]
    BY <1>7 DEF MsgFirstSet
  <2>2. cmd.type = "msg" /\ msg'.set = 1
    BY <1>1, <2>1 DEF LineInv, Playing, Counters
  <2>3. Filled(1)' = {Entries[1].frm}
    <3>1. Under(Entries, 1) = {} /\ ~(1 <= 1 - Last)
      BY <1>4, <2>2, UnderNext
    <3>2. QED
      BY <1>3, <2>1, <2>2, <3>1 DEF Filled
  <2>4. enabled => \A s \in Slaves : exp[s].nCrc[1] = Filled(1)'
    BY <1>1, <1>3, <2>1, <2>3 DEF SlotsInv
  <2>5. \A k \in 1..Last : k <= 1 => k = 1
    BY <1>4, <2>2
  <2>6. QED
    BY <1>3, <2>1, <2>2, <2>4, <2>5 DEF SlotsInv
<1>8. CASE MsgSkip \/ MsgDisp \/ MsgDisp2 \/ MsgShown \/ MsgHold \/ MsgOver \/ MsgTrans \/ MsgTrans2
           \/ MsgDone \/ MsgRound
  <2>1. /\ task \in Playing \ {"mFirst", "mSet"} /\ task' \in Playing \ {"mFirst", "mSet"}
        /\ UNCHANGED <<cmd, enabled>>
    BY <1>8 DEF MsgSkip, MsgDisp, MsgDisp2, MsgShown, MsgHold, MsgOver, MsgTrans, MsgTrans2,
       MsgDone, MsgRound, Playing, Retry
  <2>2. msg'.set = msg.set
    BY <1>1, <1>8 DEF MsgSkip, MsgDisp, MsgDisp2, MsgShown, MsgHold, MsgOver, MsgTrans,
       MsgTrans2, MsgDone, MsgRound, Counters
  <2>3. \A s \in Slaves : exp'[s].nCrc = exp[s].nCrc
    <3>1. ~FrmSet /\ ~AtfSet /\ ~MsgFirst /\ ~MsgSet
      BY <2>1 DEF FrmSet, AtfSet, MsgFirst, MsgSet, Playing
    <3>2. QED
      BY <3>1, SlotsKept
  <2>4. QED
    BY <1>1, <1>3, <2>1, <2>2, <2>3 DEF SlotsInv
<1>9. CASE MsgSet
  <2>1. /\ task \in {"mLoad", "mSet"} /\ task' = "mSet" /\ UNCHANGED <<cmd, enabled, msg>>
    BY <1>9 DEF MsgSet
  <2>2. cmd.type = "msg" /\ Following \in 1..Last
    BY <1>1, <2>1, InMessage DEF Playing
  <2>3. Following' = Following
    BY <1>3, <2>1 DEF Following
  <2>4. ASSUME NEW s \in Slaves, enabled, NEW k \in 1..Last, k # Following
        PROVE  exp'[s].nCrc[k] = exp[s].nCrc[k]
    BY <1>4, <1>9, <2>2, <2>4, SetsSlot
  <2>5. ASSUME NEW s \in Slaves, enabled
        PROVE  exp'[s].nCrc[Following] = {Entries[Following].frm} \cup msg.or
    BY <1>1, <1>3, <1>4, <1>9, <2>1, <2>2, <2>5, SetsSlot, LaidIs DEF Playing
  <2>6. enabled => \A s \in Slaves : \A k \in 1..Last :
           Shown(k) /\ k <= msg.set /\ k # Following => exp'[s].nCrc[k] = Filled(k)
    BY <1>1, <1>3, <2>1, <2>4 DEF SlotsInv, Playing
  <2>7. QED
    BY <1>3, <2>1, <2>3, <2>5, <2>6 DEF SlotsInv
<1>10. CASE MsgLay \/ MsgIsSet
  <2>1. /\ task \in {"mLoad", "mSet"} /\ task' = "mHold" /\ UNCHANGED <<cmd, enabled, exp>>
    BY <1>10 DEF MsgLay, MsgIsSet
  <2>2. /\ cmd.type = "msg" /\ Following \in 1..Last /\ msg.set \in Nat
        /\ msg.or = Under(Entries, msg.set + 1)
    BY <1>1, <1>3, <2>1, InMessage DEF Playing, CountInv
  <2>3. CASE MsgLay /\ msg.set = msg.max
    <3>1. UNCHANGED msg /\ task = "mLoad"
      BY <2>3 DEF MsgLay
    <3>2. QED
      BY <1>1, <1>3, <2>1, <3>1 DEF SlotsInv, Playing
  <2>4. CASE msg.set # msg.max
    <3>1. msg'.set = msg.set + 1
      BY <1>1, <1>10, <2>4 DEF MsgLay, MsgIsSet, Counters
    <3>2. ASSUME NEW k \in 1..Last, k # Following
          PROVE  (k <= msg'.set <=> k <= msg.set) /\ Filled(k)' = Filled(k)
      BY <1>3, <2>1, <2>4, <3>1, <3>2, NextEntry DEF Filled
    <3>3. CASE MsgLay
      <4>1. Overlaid(Following) /\ task = "mLoad"
        BY <1>1, <2>1, <2>4, <3>3 DEF MsgLay, CountInv, Playing, Counters
      <4>2. QED
        BY <1>1, <1>3, <2>1, <3>2, <4>1 DEF SlotsInv, Playing, Shown
    <3>4. CASE MsgIsSet
      <4>1. task = "mSet"
        BY <3>4 DEF MsgIsSet
      <4>2. Filled(Following)' = {Entries[Following].frm} \cup msg.or
        <5>1. Following <= (msg.set + 1) - Last => Under(Entries, Last) = msg.or
          <6>1. ASSUME msg.set >= Last PROVE Under(Entries, Last) = Under(Entries, msg.set + 1)
            <7>1. msg.set + 1 \in Nat /\ msg.set + 1 >= Len(Entries) /\ Len(Entries) \in Nat \ {0}
              BY <1>4, <2>2, <6>1
            <7>2. QED
              BY <1>4, <2>2, <7>1, UnderNext
          <6>2. QED
            BY <2>1, <2>2, <2>4, <6>1, NextEntry
        <5>2. ~(Following <= (msg.set + 1) - Last) => Under(Entries, Following) = msg.or
          BY <2>1, <2>2, <2>4, NextEntry
        <5>3. Filled(Following)' = {Entries[Following].frm}
                 \cup Under(Entries, IF Following <= (msg.set + 1) - Last THEN Last ELSE Following)
          <6>1. Following' = Following
            BY <1>1, <1>3, <2>1, <3>4 DEF Following, MsgIsSet, Counters
          <6>2. QED
            BY <1>3, <2>1, <3>1, <6>1 DEF Filled
        <5>4. QED
          BY <5>1, <5>2, <5>3
      <4>3. enabled => \A s \in Slaves :
               /\ exp[s].nCrc[Following] = {Entries[Following].frm} \cup msg.or
               /\ \A k \in 1..Last : Shown(k) /\ k <= msg.set /\ k # Following
                     => exp[s].nCrc[k] = Filled(k)
        BY <1>1, <1>3, <2>1, <4>1 DEF SlotsInv, Playing
      <4>4. Following' = Following
        BY <1>1, <1>3, <2>1, <3>4 DEF Following, MsgIsSet, Counters
      <4>5. ASSUME enabled, NEW s \in Slaves, NEW k \in 1..Last, Shown(k), k <= msg'.set
            PROVE  exp[s].nCrc[k] = Filled(k)'
        <5>1. CASE k # Following
          BY <3>2, <4>3, <4>5, <5>1
        <5>2. CASE k = Following
          BY <4>2, <4>3, <4>4, <4>5, <5>2
        <5>3. QED
          BY <5>1, <5>2
      <4>6. QED
        BY <1>3, <2>1, <4>5 DEF SlotsInv
    <3>5. QED
      BY <1>10, <3>3, <3>4
  <2>5. ASSUME MsgIsSet PROVE msg.set # msg.max
    <3>1. msg.max \in Nat
      BY <1>1, TaskConstants DEF Counters
    <3>2. QED
      BY <1>1, <2>2, <2>5, <3>1 DEF MsgIsSet, CountInv
  <2>6. QED
    BY <1>10, <2>3, <2>4, <2>5
<1>11. CASE FrmSet \/ AtfBegin \/ AtfSet \/ AtfAsk \/ AtfAgain \/ FrmDisp \/ FrmDisp2 \/ MsgRestart
            \/ MsgLost \/ NullDisp \/ NullDisp2 \/ EnDisDevice \/ (\E c \in Cmds : Load(c))
  <2>1. task' \notin Playing
    BY <1>1, <1>11, Begins DEF FrmSet, AtfBegin, AtfSet, AtfAsk, AtfAgain, FrmDisp, FrmDisp2,
       MsgRestart, MsgLost, NullDisp, NullDisp2, EnDisDevice, Load, Playing
  <2>2. QED
    BY <1>2, <2>1
<1>12. CASE Watches \/ Poll \/ LateReply \/ PowerCycle
            \/ \E s \in Slaves : NoRplExpires(s) \/ CrcExpires(s) \/ SlaveDies(s) \/ SlaveResets(s)
  <2>1. UNCHANGED <<cmd, task, msg, enabled, exp>>
    BY <1>12 DEF Watches, Poll, FrmSync, MsgLastFrmTmr, RqstFirst, RqstNext, LateReply,
       PowerCycle, NoRplExpires, CrcExpires, SlaveDies, SlaveResets
  <2>2. Following' = Following
    BY <1>3, <2>1 DEF Following
  <2>3. QED
    BY <1>1, <1>3, <2>1, <2>2 DEF SlotsInv
<1>13. QED
  BY <1>5, <1>6, <1>7, <1>8, <1>9, <1>10, <1>11, <1>12 DEF Next, GoesOn, Around

-----------------------------------------------------------------------------
(* What is wanted of an entry, in the terms of the slots.                  *)
LEMMA WantedIs ==
  ASSUME TasksTypeOK, LineInv, cmd.type = "msg", NEW k \in 1..Last
  PROVE  WantedEntry(k) = {Entries[k].frm} \cup Under(Entries, IF msg.again THEN Last ELSE k)
<1>1. Last \in Nat \ {0} /\ Len(Entries) = Last
  BY Contents DEF Last
<1> DEFINE W == { j \in 1..Last-1 : Overlaid(j) /\ (j < k \/ msg.again) }
           U(n) == { i \in 1..Len(Entries)-1 : Entries[i].on = "zero" /\ i # Len(Entries) /\ i < n }
<1>2. CASE msg.again
  <2>1. W = U(Last)
    BY <1>1, <1>2 DEF Overlaid
  <2>2. QED
    BY <1>2, <2>1 DEF WantedEntry, Under
<1>3. CASE ~msg.again
  <2>1. W = U(k)
    BY <1>1, <1>3 DEF Overlaid
  <2>2. QED
    BY <1>3, <2>1 DEF WantedEntry, Under
<1>4. QED
  BY <1>2, <1>3

(* The slot of the entry to be shown holds what is wanted.  In the second  *)
(* round an entry after the last overlay is not set again, and need not be.*)
LEMMA EntryReady ==
  ASSUME IInv, ~Lone, enabled, task \in {"mDisp", "mDisp2", "mCur"}, Shown(msg.disp),
         NEW s \in Slaves
  PROVE  exp[s].nCrc[msg.disp] = WantedEntry(msg.disp)
<1>1. TasksTypeOK /\ LineInv /\ CountInv /\ SlotsInv
  BY DEF IInv
<1>2. task \in Playing \ {"mFirst"} /\ task \notin Loaded /\ task # "mSet"
  BY DEF Playing, Loaded
<1>3. /\ cmd.type = "msg" /\ Last \in Nat \ {0} /\ Len(Entries) = Last
      /\ msg.disp \in 1..Last /\ msg.set \in Nat /\ msg.max \in Last..2*Last
      /\ msg.max = SetMax(Entries)
  BY <1>1, <1>2, InMessage DEF LineInv
<1>4. /\ At = msg.disp
      /\ msg.set = Base + At \/ (msg.set = msg.max /\ (msg.again \/ msg.max < At))
      /\ msg.again => Entries[Last].on # "zero"
  BY <1>1, <1>2, <1>3 DEF CountInv, At
<1>5. msg.disp <= msg.set
  BY <1>3, <1>4 DEF Base
<1>6. exp[s].nCrc[msg.disp] = {Entries[msg.disp].frm}
        \cup Under(Entries, IF msg.disp <= msg.set - Last THEN Last ELSE msg.disp)
  BY <1>1, <1>2, <1>3, <1>5 DEF SlotsInv, Filled
<1>7. WantedEntry(msg.disp) = {Entries[msg.disp].frm}
        \cup Under(Entries, IF msg.again THEN Last ELSE msg.disp)
  BY <1>1, <1>3, WantedIs
<1>8. CASE ~msg.again
  <2>1. ~(msg.disp <= msg.set - Last)
    BY <1>3, <1>4, <1>8 DEF Base
  <2>2. QED
    BY <1>6, <1>7, <1>8, <2>1
<1>9. CASE msg.again /\ msg.disp <= msg.set - Last
  BY <1>6, <1>7, <1>9
<1>10. CASE msg.again /\ ~(msg.disp <= msg.set - Last)
  <2>1. msg.set = SetMax(Entries) /\ msg.disp > SetMax(Entries) - Last
    BY <1>3, <1>4, <1>10 DEF Base
  <2>2. msg.disp = Last \/ Entries[msg.disp].on # "zero"
    BY DEF Shown, Overlaid
  <2>3. \A j \in 1..Last-1 : Entries[j].on = "zero" => j < msg.disp
    BY <1>3, <1>4, <1>10, <2>1, <2>2, SetMaxBounds
  <2>4. Under(Entries, msg.disp) = Under(Entries, Last)
    BY <1>3, <2>3 DEF Under
  <2>5. QED
    BY <1>6, <1>7, <1>10, <2>4
<1>11. QED
  BY <1>8, <1>9, <1>10

(* What the slaves are told is what is wanted, and no answer of before is  *)
(* taken for one of after.                                                 *)
LEMMA ShowStep ==
  ASSUME IInv, Next
  PROVE  ShowInv'
<1>1. /\ TasksTypeOK /\ LineInv /\ CountInv /\ SlotsInv /\ FrmInv /\ BlankSlot /\ ShowInv /\ AirInv
      /\ msg \in Counters /\ exp \in [Slaves -> Expectation] /\ dev \in [Slaves -> Device]
      /\ rep \in [Slaves -> Reply]
  BY Typed DEF IInv
<1>2. ASSUME ~Showing', ~Sending' PROVE ShowInv'
  BY <1>2 DEF ShowInv
<1>3. 0 \in Slots /\ 1 \in Slots /\ msg.disp \in Slots
  BY <1>1, TaskConstants DEF Slots, Counters
<1>4. ASSUME UNCHANGED <<cmd, enabled>>, msg'.disp = msg.disp, msg'.again = msg.again
      PROVE  /\ \A s \in Slaves : Wanted(s)' = Wanted(s)
             /\ Shown(msg.disp)' = Shown(msg.disp) /\ Lone' = Lone
  <2>1. Entries' = Entries /\ Last' = Last
    BY <1>4 DEF Entries, Last
  <2>2. \A k : WantedEntry(k)' = WantedEntry(k) /\ Overlaid(k)' = Overlaid(k)
    BY <1>4, <2>1 DEF WantedEntry, Overlaid
  <2>3. QED
    BY <1>4, <2>2 DEF Wanted, Frame, Shown, Lone
<1>5. ASSUME Showing, UNCHANGED <<cmd, enabled>>, msg'.disp = msg.disp, msg'.again = msg.again,
             \A s \in Slaves : exp'[s].cur = exp[s].cur /\ exp'[s].cCrc = exp[s].cCrc,
             Sound'
      PROVE  ShowInv'
  BY <1>1, <1>4, <1>5 DEF ShowInv, Told
<1>6. ASSUME Showing, UNCHANGED <<cmd, enabled, dev, rep>>, msg'.disp = msg.disp, msg'.again = msg.again,
             \A s \in Slaves : exp'[s].cur = exp[s].cur /\ exp'[s].cCrc = exp[s].cCrc
      PROVE  ShowInv'
  <2>1. Sound'
    BY <1>1, <1>6 DEF ShowInv, Sound
  <2>2. QED
    BY <1>5, <1>6, <2>1
<1>7. ASSUME UNCHANGED <<cmd, enabled>>, msg'.disp = msg.disp, msg'.again = msg.again,
             ~Lone => \A s \in Slaves : exp'[s].cCrc[exp'[s].cur] = Wanted(s),
             Showing' => \A s \in Slaves : ~rep'[s].rx
      PROVE  ShowInv'
  BY <1>4, <1>7 DEF ShowInv, Told, Sound
<1>8. CASE FrmDisp \/ FrmDisp2
  <2>1. PICK bak \in BOOLEAN, L \in Losers : SDFrame(IF Blank THEN 0 ELSE 1, bak, L)
    BY <1>8 DEF FrmDisp, FrmDisp2
  <2>2. \A s \in Slaves : exp'[s].cCrc[exp'[s].cur]
                            = IF enabled THEN exp[s].nCrc[IF Blank THEN 0 ELSE 1] ELSE {}
    BY <1>1, <1>3, <2>1, SDFrameDoes
  <2>3. cmd.type \in {"frm", "atf"}
    BY <1>1, <1>8 DEF FrmDisp, FrmDisp2, LineInv, Blank, IsBlank
  <2>4. enabled => \A s \in Slaves : exp[s].nCrc[IF Blank THEN 0 ELSE 1] = Frame(s)
    <3>1. CASE Blank
      BY <1>1, <3>1 DEF BlankSlot, Blank, IsBlank, Frame
    <3>2. CASE ~Blank
      BY <1>1, <1>8, <3>2 DEF FrmDisp, FrmDisp2, FrmInv, FrmSlot
    <3>3. QED
      BY <3>1, <3>2
  <2>5. \A s \in Slaves : exp'[s].cCrc[exp'[s].cur] = Wanted(s)
    BY <2>2, <2>3, <2>4 DEF Wanted
  <2>6. UNCHANGED <<cmd, enabled, msg>>
    BY <1>8 DEF FrmDisp, FrmDisp2
  <2>7. Showing' => \A s \in Slaves : ~rep'[s].rx
    BY <1>1, <1>8, ResetDoes DEF FrmDisp, FrmDisp2, Showing
  <2>8. QED
    BY <1>7, <2>5, <2>6, <2>7
<1>9. CASE MsgDisp \/ MsgDisp2
  <2>1. PICK L \in Losers : SDFrame(msg.disp, FALSE, L)
    BY <1>9 DEF MsgDisp, MsgDisp2
  <2>2. \A s \in Slaves : exp'[s].cCrc[exp'[s].cur] = IF enabled THEN exp[s].nCrc[msg.disp] ELSE {}
    BY <1>1, <1>3, <2>1, SDFrameDoes
  <2>3. task \in {"mDisp", "mDisp2", "mCur"} /\ Shown(msg.disp)
    BY <1>1, <1>9 DEF MsgDisp, MsgDisp2, LineInv, Retry
  <2>4. cmd.type = "msg"
    BY <1>1, <2>3 DEF LineInv, Playing
  <2>5. ~Lone => \A s \in Slaves : exp'[s].cCrc[exp'[s].cur] = Wanted(s)
    BY <2>2, <2>3, <2>4, EntryReady DEF Wanted
  <2>6. UNCHANGED <<cmd, enabled>> /\ msg'.disp = msg.disp /\ msg'.again = msg.again
    BY <1>1, <1>9 DEF MsgDisp, MsgDisp2, Counters
  <2>7. Showing' => \A s \in Slaves : ~rep'[s].rx
    BY <1>1, <1>9, ResetDoes DEF MsgDisp, MsgDisp2, Showing
  <2>8. QED
    BY <1>7, <2>5, <2>6, <2>7
<1>10. CASE NullDisp \/ NullDisp2
  <2>1. PICK L \in Losers : SDFrame(0, FALSE, L)
    BY <1>10 DEF NullDisp, NullDisp2
  <2>2. \A s \in Slaves : exp'[s].cCrc[exp'[s].cur] = IF enabled THEN exp[s].nCrc[0] ELSE {}
    BY <1>1, <1>3, <2>1, SDFrameDoes
  <2>3. cmd.type = "null"
    BY <1>1, <1>10 DEF NullDisp, NullDisp2, LineInv
  <2>4. \A s \in Slaves : exp'[s].cCrc[exp'[s].cur] = Wanted(s)
    BY <1>1, <2>2, <2>3 DEF Wanted, BlankSlot
  <2>5. UNCHANGED <<cmd, enabled, msg>>
    BY <1>10 DEF NullDisp, NullDisp2
  <2>6. Showing' => \A s \in Slaves : ~rep'[s].rx
    BY <1>1, <1>10, ResetDoes DEF NullDisp, NullDisp2, Showing
  <2>7. QED
    BY <1>7, <2>4, <2>5, <2>6
<1>11. CASE MsgSkip
  <2>1. task' = "mLoad" /\ Overlaid(msg.disp) /\ UNCHANGED <<cmd, enabled, msg>>
    BY <1>11 DEF MsgSkip
  <2>2. ~Showing' /\ ~Sending'
    BY <1>4, <2>1 DEF Showing, Sending, Shown
  <2>3. QED
    BY <1>2, <2>2
<1>12. CASE MsgShown
  <2>1. /\ task = "mCur" /\ UNCHANGED <<cmd, enabled, dev, rep>>
        /\ msg'.disp = msg.disp /\ msg'.again = msg.again
    BY <1>1, <1>12 DEF MsgShown, Counters
  <2>2. ASSUME NEW s \in Slaves PROVE exp'[s].cur = exp[s].cur /\ exp'[s].cCrc = exp[s].cCrc
    BY <1>1, <1>12 DEF MsgShown, Expectation
  <2>3. QED
    BY <1>6, <2>1, <2>2 DEF Showing
<1>13. CASE MsgLay \/ MsgIsSet \/ MsgHold
  <2>1. /\ task \in {"mLoad", "mSet", "mHold"} /\ UNCHANGED <<cmd, enabled, dev, rep, exp>>
        /\ msg'.disp = msg.disp /\ msg'.again = msg.again
    BY <1>1, <1>13 DEF MsgLay, MsgIsSet, MsgHold, Counters
  <2>2. CASE Shown(msg.disp)
    BY <1>6, <2>1, <2>2 DEF Showing
  <2>3. CASE ~Shown(msg.disp)
    <3>1. task' \in {"mHold", "mDone"}
      BY <1>13, <2>3 DEF MsgLay, MsgIsSet, MsgHold
    <3>2. ~Showing' /\ ~Sending'
      BY <1>4, <2>1, <2>3, <3>1 DEF Showing, Sending
    <3>3. QED
      BY <1>2, <3>2
  <2>4. QED
    BY <2>2, <2>3
<1>14. CASE MsgSet
  <2>1. /\ task \in {"mLoad", "mSet"} /\ task' = "mSet" /\ UNCHANGED <<cmd, enabled, msg>>
        /\ \A s \in Slaves : ~rep'[s].rx
    BY <1>1, <1>14, ResetDoes DEF MsgSet
  <2>2. Sound'
    BY <2>1 DEF Sound
  <2>3. \A s \in Slaves : exp'[s].cur = exp[s].cur /\ exp'[s].cCrc = exp[s].cCrc
    BY <1>14, SetsSlot
  <2>4. CASE Shown(msg.disp)
    BY <1>5, <2>1, <2>2, <2>3, <2>4 DEF Showing
  <2>5. CASE ~Shown(msg.disp)
    <3>1. ~Showing' /\ ~Sending'
      BY <1>4, <2>1, <2>5 DEF Showing, Sending
    <3>2. QED
      BY <1>2, <3>1
  <2>6. QED
    BY <2>4, <2>5
<1>15. CASE FrmSet \/ AtfBegin \/ AtfSet \/ AtfAsk \/ AtfAgain \/ MsgBegin \/ MsgFirst \/ MsgFirstSet
            \/ MsgRestart \/ MsgLost \/ MsgOver \/ MsgTrans \/ MsgTrans2 \/ MsgDone \/ MsgRound
            \/ EnDisDevice \/ (\E c \in Cmds : Load(c))
  <2>1. task' \notin {"fCur", "nCur", "mCur", "mOn", "mLoad", "mSet", "mHold", "fDisp2", "nDisp2",
                     "mDisp2"}
    BY <1>1, <1>15, Begins DEF FrmSet, AtfBegin, AtfSet, AtfAsk, AtfAgain, MsgBegin, MsgFirst,
       MsgFirstSet, MsgRestart, MsgLost, MsgOver, MsgTrans, MsgTrans2, MsgDone, MsgRound,
       EnDisDevice, Load, TasksTypeOK
  <2>2. QED
    BY <1>2, <2>1 DEF Showing, Sending
<1>16. ASSUME UNCHANGED <<cmd, enabled, msg, task, exp>>, Showing => Sound' PROVE ShowInv'
  <2>1. Showing' = Showing /\ Sending' = Sending /\ Lone' = Lone
    BY <1>4, <1>16 DEF Showing, Sending
  <2>2. Told => Told'
    BY <1>4, <1>16 DEF Told
  <2>3. QED
    BY <1>1, <1>16, <2>1, <2>2 DEF ShowInv
<1>17. CASE Watches \/ \E s \in Slaves : NoRplExpires(s) \/ CrcExpires(s)
  <2>1. UNCHANGED <<cmd, enabled, msg, task, exp, dev, rep>>
    BY <1>17 DEF Watches, FrmSync, MsgLastFrmTmr, NoRplExpires, CrcExpires
  <2>2. Sound => Sound'
    BY <2>1 DEF Sound
  <2>3. QED
    BY <1>1, <1>16, <2>1, <2>2 DEF ShowInv
<1>18. CASE Poll
  <2>1. UNCHANGED <<cmd, enabled, msg, task, exp>>
    BY <1>18 DEF Poll, RqstFirst, RqstNext
  <2>2. PICK i \in 1..NSlaves+1, sp \in [Slaves -> Supervision] : Rqst(i, sp)
    <3>1. CASE RqstFirst
      BY <1>1, <3>1, Typed DEF RqstFirst, TasksTypeOK
    <3>2. CASE RqstNext
      BY <1>1, <3>2, NextRqst
    <3>3. QED
      BY <1>18, <3>1, <3>2 DEF Poll
  <2>3. \A s \in Slaves :
          /\ dev'[s].shown = dev[s].shown /\ dev'[s].alive = dev[s].alive
          /\ \/ rep'[s] = rep[s] /\ dev'[s] = dev[s]
             \/ rep'[s].rx /\ rep'[s].stC = 0 => dev[s].shown = exp[s].cCrc[exp[s].cur]
    BY <1>1, <2>2, RqstDoes
  <2>4. Sound => Sound'
    BY <2>1, <2>3 DEF Sound
  <2>5. QED
    BY <1>1, <1>16, <2>1, <2>4 DEF ShowInv
<1>19. CASE LateReply
  <2>1. /\ air.s \in Slaves /\ UNCHANGED <<cmd, enabled, msg, task, exp, dev>>
        /\ rep' = [rep EXCEPT ![air.s] = Decoded(exp[air.s], air.st)]
    BY <1>1, <1>19 DEF LateReply, TasksTypeOK
  <2>2. ASSUME Sound, NEW s \in Slaves, rep'[s].rx, rep'[s].stC = 0, dev[s].alive, ~dev[s].booted
        PROVE  dev[s].shown = exp[s].cCrc[exp[s].cur]
    <3>1. CASE s = air.s
      <4>1. exp[s].cCrc[exp[s].cur] = air.st.shown
        BY <1>1, <2>1, <2>2, <3>1, DecodedType
      <4>2. QED
        BY <1>1, <1>19, <2>2, <3>1, <4>1 DEF AirInv, LateReply
    <3>2. CASE s # air.s
      BY <1>1, <2>1, <2>2, <3>2 DEF Sound
    <3>3. QED
      BY <3>1, <3>2
  <2>3. Sound => Sound'
    BY <2>1, <2>2 DEF Sound
  <2>4. QED
    BY <1>1, <1>16, <2>1, <2>3 DEF ShowInv
<1>20. CASE PowerCycle
  <2>1. UNCHANGED <<cmd, enabled, msg, task, exp>> /\ \A s \in Slaves : ~rep'[s].rx
    BY <1>1, <1>20, ResetDoes DEF PowerCycle
  <2>2. QED
    BY <1>16, <2>1 DEF Sound
<1>21. ASSUME NEW x \in Slaves, SlaveDies(x) \/ SlaveResets(x) PROVE ShowInv'
  <2>1. UNCHANGED <<cmd, enabled, msg, task, exp, rep>>
    BY <1>21 DEF SlaveDies, SlaveResets
  <2>2. ASSUME NEW s \in Slaves, dev'[s].alive, ~dev'[s].booted PROVE dev'[s] = dev[s]
    <3>1. Blanked(dev[x]).booted
      BY <1>1 DEF Blanked, Device
    <3>2. CASE SlaveDies(x)
      BY <1>1, <2>2, <3>2 DEF SlaveDies, Device
    <3>3. CASE SlaveResets(x)
      BY <1>1, <2>2, <3>1, <3>3 DEF SlaveResets
    <3>4. QED
      BY <1>21, <3>2, <3>3
  <2>3. Sound => Sound'
    BY <2>1, <2>2 DEF Sound
  <2>4. QED
    BY <1>1, <1>16, <2>1, <2>3 DEF ShowInv
<1>22. QED
  BY <1>8, <1>9, <1>10, <1>11, <1>12, <1>13, <1>14, <1>15, <1>17, <1>18, <1>19, <1>20, <1>21
     DEF Next, GoesOn, Around

-----------------------------------------------------------------------------
(* The controller starts with every expectation blank and no answer.       *)
LEMMA TasksBegin ==
  ASSUME Init
  PROVE  IInv
<1>1. /\ 0 \in Slots /\ 1 \in Slots /\ 1 \in 1..MaxSlot /\ MaxSlot \in Nat /\ NSlaves \in Nat
      /\ MaxFaults \in Nat /\ MaxLoads \in Nat /\ OldFrames \subseteq Frames
      /\ 1 \in 1..NSlaves+1 /\ 0 \in 0..2*MaxSlot
  BY TaskConstants DEF Slots
<1>2. TaskOf(cmd) \in {"frm", "msg"} /\ cmd \in Cmds /\ task = TaskOf(cmd)
  BY Begins DEF Init
<1>3. TasksTypeOK
  <2>1. PICK old \in { {f} : f \in OldFrames } \cup {{}} :
          dev = [s \in Slaves |->
                   [ store |-> [k \in 1..MaxSlot |-> IF old # {} /\ k = 1 THEN old ELSE Erased],
                     cur |-> IF old = {} THEN 0 ELSE 1, shown |-> old,
                     nxt |-> IF old = {} THEN 0 ELSE 1, alive |-> TRUE, booted |-> FALSE ]]
    BY DEF Init
  <2>2. dev \in [Slaves -> Device]
    <3>1. old \in Content
      BY <1>1, <2>1 DEF Content
    <3> DEFINE st == [k \in 1..MaxSlot |-> IF old # {} /\ k = 1 THEN old ELSE Erased]
    <3>2. st \in [1..MaxSlot -> Content \cup {Erased}]
      BY <3>1
    <3> HIDE DEF st
    <3>3. dev = [s \in Slaves |-> [ store |-> st, cur |-> IF old = {} THEN 0 ELSE 1, shown |-> old,
                     nxt |-> IF old = {} THEN 0 ELSE 1, alive |-> TRUE, booted |-> FALSE ]]
      BY <2>1 DEF st
    <3>4. QED
      BY <1>1, <3>1, <3>2, <3>3 DEF Device
  <2>3. exp \in [Slaves -> Expectation]
    <3> DEFINE z == [k \in Slots |-> {}]
    <3>1. z \in [Slots -> Content]
      BY DEF Content
    <3> HIDE DEF z
    <3>2. exp = [s \in Slaves |-> [cur |-> 0, next |-> 0, bak |-> 0, cCrc |-> z, nCrc |-> z]]
      BY DEF Init, z
    <3>3. QED
      BY <1>1, <3>1, <3>2 DEF Expectation
  <2>4. rep \in [Slaves -> Reply] /\ sup \in [Slaves -> Supervision]
    BY DEF Init, Reply, Supervision, Timer
  <2>5. msg \in Counters
    BY <1>1 DEF Init, Counters, Content
  <2>6. /\ atf \subseteq Slaves /\ ready \in BOOLEAN /\ enabled \in BOOLEAN /\ air = None
        /\ faults \in 0..MaxFaults /\ loads \in 0..MaxLoads
    BY <1>1 DEF Init
  <2>7. rq \in [i : 1..NSlaves+1, asked : BOOLEAN]
    BY <1>1 DEF Init
  <2>8. QED
    BY <1>2, <2>2, <2>3, <2>4, <2>5, <2>6, <2>7
       DEF TasksTypeOK, Device, Expectation, Reply, Supervision, Counters, Urgent
<1>4. LineInv
  BY <1>2, Begins DEF LineInv, Playing
<1>5. BlankSlot
  BY <1>1 DEF Init, BlankSlot
<1>6. FrmInv /\ CountInv /\ SlotsInv /\ ShowInv
  BY <1>2 DEF FrmInv, CountInv, SlotsInv, ShowInv, Showing, Sending, Playing
<1>7. AirInv
  BY DEF Init, AirInv
<1>8. QED
  BY <1>3, <1>4, <1>5, <1>6, <1>7 DEF IInv

(* The invariant follows the expectation through every line.               *)
LEMMA TasksInvariant == Spec => []IInv
<1>1. Init => IInv
  BY TasksBegin
<1>2. IInv /\ [Next]_vars => IInv'
  <2> SUFFICES ASSUME IInv, [Next]_vars PROVE IInv'
    OBVIOUS
  <2>1. CASE Next
    BY <2>1, TypeStep, LineStep, BlankStep, FrmStep, CountStep, SlotsStep, ShowStep, AirStep
       DEF IInv
  <2>2. CASE UNCHANGED vars
    <3>1. /\ UNCHANGED <<dev, exp, rep, sup, cmd, task, atf>>
          /\ UNCHANGED <<msg, ready, rq, air, enabled, faults, loads>>
      BY <2>2 DEF vars
    <3>2. /\ Entries' = Entries /\ Last' = Last /\ Lone' = Lone /\ Blank' = Blank
          /\ \A k : Shown(k)' = Shown(k) /\ \A s : Frame(s)' = Frame(s)
      BY <3>1 DEF Entries, Last, Lone, Blank, Shown, Overlaid, Frame
    <3>3. Following' = Following /\ Base' = Base /\ At' = At /\ \A k : Filled(k)' = Filled(k)
      BY <3>1, <3>2 DEF Following, Base, At, Filled
    <3>4. \A s : Wanted(s)' = Wanted(s)
      <4>1. \A k : WantedEntry(k)' = WantedEntry(k)
        BY <3>1 DEF WantedEntry, Entries, Last, Overlaid
      <4>2. QED
        BY <3>1, <3>2, <4>1 DEF Wanted
    <3>5. TasksTypeOK'
      BY <3>1, Typed, NowTyped DEF IInv, TasksTypeOK
    <3>6. LineInv' /\ BlankSlot' /\ FrmInv'
      BY <3>1, <3>2 DEF IInv, LineInv, BlankSlot, FrmInv, FrmSlot
    <3>7. CountInv' /\ SlotsInv'
      BY <3>1, <3>2, <3>3 DEF IInv, CountInv, SlotsInv
    <3>8. ShowInv' /\ AirInv'
      BY <3>1, <3>2, <3>4 DEF IInv, ShowInv, Told, Sound, Showing, Sending, AirInv
    <3>9. QED
      BY <3>5, <3>6, <3>7, <3>8 DEF IInv
  <2>3. QED
    BY <2>1, <2>2
<1>3. QED
  BY <1>1, <1>2, PTL DEF Spec

(* The variables of the tasks have their types.                            *)
THEOREM TasksTypeCorrect == Spec => []TasksTypeOK
<1>1. IInv => TasksTypeOK
  BY DEF IInv
<1>2. QED
  BY <1>1, TasksInvariant, PTL

(* While the controller reports a frame or message as displayed, every     *)
(* slave was told to show it, and shows it unless it has reset or fallen   *)
(* silent since its answer (Slave::CheckCurrent, Group::TaskFrm, TaskMsg). *)
(* Only a message of one entry without onTime is reported unset, for as    *)
(* long as it is the command.                                              *)
THEOREM TasksReportedIsShown == Spec => [](~LoneEntry(cmd) => ReportedIsShown)
<1>1. IInv => (~LoneEntry(cmd) => ReportedIsShown)
  <2> SUFFICES ASSUME IInv, ~LoneEntry(cmd), Satisfied, NEW s \in Slaves
               PROVE  /\ exp[s].cCrc[exp[s].cur] = Wanted(s)
                      /\ dev[s].alive /\ ~dev[s].booted => dev[s].shown = Wanted(s)
    BY DEF ReportedIsShown
  <2>1. Showing /\ TasksTypeOK /\ AllCurrent = 0 /\ ShowInv /\ ~Lone
    BY DEF Satisfied, Showing, IInv, Lone
  <2>2. rep[s].rx /\ rep[s].stC = 0
    BY <2>1, AllAnswered
  <2>3. QED
    BY <2>1, <2>2 DEF ShowInv, Told, Sound
<1>2. QED
  BY <1>1, TasksInvariant, PTL

(* And so, when no message of that kind can be commanded, always.          *)
THEOREM TasksReportedAlwaysShown ==
  ASSUME \A c \in Cmds : ~LoneEntry(c)
  PROVE  Spec => []ReportedIsShown
<1>1. TasksTypeOK /\ (~LoneEntry(cmd) => ReportedIsShown) => ReportedIsShown
  BY DEF TasksTypeOK
<1>2. QED
  BY <1>1, TasksTypeCorrect, TasksReportedIsShown, PTL

-----------------------------------------------------------------------------
(* Every step of the tasks is a turn of DisplayRound: a line of TaskMsg is  *)
(* before the first entry, inside a round or after its last entry, and      *)
(* readyToLoad moves with it.  The counters say where MsgFirstSet and       *)
(* MsgDone come to the loop.                                                *)
LEMMA PlaysStep ==
  ASSUME IInv, [Next]_vars
  PROVE  [Rounds!Turn]_(Rounds!roundVars)
<1> USE DEF Rounds!Finds, Rounds!Waits, Rounds!Starts, Rounds!Ends
<1> DEFINE Places == {"begin", "loop", "end"}
<1>0. RoundNow \in Places /\ ready \in BOOLEAN /\ enabled \in BOOLEAN
  BY DEF RoundNow, IInv, TasksTypeOK
<1>1. ASSUME NEW r \in Places, NEW o \in BOOLEAN, Rounds!Finds(r, o),
             Rounds!Waits(r, o) \/ Rounds!Starts(o) \/ Rounds!Ends(r)
      PROVE  Rounds!Turn
  BY <1>1 DEF Rounds!Turn
<1>2. ASSUME UNCHANGED << task, msg, cmd, ready, enabled >>
      PROVE  UNCHANGED Rounds!roundVars
  <2>1. RoundNow' = RoundNow
    BY <1>2 DEF RoundNow, Last, Entries
  <2>2. QED
    BY <1>2, <2>1 DEF Rounds!roundVars
<1>3. ASSUME UNCHANGED enabled, RoundNow' = RoundNow, ready' \in {ready, TRUE}
      PROVE  Rounds!Turn
  <2>1. ready' \in BOOLEAN
    BY <1>0, <1>3
  <2>2. Rounds!Finds(RoundNow, ready') /\ Rounds!Waits(RoundNow, ready')
    BY <1>3
  <2>3. QED
    BY <1>0, <1>1, <2>1, <2>2
<1>4. ASSUME enabled' \in BOOLEAN, RoundNow' = "begin", ready' \in {ready, TRUE}
      PROVE  Rounds!Turn
  <2>1. ready' \in BOOLEAN
    BY <1>0, <1>4
  <2>2. Rounds!Finds("begin", ready') /\ Rounds!Waits("begin", ready')
    BY <1>4
  <2>3. QED
    BY <1>1, <2>1, <2>2
<1>5. ASSUME UNCHANGED enabled, RoundNow' = "loop", ready' = (ready /\ ~enabled)
      PROVE  Rounds!Turn
  <2>1. Rounds!Finds(RoundNow, ready) /\ Rounds!Starts(ready)
    BY <1>5
  <2>2. QED
    BY <1>0, <1>1, <2>1
<1>6. ASSUME UNCHANGED enabled, RoundNow \in {"loop", "end"}, RoundNow' = "end", ready' = TRUE
      PROVE  Rounds!Turn
  <2>1. CASE RoundNow = "loop"
    <3>1. Rounds!Finds(RoundNow, ready) /\ Rounds!Ends(RoundNow)
      BY <1>6, <2>1
    <3>2. QED
      BY <1>0, <1>1, <3>1
  <2>2. CASE RoundNow = "end"
    BY <1>3, <1>6, <2>2
  <2>3. QED
    BY <1>6, <2>1, <2>2
<1>7. msg \in Counters /\ msg.disp \in Nat \ {0} /\ 1 \in Nat
  BY Typed DEF IInv, TasksTypeOK, Counters
<1>8. LineInv /\ CountInv
  BY DEF IInv
<1>9. CASE FrmSet
  <2>1. RoundNow' = "begin" /\ UNCHANGED << enabled, ready >>
    BY <1>9 DEF FrmSet, RoundNow
  <2>2. QED
    BY <1>0, <1>4, <2>1
<1>10. CASE AtfBegin
  <2>1. RoundNow' = "begin" /\ UNCHANGED << enabled, ready >>
    BY <1>10 DEF AtfBegin, RoundNow
  <2>2. QED
    BY <1>0, <1>4, <2>1
<1>11. CASE AtfSet
  <2>1. RoundNow' = "begin" /\ UNCHANGED << enabled, ready >>
    BY <1>11 DEF AtfSet, RoundNow
  <2>2. QED
    BY <1>0, <1>4, <2>1
<1>12. CASE AtfAsk
  <2>1. RoundNow' = "begin" /\ UNCHANGED << enabled, ready >>
    BY <1>12 DEF AtfAsk, RoundNow
  <2>2. QED
    BY <1>0, <1>4, <2>1
<1>13. CASE AtfAgain
  <2>1. RoundNow' = "begin" /\ UNCHANGED << enabled, ready >>
    BY <1>13 DEF AtfAgain, RoundNow
  <2>2. QED
    BY <1>0, <1>4, <2>1
<1>14. CASE FrmDisp
  <2>1. RoundNow' = "begin" /\ UNCHANGED << enabled, ready >>
    BY <1>14 DEF FrmDisp, RoundNow
  <2>2. QED
    BY <1>0, <1>4, <2>1
<1>15. CASE FrmDisp2
  <2>1. RoundNow' = "begin" /\ UNCHANGED << enabled, ready >>
    BY <1>15 DEF FrmDisp2, RoundNow
  <2>2. QED
    BY <1>0, <1>4, <2>1
<1>16. CASE MsgFirst
  <2>1. RoundNow' = "begin" /\ UNCHANGED << enabled, ready >>
    BY <1>16 DEF MsgFirst, RoundNow
  <2>2. QED
    BY <1>0, <1>4, <2>1
<1>17. CASE MsgRestart
  <2>1. RoundNow' = "begin" /\ UNCHANGED << enabled, ready >>
    BY <1>17 DEF MsgRestart, RoundNow
  <2>2. QED
    BY <1>0, <1>4, <2>1
<1>18. CASE MsgLost
  <2>1. RoundNow' = "begin" /\ UNCHANGED << enabled, ready >>
    BY <1>18 DEF MsgLost, RoundNow
  <2>2. QED
    BY <1>0, <1>4, <2>1
<1>19. CASE NullDisp
  <2>1. RoundNow' = "begin" /\ UNCHANGED << enabled, ready >>
    BY <1>19 DEF NullDisp, RoundNow
  <2>2. QED
    BY <1>0, <1>4, <2>1
<1>20. CASE NullDisp2
  <2>1. RoundNow' = "begin" /\ UNCHANGED << enabled, ready >>
    BY <1>20 DEF NullDisp2, RoundNow
  <2>2. QED
    BY <1>0, <1>4, <2>1
<1>21. CASE MsgBegin
  <2>1. RoundNow' = "begin" /\ UNCHANGED << enabled, ready >>
    BY <1>21 DEF MsgBegin, RoundNow
  <2>2. QED
    BY <1>0, <1>4, <2>1
<1>22. CASE MsgFirstSet
  <2>1. msg.disp = 1 /\ ~msg.again
    BY <1>8, <1>22 DEF CountInv, MsgFirstSet
  <2>2. msg'.disp = 1 /\ msg'.again = msg.again
    BY <1>7, <1>22, <2>1 DEF MsgFirstSet, Counters
  <2>3. RoundNow' = "begin" /\ UNCHANGED << enabled, ready >>
    BY <1>22, <2>1, <2>2 DEF MsgFirstSet, RoundNow
  <2>4. QED
    BY <1>0, <1>4, <2>3
<1>23. CASE MsgSkip
  <2>1. RoundNow' = "loop" /\ UNCHANGED enabled /\ ready' = (ready /\ ~enabled)
    BY <1>23 DEF MsgSkip, RoundNow
  <2>2. QED
    BY <1>5, <2>1
<1>24. CASE MsgDisp
  <2>1. RoundNow' = "loop" /\ UNCHANGED enabled
    BY <1>24 DEF MsgDisp, RoundNow
  <2>2. CASE task = "mDisp"
    <3>1. ready' = (ready /\ ~enabled)
      BY <1>24, <2>2 DEF MsgDisp, Retry
    <3>2. QED
      BY <1>5, <2>1, <3>1
  <2>3. CASE task = "mCur"
    <3>1. RoundNow = "loop" /\ ready' = ready
      BY <1>24, <2>3 DEF MsgDisp, RoundNow
    <3>2. QED
      BY <1>0, <1>3, <2>1, <3>1
  <2>4. QED
    BY <1>24, <2>2, <2>3 DEF MsgDisp, Retry
<1>25. CASE MsgDisp2
  <2>1. RoundNow = "loop" /\ RoundNow' = "loop" /\ UNCHANGED << enabled, ready >>
    BY <1>25 DEF MsgDisp2, RoundNow
  <2>2. QED
    BY <1>0, <1>3, <2>1
<1>26. CASE MsgShown
  <2>1. RoundNow = "loop" /\ RoundNow' = "loop" /\ UNCHANGED << enabled, ready >>
    BY <1>26 DEF MsgShown, RoundNow
  <2>2. QED
    BY <1>0, <1>3, <2>1
<1>27. CASE MsgLay
  <2>1. RoundNow = "loop" /\ RoundNow' = "loop" /\ UNCHANGED << enabled, ready >>
    BY <1>27 DEF MsgLay, RoundNow
  <2>2. QED
    BY <1>0, <1>3, <2>1
<1>28. CASE MsgSet
  <2>1. RoundNow = "loop" /\ RoundNow' = "loop" /\ UNCHANGED << enabled, ready >>
    BY <1>28 DEF MsgSet, RoundNow
  <2>2. QED
    BY <1>0, <1>3, <2>1
<1>29. CASE MsgIsSet
  <2>1. RoundNow = "loop" /\ RoundNow' = "loop" /\ UNCHANGED << enabled, ready >>
    BY <1>29 DEF MsgIsSet, RoundNow
  <2>2. QED
    BY <1>0, <1>3, <2>1
<1>30. CASE MsgHold
  <2>1. RoundNow = "loop" /\ UNCHANGED << enabled, ready >>
    BY <1>30 DEF MsgHold, RoundNow
  <2>2. task' \in {"mOn", "mDone"} /\ (msg.disp = Last)' = (msg.disp = Last)
    BY <1>30 DEF MsgHold, Last, Entries
  <2>3. CASE msg.disp = Last /\ ready
    <3>1. RoundNow' = "end" /\ ready' = TRUE
      BY <1>0, <2>1, <2>2, <2>3 DEF RoundNow
    <3>2. QED
      BY <1>6, <2>1, <3>1
  <2>4. CASE ~(msg.disp = Last /\ ready)
    <3>1. RoundNow' = "loop"
      BY <1>0, <2>1, <2>2, <2>4, Zenon DEF RoundNow
    <3>2. QED
      BY <1>0, <1>3, <2>1, <3>1
  <2>5. QED
    BY <2>3, <2>4
<1>31. CASE MsgOver
  <2>1. RoundNow' = RoundNow /\ UNCHANGED << enabled, ready >>
    BY <1>31 DEF MsgOver, RoundNow, Last, Entries
  <2>2. QED
    BY <1>0, <1>3, <2>1
<1>32. CASE MsgTrans
  <2>1. UNCHANGED enabled /\ RoundNow \in {"loop", "end"}
    BY <1>32 DEF MsgTrans, RoundNow
  <2>2. CASE msg.disp = Last
    <3>1. RoundNow' = "end" /\ ready' = TRUE
      BY <1>32, <2>2 DEF MsgTrans, RoundNow, Last, Entries
    <3>2. QED
      BY <1>6, <2>1, <3>1
  <2>3. CASE msg.disp # Last
    <3>1. RoundNow' = RoundNow /\ ready' = ready
      BY <1>0, <1>32, <2>3 DEF MsgTrans, RoundNow, Last, Entries
    <3>2. QED
      BY <1>0, <1>3, <2>1, <3>1
  <2>4. QED
    BY <2>2, <2>3
<1>33. CASE MsgTrans2
  <2>1. RoundNow' = RoundNow /\ UNCHANGED << enabled, ready >>
    BY <1>33 DEF MsgTrans2, RoundNow, Last, Entries
  <2>2. QED
    BY <1>0, <1>3, <2>1
<1>34. CASE MsgDone
  <2>1. UNCHANGED enabled /\ RoundNow \in {"loop", "end"}
    BY <1>34 DEF MsgDone, RoundNow
  <2>2. CASE msg.disp = Last
    <3>1. RoundNow' = "end" /\ ready' = TRUE
      BY <1>34, <2>2 DEF MsgDone, RoundNow
    <3>2. QED
      BY <1>6, <2>1, <3>1
  <2>3. CASE msg.disp # Last
    <3>1. msg'.disp = msg.disp + 1 /\ msg'.disp > 1
      BY <1>7, <1>34, <2>3 DEF MsgDone, Counters
    <3>2. RoundNow = "loop" /\ RoundNow' = "loop" /\ ready' = ready
      BY <1>34, <2>3, <3>1 DEF MsgDone, RoundNow
    <3>3. QED
      BY <1>0, <1>3, <2>1, <3>2
  <2>4. QED
    BY <2>2, <2>3
<1>35. CASE MsgRound
  <2>1. msg'.disp = 1 /\ msg'.again
    BY <1>7, <1>35 DEF MsgRound, Counters
  <2>2. RoundNow = "end" /\ RoundNow' = "end" /\ UNCHANGED << enabled, ready >>
    BY <1>35, <2>1 DEF MsgRound, RoundNow
  <2>3. QED
    BY <1>0, <1>3, <2>2
<1>36. CASE MsgLastFrmTmr
  <2>1. UNCHANGED enabled /\ RoundNow \in {"loop", "end"}
    BY <1>36 DEF MsgLastFrmTmr, RoundNow
  <2>2. RoundNow' = "end" /\ ready' = TRUE
    BY <1>36 DEF MsgLastFrmTmr, RoundNow, Last, Entries
  <2>3. QED
    BY <1>6, <2>1, <2>2
<1>37. CASE PowerCycle
  <2>1. UNCHANGED enabled /\ ready' = TRUE
    BY <1>37 DEF PowerCycle
  <2>2. UNCHANGED << task, msg, cmd >> /\ Last' = Last
    BY <1>37 DEF PowerCycle, Last, Entries
  <2>3. CASE task \in {"mOn", "mDone", "mTrans2", "mTransW"} /\ msg.disp = Last
    <3>1. RoundNow \in {"loop", "end"} /\ RoundNow' = "end"
      BY <2>1, <2>2, <2>3 DEF RoundNow
    <3>2. QED
      BY <1>6, <2>1, <3>1
  <2>4. CASE ~(task \in {"mOn", "mDone", "mTrans2", "mTransW"} /\ msg.disp = Last)
    <3>1. RoundNow' = RoundNow
      BY <2>2, <2>4 DEF RoundNow
    <3>2. QED
      BY <1>3, <2>1, <3>1
  <2>5. QED
    BY <2>3, <2>4
<1>38. CASE EnDisDevice
  <2>1. RoundNow' = "begin" /\ ready' = ready /\ enabled' \in BOOLEAN
    BY <1>0, <1>38 DEF EnDisDevice, RoundNow, TaskOf
  <2>2. QED
    BY <1>4, <2>1
<1>39. ASSUME NEW c \in Cmds, Load(c) PROVE Rounds!Turn
  <2>1. RoundNow' = "begin" /\ ready' \in {ready, TRUE} /\ enabled' \in BOOLEAN
    BY <1>0, <1>39 DEF Load, RoundNow, TaskOf
  <2>2. QED
    BY <1>4, <2>1
<1>40. ASSUME FrmSync PROVE UNCHANGED Rounds!roundVars
  BY <1>2, <1>40 DEF FrmSync
<1>41. ASSUME RqstFirst PROVE UNCHANGED Rounds!roundVars
  BY <1>2, <1>41 DEF RqstFirst
<1>42. ASSUME RqstNext PROVE UNCHANGED Rounds!roundVars
  BY <1>2, <1>42 DEF RqstNext
<1>43. ASSUME LateReply PROVE UNCHANGED Rounds!roundVars
  BY <1>2, <1>43 DEF LateReply
<1>44. ASSUME NEW s \in Slaves, NoRplExpires(s) PROVE UNCHANGED Rounds!roundVars
  BY <1>2, <1>44 DEF NoRplExpires
<1>45. ASSUME NEW s \in Slaves, CrcExpires(s) PROVE UNCHANGED Rounds!roundVars
  BY <1>2, <1>45 DEF CrcExpires
<1>46. ASSUME NEW s \in Slaves, SlaveDies(s) PROVE UNCHANGED Rounds!roundVars
  BY <1>2, <1>46 DEF SlaveDies
<1>47. ASSUME NEW s \in Slaves, SlaveResets(s) PROVE UNCHANGED Rounds!roundVars
  BY <1>2, <1>47 DEF SlaveResets
<1>48. ASSUME UNCHANGED vars PROVE UNCHANGED Rounds!roundVars
  BY <1>2, <1>48 DEF vars
<1>49. QED
  BY <1>9, <1>10, <1>11, <1>12, <1>13, <1>14, <1>15, <1>16, <1>17, <1>18, <1>19,
     <1>20, <1>21, <1>22, <1>23, <1>24, <1>25, <1>26, <1>27, <1>28, <1>29,
     <1>30, <1>31, <1>32, <1>33, <1>34, <1>35, <1>36, <1>37, <1>38, <1>39,
     <1>40, <1>41, <1>42, <1>43, <1>44, <1>45, <1>46, <1>47, <1>48 DEF Next, GoesOn, Watches, Poll, Around

(* TaskMsg keeps what GroupDisplay makes of it: through losses, resets and  *)
(* power cycles each entry closes the round of an enabled group and only    *)
(* its end, a power-up or a new command opens it (Group::TaskMsg).          *)
THEOREM TasksPlayRounds == Spec => PlaysRounds
<1>1. Init => Rounds!RoundInit
  <2>1. SUFFICES ASSUME Init PROVE Rounds!RoundInit
    OBVIOUS
  <2>2. TaskOf(cmd) \in {"frm", "msg"} /\ enabled \in BOOLEAN
    BY <2>1 DEF Init, TaskOf
  <2>3. QED
    BY <2>1, <2>2 DEF Init, Rounds!RoundInit, RoundNow
<1>2. IInv /\ [Next]_vars => [Rounds!Turn]_(Rounds!roundVars)
  BY PlaysStep
<1>3. QED
  BY <1>1, <1>2, TasksInvariant, PTL DEF Spec, PlaysRounds, Rounds!RoundSpec
=============================================================================
