------------------------------- MODULE RingLog -------------------------------
(***************************************************************************)
(* The log of faults (src/src/uci/UciFault.cpp): a ring of entries in      *)
(* memory and an option log_<slot> per entry in a file.  Nothing says in   *)
(* the file which entry is the newest: LoadConfig takes the option it      *)
(* meets last, and rests on libuci moving an option that is written again  *)
(* to the end of its section.                                              *)
(***************************************************************************)
EXTENDS Integers, Sequences, SequencesExt

CONSTANTS
  Entries,   \* FAULT_LOG_ENTRIES
  Numbers    \* entryNo counts modulo this (a uint16_t)

ASSUME RingLogConstants == Entries \in Nat \ {0} /\ Numbers \in Nat \ {0}

Slots   == 0..Entries - 1
NoEntry == [valid |-> FALSE]   \* logTime = -1

EmptyLog  == [ring |-> [i \in Slots |-> NoEntry], last |-> -1]
EmptyFile == << >>

NextNo(log) == IF log.last = -1 THEN 0 ELSE (log.ring[log.last].no + 1) % Numbers

NextSlot(log) == IF log.last + 1 >= Entries THEN 0 ELSE log.last + 1

(* UciFault::Push in memory: what happened gets the number after the newest. *)
Logged(log, what) ==
  LET i == NextSlot(log)
  IN [ring |-> [log.ring EXCEPT ![i] = [valid |-> TRUE, no |-> NextNo(log), what |-> what]],
      last |-> i]

Written_InPlace(file, i, entry) ==
  IF \E k \in DOMAIN file : file[k].slot = i
  THEN [k \in DOMAIN file |-> IF file[k].slot = i THEN [slot |-> i, entry |-> entry] ELSE file[k]]
  ELSE Append(file, [slot |-> i, entry |-> entry])

(* libuci: an option written again leaves its place for the end. *)
Written(file, i, entry) ==
  LET old == { k \in DOMAIN file : file[k].slot = i }
      others == IF old = {} THEN file ELSE RemoveAt(file, CHOOSE k \in old : TRUE)
  IN Append(others, [slot |-> i, entry |-> entry])

(* UciFault::Push in memory, then in the file. *)
Push(s, what) ==
  LET l == Logged(s.log, what)
  IN [log |-> l, file |-> Written(s.file, l.last, l.ring[l.last])]

(* UciFault::LoadConfig. *)
Loaded(file) ==
  [ring |-> [i \in Slots |->
               IF \E k \in DOMAIN file : file[k].slot = i
               THEN file[CHOOSE k \in DOMAIN file : file[k].slot = i].entry ELSE NoEntry],
   last |-> IF file = << >> THEN -1 ELSE file[Len(file)].slot]

(* GetFaultLog20, GetLog: the k-th entry from the newest backwards, round    *)
(* the ring; those that are not valid are left out of the answer.           *)
Place(last, k) == IF k <= last + 1 THEN last + 1 - k ELSE last + 1 - k + Entries
At(log, k) == IF log.last = -1 THEN NoEntry ELSE log.ring[Place(log.last, k)]
=============================================================================
