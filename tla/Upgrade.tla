------------------------------ MODULE Upgrade ------------------------------
(***************************************************************************)
(* The upload of a firmware package (src/src/tsisp003/Upgrade.cpp): file   *)
(* information, packets, start; and the web user's upload, which writes    *)
(* the same file goblin_temp/goblin.gz.tar.                                *)
(*                                                                         *)
(* rcvd comes from new uint8_t[], which sets nothing, and pktN has no      *)
(* initial value: what they are before they are written is any value.      *)
(* Unpacking, external, succeeds only on a whole package: gzip and md5sum  *)
(* check it.                                                               *)
(***************************************************************************)
EXTENDS Integers, FiniteSets

CONSTANTS
  FileSizeMin, FileSizeMax,   \* of a package, bytes
  FileSizes,                  \* lengths sent with FA10
  PktSizesK,                  \* packet sizes sent with FA10, in units
  PktLens,                    \* lengths of the packets sent with FA11
  PktMax,                     \* packet numbers sent with FA11 are 0 .. PktMax
  K                           \* 1024

VARIABLES
  info,      \* filelen, pktsizeK and totalPkt; all 0 for none
  rcvd,      \* the array of that name, a function on packet numbers
  pktN,      \* the number of the last packet, accepted or not
  ufile,     \* the pieces the file holds: packet numbers, Web or Part
  sent,      \* history: those written since the file was begun
  upgraded   \* history: the last start unpacked the file

upgVars == << info, rcvd, pktN, ufile, sent, upgraded >>

Web  == -1    \* a package written by the web user in one step
Part == -2    \* something that is no package

NoInfo == [filelen |-> 0, pktsizeK |-> 0, totalPkt |-> 0]

Packets(i) == 0 .. i.totalPkt - 1

PktSize(i) == i.pktsizeK * K

(* A package has its bytes when all packets are there, and the last one is *)
(* not empty: FilePacket wants filelen % size bytes in it, none when the   *)
(* length is a multiple of the packet size.                                *)
Whole(pieces, i) ==
  \/ pieces = {Web}
  \/ pieces = Packets(i) /\ i.filelen % PktSize(i) # 0

UpgradeInit ==
  /\ info = NoInfo
  /\ rcvd = << >>
  /\ pktN \in 0 .. PktMax
  /\ ufile = {} /\ sent = {}
  /\ upgraded = FALSE

-----------------------------------------------------------------------------
FileInfo_KeepsFile(len, sizeK) ==
  /\ len \in FileSizeMin .. FileSizeMax
  /\ sizeK \in {1, 4, 16, 64}
  /\ info' = [filelen |-> len, pktsizeK |-> sizeK,
              totalPkt |-> (len + sizeK * K - 1) \div (sizeK * K)]
  /\ rcvd' \in [Packets(info') -> BOOLEAN]
  /\ sent' = {}
  /\ upgraded' = FALSE
  /\ UNCHANGED << pktN, ufile >>

FileInfo(len, sizeK) ==
  /\ len \in FileSizeMin .. FileSizeMax
  /\ sizeK \in {1, 4, 16, 64}
  /\ info' = [filelen |-> len, pktsizeK |-> sizeK,
              totalPkt |-> (len + sizeK * K - 1) \div (sizeK * K)]
  /\ rcvd' \in [Packets(info') -> BOOLEAN]
  /\ ufile' = {} /\ sent' = {}
  /\ upgraded' = FALSE
  /\ UNCHANGED pktN

(* A packet is taken when there is file information and its number and     *)
(* length fit; its number is remembered even when it is refused.           *)
Fits(n, len) ==
  /\ n \in Packets(info)
  /\ len = IF n = info.totalPkt - 1 THEN info.filelen % PktSize(info) ELSE PktSize(info)

FilePacket(n, len) ==
  /\ info # NoInfo
  /\ pktN' = n
  /\ \/ /\ Fits(n, len)
        /\ rcvd' = [rcvd EXCEPT ![n] = TRUE]
        /\ ufile' = ufile \cup {n} /\ sent' = sent \cup {n}
     \/ UNCHANGED << rcvd, ufile, sent >>         \* refused, or not written
  /\ UNCHANGED << info, upgraded >>

(* Start looks at rcvd[pktN], once for each packet, and beyond the array   *)
(* when the last number was out of range.  Whatever unpacking returns, the *)
(* file information is forgotten.                                          *)
LooksComplete == pktN \in Packets(info) => rcvd[pktN]

UnpackFirmware(f) == Whole(f, info)

Start ==
  /\ info # NoInfo
  /\ LooksComplete
  /\ info' = NoInfo /\ rcvd' = << >> /\ pktN' = 0
  /\ upgraded' \in {FALSE, UnpackFirmware(ufile)}
  /\ UNCHANGED << ufile, sent >>

(* CMD_UpgradeFirmware replaces the file in one step and unpacks it; the   *)
(* package is good, or it is not.                                          *)
WebUpgradeFile ==
  /\ ufile' \in {{Web}, {Part}}
  /\ sent' = ufile'
  /\ UNCHANGED << info, rcvd, pktN, upgraded >>

-----------------------------------------------------------------------------
(* What FA12 acknowledges is one package, all of it: the file as begun     *)
(* last, by the packets of one upload or by the web user, and never what   *)
(* an earlier upload left.                                                 *)
UpgradeIsWhole == [][upgraded' /\ ~upgraded => Whole(sent', info)]_upgVars
=============================================================================
