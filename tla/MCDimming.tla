------------------------------ MODULE MCDimming ------------------------------
(* One group with one sign; the values of the tuples a .cfg cannot write.    *)
EXTENDS Dimming
Rising    == << 2, 6, 15 >>
Lum3      == << 0, 1, 3 >>
=============================================================================
