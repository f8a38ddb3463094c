----------------------------- MODULE MCSignFaults -----------------------------
EXTENDS SignFaults
(* Troubles that meet in one check or mask each other come together.         *)
Meeting ==
  { {"chain", "manyLeds"}, {"overtemp", "cool"}, {"lsGone", "lsMidday"}, {"silent", "crc"},
    {"fewLeds"}, {"ls18hours"}, {"lsZero"}, {"selftest"}, {"lantern"}, {"voltage"} }
(* One trouble of each kind: several bits at once, one bit, the slaves.      *)
Alone ==
  { {"manyLeds"}, {"lsGone"}, {"silent"}, {"crc"}, {"selftest"}, {"overtemp"} }
=============================================================================
