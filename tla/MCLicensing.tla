---------------------------- MODULE MCLicensing ----------------------------
(* Two workers; two devices compete for one seat. *)
EXTENDS Licensing, TLC
CONSTANTS d1, d2, w1, w2
TwoDevices == {d1, d2}
AllCalls == Ops
MCProcs == {w1, w2}
Symmetry == Permutations(MCProcs) \cup Permutations(Devices)
=============================================================================
