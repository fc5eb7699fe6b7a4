------------------------------- MODULE MCOtp -------------------------------
(* The counter of a license key, with the limits 10 and 60 of the code scaled *)
(* down to 1 and 2 and three workers, and the counter of a phone number.      *)
EXTENDS Otp, TLC
CONSTANTS w1, w2, w3
MCCounters ==
  { [kinds |-> {"activate", "validate"}, procs |-> {w1, w2, w3}, calls |-> 7,
     codes |-> 0, requests |-> 0],
    [kinds |-> {"send"}, procs |-> {w1, w2}, calls |-> 2, codes |-> 3, requests |-> 4],
    [kinds |-> {"send"}, procs |-> {w1, w2}, calls |-> 1, codes |-> 2, requests |-> 7] }
MCLimit == [k \in Kinds |-> IF k = "validate" THEN 2 ELSE 1]
Interchangeable == Permutations({w1, w2})
=============================================================================
