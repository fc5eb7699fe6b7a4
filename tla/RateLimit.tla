----------------------------- MODULE RateLimit -----------------------------
(***************************************************************************)
(* _check_rate_limit of apps/licensing/services.py on the counter          *)
(* "key:<license key>", which activate, deactivate and validate share, each*)
(* with a limit of its own, and the same add, incr, set on the counter     *)
(* "waotp:cnt:<number>" of apps/notifications/otp.py (module Otp).         *)
(* cache.add and cache.incr are atomic; the entry may expire between them, *)
(* which the code answers with cache.set.                                  *)
(***************************************************************************)
EXTENDS Aggregates

CONSTANTS
  Counters,   \* counters [kinds, procs, calls]: the kinds of calls that share
              \* one, the web workers that happen to serve it, and a bound on
              \* the calls of each kind in one window
  Limit,      \* Limit[k]: calls of kind k admitted per window
  Absent

Kinds == UNION {c.kinds : c \in Counters}
Workers == UNION {c.procs : c \in Counters}

\* Kinds of calls and workers can be counted; Absent is no count.
LimiterOK ==
  /\ IsFiniteSet(Kinds) /\ \A c \in Counters : IsFiniteSet(c.procs)
  /\ Limit \in [Kinds -> Nat]
  /\ Absent \notin Nat

ASSUME RateLimitAssumption == LimiterOK

VARIABLES
  counter,    \* which counter this is
  count,      \* its cache entry
  check,      \* check[p]: program point and kind of the check p runs
  admitted, refused, \* by kind, while the entry lives (auxiliary)
  nets        \* uses of the safety net meanwhile (auxiliary)

limiterVars == <<counter, count, check, admitted, refused, nets>>

NoCheck == [pc |-> "idle", kind |-> "none"]
None == [k \in Kinds |-> 0]

LimiterInit ==
  /\ counter \in Counters
  /\ count = Absent
  /\ check = [p \in Workers |-> NoCheck]
  /\ admitted = None /\ refused = None /\ nets = 0

\* Mutant: set instead of add.
AddOverwrites(p, k) ==
  /\ p \in counter.procs /\ k \in counter.kinds
  /\ check[p].pc = "idle"
  /\ \A j \in Kinds : admitted[j] + refused[j] < counter.calls
  /\ count' = 0
  /\ check' = [check EXCEPT ![p] = [pc |-> "incr", kind |-> k]]
  /\ UNCHANGED <<counter, admitted, refused, nets>>

\* cache.add(key, 0, _RATE_WINDOW)
Add(p, k) ==
  /\ p \in counter.procs /\ k \in counter.kinds
  /\ check[p].pc = "idle"
  /\ \A j \in Kinds : admitted[j] + refused[j] < counter.calls
  /\ count' = IF count = Absent THEN 0 ELSE count
  /\ check' = [check EXCEPT ![p] = [pc |-> "incr", kind |-> k]]
  /\ UNCHANGED <<counter, admitted, refused, nets>>

\* return count > limit
Decide(p, n) ==
  LET k == check[p].kind IN
  /\ count' = n
  /\ IF n > Limit[k]
       THEN refused' = [refused EXCEPT ![k] = @ + 1] /\ UNCHANGED admitted
       ELSE admitted' = [admitted EXCEPT ![k] = @ + 1] /\ UNCHANGED refused
  /\ check' = [check EXCEPT ![p] = NoCheck]

\* cache.incr, which raises ValueError if the entry is gone.
Incr(p) ==
  /\ check[p].pc = "incr"
  /\ IF count = Absent
       THEN /\ check' = [check EXCEPT ![p] = [pc |-> "set", kind |-> @.kind]]
            /\ UNCHANGED <<count, admitted, refused>>
       ELSE Decide(p, count + 1)
  /\ UNCHANGED <<counter, nets>>

\* The safety net: cache.set(key, 1, _RATE_WINDOW).
Set(p) ==
  /\ check[p].pc = "set"
  /\ Decide(p, 1)
  /\ nets' = nets + 1
  /\ UNCHANGED counter

\* The window ends, also in the middle of a check.
Expire ==
  /\ count # Absent
  /\ count' = Absent
  /\ admitted' = None /\ refused' = None /\ nets' = 0
  /\ UNCHANGED <<counter, check>>

LimiterNext ==
  \/ \E p \in Workers : (\E k \in Kinds : Add(p, k)) \/ Incr(p) \/ Set(p)
  \/ Expire

LimiterSpec == LimiterInit /\ [][LimiterNext]_limiterVars

-----------------------------------------------------------------------------
Counted == SumOf([k \in Kinds |-> admitted[k] + refused[k]], Kinds)

\* While one counter entry lives, no kind of call is admitted more often than
\* its limit, also if the safety net's set overwrites what the others counted:
\* a worker reaches it at most once while an entry lives, so together the
\* workers then admit at most one limit's worth of calls each.
AdmittedWithinLimit ==
  \A k \in Kinds :
    admitted[k] <= Limit[k] * (IF nets = 0 THEN 1 ELSE Cardinality(counter.procs))

\* Activations, deactivations and heartbeats use up one counter.
RefusedOnlyWhenExhausted == \A k \in Kinds : refused[k] > 0 => Counted > Limit[k]

\* M3: calls are admitted up to the limit and refused only beyond it, although
\* the checks of several workers interleave, the entry may expire in the middle
\* of one and a check may count in a window it did not begin in.
LimitIsExact == AdmittedWithinLimit /\ RefusedOnlyWhenExhausted
=============================================================================
