----------------------------- MODULE Licensing -----------------------------
(***************************************************************************)
(* apps/licensing/services.py: activate, validate, deactivate and          *)
(* authorize_operation on one License, called by several devices through   *)
(* several web workers, while its owner frees seats from the dashboard,    *)
(* the billing jobs suspend and renew it and staff switch MAINTENANCE_MODE.*)
(*                                                                         *)
(* A handler is a sequence of statements: the unlocked read of the license,*)
(* the transaction under select_for_update, the issue of the token.  Only  *)
(* activate locks the License row; an UPDATE of that row waits for it.     *)
(* Whether the rate limiter refuses a call is left open here (module       *)
(* RateLimit).  Time is the age of the newest token of each device.        *)
(***************************************************************************)
EXTENDS Integers, FiniteSets

CONSTANTS
  Devices,     \* fingerprints
  Calls,       \* which of the calls Ops the devices make
  Procs,       \* web workers
  SeatLimit,   \* License.seat_limit
  TTL, Grace,  \* _ttl_seconds and _grace_seconds
  NoProc, NoDevice

Ops == {"activate", "validate", "deactivate", "authorize"}

ASSUME LicensingAssumption ==
  /\ SeatLimit \in Nat /\ TTL \in Nat /\ Grace \in Nat
  /\ IsFiniteSet(Devices) /\ Calls \subseteq Ops
  /\ NoProc \notin Procs /\ NoDevice \notin Devices

Old == TTL + Grace + 1   \* any age no check accepts; also: no token yet

VARIABLES
  license,     \* License.status (its license_key Grant moves with it)
  sub,         \* Subscription.status
  installed,   \* fingerprints with an ACTIVE Installation of the license
  age,         \* age[d]: age of the newest token of device d, up to Old
  maintenance, \* Setting MAINTENANCE_MODE
  lock,        \* holder of the License row lock
  proc,        \* proc[p]: program point, call, device, status read, answer
  held         \* auxiliary: held[p], the facts true at some moment of the
               \* call p is serving

vars == <<license, sub, installed, age, maintenance, lock, proc, held>>
Idle == [pc |-> "idle", op |-> "none", d |-> NoDevice, read |-> "none", ans |-> "none"]

\* _effective_access_status
access == CASE license # "active" -> license
            [] license = "active" /\ sub \in {"suspended", "cancelled"} -> "suspended"
            [] OTHER -> sub
Granting == {"active", "grace"}

\* _verify_token, for a genuine token of the device
token_status(d) == CASE age[d] <= TTL -> "active"
                     [] age[d] > TTL /\ age[d] <= TTL + Grace -> "grace"
                     [] OTHER -> "expired"

\* License.seats_available
seats_available == Cardinality(installed) < SeatLimit

Init ==
  /\ license = "active" /\ sub = "active"
  /\ installed = {}
  /\ age = [d \in Devices |-> Old]
  /\ maintenance = "false"
  /\ lock = NoProc
  /\ proc = [p \in Procs |-> Idle]
  /\ held = [p \in Procs |-> {}]

Goto(p, point) == proc' = [proc EXCEPT ![p].pc = point]
Read(p, point) == proc' = [proc EXCEPT ![p].pc = point, ![p].read = access]
Answer(p, ans) == proc' = [proc EXCEPT ![p].pc = "done", ![p].ans = ans]
At(p, op, point) == proc[p].pc = point /\ proc[p].op = op
_issue_token(d) == age' = [age EXCEPT ![d] = 0]
records == <<license, sub, installed, age, maintenance>>

\* The endpoints of licensing/api.py pass the request on unchanged.
Call(p, op, d) ==
  /\ proc[p].pc = "idle"
  /\ proc' = [proc EXCEPT ![p] = [Idle EXCEPT !.pc = "start", !.op = op, !.d = d]]
  /\ UNCHANGED <<records, lock>>

Return(p) ==
  /\ proc[p].pc = "done"
  /\ proc' = [proc EXCEPT ![p] = Idle]
  /\ UNCHANGED <<records, lock>>

\* _check_rate_limit refuses the call; maintenance answers a heartbeat first.
RateLimited(p) ==
  /\ proc[p].pc = "start"
  /\ ~(proc[p].op = "validate" /\ maintenance = "true")
  /\ Answer(p, "rate_limited")
  /\ UNCHANGED <<records, lock>>

-----------------------------------------------------------------------------
(* activate *)

\* The unlocked read: "status checks don't need a lock".
CheckStatus(p) ==
  /\ At(p, "activate", "start")
  /\ IF access \in Granting THEN Read(p, "lock") ELSE Answer(p, access)
  /\ UNCHANGED <<records, lock>>

\* Mutant: the License is read without FOR UPDATE.
ReadLicense(p) ==
  /\ At(p, "activate", "lock")
  /\ Goto(p, IF proc[p].d \in installed THEN "issue" ELSE "count")
  /\ UNCHANGED <<records, lock>>

\* select_for_update on the License; an ACTIVE Installation of the device ends
\* the transaction at once.
LockLicense(p) ==
  /\ At(p, "activate", "lock")
  /\ lock = NoProc
  /\ IF proc[p].d \in installed
       THEN Goto(p, "issue") /\ UNCHANGED lock
       ELSE Goto(p, "count") /\ lock' = p
  /\ UNCHANGED records

CountSeats(p) ==
  /\ At(p, "activate", "count")
  /\ IF seats_available THEN Goto(p, "create") /\ UNCHANGED lock
                        ELSE Answer(p, "seat_full") /\ lock' = NoProc
  /\ UNCHANGED records

\* Installation.objects.create and COMMIT.
CreateInstallation(p) ==
  /\ At(p, "activate", "create")
  /\ installed' = installed \cup {proc[p].d}
  /\ lock' = NoProc
  /\ Goto(p, "issue")
  /\ UNCHANGED <<license, sub, age, maintenance>>

\* The answer repeats the status read before the transaction.
IssueToken(p) ==
  /\ At(p, "activate", "issue")
  /\ _issue_token(proc[p].d)
  /\ Answer(p, proc[p].read)
  /\ UNCHANGED <<license, sub, installed, maintenance, lock>>

-----------------------------------------------------------------------------
(* validate *)

MaintenanceBypass(p) ==
  /\ At(p, "validate", "start")
  /\ maintenance = "true"
  /\ _issue_token(proc[p].d)
  /\ Answer(p, "active")
  /\ UNCHANGED <<license, sub, installed, maintenance, lock>>

\* Signature, license status and token age, in this order; the presented
\* token is the device's newest one, or not a token of this device at all.
ValidateToken(p) ==
  LET d == proc[p].d IN
  /\ At(p, "validate", "start")
  /\ maintenance # "true"
  /\ \/ Answer(p, "invalid")
     \/ access \notin Granting /\ Answer(p, access)
     \/ access \in Granting /\ token_status(d) = "expired" /\ Answer(p, "expired")
     \/ access \in Granting /\ token_status(d) # "expired" /\ Read(p, "seat")
  /\ UNCHANGED <<records, lock>>

\* Mutant: the token alone is enough.
ValidateTokenOnly(p) ==
  /\ At(p, "validate", "seat")
  /\ _issue_token(proc[p].d) /\ Answer(p, proc[p].read)
  /\ UNCHANGED <<license, sub, installed, maintenance, lock>>

\* M1: an ACTIVE Installation is required before the token is refreshed.
ValidateSeat(p) ==
  /\ At(p, "validate", "seat")
  /\ IF proc[p].d \in installed
       THEN _issue_token(proc[p].d) /\ Answer(p, proc[p].read)
       ELSE Answer(p, "deactivated") /\ UNCHANGED age
  /\ UNCHANGED <<license, sub, installed, maintenance, lock>>

-----------------------------------------------------------------------------
(* deactivate and the dashboard's deactivate_device *)

Release(d) == /\ installed' = installed \ {d}
              /\ UNCHANGED <<license, sub, age, maintenance, lock>>

deactivate(p) ==
  /\ At(p, "deactivate", "start")
  /\ Release(proc[p].d)
  /\ Answer(p, "deactivated")

deactivate_device(d) ==
  /\ d \in installed
  /\ Release(d)
  /\ UNCHANGED proc

-----------------------------------------------------------------------------
(* authorize_operation *)

AuthorizeChecks(p) ==
  /\ At(p, "authorize", "start")
  /\ \/ maintenance = "true" /\ Answer(p, "service_unavailable")
     \/ maintenance # "true" /\ Answer(p, "invalid")
     \/ /\ maintenance # "true" /\ token_status(proc[p].d) # "expired"
        /\ IF access \in Granting THEN Read(p, "seat") ELSE Answer(p, access)
  /\ UNCHANGED <<records, lock>>

\* The Installation, then the OperationPolicy, the entitlement it asks for and
\* the signing key, which staff may change at any time.
AuthorizeSeat(p) ==
  /\ At(p, "authorize", "seat")
  /\ IF proc[p].d \in installed
       THEN \E ans \in {"operation_unavailable", "not_entitled",
                        "service_unavailable", "authorized"} : Answer(p, ans)
       ELSE Answer(p, "deactivated")
  /\ UNCHANGED <<records, lock>>

-----------------------------------------------------------------------------
(* The surroundings *)

\* What the billing jobs and the seller's views do to the two rows (module
\* Subscription); an UPDATE of the License row waits for its lock.
Lifecycle ==
  /\ \/ sub = "active" /\ sub' = "grace" /\ UNCHANGED license
     \/ /\ sub # "cancelled" /\ sub' \in {"suspended", "cancelled", "active"} \ {sub}
        /\ UNCHANGED license
     \/ /\ lock = NoProc /\ license = "active" /\ sub # "cancelled"
        /\ license' = "suspended" /\ sub' \in {"suspended", "cancelled"}
     \/ /\ lock = NoProc /\ license = "suspended" /\ sub # "cancelled"
        /\ license' = "active" /\ sub' = "active"
  /\ UNCHANGED <<installed, age, maintenance, lock, proc>>

ToggleMaintenance ==
  /\ maintenance' = IF maintenance = "true" THEN "false" ELSE "true"
  /\ UNCHANGED <<license, sub, installed, age, lock, proc>>

\* The worker dies (or signing raises, in activate and validate): its open
\* transaction is rolled back.
Crash(p) ==
  /\ proc[p].pc \notin {"idle", "done"}
  /\ proc' = [proc EXCEPT ![p] = Idle]
  /\ lock' = IF lock = p THEN NoProc ELSE lock
  /\ UNCHANGED records

Tick ==
  /\ age' = [d \in Devices |-> IF age[d] < Old THEN age[d] + 1 ELSE Old]
  /\ age' # age
  /\ UNCHANGED <<license, sub, installed, maintenance, lock, proc>>

-----------------------------------------------------------------------------
Step(p) ==
  \/ RateLimited(p) \/ CheckStatus(p) \/ LockLicense(p) \/ CountSeats(p)
  \/ CreateInstallation(p) \/ IssueToken(p)
  \/ MaintenanceBypass(p) \/ ValidateToken(p) \/ ValidateSeat(p)
  \/ deactivate(p) \/ AuthorizeChecks(p) \/ AuthorizeSeat(p) \/ Return(p)

\* The facts the answers of a call depend on.
Watched(op) == CASE op = "activate"  -> {"access", "seat", "full"}
                 [] op = "validate"  -> {"access", "seat", "maintenance"}
                 [] op = "authorize" -> {"access", "seat", "normal"}
                 [] OTHER -> {}

Facts(p) == {f \in Watched(proc[p].op) :
               CASE f = "access" -> access \in Granting
                 [] f = "seat" -> proc[p].d \in installed
                 [] f = "full" -> ~seats_available
                 [] f = "maintenance" -> maintenance = "true"
                 [] f = "normal" -> maintenance # "true"}

\* Records the facts of the state a step leads to, for the calls under way.
Observe == held' = [p \in Procs |-> IF proc'[p].pc = "idle" THEN {}
                                    ELSE held[p] \cup Facts(p)']

Action ==
  \/ \E p \in Procs : Step(p) \/ Crash(p)
  \/ \E p \in Procs, op \in Calls, d \in Devices : Call(p, op, d)
  \/ \E d \in Devices : deactivate_device(d)
  \/ Lifecycle \/ ToggleMaintenance \/ Tick

Next == Action /\ Observe

Spec == Init /\ [][Next]_vars

-----------------------------------------------------------------------------
Points == {"idle", "start", "lock", "count", "create", "issue", "seat", "done"}
Answers == {"none", "rate_limited", "invalid", "active", "grace", "suspended",
            "expired", "seat_full", "deactivated", "service_unavailable",
            "operation_unavailable", "not_entitled", "authorized"}

TypeOK ==
  /\ license \in {"active", "suspended"}
  /\ sub \in {"active", "grace", "suspended", "cancelled"}
  /\ installed \subseteq Devices
  /\ age \in [Devices -> 0..Old]
  /\ maintenance \in {"true", "false"}
  /\ lock \in Procs \cup {NoProc}
  /\ proc \in [Procs -> [pc : Points, op : Ops \cup {"none"}, d : Devices \cup {NoDevice},
                         read : Granting \cup {"none"}, ans : Answers]]
  /\ \A p \in Procs : proc[p].pc # "idle" => proc[p].d \in Devices
  /\ held \in [Procs -> SUBSET {"access", "seat", "full", "maintenance", "normal"}]

\* H1: concurrent activations never register more devices than the license
\* has seats, although releases, suspensions and crashes run beside them.
SeatsNeverExceeded == Cardinality(installed) <= SeatLimit

\* The insert never meets an ACTIVE row of its fingerprint, so the partial
\* unique index never turns an activation into a server error.
UniqueNeverTrips == \A p \in Procs : proc[p].pc = "create" => proc[p].d \notin installed

\* Each answer states facts that held at some moment of the call: a token
\* needs access and a seat (M1: an old token of a deactivated device brings
\* nothing) except during maintenance, an authorization also needs a moment
\* outside maintenance, and a refusal for seats a moment with none free.
AnswersHeld ==
  \A p \in Procs :
    LET c == proc[p] IN
    /\ c.op = "activate" /\ c.ans \in Granting => {"access", "seat"} \subseteq held[p]
    /\ c.op = "validate" /\ c.ans \in Granting =>
         {"access", "seat"} \subseteq held[p] \/ "maintenance" \in held[p]
    /\ c.ans = "authorized" => {"access", "seat", "normal"} \subseteq held[p]
    /\ c.ans = "seat_full" => "full" \in held[p]

=============================================================================
