-------------------------- MODULE LicensingProofs --------------------------
(***************************************************************************)
(* TLAPS proofs about Licensing, for any number of devices, workers and    *)
(* seats and any token lifetimes.                                          *)
(*                                                                         *)
(* SeatInv strengthens the seat limit: between the count and the insert    *)
(* the worker holds the License lock, the count it saw still leaves room,  *)
(* and its device is not registered; releases run without the lock but     *)
(* only make room.  AnswerInv strengthens AnswersHeld: what a handler read *)
(* and carries to its answer was true during the call.                     *)
(*                                                                         *)
(* The second half is about the rate limiter of the licensing calls        *)
(* (RateLimit) and the OTP views that count with it (Otp).  EntryInv       *)
(* counts how often the entry was started again, BurstInv the workers that *)
(* are past the cooldown check, GuessInv the standings that the attempts   *)
(* at a code can still go through, and ReachedInv follows a right code.    *)
(***************************************************************************)
EXTENDS Licensing, Otp, AggregatesProofs

SeatInv ==
  /\ SeatsNeverExceeded
  /\ \A p \in Procs : proc[p].pc \in {"count", "create"} =>
       /\ lock = p
       /\ proc[p].d \in Devices \ installed
  /\ \A p \in Procs : proc[p].pc = "create" => seats_available

AnswerOK(p) ==
  LET c == proc[p] IN
  /\ c.op = "activate" /\ c.ans \in Granting => {"access", "seat"} \subseteq held[p]
  /\ c.op = "validate" /\ c.ans \in Granting =>
       {"access", "seat"} \subseteq held[p] \/ "maintenance" \in held[p]
  /\ c.ans = "authorized" => {"access", "seat", "normal"} \subseteq held[p]
  /\ c.ans = "seat_full" => "full" \in held[p]
  /\ c.pc # "idle" => Facts(p) \subseteq held[p]
  /\ c.pc # "done" => c.ans = "none"
  /\ c.pc \in {"lock", "count", "create", "issue"} =>
       c.op = "activate" /\ "access" \in held[p]
  /\ c.pc = "issue" => "seat" \in held[p]
  /\ c.pc = "seat" => /\ c.op \in {"validate", "authorize"} /\ "access" \in held[p]
                      /\ c.op = "authorize" => "normal" \in held[p]

AnswerInv == \A p \in Procs : AnswerOK(p)

IInv == TypeOK /\ SeatInv /\ AnswerInv

-----------------------------------------------------------------------------
\* The seats registered are finitely many, so their number is a natural.
LEMMA InstalledCount ==
  ASSUME TypeOK
  PROVE  IsFiniteSet(installed) /\ Cardinality(installed) \in Nat
<1>1. IsFiniteSet(installed)
  BY LicensingAssumption, FS_Subset DEF TypeOK
<1> QED
  BY <1>1, FS_CardinalityType

\* The status a handler reads from the two rows is one the API knows.
LEMMA AccessType ==
  ASSUME TypeOK
  PROVE  access \in {"active", "grace", "suspended"}
BY DEF TypeOK, access

\* The facts watched are among the five that exist.
LEMMA FactsType ==
  ASSUME NEW p \in Procs
  PROVE  /\ Facts(p) \subseteq {"access", "seat", "full", "maintenance", "normal"}
         /\ Facts(p)' \subseteq {"access", "seat", "full", "maintenance", "normal"}
BY DEF Facts, Watched

\* The type of the program points, calls and answers of the workers.
ProcOK ==
  /\ proc \in [Procs -> [pc : Points, op : Ops \cup {"none"}, d : Devices \cup {NoDevice},
                         read : Granting \cup {"none"}, ans : Answers]]
  /\ \A p \in Procs : proc[p].pc # "idle" => proc[p].d \in Devices

\* Moving on inside a call, reading a granting status and answering keep it.
LEMMA MoveType ==
  ASSUME TypeOK, NEW p \in Procs, proc[p].pc # "idle",
         \/ \E point \in Points \ {"idle"} : Goto(p, point)
         \/ \E point \in Points \ {"idle"} : access \in Granting /\ Read(p, point)
         \/ \E ans \in Answers : Answer(p, ans)
  PROVE  ProcOK'
<1> USE DEF TypeOK, ProcOK
<1>1. CASE \E point \in Points \ {"idle"} : Goto(p, point)
  BY <1>1 DEF Goto
<1>2. CASE \E point \in Points \ {"idle"} : access \in Granting /\ Read(p, point)
  <2>1. PICK point \in Points \ {"idle"} : access \in Granting /\ Read(p, point)
    BY <1>2
  <2>2. [proc[p] EXCEPT !.pc = point, !.read = access] \in
          [pc : Points, op : Ops \cup {"none"}, d : Devices \cup {NoDevice},
           read : Granting \cup {"none"}, ans : Answers]
    BY <2>1
  <2>3. proc' = [proc EXCEPT ![p] = [proc[p] EXCEPT !.pc = point, !.read = access]]
    BY <2>1 DEF Read
  <2> QED
    BY <2>2, <2>3
<1>3. CASE \E ans \in Answers : Answer(p, ans)
  <2>1. PICK ans \in Answers : Answer(p, ans)
    BY <1>3
  <2>2. [proc[p] EXCEPT !.pc = "done", !.ans = ans] \in
          [pc : Points, op : Ops \cup {"none"}, d : Devices \cup {NoDevice},
           read : Granting \cup {"none"}, ans : Answers]
    BY DEF Points
  <2>3. proc' = [proc EXCEPT ![p] = [proc[p] EXCEPT !.pc = "done", !.ans = ans]]
    BY <2>1 DEF Answer
  <2> QED
    BY <2>2, <2>3
<1> QED
  BY <1>1, <1>2, <1>3

\* Every step of the handlers and their surroundings keeps the types.
LEMMA TypeStep == TypeOK /\ [Next]_vars => TypeOK'
<1> SUFFICES ASSUME TypeOK, [Next]_vars PROVE TypeOK'
  OBVIOUS
<1> DEFINE RestOK == /\ license \in {"active", "suspended"}
                     /\ sub \in {"active", "grace", "suspended", "cancelled"}
                     /\ installed \subseteq Devices
                     /\ age \in [Devices -> 0..Old]
                     /\ maintenance \in {"true", "false"}
                     /\ lock \in Procs \cup {NoProc}
<1>a. RestOK /\ ProcOK
  BY DEF TypeOK, ProcOK
<1>b. Old \in Nat /\ 0 \in 0..Old
  BY LicensingAssumption DEF Old
<1>1. ASSUME Action PROVE RestOK' /\ ProcOK'
  <2>1. ASSUME NEW p \in Procs, Step(p) PROVE RestOK' /\ ProcOK'
    <3> USE DEF At, records
    <3>1. CASE RateLimited(p)
      BY <3>1, <1>a, MoveType DEF RateLimited, Answers
    <3>2. CASE CheckStatus(p)
      BY <3>2, <1>a, MoveType, AccessType DEF CheckStatus, Answers, Points
    <3>3. CASE LockLicense(p)
      BY <3>3, <1>a, MoveType DEF LockLicense, Points
    <3>4. CASE CountSeats(p)
      BY <3>4, <1>a, MoveType DEF CountSeats, Points, Answers
    <3>5. CASE CreateInstallation(p)
      <4>1. proc[p].d \in Devices
        BY <3>5, <1>a DEF CreateInstallation, ProcOK
      <4> QED
        BY <3>5, <4>1, <1>a, MoveType DEF CreateInstallation, Points
    <3>6. CASE IssueToken(p)
      <4>1. proc[p].d \in Devices /\ proc[p].read \in Answers
        BY <3>6, <1>a DEF IssueToken, ProcOK, Granting, Answers
      <4> QED
        BY <3>6, <4>1, <1>a, <1>b, MoveType DEF IssueToken, _issue_token
    <3>7. CASE MaintenanceBypass(p)
      <4>1. proc[p].d \in Devices
        BY <3>7, <1>a DEF MaintenanceBypass, ProcOK
      <4> QED
        BY <3>7, <4>1, <1>a, <1>b, MoveType DEF MaintenanceBypass, _issue_token, Answers
    <3>8. CASE ValidateToken(p)
      BY <3>8, <1>a, MoveType, AccessType DEF ValidateToken, Answers, Points
    <3>9. CASE ValidateSeat(p)
      <4>1. proc[p].d \in Devices /\ proc[p].read \in Answers
        BY <3>9, <1>a DEF ValidateSeat, ProcOK, Granting, Answers
      <4> QED
        BY <3>9, <4>1, <1>a, <1>b, MoveType DEF ValidateSeat, _issue_token, Answers
    <3>10. CASE deactivate(p)
      BY <3>10, <1>a, MoveType DEF deactivate, Release, Answers
    <3>11. CASE AuthorizeChecks(p)
      BY <3>11, <1>a, MoveType, AccessType DEF AuthorizeChecks, Answers, Points
    <3>12. CASE AuthorizeSeat(p)
      BY <3>12, <1>a, MoveType DEF AuthorizeSeat, Answers
    <3>13. CASE Return(p)
      BY <3>13, <1>a DEF Return, ProcOK, Idle, Points, Ops, Answers
    <3> QED
      BY <2>1, <3>1, <3>2, <3>3, <3>4, <3>5, <3>6, <3>7, <3>8, <3>9, <3>10,
         <3>11, <3>12, <3>13 DEF Step
  <2>2. ASSUME NEW p \in Procs, Crash(p) PROVE RestOK' /\ ProcOK'
    BY <2>2, <1>a DEF Crash, records, ProcOK, Idle, Points, Ops, Answers
  <2>3. ASSUME NEW p \in Procs, NEW op \in Calls, NEW d \in Devices, Call(p, op, d)
        PROVE RestOK' /\ ProcOK'
    BY <2>3, <1>a, LicensingAssumption DEF Call, records, ProcOK, Idle, Points, Ops, Answers
  <2>4. ASSUME NEW d \in Devices, deactivate_device(d) PROVE RestOK' /\ ProcOK'
    BY <2>4, <1>a DEF deactivate_device, Release, ProcOK
  <2>5. CASE Lifecycle
    BY <2>5, <1>a DEF Lifecycle, ProcOK
  <2>6. CASE ToggleMaintenance
    BY <2>6, <1>a DEF ToggleMaintenance, ProcOK
  <2>7. CASE Tick
    BY <2>7, <1>a, <1>b DEF Tick, ProcOK
  <2> QED
    BY <1>1, <2>1, <2>2, <2>3, <2>4, <2>5, <2>6, <2>7 DEF Action
<1>2. ASSUME Observe
      PROVE  held' \in [Procs -> SUBSET {"access", "seat", "full", "maintenance", "normal"}]
  BY <1>2, FactsType DEF Observe, TypeOK
<1>3. CASE Next
  BY <1>1, <1>2, <1>3 DEF Next, TypeOK, ProcOK
<1>4. CASE UNCHANGED vars
  BY <1>4 DEF vars, TypeOK
<1> QED
  BY <1>3, <1>4

-----------------------------------------------------------------------------
(* Seats *)

\* A move of worker p inside its call.
Moved(p, point, read, ans) ==
  /\ proc'[p].pc = point /\ proc'[p].read = read /\ proc'[p].ans = ans
  /\ proc'[p].op = proc[p].op /\ proc'[p].d = proc[p].d
  /\ \A q \in Procs \ {p} : proc'[q] = proc[q]

\* What a worker's move does: its program point changes, its call and device
\* stay, and nobody else moves.
LEMMA MoveEffect ==
  ASSUME TypeOK, NEW p \in Procs
  PROVE  /\ \A point : Goto(p, point) => Moved(p, point, proc[p].read, proc[p].ans)
         /\ \A point : Read(p, point) => Moved(p, point, access, proc[p].ans)
         /\ \A ans : Answer(p, ans) => Moved(p, "done", proc[p].read, ans)
BY DEF TypeOK, Goto, Read, Answer, Moved

\* A step that registers nobody and lets nobody into the section between
\* count and insert keeps the invariant.
LEMMA QuietSeat ==
  ASSUME TypeOK, TypeOK', SeatInv, installed' \subseteq installed,
         \A q \in Procs : proc'[q].pc \in {"count", "create"} =>
                            proc'[q] = proc[q] /\ lock' = lock
  PROVE  SeatInv'
<1>1. Cardinality(installed') <= Cardinality(installed)
  BY InstalledCount, FS_Subset
<1>2. Cardinality(installed) \in Nat /\ Cardinality(installed)' \in Nat /\ SeatLimit \in Nat
  <2>1. IsFiniteSet(installed')
    BY InstalledCount, FS_Subset
  <2> QED
    BY <2>1, InstalledCount, FS_CardinalityType, LicensingAssumption
<1> QED
  BY <1>1, <1>2 DEF SeatInv, SeatsNeverExceeded, seats_available

\* Every step keeps the seat invariant.
LEMMA SeatStep == TypeOK /\ TypeOK' /\ SeatInv /\ [Next]_vars => SeatInv'
<1> SUFFICES ASSUME TypeOK, TypeOK', SeatInv, [Next]_vars PROVE SeatInv'
  OBVIOUS
<1>1. ASSUME NEW p \in Procs, Step(p) PROVE SeatInv'
  <2> USE DEF At, records
  <2>1. CASE RateLimited(p) \/ CheckStatus(p) \/ IssueToken(p) \/ MaintenanceBypass(p)
          \/ ValidateToken(p) \/ ValidateSeat(p) \/ AuthorizeChecks(p) \/ AuthorizeSeat(p)
    <3>1. installed' = installed /\ lock' = lock
      BY <2>1 DEF RateLimited, CheckStatus, IssueToken, MaintenanceBypass, ValidateToken,
                  ValidateSeat, AuthorizeChecks, AuthorizeSeat
    <3>2. \/ \E ans : Answer(p, ans)
          \/ Read(p, "lock") \/ Read(p, "seat")
      BY <2>1 DEF RateLimited, CheckStatus, IssueToken, MaintenanceBypass, ValidateToken,
                  ValidateSeat, AuthorizeChecks, AuthorizeSeat
    <3>3. \A q \in Procs : proc'[q].pc \in {"count", "create"} => proc'[q] = proc[q]
      BY <3>2, MoveEffect DEF Moved
    <3> QED
      BY <3>1, <3>3, QuietSeat
  <2>2. CASE LockLicense(p)
    <3>1. \A q \in Procs : proc[q].pc \notin {"count", "create"}
      BY <2>2, LicensingAssumption DEF LockLicense, SeatInv
    <3>2. CASE proc[p].d \in installed
      <4>1. proc'[p].pc = "issue" /\ \A q \in Procs \ {p} : proc'[q] = proc[q]
        BY <2>2, <3>2, MoveEffect DEF LockLicense, Moved
      <4> QED
        BY <2>2, <3>1, <4>1, QuietSeat DEF LockLicense
    <3>3. CASE proc[p].d \notin installed
      <4>1. /\ proc'[p].pc = "count" /\ proc'[p].d = proc[p].d
            /\ \A q \in Procs \ {p} : proc'[q] = proc[q]
        BY <2>2, <3>3, MoveEffect DEF LockLicense, Moved
      <4>2. lock' = p /\ installed' = installed /\ proc[p].d \in Devices
        BY <2>2, <3>3 DEF LockLicense, TypeOK
      <4> QED
        BY <3>1, <3>3, <4>1, <4>2 DEF SeatInv, SeatsNeverExceeded, seats_available
    <3> QED
      BY <3>2, <3>3
  <2>3. CASE CountSeats(p)
    <3>1. /\ lock = p /\ installed' = installed /\ proc[p].d \in Devices \ installed
          /\ \A q \in Procs \ {p} : proc[q].pc \notin {"count", "create"}
      BY <2>3 DEF CountSeats, SeatInv
    <3>2. CASE seats_available
      <4>1. /\ proc'[p].pc = "create" /\ proc'[p].d = proc[p].d
            /\ \A q \in Procs \ {p} : proc'[q] = proc[q]
        BY <2>3, <3>2, MoveEffect DEF CountSeats, Moved
      <4>2. lock' = lock
        BY <2>3, <3>2 DEF CountSeats
      <4> QED
        BY <3>1, <3>2, <4>1, <4>2 DEF SeatInv, SeatsNeverExceeded, seats_available
    <3>3. CASE ~seats_available
      <4>1. proc'[p].pc = "done" /\ \A q \in Procs \ {p} : proc'[q] = proc[q]
        BY <2>3, <3>3, MoveEffect DEF CountSeats, Moved
      <4> QED
        BY <3>1, <4>1, QuietSeat
    <3> QED
      BY <3>2, <3>3
  <2>4. CASE CreateInstallation(p)
    <3>1. /\ lock = p /\ installed' = installed \cup {proc[p].d}
          /\ proc[p].d \notin installed /\ seats_available
          /\ \A q \in Procs \ {p} : proc[q].pc \notin {"count", "create"}
      BY <2>4 DEF CreateInstallation, SeatInv
    <3>2. proc'[p].pc = "issue" /\ \A q \in Procs \ {p} : proc'[q] = proc[q]
      BY <2>4, MoveEffect DEF CreateInstallation, Moved
    <3>3. Cardinality(installed') = Cardinality(installed) + 1
      BY <3>1, InstalledCount, FS_AddElement
    <3>4. SeatsNeverExceeded'
      BY <3>1, <3>3, InstalledCount, LicensingAssumption DEF SeatsNeverExceeded, seats_available
    <3> QED
      BY <3>1, <3>2, <3>4 DEF SeatInv
  <2>5. CASE deactivate(p)
    <3>1. proc'[p].pc = "done" /\ \A q \in Procs \ {p} : proc'[q] = proc[q]
      BY <2>5, MoveEffect DEF deactivate, Moved
    <3> QED
      BY <2>5, <3>1, QuietSeat DEF deactivate, Release
  <2>6. CASE Return(p)
    BY <2>6, QuietSeat DEF Return, TypeOK, Idle
  <2> QED
    BY <1>1, <2>1, <2>2, <2>3, <2>4, <2>5, <2>6 DEF Step
<1>2. ASSUME NEW p \in Procs, Crash(p) PROVE SeatInv'
  <2>1. proc'[p].pc = "idle" /\ \A q \in Procs \ {p} : proc'[q] = proc[q]
    BY <1>2 DEF Crash, TypeOK, Idle
  <2>2. \A q \in Procs : proc'[q].pc \in {"count", "create"} => lock = q /\ q # p
    BY <2>1 DEF SeatInv
  <2> QED
    BY <1>2, <2>1, <2>2, QuietSeat DEF Crash, records
<1>3. ASSUME NEW p \in Procs, NEW op \in Calls, NEW d \in Devices, Call(p, op, d)
      PROVE SeatInv'
  BY <1>3, QuietSeat DEF Call, records, TypeOK, Idle
<1>4. ASSUME NEW d \in Devices, deactivate_device(d) PROVE SeatInv'
  BY <1>4, QuietSeat DEF deactivate_device, Release
<1>5. CASE Lifecycle
  BY <1>5, QuietSeat DEF Lifecycle
<1>6. CASE ToggleMaintenance
  BY <1>6, QuietSeat DEF ToggleMaintenance
<1>7. CASE Tick
  BY <1>7, QuietSeat DEF Tick
<1>8. CASE UNCHANGED vars
  BY <1>8, QuietSeat DEF vars
<1> QED
  BY <1>1, <1>2, <1>3, <1>4, <1>5, <1>6, <1>7, <1>8 DEF Next, Action

-----------------------------------------------------------------------------
(* Answers *)

\* The facts of a state, read off the state.
LEMMA FactsMeaning ==
  ASSUME NEW p \in Procs
  PROVE  /\ proc[p].op \in {"activate", "validate", "authorize"} =>
              /\ access \in Granting => "access" \in Facts(p)
              /\ proc[p].d \in installed => "seat" \in Facts(p)
         /\ proc[p].op = "activate" /\ ~seats_available => "full" \in Facts(p)
         /\ proc[p].op = "validate" /\ maintenance = "true" => "maintenance" \in Facts(p)
         /\ proc[p].op = "authorize" /\ maintenance # "true" => "normal" \in Facts(p)
BY DEF Facts, Watched

\* A worker inside a call keeps the facts seen and adds those of the new state.
LEMMA ObserveEffect ==
  ASSUME TypeOK, Observe, NEW p \in Procs, proc'[p].pc # "idle"
  PROVE  held'[p] = held[p] \cup Facts(p)'
BY DEF Observe

\* A worker that does not move keeps its part of the invariant.
LEMMA Unmoved ==
  ASSUME TypeOK, Observe, NEW q \in Procs, AnswerOK(q), proc'[q] = proc[q]
  PROVE  AnswerOK(q)'
<1>1. CASE proc[q].pc = "idle"
  BY <1>1 DEF AnswerOK, Granting
<1>2. CASE proc[q].pc # "idle"
  <2>1. held[q] \subseteq held'[q] /\ Facts(q)' \subseteq held'[q]
    BY <1>2, ObserveEffect
  <2> QED
    BY <2>1 DEF AnswerOK
<1> QED
  BY <1>1, <1>2

\* An idle worker promises nothing.
LEMMA IdleAnswer ==
  ASSUME NEW p \in Procs, proc[p].pc = "idle", proc[p].ans = "none"
  PROVE  AnswerOK(p)
BY DEF AnswerOK, Granting

\* A worker that answers: its answer needs only the facts seen so far.
LEMMA Answering ==
  ASSUME TypeOK, Observe, NEW p \in Procs, NEW ans, Answer(p, ans),
         proc[p].op = "activate" /\ ans \in Granting => {"access", "seat"} \subseteq held[p],
         proc[p].op = "validate" /\ ans \in Granting =>
           {"access", "seat"} \subseteq held[p] \/ "maintenance" \in held[p],
         ans = "authorized" => {"access", "seat", "normal"} \subseteq held[p],
         ans = "seat_full" => "full" \in held[p]
  PROVE  AnswerOK(p)'
<1>1. Moved(p, "done", proc[p].read, ans)
  BY MoveEffect
<1>2. held[p] \subseteq held'[p] /\ Facts(p)' \subseteq held'[p]
  BY <1>1, ObserveEffect DEF Moved
<1> QED
  BY <1>1, <1>2 DEF AnswerOK, Moved

\* Every step of a worker keeps the worker's own part of the invariant.
LEMMA OwnStep ==
  ASSUME TypeOK, Observe, NEW p \in Procs, AnswerOK(p), Step(p)
  PROVE  AnswerOK(p)'
<1> USE DEF At
<1>a. proc[p].pc # "idle" => Facts(p) \subseteq held[p]
  BY DEF AnswerOK
<1>b. "rate_limited" \notin Granting /\ "seat_full" \notin Granting
      /\ "suspended" \notin Granting
  BY DEF Granting
<1>1. CASE RateLimited(p)
  BY <1>1, <1>b, Answering DEF RateLimited
<1>2. CASE CheckStatus(p)
  <2>1. CASE access \in Granting
    <3>1. Moved(p, "lock", access, proc[p].ans) /\ proc[p].op = "activate"
      BY <1>2, <2>1, MoveEffect DEF CheckStatus
    <3>2. "access" \in held[p]
      BY <1>2, <1>a, <2>1, FactsMeaning DEF CheckStatus
    <3>3. held[p] \subseteq held'[p] /\ Facts(p)' \subseteq held'[p] /\ proc[p].ans = "none"
      BY <1>2, <3>1, ObserveEffect DEF Moved, CheckStatus, AnswerOK
    <3> QED
      BY <3>1, <3>2, <3>3 DEF AnswerOK, Moved, Granting
  <2>2. CASE access \notin Granting
    BY <1>2, <2>2, Answering, AccessType DEF CheckStatus
  <2> QED
    BY <2>1, <2>2
<1>3. CASE LockLicense(p)
  <2>1. \/ Moved(p, "issue", proc[p].read, proc[p].ans) /\ proc[p].d \in installed
        \/ Moved(p, "count", proc[p].read, proc[p].ans)
    BY <1>3, MoveEffect DEF LockLicense
  <2>2. proc[p].op = "activate" /\ "access" \in held[p] /\ proc[p].ans = "none"
    BY <1>3 DEF LockLicense, AnswerOK
  <2>3. proc[p].d \in installed => "seat" \in held[p]
    BY <1>3, <1>a, <2>2, FactsMeaning DEF LockLicense
  <2>4. held[p] \subseteq held'[p] /\ Facts(p)' \subseteq held'[p]
    BY <2>1, ObserveEffect DEF Moved
  <2> QED
    BY <2>1, <2>2, <2>3, <2>4 DEF AnswerOK, Moved, Granting
<1>4. CASE CountSeats(p)
  <2>1. CASE seats_available
    <3>1. Moved(p, "create", proc[p].read, proc[p].ans)
      BY <1>4, <2>1, MoveEffect DEF CountSeats
    <3>2. proc[p].op = "activate" /\ "access" \in held[p] /\ proc[p].ans = "none"
      BY <1>4 DEF CountSeats, AnswerOK
    <3>3. held[p] \subseteq held'[p] /\ Facts(p)' \subseteq held'[p]
      BY <3>1, ObserveEffect DEF Moved
    <3> QED
      BY <3>1, <3>2, <3>3 DEF AnswerOK, Moved, Granting
  <2>2. CASE ~seats_available
    <3>1. "full" \in held[p]
      BY <1>4, <1>a, <2>2, FactsMeaning DEF CountSeats
    <3> QED
      BY <1>4, <1>b, <2>2, <3>1, Answering DEF CountSeats
  <2> QED
    BY <2>1, <2>2
<1>5. CASE CreateInstallation(p)
  <2>1. Moved(p, "issue", proc[p].read, proc[p].ans) /\ proc[p].d \in installed'
    BY <1>5, MoveEffect DEF CreateInstallation
  <2>2. proc[p].op = "activate" /\ "access" \in held[p] /\ proc[p].ans = "none"
    BY <1>5 DEF CreateInstallation, AnswerOK
  <2>3. held[p] \subseteq held'[p] /\ Facts(p)' \subseteq held'[p]
    BY <2>1, ObserveEffect DEF Moved
  <2>4. "seat" \in Facts(p)'
    BY <2>1, <2>2 DEF Facts, Watched, Moved
  <2> QED
    BY <2>1, <2>2, <2>3, <2>4 DEF AnswerOK, Moved, Granting
<1>6. CASE IssueToken(p)
  <2>1. {"access", "seat"} \subseteq held[p] /\ proc[p].op = "activate"
    BY <1>6 DEF IssueToken, AnswerOK
  <2>2. proc[p].read \in Granting \cup {"none"}
    BY DEF TypeOK
  <2> QED
    BY <1>6, <2>1, <2>2, Answering DEF IssueToken, Granting
<1>7. CASE MaintenanceBypass(p)
  <2>1. "maintenance" \in held[p]
    BY <1>7, <1>a, FactsMeaning DEF MaintenanceBypass
  <2> QED
    BY <1>7, <2>1, Answering DEF MaintenanceBypass
<1>8. CASE ValidateToken(p)
  <2>1. CASE Read(p, "seat") /\ access \in Granting
    <3>1. Moved(p, "seat", access, proc[p].ans)
      BY <2>1, MoveEffect
    <3>2. "access" \in held[p] /\ proc[p].ans = "none" /\ proc[p].op = "validate"
      BY <1>8, <1>a, <2>1, FactsMeaning DEF ValidateToken, AnswerOK
    <3>3. held[p] \subseteq held'[p] /\ Facts(p)' \subseteq held'[p]
      BY <3>1, ObserveEffect DEF Moved
    <3> QED
      BY <3>1, <3>2, <3>3 DEF AnswerOK, Moved, Granting
  <2>2. CASE Answer(p, "invalid") \/ Answer(p, "expired")
             \/ (Answer(p, access) /\ access \notin Granting)
    BY <2>2, Answering, AccessType DEF Granting
  <2> QED
    BY <1>8, <2>1, <2>2 DEF ValidateToken
<1>9. CASE ValidateSeat(p)
  <2>1. CASE proc[p].d \in installed
    <3>1. {"access", "seat"} \subseteq held[p] /\ proc[p].op = "validate"
      BY <1>9, <1>a, <2>1, FactsMeaning DEF ValidateSeat, AnswerOK
    <3>2. proc[p].read \in Granting \cup {"none"}
      BY DEF TypeOK
    <3> QED
      BY <1>9, <2>1, <3>1, <3>2, Answering DEF ValidateSeat, Granting
  <2>2. CASE proc[p].d \notin installed
    BY <1>9, <2>2, Answering DEF ValidateSeat, Granting
  <2> QED
    BY <2>1, <2>2
<1>10. CASE deactivate(p)
  BY <1>10, Answering DEF deactivate, Granting
<1>11. CASE AuthorizeChecks(p)
  <2>1. CASE Read(p, "seat") /\ access \in Granting /\ maintenance # "true"
    <3>1. Moved(p, "seat", access, proc[p].ans)
      BY <2>1, MoveEffect
    <3>2. {"access", "normal"} \subseteq held[p] /\ proc[p].ans = "none"
          /\ proc[p].op = "authorize"
      BY <1>11, <1>a, <2>1, FactsMeaning DEF AuthorizeChecks, AnswerOK
    <3>3. held[p] \subseteq held'[p] /\ Facts(p)' \subseteq held'[p]
      BY <3>1, ObserveEffect DEF Moved
    <3> QED
      BY <3>1, <3>2, <3>3 DEF AnswerOK, Moved, Granting
  <2>2. CASE Answer(p, "service_unavailable") \/ Answer(p, "invalid")
             \/ (Answer(p, access) /\ access \notin Granting)
    BY <2>2, Answering, AccessType DEF Granting
  <2> QED
    BY <1>11, <2>1, <2>2 DEF AuthorizeChecks
<1>12. CASE AuthorizeSeat(p)
  <2>1. CASE proc[p].d \in installed
    <3>1. {"access", "seat", "normal"} \subseteq held[p] /\ proc[p].op = "authorize"
      BY <1>12, <1>a, <2>1, FactsMeaning DEF AuthorizeSeat, AnswerOK
    <3> QED
      BY <1>12, <2>1, <3>1, Answering DEF AuthorizeSeat, Granting
  <2>2. CASE proc[p].d \notin installed
    BY <1>12, <2>2, Answering DEF AuthorizeSeat, Granting
  <2> QED
    BY <2>1, <2>2
<1>13. CASE Return(p)
  BY <1>13 DEF Return, TypeOK, Idle, AnswerOK, Granting
<1> QED
  BY <1>1, <1>2, <1>3, <1>4, <1>5, <1>6, <1>7, <1>8, <1>9, <1>10, <1>11, <1>12, <1>13
     DEF Step

\* Every step keeps the answers' invariant.
LEMMA AnswerStep == TypeOK /\ TypeOK' /\ AnswerInv /\ [Next]_vars => AnswerInv'
<1> SUFFICES ASSUME TypeOK, TypeOK', AnswerInv, [Next]_vars, NEW q \in Procs
             PROVE  AnswerOK(q)'
  BY DEF AnswerInv
<1>a. AnswerOK(q)
  BY DEF AnswerInv
<1>1. CASE UNCHANGED vars
  <2>1. proc' = proc /\ held' = held /\ Facts(q)' = Facts(q)
    BY <1>1 DEF vars, Facts, access, seats_available
  <2> QED
    BY <1>a, <2>1 DEF AnswerOK
<1>2. CASE Next
  <2> USE <1>2 DEF Next
  <2>1. ASSUME NEW p \in Procs, Step(p) PROVE AnswerOK(q)'
    <3>1. CASE p = q
      BY <2>1, <3>1, <1>a, OwnStep
    <3>2. CASE p # q
      <4>1. proc'[q] = proc[q]
        <5> USE DEF Moved
        <5>1. CASE \E ans : Answer(p, ans)
          BY <5>1, <3>2, MoveEffect
        <5>2. CASE \E point : Goto(p, point) \/ Read(p, point)
          BY <5>2, <3>2, MoveEffect
        <5>3. CASE Return(p)
          BY <5>3, <3>2 DEF Return, TypeOK
        <5> QED
          BY <2>1, <5>1, <5>2, <5>3 DEF Step, RateLimited, CheckStatus, LockLicense, CountSeats,
             CreateInstallation, IssueToken, MaintenanceBypass, ValidateToken, ValidateSeat,
             deactivate, AuthorizeChecks, AuthorizeSeat
      <4> QED
        BY <4>1, <1>a, Unmoved
    <3> QED
      BY <3>1, <3>2
  <2>2. ASSUME NEW p \in Procs, Crash(p) PROVE AnswerOK(q)'
    <3>1. CASE p = q
      BY <2>2, <3>1 DEF Crash, TypeOK, Idle, AnswerOK, Granting
    <3>2. CASE p # q
      BY <2>2, <3>2, <1>a, Unmoved DEF Crash, TypeOK
    <3> QED
      BY <3>1, <3>2
  <2>3. ASSUME NEW p \in Procs, NEW op \in Calls, NEW d \in Devices, Call(p, op, d)
        PROVE AnswerOK(q)'
    <3>1. CASE p = q
      <4>1. proc'[q].pc = "start" /\ proc'[q].ans = "none"
        BY <2>3, <3>1 DEF Call, TypeOK, Idle
      <4>2. Facts(q)' \subseteq held'[q]
        BY <4>1, ObserveEffect
      <4> QED
        BY <4>1, <4>2 DEF AnswerOK, Granting
    <3>2. CASE p # q
      BY <2>3, <3>2, <1>a, Unmoved DEF Call, TypeOK
    <3> QED
      BY <3>1, <3>2
  <2>4. CASE (\E d \in Devices : deactivate_device(d)) \/ Lifecycle
               \/ ToggleMaintenance \/ Tick
    BY <2>4, <1>a, Unmoved DEF deactivate_device, Lifecycle, ToggleMaintenance, Tick
  <2> QED
    BY <2>1, <2>2, <2>3, <2>4 DEF Action
<1> QED
  BY <1>1, <1>2

-----------------------------------------------------------------------------
(* Theorems *)

\* The inductive invariant holds in every reachable state of the licensing
\* API, for any number of workers, devices and seats.
THEOREM Invariance == Spec => []IInv
<1>1. Init => IInv
  <2> SUFFICES ASSUME Init PROVE IInv
    OBVIOUS
  <2>1. TypeOK
    BY LicensingAssumption DEF Init, TypeOK, Idle, Points, Ops, Answers, Granting, Old
  <2>2. Cardinality(installed) = 0
    BY FS_EmptySet DEF Init
  <2>3. SeatInv
    BY <2>2, LicensingAssumption DEF Init, SeatInv, SeatsNeverExceeded, Idle
  <2>4. AnswerInv
    BY IdleAnswer DEF Init, AnswerInv, Idle
  <2> QED
    BY <2>1, <2>3, <2>4 DEF IInv
<1>2. IInv /\ [Next]_vars => IInv'
  BY TypeStep, SeatStep, AnswerStep DEF IInv
<1> QED
  BY <1>1, <1>2, PTL DEF Spec

\* Type correctness of the licensing state.
THEOREM TypeCorrect == Spec => []TypeOK
<1>1. IInv => TypeOK
  BY DEF IInv
<1> QED
  BY <1>1, Invariance, PTL

\* H1: the transaction under the License lock never hands out more seats than
\* seat_limit, however many workers activate and release at once.
THEOREM SeatLimitHolds == Spec => []SeatsNeverExceeded
<1>1. IInv => SeatsNeverExceeded
  BY DEF IInv, SeatInv
<1> QED
  BY <1>1, Invariance, PTL

\* The insert of an Installation never collides with an ACTIVE one.
THEOREM NoUniqueViolation == Spec => []UniqueNeverTrips
<1>1. IInv => UniqueNeverTrips
  BY DEF IInv, SeatInv, UniqueNeverTrips
<1> QED
  BY <1>1, Invariance, PTL

\* Tokens, authorizations and seat refusals rest on facts that were true at
\* some moment of the call that handed them out.
THEOREM AnswersAreJustified == Spec => []AnswersHeld
<1>1. IInv => AnswersHeld
  BY DEF IInv, AnswerInv, AnswerOK, AnswersHeld
<1> QED
  BY <1>1, Invariance, PTL

-----------------------------------------------------------------------------
(* The rate limiter that the licensing calls share with the OTP sends, and   *)
(* the verification of a WhatsApp number (modules RateLimit and Otp).        *)

CheckRows == [pc : {"idle", "incr", "set"}, kind : Kinds \cup {"none"}]

\* Who is in a check is a worker of the counter, with a kind of call.
LimiterType ==
  /\ counter \in Counters
  /\ count \in Nat \cup {Absent}
  /\ check \in [Workers -> CheckRows]
  /\ admitted \in [Kinds -> Nat] /\ refused \in [Kinds -> Nat] /\ nets \in Nat
  /\ \A p \in Workers : check[p].pc # "idle" => p \in counter.procs /\ check[p].kind \in Kinds

\* Workers that will still overwrite the entry.
AtNet == {p \in counter.procs : check[p].pc = "set"}

Done == [k \in Kinds |-> admitted[k] + refused[k]]

\* s times the entry was started, by an add or by the safety net: so often the
\* count began again, each time by another worker.
StartedBy(s) ==
  /\ s > 0
  /\ s + Cardinality(AtNet) <= Cardinality(counter.procs)
  /\ \A k \in Kinds : /\ admitted[k] <= Limit[k] * (s - 1) + count
                      /\ admitted[k] <= Limit[k] * s

\* A living entry has counted no more than the calls, and no call without one.
EntryInv ==
  /\ count = Absent => admitted = None /\ refused = None /\ nets = 0
  /\ count # Absent => count <= SumOf(Done, Kinds) /\ \E s \in {nets, nets + 1} : StartedBy(s)
  /\ \A k \in Kinds : refused[k] > 0 => SumOf(Done, Kinds) > Limit[k]

LimiterInv == LimiterType /\ EntryInv

CodeRows == [number : Numbers, attempts : Nat, live : BOOLEAN, consumed : BOOLEAN, guesses : Nat]

OtpType ==
  /\ LimiterType
  /\ cooldown \in BOOLEAN /\ burst \in Nat
  /\ codes \in Seq(CodeRows)
  /\ sender \in [Workers -> {"idle", "count", "create", "cool"}]
  /\ \A p \in Workers : sender[p] # "idle" => p \in counter.procs
  /\ checker \in [Workers -> [pc : {"idle"} \cup Numbers, row : Nat, attempts : Nat, right : BOOLEAN]]
  /\ \A p \in Workers : checker[p].row <= Len(codes)

Sending == {p \in counter.procs : sender[p] \in {"count", "create"}}
Created == {p \in counter.procs : sender[p] = "cool"}

\* A worker that created a code sets the cooldown before it is free again; then
\* only those that were past the check create further ones.
BurstInv ==
  /\ ~cooldown => burst <= Cardinality(Created)
  /\ cooldown => burst + Cardinality(Sending) <= Cardinality(counter.procs)

\* A worker about to save the customer compared a code of the customer's phone,
\* sent for the number it saves.
ReachedInv ==
  /\ \A p \in Workers :
       /\ checker[p].pc # "idle" /\ checker[p].right => checker[p].pc = mine
       /\ checker[p].pc # "idle" /\ checker[p].row = 0 => checker[p].right
  /\ VerifiedNumberIsReached
-----------------------------------------------------------------------------
\* The sum grows by one where one value does.
LEMMA SumOfBump ==
  ASSUME NEW S, IsFiniteSet(S), NEW x \in S, NEW f, NEW g,
         \A y \in S : f[y] \in Nat, g[x] = f[x] + 1, \A y \in S \ {x} : g[y] = f[y]
  PROVE  SumOf(g, S) = SumOf(f, S) + 1
<1> DEFINE T == S \ {x}
<1>1. IsFiniteSet(T) /\ T \subseteq S
  BY FS_RemoveElement
<1>2. \A y \in S : f[y] \in Int /\ g[y] \in Int
  OBVIOUS
<1>3. SumOf(f, S) = SumOf(f, T) + f[x] /\ SumOf(g, S) = SumOf(g, T) + g[x]
  BY <1>2, SumOfRemove
<1>4. SumOf(g, T) = SumOf(f, T)
  <2>1. \A y \in T : g[y] = f[y]
    OBVIOUS
  <2> HIDE DEF T
  <2> QED BY <1>1, <2>1, SumOfSame
<1>5. SumOf(f, T) \in Int
  BY <1>1, <1>2, SumOfType
<1> HIDE DEF T
<1> QED BY <1>2, <1>3, <1>4, <1>5

\* What the counting of one call does, from the count n on.
LEMMA CallCounted ==
  ASSUME LimiterOK, LimiterType, NEW p \in Workers, check[p].pc # "idle",
         NEW n \in Nat, Decide(p, n)
  PROVE  /\ check[p].kind \in Kinds /\ p \in counter.procs
         /\ count' = n /\ check' = [check EXCEPT ![p] = NoCheck]
         /\ admitted' \in [Kinds -> Nat] /\ refused' \in [Kinds -> Nat]
         /\ \A j \in Kinds :
              admitted'[j] = admitted[j] \/ (n <= Limit[j] /\ admitted'[j] = admitted[j] + 1)
         /\ \A j \in Kinds : refused'[j] = refused[j] \/ n > Limit[j]
         /\ \A j \in Kinds : admitted[j] <= admitted'[j]
         /\ SumOf(Done', Kinds) = SumOf(Done, Kinds) + 1
<1> DEFINE k == check[p].kind
<1>1. k \in Kinds /\ p \in counter.procs /\ Limit \in [Kinds -> Nat]
  BY DEF LimiterType, LimiterOK
<1>2. count' = n /\ check' = [check EXCEPT ![p] = NoCheck]
  BY DEF Decide
<1>3. \/ n > Limit[k] /\ refused' = [refused EXCEPT ![k] = @ + 1] /\ admitted' = admitted
      \/ n <= Limit[k] /\ admitted' = [admitted EXCEPT ![k] = @ + 1] /\ refused' = refused
  <2>1. Limit[k] \in Nat
    BY <1>1
  <2> QED BY <2>1 DEF Decide
<1>4. admitted \in [Kinds -> Nat] /\ refused \in [Kinds -> Nat] /\ IsFiniteSet(Kinds)
  BY DEF LimiterType, LimiterOK
<1> HIDE DEF k
<1>5. admitted' \in [Kinds -> Nat] /\ refused' \in [Kinds -> Nat]
  BY <1>1, <1>3, <1>4
<1>6. /\ \A j \in Kinds :
              admitted'[j] = admitted[j] \/ (n <= Limit[j] /\ admitted'[j] = admitted[j] + 1)
      /\ \A j \in Kinds : refused'[j] = refused[j] \/ n > Limit[j]
      /\ \A j \in Kinds : admitted[j] <= admitted'[j]
  BY <1>1, <1>3, <1>4
<1>7. /\ \A j \in Kinds : Done[j] \in Nat
      /\ Done'[k] = Done[k] + 1 /\ \A j \in Kinds \ {k} : Done'[j] = Done[j]
  BY <1>1, <1>3, <1>4 DEF Done
<1>8. SumOf(Done', Kinds) = SumOf(Done, Kinds) + 1
  <2> DEFINE f == Done
             g == Done'
  <2>1. /\ \A j \in Kinds : f[j] \in Nat
        /\ g[k] = f[k] + 1 /\ \A j \in Kinds \ {k} : g[j] = f[j]
    BY <1>7
  <2> HIDE DEF f, g
  <2>2. SumOf(g, Kinds) = SumOf(f, Kinds) + 1
    BY <1>1, <1>4, <2>1, SumOfBump
  <2> QED BY <2>2 DEF f, g
<1> QED BY <1>1, <1>2, <1>5, <1>6, <1>8 DEF k

-----------------------------------------------------------------------------
(* The limiter *)

LEMMA LimiterCounts ==
  ASSUME LimiterOK, LimiterType
  PROVE  /\ IsFiniteSet(AtNet) /\ Cardinality(AtNet) \in Nat
         /\ IsFiniteSet(counter.procs) /\ Cardinality(counter.procs) \in Nat
         /\ Cardinality(AtNet) <= Cardinality(counter.procs)
<1>1. IsFiniteSet(counter.procs)
  BY DEF LimiterOK, LimiterType
<1>2. AtNet \subseteq counter.procs
  BY DEF AtNet
<1> QED BY <1>1, <1>2, FS_Subset, FS_CardinalityType

\* Neither a call begun nor a window ended leaves the types.
LEMMA LimiterTypeStep ==
  ASSUME LimiterOK, LimiterType, LimiterNext
  PROVE  LimiterType'
<1> USE DEF LimiterType, CheckRows
<1>1. ASSUME NEW p \in Workers, NEW k \in Kinds, Add(p, k) PROVE LimiterType'
  <2>1. check' = [check EXCEPT ![p] = [pc |-> "incr", kind |-> k]] /\ p \in counter.procs
    BY <1>1 DEF Add
  <2>2. count' \in Nat \cup {Absent} /\ UNCHANGED <<counter, admitted, refused, nets>>
    BY <1>1 DEF Add
  <2> QED BY <2>1, <2>2
<1>2. ASSUME NEW p \in Workers, NEW n \in Nat, Decide(p, n), check[p].pc # "idle",
             counter' = counter, nets' \in Nat
      PROVE  LimiterType'
  <2>1. /\ check' = [check EXCEPT ![p] = [pc |-> "idle", kind |-> "none"]]
        /\ admitted' \in [Kinds -> Nat] /\ refused' \in [Kinds -> Nat] /\ count' = n
    BY <1>2, CallCounted DEF NoCheck
  <2> QED BY <1>2, <2>1
<1>3. ASSUME NEW p \in Workers, Incr(p) PROVE LimiterType'
  <2>1. CASE count = Absent
    <3>1. /\ check' = [check EXCEPT ![p] = [pc |-> "set", kind |-> check[p].kind]]
          /\ check[p].pc = "incr"
          /\ UNCHANGED <<counter, count, admitted, refused, nets>>
      BY <1>3, <2>1 DEF Incr
    <3>2. p \in counter.procs /\ check[p].kind \in Kinds
      BY <3>1
    <3> QED BY <3>1, <3>2
  <2>2. CASE count # Absent
    <3>1. count + 1 \in Nat /\ Decide(p, count + 1) /\ check[p].pc # "idle" /\ UNCHANGED <<counter, nets>>
      BY <1>3, <2>2 DEF Incr
    <3> QED BY <1>2, <3>1
  <2> QED BY <2>1, <2>2
<1>4. ASSUME NEW p \in Workers, Set(p) PROVE LimiterType'
  <2>1. Decide(p, 1) /\ check[p].pc # "idle" /\ counter' = counter /\ nets' \in Nat /\ 1 \in Nat
    BY <1>4 DEF Set
  <2> QED BY <1>2, <2>1
<1>5. ASSUME Expire PROVE LimiterType'
  BY <1>5 DEF Expire, None
<1> QED BY <1>1, <1>3, <1>4, <1>5 DEF LimiterNext

\* The types do not depend on what the OTP views keep.
LEMMA LimiterStutter ==
  ASSUME UNCHANGED limiterVars
  PROVE  (LimiterType => LimiterType') /\ (EntryInv => EntryInv')
<1>1. /\ counter' = counter /\ count' = count /\ check' = check /\ admitted' = admitted
      /\ refused' = refused /\ nets' = nets
  BY DEF limiterVars
<1>2. AtNet' = AtNet /\ Done' = Done
  BY <1>1 DEF AtNet, Done
<1> QED BY <1>1, <1>2 DEF LimiterType, EntryInv, StartedBy

\* No call is counted twice, none is admitted beyond the count.
LEMMA EntryStep ==
  ASSUME LimiterOK, LimiterType, EntryInv, LimiterNext
  PROVE  EntryInv'
<1> DEFINE Total == SumOf(Done, Kinds)
<1>1. /\ counter \in Counters /\ count \in Nat \cup {Absent} /\ nets \in Nat
      /\ admitted \in [Kinds -> Nat] /\ refused \in [Kinds -> Nat] /\ Limit \in [Kinds -> Nat]
      /\ Absent \notin Nat /\ check \in [Workers -> CheckRows]
      /\ IsFiniteSet(Kinds)
  BY DEF LimiterType, LimiterOK
<1>2. Total \in Nat
  <2>1. \A k \in Kinds : Done[k] \in Nat
    BY <1>1 DEF Done
  <2>2. \A k \in Kinds : Done[k] \in Int
    BY <2>1
  <2> QED BY <1>1, <2>1, <2>2, SumOfType
<1>3. ASSUME NEW p \in Workers, NEW k \in Kinds, Add(p, k) PROVE EntryInv'
  <2>1. /\ check' = [check EXCEPT ![p] = [pc |-> "incr", kind |-> k]] /\ p \in counter.procs
        /\ check[p].pc = "idle"
        /\ count' = (IF count = Absent THEN 0 ELSE count)
        /\ counter' = counter /\ admitted' = admitted /\ refused' = refused /\ nets' = nets
    BY <1>3 DEF Add
  <2>2. AtNet' = AtNet /\ Done' = Done /\ p \notin AtNet
    BY <1>1, <2>1 DEF AtNet, Done, CheckRows
  <2>3. CASE count # Absent
    BY <1>1, <2>1, <2>2, <2>3 DEF EntryInv, StartedBy
  <2>4. CASE count = Absent
    <3>1. count' = 0 /\ admitted = None /\ nets = 0 /\ count' # Absent
      BY <1>1, <2>1, <2>4 DEF EntryInv
    <3>2. \A j \in Kinds : admitted[j] = 0 /\ admitted'[j] = 0
      BY <2>1, <3>1 DEF None
    <3>3. 1 + Cardinality(AtNet) <= Cardinality(counter.procs)
      <4>1. AtNet \subseteq counter.procs \ {p} /\ IsFiniteSet(counter.procs)
        BY <2>2, LimiterCounts DEF AtNet
      <4>2. Cardinality(counter.procs \ {p}) = Cardinality(counter.procs) - 1
            /\ IsFiniteSet(counter.procs \ {p})
        BY <2>1, <4>1, FS_RemoveElement
      <4>3. Cardinality(AtNet) <= Cardinality(counter.procs \ {p})
        BY <4>1, <4>2, FS_Subset
      <4> QED BY <4>2, <4>3, LimiterCounts
    <3>4. \A j \in Kinds : 0 <= Limit[j] * (1 - 1) + 0 /\ 0 <= Limit[j] * 1
      BY <1>1
    <3>5. StartedBy(1)' /\ 1 \in {nets', nets' + 1}
      BY <2>1, <2>2, <3>1, <3>2, <3>3, <3>4 DEF StartedBy
    <3>6. SumOf(Done', Kinds) \in Nat /\ SumOf(Done', Kinds) = Total
      BY <1>2, <2>2
    <3> QED BY <2>1, <2>2, <3>1, <3>5, <3>6 DEF EntryInv
  <2> QED BY <2>3, <2>4
<1>4. ASSUME NEW p \in Workers, count = Absent, Incr(p) PROVE EntryInv'
  <2>1. counter' = counter /\ count' = count /\ admitted' = admitted /\ refused' = refused /\ nets' = nets
    BY <1>4 DEF Incr
  <2>2. Done' = Done
    BY <2>1 DEF Done
  <2> QED BY <1>4, <2>1, <2>2 DEF EntryInv
<1>5. ASSUME NEW p \in Workers, count # Absent, Incr(p) PROVE EntryInv'
  <2>1. /\ count + 1 \in Nat /\ Decide(p, count + 1) /\ check[p].pc = "incr"
        /\ counter' = counter /\ nets' = nets /\ count \in Nat
    BY <1>1, <1>5 DEF Incr
  <2>2. /\ count' = count + 1 /\ check' = [check EXCEPT ![p] = NoCheck]
        /\ admitted' \in [Kinds -> Nat] /\ refused' \in [Kinds -> Nat]
        /\ \A j \in Kinds :
             admitted'[j] = admitted[j] \/ (count + 1 <= Limit[j] /\ admitted'[j] = admitted[j] + 1)
        /\ \A j \in Kinds : refused'[j] = refused[j] \/ count + 1 > Limit[j]
        /\ SumOf(Done', Kinds) = Total + 1
    BY <2>1, CallCounted
  <2>3. AtNet' = AtNet
    BY <1>1, <2>1, <2>2 DEF AtNet, CheckRows, NoCheck
  <2>4. PICK s \in {nets, nets + 1} : StartedBy(s)
    BY <1>5 DEF EntryInv
  <2>5. \A j \in Kinds : /\ admitted'[j] <= Limit[j] * (s - 1) + (count + 1)
                         /\ admitted'[j] <= Limit[j] * s
    <3> SUFFICES ASSUME NEW j \in Kinds
                 PROVE  /\ admitted'[j] <= Limit[j] * (s - 1) + (count + 1)
                        /\ admitted'[j] <= Limit[j] * s
      OBVIOUS
    <3>1. /\ admitted[j] <= Limit[j] * (s - 1) + count /\ admitted[j] <= Limit[j] * s
          /\ s \in Nat /\ s > 0 /\ admitted[j] \in Nat /\ admitted'[j] \in Nat /\ Limit[j] \in Nat
      BY <1>1, <2>2, <2>4 DEF StartedBy
    <3>2. \A a, b \in Nat : b > 0 => a * (b - 1) \in Int /\ a * b \in Int /\ a * (b - 1) + a = a * b
      OBVIOUS
    <3>3. /\ Limit[j] * (s - 1) \in Int /\ Limit[j] * s \in Int
          /\ Limit[j] * (s - 1) + Limit[j] = Limit[j] * s
      BY <3>1, <3>2
    <3> QED BY <2>1, <2>2, <3>1, <3>3
  <2>6. StartedBy(s)' /\ s \in {nets', nets' + 1}
    BY <2>1, <2>2, <2>3, <2>4, <2>5 DEF StartedBy
  <2>7. count' <= SumOf(Done', Kinds) /\ count' # Absent
    BY <1>1, <1>2, <1>5, <2>1, <2>2 DEF EntryInv
  <2>8. \A j \in Kinds : refused'[j] > 0 => SumOf(Done', Kinds) > Limit[j]
    <3> SUFFICES ASSUME NEW j \in Kinds, refused'[j] > 0 PROVE SumOf(Done', Kinds) > Limit[j]
      OBVIOUS
    <3>1. Limit[j] \in Nat /\ count <= Total
      BY <1>1, <1>5 DEF EntryInv
    <3>2. CASE refused'[j] = refused[j]
      <4>1. Total > Limit[j]
        BY <3>2 DEF EntryInv
      <4> HIDE DEF Total
      <4> QED BY <1>2, <2>2, <3>1, <4>1
    <3>3. CASE count + 1 > Limit[j]
      <4> HIDE DEF Total
      <4> QED BY <1>2, <2>1, <2>2, <3>1, <3>3
    <3> QED BY <2>2, <3>2, <3>3
  <2> QED BY <2>6, <2>7, <2>8 DEF EntryInv
<1>6. ASSUME NEW p \in Workers, Set(p) PROVE EntryInv'
  <2>1. /\ Decide(p, 1) /\ check[p].pc = "set" /\ counter' = counter /\ nets' = nets + 1
    BY <1>6 DEF Set
  <2>2. /\ count' = 1 /\ check' = [check EXCEPT ![p] = NoCheck] /\ p \in counter.procs
        /\ admitted' \in [Kinds -> Nat] /\ refused' \in [Kinds -> Nat]
        /\ \A j \in Kinds :
             admitted'[j] = admitted[j] \/ (1 <= Limit[j] /\ admitted'[j] = admitted[j] + 1)
        /\ \A j \in Kinds : refused'[j] = refused[j] \/ 1 > Limit[j]
        /\ SumOf(Done', Kinds) = Total + 1
    <3> DEFINE one == 1
    <3>1. one \in Nat /\ Decide(p, one) /\ check[p].pc # "idle"
      BY <2>1
    <3> HIDE DEF one
    <3>2. /\ count' = one /\ check' = [check EXCEPT ![p] = NoCheck] /\ p \in counter.procs
          /\ admitted' \in [Kinds -> Nat] /\ refused' \in [Kinds -> Nat]
          /\ \A j \in Kinds :
               admitted'[j] = admitted[j] \/ (one <= Limit[j] /\ admitted'[j] = admitted[j] + 1)
          /\ \A j \in Kinds : refused'[j] = refused[j] \/ one > Limit[j]
          /\ SumOf(Done', Kinds) = Total + 1
      BY <3>1, CallCounted
    <3> QED BY <3>2 DEF one
  <2>3. AtNet' = AtNet \ {p} /\ p \in AtNet
    BY <1>1, <2>1, <2>2 DEF AtNet, CheckRows, NoCheck
  <2>4. Cardinality(AtNet') = Cardinality(AtNet) - 1
    BY <2>3, LimiterCounts, FS_RemoveElement
  <2>5. PICK s \in {nets, nets + 1} :
          /\ s + Cardinality(AtNet) <= Cardinality(counter.procs)
          /\ \A j \in Kinds : admitted[j] <= Limit[j] * s
    <3>1. CASE count = Absent
      <4>1. nets = 0 /\ \A j \in Kinds : admitted[j] = 0
        BY <3>1 DEF EntryInv, None
      <4>2. \A j \in Kinds : 0 <= Limit[j] * 0
        BY <1>1
      <4>3. 0 + Cardinality(AtNet) <= Cardinality(counter.procs)
        BY LimiterCounts
      <4> QED BY <4>1, <4>2, <4>3
    <3>2. CASE count # Absent
      BY <3>2 DEF EntryInv, StartedBy
    <3> QED BY <3>1, <3>2
  <2>6. s \in Nat /\ s + 1 \in {nets', nets' + 1}
    BY <1>1, <2>1, <2>5
  <2>7. \A j \in Kinds : /\ admitted'[j] <= Limit[j] * ((s + 1) - 1) + 1
                         /\ admitted'[j] <= Limit[j] * (s + 1)
    <3> SUFFICES ASSUME NEW j \in Kinds
                 PROVE  /\ admitted'[j] <= Limit[j] * ((s + 1) - 1) + 1
                        /\ admitted'[j] <= Limit[j] * (s + 1)
      OBVIOUS
    <3>1. /\ admitted[j] <= Limit[j] * s /\ admitted[j] \in Nat /\ admitted'[j] \in Nat /\ Limit[j] \in Nat
      BY <1>1, <2>2, <2>5
    <3>2. \A a, b \in Nat : a * b \in Int /\ a * ((b + 1) - 1) = a * b /\ a * (b + 1) = a * b + a
      OBVIOUS
    <3>3. /\ Limit[j] * s \in Int /\ Limit[j] * ((s + 1) - 1) = Limit[j] * s
          /\ Limit[j] * (s + 1) = Limit[j] * s + Limit[j]
      BY <2>6, <3>1, <3>2
    <3> QED BY <2>2, <3>1, <3>3
  <2>8. (s + 1) + Cardinality(AtNet') <= Cardinality(counter'.procs)
    BY <2>1, <2>4, <2>5, <2>6, LimiterCounts
  <2>9. \E r \in {nets', nets' + 1} : StartedBy(r)'
    <3> DEFINE r == s + 1
    <3>1. r \in {nets', nets' + 1} /\ r > 0 /\ r + Cardinality(AtNet') <= Cardinality(counter'.procs)
          /\ \A j \in Kinds : admitted'[j] <= Limit[j] * (r - 1) + 1 /\ admitted'[j] <= Limit[j] * r
      BY <2>6, <2>7, <2>8
    <3> HIDE DEF r
    <3> QED BY <2>2, <3>1 DEF StartedBy
  <2>10. count' <= SumOf(Done', Kinds) /\ count' # Absent
    BY <1>1, <1>2, <2>2
  <2>11. \A j \in Kinds : refused'[j] > 0 => SumOf(Done', Kinds) > Limit[j]
    <3> SUFFICES ASSUME NEW j \in Kinds, refused'[j] > 0 PROVE SumOf(Done', Kinds) > Limit[j]
      OBVIOUS
    <3>1. Limit[j] \in Nat
      BY <1>1
    <3>2. CASE refused'[j] = refused[j]
      <4>1. Total > Limit[j]
        BY <3>2 DEF EntryInv
      <4> HIDE DEF Total
      <4> QED BY <1>2, <2>2, <3>1, <4>1
    <3>3. CASE 1 > Limit[j]
      <4> HIDE DEF Total
      <4> QED BY <1>2, <2>2, <3>1, <3>3
    <3> QED BY <2>2, <3>2, <3>3
  <2> QED BY <2>9, <2>10, <2>11 DEF EntryInv
<1>7. ASSUME Expire PROVE EntryInv'
  <2>1. count' = Absent /\ admitted' = None /\ refused' = None /\ nets' = 0
    BY <1>7 DEF Expire
  <2>2. \A j \in Kinds : refused'[j] = 0
    BY <2>1 DEF None
  <2> QED BY <2>1, <2>2 DEF EntryInv
<1> QED BY <1>3, <1>4, <1>5, <1>6, <1>7 DEF LimiterNext

\* The invariant says what the limiter promises.
LEMMA LimiterSays ==
  ASSUME LimiterOK, LimiterInv
  PROVE  LimitIsExact
<1>1. /\ count \in Nat \cup {Absent} /\ nets \in Nat /\ Absent \notin Nat
      /\ admitted \in [Kinds -> Nat] /\ Limit \in [Kinds -> Nat]
  BY DEF LimiterInv, LimiterType, LimiterOK
<1> DEFINE w == Cardinality(counter.procs)
<1>2. w \in Nat /\ Cardinality(AtNet) \in Nat
  BY LimiterCounts DEF LimiterInv
<1>3. AdmittedWithinLimit
  <2> SUFFICES ASSUME NEW k \in Kinds
               PROVE  admitted[k] <= Limit[k] * (IF nets = 0 THEN 1 ELSE w)
    BY DEF AdmittedWithinLimit
  <2>1. admitted[k] \in Nat /\ Limit[k] \in Nat
    BY <1>1
  <2> HIDE DEF w
  <2>2. CASE count = Absent
    <3>1. admitted[k] = 0 /\ nets = 0
      BY <2>2 DEF LimiterInv, EntryInv, None
    <3>2. 0 <= Limit[k] * 1
      BY <2>1
    <3> QED BY <3>1, <3>2
  <2>3. CASE count # Absent
    <3>1. PICK s \in {nets, nets + 1} : StartedBy(s)
      BY <2>3 DEF LimiterInv, EntryInv
    <3>2. s \in Nat /\ s > 0 /\ s <= w /\ admitted[k] <= Limit[k] * s
      BY <1>1, <1>2, <3>1 DEF StartedBy, w
    <3>3. \A a, b, c \in Nat : b <= c => a * b \in Int /\ a * c \in Int /\ a * b <= a * c
      OBVIOUS
    <3>4. Limit[k] * s <= Limit[k] * w /\ Limit[k] * s \in Int /\ Limit[k] * w \in Int
      BY <1>2, <2>1, <3>2, <3>3
    <3>5. nets = 0 => s = 1
      BY <3>1, <3>2
    <3> QED BY <2>1, <3>2, <3>4, <3>5
  <2> QED BY <2>2, <2>3
<1>4. RefusedOnlyWhenExhausted
  <2>1. Counted = SumOf(Done, Kinds)
    BY DEF Counted, Done
  <2> QED BY <2>1 DEF RefusedOnlyWhenExhausted, LimiterInv, EntryInv
<1> QED BY <1>3, <1>4 DEF LimitIsExact

LEMMA LimiterStarts == ASSUME LimiterOK, LimiterInit PROVE LimiterInv
<1>1. LimiterType
  <2>1. check = [p \in Workers |-> [pc |-> "idle", kind |-> "none"]]
    BY DEF LimiterInit, NoCheck
  <2> QED BY <2>1 DEF LimiterInit, None, LimiterType, CheckRows
<1>2. \A k \in Kinds : refused[k] = 0
  BY DEF LimiterInit, None
<1> QED BY <1>1, <1>2 DEF LimiterInit, LimiterInv, EntryInv

\* For any counters, workers, kinds of calls and limits: _check_rate_limit
\* admits no more calls than the limit while an entry lives, but for one limit's
\* worth per further worker at the safety net, and refuses only beyond it.
THEOREM LimitHolds == LimiterSpec => []LimitIsExact
<1>1. LimiterInit => LimiterInv
  BY LimiterStarts, RateLimitAssumption
<1>2. LimiterInv /\ [LimiterNext]_limiterVars => LimiterInv'
  BY LimiterTypeStep, EntryStep, LimiterStutter, RateLimitAssumption DEF LimiterInv
<1>3. LimiterInv => LimitIsExact
  BY LimiterSays, RateLimitAssumption
<1> QED BY <1>1, <1>2, <1>3, PTL DEF LimiterSpec

-----------------------------------------------------------------------------
(* Verification of a number *)

\* What a step of the OTP views does to the counter is a step of the limiter.
LEMMA OtpStepIsLimiterStep ==
  ASSUME LimiterType, [OtpNext]_<<limiterVars, own>>
  PROVE  [LimiterNext]_limiterVars
<1> SUFFICES ASSUME ~UNCHANGED limiterVars PROVE LimiterNext
  OBVIOUS
<1>1. LimiterNext \/ Expire \/ \E p \in Workers : CountSend(p)
  <2>1. ASSUME NEW p \in Workers, NEW n, NEW entered, ReadCode(p, n, entered) PROVE UNCHANGED limiterVars
    BY <2>1 DEF ReadCode
  <2>2. ASSUME NEW p \in Workers,
               RequestCode(p) \/ CreateCode(p) \/ SetCooldown(p) \/ SaveAttempt(p) \/ SaveCustomer(p)
        PROVE  UNCHANGED limiterVars
    BY <2>2 DEF RequestCode, CreateCode, SetCooldown, SaveAttempt, SaveCustomer
  <2>3. ASSUME NEW n, AdminEdit(n) PROVE UNCHANGED limiterVars
    BY <2>3 DEF AdminEdit
  <2>4. ASSUME EndCooldown PROVE UNCHANGED limiterVars
    BY <2>4 DEF EndCooldown
  <2>5. ASSUME NEW i, ExpireCode(i) PROVE UNCHANGED limiterVars
    BY <2>5 DEF ExpireCode
  <2> QED BY <2>1, <2>2, <2>3, <2>4, <2>5 DEF OtpNext
<1>2. ASSUME NEW p \in Workers, CountSend(p) PROVE LimiterNext
  <2>1. Add(p, "send") \/ Incr(p) \/ Set(p)
    BY <1>2 DEF CountSend
  <2>2. Add(p, "send") => "send" \in Kinds
    BY DEF Add, Kinds, LimiterType
  <2> QED BY <2>1, <2>2 DEF LimiterNext
<1>3. Expire => LimiterNext
  BY DEF LimiterNext
<1> QED BY <1>1, <1>2, <1>3

\* The OTP views use the counter as the limiter prescribes, whatever else they do.
THEOREM OtpRefinesLimiter == OtpSpec => LimiterSpec
<1>1. OtpInit => LimiterInit /\ LimiterType
  BY LimiterStarts, RateLimitAssumption DEF OtpInit, LimiterInv
<1>2. LimiterType /\ [OtpNext]_<<limiterVars, own>> => [LimiterNext]_limiterVars
  BY OtpStepIsLimiterStep
<1>3. LimiterType /\ [LimiterNext]_limiterVars => LimiterType'
  BY LimiterTypeStep, LimiterStutter, RateLimitAssumption
<1> QED BY <1>1, <1>2, <1>3, PTL DEF OtpSpec, LimiterSpec

\* A step of the OTP views: each with its effect on what the views keep.
LEMMA OtpSteps ==
  ASSUME OtpNext
  PROVE  \/ UNCHANGED own
         \/ \E p \in Workers : \/ RequestCode(p) \/ CountSend(p) \/ CreateCode(p) \/ SetCooldown(p)
                               \/ \E n \in Numbers, e \in DOMAIN codes \cup {Wrong} : ReadCode(p, n, e)
                               \/ SaveAttempt(p) \/ SaveCustomer(p)
         \/ \E n \in Numbers : AdminEdit(n)
         \/ EndCooldown
         \/ \E i \in DOMAIN codes : ExpireCode(i)
BY DEF OtpNext

\* The newest of some codes is one of them.
LEMMA Newest ==
  ASSUME NEW S, S # {}, NEW n \in Nat, S \subseteq 1..n
  PROVE  Max(S) \in S
<1> DEFINE f == [i \in S |-> i]
<1>1. IsFiniteSet(S) /\ \A i \in S : f[i] \in Int
  <2>1. IsFiniteSet(1..n)
    BY FS_Interval
  <2>2. IsFiniteSet(S)
    BY <2>1, FS_Subset
  <2> QED BY <2>2
<1>2. PICK m \in S : \A i \in S : f[m] >= f[i]
  <2> HIDE DEF f
  <2> QED BY <1>1, Largest
<1>3. \A i \in S : m >= i
  BY <1>2
<1> QED BY <1>3 DEF Max

\* The rows stay rows when one is written.
LEMMA CodesWritten ==
  ASSUME codes \in Seq(CodeRows), NEW i \in DOMAIN codes, NEW a \in Nat, NEW b \in BOOLEAN
  PROVE  /\ codes[i] \in CodeRows
         /\ [codes EXCEPT ![i].guesses = a] \in Seq(CodeRows)
         /\ [codes EXCEPT ![i].live = b] \in Seq(CodeRows)
         /\ [codes EXCEPT ![i].attempts = a, ![i].consumed = b] \in Seq(CodeRows)
         /\ Len([codes EXCEPT ![i].guesses = a]) = Len(codes)
         /\ Len([codes EXCEPT ![i].live = b]) = Len(codes)
         /\ Len([codes EXCEPT ![i].attempts = a, ![i].consumed = b]) = Len(codes)
<1>1. codes[i] \in CodeRows
  OBVIOUS
<1>2. /\ [codes[i] EXCEPT !.guesses = a] \in CodeRows
      /\ [codes[i] EXCEPT !.live = b] \in CodeRows
      /\ [codes[i] EXCEPT !.attempts = a, !.consumed = b] \in CodeRows
  BY <1>1 DEF CodeRows
<1>3. \A row \in CodeRows :
        [codes EXCEPT ![i] = row] \in Seq(CodeRows) /\ Len([codes EXCEPT ![i] = row]) = Len(codes)
  OBVIOUS
<1>4. [codes EXCEPT ![i].guesses = a] = [codes EXCEPT ![i] = [codes[i] EXCEPT !.guesses = a]]
  OBVIOUS
<1>5. [codes EXCEPT ![i].live = b] = [codes EXCEPT ![i] = [codes[i] EXCEPT !.live = b]]
  OBVIOUS
<1>6. [codes EXCEPT ![i].attempts = a, ![i].consumed = b]
        = [codes EXCEPT ![i] = [codes[i] EXCEPT !.attempts = a, !.consumed = b]]
  OBVIOUS
<1> QED BY <1>1, <1>2, <1>3, <1>4, <1>5, <1>6

LEMMA OtpTypeStep ==
  ASSUME OtpOK, OtpType, [OtpNext]_<<limiterVars, own>>
  PROVE  OtpType'
<1>1. LimiterType' /\ counter' = counter
  <2>1. [LimiterNext]_limiterVars
    BY OtpStepIsLimiterStep DEF OtpType
  <2>2. LimiterType'
    BY <2>1, LimiterTypeStep, LimiterStutter DEF OtpType, OtpOK
  <2>3. counter' = counter
    BY <2>1 DEF LimiterNext, Add, Incr, Set, Expire, limiterVars
  <2> QED BY <2>2, <2>3
<1> DEFINE Checks == [pc : {"idle"} \cup Numbers, row : Nat, attempts : Nat, right : BOOLEAN]
           SendPoints == {"idle", "count", "create", "cool"}
<1>2. /\ cooldown \in BOOLEAN /\ burst \in Nat /\ codes \in Seq(CodeRows)
      /\ sender \in [Workers -> SendPoints] /\ checker \in [Workers -> Checks]
      /\ \A p \in Workers : sender[p] # "idle" => p \in counter.procs
      /\ \A p \in Workers : checker[p].row <= Len(codes)
      /\ Len(codes) \in Nat
  BY DEF OtpType
<1>3. CASE UNCHANGED own
  BY <1>1, <1>2, <1>3 DEF own, OtpType
<1>21. ASSUME codes' \in Seq(CodeRows), Len(codes') >= Len(codes), checker' = checker
       PROVE  \A p \in Workers : checker'[p].row <= Len(codes')
  <2>1. Len(codes') \in Nat /\ \A p \in Workers : checker[p].row \in Nat
    BY <1>2, <1>21
  <2> QED BY <1>2, <1>21, <2>1
<1>4. ASSUME NEW p \in Workers, NEW pt \in SendPoints, sender' = [sender EXCEPT ![p] = pt],
             pt = "idle" \/ p \in counter.procs,
             cooldown' \in BOOLEAN, burst' \in Nat, codes' \in Seq(CodeRows), Len(codes') >= Len(codes),
             checker' = checker
      PROVE  OtpType'
  BY <1>1, <1>2, <1>21, <1>4 DEF OtpType
<1>5. ASSUME NEW p \in Workers, NEW c \in Checks, checker' = [checker EXCEPT ![p] = c],
             UNCHANGED <<cooldown, burst, sender>>, codes' \in Seq(CodeRows),
             Len(codes') = Len(codes), c.row <= Len(codes)
      PROVE  OtpType'
  BY <1>1, <1>2, <1>5 DEF OtpType
<1>22. codes' = codes => codes' \in Seq(CodeRows) /\ Len(codes') >= Len(codes) /\ Len(codes') = Len(codes)
  BY <1>2
<1>23. ASSUME NEW p \in Workers, NEW c \in Checks, checker' = [checker EXCEPT ![p] = c], c.row = 0,
              UNCHANGED <<cooldown, burst, sender>>, codes' \in Seq(CodeRows), Len(codes') = Len(codes)
       PROVE  OtpType'
  <2>1. c.row <= Len(codes)
    BY <1>2, <1>23
  <2> HIDE DEF Checks
  <2> QED BY <1>5, <1>23, <2>1
<1> HIDE DEF Checks
<1>6. ASSUME NEW p \in Workers, RequestCode(p) PROVE OtpType'
  <2> DEFINE pt == "count"
  <2>1. sender' = [sender EXCEPT ![p] = pt] /\ p \in counter.procs /\ pt \in SendPoints
        /\ UNCHANGED <<cooldown, burst, codes, checker>>
    BY <1>6 DEF RequestCode, Free
  <2> HIDE DEF pt
  <2>2. codes' \in Seq(CodeRows) /\ Len(codes') >= Len(codes) /\ cooldown' \in BOOLEAN /\ burst' \in Nat
    BY <1>2, <1>22, <2>1
  <2> QED BY <1>4, <2>1, <2>2
<1>7. ASSUME NEW p \in Workers, CountSend(p) PROVE OtpType'
  <2>1. UNCHANGED <<cooldown, burst, codes, checker>> /\ sender[p] = "count"
    BY <1>7 DEF CountSend
  <2>2. CASE sender' = sender
    BY <1>1, <1>2, <2>1, <2>2 DEF OtpType
  <2>3. CASE sender' # sender
    <3>1. PICK pt \in SendPoints : sender' = [sender EXCEPT ![p] = pt]
      BY <1>7, <2>3 DEF CountSend
    <3>2. codes' \in Seq(CodeRows) /\ Len(codes') >= Len(codes) /\ cooldown' \in BOOLEAN /\ burst' \in Nat
          /\ p \in counter.procs
      BY <1>2, <1>22, <2>1
    <3> QED BY <1>4, <2>1, <3>1, <3>2
  <2> QED BY <2>2, <2>3
<1>8. ASSUME NEW p \in Workers, CreateCode(p) PROVE OtpType'
  <2> DEFINE pt == "cool"
             row == Row(Number)
  <2>1. /\ sender' = [sender EXCEPT ![p] = pt] /\ sender[p] # "idle" /\ pt \in SendPoints
        /\ burst' = burst + 1 /\ codes' = Append(codes, row)
        /\ UNCHANGED <<cooldown, checker>>
    BY <1>8 DEF CreateCode
  <2>2. row \in CodeRows
    BY DEF Row, CodeRows, Numbers
  <2> HIDE DEF pt, row
  <2>3. codes' \in Seq(CodeRows) /\ burst' \in Nat /\ Len(codes') >= Len(codes)
    BY <1>2, <2>1, <2>2
  <2> QED BY <1>2, <1>4, <2>1, <2>3
<1>9. ASSUME NEW p \in Workers, SetCooldown(p) PROVE OtpType'
  <2> DEFINE pt == "idle"
  <2>1. /\ sender' = [sender EXCEPT ![p] = pt] /\ pt = "idle" /\ pt \in SendPoints
        /\ cooldown' = TRUE /\ UNCHANGED <<burst, codes, checker>>
    BY <1>9 DEF SetCooldown
  <2> HIDE DEF pt
  <2>2. codes' \in Seq(CodeRows) /\ Len(codes') >= Len(codes) /\ cooldown' \in BOOLEAN /\ burst' \in Nat
    BY <1>2, <1>22, <2>1
  <2> QED BY <1>4, <2>1, <2>2
<1>10. ASSUME NEW p \in Workers, NEW n \in Numbers, NEW e \in DOMAIN codes \cup {Wrong},
              ReadCode(p, n, e)
       PROVE  OtpType'
  <2> DEFINE i == Max(Candidates(n))
             c == [pc |-> n, row |-> i, attempts |-> codes[i].attempts, right |-> e = i]
  <2>1. i \in DOMAIN codes /\ i \in Nat /\ i <= Len(codes)
    <3>1. Candidates(n) # {} /\ Candidates(n) \subseteq 1..Len(codes) /\ Len(codes) \in Nat
      BY <1>2, <1>10 DEF ReadCode, Candidates
    <3>2. i \in Candidates(n)
      BY <3>1, Newest
    <3> QED BY <1>2, <3>1, <3>2
  <2>2. /\ codes' = [codes EXCEPT ![i].guesses = @ + 1]
        /\ checker' = [checker EXCEPT ![p] = c]
        /\ UNCHANGED <<cooldown, sender, burst>>
    BY <1>10 DEF ReadCode
  <2> HIDE DEF i
  <2>3. codes[i] \in CodeRows
    BY <1>2, <2>1
  <2>4. codes[i].attempts \in Nat /\ codes[i].guesses + 1 \in Nat
    BY <2>3 DEF CodeRows
  <2>5. c \in Checks /\ c.row <= Len(codes)
    BY <2>1, <2>4 DEF Checks
  <2>6. codes' \in Seq(CodeRows) /\ Len(codes') = Len(codes)
    <3> DEFINE a == codes[i].guesses + 1
    <3>1. codes' = [codes EXCEPT ![i].guesses = a] /\ a \in Nat
      BY <2>2, <2>4
    <3> HIDE DEF a
    <3> QED BY <1>2, <2>1, <3>1, CodesWritten
  <2> HIDE DEF c
  <2> QED BY <1>5, <2>2, <2>5, <2>6
<1>11. ASSUME NEW p \in Workers, SaveAttempt(p) PROVE OtpType'
  <2> DEFINE c == checker[p]
             a == c.attempts + 1
             b == codes[c.row].consumed \/ c.right
             d == IF c.right THEN [pc |-> c.pc, row |-> 0, attempts |-> c.attempts, right |-> TRUE]
                  ELSE NotChecking
  <2>1. c \in Checks /\ c.row # 0 /\ c.row <= Len(codes)
    BY <1>2, <1>11 DEF SaveAttempt
  <2>2. c.row \in DOMAIN codes /\ a \in Nat
    BY <1>2, <2>1 DEF Checks
  <2>3. codes[c.row] \in CodeRows
    BY <1>2, <2>2
  <2>4. b \in BOOLEAN
    OBVIOUS
  <2>5. codes' = [codes EXCEPT ![c.row].attempts = a, ![c.row].consumed = b]
    BY <1>11 DEF SaveAttempt
  <2>6. checker' = [checker EXCEPT ![p] = d] /\ UNCHANGED <<cooldown, burst, sender>>
    BY <1>11 DEF SaveAttempt
  <2>7. d \in Checks /\ d.row = 0
    BY <2>1 DEF Checks, NotChecking
  <2> HIDE DEF a, b, d
  <2>8. codes' \in Seq(CodeRows) /\ Len(codes') = Len(codes)
    BY <1>2, <2>2, <2>4, <2>5, CodesWritten
  <2> QED BY <1>23, <2>6, <2>7, <2>8
<1>12. ASSUME NEW p \in Workers, SaveCustomer(p) PROVE OtpType'
  <2> DEFINE d == NotChecking
  <2>1. checker' = [checker EXCEPT ![p] = d] /\ UNCHANGED <<cooldown, burst, sender, codes>>
    BY <1>12 DEF SaveCustomer
  <2>2. d \in Checks /\ d.row = 0
    BY DEF Checks, NotChecking
  <2> HIDE DEF d
  <2> QED BY <1>22, <1>23, <2>1, <2>2
<1>13. ASSUME NEW n, AdminEdit(n) PROVE OtpType'
  BY <1>1, <1>2, <1>13 DEF AdminEdit, OtpType, Checks
<1>14. ASSUME EndCooldown PROVE OtpType'
  BY <1>1, <1>2, <1>14 DEF EndCooldown, OtpType, Checks
<1>15. ASSUME NEW i \in DOMAIN codes, ExpireCode(i) PROVE OtpType'
  <2> DEFINE b == FALSE
  <2>1. codes' = [codes EXCEPT ![i].live = b] /\ UNCHANGED <<cooldown, burst, sender, checker>>
    BY <1>15 DEF ExpireCode
  <2>2. b \in BOOLEAN
    OBVIOUS
  <2> HIDE DEF b
  <2>3. codes' \in Seq(CodeRows) /\ Len(codes') = Len(codes)
    <3> DEFINE a == 0
    <3>1. a \in Nat
      OBVIOUS
    <3> HIDE DEF a
    <3> QED BY <1>2, <2>1, <2>2, <3>1, CodesWritten
  <2> QED BY <1>1, <1>2, <2>1, <2>3 DEF OtpType, Checks
<1> QED BY <1>3, <1>6, <1>7, <1>8, <1>9, <1>10, <1>11, <1>12, <1>13, <1>14, <1>15, OtpSteps

LEMMA OtpStarts == ASSUME OtpOK, OtpInit PROVE OtpType /\ BurstInv /\ ReachedInv
<1>1. LimiterType
  BY LimiterStarts DEF OtpOK, OtpInit, LimiterInv
<1>2. codes \in Seq(CodeRows) /\ Len(codes) \in Nat
  <2>1. Row(Other) \in CodeRows
    BY DEF Row, CodeRows, Numbers
  <2>2. codes = <<>> \/ codes = <<Row(Other)>>
    BY DEF OtpInit
  <2> DEFINE r == Row(Other)
  <2> HIDE DEF r
  <2>3. CASE codes = <<>>
    BY <2>3
  <2>4. CASE codes = <<r>>
    BY <2>1, <2>4 DEF r
  <2> QED BY <2>2, <2>3, <2>4 DEF r
<1>3. OtpType
  <2>1. checker = [p \in Workers |-> [pc |-> "idle", row |-> 0, attempts |-> 0, right |-> FALSE]]
        /\ sender = [p \in Workers |-> "idle"] /\ cooldown = FALSE /\ burst = 0
    BY DEF OtpInit, NotChecking
  <2>2. \A p \in Workers : checker[p].row = 0 /\ 0 <= Len(codes)
    BY <1>2, <2>1
  <2>3. checker \in [Workers -> [pc : {"idle"} \cup Numbers, row : Nat, attempts : Nat, right : BOOLEAN]]
    BY <2>1
  <2> QED BY <1>1, <1>2, <2>1, <2>2, <2>3 DEF OtpType
<1>4. BurstInv
  <2>1. cooldown = FALSE /\ burst = 0 /\ IsFiniteSet(Created)
    <3>1. IsFiniteSet(counter.procs) /\ Created \subseteq counter.procs
      BY <1>1, LimiterCounts DEF Created, OtpOK
    <3> QED BY <3>1, FS_Subset DEF OtpInit
  <2>2. Cardinality(Created) \in Nat
    BY <2>1, FS_CardinalityType
  <2>3. 0 <= Cardinality(Created)
    BY <2>2
  <2> QED BY <2>1, <2>3 DEF BurstInv
<1>5. ReachedInv
  BY DEF ReachedInv, OtpInit, NotChecking, VerifiedNumberIsReached
<1> QED BY <1>3, <1>4, <1>5

\* Workers that count or create, and those that have created, are different
\* workers of the counter.
LEMMA BurstCounts ==
  ASSUME LimiterOK, LimiterType
  PROVE  /\ IsFiniteSet(Sending) /\ IsFiniteSet(Created)
         /\ Cardinality(Sending) \in Nat /\ Cardinality(Created) \in Nat
         /\ Cardinality(counter.procs) \in Nat
         /\ Cardinality(Sending) + Cardinality(Created) <= Cardinality(counter.procs)
<1>1. /\ IsFiniteSet(counter.procs) /\ Sending \subseteq counter.procs /\ Created \subseteq counter.procs
      /\ Sending \cap Created = {}
  BY LimiterCounts DEF Sending, Created
<1>2. IsFiniteSet(Sending) /\ IsFiniteSet(Created)
  BY <1>1, FS_Subset
<1>3. Cardinality(Sending \cup Created) = Cardinality(Sending) + Cardinality(Created)
  <2>1. Cardinality(Sending \cup Created)
          = Cardinality(Sending) + Cardinality(Created) - Cardinality(Sending \cap Created)
    BY <1>2, FS_Union
  <2>2. Cardinality(Sending \cap Created) = 0
    BY <1>1, FS_EmptySet
  <2> QED BY <1>2, <2>1, <2>2, FS_CardinalityType
<1>4. Cardinality(Sending \cup Created) <= Cardinality(counter.procs)
  <2>1. Sending \cup Created \subseteq counter.procs
    BY <1>1
  <2> QED BY <1>1, <2>1, FS_Subset
<1> QED BY <1>1, <1>2, <1>3, <1>4, FS_CardinalityType

\* A step under which nobody starts to send and nobody creates keeps the bound.
LEMMA BurstStep ==
  ASSUME OtpOK, OtpType, OtpType', BurstInv, [OtpNext]_<<limiterVars, own>>, counter' = counter
  PROVE  BurstInv'
<1> DEFINE w == Cardinality(counter.procs)
           s == Cardinality(Sending)
           c == Cardinality(Created)
<1>1. /\ IsFiniteSet(Sending) /\ IsFiniteSet(Created) /\ s \in Nat /\ c \in Nat /\ w \in Nat
      /\ s + c <= w /\ burst \in Nat /\ cooldown \in BOOLEAN
  BY BurstCounts DEF OtpType, OtpOK
<1>2. /\ ~cooldown => burst <= c
      /\ cooldown => burst + s <= w
  BY DEF BurstInv
<1>3. sender \in [Workers -> {"idle", "count", "create", "cool"}]
      /\ \A p \in Workers : sender[p] # "idle" => p \in counter.procs
  BY DEF OtpType
<1>4. CASE UNCHANGED <<sender, burst, cooldown>>
  <2>1. Sending' = Sending /\ Created' = Created
    BY <1>4 DEF Sending, Created
  <2> QED BY <1>4, <2>1 DEF BurstInv
<1>5. ASSUME NEW p \in Workers, RequestCode(p) PROVE BurstInv'
  <2>1. ~cooldown /\ sender[p] = "idle" /\ sender' = [sender EXCEPT ![p] = "count"]
        /\ cooldown' = cooldown /\ burst' = burst
    BY <1>5 DEF RequestCode, Free, Cooling
  <2>2. Created' = Created
    BY <1>3, <2>1 DEF Created
  <2> QED BY <1>2, <2>1, <2>2 DEF BurstInv
<1>6. ASSUME NEW p \in Workers, CountSend(p) PROVE BurstInv'
  <2>1. sender[p] = "count" /\ burst' = burst /\ cooldown' = cooldown
        /\ (sender' = sender \/ \E pt \in {"create", "idle", "count"} : sender' = [sender EXCEPT ![p] = pt])
    BY <1>6 DEF CountSend
  <2>2. Created' = Created /\ Sending' \subseteq Sending
    <3>1. CASE sender' = sender
      BY <3>1 DEF Created, Sending
    <3>2. ASSUME NEW pt \in {"create", "idle", "count"}, sender' = [sender EXCEPT ![p] = pt]
          PROVE  Created' = Created /\ Sending' \subseteq Sending
      BY <1>3, <2>1, <3>2 DEF Created, Sending
    <3> QED BY <2>1, <3>1, <3>2
  <2>3. Cardinality(Sending') <= s /\ Cardinality(Sending') \in Nat
    BY <1>1, <2>2, FS_Subset, FS_CardinalityType
  <2> HIDE DEF w, s, c
  <2>4. cooldown => burst + Cardinality(Sending') <= w
    BY <1>1, <1>2, <2>3
  <2> QED BY <1>2, <2>1, <2>2, <2>4 DEF BurstInv, w, c
<1>7. ASSUME NEW p \in Workers, CreateCode(p) PROVE BurstInv'
  <2>1. sender[p] = "create" /\ burst' = burst + 1 /\ cooldown' = cooldown
        /\ sender' = [sender EXCEPT ![p] = "cool"] /\ p \in counter.procs
    BY <1>3, <1>7 DEF CreateCode
  <2>2. Created' = Created \cup {p} /\ p \notin Created /\ Sending' = Sending \ {p} /\ p \in Sending
    BY <1>3, <2>1 DEF Created, Sending
  <2>3. Cardinality(Created') = c + 1 /\ Cardinality(Sending') = s - 1
    BY <1>1, <2>2, FS_AddElement, FS_RemoveElement
  <2> HIDE DEF w, s, c
  <2>4. /\ ~cooldown' => burst' <= Cardinality(Created')
        /\ cooldown' => burst' + Cardinality(Sending') <= w
    BY <1>1, <1>2, <2>1, <2>3
  <2> QED BY <2>4 DEF BurstInv, w
<1>8. ASSUME NEW p \in Workers, SetCooldown(p) PROVE BurstInv'
  <2>1. sender[p] = "cool" /\ burst' = burst /\ cooldown' = TRUE /\ sender' = [sender EXCEPT ![p] = "idle"]
    BY <1>8 DEF SetCooldown
  <2>2. Sending' = Sending
    BY <1>3, <2>1 DEF Sending
  <2> HIDE DEF w, s, c
  <2>3. burst + s <= w
    BY <1>1, <1>2
  <2> QED BY <2>1, <2>2, <2>3 DEF BurstInv, w, s
<1>9. ASSUME EndCooldown PROVE BurstInv'
  <2>1. cooldown' = FALSE /\ burst' = 0 /\ sender' = sender
    BY <1>9 DEF EndCooldown
  <2>2. Created' = Created
    BY <2>1 DEF Created
  <2> QED BY <1>1, <2>1, <2>2 DEF BurstInv
<1>10. ASSUME NEW p \in Workers, NEW n, NEW e, ReadCode(p, n, e) PROVE BurstInv'
  BY <1>4, <1>10 DEF ReadCode
<1>11. ASSUME NEW p \in Workers, SaveAttempt(p) \/ SaveCustomer(p) PROVE BurstInv'
  BY <1>4, <1>11 DEF SaveAttempt, SaveCustomer
<1>12. ASSUME NEW n, AdminEdit(n) \/ ExpireCode(n) PROVE BurstInv'
  BY <1>4, <1>12 DEF AdminEdit, ExpireCode
<1>13. CASE UNCHANGED own
  BY <1>4, <1>13 DEF own
<1> QED BY <1>5, <1>6, <1>7, <1>8, <1>9, <1>10, <1>11, <1>12, <1>13, OtpSteps

\* A code that a worker found to be right was sent to the customer's phone, for
\* the number that is then saved.
LEMMA ReachedStep ==
  ASSUME OtpOK, OtpType, ReachedInv, [OtpNext]_<<limiterVars, own>>
  PROVE  ReachedInv'
<1>1. checker \in [Workers -> [pc : {"idle"} \cup Numbers, row : Nat, attempts : Nat, right : BOOLEAN]]
      /\ codes \in Seq(CodeRows) /\ "idle" \notin Numbers
  BY DEF OtpType, OtpOK, NotChecking
<1>2. CASE UNCHANGED <<checker, customer, mine, staff>>
  BY <1>2 DEF ReachedInv, VerifiedNumberIsReached
<1>3. ASSUME NEW p \in Workers, NEW n \in Numbers, NEW e \in DOMAIN codes \cup {Wrong},
             ReadCode(p, n, e)
      PROVE  ReachedInv'
  <2> DEFINE i == Max(Candidates(n))
  <2>1. i \in Candidates(n)
    <3>1. Candidates(n) # {} /\ Candidates(n) \subseteq 1..Len(codes) /\ Len(codes) \in Nat
      BY <1>1, <1>3 DEF ReadCode, Candidates
    <3> QED BY <3>1, Newest
  <2>2. i \in 1..Len(codes) /\ Len(codes) \in Nat /\ codes[i].number = n
    BY <1>1, <2>1 DEF Candidates
  <2>3. /\ e # 0 => codes[e].number = mine
        /\ checker' = [checker EXCEPT ![p] =
             [pc |-> n, row |-> i, attempts |-> codes[i].attempts, right |-> e = i]]
        /\ UNCHANGED <<customer, mine, staff>>
    BY <1>3 DEF ReadCode, Wrong
  <2> HIDE DEF i
  <2>4. e = i => n = mine
    BY <2>2, <2>3
  <2>5. \A q \in Workers :
          /\ checker'[q].pc # "idle" /\ checker'[q].right => checker'[q].pc = mine
          /\ checker'[q].pc # "idle" /\ checker'[q].row = 0 => checker'[q].right
    <3> SUFFICES ASSUME NEW q \in Workers
                 PROVE  /\ checker'[q].pc # "idle" /\ checker'[q].right => checker'[q].pc = mine
                        /\ checker'[q].pc # "idle" /\ checker'[q].row = 0 => checker'[q].right
      OBVIOUS
    <3>1. CASE q = p
      <4>1. checker'[q].pc = n /\ checker'[q].row = i /\ checker'[q].right = (e = i) /\ i # 0
        BY <1>1, <2>2, <2>3, <3>1
      <4> QED BY <2>4, <4>1
    <3>2. CASE q # p
      BY <1>1, <2>3, <3>2 DEF ReachedInv
    <3> QED BY <3>1, <3>2
  <2> QED BY <2>3, <2>5 DEF ReachedInv, VerifiedNumberIsReached
<1>4. ASSUME NEW p \in Workers, SaveAttempt(p) PROVE ReachedInv'
  <2> DEFINE d == IF checker[p].right THEN [pc |-> checker[p].pc, row |-> 0, attempts |-> checker[p].attempts,
                                            right |-> TRUE]
                  ELSE NotChecking
  <2>1. checker' = [checker EXCEPT ![p] = d] /\ UNCHANGED <<customer, mine, staff>>
    BY <1>4 DEF SaveAttempt
  <2>2. /\ d.pc # "idle" /\ d.right => d.pc = mine
        /\ d.pc # "idle" /\ d.row = 0 => d.right
    BY DEF ReachedInv, NotChecking
  <2> HIDE DEF d
  <2> QED BY <1>1, <2>1, <2>2 DEF ReachedInv, VerifiedNumberIsReached
<1>5. ASSUME NEW p \in Workers, SaveCustomer(p) PROVE ReachedInv'
  <2>1. /\ checker[p].pc = mine
        /\ customer' = [wa_number |-> checker[p].pc, verified |-> TRUE] /\ mine' = mine
        /\ checker' = [checker EXCEPT ![p] = [pc |-> "idle", row |-> 0, attempts |-> 0, right |-> FALSE]]
    BY <1>5 DEF SaveCustomer, ReachedInv, NotChecking
  <2> QED BY <1>1, <2>1 DEF ReachedInv, VerifiedNumberIsReached
<1>6. ASSUME NEW n, AdminEdit(n) PROVE ReachedInv'
  <2>1. staff'.typed = TRUE /\ UNCHANGED <<checker, mine>>
    BY <1>6 DEF AdminEdit
  <2> QED BY <2>1 DEF ReachedInv, VerifiedNumberIsReached
<1>7. ASSUME NEW p \in Workers,
             RequestCode(p) \/ CountSend(p) \/ CreateCode(p) \/ SetCooldown(p)
      PROVE  ReachedInv'
  BY <1>2, <1>7 DEF RequestCode, CountSend, CreateCode, SetCooldown
<1>8. ASSUME NEW n, EndCooldown \/ ExpireCode(n) PROVE ReachedInv'
  BY <1>2, <1>8 DEF EndCooldown, ExpireCode
<1>9. CASE UNCHANGED own
  BY <1>2, <1>9 DEF own
<1> QED BY <1>3, <1>4, <1>5, <1>6, <1>7, <1>8, <1>9, OtpSteps

-----------------------------------------------------------------------------
(* The guesses at one code *)

Levels == 0..(MAX_ATTEMPTS - 1)

\* How many of the workers P have, in v, more than x attempts.
StandingOf(P, v) == [x \in Levels |-> Cardinality({p \in P : v[p] > x})]

\* Standings that exceed g before they fall below it.
Later(g, w) ==
  {h \in Standings(w) : \E x \in Levels : h[x] > g[x] /\ \A y \in 0..x : h[y] >= g[y]}

\* The attempts that a worker will write back, or that it would read.
Seen(i) == [p \in counter.procs |-> IF checker[p].row = i THEN checker[p].attempts
                                    ELSE codes[i].attempts]
Holding(i) == {p \in counter.procs : checker[p].row = i}
Crew == Cardinality(counter.procs)

\* Each attempt saved moves the standing on, and nothing moves it back: guesses that
\* were saved and standings still to come are at most the standings there are.
GuessesLeft(i) ==
  codes[i].guesses + Cardinality(Later(StandingOf(counter.procs, Seen(i)), Crew)) + 1
    <= Cardinality(Standings(Crew)) + Cardinality(Holding(i))

GuessInv ==
  /\ \A p \in Workers : checker[p].row # 0 =>
       p \in counter.procs /\ checker[p].pc # "idle" /\ checker[p].attempts < MAX_ATTEMPTS
  /\ \A i \in 1 .. Len(codes) : GuessesLeft(i)

\* The functions from a finite set to a finite set are finitely many.
LEMMA FunctionsFinite ==
  ASSUME NEW S, NEW T, IsFiniteSet(S), IsFiniteSet(T)
  PROVE  IsFiniteSet([S -> T])
<1> DEFINE graph(f) == {<<x, f[x]>> : x \in S}
           F == [f \in [S -> T] |-> graph(f)]
<1>1. IsFiniteSet(SUBSET (S \X T))
  BY FS_Product, FS_SUBSET
<1>2. ASSUME NEW f \in [S -> T], NEW h \in [S -> T], graph(f) = graph(h) PROVE f = h
  <2>1. ASSUME NEW x \in S PROVE f[x] = h[x]
    <3>1. <<x, f[x]>> \in graph(h)
      BY <1>2
    <3> QED BY <3>1
  <2> QED BY <2>1
<1>3. \A f \in [S -> T] : graph(f) \in SUBSET (S \X T)
  OBVIOUS
<1> HIDE DEF graph
<1>4. F \in Injection([S -> T], SUBSET (S \X T))
  BY <1>2, <1>3 DEF Injection, IsInjective
<1> HIDE DEF F
<1> QED BY <1>1, <1>4, FS_Injection

\* Standings can be counted.
LEMMA StandingsFinite ==
  ASSUME MAX_ATTEMPTS \in Nat, NEW w \in Nat
  PROVE  /\ IsFiniteSet(Standings(w)) /\ Cardinality(Standings(w)) \in Nat
         /\ \A g : IsFiniteSet(Later(g, w)) /\ Cardinality(Later(g, w)) \in Nat
<1> DEFINE L == 0..(MAX_ATTEMPTS - 1)
           V == 0..w
<1>1. IsFiniteSet(L) /\ IsFiniteSet(V)
  BY FS_Interval
<1> HIDE DEF L, V
<1>2. IsFiniteSet([L -> V])
  BY <1>1, FunctionsFinite
<1>3. Standings(w) \subseteq [L -> V]
  BY DEF Standings, L, V
<1>4. IsFiniteSet(Standings(w))
  BY <1>2, <1>3, FS_Subset
<1>5. \A g : Later(g, w) \subseteq Standings(w)
  BY DEF Later
<1>6. \A g : IsFiniteSet(Later(g, w))
  BY <1>4, <1>5, FS_Subset
<1> QED BY <1>4, <1>6, FS_CardinalityType

\* What a standing is.
LEMMA StandingShape ==
  ASSUME NEW w, NEW g \in Standings(w)
  PROVE  g \in [Levels -> 0..w] /\ \A x, y \in Levels : x <= y => g[y] <= g[x]
BY DEF Standings, Levels

\* What comes after a later standing comes after the earlier one.
LEMMA LaterShrinks ==
  ASSUME MAX_ATTEMPTS \in Nat, NEW w \in Nat, NEW g \in Standings(w), NEW h \in Later(g, w)
  PROVE  Cardinality(Later(h, w)) + 1 <= Cardinality(Later(g, w))
<1>1. h \in Standings(w)
  BY DEF Later
<1>2. /\ g \in [Levels -> Int] /\ h \in [Levels -> Int] /\ Levels \subseteq Int
      /\ \A x \in Levels : \A y \in 0..x : y \in Levels
  BY <1>1, StandingShape DEF Levels
<1>3. PICK x \in Levels : h[x] > g[x] /\ \A y \in 0..x : h[y] >= g[y]
  BY DEF Later
<1>4. h \notin Later(h, w)
  <2>1. \A y \in Levels : ~(h[y] > h[y])
    BY <1>2
  <2> QED BY <2>1 DEF Later
<1>5. ASSUME NEW k \in Later(h, w) PROVE k \in Later(g, w)
  <2>1. PICK z \in Levels : k[z] > h[z] /\ \A y \in 0..z : k[y] >= h[y]
    BY <1>5 DEF Later
  <2>2. k \in Standings(w)
    BY <1>5 DEF Later
  <2>3. k \in [Levels -> Int]
    BY <2>2, StandingShape
  <2>4. x \in Int /\ z \in Int /\ x >= 0 /\ z >= 0
    BY DEF Levels
  <2>5. CASE x <= z
    <3>1. k[x] >= h[x]
      BY <2>1, <2>4, <2>5
    <3>2. k[x] > g[x]
      BY <1>2, <1>3, <2>3, <3>1
    <3>3. ASSUME NEW y \in 0..x PROVE k[y] >= g[y]
      <4>1. y \in 0..z /\ y \in Levels
        BY <1>2, <2>4, <2>5
      <4>2. k[y] >= h[y] /\ h[y] >= g[y]
        BY <1>3, <2>1, <4>1
      <4> QED BY <1>2, <2>3, <4>1, <4>2
    <3> QED BY <2>2, <3>2, <3>3 DEF Later
  <2>6. CASE z <= x
    <3>1. h[z] >= g[z]
      BY <1>3, <2>4, <2>6
    <3>2. k[z] > g[z]
      BY <1>2, <2>1, <2>3, <3>1
    <3>3. ASSUME NEW y \in 0..z PROVE k[y] >= g[y]
      <4>1. y \in 0..x /\ y \in Levels
        BY <1>2, <2>4, <2>6
      <4>2. k[y] >= h[y] /\ h[y] >= g[y]
        BY <1>3, <2>1, <4>1
      <4> QED BY <1>2, <2>3, <4>1, <4>2
    <3> QED BY <2>2, <3>2, <3>3 DEF Later
  <2> QED BY <2>4, <2>5, <2>6
<1>6. Later(h, w) \in SUBSET (Later(g, w) \ {h})
  BY <1>4, <1>5
<1>7. IsFiniteSet(Later(g, w)) /\ Cardinality(Later(g, w)) \in Nat /\ Cardinality(Later(h, w)) \in Nat
  BY StandingsFinite
<1>8. /\ IsFiniteSet(Later(g, w) \ {h})
      /\ Cardinality(Later(g, w) \ {h}) = Cardinality(Later(g, w)) - 1
  BY <1>7, FS_RemoveElement
<1>9. Cardinality(Later(h, w)) <= Cardinality(Later(g, w) \ {h})
  BY <1>6, <1>8, FS_Subset
<1> QED BY <1>7, <1>8, <1>9

\* No standing comes after itself.
LEMMA LaterAreFewer ==
  ASSUME MAX_ATTEMPTS \in Nat, NEW w \in Nat, NEW g \in Standings(w)
  PROVE  Cardinality(Later(g, w)) + 1 <= Cardinality(Standings(w))
<1>1. g \in [Levels -> Int]
  BY StandingShape
<1>2. Later(g, w) \in SUBSET (Standings(w) \ {g})
  BY <1>1 DEF Later
<1>3. IsFiniteSet(Standings(w)) /\ Cardinality(Standings(w)) \in Nat /\ Cardinality(Later(g, w)) \in Nat
  BY StandingsFinite
<1>4. /\ IsFiniteSet(Standings(w) \ {g})
      /\ Cardinality(Standings(w) \ {g}) = Cardinality(Standings(w)) - 1
  BY <1>3, FS_RemoveElement
<1>5. Cardinality(Later(g, w)) <= Cardinality(Standings(w) \ {g})
  BY <1>2, <1>4, FS_Subset
<1> QED BY <1>3, <1>4, <1>5

\* k workers who hold less than MAX_ATTEMPTS leave k later standings.
LEMMA RoomLeft ==
  ASSUME MAX_ATTEMPTS \in Nat \ {0}, NEW w \in Nat, NEW g \in Standings(w), NEW k \in Nat,
         g[MAX_ATTEMPTS - 1] + k <= w
  PROVE  k <= Cardinality(Later(g, w))
<1> DEFINE m == MAX_ATTEMPTS - 1
           lift(j) == [x \in Levels |-> IF g[x] >= g[m] + j THEN g[x] ELSE g[m] + j]
           F == [j \in 1..k |-> lift(j)]
<1>1. /\ g \in [Levels -> 0..w] /\ m \in Levels /\ Levels = 0..m /\ m \in Nat
      /\ \A x, y \in Levels : x <= y => g[y] <= g[x]
  BY StandingShape DEF Levels
<1>2. g[m] \in Nat /\ g[m] + k <= w
  BY <1>1
<1>3. ASSUME NEW j \in 1..k
      PROVE  lift(j) \in Later(g, w) /\ lift(j)[m] = g[m] + j
  <2> DEFINE h == lift(j)
  <2>1. ASSUME NEW x \in Levels
        PROVE  h[x] \in 0..w /\ h[x] >= g[x] /\ h[x] = (IF g[x] >= g[m] + j THEN g[x] ELSE g[m] + j)
    <3>1. g[x] \in 0..w /\ g[m] + j \in 0..w
      BY <1>1, <1>2
    <3>2. h[x] = (IF g[x] >= g[m] + j THEN g[x] ELSE g[m] + j)
      OBVIOUS
    <3> HIDE DEF h
    <3> QED BY <3>1, <3>2
  <2>2. h[m] = g[m] + j /\ h[m] > g[m]
    BY <1>1, <1>2, <2>1
  <2>3. ASSUME NEW x \in Levels, NEW y \in Levels, x <= y PROVE h[y] <= h[x]
    <3>1. g[y] <= g[x] /\ g[x] \in Nat /\ g[y] \in Nat
      BY <1>1, <2>3
    <3> QED BY <1>2, <2>1, <3>1
  <2>4. h \in [Levels -> 0..w]
    <3>1. h = [x \in Levels |-> h[x]]
      OBVIOUS
    <3> HIDE DEF h
    <3> QED BY <2>1, <3>1
  <2> HIDE DEF h
  <2>5. h \in Standings(w)
    BY <2>3, <2>4 DEF Standings, Levels
  <2>6. \A y \in 0..m : h[y] >= g[y]
    BY <1>1, <2>1
  <2>7. h \in Later(g, w)
    BY <1>1, <2>2, <2>5, <2>6 DEF Later
  <2> QED BY <2>2, <2>7 DEF h
<1> HIDE DEF lift
<1>4. F \in Injection(1..k, Later(g, w))
  <2>1. F \in [1..k -> Later(g, w)]
    BY <1>3
  <2>2. ASSUME NEW i \in 1..k, NEW j \in 1..k, F[i] = F[j] PROVE i = j
    <3>1. g[m] + i = g[m] + j
      BY <1>3, <2>2
    <3> QED BY <1>2, <3>1
  <2> QED BY <2>1, <2>2 DEF Injection, IsInjective
<1>5. IsFiniteSet(Later(g, w))
  BY StandingsFinite
<1> HIDE DEF F
<1>6. Cardinality(1..k) <= Cardinality(Later(g, w))
  BY <1>4, <1>5, FS_Injection
<1>7. Cardinality(1..k) = k
  BY FS_Interval
<1> QED BY <1>6, <1>7

\* The standing of workers who hold any numbers of attempts is one.
LEMMA StandingOfWorkers ==
  ASSUME MAX_ATTEMPTS \in Nat, NEW P, IsFiniteSet(P), NEW v \in [P -> Nat]
  PROVE  StandingOf(P, v) \in Standings(Cardinality(P))
<1> DEFINE A(x) == {p \in P : v[p] > x}
           w == Cardinality(P)
           g == StandingOf(P, v)
<1>1. w \in Nat
  BY FS_CardinalityType
<1>2. ASSUME NEW x \in Levels PROVE g[x] = Cardinality(A(x)) /\ g[x] \in 0..w /\ IsFiniteSet(A(x))
  <2>1. A(x) \in SUBSET P
    OBVIOUS
  <2>2. IsFiniteSet(A(x)) /\ Cardinality(A(x)) <= w
    BY <2>1, FS_Subset
  <2>3. Cardinality(A(x)) \in Nat
    BY <2>2, FS_CardinalityType
  <2>4. g[x] = Cardinality(A(x))
    BY DEF StandingOf
  <2> HIDE DEF g, A, w
  <2> QED BY <1>1, <2>2, <2>3, <2>4
<1>3. ASSUME NEW x \in Levels, NEW y \in Levels, x <= y PROVE g[y] <= g[x]
  <2>1. A(y) \in SUBSET A(x)
    BY <1>3 DEF Levels
  <2> HIDE DEF A, g
  <2>2. Cardinality(A(y)) <= Cardinality(A(x))
    BY <1>2, <2>1, FS_Subset
  <2> QED BY <1>2, <2>2
<1>4. g \in [Levels -> 0..w]
  <2>1. g = [x \in Levels |-> g[x]]
    BY DEF StandingOf
  <2> HIDE DEF g, w
  <2> QED BY <1>2, <2>1
<1> HIDE DEF g, w
<1>5. g \in Standings(w)
  BY <1>3, <1>4 DEF Standings, Levels
<1> QED BY <1>5 DEF g, w

\* A worker p saves, and the others who hold nothing see what it saved: fewer
\* workers are left at v[p] or below, and none came to below v[p].
LEMMA StandingAdvances ==
  ASSUME MAX_ATTEMPTS \in Nat, NEW P, IsFiniteSet(P), NEW v \in [P -> Nat], NEW u \in [P -> Nat],
         NEW p \in P, v[p] < MAX_ATTEMPTS, u[p] = v[p] + 1,
         \A q \in P : u[q] = v[q] \/ u[q] = v[p] + 1
  PROVE  StandingOf(P, u) \in Later(StandingOf(P, v), Cardinality(P))
<1> DEFINE A(x) == {q \in P : v[q] > x}
           B(x) == {q \in P : u[q] > x}
           r == v[p]
<1>1. r \in Levels /\ r \in Nat /\ 0..r \subseteq Levels
  BY DEF Levels
<1>2. \A x \in Levels : StandingOf(P, v)[x] = Cardinality(A(x)) /\ StandingOf(P, u)[x] = Cardinality(B(x))
  BY DEF StandingOf
<1>3. \A x : IsFiniteSet(A(x)) /\ IsFiniteSet(B(x))
  <2>1. \A x : A(x) \in SUBSET P /\ B(x) \in SUBSET P
    OBVIOUS
  <2> HIDE DEF A, B
  <2> QED BY <2>1, FS_Subset
<1>4. \A x : Cardinality(A(x)) \in Nat /\ Cardinality(B(x)) \in Nat
  <2> HIDE DEF A, B
  <2> QED BY <1>3, FS_CardinalityType
<1>5. \A x \in 0..r : A(x) \subseteq B(x)
  BY <1>1
<1>6. p \in B(r) /\ p \notin A(r) /\ A(r) \subseteq B(r)
  BY <1>1, <1>5
<1> HIDE DEF A, B
<1>7. \A x \in 0..r : Cardinality(A(x)) <= Cardinality(B(x))
  BY <1>3, <1>5, FS_Subset
<1>8. Cardinality(A(r)) < Cardinality(B(r))
  <2>1. Cardinality(A(r)) <= Cardinality(B(r)) /\ A(r) # B(r)
    BY <1>1, <1>6, <1>7
  <2>2. Cardinality(A(r)) # Cardinality(B(r))
    BY <1>3, <1>6, <2>1, FS_Subset
  <2> QED BY <1>4, <2>1, <2>2
<1> DEFINE g == StandingOf(P, v)
           h == StandingOf(P, u)
<1>9. h \in Standings(Cardinality(P))
  BY StandingOfWorkers
<1>10. h[r] > g[r] /\ \A y \in 0..r : h[y] >= g[y]
  <2>1. \A y \in 0..r : y \in Levels
    BY <1>1
  <2> HIDE DEF g, h, r
  <2>2. \A x \in Levels : g[x] = Cardinality(A(x)) /\ h[x] = Cardinality(B(x))
    BY <1>2 DEF g, h
  <2> QED BY <1>1, <1>4, <1>7, <1>8, <2>1, <2>2
<1> HIDE DEF g, h, r
<1>11. h \in Later(g, Cardinality(P))
  BY <1>1, <1>9, <1>10 DEF Later
<1> QED BY <1>11 DEF g, h

\* What the bound on the guesses at row i is made of can be counted.
LEMMA RowCounts ==
  ASSUME OtpOK, OtpType, NEW i \in 1 .. Len(codes)
  PROVE  /\ MAX_ATTEMPTS \in Nat /\ IsFiniteSet(counter.procs) /\ Crew \in Nat
         /\ counter.procs \subseteq Workers
         /\ codes[i].guesses \in Nat /\ codes[i].attempts \in Nat
         /\ Seen(i) \in [counter.procs -> Nat]
         /\ StandingOf(counter.procs, Seen(i)) \in Standings(Crew)
         /\ IsFiniteSet(Holding(i)) /\ Cardinality(Holding(i)) \in Nat
<1>1. /\ MAX_ATTEMPTS \in Nat /\ IsFiniteSet(counter.procs) /\ Crew \in Nat
      /\ counter.procs \subseteq Workers
  BY LimiterCounts DEF OtpOK, OtpType, Crew, LimiterType, Workers
<1>2. codes[i] \in CodeRows
  BY DEF OtpType
<1>3. codes[i].guesses \in Nat /\ codes[i].attempts \in Nat
  BY <1>2 DEF CodeRows
<1>4. Seen(i) \in [counter.procs -> Nat]
  BY <1>1, <1>3 DEF Seen, OtpType
<1>5. StandingOf(counter.procs, Seen(i)) \in Standings(Crew)
  BY <1>1, <1>4, StandingOfWorkers DEF Crew
<1>6. Holding(i) \in SUBSET counter.procs
  BY DEF Holding
<1>7. IsFiniteSet(Holding(i))
  BY <1>1, <1>6, FS_Subset
<1> QED BY <1>1, <1>3, <1>4, <1>5, <1>7, FS_CardinalityType

\* The standings still to come are as many as the attempts still to be saved.
LEMMA GuessesAreBounded ==
  ASSUME OtpOK, OtpType, GuessInv
  PROVE  GuessesBounded
<1> SUFFICES ASSUME NEW i \in 1 .. Len(codes)
             PROVE  codes[i].guesses < Cardinality(Standings(Crew))
  BY DEF GuessesBounded, OtpType, Crew
<1> DEFINE g == StandingOf(counter.procs, Seen(i))
           k == Cardinality(Holding(i))
<1>1. /\ MAX_ATTEMPTS \in Nat /\ IsFiniteSet(counter.procs) /\ Crew \in Nat
      /\ codes[i].guesses \in Nat /\ g \in Standings(Crew) /\ k \in Nat /\ IsFiniteSet(Holding(i))
      /\ counter.procs \subseteq Workers
  BY RowCounts
<1>2. Cardinality(Standings(Crew)) \in Nat /\ Cardinality(Later(g, Crew)) \in Nat
  BY <1>1, StandingsFinite
<1>3. \A p \in Holding(i) : checker[p].attempts < MAX_ATTEMPTS /\ checker[p].attempts \in Nat
  <2>1. \A p \in Holding(i) : p \in Workers /\ checker[p].row # 0
    BY <1>1 DEF Holding
  <2> QED BY <2>1 DEF GuessInv, OtpType
<1>4. k <= Cardinality(Later(g, Crew))
  <2>1. CASE MAX_ATTEMPTS = 0
    <3>1. Holding(i) = {}
      BY <1>3, <2>1
    <3>2. k = 0
      BY <3>1, FS_EmptySet
    <3> HIDE DEF k, g
    <3> QED BY <1>2, <3>2
  <2>2. CASE MAX_ATTEMPTS # 0
    <3> DEFINE m == MAX_ATTEMPTS - 1
               A == {p \in counter.procs : Seen(i)[p] > m}
    <3>1. g[m] = Cardinality(A) /\ m \in Nat
      BY <1>1, <2>2 DEF StandingOf, Levels
    <3>2. A \cap Holding(i) = {}
      <4>1. ASSUME NEW p \in Holding(i) PROVE ~(Seen(i)[p] > m)
        <5>1. Seen(i)[p] = checker[p].attempts
          BY DEF Seen, Holding
        <5> QED BY <1>1, <1>3, <5>1
      <4> QED BY <4>1
    <3>3. A \cup Holding(i) \in SUBSET counter.procs
      BY DEF Holding
    <3>4. IsFiniteSet(A)
      BY <1>1, FS_Subset
    <3> HIDE DEF A
    <3>5. Cardinality(A \cup Holding(i)) = Cardinality(A) + k - Cardinality(A \cap Holding(i))
      BY <1>1, <3>4, FS_Union
    <3>6. Cardinality(A \cap Holding(i)) = 0
      BY <3>2, FS_EmptySet
    <3>7. Cardinality(A \cup Holding(i)) <= Crew
      BY <1>1, <3>3, FS_Subset DEF Crew
    <3>8. Cardinality(A) \in Nat
      BY <3>4, FS_CardinalityType
    <3> HIDE DEF g, k
    <3>9. g[MAX_ATTEMPTS - 1] + k <= Crew
      BY <1>1, <3>1, <3>5, <3>6, <3>7, <3>8
    <3> QED BY <1>1, <2>2, <3>9, RoomLeft
  <2> QED BY <2>1, <2>2
<1>5. codes[i].guesses + Cardinality(Later(g, Crew)) + 1 <= Cardinality(Standings(Crew)) + k
  BY DEF GuessInv, GuessesLeft
<1> HIDE DEF g, k
<1> QED BY <1>1, <1>2, <1>4, <1>5

\* Who neither reads nor saves row i leaves its bound alone.
LEMMA GuessesSame ==
  ASSUME counter' = counter, NEW i,
         codes'[i].attempts = codes[i].attempts, codes'[i].guesses = codes[i].guesses,
         \A p \in counter.procs : /\ checker'[p].row = i <=> checker[p].row = i
                                  /\ checker[p].row = i => checker'[p].attempts = checker[p].attempts,
         GuessesLeft(i)
  PROVE  GuessesLeft(i)'
<1>1. Seen(i)' = Seen(i)
  BY DEF Seen
<1>2. Holding(i)' = Holding(i)
  BY DEF Holding
<1>3. Crew' = Crew
  BY DEF Crew
<1> QED BY <1>1, <1>2, <1>3 DEF GuessesLeft

\* A row that is written keeps its other columns, and the other rows.
LEMMA CodeWritten ==
  ASSUME codes \in Seq(CodeRows), NEW i \in 1 .. Len(codes), NEW row, codes' = [codes EXCEPT ![i] = row]
  PROVE  /\ codes'[i] = row /\ \A j \in 1 .. Len(codes) : j # i => codes'[j] = codes[j]
         /\ Len(codes') = Len(codes)
OBVIOUS

\* p reads row i: another guess, and another attempt to be saved.
LEMMA GuessMade ==
  ASSUME OtpOK, OtpType, counter' = counter, NEW p \in counter.procs, NEW i \in 1 .. Len(codes),
         checker[p].row = 0, NEW c, checker' = [checker EXCEPT ![p] = c],
         c.row = i, c.attempts = codes[i].attempts,
         codes'[i].guesses = codes[i].guesses + 1, codes'[i].attempts = codes[i].attempts,
         GuessesLeft(i)
  PROVE  GuessesLeft(i)'
<1> DEFINE g == StandingOf(counter.procs, Seen(i))
<1>1. /\ counter.procs \subseteq Workers /\ Crew \in Nat /\ MAX_ATTEMPTS \in Nat
      /\ codes[i].guesses \in Nat /\ IsFiniteSet(Holding(i)) /\ Cardinality(Holding(i)) \in Nat
  BY RowCounts
<1>2. DOMAIN checker = Workers /\ i # 0
  BY DEF OtpType
<1>3. Seen(i)' = Seen(i)
  BY <1>1, <1>2 DEF Seen
<1>4. Holding(i)' = Holding(i) \cup {p} /\ p \notin Holding(i)
  BY <1>1, <1>2 DEF Holding
<1>5. Cardinality(Holding(i)') = Cardinality(Holding(i)) + 1
  BY <1>1, <1>4, FS_AddElement
<1>6. Crew' = Crew
  BY DEF Crew
<1>7. Cardinality(Later(g, Crew)) \in Nat /\ Cardinality(Standings(Crew)) \in Nat
  BY <1>1, StandingsFinite
<1>8. codes[i].guesses + Cardinality(Later(g, Crew)) + 1
        <= Cardinality(Standings(Crew)) + Cardinality(Holding(i))
  BY DEF GuessesLeft
<1>9. GuessesLeft(i)' = (codes'[i].guesses + Cardinality(Later(g, Crew)) + 1
                           <= Cardinality(Standings(Crew)) + Cardinality(Holding(i)'))
  BY <1>3, <1>6 DEF GuessesLeft
<1> HIDE DEF g
<1>10. codes'[i].guesses + Cardinality(Later(g, Crew)) + 1
         <= Cardinality(Standings(Crew)) + Cardinality(Holding(i)')
  BY <1>1, <1>5, <1>7, <1>8
<1> QED BY <1>9, <1>10

\* p saves its attempt at row i: the standing advances.
LEMMA AttemptSaved ==
  ASSUME OtpOK, OtpType, counter' = counter, NEW p \in counter.procs, NEW i \in 1 .. Len(codes),
         checker[p].row = i, checker[p].attempts < MAX_ATTEMPTS,
         NEW c, checker' = [checker EXCEPT ![p] = c], c.row = 0,
         codes'[i].attempts = checker[p].attempts + 1, codes'[i].guesses = codes[i].guesses,
         GuessesLeft(i)
  PROVE  GuessesLeft(i)'
<1> DEFINE P == counter.procs
           v == Seen(i)
           u == [q \in P |-> IF q # p /\ checker[q].row = i THEN checker[q].attempts
                             ELSE checker[p].attempts + 1]
           g == StandingOf(P, v)
           h == StandingOf(P, u)
<1>1. /\ P \subseteq Workers /\ IsFiniteSet(P) /\ Crew \in Nat /\ MAX_ATTEMPTS \in Nat
      /\ codes[i].guesses \in Nat /\ IsFiniteSet(Holding(i)) /\ Cardinality(Holding(i)) \in Nat
      /\ v \in [P -> Nat] /\ g \in Standings(Crew)
  BY RowCounts
<1>2. DOMAIN checker = Workers /\ i # 0 /\ \A q \in P : checker[q].attempts \in Nat
  BY <1>1 DEF OtpType
<1>3. Seen(i)' = u
  BY <1>1, <1>2 DEF Seen
<1>4. Holding(i)' = Holding(i) \ {p} /\ p \in Holding(i)
  BY <1>1, <1>2 DEF Holding
<1>5. Cardinality(Holding(i)') = Cardinality(Holding(i)) - 1
  BY <1>1, <1>4, FS_RemoveElement
<1>6. Crew' = Crew
  BY DEF Crew
<1>7. v[p] = checker[p].attempts /\ u[p] = v[p] + 1 /\ \A q \in P : u[q] = v[q] \/ u[q] = v[p] + 1
  BY <1>1, <1>2 DEF Seen
<1>8. u \in [P -> Nat]
  BY <1>2
<1>9. h \in Later(g, Crew)
  <2> HIDE DEF u, v
  <2> QED BY <1>1, <1>7, <1>8, StandingAdvances DEF Crew
<1>10. codes[i].guesses + Cardinality(Later(g, Crew)) + 1
         <= Cardinality(Standings(Crew)) + Cardinality(Holding(i))
  BY DEF GuessesLeft
<1>11. GuessesLeft(i)' = (codes'[i].guesses + Cardinality(Later(h, Crew)) + 1
                            <= Cardinality(Standings(Crew)) + Cardinality(Holding(i)'))
  BY <1>3, <1>6 DEF GuessesLeft
<1> HIDE DEF g, h
<1>12. Cardinality(Later(h, Crew)) + 1 <= Cardinality(Later(g, Crew))
  BY <1>1, <1>9, LaterShrinks
<1>13. /\ Cardinality(Later(g, Crew)) \in Nat /\ Cardinality(Later(h, Crew)) \in Nat
       /\ Cardinality(Standings(Crew)) \in Nat
  BY <1>1, StandingsFinite
<1>14. codes'[i].guesses + Cardinality(Later(h, Crew)) + 1
         <= Cardinality(Standings(Crew)) + Cardinality(Holding(i)')
  BY <1>1, <1>5, <1>10, <1>12, <1>13
<1> QED BY <1>11, <1>14

\* A new code, which nobody has read.
LEMMA NewCode ==
  ASSUME OtpOK, OtpType, counter' = counter, NEW i, codes'[i].guesses = 0,
         \A p \in counter.procs : checker'[p].row # i, codes'[i].attempts = 0
  PROVE  GuessesLeft(i)'
<1> DEFINE v == [p \in counter.procs |-> 0]
           g == StandingOf(counter.procs, v)
<1>1. MAX_ATTEMPTS \in Nat /\ IsFiniteSet(counter.procs) /\ Crew \in Nat
  BY LimiterCounts DEF OtpOK, OtpType, Crew
<1>2. Seen(i)' = v
  BY DEF Seen
<1>3. Holding(i)' = {}
  BY DEF Holding
<1>4. Cardinality(Holding(i)') = 0
  BY <1>3, FS_EmptySet
<1>5. v \in [counter.procs -> Nat]
  OBVIOUS
<1>6. g \in Standings(Crew)
  <2> HIDE DEF v
  <2> QED BY <1>1, <1>5, StandingOfWorkers DEF Crew
<1>7. Crew' = Crew
  BY DEF Crew
<1>8. GuessesLeft(i)' = (codes'[i].guesses + Cardinality(Later(g, Crew)) + 1
                           <= Cardinality(Standings(Crew)) + Cardinality(Holding(i)'))
  BY <1>2, <1>7 DEF GuessesLeft
<1> HIDE DEF g
<1>9. Cardinality(Later(g, Crew)) + 1 <= Cardinality(Standings(Crew))
  BY <1>1, <1>6, LaterAreFewer
<1>10. Cardinality(Later(g, Crew)) \in Nat /\ Cardinality(Standings(Crew)) \in Nat
  BY <1>1, StandingsFinite
<1>11. codes'[i].guesses + Cardinality(Later(g, Crew)) + 1
         <= Cardinality(Standings(Crew)) + Cardinality(Holding(i)')
  BY <1>4, <1>9, <1>10
<1> QED BY <1>8, <1>11

\* Each action of the OTP model keeps the bound on guesses.
LEMMA GuessStep ==
  ASSUME OtpOK, OtpType, GuessInv, counter' = counter, [OtpNext]_<<limiterVars, own>>
  PROVE  GuessInv'
<1> DEFINE Checks == [pc : {"idle"} \cup Numbers, row : Nat, attempts : Nat, right : BOOLEAN]
           Fine(c) == c.row # 0 => c.pc # "idle" /\ c.attempts < MAX_ATTEMPTS
<1>1. /\ checker \in [Workers -> Checks] /\ codes \in Seq(CodeRows) /\ Len(codes) \in Nat
      /\ "idle" \notin Numbers /\ \A p \in Workers : checker[p].row <= Len(codes)
      /\ counter.procs \subseteq Workers
  BY DEF OtpType, OtpOK, NotChecking, LimiterType, Workers
<1>2. \A i \in 1 .. Len(codes) :
        codes[i] \in CodeRows /\ codes[i].guesses \in Nat /\ codes[i].attempts \in Nat
  <2>1. \A i \in 1 .. Len(codes) : codes[i] \in CodeRows
    BY <1>1
  <2> QED BY <2>1 DEF CodeRows
<1>3. /\ \A p \in Workers : Fine(checker[p]) /\ (checker[p].row # 0 => p \in counter.procs)
      /\ \A i \in 1 .. Len(codes) : GuessesLeft(i)
  BY DEF GuessInv
<1>4. CASE UNCHANGED <<codes, checker>>
  <2>1. ASSUME NEW i \in 1 .. Len(codes) PROVE GuessesLeft(i)'
    BY <1>3, <1>4, <2>1, GuessesSame
  <2> QED BY <1>3, <1>4, <2>1 DEF GuessInv
<1>5. ASSUME NEW p \in Workers, NEW c, checker' = [checker EXCEPT ![p] = c], Fine(c),
             c.row # 0 => p \in counter.procs,
             Len(codes') = Len(codes), \A i \in 1 .. Len(codes) : GuessesLeft(i)'
      PROVE  GuessInv'
  <2>1. \A q \in Workers : checker'[q] = IF q = p THEN c ELSE checker[q]
    BY <1>1, <1>5
  <2>2. \A q \in Workers : checker'[q].row # 0 =>
          q \in counter'.procs /\ checker'[q].pc # "idle" /\ checker'[q].attempts < MAX_ATTEMPTS
    BY <1>3, <1>5, <2>1
  <2> QED BY <1>5, <2>2 DEF GuessInv
<1>6. ASSUME NEW p \in Workers, NEW n \in Numbers, NEW e \in DOMAIN codes \cup {Wrong}, ReadCode(p, n, e)
      PROVE  GuessInv'
  <2>0. PICK i : i = Max(Candidates(n))
    OBVIOUS
  <2> DEFINE c == [pc |-> n, row |-> i, attempts |-> codes[i].attempts, right |-> e = i]
             d == [codes[i] EXCEPT !.guesses = codes[i].guesses + 1]
  <2>1. i \in 1 .. Len(codes)
    <3>1. Candidates(n) # {} /\ Candidates(n) \subseteq 1..Len(codes)
      BY <1>1, <1>6 DEF ReadCode, Candidates
    <3> QED BY <1>1, <2>0, <3>1, Newest
  <2>2. /\ codes' = [codes EXCEPT ![i] = d] /\ checker' = [checker EXCEPT ![p] = c]
        /\ ~Exhausted(i) /\ Free(p)
    BY <1>6, <2>0 DEF ReadCode
  <2>3. p \in counter.procs /\ checker[p].row = 0 /\ codes[i].attempts < MAX_ATTEMPTS
    BY <1>2, <1>3, <2>1, <2>2, RowCounts DEF Free, Exhausted
  <2>4. d.guesses = codes[i].guesses + 1 /\ d.attempts = codes[i].attempts
    BY <1>2, <2>1 DEF CodeRows
  <2>5. Fine(c) /\ c.row = i /\ c.attempts = codes[i].attempts /\ i # 0
    BY <1>1, <2>1, <2>3
  <2> HIDE DEF c, d
  <2>6. /\ codes'[i] = d /\ (\A j \in 1 .. Len(codes) : j # i => codes'[j] = codes[j])
        /\ Len(codes') = Len(codes)
    BY <1>1, <2>1, <2>2, CodeWritten
  <2>7. GuessesLeft(i)'
    BY <1>3, <2>1, <2>2, <2>3, <2>4, <2>5, <2>6, GuessMade
  <2>8. ASSUME NEW j \in 1 .. Len(codes), j # i PROVE GuessesLeft(j)'
    <3>1. codes'[j] = codes[j]
      BY <2>6, <2>8
    <3>2. \A q \in counter.procs : /\ checker'[q].row = j <=> checker[q].row = j
                                   /\ checker[q].row = j => checker'[q].attempts = checker[q].attempts
      BY <1>1, <2>2, <2>3, <2>5, <2>8
    <3>3. /\ codes'[j].attempts = codes[j].attempts /\ codes'[j].guesses = codes[j].guesses
          /\ GuessesLeft(j)
      BY <1>3, <3>1
    <3> QED BY <3>2, <3>3, GuessesSame
  <2> QED BY <1>5, <2>2, <2>3, <2>5, <2>6, <2>7, <2>8
<1>7. ASSUME NEW p \in Workers, SaveAttempt(p) PROVE GuessInv'
  <2>0. PICK i : i = checker[p].row
    OBVIOUS
  <2> DEFINE c == IF checker[p].right
                  THEN [pc |-> checker[p].pc, row |-> 0, attempts |-> checker[p].attempts, right |-> TRUE]
                  ELSE NotChecking
             d == [codes[i] EXCEPT !.attempts = checker[p].attempts + 1,
                                   !.consumed = codes[i].consumed \/ checker[p].right]
  <2>1. i \in 1 .. Len(codes) /\ p \in counter.procs /\ checker[p].attempts < MAX_ATTEMPTS
        /\ checker[p].attempts \in Nat
    BY <1>1, <1>3, <1>7, <2>0 DEF SaveAttempt
  <2>2. codes' = [codes EXCEPT ![i] = d] /\ checker' = [checker EXCEPT ![p] = c]
    <3>1. codes' = [codes EXCEPT ![i].attempts = checker[p].attempts + 1,
                                 ![i].consumed = codes[i].consumed \/ checker[p].right]
          /\ checker' = [checker EXCEPT ![p] = c]
      BY <1>7, <2>0 DEF SaveAttempt
    <3> QED BY <1>1, <2>1, <3>1
  <2>3. d.guesses = codes[i].guesses /\ d.attempts = checker[p].attempts + 1
    BY <1>2, <2>1 DEF CodeRows
  <2>4. c.row = 0 /\ Fine(c)
    BY DEF NotChecking
  <2> HIDE DEF c, d
  <2>5. /\ codes'[i] = d /\ (\A j \in 1 .. Len(codes) : j # i => codes'[j] = codes[j])
        /\ Len(codes') = Len(codes)
    BY <1>1, <2>1, <2>2, CodeWritten
  <2>6. GuessesLeft(i)'
    BY <1>3, <2>0, <2>1, <2>2, <2>3, <2>4, <2>5, AttemptSaved
  <2>7. ASSUME NEW j \in 1 .. Len(codes), j # i PROVE GuessesLeft(j)'
    <3>1. codes'[j] = codes[j] /\ j # 0
      BY <2>5, <2>7
    <3>2. \A q \in counter.procs : /\ checker'[q].row = j <=> checker[q].row = j
                                   /\ checker[q].row = j => checker'[q].attempts = checker[q].attempts
      BY <1>1, <2>0, <2>2, <2>4, <2>7, <3>1
    <3>3. /\ codes'[j].attempts = codes[j].attempts /\ codes'[j].guesses = codes[j].guesses
          /\ GuessesLeft(j)
      BY <1>3, <3>1
    <3> QED BY <3>2, <3>3, GuessesSame
  <2> QED BY <1>5, <2>2, <2>4, <2>5, <2>6, <2>7
<1>8. ASSUME NEW p \in Workers, SaveCustomer(p) PROVE GuessInv'
  <2> DEFINE c == NotChecking
  <2>1. checker' = [checker EXCEPT ![p] = c] /\ codes' = codes /\ checker[p].row = 0
    BY <1>8 DEF SaveCustomer
  <2>2. c.row = 0 /\ Fine(c)
    BY DEF NotChecking
  <2> HIDE DEF c
  <2>3. ASSUME NEW j \in 1 .. Len(codes) PROVE GuessesLeft(j)'
    <3>1. \A q \in counter.procs : /\ checker'[q].row = j <=> checker[q].row = j
                                   /\ checker[q].row = j => checker'[q].attempts = checker[q].attempts
      BY <1>1, <2>1, <2>2
    <3> QED BY <1>3, <2>1, <3>1, GuessesSame
  <2> QED BY <1>5, <2>1, <2>2, <2>3
<1>9. ASSUME NEW p \in Workers, CreateCode(p) PROVE GuessInv'
  <2>0. PICK k : k = Len(codes) + 1
    OBVIOUS
  <2> DEFINE r == Row(Number)
  <2>1. codes' = Append(codes, r) /\ checker' = checker
    BY <1>9 DEF CreateCode
  <2>2. r.attempts = 0 /\ r.guesses = 0
    BY DEF Row
  <2> HIDE DEF r
  <2>3. codes'[k] = r /\ (\A j \in 1 .. Len(codes) : codes'[j] = codes[j]) /\ 1 .. Len(codes') = 1 .. k
    BY <1>1, <2>0, <2>1
  <2>4. GuessesLeft(k)'
    <3>1. \A q \in counter.procs : checker'[q].row # k
      BY <1>1, <2>0, <2>1
    <3> QED BY <2>2, <2>3, <3>1, NewCode
  <2>5. ASSUME NEW j \in 1 .. Len(codes) PROVE GuessesLeft(j)'
    BY <1>3, <2>1, <2>3, <2>5, GuessesSame
  <2>6. \A j \in 1 .. Len(codes') : GuessesLeft(j)'
    <3>1. \A j \in 1 .. k : j = k \/ j \in 1 .. Len(codes)
      BY <1>1, <2>0
    <3> QED BY <2>3, <2>4, <2>5, <3>1
  <2> QED BY <1>3, <2>1, <2>6 DEF GuessInv
<1>10. ASSUME NEW i \in DOMAIN codes, ExpireCode(i) PROVE GuessInv'
  <2> DEFINE d == [codes[i] EXCEPT !.live = FALSE]
  <2>1. codes' = [codes EXCEPT ![i] = d] /\ checker' = checker /\ i \in 1 .. Len(codes)
    BY <1>1, <1>10 DEF ExpireCode
  <2>2. d.guesses = codes[i].guesses /\ d.attempts = codes[i].attempts
    BY <1>2, <2>1 DEF CodeRows
  <2> HIDE DEF d
  <2>3. /\ codes'[i] = d /\ (\A j \in 1 .. Len(codes) : j # i => codes'[j] = codes[j])
        /\ Len(codes') = Len(codes)
    BY <1>1, <2>1, CodeWritten
  <2>4. ASSUME NEW j \in 1 .. Len(codes) PROVE GuessesLeft(j)'
    <3>1. codes'[j].guesses = codes[j].guesses /\ codes'[j].attempts = codes[j].attempts
      BY <2>2, <2>3
    <3> QED BY <1>3, <2>1, <3>1, GuessesSame
  <2> QED BY <1>3, <2>1, <2>3, <2>4 DEF GuessInv
<1>11. ASSUME NEW p \in Workers, RequestCode(p) \/ CountSend(p) \/ SetCooldown(p) PROVE GuessInv'
  BY <1>4, <1>11 DEF RequestCode, CountSend, SetCooldown
<1>12. ASSUME NEW n, AdminEdit(n) \/ EndCooldown PROVE GuessInv'
  BY <1>4, <1>12 DEF AdminEdit, EndCooldown
<1>13. CASE UNCHANGED own
  BY <1>4, <1>13 DEF own
<1> QED BY <1>6, <1>7, <1>8, <1>9, <1>10, <1>11, <1>12, <1>13, OtpSteps

\* No code was guessed at first.
LEMMA GuessStarts == ASSUME OtpOK, OtpInit, OtpType PROVE GuessInv
<1>1. \A p \in Workers : checker[p].row = 0
  BY DEF OtpInit, NotChecking
<1>2. ASSUME NEW i \in 1 .. Len(codes) PROVE codes[i].guesses = 0 /\ codes[i].attempts = 0
  <2> DEFINE r == Row(Other)
  <2>1. r.guesses = 0 /\ r.attempts = 0
    BY DEF Row
  <2>2. codes = <<>> \/ codes = <<r>>
    BY DEF OtpInit
  <2> HIDE DEF r
  <2> QED BY <1>2, <2>1, <2>2
<1>3. ASSUME NEW i \in 1 .. Len(codes) PROVE GuessesLeft(i)
  <2> DEFINE g == StandingOf(counter.procs, Seen(i))
  <2>1. /\ MAX_ATTEMPTS \in Nat /\ Crew \in Nat /\ g \in Standings(Crew) /\ counter.procs \subseteq Workers
    BY RowCounts
  <2>2. Holding(i) = {}
    BY <1>1, <2>1 DEF Holding
  <2>3. Cardinality(Holding(i)) = 0
    BY <2>2, FS_EmptySet
  <2> HIDE DEF g
  <2>4. Cardinality(Later(g, Crew)) + 1 <= Cardinality(Standings(Crew))
    BY <2>1, LaterAreFewer
  <2>5. Cardinality(Later(g, Crew)) \in Nat /\ Cardinality(Standings(Crew)) \in Nat
    BY <2>1, StandingsFinite
  <2>6. codes[i].guesses + Cardinality(Later(g, Crew)) + 1
          <= Cardinality(Standings(Crew)) + Cardinality(Holding(i))
    BY <1>2, <2>3, <2>4, <2>5
  <2> QED BY <2>6 DEF GuessesLeft, g
<1> QED BY <1>1, <1>3 DEF GuessInv

-----------------------------------------------------------------------------
LEMMA OtpInvariant == OtpSpec => [](OtpType /\ BurstInv /\ ReachedInv /\ GuessInv)
<1>1. OtpInit => OtpType /\ BurstInv /\ ReachedInv /\ GuessInv
  BY OtpStarts, GuessStarts, OtpAssumption
<1>2. OtpType /\ BurstInv /\ ReachedInv /\ GuessInv /\ [OtpNext]_<<limiterVars, own>>
        => (OtpType /\ BurstInv /\ ReachedInv /\ GuessInv)'
  <2> SUFFICES ASSUME OtpType, BurstInv, ReachedInv, GuessInv, [OtpNext]_<<limiterVars, own>>
               PROVE  (OtpType /\ BurstInv /\ ReachedInv /\ GuessInv)'
    OBVIOUS
  <2>1. OtpType'
    BY OtpTypeStep, OtpAssumption
  <2>2. counter' = counter
    <3>1. [LimiterNext]_limiterVars
      BY OtpStepIsLimiterStep DEF OtpType
    <3> QED BY <3>1 DEF LimiterNext, Add, Incr, Set, Expire, limiterVars
  <2> QED BY <2>1, <2>2, BurstStep, ReachedStep, GuessStep, OtpAssumption
<1> QED BY <1>1, <1>2, PTL DEF OtpSpec

\* The limiter keeps its promise for OTP sends too, whatever requests and
\* verifications of codes interleave.
THEOREM OtpLimitHolds == OtpSpec => []LimitIsExact
BY LimitHolds, OtpRefinesLimiter, PTL

\* request_code looks at the cooldown and sets it later: for any number of workers,
\* no more codes are created before a cooldown ends than there are workers.
LEMMA BurstHolds == OtpSpec => []BurstBounded
<1>1. OtpType /\ BurstInv => BurstBounded
  <2> SUFFICES ASSUME OtpType, BurstInv PROVE burst <= Cardinality(counter.procs)
    BY DEF BurstBounded
  <2>1. /\ Cardinality(Sending) \in Nat /\ Cardinality(Created) \in Nat
        /\ Cardinality(counter.procs) \in Nat
        /\ Cardinality(Sending) + Cardinality(Created) <= Cardinality(counter.procs)
    BY BurstCounts, OtpAssumption DEF OtpType, OtpOK
  <2> QED BY <2>1 DEF BurstInv, OtpType
<1> QED BY <1>1, OtpInvariant, PTL

\* verify_code reads the attempts at a code and saves one more in a later statement:
\* for any number of workers and any MAX_ATTEMPTS, the guesses at a code stay below the
\* number of standings of the workers, and the codes of a cooldown within the workers.
THEOREM LimitsExceededHolds == OtpSpec => []LimitsExceededOnlyByOverlap
<1>1. OtpType /\ GuessInv => GuessesBounded
  BY GuessesAreBounded, OtpAssumption
<1>2. GuessesBounded /\ BurstBounded => LimitsExceededOnlyByOverlap
  BY DEF LimitsExceededOnlyByOverlap
<1> QED BY <1>1, <1>2, OtpInvariant, BurstHolds, PTL

\* A number counts as verified only if its codes reach the customer, for any
\* workers, numbers, codes and expiries; staff who type a number are the exception.
THEOREM VerifiedIsReached == OtpSpec => []VerifiedNumberIsReached
<1>1. ReachedInv => VerifiedNumberIsReached
  BY DEF ReachedInv
<1> QED BY <1>1, OtpInvariant, PTL
=============================================================================
