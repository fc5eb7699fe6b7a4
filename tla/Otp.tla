-------------------------------- MODULE Otp --------------------------------
(***************************************************************************)
(* Verification of a customer's WhatsApp number: request_code() and        *)
(* verify_code() of apps/notifications/otp.py behind the dashboard's       *)
(* wa_send_otp and wa_verify_otp.  The sends are counted by RateLimit; the *)
(* codes requested here are for one number, Number, whose counter it is.   *)
(* Neither function runs in a transaction: every read whose value is used  *)
(* in a later statement is a step of its own.  Each cache entry and code   *)
(* may expire at any moment, which covers every relation of the timeouts.  *)
(***************************************************************************)
EXTENDS RateLimit, Sequences

CONSTANTS
  Number, Other,    \* a number to verify, and another one with a code sent before
  MAX_ATTEMPTS,     \* WhatsAppOTP.MAX_ATTEMPTS
  MaxStaff          \* bound on staff edits of the customer

NotChecking == [pc |-> "idle", row |-> 0, attempts |-> 0, right |-> FALSE]
Numbers == {Number, Other}
Wrong == 0          \* a code that is no code
Unset == "none"     \* a blank Customer.wa_number

\* No number is the program point of a worker that checks no code; attempts can
\* be counted.
OtpOK == LimiterOK /\ NotChecking.pc \notin Numbers /\ MAX_ATTEMPTS \in Nat

ASSUME OtpAssumption == OtpOK

VARIABLES
  cooldown,   \* the cache entry "waotp:cd:<number>" exists
  codes,      \* WhatsAppOTP rows, oldest first; a code is named by its place
  customer,   \* wa_number, wa_number_verified_at is not null
  sender,     \* sender[p]: program point in request_code
  checker,    \* checker[p]: program point, row and values read in verify_code
  suppressed, \* WhatsAppSuppression holds Number (STOP and START: Notifications)
  mine,       \* the number on whose phone the customer reads codes (auxiliary)
  burst,      \* codes created since the cooldown last ended (auxiliary)
  staff       \* staff edits of the number; typed since it was verified (auxiliary)

own == <<cooldown, codes, customer, sender, checker, suppressed, mine, burst, staff>>

Row(n) == [number |-> n, attempts |-> 0, live |-> TRUE, consumed |-> FALSE, guesses |-> 0]

OtpInit ==
  /\ LimiterInit
  /\ cooldown = FALSE
  /\ codes \in {<<>>, <<Row(Other)>>}
  /\ customer = [wa_number |-> Unset, verified |-> FALSE]
  /\ sender = [p \in Workers |-> "idle"]
  /\ checker = [p \in Workers |-> NotChecking]
  /\ suppressed \in BOOLEAN
  /\ mine \in Numbers
  /\ "send" \notin counter.kinds => codes = <<>> /\ suppressed /\ mine = Number
  /\ burst = 0
  /\ staff = [edits |-> 0, typed |-> FALSE]

\* A counter's codes bounds the codes created, its requests the codes and the
\* guesses together.
Requests == Len(codes) + MapThenSumSet(LAMBDA i : codes[i].guesses, DOMAIN codes)

Free(p) == /\ p \in counter.procs /\ "send" \in counter.kinds
           /\ sender[p] = "idle" /\ checker[p].pc = "idle"
           /\ Requests < counter.requests

-----------------------------------------------------------------------------
(* request_code *)

\* cache.get(cd_key)
Cooling == cooldown

\* wa_send_otp: a suppressed number and one that was sent a code less than a
\* minute ago are refused, nothing is written.  (A number that is blank or not
\* Indonesian is a call not made.)
RequestCode(p) ==
  /\ Free(p)
  /\ ~suppressed /\ ~Cooling
  /\ Len(codes) < counter.codes
  /\ sender' = [sender EXCEPT ![p] = "count"]
  /\ UNCHANGED <<limiterVars, cooldown, codes, customer, checker, suppressed, mine, burst, staff>>

\* The add, incr and set of the counter; "Too many codes requested" ends the
\* call after it was counted.
CountSend(p) ==
  /\ sender[p] = "count"
  /\ \/ Add(p, "send") /\ UNCHANGED sender
     \/ /\ Incr(p) \/ Set(p)
        /\ sender' = [sender EXCEPT ![p] = IF admitted' # admitted THEN "create"
                                           ELSE IF refused' # refused THEN "idle"
                                           ELSE "count"]
  /\ UNCHANGED <<cooldown, codes, customer, checker, suppressed, mine, burst, staff>>

\* WhatsAppOTP.objects.create()
CreateCode(p) ==
  /\ sender[p] = "create"
  /\ codes' = Append(codes, Row(Number))
  /\ burst' = burst + 1
  /\ sender' = [sender EXCEPT ![p] = "cool"]
  /\ UNCHANGED <<limiterVars, cooldown, customer, checker, suppressed, mine, staff>>

\* cache.set(cd_key); the message is queued (module Notifications sends it).
SetCooldown(p) ==
  /\ sender[p] = "cool"
  /\ cooldown' = TRUE
  /\ sender' = [sender EXCEPT ![p] = "idle"]
  /\ UNCHANGED <<limiterVars, codes, customer, checker, suppressed, mine, burst, staff>>

-----------------------------------------------------------------------------
(* verify_code *)

\* Mutant: codes of any number are looked at.
CandidatesAnyNumber(n) == {i \in DOMAIN codes : ~codes[i].consumed}

\* filter(customer, number, consumed_at__isnull=True)
Candidates(n) == {i \in DOMAIN codes : codes[i].number = n /\ ~codes[i].consumed}

\* Mutant: a code may be tried once more than MAX_ATTEMPTS.
ExhaustedLate(i) == codes[i].attempts > MAX_ATTEMPTS

\* otp.attempts >= MAX_ATTEMPTS
Exhausted(i) == codes[i].attempts >= MAX_ATTEMPTS

\* wa_verify_otp: the newest unconsumed code of the number is read, and the
\* entered one, which is wrong or one the customer could read on its phone, is
\* compared with its hash.  No code, an expired and an exhausted one are
\* refused.
ReadCode(p, n, entered) ==
  /\ Free(p)
  /\ entered # Wrong => codes[entered].number = mine
  /\ Candidates(n) # {}
  /\ LET i == Max(Candidates(n)) IN
       /\ codes[i].live /\ ~Exhausted(i)
       /\ codes' = [codes EXCEPT ![i].guesses = @ + 1]
       /\ checker' = [checker EXCEPT ![p] =
            [pc |-> n, row |-> i, attempts |-> codes[i].attempts, right |-> entered = i]]
  /\ UNCHANGED <<limiterVars, cooldown, customer, sender, suppressed, mine, burst, staff>>

\* otp.save(): the number read plus one, whatever others have saved since;
\* consumed_at is only written for the right code.
SaveAttempt(p) ==
  LET c == checker[p] IN
  /\ c.row # 0
  /\ codes' = [codes EXCEPT ![c.row].attempts = c.attempts + 1,
                            ![c.row].consumed = @ \/ c.right]
  /\ checker' = [checker EXCEPT ![p] =
       IF c.right THEN [pc |-> c.pc, row |-> 0, attempts |-> c.attempts, right |-> TRUE]
       ELSE NotChecking]
  /\ UNCHANGED <<limiterVars, cooldown, customer, sender, suppressed, mine, burst, staff>>

\* customer.save(update_fields=[wa_number, wa_number_verified_at])
SaveCustomer(p) ==
  /\ checker[p].pc # "idle" /\ checker[p].row = 0
  /\ customer' = [wa_number |-> checker[p].pc, verified |-> TRUE]
  /\ staff' = [edits |-> staff.edits, typed |-> FALSE]
  /\ checker' = [checker EXCEPT ![p] = NotChecking]
  /\ UNCHANGED <<limiterVars, cooldown, codes, sender, suppressed, mine, burst>>

-----------------------------------------------------------------------------
(* Around them *)

\* CustomerAdmin: staff type another number; wa_number_verified_at is read-only
\* in the form and stays as it was.
AdminEdit(n) ==
  /\ "send" \in counter.kinds /\ staff.edits < MaxStaff
  /\ customer' = [wa_number |-> n, verified |-> customer.verified]
  /\ staff' = [edits |-> staff.edits + 1, typed |-> TRUE]
  /\ UNCHANGED <<limiterVars, cooldown, codes, sender, checker, suppressed, mine, burst>>

EndCooldown ==
  /\ cooldown
  /\ cooldown' = FALSE /\ burst' = 0
  /\ UNCHANGED <<limiterVars, codes, customer, sender, checker, suppressed, mine, staff>>

\* expires_at has passed: all codes live equally long.
ExpireCode(i) ==
  /\ codes[i].live /\ \A j \in 1..(i - 1) : ~codes[j].live
  /\ codes' = [codes EXCEPT ![i].live = FALSE]
  /\ UNCHANGED <<limiterVars, cooldown, customer, sender, checker, suppressed, mine, burst, staff>>

OtpNext ==
  \/ LimiterNext /\ "send" \notin counter.kinds /\ UNCHANGED own
  \/ Expire /\ "send" \in counter.kinds /\ UNCHANGED own
  \/ \E p \in Workers :
       \/ RequestCode(p) \/ CountSend(p) \/ CreateCode(p) \/ SetCooldown(p)
       \/ \E n \in Numbers, entered \in DOMAIN codes \cup {Wrong} : ReadCode(p, n, entered)
       \/ SaveAttempt(p) \/ SaveCustomer(p)
  \/ \E n \in Numbers \ {customer.wa_number} : AdminEdit(n)
  \/ EndCooldown
  \/ \E i \in DOMAIN codes : ExpireCode(i)

OtpSpec == OtpInit /\ [][OtpNext]_<<limiterVars, own>>

-----------------------------------------------------------------------------
\* How many of w workers may have read more than x attempts, for each x below
\* MAX_ATTEMPTS: as many such lists as ways to choose w of w + MAX_ATTEMPTS.
Standings(w) ==
  {g \in [0..(MAX_ATTEMPTS - 1) -> 0..w] : \A x, y \in DOMAIN g : x <= y => g[y] <= g[x]}

\* The guesses of one code when w workers overlap: each number of attempts can
\* only be written back by a worker that read a smaller one, so they stay below
\* the number of standings: two workers can make 20 guesses at a code, not 5.
GuessesBounded ==
  \A i \in DOMAIN codes :
    codes[i].guesses < Cardinality(Standings(Cardinality(counter.procs)))

\* Until a cooldown has ended, no more codes are created than workers were past
\* its check when the first one set it.
BurstBounded == burst <= Cardinality(counter.procs)

\* The limits otp.py promises, one code a minute and MAX_ATTEMPTS guesses per
\* code, are a get and a later set, so that overlapping requests exceed them (a
\* slow one even sets the number of attempts back), but only by what the
\* workers that overlap account for.
LimitsExceededOnlyByOverlap == GuessesBounded /\ BurstBounded

\* A number counts as verified only if its codes reach the customer: a code of
\* another number, an older code, an overlapping verification of two numbers
\* never verify it.  (Staff who type another number leave it verified.)
VerifiedNumberIsReached ==
  customer.verified /\ ~staff.typed => customer.wa_number = mine
=============================================================================
