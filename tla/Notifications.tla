---------------------------- MODULE Notifications ----------------------------
(***************************************************************************)
(* Notifications of apps/notifications to one customer with one WhatsApp   *)
(* number: the hourly reminder job with its dedup log, the event handlers, *)
(* notify() and notify_wa_copy(), the deliver_whatsapp task with retries,  *)
(* the provider's status callbacks with the e-mail fallback, and STOP and  *)
(* START replies.                                                          *)
(*                                                                         *)
(* Nothing here runs in a transaction that spans two statements: a save    *)
(* writes what was decided from an earlier read.  A task is acknowledged   *)
(* after it ran (acks_late): the broker redelivers it when the worker node *)
(* is lost, but Celery acknowledges it when only the pool process that     *)
(* runs it is killed.  The callbacks arrive in any order, and a repeated   *)
(* event_id is dropped by the view, so each is handled at most once.       *)
(***************************************************************************)
EXTENDS Integers, Sequences, FiniteSets

CONSTANTS
  Reminders,   \* dedup keys of reminders that may become due
  Kind,        \* Kind[r]: the dispatch_* function that sends r
  Window,      \* Window[r]: the times at which r's row is in the query's window
  Occasions,   \* domain events notified once through notify()
  Copies,      \* domain events of which notify_wa_copy() sends a copy
  NoTemplate,  \* notifications without a usable template in strict mode
  Senders,     \* processes that run the job or an event's handlers
  Handlers,    \* web workers that handle a callback
  Reports,     \* statuses the provider may report for a message
  Tracked,     \* the backend returns message ids
  Timeline,    \* Timeline[t]: the rows the reminders are about, at time t
  NoNote, NoEvent,
  MaxRetries,  \* max_retries of the task
  MaxCrashes   \* bound on lost processes

Notes == Reminders \cup Occasions \cup Copies

SubRows == [status : {"active", "grace", "other"}, auto_renew : BOOLEAN,
            covered : BOOLEAN, awaiting : BOOLEAN]

\* A dedup key is no domain event.
NotificationsOK ==
  /\ NoNote \notin Notes
  /\ Reminders \cap (Occasions \cup Copies) = {}
  /\ IsFiniteSet(Handlers)
  /\ Reports \subseteq {"sent", "delivered", "read", "failed"}
  /\ Timeline \in Seq(SubRows) /\ Timeline # <<>>
  /\ MaxRetries \in Nat /\ MaxCrashes \in Nat

ASSUME NotificationsAssumption == NotificationsOK

VARIABLES
  time,        \* an index of Timeline
  pref,        \* Customer.notification_channel, of a verified number
  suppressed,  \* a WhatsAppSuppression row exists
  emitted,     \* events whose handlers have run
  log,         \* NotificationLog.dedup_key
  sender,      \* sender[s]: program point, notification, preference it read
  rows,        \* rows[n]: NotificationDelivery rows created for n
  row,         \* row[n]: the newest of them
  task,        \* task[n]: deliver_whatsapp of n
  sent,        \* sent[n]: messages the provider accepted for n
  fails,       \* fails[n]: attempts that raised
  mails,       \* mails[n]: e-mails queued for n
  reported, events,  \* callbacks the provider made, and those still on the way
  handler,     \* handler[h]: program point, callback, status it read
  lost         \* processes lost so far

choice == <<pref, suppressed>>
source == <<emitted, log, sender, rows>>
hook == <<reported, events, handler>>
noticeVars == <<time, choice, source, row, task, sent, fails, mails, hook, lost>>

NoRow == [channel |-> "none", status |-> "none", msg |-> 0]
NoTask == [pc |-> "none", retries |-> 0, msg |-> 0]
Queued == [pc |-> "queued", retries |-> 0, msg |-> 0]
IdleSender == [pc |-> "idle", note |-> NoNote, pref |-> "email"]
IdleHandler == [pc |-> "idle", event |-> NoEvent, seen |-> "none"]

NoticeInit ==
  /\ time \in DOMAIN Timeline /\ lost = 0
  /\ pref \in {"whatsapp", "email"} /\ suppressed \in BOOLEAN
  /\ emitted \in SUBSET (Occasions \cup Copies) /\ log \in SUBSET Reminders
  /\ sender = [s \in Senders |-> IdleSender]
  /\ rows = [n \in Notes |-> 0] /\ row = [n \in Notes |-> NoRow]
  /\ task = [n \in Notes |-> NoTask]
  /\ sent = [n \in Notes |-> 0] /\ fails = [n \in Notes |-> 0]
  /\ mails = [n \in Notes |-> 0]
  /\ reported = {} /\ events = {}
  /\ handler = [h \in Handlers |-> IdleHandler]

-----------------------------------------------------------------------------
(* The reminder job and the event handlers *)

\* The queries of the five dispatch_* functions and the balance check of two.
subRow == Timeline[time]
RenewalDue == subRow.status = "active" /\ subRow.auto_renew /\ ~subRow.covered
ExpiryDue == subRow.status = "active" /\ ~subRow.auto_renew
GraceDue == subRow.status = "grace"
PendingOrderDue == subRow.awaiting

ReminderDue(r) ==
  /\ time \in Window[r]
  /\ \/ Kind[r] \in {"low_balance", "renewal"} /\ RenewalDue
     \/ Kind[r] = "expiry" /\ ExpiryDue
     \/ Kind[r] = "grace" /\ GraceDue
     \/ Kind[r] = "pending_order" /\ PendingOrderDue

\* A run of the job reaches r's row; the customer is read with it.
Select(s, r) ==
  /\ sender[s].pc = "idle" /\ ReminderDue(r)
  /\ sender' = [sender EXCEPT ![s] = [pc |-> "log", note |-> r, pref |-> pref]]
  /\ UNCHANGED <<time, choice, emitted, log, rows, row, task, sent, fails, mails, hook, lost>>

\* Mutant: the log is looked up, the row inserted after the send.
TryLogLater(s) ==
  /\ sender[s].pc = "log"
  /\ sender' = [sender EXCEPT ![s] = IF @.note \in log THEN IdleSender
                                     ELSE [@ EXCEPT !.pc = "notify"]]
  /\ log' = log \cup {r \in Reminders : rows[r] > 0}
  /\ UNCHANGED <<time, choice, emitted, rows, row, task, sent, fails, mails, hook, lost>>

\* _try_log: the insert decides who sends.
TryLog(s) ==
  /\ sender[s].pc = "log"
  /\ sender' = [sender EXCEPT ![s] = IF @.note \in log THEN IdleSender
                                     ELSE [@ EXCEPT !.pc = "notify"]]
  /\ log' = log \cup {sender[s].note}
  /\ UNCHANGED <<time, choice, emitted, rows, row, task, sent, fails, mails, hook, lost>>

\* emit() after the commit runs the handler of the event once.
HandleEvent(s, n) ==
  /\ sender[s].pc = "idle" /\ n \in (Occasions \cup Copies) \ emitted
  /\ emitted' = emitted \cup {n}
  /\ sender' = [sender EXCEPT ![s] = [pc |-> "notify", note |-> n, pref |-> pref]]
  /\ UNCHANGED <<time, choice, log, rows, row, task, sent, fails, mails, hook, lost>>

\* The preference is of the Customer object in memory, the suppression is
\* looked up now.
effective_channel(s) ==
  IF sender[s].pref = "whatsapp" /\ ~suppressed THEN "whatsapp" ELSE "email"

\* _resolve_wa_template routes to e-mail in strict mode without a template.
Channel(s) ==
  IF sender[s].note \in NoTemplate THEN "email" ELSE effective_channel(s)

\* notify() and notify_wa_copy() up to _record; a copy is for WhatsApp only.
Record(s) ==
  LET n == sender[s].note IN
  /\ sender[s].pc = "notify"
  /\ IF n \in Copies /\ Channel(s) = "email"
     THEN /\ sender' = [sender EXCEPT ![s] = IdleSender]
          /\ UNCHANGED <<rows, row>>
     ELSE /\ sender' = [sender EXCEPT ![s].pc = "recorded"]
          /\ rows' = [rows EXCEPT ![n] = @ + 1]
          /\ row' = [row EXCEPT ![n] =
                       [channel |-> Channel(s), status |-> "queued", msg |-> 0]]
  /\ UNCHANGED <<time, choice, emitted, log, task, sent, fails, mails, hook, lost>>

\* Mutant: the e-mail goes out in any case.
DispatchBoth(s) ==
  LET n == sender[s].note IN
  /\ sender[s].pc = "recorded"
  /\ sender' = [sender EXCEPT ![s] = IdleSender]
  /\ task' = [task EXCEPT ![n] = Queued]
  /\ mails' = [mails EXCEPT ![n] = @ + 1]
  /\ UNCHANGED <<time, choice, emitted, log, rows, row, sent, fails, hook, lost>>

\* The task is queued; quiet hours only postpone it.
Dispatch(s) ==
  LET n == sender[s].note IN
  /\ sender[s].pc = "recorded"
  /\ sender' = [sender EXCEPT ![s] = IdleSender]
  /\ IF row[n].channel = "whatsapp"
     THEN task' = [task EXCEPT ![n] = Queued] /\ UNCHANGED mails
     ELSE mails' = [mails EXCEPT ![n] = @ + 1] /\ UNCHANGED task
  /\ UNCHANGED <<time, choice, emitted, log, rows, row, sent, fails, hook, lost>>

LoseSender(s) ==
  /\ sender[s].pc # "idle" /\ lost < MaxCrashes
  /\ lost' = lost + 1
  /\ sender' = [sender EXCEPT ![s] = IdleSender]
  /\ UNCHANGED <<time, choice, emitted, log, rows, row, task, sent, fails, mails, hook>>

-----------------------------------------------------------------------------
(* deliver_whatsapp *)

\* A worker takes the task off the queue and calls send_whatsapp.
Take(n) ==
  /\ task[n].pc = "queued"
  /\ task' = [task EXCEPT ![n].pc = "sending"]
  /\ UNCHANGED <<time, choice, source, row, sent, fails, mails, hook, lost>>

\* The provider accepts the message; some backends return no message id (0).
SendOk(n) ==
  /\ task[n].pc = "sending"
  /\ sent' = [sent EXCEPT ![n] = @ + 1]
  /\ task' = [task EXCEPT ![n].pc = "sent", ![n].msg = IF Tracked THEN sent[n] + 1 ELSE 0]
  /\ UNCHANGED <<time, choice, source, row, fails, mails, hook, lost>>

Exhausted(n) == task[n].retries >= MaxRetries

\* The call raises; after a timeout the provider may have accepted all the
\* same.  self.retry(exc=exc) queues the task again until the retries are used
\* up; then Celery raises exc itself, and MaxRetriesExceededError only when no
\* exc was given, so the handler with _finish_wa_delivery(ok=False) does not
\* run: the task ends as failed and the row stays as it is.
SendRaises(n) ==
  /\ task[n].pc = "sending"
  /\ \E accepted \in {0, 1} : sent' = [sent EXCEPT ![n] = @ + accepted]
  /\ fails' = [fails EXCEPT ![n] = @ + 1]
  /\ task' = [task EXCEPT ![n] = IF Exhausted(n) THEN [@ EXCEPT !.pc = "acking"]
                                 ELSE [@ EXCEPT !.pc = "queued", !.retries = task[n].retries + 1]]
  /\ UNCHANGED <<time, choice, source, row, mails, hook, lost>>

\* _finish_wa_delivery(ok=True) saves SENT and the message id over whatever
\* a callback stored.
Finish(n) ==
  /\ task[n].pc = "sent"
  /\ row' = [row EXCEPT ![n].status = "sent", ![n].msg = task[n].msg]
  /\ task' = [task EXCEPT ![n].pc = "acking"]
  /\ UNCHANGED <<time, choice, source, sent, fails, mails, hook, lost>>

\* Mutant: a notification that fell back to e-mail is tried again.
AckRetried(n) ==
  /\ task[n].pc = "acking"
  /\ task' = [task EXCEPT ![n].pc = IF row[n].status = "fallback_sent" THEN "queued" ELSE "done"]
  /\ UNCHANGED <<time, choice, source, row, sent, fails, mails, hook, lost>>

Ack(n) ==
  /\ task[n].pc = "acking"
  /\ task' = [task EXCEPT ![n].pc = "done"]
  /\ UNCHANGED <<time, choice, source, row, sent, fails, mails, hook, lost>>

Running(n) == task[n].pc \in {"sending", "sent", "acking"}

\* Mutant: the task is acknowledged when it is taken, not after it ran.
LoseNodeEarlyAck(n) ==
  /\ Running(n) /\ lost < MaxCrashes
  /\ lost' = lost + 1
  /\ task' = [task EXCEPT ![n].pc = "done", ![n].msg = 0]
  /\ UNCHANGED <<time, choice, source, row, sent, fails, mails, hook>>

\* The worker node is lost before the acknowledgement: the broker redelivers.
LoseNode(n) ==
  /\ Running(n) /\ lost < MaxCrashes
  /\ lost' = lost + 1
  /\ task' = [task EXCEPT ![n].pc = "queued", ![n].msg = 0]
  /\ UNCHANGED <<time, choice, source, row, sent, fails, mails, hook>>

\* Only the pool process is killed: without task_reject_on_worker_lost the
\* node acknowledges its task as failed, acks_late or not.
KillProcess(n) ==
  /\ Running(n) /\ lost < MaxCrashes
  /\ lost' = lost + 1
  /\ task' = [task EXCEPT ![n].pc = "dropped"]
  /\ UNCHANGED <<time, choice, source, row, sent, fails, mails, hook>>

Work(n) == Take(n) \/ SendOk(n) \/ SendRaises(n) \/ Finish(n) \/ Ack(n)

-----------------------------------------------------------------------------
(* Callbacks of the provider *)

Callback(n, k, status) == [note |-> n, msg |-> k, status |-> status]

\* The provider reports on a message it accepted; one that failed is never
\* delivered or read.
Report(n, k, status) ==
  LET told(t) == Callback(n, k, t) \in reported IN
  /\ ~told(status)
  /\ status = "failed" => ~told("delivered") /\ ~told("read")
  /\ status \in {"delivered", "read"} => ~told("failed")
  /\ reported' = reported \cup {Callback(n, k, status)}
  /\ events' = events \cup {Callback(n, k, status)}
  /\ UNCHANGED <<time, choice, source, row, task, sent, fails, mails, handler, lost>>

\* kirimchat_webhook marks the event_id as seen, _handle_status finds the row
\* by its message id.
Receive(h, e) ==
  /\ handler[h].pc = "idle" /\ e \in events
  /\ events' = events \ {e}
  /\ handler' = [handler EXCEPT ![h] =
       IF row[e.note].msg = e.msg
       THEN [pc |-> "decide", event |-> e, seen |-> row[e.note].status] ELSE IdleHandler]
  /\ UNCHANGED <<time, choice, source, row, task, sent, fails, mails, reported, lost>>

Rank(status) == CASE status = "sent" -> 1 [] status = "delivered" -> 2
                  [] status = "read" -> 3 [] OTHER -> 0

\* From the status read: a failure was handled already, or no progress.
Ignored(seen, status) ==
  \/ seen \in {"failed", "fallback_sent"}
  \/ status # "failed" /\ Rank(status) <= Rank(seen)

SaveStatus(h) ==
  LET e == handler[h].event IN
  /\ handler[h].pc = "decide"
  /\ IF Ignored(handler[h].seen, e.status)
     THEN handler' = [handler EXCEPT ![h] = IdleHandler] /\ UNCHANGED row
     ELSE /\ row' = [row EXCEPT ![e.note].status = e.status]
          /\ handler' = [handler EXCEPT ![h] =
               IF e.status = "failed" THEN [@ EXCEPT !.pc = "fallback"] ELSE IdleHandler]
  /\ UNCHANGED <<time, choice, source, task, sent, fails, mails, reported, events, lost>>

\* fallback_delivery_to_email: a copy has no e-mail body.
Fallback(h) ==
  LET n == handler[h].event.note IN
  /\ handler[h].pc = "fallback"
  /\ IF n \in Copies
     THEN handler' = [handler EXCEPT ![h] = IdleHandler] /\ UNCHANGED mails
     ELSE /\ mails' = [mails EXCEPT ![n] = @ + 1]
          /\ handler' = [handler EXCEPT ![h].pc = "mailed"]
  /\ UNCHANGED <<time, choice, source, row, task, sent, fails, reported, events, lost>>

SaveFallback(h) ==
  /\ handler[h].pc = "mailed"
  /\ row' = [row EXCEPT ![handler[h].event.note].status = "fallback_sent"]
  /\ handler' = [handler EXCEPT ![h] = IdleHandler]
  /\ UNCHANGED <<time, choice, source, task, sent, fails, mails, reported, events, lost>>

\* The web worker dies; the provider's retry is answered as a duplicate.
LoseHandler(h) ==
  /\ handler[h].pc # "idle" /\ lost < MaxCrashes
  /\ lost' = lost + 1
  /\ handler' = [handler EXCEPT ![h] = IdleHandler]
  /\ UNCHANGED <<time, choice, source, row, task, sent, fails, mails, reported, events>>

-----------------------------------------------------------------------------
(* The customer, the rows reminders are about, and time *)

\* An inbound STOP: the suppression row, and the customer moves to e-mail.
Stop ==
  /\ ~suppressed \/ pref = "whatsapp"
  /\ suppressed' = TRUE /\ pref' = "email"
  /\ UNCHANGED <<time, source, row, task, sent, fails, mails, hook, lost>>

\* An inbound START deletes the row; the preference stays e-mail.
Restart ==
  /\ suppressed
  /\ suppressed' = FALSE
  /\ UNCHANGED <<time, pref, source, row, task, sent, fails, mails, hook, lost>>

\* The dashboard's preference form, or "all" on the unsubscribe page.
Prefer(channel) ==
  /\ pref # channel /\ pref' = channel
  /\ UNCHANGED <<time, suppressed, source, row, task, sent, fails, mails, hook, lost>>

\* Time passes; billing changes the subscription, the balance or the order.
TimePasses ==
  /\ time < Len(Timeline) /\ time' = time + 1
  /\ UNCHANGED <<choice, source, row, task, sent, fails, mails, hook, lost>>

-----------------------------------------------------------------------------
NoticeNext ==
  \/ \E s \in Senders : \/ \E r \in Reminders : Select(s, r)
                        \/ \E n \in Occasions \cup Copies : HandleEvent(s, n)
                        \/ TryLog(s) \/ Record(s) \/ Dispatch(s) \/ LoseSender(s)
  \/ \E n \in Notes : Work(n) \/ LoseNode(n) \/ KillProcess(n)
  \/ \E n \in Notes : \E k \in 1 .. sent[n], t \in Reports : Report(n, k, t)
  \/ \E h \in Handlers : \/ \E e \in events : Receive(h, e)
                         \/ SaveStatus(h) \/ Fallback(h)
                         \/ SaveFallback(h) \/ LoseHandler(h)
  \/ Stop \/ Restart \/ \E c \in {"whatsapp", "email"} : Prefer(c)
  \/ TimePasses

\* Celery runs a queued task; nobody else has to do anything.
Fairness == \A n \in Notes : WF_noticeVars(Work(n))

NoticeSpec == NoticeInit /\ [][NoticeNext]_noticeVars /\ Fairness

-----------------------------------------------------------------------------
(* Properties *)

NoticeTypeOK ==
  /\ time \in DOMAIN Timeline /\ lost \in 0 .. MaxCrashes
  /\ pref \in {"whatsapp", "email"} /\ suppressed \in BOOLEAN
  /\ emitted \subseteq Occasions \cup Copies /\ log \subseteq Reminders
  /\ sender \in [Senders -> [pc : {"idle", "log", "notify", "recorded"},
                             note : Notes \cup {NoNote}, pref : {"whatsapp", "email"}]]
  /\ rows \in [Notes -> Nat] /\ sent \in [Notes -> Nat] /\ fails \in [Notes -> Nat]
  /\ mails \in [Notes -> Nat]
  /\ row \in [Notes -> [channel : {"none", "whatsapp", "email"}, msg : Nat,
                        status : {"none", "queued", "sent", "delivered", "read",
                                  "failed", "fallback_sent"}]]
  /\ task \in [Notes -> [pc : {"none", "queued", "sending", "sent", "acking", "done", "dropped"},
                         retries : 0 .. MaxRetries, msg : Nat]]
  /\ events \subseteq reported
  /\ reported \subseteq [note : Notes, msg : Nat, status : Reports]
  /\ \A e \in reported : e.msg \in 1 .. sent[e.note]
  /\ handler \in [Handlers -> [pc : {"idle", "decide", "fallback", "mailed"},
                               event : reported \cup {NoEvent},
                               seen : {"none", "queued", "sent", "delivered", "read",
                                       "failed", "fallback_sent"}]]
  /\ \A h \in Handlers : handler[h].pc # "idle" => handler[h].event \in reported

\* However runs of the hourly job overlap, crash and repeat, a reminder is
\* recorded and sent out at most once for its dedup key (reminders._try_log).
RemindedOnce == \A r \in Reminders : rows[r] <= 1

\* One notification, one channel: one that went to WhatsApp is mailed as well
\* only for messages the provider reported as failed, one e-mail for each at
\* most (_handle_status).
MailedOnlyAfterFailure ==
  \A n \in Notes : row[n].channel = "whatsapp" =>
    mails[n] <= Cardinality({e \in reported : e.note = n /\ e.status = "failed"})

\* At most one e-mail goes out per notification, however its callbacks and its
\* task interleave, but for one more per process that was lost: a task whose
\* worker is lost sends a second message, which may fail as well.
FallbackAtMostOnce == \A n \in Notes : mails[n] <= 1 + lost

\* A notification whose WhatsApp task was queued is accepted by the provider or
\* has been tried MaxRetries + 1 times, also when worker nodes are lost on the
\* way.  Excluded is the task whose pool process was killed: it is dropped and
\* the row stays QUEUED.  (After the last try no e-mail follows, although the
\* task's docstring says so.)
GoesOut ==
  \A n \in Notes \ NoTemplate :
    (task[n].pc = "queued") ~>
      (sent[n] > 0 \/ fails[n] > MaxRetries \/ task[n].pc = "dropped")
=============================================================================
