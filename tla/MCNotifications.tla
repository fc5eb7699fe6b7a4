--------------------------- MODULE MCNotifications ---------------------------
EXTENDS Notifications

CONSTANTS s1, s2, h1

\* Reminders of three kinds.  The renewal reminder and the copy of an order's
\* confirmation have a WhatsApp template, the other two none.
MCReminders == {"expiry", "pending_order", "renewal"}
MCKind == [r \in MCReminders |-> r]
MCWindow == [expiry |-> {1}, pending_order |-> {1}, renewal |-> {2, 3}]
MCOccasions == {}
MCCopies == {"order.paid"}
MCNoTemplate == Notes \ {"renewal", "order.paid"}

\* An order waits; it is paid and auto-renew switched on; the wallet is topped up.
Row(auto, covered, awaiting) ==
  [status |-> "active", auto_renew |-> auto, covered |-> covered, awaiting |-> awaiting]
MCTimeline == << Row(FALSE, FALSE, TRUE), Row(TRUE, FALSE, FALSE), Row(TRUE, TRUE, FALSE) >>
MCSenders == {s1, s2}
MCHandlers == {h1}

\* Notifications share no row, so one is followed at a time: the others were
\* sent before the behaviour starts, the reminder when it was due.
MCInit == /\ NoticeInit
          /\ Cardinality(log \cup emitted) = Cardinality(Notes) - 1
          /\ IF log = Reminders THEN time = Len(Timeline)
             ELSE \E r \in Reminders \ log : time \in Window[r] /\ time - 1 \notin Window[r]
MCSpec == MCInit /\ [][NoticeNext]_noticeVars /\ Fairness
=============================================================================
