---------------------------- MODULE AlertOutbox ----------------------------
(***************************************************************************)
(* What the alert sweep promises (docs/ALERTING.md, "How it works"), with  *)
(* no worker, batch or database in sight: an outbox of findings.  A        *)
(* finding is raised and waits; an operator may withdraw it and put it     *)
(* back; the sink receives findings that were raised, once or again; a     *)
(* finding leaves the outbox for good only after the sink has received it. *)
(***************************************************************************)
CONSTANT Items

VARIABLES
  raised,     \* findings that were ever up for alerting
  waiting,    \* findings the next sweep will try
  delivered,  \* findings the sink has received
  settled     \* findings no sweep will try again

outbox == <<raised, waiting, delivered, settled>>

OutboxTypeOK ==
  /\ raised \subseteq Items
  /\ waiting \subseteq raised
  /\ delivered \subseteq raised
  /\ settled \subseteq delivered

Init ==
  /\ raised = {} /\ waiting = {}
  /\ delivered = {} /\ settled = {}

Raise(i) ==
  /\ i \notin raised
  /\ raised' = raised \cup {i}
  /\ waiting' = waiting \cup {i}
  /\ UNCHANGED <<delivered, settled>>

Withdraw(i) ==
  /\ i \in waiting
  /\ waiting' = waiting \ {i}
  /\ UNCHANGED <<raised, delivered, settled>>

PutBack(i) ==
  /\ i \in raised \ settled
  /\ waiting' = waiting \cup {i}
  /\ UNCHANGED <<raised, delivered, settled>>

\* A finding withdrawn after it was read may still be delivered.
Deliver(S) ==
  /\ S \subseteq raised
  /\ delivered' = delivered \cup S
  /\ UNCHANGED <<raised, waiting, settled>>

Settle(S) ==
  /\ S \subseteq delivered
  /\ settled' = settled \cup S
  /\ waiting' = waiting \ S
  /\ UNCHANGED <<raised, delivered>>

Next ==
  \/ \E i \in Items : Raise(i) \/ Withdraw(i) \/ PutBack(i)
  \/ \E S \in SUBSET Items : Deliver(S) \/ Settle(S)

Spec == Init /\ [][Next]_outbox

\* No finding is silently dropped: one that waits is delivered, or somebody
\* withdraws it; it is not settled undelivered.
Flushes ==
  \A i \in Items : i \in waiting ~> (i \in delivered \/ i \notin waiting \cup settled)
=============================================================================
