----------------------------- MODULE PaymentEvents -----------------------------
(***************************************************************************)
(* The informational events of the distributed mode, which the journal of  *)
(* DistributedPayment leaves out: what the Create handler notes in         *)
(* payment_events about its global transaction.  An event is written in a  *)
(* transaction of its own, and an error in writing it is ignored.          *)
(***************************************************************************)
EXTENDS DistributedPayment

VARIABLES
  events,  \* informational events of each payment, told apart by what they claim
  noted    \* the handler has tried to note the error of its TCC transaction

eventVars == <<events, noted>>

EventsInit ==
  /\ Init
  /\ events = [p \in Payment |-> {}]
  /\ noted  = [p \in Payment |-> FALSE]

-----------------------------------------------------------------------------
\* The payment must still exist; otherwise, or on a database error, the event
\* is lost and the caller goes on.
RecordEvent(p, type) ==
  \/ HasRow(p) /\ events' = [events EXCEPT ![p] = @ \cup {type}]
  \/ UNCHANGED events

\* Any error of TccGlobalTransaction2 is noted as an abort.
NoteError(p) ==
  /\ pc[p] = "awaitFailure" /\ ~noted[p]
  /\ RecordEvent(p, "DTM_TCC_ABORTED")
  /\ noted' = [noted EXCEPT ![p] = TRUE]
  /\ UNCHANGED vars

\* waitForOutcome's deadline passes: DTM_RECONCILE_PENDING, with one message
\* after an error and another after a submit.
NotePending(p) ==
  /\ pc[p] = "awaitFailure" => noted[p]
  /\ \/ pc[p] = "awaitFailure" /\ RecordEvent(p, "abort accepted")
     \/ pc[p] = "awaitSuccess" /\ RecordEvent(p, "submit accepted")
  /\ LooksAt(p, "idle")
  /\ Stop(p)
  /\ UNCHANGED noted

\* The wait for a failure begins after the error is noted; a reset deletes
\* the events with the payments.
Otherwise ==
  /\ Next
  /\ \A p \in Payment : pc[p] = "awaitFailure" /\ ~noted[p] => watch'[p] = watch[p]
  /\ events' = [p \in Payment |-> IF status'[p] = "NONE" THEN {} ELSE events[p]]
  /\ UNCHANGED noted

EventsNext ==
  \/ \E p \in Payment : NoteError(p) \/ NotePending(p)
  \/ Otherwise

EventsSpec == EventsInit /\ [][EventsNext]_<<vars, eventVars>>

-----------------------------------------------------------------------------
\* service.go:147 notes "DTM aborted the global transaction and requested
\* Cancel": no payment with this event is one whose global transaction commits.
AbortNotedOnlyIfAborted ==
  \A p \in Payment :
    "DTM_TCC_ABORTED" \in events[p] => trans[p] \notin {"submitted", "succeed"} /\ status[p] # "SUCCESS"

=============================================================================
