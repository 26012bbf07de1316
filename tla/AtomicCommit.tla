----------------------------- MODULE AtomicCommit -----------------------------
(***************************************************************************)
(* Atomic commitment as the two branches of a payment owe it: a branch     *)
(* prepares or refuses on its own; it commits only when every branch is    *)
(* prepared or has committed, and aborts only when none has committed.     *)
(* Nobody decides here: there is no coordinator, no log and no message.    *)
(***************************************************************************)
CONSTANTS
  Payment,
  Branch

VARIABLE work  \* where each branch of each payment is

Init == work = [p \in Payment |-> [b \in Branch |-> "working"]]

Move(p, b, to) == work' = [work EXCEPT ![p][b] = to]

Prepare(p, b) == work[p][b] = "working" /\ Move(p, b, "prepared")

Commit(p, b) ==
  /\ work[p][b] = "prepared"
  /\ \A c \in Branch : work[p][c] \in {"prepared", "committed"}
  /\ Move(p, b, "committed")

Abort(p, b) ==
  /\ work[p][b] \in {"working", "prepared"}
  /\ \A c \in Branch : work[p][c] # "committed"
  /\ Move(p, b, "aborted")

\* A reset deletes the records of some payments, of both branches at once.
Forget ==
  \E forgotten \in SUBSET Payment :
    work' = [p \in Payment |-> IF p \in forgotten THEN [b \in Branch |-> "working"] ELSE work[p]]

Next == (\E p \in Payment, b \in Branch : Prepare(p, b) \/ Commit(p, b) \/ Abort(p, b)) \/ Forget

Spec == Init /\ [][Next]_work

=============================================================================
