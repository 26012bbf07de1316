------------------------------- MODULE KeyMutex -------------------------------
(***************************************************************************)
(* What PaymentService.lockIdempotencyKey promises: callers that name the  *)
(* same key hold it one at a time; callers of different keys do not wait   *)
(* for each other.                                                         *)
(***************************************************************************)
CONSTANTS
  Caller,  \* the goroutines that lock keys
  Key      \* the key each of them locks

VARIABLE state  \* "idle", "waiting" or "holding", for each caller

Init == state = [c \in Caller |-> "idle"]

Move(c, from, to) ==
  /\ state[c] = from
  /\ state' = [state EXCEPT ![c] = to]

Ask(c) == Move(c, "idle", "waiting")

\* Mutant: nothing keeps the callers of a key apart.
AlwaysFree(c) == TRUE

Free(c) == \A d \in Caller : state[d] = "holding" => Key[d] # Key[c]

Enter(c) == Free(c) /\ Move(c, "waiting", "holding")

Leave(c) == Move(c, "holding", "idle")

Next == \E c \in Caller : Ask(c) \/ Enter(c) \/ Leave(c)

Spec == Init /\ [][Next]_state

=============================================================================
