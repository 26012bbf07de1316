--------------------------- MODULE IdempotentCreate ---------------------------
(***************************************************************************)
(* What Create promises of its idempotency key: one table decides, in one  *)
(* step per request.  There is no cache here, and no moment between        *)
(* looking a key up and inserting it.                                      *)
(*                                                                         *)
(* A request is named by the payment id it generates.                      *)
(***************************************************************************)
EXTENDS Naturals

CONSTANTS
  Request,  \* Create requests
  Key,      \* the key of each request, as the table compares keys
  Fingerprint     \* the fingerprint of each request

VARIABLES
  rows,      \* the payments in the table
  decision,  \* what has been decided about each request
  epoch      \* resets so far

vars == <<rows, decision, epoch>>

Decision == [what : {"none", "created", "replayed", "conflict", "error"},
             payment : Request, epoch : Nat]

Undecided(r) == [what |-> "none", payment |-> r, epoch |-> 0]

Init ==
  /\ rows     = {}
  /\ decision = [r \in Request |-> Undecided(r)]
  /\ epoch    = 0

Decide(r, what, payment) ==
  /\ decision[r].what = "none"
  /\ decision' = [decision EXCEPT ![r] = [what |-> what, payment |-> payment, epoch |-> epoch]]

Create(r) ==
  /\ \A q \in rows : Key[q] # Key[r]
  /\ rows' = rows \cup {r}
  /\ Decide(r, "created", r)
  /\ UNCHANGED epoch

Repeat(r) ==
  /\ \E q \in rows :
       /\ Key[q] = Key[r]
       /\ Decide(r, IF Fingerprint[q] = Fingerprint[r] THEN "replayed" ELSE "conflict", q)
  /\ UNCHANGED <<rows, epoch>>

Fail(r) ==
  /\ Decide(r, "error", r)
  /\ UNCHANGED <<rows, epoch>>

Reset ==
  /\ rows'  = {}
  /\ epoch' = epoch + 1
  /\ UNCHANGED decision

Next == (\E r \in Request : Create(r) \/ Repeat(r) \/ Fail(r)) \/ Reset

Spec == Init /\ [][Next]_vars

-----------------------------------------------------------------------------
DecidedOn(r) == decision[r].what \in {"created", "replayed", "conflict"}

\* README.md:109-111: between two resets all requests of one key are decided
\* on one and the same payment.  The request that created it is the only one
\* told so, those with its parameters are told of it, the others refused.
AnswersAgree ==
  \A r, s \in Request :
    DecidedOn(r) /\ DecidedOn(s) /\ Key[r] = Key[s] /\ decision[r].epoch = decision[s].epoch =>
      /\ decision[r].payment = decision[s].payment
      /\ decision[r].what = "created" <=> decision[r].payment = r
      /\ decision[r].what = "conflict" <=> Fingerprint[decision[r].payment] # Fingerprint[r]

=============================================================================
