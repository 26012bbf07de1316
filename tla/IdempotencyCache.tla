--------------------------- MODULE IdempotencyCache ---------------------------
(***************************************************************************)
(* The front half of the distributed Create (service.go:58-116): the Redis *)
(* cache is asked first and never believed, MySQL is asked next, the       *)
(* unique index decides in the end.  Redis and MySQL are not updated       *)
(* together: entries are lost or expire, a reset empties MySQL first and   *)
(* Redis afterwards key by key, and a request that was under way stores    *)
(* its entry whenever it gets there.                                       *)
(*                                                                         *)
(* Keys are compared byte by byte in Redis and under the collation         *)
(* utf8mb4_0900_ai_ci in MySQL: Fold maps the keys that are equal there to *)
(* one value.  What happens to a payment after BeginTCC is                 *)
(* DistributedPayment's subject; here it is one step.                      *)
(***************************************************************************)
EXTENDS Naturals

CONSTANTS
  Request,     \* Create requests, named by the payment id they generate
  Key,         \* the idempotency key each request sends
  Fold,        \* the collation's representative of each key
  Fingerprint, \* the fingerprint of each request
  Nobody,      \* not a request
  MaxResets    \* bound: how often the demo is reset

Keys == {Key[r] : r \in Request}

ASSUME CacheAssumption ==
  /\ DOMAIN Key = Request /\ DOMAIN Fingerprint = Request
  /\ Keys \subseteq DOMAIN Fold
  /\ Nobody \notin Request
  /\ MaxResets \in Nat

VARIABLES
  status,    \* payments.status, or "NONE" when there is no row
  cache,     \* the payment recorded under each key in Redis, or Nobody
  pc,        \* the next step of each request
  found,     \* the payment each request has read or made
  decision,  \* what has been decided about each request
  resetPc,   \* the next step of the reset
  unscanned, \* keys the SCAN loop has not come to
  page,      \* keys of the last SCAN, about to be deleted
  resets     \* resets that emptied MySQL

rowVars   == <<status, resets>>
clearVars == <<resetPc, unscanned, page>>
vars == <<status, cache, pc, found, decision, clearVars, resets>>

Rows == {r \in Request : status[r] # "NONE"}

Decision == [what : {"none", "created", "replayed", "conflict", "error"},
             payment : Request, epoch : Nat]

\* A request about to verify or to store has a payment to do it with.
TypeOK ==
  /\ status    \in [Request -> {"NONE", "INIT", "PROCESSING", "FINAL"}]
  /\ cache     \in [Keys -> Request \cup {Nobody}]
  /\ pc        \in [Request -> {"cache", "verify", "lookup", "insert", "refind", "begin", "store", "done"}]
  /\ found     \in [Request -> Request \cup {Nobody}]
  /\ decision  \in [Request -> Decision]
  /\ resetPc   \in {"idle", "checked", "clearing"}
  /\ unscanned \subseteq Keys
  /\ page      \subseteq Keys
  /\ resets    \in 0..MaxResets
  /\ \A r \in Request : pc[r] \in {"verify", "store"} => found[r] \in Request

Init ==
  /\ status    = [r \in Request |-> "NONE"]
  /\ cache     = [k \in Keys |-> Nobody]
  /\ pc        = [r \in Request |-> "cache"]
  /\ found     = [r \in Request |-> Nobody]
  /\ decision  = [r \in Request |-> [what |-> "none", payment |-> r, epoch |-> 0]]
  /\ resetPc   = "idle"
  /\ unscanned = {}
  /\ page      = {}
  /\ resets    = 0

-----------------------------------------------------------------------------
(* Building blocks.                                                        *)

Goto(r, from, to) ==
  /\ pc[r] = from
  /\ pc' = [pc EXCEPT ![r] = to]

Find(r, q) == found' = [found EXCEPT ![r] = q]

Decide(r, what, q) ==
  decision' = [decision EXCEPT ![r] = [what |-> what, payment |-> q, epoch |-> resets]]

\* Mutant: the unique index compares keys byte by byte.
SameKeyBytewise(r, q) == Key[q] = Key[r]

SameKey(r, q) == Fold[Key[q]] = Fold[Key[r]]

\* Mutants: an empty record counts as a hit; the cached entry is believed.
HitWithoutRecord(r) ==
  cache[Key[r]] = Nobody \/ Fingerprint[cache[Key[r]]] = Fingerprint[r]
BelieveCache(r, q) == TRUE

\* The record under exactly this key, if its fingerprint is the request's.
Hit(r) == cache[Key[r]] # Nobody /\ Fingerprint[cache[Key[r]]] = Fingerprint[r]

Verified(r, q) == q \in Rows /\ SameKey(r, q) /\ Fingerprint[q] = Fingerprint[r]

-----------------------------------------------------------------------------
(* The Create request.                                                     *)

\* A miss, an unreadable record and an error of Redis are the same.
GetIdempotency(r) ==
  /\ \/ Hit(r) /\ Goto(r, "cache", "verify") /\ Find(r, cache[Key[r]])
     \/ Goto(r, "cache", "lookup") /\ UNCHANGED found
  /\ UNCHANGED <<rowVars, cache, decision, clearVars>>

\* A verified hit is the answer; anything else, an error too, leads on.
VerifyCachedIdempotency(r) ==
  /\ \/ Verified(r, found[r]) /\ Goto(r, "verify", "done") /\ Decide(r, "replayed", found[r])
     \/ Goto(r, "verify", "lookup") /\ UNCHANGED decision
  /\ UNCHANGED <<rowVars, cache, found, clearVars>>

\* A payment of this key: the request repeats it or conflicts with it.
Repeat(r, from, q) ==
  /\ q \in Rows /\ SameKey(r, q)
  /\ \/ /\ Fingerprint[q] = Fingerprint[r]
        /\ Goto(r, from, "store")
        /\ Decide(r, "replayed", q)
     \/ /\ Fingerprint[q] # Fingerprint[r]
        /\ Goto(r, from, "done")
        /\ Decide(r, "conflict", q)
  /\ Find(r, q)

NoRow(r) == \A q \in Rows : ~SameKey(r, q)

FindByIdempotencyKey(r) ==
  /\ \/ \E q \in Request : Repeat(r, "lookup", q)
     \/ NoRow(r) /\ Goto(r, "lookup", "insert") /\ UNCHANGED <<found, decision>>
  /\ UNCHANGED <<rowVars, cache, clearVars>>

CreatePayment(r) ==
  /\ \/ /\ NoRow(r)
        /\ Goto(r, "insert", "begin")
        /\ status' = [status EXCEPT ![r] = "INIT"]
        /\ Decide(r, "created", r)
     \/ /\ ~NoRow(r)
        /\ Goto(r, "insert", "refind")
        /\ UNCHANGED <<status, decision>>
  /\ UNCHANGED <<cache, found, clearVars, resets>>

\* After a duplicate key the winner is read in a statement of its own; a
\* reset may have deleted it, and then the request fails with not found.
AdoptWinner(r) ==
  /\ \/ \E q \in Request : Repeat(r, "refind", q)
     \/ NoRow(r) /\ Goto(r, "refind", "done") /\ Decide(r, "error", r) /\ UNCHANGED found
  /\ UNCHANGED <<rowVars, cache, clearVars>>

BeginTCC(r) ==
  /\ \/ /\ status[r] = "INIT"
        /\ Goto(r, "begin", "store")
        /\ status' = [status EXCEPT ![r] = "PROCESSING"]
        /\ Find(r, r)
     \/ /\ status[r] # "INIT"
        /\ Goto(r, "begin", "done")
        /\ UNCHANGED <<status, found>>
  /\ UNCHANGED <<cache, decision, clearVars, resets>>

\* An error of Redis is not reported.
SetIdempotency(r) ==
  /\ Goto(r, "store", "done")
  /\ cache' = [cache EXCEPT ![Key[r]] = found[r]] \/ UNCHANGED cache
  /\ UNCHANGED <<rowVars, found, decision, clearVars>>

\* MySQL or DTM's newGid fails, the client goes away, the process stops.
Stop(r) ==
  /\ pc[r] # "done"
  /\ pc' = [pc EXCEPT ![r] = "done"]
  /\ IF decision[r].what = "none" THEN Decide(r, "error", r) ELSE UNCHANGED decision
  /\ UNCHANGED <<rowVars, cache, found, clearVars>>

Create(r) ==
  \/ GetIdempotency(r)
  \/ VerifyCachedIdempotency(r)
  \/ FindByIdempotencyKey(r)
  \/ CreatePayment(r)
  \/ AdoptWinner(r)
  \/ BeginTCC(r)
  \/ SetIdempotency(r)
  \/ Stop(r)

-----------------------------------------------------------------------------
(* The rest of the system.                                                 *)

Finalize(r) ==
  /\ status[r] = "PROCESSING"
  /\ status' = [status EXCEPT ![r] = "FINAL"]
  /\ UNCHANGED <<cache, pc, found, decision, clearVars, resets>>

\* An entry expires, is evicted, or is lost with a restart of Redis.
Drop(k) ==
  /\ cache[k] # Nobody
  /\ cache' = [cache EXCEPT ![k] = Nobody]
  /\ UNCHANGED <<rowVars, pc, found, decision, clearVars>>

ResetMoves(from, to) ==
  /\ resetPc = from
  /\ resetPc' = to
  /\ UNCHANGED <<pc, found, decision>>

EnsureNoActiveTransactions ==
  /\ ResetMoves("idle", "checked")
  /\ resets < MaxResets
  /\ \A r \in Request : status[r] # "PROCESSING"
  /\ UNCHANGED <<rowVars, cache, unscanned, page>>

ResetRows ==
  /\ ResetMoves("checked", "clearing")
  /\ status'    = [r \in Request |-> "NONE"]
  /\ resets'    = resets + 1
  /\ unscanned' = Keys
  /\ page'      = {}
  /\ UNCHANGED cache

\* One SCAN: some of the keys not come to yet, of which those present count.
Scan ==
  /\ ResetMoves("clearing", "clearing")
  /\ page = {}
  /\ \E batch \in SUBSET unscanned :
       /\ batch # {}
       /\ unscanned' = unscanned \ batch
       /\ page' = {k \in batch : cache[k] # Nobody}
  /\ UNCHANGED <<rowVars, cache>>

Del ==
  /\ ResetMoves("clearing", "clearing")
  /\ page # {}
  /\ cache' = [k \in Keys |-> IF k \in page THEN Nobody ELSE cache[k]]
  /\ page'  = {}
  /\ UNCHANGED <<rowVars, unscanned>>

\* The loop ends when SCAN is through, or at the first error of Redis.
ClearEnds ==
  /\ ResetMoves("clearing", "idle")
  /\ unscanned' = {} /\ page' = {}
  /\ UNCHANGED <<rowVars, cache>>

Next ==
  \/ \E r \in Request : Create(r)
  \/ \E r \in Request : Finalize(r)
  \/ \E k \in Keys : Drop(k)
  \/ EnsureNoActiveTransactions
  \/ ResetRows
  \/ Scan
  \/ Del
  \/ ClearEnds

Spec == Init /\ [][Next]_vars

-----------------------------------------------------------------------------
\* The cache and the two-step lookup in MySQL do not show: every request is
\* decided as if one table did it in one step.
Promise == INSTANCE IdempotentCreate WITH
  Key <- [r \in Request |-> Fold[Key[r]]], rows <- Rows, epoch <- resets

ImplementsIdempotentCreate == Promise!Spec

\* What a client may rely on: the requests of one key are all decided on one
\* payment, whatever the cache holds (README.md:111: a lost, expired or
\* restarted cache never allows a second payment).
AnswersAgree == Promise!AnswersAgree

=============================================================================
