-------------------------------- MODULE KeyLock -------------------------------
(***************************************************************************)
(* PaymentService.lockIdempotencyKey (internal/service/payment.go): one    *)
(* mutex per idempotency key, kept in a map and counted by its users, so   *)
(* that the last one to leave can delete it.                               *)
(*                                                                         *)
(* A step is what a goroutine does under idempotencyMu, which it releases  *)
(* before it waits for anything, or one operation on an entry's own mutex. *)
(* The danger is between the two: a goroutine counted in but not yet       *)
(* holding, one that has unlocked but is not yet counted out.              *)
(*                                                                         *)
(* An entry the map no longer holds and nobody points to is garbage, and   *)
(* its name is free for the next allocation.                               *)
(***************************************************************************)
EXTENDS Integers, FiniteSets

CONSTANTS
  Caller,  \* the goroutines that lock keys
  Key,     \* the key each of them locks
  Entry,   \* idempotencyLock objects
  None     \* a nil pointer

ASSUME LockAssumption ==
  /\ IsFiniteSet(Caller)
  /\ DOMAIN Key = Caller
  /\ None \notin Entry
  /\ None \notin Caller

Keys == {Key[c] : c \in Caller}

VARIABLES
  entries,  \* idempotencyKeys: the entry of each key, or None
  users,    \* entry.users
  holder,   \* the caller that holds entry.mu, or None
  mine,     \* the entry each caller has captured, or None
  at        \* where each caller is

vars == <<entries, users, holder, mine, at>>

TypeOK ==
  /\ entries \in [Keys -> Entry \cup {None}]
  /\ users   \in [Entry -> Nat]
  /\ holder  \in [Entry -> Caller \cup {None}]
  /\ mine    \in [Caller -> Entry \cup {None}]
  /\ at      \in [Caller -> {"idle", "waiting", "holding", "leaving"}]

Init ==
  /\ entries = [k \in Keys |-> None]
  /\ users   = [e \in Entry |-> 0]
  /\ holder  = [e \in Entry |-> None]
  /\ mine    = [c \in Caller |-> None]
  /\ at      = [c \in Caller |-> "idle"]

Garbage(e) ==
  /\ \A k \in Keys : entries[k] # e
  /\ \A c \in Caller : mine[c] # e

\* Mutant: the caller does not count itself in.
CaptureOnly(c, e) ==
  /\ users' = [users EXCEPT ![e] = IF entries[Key[c]] = None THEN 0 ELSE @]
  /\ entries' = [entries EXCEPT ![Key[c]] = e]
  /\ mine' = [mine EXCEPT ![c] = e]

\* The caller counts itself in, in the entry of its key or in a new one.
CountIn(c, e) ==
  /\ users' = [users EXCEPT ![e] = (IF entries[Key[c]] = None THEN 0 ELSE @) + 1]
  /\ entries' = [entries EXCEPT ![Key[c]] = e]
  /\ mine' = [mine EXCEPT ![c] = e]

Lookup(c) ==
  /\ at[c] = "idle"
  /\ \E e \in Entry :
       /\ IF entries[Key[c]] = None THEN Garbage(e) ELSE e = entries[Key[c]]
       /\ CountIn(c, e)
  /\ at' = [at EXCEPT ![c] = "waiting"]
  /\ UNCHANGED holder

\* Mutant: a shared lock where an exclusive one is needed.
LockEntryShared(c) ==
  /\ at[c] = "waiting"
  /\ holder' = [holder EXCEPT ![mine[c]] = c]
  /\ at' = [at EXCEPT ![c] = "holding"]
  /\ UNCHANGED <<entries, users, mine>>

LockEntry(c) ==
  /\ at[c] = "waiting"
  /\ holder[mine[c]] = None
  /\ holder' = [holder EXCEPT ![mine[c]] = c]
  /\ at' = [at EXCEPT ![c] = "holding"]
  /\ UNCHANGED <<entries, users, mine>>

\* Mutant: a return path that leaves the entry locked.
UnlockForgotten(c) ==
  /\ at[c] = "holding"
  /\ at' = [at EXCEPT ![c] = "leaving"]
  /\ UNCHANGED <<entries, users, holder, mine>>

UnlockEntry(c) ==
  /\ at[c] = "holding"
  /\ holder' = [holder EXCEPT ![mine[c]] = None]
  /\ at' = [at EXCEPT ![c] = "leaving"]
  /\ UNCHANGED <<entries, users, mine>>

\* Mutants: the entry is deleted as soon as one of its users leaves; the count
\* is compared before it is decremented.
AnyUser(e) == TRUE
NoUser(e) == users[e] = 0

LastUser(e) == users[e] = 1

CountOut(c) ==
  /\ at[c] = "leaving"
  /\ users' = [users EXCEPT ![mine[c]] = @ - 1]
  /\ entries' = IF LastUser(mine[c]) THEN [entries EXCEPT ![Key[c]] = None] ELSE entries
  /\ mine' = [mine EXCEPT ![c] = None]
  /\ at' = [at EXCEPT ![c] = "idle"]
  /\ UNCHANGED holder

Step(c) == Lookup(c) \/ LockEntry(c) \/ UnlockEntry(c) \/ CountOut(c)

Next == \E c \in Caller : Step(c)

Spec == Init /\ [][Next]_vars

\* A goroutine that can run does run; sync.Mutex hands itself to a waiter that
\* has waited for a millisecond, so no waiter is passed over for ever; and
\* every workflow under the lock ends.
FairSpec ==
  /\ Spec
  /\ \A c \in Caller :
       SF_vars(LockEntry(c)) /\ WF_vars(UnlockEntry(c)) /\ WF_vars(CountOut(c))

-----------------------------------------------------------------------------
\* Two goroutines in the workflow at once have different keys, although the
\* mutex of a key is deleted and allocated anew between its uses.
OneWorkflowPerKey ==
  \A c, d \in Caller : at[c] = "holding" /\ at[d] = "holding" /\ Key[c] = Key[d] => c = d

\* The map holds the keys in use and no other: it does not grow with the keys
\* ever seen.
MapHoldsKeysInUse ==
  \A k \in Keys : entries[k] # None <=> \E c \in Caller : at[c] # "idle" /\ Key[c] = k

\* Whoever asks for a key gets it.
EveryWaiterEnters == \A c \in Caller : at[c] = "waiting" ~> at[c] = "holding"

\* The promise of KeyMutex: a caller has left once it has unlocked.
Mutex == INSTANCE KeyMutex
           WITH state <- [c \in Caller |-> IF at[c] = "leaving" THEN "idle" ELSE at[c]]

\* The counted map of mutexes is a mutex per key.
ImplementsKeyMutex == Mutex!Spec

=============================================================================
