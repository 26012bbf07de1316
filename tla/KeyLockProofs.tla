----------------------------- MODULE KeyLockProofs -----------------------------
(***************************************************************************)
(* Proofs about KeyLock for any number of goroutines, keys and entries.    *)
(*                                                                         *)
(* The argument: the count of an entry is the number of goroutines that    *)
(* point to it, so an entry somebody points to is never deleted, so all    *)
(* users of a key point to the same entry and its mutex keeps them apart.  *)
(***************************************************************************)
EXTENDS KeyLock, FiniteSetTheorems, TLAPS

Users(e) == {c \in Caller : mine[c] = e}

CountInv == \A e \in Entry : users[e] = Cardinality(Users(e))

\* Who is not idle points to the entry the map holds for its key.
PointerInv ==
  /\ \A c \in Caller : at[c] = "idle" <=> mine[c] = None
  /\ \A c \in Caller : at[c] # "idle" => entries[Key[c]] = mine[c]
  /\ \A k, l \in Keys : entries[k] = entries[l] /\ entries[k] # None => k = l
  /\ \A k \in Keys : entries[k] # None => \E c \in Caller : at[c] # "idle" /\ Key[c] = k

HolderInv ==
  \A c \in Caller, e \in Entry : holder[e] = c <=> at[c] = "holding" /\ mine[c] = e

IInv == TypeOK /\ CountInv /\ PointerInv /\ HolderInv

LEMMA UsersFinite ==
  ASSUME NEW e PROVE IsFiniteSet(Users(e))
  BY LockAssumption, FS_Subset DEF Users

LEMMA InitInv == Init => IInv
<1> SUFFICES ASSUME Init PROVE IInv
  OBVIOUS
<1> USE LockAssumption DEF Init
<1>1. TypeOK
  BY DEF TypeOK
<1>2. CountInv
  <2>1. \A e \in Entry : Users(e) = {}
    BY DEF Users
  <2>2. QED BY <2>1, FS_EmptySet DEF CountInv
<1>3. PointerInv
  BY DEF PointerInv
<1>4. HolderInv
  BY DEF HolderInv
<1>5. QED BY <1>1, <1>2, <1>3, <1>4 DEF IInv

\* The count of an entry changes with the goroutines that point to it.
LEMMA CountGrows ==
  ASSUME TypeOK, CountInv, NEW c \in Caller, NEW e \in Entry, mine[c] = None,
         mine' = [mine EXCEPT ![c] = e], users' = [users EXCEPT ![e] = @ + 1]
  PROVE  CountInv'
<1> USE LockAssumption DEF TypeOK
<1>1. Users(e)' = Users(e) \cup {c} /\ c \notin Users(e)
  BY DEF Users
<1>2. Cardinality(Users(e)') = Cardinality(Users(e)) + 1
  BY <1>1, UsersFinite, FS_AddElement
<1>3. \A f \in Entry : f # e => Users(f)' = Users(f)
  BY DEF Users
<1>4. ASSUME NEW f \in Entry PROVE users'[f] = Cardinality(Users(f)')
  BY <1>2, <1>3 DEF CountInv
<1>5. QED BY <1>4 DEF CountInv

LEMMA CountShrinks ==
  ASSUME TypeOK, CountInv, NEW c \in Caller, mine[c] \in Entry,
         mine' = [mine EXCEPT ![c] = None], users' = [users EXCEPT ![mine[c]] = @ - 1]
  PROVE  /\ CountInv' /\ users' \in [Entry -> Nat]
         /\ users[mine[c]] = 1 => \A d \in Caller : mine[d] = mine[c] => d = c
         /\ users[mine[c]] # 1 => \E d \in Caller : mine[d] = mine[c] /\ d # c
<1> USE LockAssumption DEF TypeOK
<1>1. PICK e \in Entry : e = mine[c]
  OBVIOUS
<1>2. Users(e)' = Users(e) \ {c} /\ c \in Users(e)
  BY <1>1 DEF Users
<1>3. Cardinality(Users(e)') = Cardinality(Users(e)) - 1 /\ IsFiniteSet(Users(e)')
  BY <1>2, UsersFinite, FS_RemoveElement
<1>4. Cardinality(Users(e)') \in Nat
  BY <1>3, FS_CardinalityType
<1>5. \A f \in Entry : f # e => Users(f)' = Users(f)
  BY <1>1 DEF Users
<1>6. ASSUME NEW f \in Entry PROVE users'[f] = Cardinality(Users(f)') /\ users'[f] \in Nat
  BY <1>1, <1>3, <1>4, <1>5 DEF CountInv
<1>7. users[e] = 1 <=> Users(e)' = {}
  BY <1>3, <1>4, FS_EmptySet DEF CountInv
<1>8. CountInv'
  BY <1>6 DEF CountInv
<1>9. users' \in [Entry -> Nat]
  BY <1>6
<1>10. users[e] = 1 => \A d \in Caller : mine[d] = e => d = c
  BY <1>2, <1>7 DEF Users
<1>11. users[e] # 1 => \E d \in Caller : mine[d] = e /\ d # c
  BY <1>2, <1>7 DEF Users
<1>12. QED BY <1>1, <1>8, <1>9, <1>10, <1>11

LEMMA CountKept ==
  ASSUME CountInv, UNCHANGED <<users, mine>> PROVE CountInv'
<1>1. \A e \in Entry : Users(e)' = Users(e)
  BY DEF Users
<1>2. QED BY <1>1 DEF CountInv

LEMMA InvStep == IInv /\ [Next]_vars => IInv'
<1> SUFFICES ASSUME IInv, [Next]_vars PROVE IInv'
  OBVIOUS
<1> USE LockAssumption DEF IInv
<1>1. ASSUME NEW c \in Caller, Lookup(c) PROVE IInv'
  <2>1. PICK e \in Entry :
          /\ IF entries[Key[c]] = None THEN Garbage(e) ELSE e = entries[Key[c]]
          /\ CountIn(c, e)
    BY <1>1 DEF Lookup
  <2>2. /\ at[c] = "idle" /\ mine[c] = None /\ Key[c] \in Keys
        /\ at' = [at EXCEPT ![c] = "waiting"] /\ holder' = holder
        /\ entries' = [entries EXCEPT ![Key[c]] = e] /\ mine' = [mine EXCEPT ![c] = e]
    BY <1>1, <2>1 DEF Lookup, CountIn, PointerInv, Keys
  <2>3. entries[Key[c]] = None => users[e] = 0
    <3>1. entries[Key[c]] = None => Users(e) = {}
      BY <2>1 DEF Garbage, Users
    <3>2. QED BY <3>1, FS_EmptySet DEF CountInv
  <2>4. users' = [users EXCEPT ![e] = @ + 1]
    BY <2>1, <2>3 DEF CountIn
  <2>5. CountInv'
    BY <2>2, <2>4, CountGrows
  <2>6. TypeOK'
    BY <2>2, <2>4 DEF TypeOK
  <2>7. PointerInv'
    <3>1. \A k \in Keys : k # Key[c] => entries[k] # e
      BY <2>1, <2>2 DEF Garbage, PointerInv
    <3>2. \A k, l \in Keys : entries'[k] = entries'[l] /\ entries'[k] # None => k = l
      BY <2>2, <3>1 DEF PointerInv, TypeOK
    <3>3. \A d \in Caller : at'[d] = "idle" <=> mine'[d] = None
      BY <2>2 DEF PointerInv, TypeOK
    <3>4. \A d \in Caller : at'[d] # "idle" => entries'[Key[d]] = mine'[d]
      <4>1. ASSUME NEW d \in Caller, d # c, at[d] # "idle", Key[d] = Key[c] PROVE mine[d] = e
        BY <2>1, <4>1 DEF PointerInv, TypeOK
      <4>2. QED BY <2>2, <4>1 DEF PointerInv, TypeOK, Keys
    <3>5. \A k \in Keys : entries'[k] # None => \E d \in Caller : at'[d] # "idle" /\ Key[d] = k
      BY <2>2 DEF PointerInv, TypeOK
    <3>6. QED BY <3>2, <3>3, <3>4, <3>5 DEF PointerInv
  <2>8. HolderInv'
    BY <2>2 DEF HolderInv, TypeOK
  <2>9. QED BY <2>5, <2>6, <2>7, <2>8
<1>2. ASSUME NEW c \in Caller, LockEntry(c) PROVE IInv'
  <2>1. mine[c] \in Entry
    BY <1>2 DEF LockEntry, PointerInv, TypeOK
  <2>2. TypeOK' /\ CountInv'
    BY <1>2, CountKept DEF LockEntry, TypeOK
  <2>3. PointerInv'
    BY <1>2 DEF LockEntry, PointerInv, TypeOK
  <2>4. HolderInv'
    BY <1>2, <2>1 DEF LockEntry, HolderInv, TypeOK
  <2>5. QED BY <2>2, <2>3, <2>4
<1>3. ASSUME NEW c \in Caller, UnlockEntry(c) PROVE IInv'
  <2>1. mine[c] \in Entry
    BY <1>3 DEF UnlockEntry, PointerInv, TypeOK
  <2>2. TypeOK' /\ CountInv'
    BY <1>3, CountKept DEF UnlockEntry, TypeOK
  <2>3. PointerInv'
    BY <1>3 DEF UnlockEntry, PointerInv, TypeOK
  <2>4. HolderInv'
    BY <1>3, <2>1 DEF UnlockEntry, HolderInv, TypeOK
  <2>5. QED BY <2>2, <2>3, <2>4
<1>4. ASSUME NEW c \in Caller, CountOut(c) PROVE IInv'
  <2>1. /\ at[c] = "leaving" /\ mine[c] \in Entry /\ entries[Key[c]] = mine[c] /\ Key[c] \in Keys
        /\ at' = [at EXCEPT ![c] = "idle"] /\ mine' = [mine EXCEPT ![c] = None] /\ holder' = holder
        /\ users' = [users EXCEPT ![mine[c]] = @ - 1]
    BY <1>4 DEF CountOut, PointerInv, TypeOK, Keys
  <2>2. /\ CountInv' /\ users' \in [Entry -> Nat]
        /\ users[mine[c]] = 1 => \A d \in Caller : mine[d] = mine[c] => d = c
        /\ users[mine[c]] # 1 => \E d \in Caller : mine[d] = mine[c] /\ d # c
    BY <2>1, CountShrinks
  <2>3. entries' = IF users[mine[c]] = 1 THEN [entries EXCEPT ![Key[c]] = None] ELSE entries
    BY <1>4 DEF CountOut, LastUser
  <2>4. TypeOK'
    BY <2>1, <2>2, <2>3 DEF TypeOK
  <2>5. PointerInv'
    <3>1. \A k, l \in Keys : entries'[k] = entries'[l] /\ entries'[k] # None => k = l
      BY <2>1, <2>3 DEF PointerInv, TypeOK
    <3>2. \A d \in Caller : at'[d] = "idle" <=> mine'[d] = None
      BY <2>1 DEF PointerInv, TypeOK
    <3>3. \A d \in Caller : at'[d] # "idle" => entries'[Key[d]] = mine'[d]
      <4>1. ASSUME NEW d \in Caller, d # c, at[d] # "idle", users[mine[c]] = 1 PROVE Key[d] # Key[c]
        BY <2>1, <2>2, <4>1 DEF PointerInv
      <4>2. QED BY <2>1, <2>3, <4>1 DEF PointerInv, TypeOK, Keys
    <3>4. ASSUME NEW k \in Keys, entries'[k] # None
          PROVE  \E d \in Caller : at'[d] # "idle" /\ Key[d] = k
      <4>1. entries[k] # None
        BY <2>1, <2>3, <3>4 DEF TypeOK
      <4>2. CASE k # Key[c]
        <5>1. PICK d \in Caller : at[d] # "idle" /\ Key[d] = k
          BY <4>1 DEF PointerInv
        <5>2. QED BY <2>1, <4>2, <5>1 DEF TypeOK
      <4>3. CASE k = Key[c]
        <5>1. users[mine[c]] # 1
          BY <2>1, <2>3, <3>4, <4>3 DEF TypeOK
        <5>2. PICK d \in Caller : mine[d] = mine[c] /\ d # c
          BY <2>2, <5>1
        <5>3. at[d] # "idle" /\ entries[Key[d]] = mine[c] /\ Key[d] \in Keys
          BY <2>1, <5>2 DEF PointerInv, Keys
        <5>4. Key[d] = k
          BY <2>1, <4>1, <4>3, <5>3 DEF PointerInv
        <5>5. QED BY <2>1, <5>2, <5>3, <5>4 DEF TypeOK
      <4>4. QED BY <4>2, <4>3
    <3>5. QED BY <3>1, <3>2, <3>3, <3>4 DEF PointerInv
  <2>6. HolderInv'
    BY <2>1 DEF HolderInv, TypeOK
  <2>7. QED BY <2>2, <2>4, <2>5, <2>6
<1>5. ASSUME UNCHANGED vars PROVE IInv'
  BY <1>5, CountKept DEF vars, TypeOK, PointerInv, HolderInv
<1>6. QED BY <1>1, <1>2, <1>3, <1>4, <1>5 DEF Next, Step

LEMMA Invariant == Spec => []IInv
  BY InitInv, InvStep, PTL DEF Spec

\* The map, the counts and the mutexes keep their types: in particular no
\* count goes below zero.
THEOREM TypeCorrect == Spec => []TypeOK
<1>1. IInv => TypeOK
  BY DEF IInv
<1>2. QED BY <1>1, Invariant, PTL

\* At most one goroutine per key is in the workflow.
THEOREM MutualExclusion == Spec => []OneWorkflowPerKey
<1>1. IInv => OneWorkflowPerKey
  BY LockAssumption DEF IInv, OneWorkflowPerKey, PointerInv, HolderInv, TypeOK, Keys
<1>2. QED BY <1>1, Invariant, PTL

\* Deleting an entry with its last user keeps the map to the keys in use.
THEOREM NoEntryLeaks == Spec => []MapHoldsKeysInUse
<1>1. IInv => MapHoldsKeysInUse
  BY DEF IInv, MapHoldsKeysInUse, PointerInv
<1>2. QED BY <1>1, Invariant, PTL

\* The counted map of mutexes implements one mutex per key.
THEOREM RefinesKeyMutex == Spec => ImplementsKeyMutex
<1> DEFINE state == [c \in Caller |-> IF at[c] = "leaving" THEN "idle" ELSE at[c]]
<1> USE DEF Mutex!Move
<1>1. Init => Mutex!Init
  BY DEF Init, Mutex!Init
<1>2. IInv /\ [Next]_vars => [Mutex!Next]_state
  <2> SUFFICES ASSUME IInv, [Next]_vars PROVE [Mutex!Next]_state
    OBVIOUS
  <2> USE LockAssumption DEF IInv, TypeOK
  <2>1. ASSUME NEW c \in Caller, Lookup(c) PROVE Mutex!Ask(c)
    BY <2>1 DEF Lookup, Mutex!Ask
  <2>2. ASSUME NEW c \in Caller, LockEntry(c) PROVE Mutex!Enter(c)
    <3>1. Mutex!Free(c)
      BY <2>2 DEF LockEntry, Mutex!Free, PointerInv, HolderInv, Keys
    <3>2. QED BY <2>2, <3>1 DEF LockEntry, Mutex!Enter
  <2>3. ASSUME NEW c \in Caller, UnlockEntry(c) PROVE Mutex!Leave(c)
    BY <2>3 DEF UnlockEntry, Mutex!Leave
  <2>4. ASSUME NEW c \in Caller, CountOut(c) PROVE UNCHANGED state
    BY <2>4 DEF CountOut
  <2>5. ASSUME UNCHANGED vars PROVE UNCHANGED state
    BY <2>5 DEF vars
  <2>6. QED BY <2>1, <2>2, <2>3, <2>4, <2>5 DEF Next, Step, Mutex!Next
<1>3. QED BY <1>1, <1>2, Invariant, PTL DEF Spec, ImplementsKeyMutex, Mutex!Spec

=============================================================================
