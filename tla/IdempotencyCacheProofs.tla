------------------------ MODULE IdempotencyCacheProofs ------------------------
(***************************************************************************)
(* Proofs about IdempotencyCache, for any requests, keys, collation and    *)
(* number of resets: every step of the cached Create is a step of the      *)
(* one-table Create of IdempotentCreate or changes nothing of it, and that *)
(* makes the answers of one key agree.                                     *)
(***************************************************************************)
EXTENDS IdempotencyCache, TLAPS

Undecided == {"cache", "verify", "lookup", "insert", "refind"}

\* A request still looking has no payment and no decision; whoever has a
\* payment in the table was told to have created it.
RequestInv ==
  \A r \in Request :
    /\ pc[r] \in Undecided => status[r] = "NONE" /\ decision[r].what = "none"
    /\ status[r] # "NONE" => decision[r].what = "created"

USE DEF Decision, Undecided

\* A reset that is about to empty the table is within the bound.
TypeInv == TypeOK /\ (resetPc = "checked" => resets < MaxResets)

LEMMA TypeInit == Init => TypeInv
  BY CacheAssumption DEF Init, TypeInv, TypeOK, Keys

LEMMA DecideTyped ==
  ASSUME TypeOK, NEW r \in Request, NEW q \in Request,
         NEW what \in {"created", "replayed", "conflict", "error"}, Decide(r, what, q)
  PROVE  /\ decision' \in [Request -> Decision]
         /\ decision'[r] = [what |-> what, payment |-> q, epoch |-> resets]
         /\ \A s \in Request : s # r => decision'[s] = decision[s]
<1>1. resets \in Nat
  BY CacheAssumption DEF TypeOK
<1>2. QED BY <1>1 DEF Decide, TypeOK

LEMMA RepeatTyped ==
  ASSUME TypeOK, NEW r \in Request, NEW q \in Request, NEW from \in Undecided, Repeat(r, from, q)
  PROVE  /\ decision' \in [Request -> Decision]
         /\ pc' \in [Request -> {"cache", "verify", "lookup", "insert", "refind", "begin", "store", "done"}]
         /\ found' \in [Request -> Request \cup {Nobody}]
         /\ found'[r] = q
         /\ \A s \in Request : s # r => pc'[s] = pc[s] /\ found'[s] = found[s]
  BY DecideTyped DEF Repeat, Goto, Find, TypeOK

LEMMA CreateTyped ==
  ASSUME TypeOK, NEW r \in Request, Create(r)
  PROVE  TypeOK'
<1> USE DEF rowVars, clearVars, Goto, Find
<1>1. CASE GetIdempotency(r)
  BY <1>1 DEF GetIdempotency, Hit, TypeOK, Keys
<1>2. CASE VerifyCachedIdempotency(r)
  <2>1. decision' \in [Request -> Decision]
    BY <1>2, DecideTyped DEF VerifyCachedIdempotency, TypeOK
  <2>2. QED BY <1>2, <2>1 DEF VerifyCachedIdempotency, TypeOK
<1>3. CASE FindByIdempotencyKey(r)
  <2>1. CASE \E q \in Request : Repeat(r, "lookup", q)
    <3>1. PICK q \in Request : Repeat(r, "lookup", q)
      BY <2>1
    <3>2. QED BY <1>3, <3>1, RepeatTyped DEF FindByIdempotencyKey, TypeOK
  <2>2. CASE ~\E q \in Request : Repeat(r, "lookup", q)
    BY <1>3, <2>2 DEF FindByIdempotencyKey, TypeOK
  <2>3. QED BY <2>1, <2>2
<1>4. CASE CreatePayment(r)
  <2>1. decision' \in [Request -> Decision]
    BY <1>4, DecideTyped DEF CreatePayment, TypeOK
  <2>2. QED BY <1>4, <2>1 DEF CreatePayment, TypeOK
<1>5. CASE AdoptWinner(r)
  <2>1. CASE \E q \in Request : Repeat(r, "refind", q)
    <3>1. PICK q \in Request : Repeat(r, "refind", q)
      BY <2>1
    <3>2. QED BY <1>5, <3>1, RepeatTyped DEF AdoptWinner, TypeOK
  <2>2. CASE ~\E q \in Request : Repeat(r, "refind", q)
    <3>1. decision' \in [Request -> Decision]
      BY <1>5, <2>2, DecideTyped DEF AdoptWinner
    <3>2. QED BY <1>5, <2>2, <3>1 DEF AdoptWinner, TypeOK
  <2>3. QED BY <2>1, <2>2
<1>6. CASE BeginTCC(r)
  BY <1>6 DEF BeginTCC, TypeOK
<1>7. CASE SetIdempotency(r)
  <2>1. found[r] \in Request
    BY <1>7 DEF SetIdempotency, TypeOK
  <2>2. QED BY <1>7, <2>1 DEF SetIdempotency, TypeOK
<1>8. CASE Stop(r)
  <2>1. decision' \in [Request -> Decision]
    BY <1>8, DecideTyped DEF Stop, TypeOK
  <2>2. QED BY <1>8, <2>1 DEF Stop, TypeOK
<1>9. QED
  BY <1>1, <1>2, <1>3, <1>4, <1>5, <1>6, <1>7, <1>8 DEF Create

LEMMA TypeStep == TypeInv /\ [Next]_vars => TypeInv'
<1> SUFFICES ASSUME TypeInv, [Next]_vars PROVE TypeInv'
  OBVIOUS
<1> USE DEF TypeInv, rowVars, clearVars, ResetMoves
<1>1. ASSUME NEW r \in Request, Create(r) PROVE TypeInv'
  <2>1. UNCHANGED <<resetPc, resets>>
    BY <1>1
    DEF Create, GetIdempotency, VerifyCachedIdempotency, FindByIdempotencyKey, CreatePayment,
        AdoptWinner, BeginTCC, SetIdempotency, Stop
  <2>2. QED BY <1>1, <2>1, CreateTyped
<1>2. ASSUME NEW r \in Request, Finalize(r) PROVE TypeInv'
  BY <1>2 DEF Finalize, TypeOK
<1>3. ASSUME NEW k \in Keys, Drop(k) PROVE TypeInv'
  BY <1>3 DEF Drop, TypeOK
<1>4. ASSUME EnsureNoActiveTransactions PROVE TypeInv'
  BY <1>4 DEF EnsureNoActiveTransactions, TypeOK
<1>5. ASSUME ResetRows PROVE TypeInv'
  <2>1. resets' \in 0..MaxResets
    BY <1>5, CacheAssumption DEF ResetRows, TypeOK
  <2>2. QED BY <1>5, <2>1 DEF ResetRows, TypeOK
<1>6. ASSUME Scan PROVE TypeInv'
  BY <1>6 DEF Scan, TypeOK
<1>7. ASSUME Del PROVE TypeInv'
  BY <1>7 DEF Del, TypeOK
<1>8. ASSUME ClearEnds PROVE TypeInv'
  BY <1>8 DEF ClearEnds, TypeOK
<1>9. ASSUME UNCHANGED vars PROVE TypeInv'
  BY <1>9 DEF vars, TypeOK
<1>10. QED
  BY <1>1, <1>2, <1>3, <1>4, <1>5, <1>6, <1>7, <1>8, <1>9 DEF Next

\* Every variable keeps to its type, and a request about to verify or to
\* store has read a payment, never the empty record of a miss.
THEOREM CacheTyped == Spec => []TypeOK
<1>1. Spec => []TypeInv
  BY TypeInit, TypeStep, PTL DEF Spec
<1>2. TypeInv => TypeOK
  BY DEF TypeInv
<1>3. QED BY <1>1, <1>2, PTL

-----------------------------------------------------------------------------
(* Refinement.                                                             *)

IInv == TypeInv /\ RequestInv

LEMMA InvInit == Init => IInv
  BY TypeInit DEF Init, IInv, RequestInv

LEMMA InvStep == IInv /\ [Next]_vars => IInv'
<1> SUFFICES ASSUME IInv, [Next]_vars PROVE RequestInv'
  BY TypeStep DEF IInv
<1> USE DEF IInv, TypeInv, RequestInv, rowVars, clearVars, Goto, ResetMoves
<1>1. ASSUME NEW r \in Request, Create(r) PROVE RequestInv'
  <2>1. CASE GetIdempotency(r)
    BY <2>1 DEF GetIdempotency, TypeOK
  <2>2. CASE VerifyCachedIdempotency(r)
    BY <2>2 DEF VerifyCachedIdempotency, Decide, TypeOK
  <2>3. CASE FindByIdempotencyKey(r)
    BY <2>3 DEF FindByIdempotencyKey, Repeat, Decide, TypeOK
  <2>4. CASE CreatePayment(r)
    BY <2>4 DEF CreatePayment, Decide, TypeOK
  <2>5. CASE AdoptWinner(r)
    BY <2>5 DEF AdoptWinner, Repeat, Decide, TypeOK
  <2>6. CASE BeginTCC(r)
    BY <2>6 DEF BeginTCC, TypeOK
  <2>7. CASE SetIdempotency(r)
    BY <2>7 DEF SetIdempotency, TypeOK
  <2>8. CASE Stop(r)
    BY <2>8 DEF Stop, Decide, TypeOK
  <2>9. QED
    BY <1>1, <2>1, <2>2, <2>3, <2>4, <2>5, <2>6, <2>7, <2>8 DEF Create
<1>2. ASSUME NEW r \in Request, Finalize(r) PROVE RequestInv'
  BY <1>2 DEF Finalize, TypeOK
<1>3. ASSUME ResetRows PROVE RequestInv'
  BY <1>3 DEF ResetRows
<1>4. CASE \/ \E k \in Keys : Drop(k)
           \/ EnsureNoActiveTransactions \/ Scan \/ Del \/ ClearEnds \/ UNCHANGED vars
  BY <1>4 DEF Drop, EnsureNoActiveTransactions, Scan, Del, ClearEnds, vars
<1>5. QED
  BY <1>1, <1>2, <1>3, <1>4 DEF Next

LEMMA Invariant == Spec => []IInv
  BY InvInit, InvStep, PTL DEF Spec

\* The rows, decisions and resets are all the abstract specification sees.
LEMMA Unseen ==
  (Rows' = Rows /\ UNCHANGED <<decision, resets>>) => UNCHANGED Promise!vars
  BY DEF Promise!vars

LEMMA RepeatRefines ==
  ASSUME IInv, NEW r \in Request, NEW q \in Request, NEW from \in Undecided, Repeat(r, from, q),
         UNCHANGED rowVars
  PROVE  Promise!Next
<1>1. decision[r].what = "none"
  BY DEF Repeat, Goto, IInv, RequestInv
<1>2. q \in Rows /\ Fold[Key[q]] = Fold[Key[r]] /\ Rows' = Rows /\ resets' = resets
  BY DEF Repeat, SameKey, rowVars, Rows
<1>3. Promise!Decide(r, IF Fingerprint[q] = Fingerprint[r] THEN "replayed" ELSE "conflict", q)
  BY <1>1 DEF Repeat, Decide, Promise!Decide
<1>4. Promise!Repeat(r)
  BY <1>2, <1>3 DEF Promise!Repeat, Rows
<1>5. QED BY <1>4 DEF Promise!Next

LEMMA CreateRefines ==
  ASSUME IInv, NEW r \in Request, Create(r)
  PROVE  [Promise!Next]_Promise!vars
<1> USE DEF IInv, TypeInv, RequestInv, rowVars, Goto
<1>1. UNCHANGED status => Rows' = Rows
  BY DEF Rows
<1>2. CASE GetIdempotency(r)
  BY <1>1, <1>2, Unseen DEF GetIdempotency
<1>3. CASE VerifyCachedIdempotency(r)
  <2>1. CASE UNCHANGED decision
    BY <1>1, <1>3, <2>1, Unseen DEF VerifyCachedIdempotency
  <2>2. CASE Verified(r, found[r]) /\ Decide(r, "replayed", found[r])
    <3>1. decision[r].what = "none" /\ found[r] \in Rows
      BY <1>3, <2>2 DEF VerifyCachedIdempotency, Verified
    <3>2. Promise!Decide(r, IF Fingerprint[found[r]] = Fingerprint[r] THEN "replayed" ELSE "conflict", found[r])
      BY <2>2, <3>1 DEF Verified, Decide, Promise!Decide
    <3>3. Promise!Repeat(r)
      BY <1>1, <1>3, <2>2, <3>1, <3>2 DEF VerifyCachedIdempotency, Verified, SameKey, Rows, Promise!Repeat
    <3>4. QED BY <3>3 DEF Promise!Next
  <2>3. QED BY <1>3, <2>1, <2>2 DEF VerifyCachedIdempotency
<1>4. CASE FindByIdempotencyKey(r)
  BY <1>1, <1>4, Unseen, RepeatRefines DEF FindByIdempotencyKey
<1>5. CASE CreatePayment(r)
  <2>1. CASE UNCHANGED <<status, decision>>
    BY <1>1, <1>5, <2>1, Unseen DEF CreatePayment
  <2>2. CASE NoRow(r) /\ Goto(r, "insert", "begin") /\ status' = [status EXCEPT ![r] = "INIT"] /\ Decide(r, "created", r)
    <3>1. Rows' = Rows \cup {r}
      BY <2>2 DEF Rows, TypeOK
    <3>2. Promise!Decide(r, "created", r)
      BY <2>2 DEF Decide, Promise!Decide
    <3>3. \A q \in Rows : Fold[Key[q]] # Fold[Key[r]]
      BY <2>2 DEF NoRow, SameKey
    <3>4. Promise!Create(r)
      BY <1>5, <3>1, <3>2, <3>3 DEF CreatePayment, Promise!Create, Rows
    <3>5. QED BY <3>4 DEF Promise!Next
  <2>3. QED BY <1>5, <2>1, <2>2 DEF CreatePayment
<1>6. CASE AdoptWinner(r)
  <2>1. CASE \E q \in Request : Repeat(r, "refind", q)
    BY <1>6, <2>1, RepeatRefines DEF AdoptWinner
  <2>2. CASE Goto(r, "refind", "done") /\ Decide(r, "error", r)
    <3>1. Promise!Fail(r)
      BY <1>1, <1>6, <2>2 DEF AdoptWinner, Decide, Promise!Decide, Promise!Fail
    <3>2. QED BY <3>1 DEF Promise!Next
  <2>3. QED BY <1>6, <2>1, <2>2 DEF AdoptWinner
<1>7. CASE BeginTCC(r)
  <2>1. Rows' = Rows
    BY <1>7 DEF BeginTCC, Rows, TypeOK
  <2>2. QED BY <1>7, <2>1, Unseen DEF BeginTCC
<1>8. CASE SetIdempotency(r)
  BY <1>1, <1>8, Unseen DEF SetIdempotency
<1>9. CASE Stop(r)
  <2>1. CASE decision[r].what = "none"
    <3>1. Promise!Fail(r)
      BY <1>1, <1>9, <2>1 DEF Stop, Decide, Promise!Decide, Promise!Fail
    <3>2. QED BY <3>1 DEF Promise!Next
  <2>2. CASE decision[r].what # "none"
    BY <1>1, <1>9, <2>2, Unseen DEF Stop
  <2>3. QED BY <2>1, <2>2
<1>10. QED
  BY <1>2, <1>3, <1>4, <1>5, <1>6, <1>7, <1>8, <1>9 DEF Create

LEMMA StepRefines == IInv /\ [Next]_vars => [Promise!Next]_Promise!vars
<1> SUFFICES ASSUME IInv, [Next]_vars PROVE [Promise!Next]_Promise!vars
  OBVIOUS
<1> USE DEF rowVars, clearVars, ResetMoves
<1>1. UNCHANGED status => Rows' = Rows
  BY DEF Rows
<1>2. ASSUME NEW r \in Request, Finalize(r) PROVE [Promise!Next]_Promise!vars
  <2>1. Rows' = Rows
    BY <1>2 DEF Finalize, Rows, IInv, TypeInv, TypeOK
  <2>2. QED BY <1>2, <2>1, Unseen DEF Finalize
<1>3. ASSUME ResetRows PROVE [Promise!Next]_Promise!vars
  <2>1. Rows' = {}
    BY <1>3 DEF ResetRows, Rows
  <2>2. Promise!Reset
    BY <1>3, <2>1 DEF ResetRows, Promise!Reset
  <2>3. QED BY <2>2 DEF Promise!Next
<1>4. CASE \/ \E k \in Keys : Drop(k)
           \/ EnsureNoActiveTransactions \/ Scan \/ Del \/ ClearEnds \/ UNCHANGED vars
  BY <1>1, <1>4, Unseen DEF Drop, EnsureNoActiveTransactions, Scan, Del, ClearEnds, vars
<1>5. QED
  BY <1>2, <1>3, <1>4, CreateRefines DEF Next

\* Redis, with its losses and its late and stale entries, and the lookup and
\* insert in two statements implement a single table that decides at once.
THEOREM RefinesIdempotentCreate == Spec => ImplementsIdempotentCreate
<1>1. Init => Promise!Init
  BY DEF Init, Rows, Promise!Init, Promise!Undecided
<1>2. QED
  BY <1>1, StepRefines, Invariant, PTL DEF Spec, ImplementsIdempotentCreate, Promise!Spec

-----------------------------------------------------------------------------
(* Consequences of the abstract specification.                             *)

\* The payment a request was decided on has its key, and while no reset has
\* come is the only one in the table with that key.
DecisionInv ==
  /\ \A q, s \in Rows : SameKey(q, s) => q = s
  /\ \A r \in Request : Promise!DecidedOn(r) =>
       /\ SameKey(r, decision[r].payment)
       /\ decision[r].epoch <= resets
       /\ decision[r].epoch = resets => decision[r].payment \in Rows
       /\ decision[r].what = "created" <=> decision[r].payment = r
       /\ decision[r].what = "conflict" <=> Fingerprint[decision[r].payment] # Fingerprint[r]

AgreeInv == DecisionInv /\ AnswersAgree

\* What a step of the abstract specification does to decisions and rows.
LEMMA DecideEffect ==
  ASSUME TypeOK, NEW r \in Request, NEW what, NEW q \in Request, Promise!Decide(r, what, q)
  PROVE  /\ decision[r].what = "none"
         /\ decision'[r].what = what /\ decision'[r].payment = q /\ decision'[r].epoch = resets
         /\ \A s \in Request : s # r => decision'[s] = decision[s]
  BY DEF Promise!Decide, TypeOK

LEMMA AgreeInit == Init => AgreeInv
  BY DEF Init, AgreeInv, DecisionInv, AnswersAgree, Promise!AnswersAgree, Promise!DecidedOn, Rows

LEMMA AgreeStep == IInv /\ AgreeInv /\ [Promise!Next]_Promise!vars => AgreeInv'
<1> SUFFICES ASSUME IInv, AgreeInv, [Promise!Next]_Promise!vars PROVE AgreeInv'
  OBVIOUS
<1> USE DEF AgreeInv, DecisionInv, AnswersAgree, Promise!AnswersAgree, Promise!DecidedOn, SameKey
<1>1. TypeOK /\ resets \in Nat /\ Rows \subseteq Request
  BY CacheAssumption DEF IInv, TypeInv, TypeOK, Rows
<1>2. \A r \in Request : decision[r].what = "none" => r \notin Rows
  BY DEF IInv, RequestInv, Rows
<1>3. ASSUME NEW r \in Request, Promise!Create(r) PROVE AgreeInv'
  <2>1. /\ \A q \in Rows : Fold[Key[q]] # Fold[Key[r]]
        /\ Rows' = Rows \cup {r} /\ resets' = resets /\ Promise!Decide(r, "created", r)
    BY <1>1, <1>3 DEF Promise!Create
  <2>2. /\ decision'[r].what = "created" /\ decision'[r].payment = r /\ decision'[r].epoch = resets
        /\ \A s \in Request : s # r => decision'[s] = decision[s]
    BY <1>1, <2>1, DecideEffect
  <2>3. DecisionInv'
    BY <1>1, <2>1, <2>2
  <2>4. AnswersAgree'
    BY <1>1, <2>1, <2>2
  <2>5. QED BY <2>3, <2>4
<1>4. ASSUME NEW r \in Request, Promise!Repeat(r) PROVE AgreeInv'
  <2>1. PICK q \in Rows :
          /\ Fold[Key[q]] = Fold[Key[r]]
          /\ Promise!Decide(r, IF Fingerprint[q] = Fingerprint[r] THEN "replayed" ELSE "conflict", q)
    BY <1>1, <1>4 DEF Promise!Repeat
  <2>2. /\ decision[r].what = "none"
        /\ decision'[r].what = IF Fingerprint[q] = Fingerprint[r] THEN "replayed" ELSE "conflict"
        /\ decision'[r].payment = q /\ decision'[r].epoch = resets
        /\ \A s \in Request : s # r => decision'[s] = decision[s]
    BY <1>1, <2>1, DecideEffect
  <2>3. q # r
    BY <1>2, <2>2
  <2>4. Rows' = Rows /\ resets' = resets
    BY <1>4 DEF Promise!Repeat
  <2>5. DecisionInv'
    BY <1>1, <2>1, <2>2, <2>3, <2>4
  <2>6. AnswersAgree'
    BY <1>1, <2>1, <2>2, <2>3, <2>4
  <2>7. QED BY <2>5, <2>6
<1>5. ASSUME NEW r \in Request, Promise!Fail(r) PROVE AgreeInv'
  <2>1. /\ decision'[r].what = "error"
        /\ \A s \in Request : s # r => decision'[s] = decision[s]
    BY <1>1, <1>5, DecideEffect DEF Promise!Fail
  <2>2. Rows' = Rows /\ resets' = resets
    BY <1>5 DEF Promise!Fail
  <2>3. QED BY <2>1, <2>2
<1>6. ASSUME Promise!Reset PROVE AgreeInv'
  <2>1. Rows' = {} /\ resets' = resets + 1 /\ decision' = decision
    BY <1>6 DEF Promise!Reset
  <2>2. \A r \in Request : Promise!DecidedOn(r) => decision[r].epoch < resets'
    BY <1>1, <2>1 DEF TypeOK
  <2>3. \A r \in Request : decision[r].epoch \in Nat
    BY <1>1 DEF TypeOK
  <2>4. resets' \in Nat
    BY <1>1, <2>1
  <2>5. DecisionInv'
    BY <2>1, <2>2, <2>3, <2>4
  <2>6. AnswersAgree'
    BY <2>1
  <2>7. QED BY <2>5, <2>6
<1>7. ASSUME UNCHANGED Promise!vars PROVE AgreeInv'
  BY <1>7 DEF Promise!vars
<1>8. QED
  BY <1>3, <1>4, <1>5, <1>6, <1>7 DEF Promise!Next

\* Between two resets all requests of a key, as MySQL compares keys, are
\* decided on one payment, whatever the cache holds.
THEOREM AnswersAlwaysAgree == Spec => []AnswersAgree
<1>1. IInv /\ AgreeInv /\ [Next]_vars => (IInv /\ AgreeInv)'
  BY InvStep, StepRefines, AgreeStep
<1>2. AgreeInv => AnswersAgree
  BY DEF AgreeInv
<1>3. QED BY <1>1, <1>2, InvInit, AgreeInit, PTL DEF Spec

=============================================================================
