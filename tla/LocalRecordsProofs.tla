--------------------------- MODULE LocalRecordsProofs ---------------------------
(***************************************************************************)
(* What the memory mode keeps on record: that its balances, reservations   *)
(* and ledger always add up, and that the journal of a payment tells how   *)
(* it came to its status.                                                  *)
(***************************************************************************)
EXTENDS LocalPaymentProofs, SumTheorems

-----------------------------------------------------------------------------
(* Funds.                                                                  *)

Holding == {p \in Payment : reservation[p] = "FROZEN"}

Debits  == [i \in DOMAIN ledger |-> Amount[ledger[i]]]
Debited == SumFunctionOnSet(Debits, DOMAIN ledger)

\* However many payments there are, finitely many hold funds at a time.
FundsInv == IsFiniteSet(Holding) /\ FundsConserved

LEMMA FundsSums ==
  /\ FundsConserved <=>
       /\ balance.available >= 0
       /\ balance.frozen = SumFunctionOnSet(Amount, Holding)
       /\ balance.available + balance.frozen + Debited = InitialBalance
  BY DEF FundsConserved, Total, Holding, Debited, Debits

LEMMA DebitedTyped ==
  ASSUME StoreTypeOK
  PROVE  Debited \in Int /\ IsFiniteSet(DOMAIN ledger) /\ \A i \in DOMAIN ledger : Debits[i] \in Int
<1>1. DOMAIN ledger = 1..Len(ledger) /\ Len(ledger) \in Nat /\ \A i \in DOMAIN ledger : ledger[i] \in Payment
  BY DEF StoreTypeOK
<1>2. IsFiniteSet(DOMAIN ledger)
  BY <1>1, FS_Interval
<1>3. \A i \in DOMAIN ledger : Debits[i] \in Int
  BY <1>1, StoreAssumption DEF Debits
<1>4. QED BY <1>2, <1>3, SumRemove DEF Debited

LEMMA DebitedMore ==
  ASSUME StoreTypeOK, StoreTypeOK', NEW p \in Payment, ledger' = Append(ledger, p)
  PROVE  Debited' = Debited + Amount[p]
<1> DEFINE n == Len(ledger)
<1>1. n \in Nat /\ DOMAIN ledger = 1..n
  BY DEF StoreTypeOK
<1>2. DOMAIN ledger' = 1..(n + 1) /\ ledger'[n + 1] = p /\ \A i \in 1..n : ledger'[i] = ledger[i]
  BY <1>1, AppendProperties DEF StoreTypeOK
<1>3. 1..(n + 1) = (1..n) \cup {n + 1} /\ n + 1 \notin 1..n
  BY <1>1
<1>4. Debits'[n + 1] = Amount[p] /\ \A i \in 1..n : Debits'[i] = Debits[i]
  BY <1>1, <1>2, <1>3 DEF Debits
<1>5. /\ IsFiniteSet(1..n) /\ \A i \in 1..n : Debits[i] \in Int
      /\ \A i \in (1..n) \cup {n + 1} : Debits'[i] \in Int
  BY <1>1, <1>3, <1>4, DebitedTyped, StoreAssumption
<1> HIDE DEF n
<1>6. SumFunctionOnSet(Debits', (1..n) \cup {n + 1}) = SumFunctionOnSet(Debits', 1..n) + Debits'[n + 1]
  BY <1>3, <1>5, SumAdd
<1>7. SumFunctionOnSet(Debits, 1..n) = SumFunctionOnSet(Debits', 1..n)
  BY <1>4, <1>5, SumSame
<1>8. QED BY <1>1, <1>2, <1>3, <1>4, <1>6, <1>7 DEF Debited

\* What a reservation that starts or ends does to the funds held.
LEMMA HoldingSum ==
  ASSUME StoreTypeOK, IsFiniteSet(Holding), NEW p \in Payment, NEW to,
         reservation' = [reservation EXCEPT ![p] = to]
  PROVE  /\ SumFunctionOnSet(Amount, Holding) \in Int
         /\ IsFiniteSet(Holding')
         /\ reservation[p] # "FROZEN" /\ to = "FROZEN" =>
              SumFunctionOnSet(Amount, Holding') = SumFunctionOnSet(Amount, Holding) + Amount[p]
         /\ reservation[p] = "FROZEN" /\ to # "FROZEN" =>
              SumFunctionOnSet(Amount, Holding') = SumFunctionOnSet(Amount, Holding) - Amount[p]
<1>1. \A q \in Payment : Amount[q] \in Int
  BY StoreAssumption
<1>2. Holding' = IF to = "FROZEN" THEN Holding \cup {p} ELSE Holding \ {p}
  BY DEF Holding, StoreTypeOK
<1>3. IsFiniteSet(Holding')
  BY <1>2, FS_AddElement, FS_RemoveElement
<1>4. Holding \subseteq Payment /\ (p \in Holding <=> reservation[p] = "FROZEN")
  BY DEF Holding
<1>5. SumFunctionOnSet(Amount, Holding) \in Int
  BY <1>1, <1>4, SumRemove
<1>6. ASSUME reservation[p] # "FROZEN", to = "FROZEN"
      PROVE  SumFunctionOnSet(Amount, Holding') = SumFunctionOnSet(Amount, Holding) + Amount[p]
  BY <1>1, <1>2, <1>4, <1>6, SumAdd
<1>7. ASSUME reservation[p] = "FROZEN", to # "FROZEN"
      PROVE  SumFunctionOnSet(Amount, Holding') = SumFunctionOnSet(Amount, Holding) - Amount[p]
  BY <1>1, <1>2, <1>4, <1>7, SumLess
<1>8. QED BY <1>3, <1>5, <1>6, <1>7

LEMMA FundsStep ==
  ASSUME StoreTypeOK, StoreTypeOK', FundsInv, [Next]_vars
  PROVE  FundsInv'
<1> DEFINE Held0 == SumFunctionOnSet(Amount, Holding)
<1>1. /\ balance.available \in Int /\ balance.frozen \in Int /\ Debited \in Int
      /\ \A p \in Payment : Amount[p] \in Nat
      /\ InitialBalance \in Nat
  BY DebitedTyped, StoreAssumption DEF StoreTypeOK
<1>2. /\ IsFiniteSet(Holding) /\ balance.available >= 0 /\ balance.frozen = Held0
      /\ balance.available + balance.frozen + Debited = InitialBalance
  BY FundsSums DEF FundsInv
<1>3. ASSUME IsFiniteSet(Holding'), balance'.available >= 0,
             balance'.frozen = SumFunctionOnSet(Amount, Holding'),
             balance'.available + balance'.frozen + Debited' = InitialBalance
      PROVE  FundsInv'
  BY <1>3, FundsSums DEF FundsConserved, FundsInv, Total, Holding, Debited, Debits
<1>4. CASE UNCHANGED <<reservation, balance, ledger>>
  <2>1. Holding' = Holding /\ Debited' = Debited
    BY <1>4 DEF Holding, Debited, Debits
  <2>2. QED BY <1>2, <1>3, <1>4, <2>1
<1>5. ASSUME NEW p \in Payment, Affordable(p), ledger' = ledger,
             MoneyMoves(p, "NONE", "FROZEN", balance.available - Amount[p], balance.frozen + Amount[p])
      PROVE  FundsInv'
  <2>1. IsFiniteSet(Holding') /\ SumFunctionOnSet(Amount, Holding') = Held0 + Amount[p]
    BY <1>2, <1>5, HoldingSum DEF MoneyMoves
  <2>2. Debited' = Debited
    BY <1>5 DEF Debited, Debits
  <2>3. /\ balance'.available = balance.available - Amount[p] /\ balance'.frozen = balance.frozen + Amount[p]
        /\ balance.available >= Amount[p]
    BY <1>5 DEF MoneyMoves, Affordable
  <2>4. balance'.available >= 0 /\ balance'.available + balance'.frozen + Debited' = InitialBalance
    BY <1>1, <1>2, <2>2, <2>3
  <2>5. QED BY <1>2, <1>3, <2>1, <2>3, <2>4
<1>6. ASSUME NEW p \in Payment, ledger' = ledger,
             MoneyMoves(p, "FROZEN", "CANCELLED", balance.available + Amount[p], balance.frozen - Amount[p])
      PROVE  FundsInv'
  <2>1. IsFiniteSet(Holding') /\ SumFunctionOnSet(Amount, Holding') = Held0 - Amount[p]
    <3>1. reservation[p] = "FROZEN" /\ reservation' = [reservation EXCEPT ![p] = "CANCELLED"]
      BY <1>6 DEF MoneyMoves
    <3>2. "CANCELLED" # "FROZEN"
      OBVIOUS
    <3>3. QED BY <1>2, <3>1, <3>2, HoldingSum
  <2>2. Debited' = Debited
    BY <1>6 DEF Debited, Debits
  <2>3. balance'.available = balance.available + Amount[p] /\ balance'.frozen = balance.frozen - Amount[p]
    BY <1>6 DEF MoneyMoves
  <2>4. balance'.available >= 0 /\ balance'.available + balance'.frozen + Debited' = InitialBalance
    BY <1>1, <1>2, <2>2, <2>3
  <2>5. QED BY <1>2, <1>3, <2>1, <2>3, <2>4
<1>7. ASSUME NEW p \in Payment, Paid(p) PROVE FundsInv'
  <2>1. IsFiniteSet(Holding') /\ SumFunctionOnSet(Amount, Holding') = Held0 - Amount[p]
    <3>1. reservation[p] = "FROZEN" /\ reservation' = [reservation EXCEPT ![p] = "CONFIRMED"]
      BY <1>7 DEF Paid, MoneyMoves
    <3>2. "CONFIRMED" # "FROZEN"
      OBVIOUS
    <3>3. QED BY <1>2, <3>1, <3>2, HoldingSum
  <2>2. Debited' = Debited + Amount[p]
    BY <1>7, DebitedMore DEF Paid
  <2>3. balance'.available = balance.available /\ balance'.frozen = balance.frozen - Amount[p]
    BY <1>7 DEF Paid, MoneyMoves
  <2>4. balance'.available >= 0 /\ balance'.available + balance'.frozen + Debited' = InitialBalance
    BY <1>1, <1>2, <2>2, <2>3
  <2>5. QED BY <1>2, <1>3, <2>1, <2>3, <2>4
<1>8. CASE ResetStore
  <2>1. Holding' = {} /\ DOMAIN ledger' = {}
    BY <1>8 DEF ResetStore, Holding
  <2>2. Debited' = 0 /\ SumFunctionOnSet(Amount, Holding') = 0 /\ IsFiniteSet(Holding')
    BY <2>1, SumEmpty, FS_EmptySet DEF Debited
  <2>3. balance'.available = InitialBalance /\ balance'.frozen = 0
    BY <1>8 DEF ResetStore, Opening
  <2>4. QED BY <1>1, <1>3, <2>2, <2>3
<1>9. Typed
  BY DEF StoreTypeOK, Typed
<1>10. ASSUME NEW p \in Payment, Moves(p) PROVE FundsInv'
  BY <1>4, <1>5, <1>6, <1>7, <1>10 DEF Moves, Settled, Opened, Started, Held, GivenUp, MoneyStays
<1>11. QED
  BY <1>4, <1>8, <1>9, <1>10, StepMoves DEF NothingMoves

\* No interleaving of workflows, callbacks, closings and resets creates or
\* loses money, overdraws the account, or lets the frozen column differ from
\* the funds its reservations hold.
THEOREM MoneyConserved == Spec => []FundsConserved
<1>1. Init => FundsInv
  <2> SUFFICES ASSUME Init PROVE FundsInv
    OBVIOUS
  <2>1. Holding = {} /\ DOMAIN ledger = {}
    BY DEF Init, Empty, Holding
  <2>2. Debited = 0 /\ SumFunctionOnSet(Amount, Holding) = 0 /\ IsFiniteSet(Holding)
    BY <2>1, SumEmpty, FS_EmptySet DEF Debited
  <2>3. QED BY <2>2, FundsSums, StoreAssumption DEF Init, Empty, Opening, FundsInv
<1>2. TypeOK => StoreTypeOK
  BY DEF TypeOK
<1>3. FundsInv => FundsConserved
  BY DEF FundsInv
<1>4. QED BY <1>1, <1>2, <1>3, MemoryTyped, FundsStep, PTL DEF Spec

-----------------------------------------------------------------------------
(* Journal.                                                                *)

Settles(j) ==
  \A i \in DOMAIN j : j[i] \in Settlement => i < Len(j) /\ j[i + 1] \in LeadsTo(j[i])

Exact(j, s) == Tells(j, Course(s)) /\ Settles(j)

LEMMA WritesOne ==
  ASSUME NEW j \in Seq(JournalEntry), NEW a \in JournalEntry
  PROVE  j \o <<a>> = Append(j, a) /\ Append(j, a) \in Seq(JournalEntry)
  BY ConcatProperties, AppendProperties

LEMMA WritesMore ==
  ASSUME NEW j \in Seq(JournalEntry), NEW a \in JournalEntry, NEW b \in JournalEntry, NEW c \in JournalEntry
  PROVE  /\ j \o <<a, b>> = Append(Append(j, a), b)
         /\ j \o <<a, b, c>> = Append(Append(Append(j, a), b), c)
  OBVIOUS

LEMMA Regrouped ==
  /\ \A a, b \in JournalEntry : <<a>> \o <<b>> = <<a, b>>
  /\ \A j, r, s \in Seq(JournalEntry), a \in JournalEntry :
       j \o (<<a>> \o r \o s) = Append(j, a) \o (r \o s)
<1>1. ASSUME NEW a \in JournalEntry, NEW b \in JournalEntry PROVE <<a>> \o <<b>> = <<a, b>>
  <2>1. <<a>> \in Seq(JournalEntry) /\ Len(<<a>>) = 1
    OBVIOUS
  <2>2. <<a>> \o <<b>> = Append(<<a>>, b)
    BY <2>1, WritesOne
  <2>3. Append(<<a>>, b) = <<a, b>>
    <3>1. /\ Append(<<a>>, b) \in Seq(JournalEntry) /\ <<a, b>> \in Seq(JournalEntry)
          /\ Len(Append(<<a>>, b)) = 2 /\ Len(<<a, b>>) = 2
          /\ Append(<<a>>, b)[1] = a /\ Append(<<a>>, b)[2] = b
      BY <2>1, AppendProperties
    <3>2. \A i \in 1..2 : Append(<<a>>, b)[i] = <<a, b>>[i]
      BY <3>1
    <3>3. QED BY <3>1, <3>2, SeqEqual
  <2>4. QED BY <2>2, <2>3
<1>2. ASSUME NEW j \in Seq(JournalEntry), NEW r \in Seq(JournalEntry), NEW s \in Seq(JournalEntry),
             NEW a \in JournalEntry
      PROVE  j \o (<<a>> \o r \o s) = Append(j, a) \o (r \o s)
  <2>1. <<a>> \in Seq(JournalEntry) /\ r \o s \in Seq(JournalEntry)
    BY ConcatProperties
  <2>2. <<a>> \o r \o s = <<a>> \o (r \o s)
    BY <2>1, ConcatAssociative
  <2>3. ASSUME NEW x \in Seq(JournalEntry), NEW y \in Seq(JournalEntry)
        PROVE  (j \o x) \o y = j \o (x \o y)
    BY ConcatAssociative
  <2>4. j \o (<<a>> \o (r \o s)) = (j \o <<a>>) \o (r \o s)
    BY <2>1, <2>3, Zenon
  <2>5. QED BY <2>2, <2>4, WritesOne
<1>3. QED BY <1>1, <1>2

LEMMA StatusEntriesFinite ==
  ASSUME NEW j \in Seq(JournalEntry)
  PROVE  /\ Len(j) \in Nat /\ DOMAIN j = 1..Len(j)
         /\ IsFiniteSet(StatusEntries(j))
         /\ \A i \in DOMAIN j : IsFiniteSet({k \in StatusEntries(j) : k <= i})
<1>1. Len(j) \in Nat /\ DOMAIN j = 1..Len(j)
  OBVIOUS
<1>2. IsFiniteSet(DOMAIN j)
  BY <1>1, FS_Interval
<1>3. QED BY <1>1, <1>2, FS_Subset DEF StatusEntries

\* An entry about anything but the status changes nothing of what is told.
LEMMA Aside ==
  ASSUME NEW j \in Seq(JournalEntry), NEW course, Tells(j, course), NEW a \in JournalEntry, a[1] # "STATUS"
  PROVE  Tells(Append(j, a), course)
<1> DEFINE J == Append(j, a)
<1>1. /\ DOMAIN j = 1..Len(j) /\ Len(j) \in Nat /\ DOMAIN J = 1..(Len(j) + 1)
      /\ \A i \in DOMAIN j : J[i] = j[i]
      /\ J[Len(j) + 1] = a
  BY AppendProperties
<1>2. StatusEntries(J) = StatusEntries(j)
  BY <1>1 DEF StatusEntries
<1>3. \A i \in StatusEntries(J) : J[i] = j[i]
  BY <1>1, <1>2 DEF StatusEntries
<1>4. QED BY <1>2, <1>3 DEF Tells

LEMMA Telling ==
  ASSUME NEW j \in Seq(JournalEntry), NEW course \in Seq(Status), Tells(j, course), NEW s \in Status
  PROVE  Tells(Append(j, <<"STATUS", s>>), Append(course, s))
<1> DEFINE J == Append(j, <<"STATUS", s>>)
           new == Len(j) + 1
           C == Append(course, s)
           Upto(i) == {k \in StatusEntries(j) : k <= i}
<1>1. /\ DOMAIN j = 1..Len(j) /\ Len(j) \in Nat /\ DOMAIN J = 1..new
      /\ \A i \in DOMAIN j : J[i] = j[i]
      /\ J[new] = <<"STATUS", s>>
  BY KindsTyped, AppendProperties
<1>2. StatusEntries(J) = StatusEntries(j) \cup {new} /\ new \notin StatusEntries(j)
  BY <1>1 DEF StatusEntries
<1>3. IsFiniteSet(StatusEntries(j))
  BY StatusEntriesFinite
<1>4. Cardinality(StatusEntries(J)) = Len(course) + 1
  BY <1>2, <1>3, FS_AddElement DEF Tells
<1>5. /\ Len(course) \in Nat /\ Len(C) = Len(course) + 1 /\ C[Len(course) + 1] = s
      /\ \A n \in 1..Len(course) : C[n] = course[n]
  BY AppendProperties
<1>6. ASSUME NEW i \in StatusEntries(j)
      PROVE  J[i][2] = C[Cardinality({k \in StatusEntries(J) : k <= i})]
  <2>1. i \in 1..Len(j) /\ J[i] = j[i]
    BY <1>1 DEF StatusEntries
  <2>2. {k \in StatusEntries(J) : k <= i} = Upto(i)
    BY <1>1, <1>2, <2>1
  <2>3. Cardinality(Upto(i)) \in 1..Len(course)
    <3>1. Upto(i) \in SUBSET StatusEntries(j) /\ i \in Upto(i) /\ IsFiniteSet(Upto(i))
      BY <1>3, <2>1, FS_Subset
    <3>2. Cardinality(Upto(i)) <= Len(course)
      BY <1>3, <3>1, FS_Subset DEF Tells
    <3>3. Cardinality(Upto(i)) \in Nat /\ Cardinality(Upto(i)) # 0
      BY <3>1, FS_CardinalityType, FS_EmptySet
    <3>4. QED BY <1>5, <3>2, <3>3
  <2>4. j[i][2] = course[Cardinality(Upto(i))]
    BY DEF Tells
  <2>5. QED BY <1>5, <2>1, <2>2, <2>3, <2>4
<1>7. J[new][2] = C[Cardinality({k \in StatusEntries(J) : k <= new})]
  <2>1. {k \in StatusEntries(J) : k <= new} = StatusEntries(J)
    BY <1>1 DEF StatusEntries
  <2>2. Cardinality({k \in StatusEntries(J) : k <= new}) = Len(course) + 1
    BY <1>4, <2>1
  <2>3. J[new][2] = s
    BY <1>1
  <2>4. QED BY <1>5, <2>2, <2>3
<1>8. QED BY <1>2, <1>4, <1>5, <1>6, <1>7 DEF Tells

LEMMA Unsettled ==
  ASSUME NEW j \in Seq(JournalEntry), Settles(j), NEW a \in JournalEntry, a \notin Settlement
  PROVE  Settles(Append(j, a))
<1> DEFINE J == Append(j, a)
<1>1. /\ DOMAIN j = 1..Len(j) /\ Len(j) \in Nat /\ DOMAIN J = 1..(Len(j) + 1) /\ Len(J) = Len(j) + 1
      /\ \A i \in DOMAIN j : J[i] = j[i]
      /\ J[Len(j) + 1] = a
  BY AppendProperties
<1>2. QED BY <1>1 DEF Settles

LEMMA SettledThere ==
  ASSUME NEW j \in Seq(JournalEntry), Settles(j), NEW a \in Settlement, NEW b \in LeadsTo(a)
  PROVE  Settles(Append(Append(j, a), b))
<1> DEFINE J == Append(j, a)
           L == Append(J, b)
<1>1. a \in JournalEntry /\ b \in JournalEntry /\ b \notin Settlement
  BY DEF Settlement, LeadsTo, JournalEntry, Status, Final
<1>2. /\ DOMAIN j = 1..Len(j) /\ Len(j) \in Nat /\ DOMAIN J = 1..(Len(j) + 1) /\ Len(J) = Len(j) + 1
      /\ \A i \in DOMAIN j : J[i] = j[i]
      /\ J[Len(j) + 1] = a /\ J \in Seq(JournalEntry)
  BY <1>1, AppendProperties
<1>3. /\ DOMAIN L = 1..(Len(j) + 2) /\ Len(L) = Len(j) + 2
      /\ \A i \in DOMAIN J : L[i] = J[i]
      /\ L[Len(j) + 2] = b
  BY <1>1, <1>2, AppendProperties
<1>4. /\ \A i \in DOMAIN j : L[i] = j[i]
      /\ L[Len(j) + 1] = a /\ L[Len(j) + 2] = b
  BY <1>2, <1>3
<1> HIDE DEF J, L
<1>5. QED BY <1>1, <1>2, <1>3, <1>4 DEF Settles

LEMMA CourseSteps ==
  /\ \A s \in Status : Course(s) \in Seq(Status)
  /\ Course("INIT") = Append(Course("NONE"), "INIT")
  /\ Course("PROCESSING") = Append(Course("INIT"), "PROCESSING")
  /\ \A s \in Final : Course(s) = Append(Course("PROCESSING"), s)
  BY DEF Course, Status, Final

LEMMA Noted ==
  ASSUME NEW j \in Seq(JournalEntry), NEW s \in Status, Exact(j, s),
         NEW a \in JournalEntry, a[1] # "STATUS", a \notin Settlement
  PROVE  Exact(Append(j, a), s)
  BY Aside, Unsettled DEF Exact

LEMMA Advanced ==
  ASSUME NEW j \in Seq(JournalEntry), NEW s \in Status, Exact(j, s),
         NEW t \in Status, Course(t) = Append(Course(s), t)
  PROVE  Exact(Append(j, <<"STATUS", t>>), t)
<1>1. <<"STATUS", t>> \in JournalEntry /\ <<"STATUS", t>> \notin Settlement
  BY KindsTyped DEF Settlement
<1>2. Course(s) \in Seq(Status)
  BY CourseSteps
<1>3. QED BY <1>1, <1>2, Telling, Unsettled DEF Exact

LEMMA Concluded ==
  ASSUME NEW j \in Seq(JournalEntry), Exact(j, "PROCESSING"), NEW t \in Final,
         NEW a \in Settlement, <<"STATUS", t>> \in LeadsTo(a)
  PROVE  Exact(Append(Append(j, a), <<"STATUS", t>>), t)
<1>1. a \in JournalEntry /\ a[1] # "STATUS"
  BY DEF Settlement, JournalEntry
<1>2. "PROCESSING" \in Status /\ t \in Status /\ Course("PROCESSING") \in Seq(Status)
  BY CourseSteps DEF Status
<1>3. Append(j, a) \in Seq(JournalEntry) /\ Tells(Append(j, a), Course("PROCESSING"))
  BY <1>1, <1>2, Aside, AppendProperties DEF Exact
<1>4. Tells(Append(Append(j, a), <<"STATUS", t>>), Course(t))
  BY <1>2, <1>3, CourseSteps, Telling
<1>5. Settles(Append(Append(j, a), <<"STATUS", t>>))
  BY SettledThere DEF Exact
<1>6. QED BY <1>4, <1>5 DEF Exact

LEMMA GivenUpExact ==
  ASSUME NEW j \in Seq(JournalEntry), Exact(j, "PROCESSING"), NEW t \in {"FAILED", "CLOSED"}, NEW p
  PROVE  Exact(j \o (Released(p) \o <<<<"STATUS", t>>>>), t)
<1> DEFINE told == <<"STATUS", t>>
           back == <<"FUNDS", "RELEASED">>
<1>1. t \in Final /\ t \in Status /\ "PROCESSING" \in Status
  BY DEF Status, Final
<1>2. told \in JournalEntry /\ back \in JournalEntry
  BY <1>1, KindsTyped
<1>3. back \in Settlement /\ told \in LeadsTo(back)
  BY DEF Settlement, LeadsTo
<1>4. CASE Frozen(p)
  <2>1. Released(p) = <<back>>
    BY <1>4 DEF Released
  <2>2. <<back>> \o <<told>> = <<back, told>>
    BY <1>2, Regrouped
  <2>3. j \o <<back, told>> = Append(Append(j, back), told)
    BY <1>2, WritesMore
  <2>4. Exact(Append(Append(j, back), told), t)
    BY <1>1, <1>3, Concluded
  <2>5. QED BY <2>1, <2>2, <2>3, <2>4
<1>5. CASE ~Frozen(p)
  <2>1. Released(p) \o <<told>> = <<told>>
    BY <1>5 DEF Released
  <2>2. j \o <<told>> = Append(j, told)
    BY <1>2, WritesOne
  <2>3. Exact(Append(j, told), t)
    BY <1>1, CourseSteps, Advanced
  <2>4. QED BY <2>1, <2>2, <2>3
<1>6. QED BY <1>4, <1>5

LEMMA PaidExact ==
  ASSUME NEW j \in Seq(JournalEntry), Exact(j, "PROCESSING")
  PROVE  Exact(Append(Append(j, <<"FUNDS", "CONFIRMED">>), <<"STATUS", "SUCCESS">>), "SUCCESS")
<1>1. "SUCCESS" \in Final /\ <<"FUNDS", "CONFIRMED">> \in Settlement
      /\ <<"STATUS", "SUCCESS">> \in LeadsTo(<<"FUNDS", "CONFIRMED">>)
  BY DEF Final, Settlement, LeadsTo
<1>2. QED BY <1>1, Concluded

JournalInv == \A p \in Payment : Exact(journal[p], status[p])

LEMMA OneWritten ==
  ASSUME StoreTypeOK, JournalInv, NEW p \in Payment, NEW s, NEW entries,
         SetStatus(p, s), Write(p, entries), Exact(journal[p] \o entries, s)
  PROVE  JournalInv'
  BY DEF StoreTypeOK, JournalInv, SetStatus, Write

\* The same when the status stays what it is.
LEMMA OneNoted ==
  ASSUME StoreTypeOK, JournalInv, NEW p \in Payment, NEW a \in JournalEntry,
         a[1] # "STATUS", a \notin Settlement, status' = status, Write(p, <<a>>)
  PROVE  JournalInv'
<1>1. journal[p] \in Seq(JournalEntry) /\ status[p] \in Status
  BY DEF StoreTypeOK
<1>2. Exact(journal[p] \o <<a>>, status[p])
  BY <1>1, WritesOne, Noted DEF JournalInv
<1>3. QED BY <1>2 DEF StoreTypeOK, JournalInv, Write

LEMMA CallbackJournal ==
  ASSUME StoreTypeOK, JournalInv, NEW p \in Payment, NEW cb \in Callback, NEW result, ProcessCallback(p, cb, result)
  PROVE  JournalInv'
<1> DEFINE j == journal[p]
<1>1. j \in Seq(JournalEntry) /\ cb.event \in EventId /\ Exact(j, status[p])
  BY DEF StoreTypeOK, Callback, JournalInv
<1>2. CASE UNCHANGED <<status, journal>>
  BY <1>2 DEF JournalInv
<1>3. ASSUME NEW kind \in {"ACCEPTED", "OUT_OF_ORDER", "TERMINAL_IGNORED"}, Ignored(p, cb, kind)
      PROVE  JournalInv'
  <2>1. <<kind, cb.event>> \in JournalEntry /\ kind # "STATUS" /\ kind # "FUNDS"
    BY <1>1, KindsTyped
  <2>2. <<kind, cb.event>>[1] # "STATUS" /\ <<kind, cb.event>> \notin Settlement
    BY <2>1 DEF Settlement
  <2>3. QED BY <1>3, <2>1, <2>2, OneNoted DEF Ignored
<1>4. ASSUME status[p] = "PROCESSING", Apply(p, cb) PROVE JournalInv'
  <2> DEFINE in == <<"ACCEPTED", cb.event>>
             J == Append(j, in)
  <2>1. in \in JournalEntry /\ in[1] # "STATUS" /\ in \notin Settlement
    BY <1>1, KindsTyped DEF Settlement
  <2>2. J \in Seq(JournalEntry) /\ j \o <<in>> = J
    BY <1>1, <2>1, WritesOne
  <2>3. Exact(J, "PROCESSING")
    BY <1>1, <1>4, <2>1, Noted DEF Status
  <2>4. CASE cb.outcome = "success"
    <3> DEFINE out == <<"FUNDS", "CONFIRMED">>
               told == <<"STATUS", "SUCCESS">>
    <3>1. SetStatus(p, "SUCCESS") /\ Write(p, <<in, out, told>>)
      BY <2>4 , <1>4 DEF Apply
    <3>2. out \in JournalEntry /\ told \in JournalEntry
      BY KindsTyped DEF Status, Final
    <3>3. j \o <<in, out, told>> = Append(Append(J, out), told)
      BY <1>1, <2>1, <3>2, WritesMore
    <3>4. Exact(j \o <<in, out, told>>, "SUCCESS")
      BY <2>2, <2>3, <3>3, PaidExact
    <3>5. QED BY <3>1, <3>4, OneWritten
  <2>5. CASE cb.outcome = "failed"
    <3> DEFINE told == <<"STATUS", "FAILED">>
    <3>1. SetStatus(p, "FAILED") /\ Write(p, <<in>> \o Released(p) \o <<told>>)
      BY <2>5, <1>4 DEF Apply, GiveUp
    <3>2. <<in>> \in Seq(JournalEntry) /\ Released(p) \in Seq(JournalEntry) /\ <<told>> \in Seq(JournalEntry)
      BY <2>1, KindsTyped, EntriesTyped DEF Released, Status, Final
    <3>3. j \o (<<in>> \o Released(p) \o <<told>>) = J \o (Released(p) \o <<told>>)
      BY <1>1, <2>1, <3>2, Regrouped
    <3>4. Exact(j \o (<<in>> \o Released(p) \o <<told>>), "FAILED")
      BY <2>2, <2>3, <3>3, GivenUpExact
    <3>5. QED BY <3>1, <3>4, OneWritten
  <2>6. QED BY <1>4, <2>4, <2>5 DEF Apply
<1>5. ASSUME Judge(p, cb, result) PROVE JournalInv'
  BY <1>2, <1>3, <1>4, <1>5 DEF Judge
<1>6. QED BY <1>2, <1>5 DEF ProcessCallback, Refused, storeVars

LEMMA NothingTold == Exact(<<>>, "NONE")
<1>1. StatusEntries(<<>>) = {} /\ Course("NONE") = <<>>
  BY DEF StatusEntries, Course
<1>2. QED BY <1>1, FS_EmptySet DEF Exact, Tells, Settles

\* A workflow that fails its payment has started it (AnswerInv), so that the
\* statuses it journals leave none out.
LEMMA JournalStep ==
  ASSUME TypeOK, AnswerInv, JournalInv, [Next]_vars
  PROVE  JournalInv'
<1> USE DEF TypeOK
<1>1. ASSUME NEW p \in Payment
      PROVE  journal[p] \in Seq(JournalEntry) /\ status[p] \in Status /\ Exact(journal[p], status[p])
  BY DEF StoreTypeOK, JournalInv
<1>2. CASE UNCHANGED storeVars
  BY <1>2 DEF storeVars, JournalInv
<1>3. ASSUME NEW p \in Payment, NEW s \in Status, Course(s) = Append(Course(status[p]), s),
             SetStatus(p, s), Write(p, <<<<"STATUS", s>>>>)
      PROVE  JournalInv'
  <2>1. Exact(journal[p] \o <<<<"STATUS", s>>>>, s)
    BY <1>1, <1>3, KindsTyped, WritesOne, Advanced
  <2>2. QED BY <1>3, <2>1, OneWritten
<1>4. ASSUME NEW p \in Payment, status[p] = "PROCESSING", NEW s \in {"FAILED", "CLOSED"},
             SetStatus(p, s), Write(p, Released(p) \o <<<<"STATUS", s>>>>)
      PROVE  JournalInv'
  <2>1. Exact(journal[p] \o (Released(p) \o <<<<"STATUS", s>>>>), s)
    BY <1>1, <1>4, GivenUpExact
  <2>2. QED BY <1>4, <2>1, OneWritten
<1>5. ASSUME NEW p \in Payment, Insert(p) PROVE JournalInv'
  <2>1. ASSUME CreatePayment(p) PROVE JournalInv'
    <3>1. status[p] = "NONE"
      BY <2>1 DEF CreatePayment, Original, Exists
    <3>2. "INIT" \in Status /\ Course("INIT") = Append(Course(status[p]), "INIT")
      BY <3>1, CourseSteps DEF Status
    <3>3. SetStatus(p, "INIT") /\ Write(p, <<<<"STATUS", "INIT">>>>)
      BY <2>1 DEF CreatePayment
    <3>4. QED BY <1>3, <3>2, <3>3
  <2>2. QED BY <1>2, <1>5, <2>1 DEF Insert, Refused
<1>6. ASSUME NEW p \in Payment, Start(p) PROVE JournalInv'
  <2>1. CASE Refused
    BY <1>2, <2>1 DEF Refused
  <2>2. CASE ~Refused
    <3>1. status[p] = "INIT" /\ SetStatus(p, "PROCESSING") /\ Write(p, <<<<"STATUS", "PROCESSING">>>>)
      BY <1>6, <2>2 DEF Start, StartPayment
    <3>2. "PROCESSING" \in Status /\ Course("PROCESSING") = Append(Course(status[p]), "PROCESSING")
      BY <3>1, CourseSteps DEF Status
    <3>3. QED BY <1>3, <3>1, <3>2
  <2>3. QED BY <2>1, <2>2
<1>7. ASSUME NEW p \in Payment, TryFreeze(p) PROVE JournalInv'
  <2>1. CASE Refused
    BY <1>2, <2>1 DEF Refused
  <2>2. CASE ~Refused
    <3>1. status' = status /\ Write(p, <<<<"FUNDS", "FROZEN">>>>)
      BY <1>7, <2>2 DEF TryFreeze, Freeze
    <3> DEFINE held == <<"FUNDS", "FROZEN">>
    <3>2. held \in JournalEntry /\ held[1] # "STATUS" /\ held \notin Settlement
      BY KindsTyped DEF Settlement
    <3>3. QED BY <3>1, <3>2, OneNoted
  <2>3. QED BY <2>1, <2>2
<1>8. ASSUME NEW p \in Payment, Fail(p) PROVE JournalInv'
  <2>1. CASE Refused
    BY <1>2, <2>1 DEF Refused
  <2>2. CASE ~Refused
    <3>1. /\ pc[p] = "fail" /\ status[p] # "NONE" /\ status[p] \notin Final
          /\ SetStatus(p, "FAILED") /\ Write(p, Released(p) \o <<<<"STATUS", "FAILED">>>>)
      BY <1>8, <2>2 DEF Fail, At, FailAndRelease, GiveUp, Exists
    <3>2. status[p] = "PROCESSING"
      BY <1>1, <3>1 DEF AnswerInv, Guarded, Status
    <3>3. QED BY <1>4, <3>1, <3>2
  <2>3. QED BY <2>1, <2>2
<1>9. ASSUME NEW p \in Payment, Confirm(p) PROVE JournalInv'
  <2>1. OwnCallback(p) \in Callback
    BY WorkflowAssumption DEF OwnCallback, Callback
  <2>2. QED BY <1>9, <2>1, CallbackJournal DEF Confirm
<1>10. ASSUME NEW p \in Payment, ChannelCallback(p) PROVE JournalInv'
  BY <1>10, CallbackJournal, WorkflowAssumption DEF ChannelCallback
<1>11. ASSUME NEW p \in Payment, Close(p) PROVE JournalInv'
  <2>1. /\ status[p] = "PROCESSING"
        /\ SetStatus(p, "CLOSED") /\ Write(p, Released(p) \o <<<<"STATUS", "CLOSED">>>>)
    BY <1>11 DEF Close, ClosePayment, GiveUp
  <2>2. QED BY <1>4, <2>1
<1>12. CASE Reset
  <2>1. \A p \in Payment : journal'[p] = <<>> /\ status'[p] = "NONE"
    BY <1>12 DEF Reset, ResetStore
  <2>2. QED BY <2>1, NothingTold DEF JournalInv
<1>13. QED
  BY <1>2, <1>5, <1>6, <1>7, <1>8, <1>9, <1>10, <1>11, <1>12
  DEF Next, Create, AskKey, EnterKey, ReleaseKey, vars

\* A payment's journal is a faithful account of how it came to its status, in
\* spite of callbacks, closings and resets between any two steps of Create.
THEOREM JournalFaithful == Spec => []JournalTellsStatus
<1>1. Init => JournalInv
  BY NothingTold DEF Init, Empty, JournalInv
<1>2. JournalInv => JournalTellsStatus
  BY DEF JournalInv, Exact, Settles, JournalTellsStatus
<1>3. QED BY <1>1, <1>2, Answered, JournalStep, PTL DEF Spec

=============================================================================
