# PayFlow-Lab in TLA+

TLA+ models of the payment core of PayFlow-Lab, TLC runs that check them on
small instances, and TLAPS proofs of their main properties for every instance.
File and line numbers are those of the repository's Go, SQL and Markdown files.

## The system

PayFlow accepts a payment request with an idempotency key, reserves money on
an account (Try), and then debits it and writes a ledger entry (Confirm) or
gives it back (Cancel). It runs in one of two modes behind one HTTP API.

**Memory mode** (`internal/service/payment.go`, `internal/store/memory.go`).
A single process. `PaymentService.Create` calls the store several times
(`CreatePayment`, `StartPayment`, `Freeze`, perhaps `FailAndRelease` or
`ProcessCallback`); each store call holds one mutex, the whole workflow holds
the lock of its idempotency key. The outcome comes from a channel callback.
`Callback`, `Close` and `Reset` are single store calls and take no key lock.

**Distributed mode** (`internal/distributed`, `internal/participant`, MySQL,
DTM, Redis). `Service.Create` inserts the payment, marks it `PROCESSING` with
the gid of a DTM global transaction, and runs that transaction: it calls the
Try of the account and then of the ledger participant, and submits or aborts.
DTM then calls Confirm or Cancel of the branches until each is answered. Each
participant operation runs in a `BranchBarrier` transaction with a row that
recognises repeated, empty and suspended calls. The payments row becomes
terminal only on evidence in MySQL: polled by Create (`waitForOutcome`) or
looked for by any later reader (`reconcile`).

### Components

| Component | State | Operations | What makes it correct | Model |
|---|---|---|---|---|
| Key lock (`payment.go:175-199`) | map of counted mutexes | lock, unlock | one workflow per key; no entry leaks; no waiter starves | `KeyLock` implements `KeyMutex` |
| Memory store (`memory.go`) | payments, idempotency map, callbacks seen, reservations, account, ledger, events | 8 mutating calls | money conserved; charged once, as decided; terminal status final; journal exact | `MemoryStore`, contract `PaymentContract` |
| Payment service (`payment.go`) | workflow position | Create, Callback, Close, Reset | no answer between two store calls; every request answered | `LocalPayment` |
| Account, ledger participants (`internal/participant`) | `accounts`, `account_reservations`, `ledger_entries`, barrier rows | Try, Confirm, Cancel | idempotent, null-safe, suspension-safe; money conserved | `TccParticipants` |
| DTM (external) | `trans_global`, `trans_branch_op` | prepare, register, submit, abort, time-out, second phase | assumed, see below | `Dtm` |
| Coordinator and repository (`internal/distributed`) | `payments`, `payment_events` | Create, reconcile, Reset, RecordEvent, transaction view | atomic outcome; terminal status with evidence; one charge per key; convergence; consistent view | `DistributedPayment`, `TransactionView`, `PaymentEvents`; contracts `PaymentContract`, `AtomicCommit` |
| Redis cache (`cache.go`) | key to payment id and fingerprint | get, set, clear | a hit never decides alone | `IdempotencyCache` implements `IdempotentCreate` |
| Counters, metrics | atomics | add, snapshot, reset | | not modelled |
| HTTP API, web console, start-up, scripts | none of their own | | | not modelled |

Components meet in these places: Create holds a key lock across store calls;
callbacks, closing and reset share the store with it; the coordinator, DTM and
the participants share nothing but messages and the MySQL tables; readers and
Create finalize the same payments row; reset deletes under all of them.

### What is hard

Steps of Create against callbacks, closing and reset; a lock that is deleted
while others look it up; messages lost before or after they took effect,
repeated, late, and overtaken by their own compensation; DTM's time-out against
the coordinator; a coordinator that stops anywhere; evidence read in three
queries; two finalizers; a check and an act in two transactions; a cache that is
older than the database, and compares keys differently. `PROJECT.json`
lists each at its line with the property that watches it.

## Modules

| Module | Content |
|---|---|
| `KeyMutex` | abstract: a mutex per key (`idle`, `waiting`, `holding`) |
| `KeyLock` | `lockIdempotencyKey`: map, counts, owners; refines `KeyMutex` |
| `MemoryStore` | the operations of `memory.go` as operators on the store's state, with the invariants of that state |
| `LocalPayment` | the memory-mode service over `MemoryStore`, its key lock an instance of `KeyMutex` |
| `TccParticipants` | the participants' branch operations under `BranchBarrier` |
| `Dtm` | the transaction manager and the requests in flight; extends `TccParticipants` |
| `DistributedPayment` | coordinator, reconcilers and reset; extends `Dtm` |
| `PaymentContract` | abstract: what both modes promise of a payment and its money; implemented by `LocalPayment` and by `DistributedPayment` |
| `AtomicCommit` | abstract: atomic commitment of the two branches, without coordinator or messages; implemented by `DistributedPayment` |
| `TransactionView` | `GET /distributed/transactions/{gid}` reading the evidence statement by statement; extends `DistributedPayment` |
| `PaymentEvents` | the informational events Create records; extends `DistributedPayment` |
| `IdempotentCreate` | abstract: what Create promises of a key, one table and one step per request |
| `IdempotencyCache` | the front half of the distributed Create: Redis, lookup, unique index, and the reset that clears them one after the other; refines `IdempotentCreate` |
| `MC...` | values of the constants for TLC |
| `SumTheorems` | lemmas: what a sum over a finite set becomes when an element joins, leaves or changes |
| `KeyLockProofs`, `LocalPaymentProofs`, `LocalRecordsProofs`, `DistributedPaymentProofs`, `DistributedRefinementProofs`, `TransactionViewProofs`, `IdempotencyCacheProofs` | theorems and proofs |

### How the state corresponds to the code

A payment id stands for the Create request that generated it and, in
distributed mode, for its gid (`service.NewID`, `safeGenerateGID` never
repeat). Key, fingerprint, amount and fault are constant functions of the
request. A missing map entry or row is `"NONE"`. An unknown account is refused
exactly as an amount nobody can afford, and is represented by one.

*Memory mode.* One action is one store call, because `MemoryStore.mu` is held
throughout it. A call that returns an error keeps what it wrote before the
error, as `ProcessCallback` does. `pc` is the place in Create between two
calls, `key` its state at the key lock, `answer` what it returned.

*Distributed mode.* One action is one SQL transaction or statement, one call
to DTM, or one delivery of a branch request. A call to DTM has three outcomes:
done and answered, done and the answer lost, not done; the last two are the
same error to the coordinator, which aborts after a failed branch call and
waits for proof of failure after a failed prepare, submit or abort
(`dtmcli.TccGlobalTransaction2` ignores an error of abort). `sent` only grows:
a branch request may be delivered never, late, twice, or in any order. `watch`
holds the answers a poller or reconciler has read so far. `Stop` ends a handler
after any step: client gone, context cancelled, database error, crash. A crash
of the process is `Stop` of all its handlers; nothing else is lost, since the
rest of the state is in MySQL and DTM.

The lookup before the insert (`service.go:81-91`) answers as the duplicate-key
path of `CreatePayment` does, so one step stands for both. `EnsureNoActiveTransactions`
and `Reset` are two steps, as they are two statements. `Reset` is one step
because its transaction locks every table it empties before it commits.

*The view.* `TransactionView` adds one handler that, between reconciliations,
reads payment, DTM status, reservation and ledger in four steps of its own. The
barrier rows, read last, are only listed and are left out. `EndView` also stands
for a failed read, after which nothing is shown.

*Events.* `PaymentEvents` adds the event Create records when the TCC call returns
an error and the one it records when its wait ends without proof. Both are
written in transactions of their own and may be lost; a reset deletes them.

*The cache.* `IdempotencyCache` splits what `CreatePayment` and `Replay` of
`DistributedPayment` do in one step: Redis, verification, lookup, insert, and
the re-read after a duplicate key. `Fold` is the collation: Redis finds a record
only under the same bytes, MySQL a row under an equal key. An entry can vanish
at any time (its TTL, eviction, a restart) and is stored whenever the request
gets there, also after a reset. `Clear` takes any unscanned keys as the next
page of `SCAN`, deletes them in a second step, and may end at any point, as it
does on an error of Redis. What follows `BeginTCC` is one step (`Finalize`).
A reset is counted when its transaction commits, so the epoch of a decision is
that of the table it was made on.

### The abstract specifications

`PaymentContract` knows three things of the system: how far each payment is,
where its money is, and what the account can pay. Money is held at most once,
only of an open payment; it is paid or returned once; a payment ends only when
nothing is held for it, as a success exactly when it was paid. In memory mode
money and status move in one store call; in distributed mode the money moves
first, in another service. `StageOf` and `MoneyOf` map both.

`AtomicCommit` sees a branch as working, prepared, committed or aborted. `WorkOf`
reads it off the reservation or ledger row; a branch without a row whose try
has been made void (its barrier row is there) is aborted, and can never prepare.

`IdempotentCreate` decides each request in one step on the rows of one table; in
the mapping the rows are those of MySQL, keys are folded, and the cache is gone.

### DTM, assumed

`Dtm` models the external service from the calls the code makes: prepare
creates the transaction; a branch is registered and a submit accepted only
while it is prepared; a transaction left prepared is rolled back after
`TimeoutToFail` (`service.go:125`); the second phase runs the branches in
reverse order and repeats each call until it is answered with success; a branch
answers success exactly when its barrier transaction has committed. DTM's own
storage is taken to be reliable.

## Runs

All runs end within about a minute. The deadlock check is off where the system
may come to rest (all requests answered); `KeyLock`, where callers come back
for ever, checks it.

| Run | Instance | Properties | States |
|---|---|---|---|
| `KeyLock` | 4 goroutines, 2 keys, 4 lock objects | one workflow per key, map holds the keys in use, waiters enter, implements `KeyMutex` | 2 133 |
| `LocalOwn` | 2 payments on a balance for one, own keys; one fails after its freeze, one confirms itself; a success and a failure callback, close, reset | funds conserved, charged as decided, journal, no payment left half way, terminal for ever, implements `PaymentContract` | 40 419 |
| `LocalRetry` | 3 requests with one key, one with other parameters, one early fault, one auto-confirm; callbacks, close, reset | no transient answer, every Create returns | 13 677 |
| `DistributedOne` | 1 payment, 1 reader that also shows the evidence, 1 reset | atomic outcome, nothing left hanging, evidence, evidence suffices, journal, nothing held for nobody, shown evidence agrees, implements `AtomicCommit` | 118 518 |
| `DistributedTwo` | 2 payments on a balance for one, the second fails at the ledger | funds conserved, implements `PaymentContract` | 262 622 |
| `DistributedRetry` | 2 requests with one key, enough money for both, one fault, 1 reset | charged once per key | 509 793 |
| `DistributedLive` | 1 payment, 1 reader, fairness | frozen funds settled, prepared converges | 4 662 |
| `IdempotencyCache` | 4 requests of one key in two spellings, one with other parameters, 1 reset | answers agree, implements `IdempotentCreate` | 623 319 |

Four runs show where the code does not do what is said of it:

* `LocalRefused`: `memory.go:179` marks a callback's event id as seen before it
  refuses the callback (`memory.go:189`, `memory.go:204`). The retry is answered
  "event id was already processed" (`memory.go:176`) and never applied.
* `DistributedStuck`: README.md:140 promises that a payment left `PROCESSING`
  converges when it is queried. If DTM never learned of the gid (a stop or an
  error before prepare, `service.go:112-121`), no evidence can ever appear and
  the payment stays `PROCESSING`; reset is then refused too.
* `DistributedResetRace`: README.md:144 says a reset is refused while a payment
  is `PROCESSING`. The check and the deletion are separate (`service.go:262-265`).
* `DistributedEvents`: `service.go:147` records "DTM aborted the global
  transaction and requested Cancel" for every error of the TCC call. When the
  reply to a submit is lost, DTM commits, and the payment ends as `SUCCESS` with
  an event that says it was aborted. The status itself is right: that is
  `TerminalHasEvidence`.

### Bounds, and why they are enough

Two payments contend for the account; a third adds interleavings and no new
relation between two of them (and the proofs do not depend on the number).
Retry needs an original, a repetition and a conflicting request: three. Two
channel callbacks, one success and a later-numbered failure, reach every branch
of `ProcessCallback` in either order, with the payment's own confirmation as a
third event. One reset (`MaxResets = 1`) meets every state of a payment,
including late branch requests from before it. One reader and the Create
handler are two finalizers. One view is enough, since showing it changes
nothing. The cache needs an original, a repetition in the same and one in the
other spelling, and a conflict: four requests, of which any may come first, and
one reset puts stale entries before any of them. Nothing else is bounded: `sent`, the barrier rows and
the journals are finite by themselves.

### Fairness, and why the code justifies it

* `KeyLock`: a goroutine that can run does (weak fairness of the unlock steps;
  every return path of Create runs the deferred release); `sync.Mutex` serves a
  waiter after a millisecond of starvation, hence strong fairness of locking.
  Nobody is obliged to ask for a key.
* `LocalPayment`: a workflow that has its key runs on; whoever waits for a key
  gets it, which is what `KeyLock` shows.
* `DistributedPayment`, `DtmFairness`: DTM's cron looks at pending transactions
  for ever (`TRANS_CRON_INTERVAL`) and repeats second-phase calls, and a call
  repeated for ever gets through. `ReaderFairness`: somebody keeps asking for
  each payment and a started look is finished; strong fairness, since a reader
  may be busy with another payment in between. No run needs fairness of the
  coordinator for a positive result; `FairHandlersSpec` adds it only to make
  the counterexample of `DistributedStuck` as strong as it can be.

## Proofs

All proofs are for arbitrary sets of payments, readers, goroutines and keys and
for arbitrary amounts, faults and numbers of resets, from the assumptions named
in the modules (`LockAssumption`, `StoreAssumption`, `WorkflowAssumption`,
`AmountAssumption`, `RequestAssumption`, `InspectorAssumption`, `CacheAssumption`).

* **`KeyLockProofs`**: `TypeCorrect`, `MutualExclusion`, `NoEntryLeaks`,
  `RefinesKeyMutex`. What
  makes the deletion of an entry safe is that `users` is the exact number of
  callers that point to the entry: "the count is one" then means "only I". The
  invariant states that as a cardinality, with the fact that every captured
  entry is the one the map holds for its key, and that the holder of an entry
  is the one caller holding it. Refinement maps `leaving` to `idle`.
* **`LocalPaymentProofs`**: `Charged` (exactly one ledger entry per successful
  payment), `DecidedForGood`, `RefinesContract`, `MemoryTyped` and
  `AnswersSettled` (`NoTransientAnswer`). Every step has one of four effects on
  (status, reservation, ledger): none, a quiet change, a charge, the reset; the
  invariant counts the ledger entries of each payment. `AnswersSettled` joins the
  lock and the store: a payment that is neither finished nor has its funds frozen
  is in the hands of the one workflow that holds its key (`Guarded`,
  `OneHolder`), so a repeated request, which holds that key when it looks, does
  not find one. `NothingHalfDone` reads the same invariant once the workflow is
  over: what it leaves behind is finished, gone, or frozen.
* **`SumTheorems`**: lemmas only. The library states induction for a predicate
  given as an operator, which none of the provers can instantiate. Here a
  predicate is the set of the numbers that have it, and induction is the
  existence of a least number that has it not (`WFMin`, `NatLessThanWellFounded`).
  With that, the recursion behind `SumFunctionOnSet` is shown to have a solution
  on every finite set (`Unrolls`), and only one (`UnrollsAgree`), so that any
  element can be taken out first (`SumRemove`). `SumAdd`, `SumLess`, `SumSame` and
  `SumCovers` are what the proofs about funds cite.
* **`LocalRecordsProofs`**: `MoneyConserved` and `JournalFaithful`. `FundsInv` adds to
  `FundsConserved` that only finitely many payments hold funds at a time, so
  nothing is assumed of how many there are; every step moves one reservation,
  the account and perhaps one ledger entry together (`Held`, `Paid`, `GivenUp`).
  `JournalInv` says of each journal that its status entries are the path to the
  status (`Tells`) and that each charge or release precedes the status it
  leads to (`Settles`). It is not inductive alone: a payment failed while still
  `INIT` would miss a status, and it is `AnswerInv` that knows that a workflow
  about to fail has started its payment.
* **`DistributedPaymentProofs`**: `TypeCorrect`, `AtomicCommitment`, `Suspension`,
  `Conclusive`, `TerminalBacked`, `NothingForNobody`, `ChargedOnce`, `JournalExact`,
  `MoneyConserved`, `SecondPhaseCovered`. One
  inductive invariant, per payment, ties together what the wire, the barrier,
  the participants, DTM and the coordinator know:
  - `RowInv`: only payments with a row have reservations or ledger intents;
    before its transaction is prepared nothing of a payment exists at DTM or at
    the participants; a terminal status has DTM's matching final status;
  - `BranchInv`, for each branch: what its barrier rows say of the status of its
    reservation or ledger intent. The decisive part is the cancel, which leaves
    the row of the try behind, so that a later try cannot reserve;
  - `DecisionInv`: the requests in flight and the rows recorded agree with DTM's
    decision; it submits only with both tries recorded, and a branch marked done
    has the row of its second-phase operation. A reset deletes the evidence, so
    most of this holds only of payments that still have their row;
  - `CoordinatorInv`: how far the Create handler is bounds what it has registered
    and which tries have run;
  - `WatchInv`: a verdict, although gathered in three separate reads, rests on a
    finished transaction, which is read last and can only be deleted, not
    changed.

  A finished transaction then determines both branches: `AtomicCommitment`,
  `Suspension` and `Conclusive` follow from the invariant, and `TerminalBacked`
  from these. `Conclusive` is the part of convergence that is a safety property: whoever
  looks once DTM has finished finds a verdict. `ChargedOnce`
  adds that a step never makes two rows of one key, `JournalExact` that every
  status change appends its event. `MoneyConserved` has an invariant of its own
  (`FundsInv`): a delivered operation freezes, takes or gives back one
  reservation, or leaves reservations and account alone (`StepFunds`).
  `SecondPhaseCovered` concludes that the guards of `account.go:80` and
  `account.go:112` ("account frozen balance invariant violated") never refuse.

* **`DistributedRefinementProofs`**: `RefinesContract` and `RefinesAtomicCommit`.
  Both take the invariant above in the state before and after a step. For the
  contract: every step moves money of one payment or the status of one, never
  both, and `TerminalBacked` after the step says what its end needs. For
  atomic commitment: a branch that confirms has the submit behind it, which
  `DecisionInv` ties to both tries having run and no cancel being in sight.
* **`TransactionViewProofs`**: `ViewTyped`, `ViewConsistent`. `ViewedSystem` shows that
  the view takes nothing away from `DistributedPayment`. The invariant of the view
  says of each status already read what is still true of the payment: a
  finished global transaction stays as it is while the row exists (`Outcomes`);
  once the row is gone nothing comes back (`Finality`, `Absence`, from `GoneStep`).
* **`IdempotencyCacheProofs`**: `CacheTyped`, `RefinesIdempotentCreate`,
  `AnswersAlwaysAgree`. Nothing is assumed of the cache's content: the proof uses
  only that rows have different folded keys and that a decision is made against
  the rows of the moment. `AnswersAgree` then follows from an invariant of
  decisions: those of the current epoch are on rows that exist.

Model-checked only: liveness (`EveryWaiterEnters`, `EveryCreateReturns`,
`FrozenFundsAreSettled`, `PreparedConverges`), since fairness and ENABLED are beyond
the proof system. Every invariant, action property and refinement that a
passing run checks is a theorem. The four properties that do not hold have their
counterexamples and no theorem.

## Not modelled

Input validation and normalisation (pure string checks); the `before_confirm`
fault, `FAULT_INJECTED`, `CALLBACK_DUPLICATE` (journal lines without a status, some
without bound); queries that are one statement and change nothing; the counters
and metrics (no decision reads them, and nothing is promised of them across a
reset, which sets them to zero one by one after the store); HTTP decoding and
error mapping, which keep no state; the web page; start-up, containers, scripts.
The collation of keys is modelled as a function that says which keys are equal,
not character by character, and only in `IdempotencyCache`: `DistributedPayment`
takes its `Key` as already folded. Amounts need no overflow width: at most
1 000 000 cents are on the account and an amount has at most 100 000 000.

## Plan

Done: the key lock, both modes, their common contract, atomic commitment, the
cache, the transaction view and the events, with their runs and theorems. What
is left:

1. Larger instances of the view and of the events with two payments.
