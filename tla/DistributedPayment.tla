------------------------- MODULE DistributedPayment --------------------------
(***************************************************************************)
(* The distributed mode (internal/distributed): the handlers of the        *)
(* payflow service coordinate one DTM TCC transaction per payment and      *)
(* finalize the payments row from the evidence the participants and DTM    *)
(* leave in MySQL.                                                         *)
(*                                                                         *)
(* A Create request is named by the payment id it generates, so the set    *)
(* Payment is also the set of Create requests.  Readers are the requests   *)
(* that only look at a payment and reconcile it: GET details, list,        *)
(* transaction view, channel callback.  Every SQL transaction is one step; *)
(* requests interleave between their transactions, and a handler may stop  *)
(* after any of them (client gone, database error, process crash).         *)
(*                                                                         *)
(* Informational events, which record no status, are left out of journal.  *)
(***************************************************************************)
EXTENDS Dtm, Sequences, FiniteSets, Functions

CONSTANTS
  Reader,       \* requests that look at payments
  NoPayment,    \* not a payment
  Key,          \* idempotency key of each Create request
  Fingerprint,  \* fingerprint of each Create request
  Fault,        \* fault each Create request injects
  MaxResets     \* bound: how often the demo is reset

ASSUME RequestAssumption ==
  /\ Reader \cap Payment = {}
  /\ NoPayment \notin Payment
  /\ DOMAIN Key = Payment /\ DOMAIN Fingerprint = Payment
  /\ Fault \in [Payment -> {"none", "after_account_try", "ledger_try"}]
  /\ MaxResets \in Nat

VARIABLES
  status,     \* payments.status, or "NONE" when there is no row
  journal,    \* to_status of the status events of each payment, in order
  tryAnswer,  \* the participant's answer to the try in flight
  pc,         \* where the Create request of each payment is
  watch,      \* the evidence each request is gathering
  resetPc,    \* where the reset request is
  resets      \* resets performed

rowVars   == <<status, journal>>
resetVars == <<resetPc, resets>>
vars == <<participantVars, dtmVars, rowVars, tryAnswer, pc, watch, resetVars>>

Worker   == Payment \cup Reader
Terminal == {"SUCCESS", "FAILED", "CLOSED"}
Status   == {"NONE", "INIT", "PROCESSING"} \cup Terminal
Answer   == {"none", "ok", "failure", "error"}
PC == {"insert", "begin", "prepare", "registerAccount", "tryAccount", "registerLedger",
       "tryLedger", "submit", "abort", "awaitSuccess", "awaitFailure", "done"}
Stage == {"idle", "reservation", "ledger", "dtm", "SUCCESS", "FAILED"}
Watch == [stage : Stage, payment : Payment \cup {NoPayment}, want : {"either", "success", "failure"},
          reservation : ReservationStatus, ledger : LedgerStatus]

Idle == [stage |-> "idle", payment |-> NoPayment, want |-> "either",
         reservation |-> "NONE", ledger |-> "NONE"]

\* Every variable ranges over the values the schema and the code allow.
TypeOK ==
  /\ ParticipantsTypeOK
  /\ DtmTypeOK
  /\ status    \in [Payment -> Status]
  /\ journal   \in [Payment -> Seq(Status)]
  /\ tryAnswer \in [Payment -> [Branch -> Answer]]
  /\ pc        \in [Payment -> PC]
  /\ watch     \in [Worker -> Watch]
  /\ resetPc   \in {"idle", "checked"}
  /\ resets    \in 0..MaxResets

Init ==
  /\ ParticipantsInit
  /\ DtmInit
  /\ status    = [p \in Payment |-> "NONE"]
  /\ journal   = [p \in Payment |-> <<>>]
  /\ tryAnswer = [p \in Payment |-> [b \in Branch |-> "none"]]
  /\ pc        = [p \in Payment |-> "insert"]
  /\ watch     = [w \in Worker |-> Idle]
  /\ resetPc   = "idle"
  /\ resets    = 0

-----------------------------------------------------------------------------
(* Repository transactions on the payments row.                            *)

HasRow(p) == status[p] # "NONE"

\* Every status update appends its event in the same transaction.
SetStatus(p, s) ==
  /\ status'  = [status EXCEPT ![p] = s]
  /\ journal' = [journal EXCEPT ![p] = Append(@, s)]

\* Mutant: the current status is not looked at.
FinalizeUnguarded(p, s) == SetStatus(p, s)

\* A payment that is already final keeps its status, whichever was asked for.
Finalize(p, s) ==
  IF status[p] = "PROCESSING" THEN SetStatus(p, s) ELSE UNCHANGED rowVars

-----------------------------------------------------------------------------
(* Gathering evidence: three separate reads, then a verdict.               *)

Look(w, p, want) ==
  watch' = [watch EXCEPT ![w] = [Idle EXCEPT !.stage = "reservation", !.payment = p, !.want = want]]

LooksAt(w, stage) == watch[w].stage = stage

LookOnlyChangesWatch ==
  UNCHANGED <<participantVars, dtmVars, rowVars, tryAnswer, pc, resetVars>>

ReadReservation(w) ==
  /\ LooksAt(w, "reservation")
  /\ watch' = [watch EXCEPT ![w] = [@ EXCEPT !.stage = "ledger", !.reservation = reservation[watch[w].payment]]]
  /\ LookOnlyChangesWatch

ReadLedger(w) ==
  /\ LooksAt(w, "ledger")
  /\ watch' = [watch EXCEPT ![w] = [@ EXCEPT !.stage = "dtm", !.ledger = ledger[watch[w].payment]]]
  /\ LookOnlyChangesWatch

ProvesSuccess(look, transStatus) ==
  look.reservation = "CONFIRMED" /\ look.ledger = "POSTED" /\ transStatus = "succeed"

\* Mutants: the participants' rows are taken for proof while DTM is still at
\* work; branches whose try never ran are not recognised.
ProvesFailureTooSoon(look, transStatus) ==
  look.reservation # "FROZEN" /\ look.ledger # "POSTED"
ProvesFailureTooStrictly(look, transStatus) ==
  look.reservation = "CANCELLED" /\ look.ledger = "CANCELLED" /\ transStatus = "failed"

ProvesFailure(look, transStatus) ==
  look.reservation # "FROZEN" /\ look.ledger # "POSTED" /\ transStatus = "failed"

\* Without a verdict a poll is repeated (Poll) and a reconciliation ends.
ReadDtm(w) ==
  LET look  == watch[w]
      state == trans[look.payment]
      stage == IF look.want # "failure" /\ ProvesSuccess(look, state) THEN "SUCCESS"
               ELSE IF look.want # "success" /\ ProvesFailure(look, state) THEN "FAILED"
               ELSE "idle"
  IN  /\ LooksAt(w, "dtm")
      /\ watch' = [watch EXCEPT ![w] = IF stage = "idle" THEN Idle ELSE [@ EXCEPT !.stage = stage]]
      /\ LookOnlyChangesWatch

ActOnVerdict(w) ==
  /\ watch[w].stage \in {"SUCCESS", "FAILED"}
  /\ Finalize(watch[w].payment, watch[w].stage)
  /\ watch' = [watch EXCEPT ![w] = Idle]
  /\ pc' = [q \in Payment |-> IF q = w THEN "done" ELSE pc[q]]
  /\ UNCHANGED <<participantVars, dtmVars, tryAnswer, resetVars>>

\* reconcile on behalf of a reader: only a PROCESSING payment is looked into.
Reconcile(r) ==
  /\ LooksAt(r, "idle")
  /\ \E p \in Payment : status[p] = "PROCESSING" /\ Look(r, p, "either")
  /\ LookOnlyChangesWatch

-----------------------------------------------------------------------------
(* The Create handler.                                                     *)

Goto(p, from, to) ==
  /\ pc[p] = from
  /\ pc' = [pc EXCEPT ![p] = to]

\* Mutant: only a payment in progress is recognised as the original.
SameKeyInProgress(p, q) == status[q] \in {"INIT", "PROCESSING"} /\ Key[q] = Key[p]

SameKey(p, q) == HasRow(q) /\ Key[q] = Key[p]

\* The unique index on idempotency_key decides.  The lookup made before the
\* insert answers as the duplicate-key path does, so one step stands for both.
CreatePayment(p) ==
  /\ ~\E q \in Payment : SameKey(p, q)
  /\ Goto(p, "insert", "begin")
  /\ SetStatus(p, "INIT")
  /\ UNCHANGED <<participantVars, dtmVars, tryAnswer, watch, resetVars>>

\* The same key with other parameters is a conflict; otherwise the original
\* payment is reconciled if it is PROCESSING, and returned: all that is left of
\* the request is its look at the original.
Replay(p) ==
  \E q \in Payment :
    /\ SameKey(p, q)
    /\ IF Fingerprint[q] = Fingerprint[p] /\ status[q] = "PROCESSING"
         THEN Look(p, q, "either")
         ELSE UNCHANGED watch
    /\ Goto(p, "insert", "done")
    /\ UNCHANGED <<participantVars, dtmVars, rowVars, tryAnswer, resetVars>>

BeginTCC(p) ==
  /\ status[p] = "INIT"
  /\ Goto(p, "begin", "prepare")
  /\ SetStatus(p, "PROCESSING")
  /\ UNCHANGED <<participantVars, dtmVars, tryAnswer, watch, resetVars>>

\* A call to DTM either succeeds, or reports an error after DTM has (reply
\* lost) or has not (request lost, refused) carried it out.
CoordinatorOnly == UNCHANGED <<participantVars, rowVars, tryAnswer, watch, resetVars>>

PrepareTCC(p) ==
  /\ Prepare(p)
  /\ \/ Goto(p, "prepare", "registerAccount")
     \/ Goto(p, "prepare", "awaitFailure")
  /\ UNCHANGED <<branches, done, sent>>
  /\ CoordinatorOnly

PrepareFails(p) ==
  /\ Goto(p, "prepare", "awaitFailure")
  /\ UNCHANGED dtmVars
  /\ CoordinatorOnly

Register(p, b, at, try) ==
  /\ RegisterBranch(p, b)
  /\ \/ Goto(p, at, try) /\ Send(p, b, "try")
     \/ Goto(p, at, "abort") /\ UNCHANGED sent
  /\ UNCHANGED <<trans, done>>
  /\ CoordinatorOnly

RegisterFails(p, at) ==
  /\ Goto(p, at, "abort")
  /\ UNCHANGED dtmVars
  /\ CoordinatorOnly

TryAnswered(p, b, at, next) ==
  /\ tryAnswer[p][b] = "ok"
  /\ Goto(p, at, next)
  /\ UNCHANGED dtmVars
  /\ CoordinatorOnly

\* Mutant: the error of a branch call is ignored.
TryFailureIgnored(p, b, at) ==
  /\ Goto(p, at, IF b = "account" THEN "registerLedger" ELSE "submit")
  /\ UNCHANGED dtmVars
  /\ CoordinatorOnly

\* The participant refused, failed, or did not answer within RequestTimeout.
TryFails(p, b, at) ==
  /\ Goto(p, at, "abort")
  /\ UNCHANGED dtmVars
  /\ CoordinatorOnly

AfterAccountTry(p) == IF Fault[p] = "after_account_try" THEN "abort" ELSE "registerLedger"

CallAccount(p) ==
  \/ Register(p, "account", "registerAccount", "tryAccount")
  \/ RegisterFails(p, "registerAccount")
  \/ TryAnswered(p, "account", "tryAccount", AfterAccountTry(p))
  \/ TryFails(p, "account", "tryAccount")

CallLedger(p) ==
  \/ Register(p, "ledger", "registerLedger", "tryLedger")
  \/ RegisterFails(p, "registerLedger")
  \/ TryAnswered(p, "ledger", "tryLedger", "submit")
  \/ TryFails(p, "ledger", "tryLedger")

SubmitTCC(p) ==
  /\ Submit(p)
  /\ \/ Goto(p, "submit", "awaitSuccess")
     \/ Goto(p, "submit", "awaitFailure")
  /\ UNCHANGED <<branches, done, sent>>
  /\ CoordinatorOnly

SubmitFails(p) ==
  /\ Goto(p, "submit", "awaitFailure")
  /\ UNCHANGED dtmVars
  /\ CoordinatorOnly

AbortTCC(p) ==
  /\ Goto(p, "abort", "awaitFailure")
  /\ Abort(p) \/ UNCHANGED trans
  /\ UNCHANGED <<branches, done, sent>>
  /\ CoordinatorOnly

\* waitForOutcome: another round of reads.
Poll(p) ==
  /\ pc[p] \in {"awaitSuccess", "awaitFailure"}
  /\ LooksAt(p, "idle")
  /\ Look(p, p, IF pc[p] = "awaitSuccess" THEN "success" ELSE "failure")
  /\ LookOnlyChangesWatch

\* The handler ends early: its deadline passed while polling, the client
\* disconnected, a repository call failed, or the process crashed.
Stop(p) ==
  /\ pc[p] # "done" \/ ~LooksAt(p, "idle")
  /\ pc' = [pc EXCEPT ![p] = "done"]
  /\ watch' = [watch EXCEPT ![p] = Idle]
  /\ UNCHANGED <<participantVars, dtmVars, rowVars, tryAnswer, resetVars>>

Coordinate(p) ==
  \/ CreatePayment(p)
  \/ Replay(p)
  \/ BeginTCC(p)
  \/ PrepareTCC(p)
  \/ PrepareFails(p)
  \/ CallAccount(p)
  \/ CallLedger(p)
  \/ SubmitTCC(p)
  \/ SubmitFails(p)
  \/ AbortTCC(p)
  \/ Poll(p)

-----------------------------------------------------------------------------
(* Delivery of a branch request to its participant.                        *)

\* Reservations and ledger entries reference their payments row.
ForeignKeyDropped(p) == TRUE  \* mutant: the tables carry no foreign key
ForeignKey(p) == HasRow(p)

Answered(p, b, answer) == tryAnswer' = [tryAnswer EXCEPT ![p][b] = answer]

DeliverTry(p, b) ==
  /\ "try" \in sent[p][b]
  /\ \E answer \in Answer \ {"none"} :
       /\ \/ b = "account" /\ AccountTry(p, ForeignKey(p), answer)
          \/ b = "ledger"  /\ LedgerTry(p, Fault[p] = "ledger_try", ForeignKey(p), answer)
       /\ Answered(p, b, answer)
  /\ UNCHANGED <<dtmVars, rowVars, pc, watch, resetVars>>

DeliverConfirm(p, b) ==
  /\ "confirm" \in sent[p][b]
  /\ \/ b = "account" /\ AccountConfirm(p)
     \/ b = "ledger"  /\ LedgerConfirm(p)
  /\ UNCHANGED <<dtmVars, rowVars, tryAnswer, pc, watch, resetVars>>

DeliverCancel(p, b) ==
  /\ "cancel" \in sent[p][b]
  /\ \/ b = "account" /\ AccountCancel(p)
     \/ b = "ledger"  /\ LedgerCancel(p)
  /\ UNCHANGED <<dtmVars, rowVars, tryAnswer, pc, watch, resetVars>>

Deliver(p, b) == DeliverTry(p, b) \/ DeliverConfirm(p, b) \/ DeliverCancel(p, b)

DtmStep(p) ==
  /\ \/ Expire(p)
     \/ \E b \in Branch : CallBranch(p, b) \/ BranchDone(p, b)
     \/ Finish(p)
  /\ UNCHANGED <<participantVars, rowVars, tryAnswer, pc, watch, resetVars>>

-----------------------------------------------------------------------------
(* Reset: a check in one statement, the deletion in a later transaction.   *)

EnsureNoActiveTransactions ==
  /\ resetPc = "idle"
  /\ resets < MaxResets
  /\ \A p \in Payment : status[p] # "PROCESSING"
  /\ resetPc' = "checked"
  /\ resets'  = resets + 1
  /\ UNCHANGED <<participantVars, dtmVars, rowVars, tryAnswer, pc, watch>>

\* Barrier and DTM rows are found through the gid, which BeginTCC stores.
HasGid(p) == status[p] \notin {"NONE", "INIT"}

Cleared(f, empty) == [p \in Payment |-> IF HasGid(p) THEN empty ELSE f[p]]

Reset ==
  /\ resetPc = "checked"
  /\ status'      = [p \in Payment |-> "NONE"]
  /\ journal'     = [p \in Payment |-> <<>>]
  /\ reservation' = [p \in Payment |-> "NONE"]
  /\ ledger'      = [p \in Payment |-> "NONE"]
  /\ barrier'     = Cleared(barrier, NoBarrierRows)
  /\ branches'    = Cleared(branches, {})
  /\ done'        = Cleared(done, {})
  /\ trans'       = Cleared(trans, "NONE")
  /\ balance'     = OpeningBalance
  /\ resetPc'     = "idle"
  /\ UNCHANGED <<sent, tryAnswer, pc, watch, resets>>

-----------------------------------------------------------------------------
Next ==
  \/ \E p \in Payment : Coordinate(p)
  \/ \E p \in Payment : Stop(p)
  \/ \E w \in Worker : ReadReservation(w)
  \/ \E w \in Worker : ReadLedger(w)
  \/ \E w \in Worker : ReadDtm(w)
  \/ \E w \in Worker : ActOnVerdict(w)
  \/ \E r \in Reader : Reconcile(r)
  \/ \E p \in Payment, b \in Branch : Deliver(p, b)
  \/ \E p \in Payment : DtmStep(p)
  \/ EnsureNoActiveTransactions
  \/ Reset

Spec == Init /\ [][Next]_vars

-----------------------------------------------------------------------------
(* Safety.                                                                 *)

Total(s) == SumFunctionOnSet(Amount, {p \in Payment : reservation[p] = s})

\* Money is neither created nor lost: the frozen column is the sum of the
\* frozen reservations, what left the account is the sum of the confirmed
\* ones, and the account is never overdrawn.  In particular the check
\* "account frozen balance invariant violated" of account.go never trips.
FundsConserved ==
  /\ balance.available >= 0
  /\ balance.frozen = Total("FROZEN")
  /\ balance.available + balance.frozen + Total("CONFIRMED") = InitialBalance

\* Atomic commitment across the two participants, whatever is lost, late or
\* repeated: once one branch has confirmed, both have reserved and neither
\* is cancelled or can still refuse.
AtomicOutcome ==
  \A p \in Payment :
    reservation[p] = "CONFIRMED" \/ ledger[p] = "POSTED" =>
      /\ reservation[p] \in {"FROZEN", "CONFIRMED"}
      /\ ledger[p] \in {"PREPARED", "POSTED"}

\* A finished global transaction holds nothing back: no try, however late,
\* leaves funds frozen or a ledger intent open behind it (suspension).
NothingLeftHanging ==
  \A p \in Payment :
    trans[p] \in {"succeed", "failed"} =>
      reservation[p] # "FROZEN" /\ ledger[p] # "PREPARED"

\* A terminal status is, and for ever stays, backed by both branches and by
\* DTM, although the evidence was read in three separate queries.
TerminalHasEvidence ==
  \A p \in Payment :
    /\ status[p] = "SUCCESS" =>
         reservation[p] = "CONFIRMED" /\ ledger[p] = "POSTED" /\ trans[p] = "succeed"
    /\ status[p] = "FAILED" =>
         /\ reservation[p] \in {"NONE", "CANCELLED"}
         /\ ledger[p] \in {"NONE", "CANCELLED"}
         /\ trans[p] = "failed"

\* Behind a finished global transaction the participants' rows prove its
\* outcome, whichever tries ran, were refused, came too late or were never
\* sent: whoever looks at a payment then finds a verdict.
EvidenceSuffices ==
  \A p \in Payment :
    HasRow(p) =>
      LET evidence == [reservation |-> reservation[p], ledger |-> ledger[p]]
      IN  /\ trans[p] = "succeed" => ProvesSuccess(evidence, trans[p])
          /\ trans[p] = "failed" => ProvesFailure(evidence, trans[p])

\* Each status change is recorded exactly once and in order, although the
\* coordinator and any number of reconcilers may finalize concurrently.
JournalTellsStatus ==
  \A p \in Payment :
    journal[p] = CASE status[p] = "NONE" -> <<>>
                   [] status[p] = "INIT" -> <<"INIT">>
                   [] status[p] = "PROCESSING" -> <<"INIT", "PROCESSING">>
                   [] OTHER -> <<"INIT", "PROCESSING", status[p]>>

\* No funds and no ledger intent belong to a payment that does not exist,
\* also when a try arrives after a reset deleted its payment and its barrier.
NothingHeldForNobody ==
  \A p \in Payment :
    ~HasRow(p) => reservation[p] = "NONE" /\ ledger[p] = "NONE"

\* However often a request is retried with its key, and across resets, at
\* most one payment of that key holds or has taken money.
ChargedOncePerKey ==
  \A p, q \in Payment :
    Key[p] = Key[q] /\ {reservation[p], reservation[q]} \subseteq {"FROZEN", "CONFIRMED"} => p = q

-----------------------------------------------------------------------------
(* Fairness and liveness.                                                  *)

\* DTM retries second-phase calls until they are answered, times prepared
\* transactions out, and every request it repeats eventually gets through.
DtmFairness ==
  \A p \in Payment :
    /\ WF_vars(DtmStep(p))
    /\ \A b \in Branch : WF_vars(DeliverConfirm(p, b)) /\ WF_vars(DeliverCancel(p, b))

\* Somebody keeps asking for each payment, and a request once made is served.
ReaderFairness ==
  \A r \in Reader :
    /\ \A p \in Payment :
         SF_vars(Reconcile(r) /\ watch'[r].payment = p)
    /\ WF_vars(ReadReservation(r) \/ ReadLedger(r) \/ ReadDtm(r) \/ ActOnVerdict(r))

FairSpec == Spec /\ DtmFairness /\ ReaderFairness

\* A Create handler runs on or stops; it does not hang.
FairHandlersSpec == FairSpec /\ \A p \in Payment : WF_vars(Coordinate(p) \/ Stop(p))

\* Reserved funds never stay frozen: without any help of a coordinator or a
\* reader they are debited or given back.
FrozenFundsAreSettled ==
  \A p \in Payment : (reservation[p] = "FROZEN") ~> (reservation[p] # "FROZEN")

\* A payment whose global transaction DTM knows converges to a terminal
\* status, wherever its coordinator stopped and whichever reply was lost.
PreparedConverges ==
  \A p \in Payment :
    (status[p] = "PROCESSING" /\ trans[p] # "NONE") ~> (status[p] \in Terminal)

-----------------------------------------------------------------------------
(* What the documentation says and the code does not do.                   *)

\* README.md:140: a payment left PROCESSING converges when it is queried.
ProcessingConverges ==
  \A p \in Payment : (status[p] = "PROCESSING") ~> (status[p] \in Terminal)

\* README.md: a reset is refused while a payment is PROCESSING, so that no
\* PROCESSING payment is ever deleted.
ResetSparesActivePayments ==
  [][\A p \in Payment : status[p] = "PROCESSING" => status'[p] # "NONE"]_vars

-----------------------------------------------------------------------------
(* Abstract specifications implemented here.                               *)

\* The payment as its client sees it, and where its money is.
StageOf == [p \in Payment |->
  CASE status[p] = "NONE"                   -> "absent"
    [] status[p] \in {"INIT", "PROCESSING"} -> "open"
    [] OTHER                                -> status[p]]

MoneyOf == [p \in Payment |->
  CASE reservation[p] = "NONE"      -> "none"
    [] reservation[p] = "FROZEN"    -> "held"
    [] reservation[p] = "CONFIRMED" -> "paid"
    [] OTHER                        -> "returned"]

Contract == INSTANCE PaymentContract WITH
  stage <- StageOf, money <- MoneyOf, available <- balance.available

\* Two services, two databases' worth of tables and a transaction manager keep
\* the contract of the memory mode: no message order, loss or repetition, no
\* crash and no reset makes a step the contract does not have.
ImplementsContract == Contract!Spec

\* A branch whose try was made void before it ran counts as aborted.
BranchState(p, b) == IF b = "account" THEN reservation[p] ELSE ledger[p]

WorkOf == [p \in Payment |-> [b \in Branch |->
  CASE BranchState(p, b) \in {"FROZEN", "PREPARED"}  -> "prepared"
    [] BranchState(p, b) \in {"CONFIRMED", "POSTED"} -> "committed"
    [] BranchState(p, b) = "NONE" /\ "try" \notin barrier[p][b] -> "working"
    [] OTHER -> "aborted"]]

Commitment == INSTANCE AtomicCommit WITH work <- WorkOf

\* The two branches of every payment commit atomically, although neither
\* participant ever looks at the other: a branch confirms only when both are
\* prepared, and one that has aborted never prepares again.
ImplementsAtomicCommit == Commitment!Spec

=============================================================================
