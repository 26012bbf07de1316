------------------------------ MODULE LocalPayment -----------------------------
(***************************************************************************)
(* The memory mode (internal/service/payment.go on internal/store): the    *)
(* Create workflow calls the repository several times under the lock of    *)
(* its idempotency key; callbacks, closing and reset take no key lock and  *)
(* may come between any two of its calls.                                  *)
(*                                                                         *)
(* A Create request is named by the payment id it generates.  The lock is  *)
(* KeyMutex, which KeyLock implements.                                     *)
(***************************************************************************)
EXTENDS MemoryStore

CONSTANTS
  Fault,        \* fault each Create request injects
  AutoConfirm,  \* requests that confirm themselves
  Channel,      \* callbacks the payment channel may send
  OwnEvent      \* the event id of a payment's own confirmation

ASSUME WorkflowAssumption ==
  /\ Fault \in [Payment -> {"none", "before_freeze", "after_freeze"}]
  /\ AutoConfirm \subseteq Payment
  /\ Channel \subseteq Callback
  /\ OwnEvent \in [Payment -> EventId]

VARIABLES
  key,     \* the state of each request at its key lock
  pc,      \* the next step of each Create request
  answer   \* what each Create request returned

vars == <<storeVars, key, pc, answer>>

Lock == INSTANCE KeyMutex WITH Caller <- Payment, state <- key

Answer == Status \cup {"none", "conflict", "error"}

TypeOK ==
  /\ StoreTypeOK
  /\ key    \in [Payment -> {"idle", "waiting", "holding"}]
  /\ pc     \in [Payment -> {"idle", "insert", "start", "freeze", "fail", "confirm", "release", "done"}]
  /\ answer \in [Payment -> Answer]

Init ==
  /\ Empty
  /\ Lock!Init
  /\ pc     = [p \in Payment |-> "idle"]
  /\ answer = [p \in Payment |-> "none"]

-----------------------------------------------------------------------------
(* The Create workflow.                                                    *)

AskKey(p) ==
  /\ pc[p] = "idle"
  /\ Lock!Ask(p)
  /\ pc' = [pc EXCEPT ![p] = "insert"]
  /\ UNCHANGED <<storeVars, answer>>

EnterKey(p) ==
  /\ Lock!Enter(p)
  /\ UNCHANGED <<storeVars, pc, answer>>

At(p, step) == pc[p] = step /\ key[p] = "holding" /\ UNCHANGED key

Goto(p, step) ==
  /\ pc' = [pc EXCEPT ![p] = step]
  /\ UNCHANGED answer

\* Returning runs the deferred release of the key.
Return(p, a) ==
  /\ pc' = [pc EXCEPT ![p] = "release"]
  /\ answer' = [answer EXCEPT ![p] = a]

Insert(p) ==
  /\ At(p, "insert")
  /\ \/ CreatePayment(p) /\ Goto(p, "start")
     \/ \E q \in Payment :
          /\ Original(p, q)
          /\ Refused
          /\ Return(p, IF Fingerprint[q] = Fingerprint[p] THEN status[q] ELSE "conflict")

Start(p) ==
  /\ At(p, "start")
  /\ \/ StartPayment(p, "ok") /\ Goto(p, IF Fault[p] = "before_freeze" THEN "fail" ELSE "freeze")
     \/ StartPayment(p, "error") /\ Return(p, "error")

AfterFreeze(p) ==
  IF Fault[p] = "after_freeze" THEN Goto(p, "fail")
  ELSE IF p \in AutoConfirm THEN Goto(p, "confirm")
  ELSE Return(p, "PROCESSING")

\* Mutant: a payment whose funds cannot be frozen is not failed.
TryFreezeOrGiveUp(p) ==
  /\ At(p, "freeze")
  /\ \/ Freeze(p, "ok") /\ AfterFreeze(p)
     \/ Freeze(p, "failed") /\ Return(p, "error")
     \/ Freeze(p, "error") /\ Return(p, "error")

TryFreeze(p) ==
  /\ At(p, "freeze")
  /\ \/ Freeze(p, "ok") /\ AfterFreeze(p)
     \/ Freeze(p, "failed") /\ Goto(p, "fail")
     \/ Freeze(p, "error") /\ Return(p, "error")

\* Mutant: a payment that cannot be failed is tried again.
FailUntilDone(p) ==
  /\ At(p, "fail")
  /\ \/ FailAndRelease(p, "ok") /\ Return(p, "FAILED")
     \/ FailAndRelease(p, "error") /\ Goto(p, "fail")

Fail(p) ==
  /\ At(p, "fail")
  /\ \/ FailAndRelease(p, "ok") /\ Return(p, "FAILED")
     \/ FailAndRelease(p, "error") /\ Return(p, "error")

OwnCallback(p) == [event |-> OwnEvent[p], sequence |-> 1, outcome |-> "success"]

Confirm(p) ==
  /\ At(p, "confirm")
  /\ \/ ProcessCallback(p, OwnCallback(p), "ok") /\ Return(p, status'[p])
     \/ ProcessCallback(p, OwnCallback(p), "error") /\ Return(p, "error")

ReleaseKey(p) ==
  /\ pc[p] = "release"
  /\ Lock!Leave(p)
  /\ pc' = [pc EXCEPT ![p] = "done"]
  /\ UNCHANGED <<storeVars, answer>>

Create(p) ==
  Insert(p) \/ Start(p) \/ TryFreeze(p) \/ Fail(p) \/ Confirm(p) \/ ReleaseKey(p)

-----------------------------------------------------------------------------
(* The other requests: one repository call each.                           *)

OnlyStore == UNCHANGED <<key, pc, answer>>

\* A callback with the before_confirm fault only records that and is left out.
ChannelCallback(p) ==
  /\ \E cb \in Channel, result \in {"ok", "error"} : ProcessCallback(p, cb, result)
  /\ OnlyStore

Close(p) == ClosePayment(p) /\ OnlyStore

Reset == ResetStore /\ OnlyStore

Next ==
  \/ \E p \in Payment : AskKey(p)
  \/ \E p \in Payment : EnterKey(p)
  \/ \E p \in Payment : Create(p)
  \/ \E p \in Payment : ChannelCallback(p)
  \/ \E p \in Payment : Close(p)
  \/ Reset

Spec == Init /\ [][Next]_vars

\* A workflow that can run does run, and whoever waits for a key gets it
\* (KeyLock, EveryWaiterEnters).
FairSpec == Spec /\ \A p \in Payment : SF_vars(EnterKey(p)) /\ WF_vars(Create(p))

-----------------------------------------------------------------------------
\* What a Create request returns is never a state between two repository
\* calls of its own workflow or of the one it repeats: a payment reported as
\* PROCESSING has its funds frozen, and none is reported as INIT.
NoTransientAnswer ==
  [][\A p \in Payment :
       /\ answer'[p] # "INIT"
       /\ answer'[p] = "PROCESSING" /\ answer[p] = "none" =>
            \E q \in Payment : Key[q] = Key[p] /\ status'[q] = "PROCESSING" /\ reservation'[q] = "FROZEN"]_vars

\* Once its Create request is answered, a payment is finished, gone, or holds
\* its funds and waits for its callback: no fault, no refusal, and nothing that
\* came between two store calls leaves one half way, where it can neither
\* be charged nor tried again.
NoneHalfway ==
  \A p \in Payment :
    pc[p] \in {"release", "done"} /\ status[p] \notin Final \cup {"NONE"} =>
      status[p] = "PROCESSING" /\ Frozen(p)

\* Every Create request is answered: no workflow gets stuck and no key stays
\* locked, whatever happens to the payment meanwhile.
EveryCreateReturns == \A p \in Payment : pc[p] = "insert" ~> pc[p] = "done"

-----------------------------------------------------------------------------
(* The contract both modes share.                                          *)

\* The payment as its client sees it, and where its money is.
StageOf == [p \in Payment |->
  CASE status[p] = "NONE"                   -> "absent"
    [] status[p] \in {"INIT", "PROCESSING"} -> "open"
    [] OTHER                                -> status[p]]

MoneyOf == [p \in Payment |->
  CASE reservation[p] = "NONE"      -> "none"
    [] reservation[p] = "FROZEN"    -> "held"
    [] reservation[p] = "CONFIRMED" -> "paid"
    [] OTHER                        -> "returned"]

Contract == INSTANCE PaymentContract WITH
  stage <- StageOf, money <- MoneyOf, available <- balance.available

\* Whatever comes between two store calls of Create, each call is one step of
\* the contract: money is held once, only while the payment is open, and is
\* paid or returned in the step that ends the payment.
ImplementsContract == Contract!Spec

=============================================================================
