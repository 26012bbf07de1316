--------------------------------- MODULE Dtm ---------------------------------
(***************************************************************************)
(* The DTM transaction manager as internal/distributed uses it (external   *)
(* service): global transactions, registered branches, second-phase calls, *)
(* and the requests in flight to the participants.                         *)
(*                                                                         *)
(* A request once sent stays in `sent`: it may be delivered late, several  *)
(* times, in any order, or never.                                          *)
(***************************************************************************)
EXTENDS TccParticipants

VARIABLES
  trans,     \* dtm.trans_global.status of each gid, or "NONE"
  branches,  \* branches registered under each gid
  done,      \* branches whose second-phase call has been answered
  sent       \* branch operations put on the wire, per payment and branch

dtmVars == <<trans, branches, done, sent>>

TransStatus == {"NONE", "prepared", "submitted", "aborting", "succeed", "failed"}

DtmTypeOK ==
  /\ trans    \in [Payment -> TransStatus]
  /\ branches \in [Payment -> SUBSET Branch]
  /\ done     \in [Payment -> SUBSET Branch]
  /\ sent     \in [Payment -> [Branch -> SUBSET Op]]

DtmInit ==
  /\ trans    = [p \in Payment |-> "NONE"]
  /\ branches = [p \in Payment |-> {}]
  /\ done     = [p \in Payment |-> {}]
  /\ sent     = [p \in Payment |-> NoBarrierRows]

Send(p, b, op) == sent' = [sent EXCEPT ![p][b] = @ \cup {op}]

-----------------------------------------------------------------------------
(* Calls of the coordinator.                                               *)

MoveTrans(p, from, to) ==
  /\ trans[p] \in from
  /\ trans' = [trans EXCEPT ![p] = to]

Prepare(p) == MoveTrans(p, {"NONE"}, "prepared")
Submit(p)  == MoveTrans(p, {"prepared"}, "submitted")
Abort(p)   == MoveTrans(p, {"prepared"}, "aborting")

\* A branch is registered only while its transaction is still prepared.
RegisterBranch(p, b) ==
  /\ trans[p] = "prepared"
  /\ branches' = [branches EXCEPT ![p] = @ \cup {b}]

-----------------------------------------------------------------------------
(* DTM's own steps.                                                        *)

\* TimeoutToFail: a transaction left prepared is rolled back.
Expire(p) ==
  /\ MoveTrans(p, {"prepared"}, "aborting")
  /\ UNCHANGED <<branches, done, sent>>

SecondPhaseOp(p) == IF trans[p] = "submitted" THEN "confirm" ELSE "cancel"

\* Branches are completed in the reverse of their registration order.
NextBranch(p, b) ==
  /\ trans[p] \in {"submitted", "aborting"}
  /\ b \in branches[p] \ done[p]
  /\ b = "account" => "ledger" \notin branches[p] \ done[p]

CallBranch(p, b) ==
  /\ NextBranch(p, b)
  /\ Send(p, b, SecondPhaseOp(p))
  /\ UNCHANGED <<trans, branches, done>>

\* A participant answers success exactly when its barrier transaction, and
\* with it the row of the operation, has been committed.
BranchDone(p, b) ==
  /\ NextBranch(p, b)
  /\ SecondPhaseOp(p) \in sent[p][b] \cap barrier[p][b]
  /\ done' = [done EXCEPT ![p] = @ \cup {b}]
  /\ UNCHANGED <<trans, branches, sent>>

Finish(p) ==
  /\ trans[p] \in {"submitted", "aborting"}
  /\ done[p] = branches[p]
  /\ trans' = [trans EXCEPT ![p] = IF @ = "submitted" THEN "succeed" ELSE "failed"]
  /\ UNCHANGED <<branches, done, sent>>

=============================================================================
