---------------------------- MODULE ToolReceipts ----------------------------
(***************************************************************************)
(* Formal tool calls of gemia/production_store.py: a receipt on disk per    *)
(* (run, idempotency key), an execution lease held by the store that works  *)
(* on the call, and the resume pass that closes what dead owners left.      *)
(* The paid part of a call goes through the ledger of MediaBudget.          *)
(*                                                                         *)
(* A store is one ProductionStore in one process.  Stores share the disk;   *)
(* a store that crashed never comes back, its successor is another store.   *)
(* The dispatcher that runs a call is outside src/: it follows the order    *)
(* the docstrings require: claim, reserve, bind, submit, settle, complete.  *)
(***************************************************************************)
EXTENDS Integers, FiniteSets

CONSTANTS
  Stores,
  Runs,       \* production runs (project_id, run_id)
  Keys,       \* idempotency keys
  Nobody,
  Estimate, Actuals, Cap      \* as in MediaBudget, per (run, key)

Calls == Runs \X Keys
KeyOf(c) == c[2]
RunOf(c) == c[1]

ASSUME NobodyAssumption == Nobody \notin Stores /\ Nobody \notin Runs /\ Nobody \notin Calls
ASSUME MoneyAssumption == Actuals \subseteq Nat

VARIABLES
  receipt,    \* tool-call receipts on disk
  leaseFile,  \* which store holds the lock on a call's lease file
  leases,     \* per store, _tool_call_leases: key -> the run whose file it locked
  exec,       \* how far each store's dispatcher is with each call
  resume,     \* per store, the receipt its resume pass holds, with its verdict
  alive,      \* the stores whose process runs
  row,        \* the ledger's reservations
  sent        \* requests the provider received

vars == <<receipt, leaseFile, leases, exec, resume, alive, row, sent>>

-----------------------------------------------------------------------------

TerminalStatuses == {"succeeded", "background", "failed", "uncertain"}
Receipt == [status : {"absent", "claimed"} \union TerminalStatuses,
            owner  : Stores \union {Nobody},
            bound  : {"no", "yes"}]        \* reservation_id recorded

\* Progress of one execution.  "submitting" has won the claim on the money and
\* has not called the provider yet; the last three wait for complete_tool_call.
Progress == {"none", "claimed", "reserved", "bound", "submitting", "sent",
             "settled", "unsure", "abandoned"}

NotResuming == [call |-> Nobody, verdict |-> "none"]
Resuming(c, verdict) == [call |-> c, verdict |-> verdict]
Resumptions == {NotResuming} \union [call : Calls, verdict : {"failed", "uncertain"}]

\* The ledger, with one worker per execution.
Executions == Stores \X Calls

WorkerAt(progress, c) ==
  CASE progress = "submitting" -> [pc |-> "claimed", call |-> c]
    [] progress = "sent"       -> [pc |-> "sent", call |-> c]
    [] OTHER                   -> [pc |-> "idle"]
Working == [e \in Executions |-> WorkerAt(exec[e[1]][e[2]], e[2])]

Budget == INSTANCE MediaBudget WITH
  Workers <- Executions, Videos <- {}, Seconds <- [c \in Calls |-> 0],
  VeoMaxCalls <- 0, VeoMaxSeconds <- 0, ImportKeys <- {}, ImportAmount <- [k \in {} |-> 0],
  baseline <- 0, imported <- {}, worker <- Working

-----------------------------------------------------------------------------
(* The mutation lock and the lease.                                        *)

\* _cross_process_lock: a receipt is not touched while a resume pass holds it.
Unlocked(c) == \A s \in Stores : resume[s].call # c

\* _owns_tool_call_execution_lease and _assert_tool_call_owner.
HoldsLease(s, c) == leases[s][KeyOf(c)] # Nobody
IsOwner(s, c) == HoldsLease(s, c) /\ receipt[c].owner = s

\* Faulty variant: resume only looks at the receipts its own store claimed.
OwnerGoneMine(s, c) == ~HoldsLease(s, c) /\ leaseFile[c] = Nobody /\ receipt[c].owner = s

\* The resume pass's evidence: not ours, and the probe gets the file lock.
OwnerGone(s, c) == ~HoldsLease(s, c) /\ leaseFile[c] = Nobody

\* _acquire_tool_call_execution_lease: the map is looked up by key alone.
AcquireLease(s, c) ==
  IF HoldsLease(s, c)
  THEN UNCHANGED <<leaseFile, leases>>
  ELSE /\ leaseFile[c] = Nobody
       /\ leaseFile' = [leaseFile EXCEPT ![c] = s]
       /\ leases' = [leases EXCEPT ![s][KeyOf(c)] = RunOf(c)]

\* _release_tool_call_execution_lease: unlocks the file the map points to.
ReleaseLease(s, c) ==
  LET locked == <<leases[s][KeyOf(c)], KeyOf(c)>>
  IN  /\ leases' = [leases EXCEPT ![s][KeyOf(c)] = Nobody]
      /\ leaseFile' = [leaseFile EXCEPT ![locked] = Nobody]

-----------------------------------------------------------------------------
(* Store operations.                                                       *)

\* Faulty variant: a receipt that is still open may be claimed again.
WriteClaimAgain(s, c) ==
  /\ s \in alive
  /\ Unlocked(c)
  /\ receipt[c].status \in {"absent", "claimed"}
  /\ receipt' = [receipt EXCEPT ![c] = [status |-> "claimed", owner |-> s, bound |-> "no"]]

WriteClaim(s, c) ==
  /\ s \in alive
  /\ Unlocked(c)
  /\ receipt[c].status = "absent"
  /\ receipt' = [receipt EXCEPT ![c] = [status |-> "claimed", owner |-> s, bound |-> "no"]]

\* claim_tool_call of a key without a receipt; a duplicate changes nothing.
Claim(s, c) ==
  /\ WriteClaim(s, c)
  /\ AcquireLease(s, c)
  /\ exec' = [exec EXCEPT ![s][c] = "claimed"]
  /\ UNCHANGED <<resume, alive, row, sent>>

\* The same, with the run event refused by the disk: the receipt stays, the
\* lease is given back, and the caller gets the exception.
ClaimEventFails(s, c) ==
  /\ WriteClaim(s, c)
  /\ HoldsLease(s, c) \/ leaseFile[c] = Nobody
  /\ IF HoldsLease(s, c) THEN ReleaseLease(s, c) ELSE UNCHANGED <<leaseFile, leases>>
  /\ UNCHANGED <<exec, resume, alive, row, sent>>

\* bind_tool_call_reservation; an owner that lost its receipt gets an error.
Bind(s, c) ==
  /\ exec[s][c] = "reserved"
  /\ Unlocked(c)
  /\ IF receipt[c].status = "claimed" /\ IsOwner(s, c)
     THEN /\ receipt' = [receipt EXCEPT ![c].bound = "yes"]
          /\ exec' = [exec EXCEPT ![s][c] = "bound"]
     ELSE /\ exec' = [exec EXCEPT ![s][c] = "abandoned"]
          /\ UNCHANGED receipt
  /\ UNCHANGED <<leaseFile, leases, resume, alive, row, sent>>

Outcomes(progress) ==
  CASE progress = "claimed"   -> {"succeeded", "failed"}    \* a tool that costs nothing
    [] progress = "sent"      -> {"background"}
    [] progress = "settled"   -> {"succeeded"}
    [] progress = "unsure"    -> {"uncertain"}
    [] progress = "abandoned" -> {"failed"}
    [] OTHER                  -> {}

\* complete_tool_call: the owner's verdict and the release of its lease, or a
\* refusal when somebody else closed the receipt or the lease is gone.
Complete(s, c, status) ==
  /\ status \in Outcomes(exec[s][c])
  /\ Unlocked(c)
  /\ exec' = [exec EXCEPT ![s][c] = "none"]
  /\ IF receipt[c].status = "claimed" /\ IsOwner(s, c)
     THEN /\ receipt' = [receipt EXCEPT ![c].status = status]
          /\ ReleaseLease(s, c)
     ELSE /\ IF receipt[c].status = status /\ HoldsLease(s, c)
             THEN ReleaseLease(s, c)
             ELSE UNCHANGED <<leaseFile, leases>>
          /\ UNCHANGED receipt
  /\ UNCHANGED <<resume, alive, row, sent>>

\* The same, with the run event refused by the disk after the receipt was
\* written: the lease stays until the caller repeats the call.
CompleteEventFails(s, c, status) ==
  /\ status \in Outcomes(exec[s][c])
  /\ Unlocked(c)
  /\ receipt[c].status = "claimed"
  /\ IsOwner(s, c)
  /\ receipt' = [receipt EXCEPT ![c].status = status]
  /\ UNCHANGED <<leaseFile, leases, exec, resume, alive, row, sent>>

-----------------------------------------------------------------------------
(* The dispatcher's ledger and provider steps.                             *)

Move(s, c, from, to) ==
  /\ exec[s][c] = from
  /\ exec' = [exec EXCEPT ![s][c] = to]
  /\ UNCHANGED <<receipt, leaseFile, leases, resume, alive>>

ReserveBudget(s, c) ==
  /\ Budget!Reserve(c)
  /\ Move(s, c, "claimed", "reserved")
  /\ UNCHANGED sent

Submit(s, c) ==
  /\ Budget!ClaimSubmission(c)
  /\ Move(s, c, "bound", "submitting")
  /\ UNCHANGED sent

Send(s, c) ==
  /\ Move(s, c, "submitting", "sent")
  /\ sent' = [sent EXCEPT ![c] = @ + 1]
  /\ UNCHANGED row

Answer(s, c) ==
  /\ \/ \E a \in Actuals : Budget!Settle(c, a, TRUE, FALSE) /\ Move(s, c, "sent", "settled")
     \/ Budget!MarkUncertain(c) /\ Move(s, c, "sent", "unsure")
     \/ /\ row[c].status \in Budget!FinalStatuses
        /\ UNCHANGED row
        /\ Move(s, c, "sent", "settled")
  /\ UNCHANGED sent

\* A poller hears from the provider about a call that went to the background.
BackgroundAnswer(c) ==
  /\ receipt[c].status = "background"
  /\ \/ \E a \in Actuals : Budget!Settle(c, a, TRUE, FALSE)
     \/ Budget!MarkUncertain(c)
  /\ UNCHANGED <<receipt, leaseFile, leases, exec, resume, alive, sent>>

\* A failure before the money was claimed; the dispatcher may release first.
Abandon(s, c) ==
  /\ \/ Budget!Release(c)
     \/ UNCHANGED row
  /\ \E progress \in {"claimed", "reserved", "bound"} : Move(s, c, progress, "abandoned")
  /\ UNCHANGED sent

-----------------------------------------------------------------------------
(* Resume: reconcile_inflight_tool_calls, one receipt at a time.            *)

\* Faulty variant: a call whose owner is gone has failed.
VerdictFailed(status) == "failed"

Verdict(status) == IF status = "released" THEN "failed" ELSE "uncertain"

\* Faulty variant: the orphan's reservation is opened again for another attempt.
ResumeBudgetForRetry(s, c) ==
  /\ s \in alive
  /\ resume[s] = NotResuming
  /\ Unlocked(c)
  /\ receipt[c].status = "claimed"
  /\ OwnerGone(s, c)
  /\ leaseFile' = [leaseFile EXCEPT ![c] = s]
  /\ resume' = [resume EXCEPT ![s] = Resuming(c, "uncertain")]
  /\ row' = IF receipt[c].bound = "no" THEN row ELSE [row EXCEPT ![c].status = "reserved"]
  /\ UNCHANGED <<receipt, leases, exec, alive, sent>>

\* Under the mutation lock and the probed lease the budget decides ...
ResumeBudget(s, c) ==
  /\ s \in alive
  /\ resume[s] = NotResuming
  /\ Unlocked(c)
  /\ receipt[c].status = "claimed"
  /\ OwnerGone(s, c)
  /\ leaseFile' = [leaseFile EXCEPT ![c] = s]
  /\ IF receipt[c].bound = "no"
     THEN /\ resume' = [resume EXCEPT ![s] = Resuming(c, "failed")]
          /\ UNCHANGED row
     ELSE \/ /\ Budget!ReconcileOrphaned(c)
             /\ resume' = [resume EXCEPT ![s] = Resuming(c, Verdict(row'[c].status))]
          \/ /\ resume' = [resume EXCEPT ![s] = Resuming(c, "uncertain")]   \* ledger unreadable
             /\ UNCHANGED row
  /\ UNCHANGED <<receipt, leases, exec, alive, sent>>

\* ... and then the receipt is closed and the probe given back.
ResumeReceipt(s) ==
  /\ resume[s] # NotResuming
  /\ receipt' = [receipt EXCEPT ![resume[s].call].status = resume[s].verdict]
  /\ leaseFile' = [leaseFile EXCEPT ![resume[s].call] = Nobody]
  /\ resume' = [resume EXCEPT ![s] = NotResuming]
  /\ UNCHANGED <<leases, exec, alive, row, sent>>

\* The process dies; the kernel drops its locks.  One store always survives.
Crash(s) ==
  /\ s \in alive
  /\ alive # {s}
  /\ alive' = alive \ {s}
  /\ leaseFile' = [c \in Calls |-> IF leaseFile[c] = s THEN Nobody ELSE leaseFile[c]]
  /\ leases' = [leases EXCEPT ![s] = [k \in Keys |-> Nobody]]
  /\ exec' = [exec EXCEPT ![s] = [c \in Calls |-> "none"]]
  /\ resume' = [resume EXCEPT ![s] = NotResuming]
  /\ UNCHANGED <<receipt, row, sent>>

-----------------------------------------------------------------------------

Init ==
  /\ receipt = [c \in Calls |-> [status |-> "absent", owner |-> Nobody, bound |-> "no"]]
  /\ leaseFile = [c \in Calls |-> Nobody]
  /\ leases = [s \in Stores |-> [k \in Keys |-> Nobody]]
  /\ exec = [s \in Stores |-> [c \in Calls |-> "none"]]
  /\ resume = [s \in Stores |-> NotResuming]
  /\ alive = Stores
  /\ row = [c \in Calls |-> Budget!BlankRow("absent")]
  /\ sent = [c \in Calls |-> 0]

Execute(s, c) ==
  \/ Claim(s, c)
  \/ ClaimEventFails(s, c)
  \/ ReserveBudget(s, c)
  \/ Bind(s, c)
  \/ Submit(s, c)
  \/ Send(s, c)
  \/ Answer(s, c)
  \/ Abandon(s, c)
  \/ \E status \in TerminalStatuses : Complete(s, c, status) \/ CompleteEventFails(s, c, status)

Next ==
  \/ \E s \in Stores, c \in Calls : Execute(s, c) \/ ResumeBudget(s, c)
  \/ \E c \in Calls : BackgroundAnswer(c)
  \/ \E s \in Stores : ResumeReceipt(s) \/ Crash(s)

\* Stores are started again and resume their runs; nothing else is promised.
Fairness ==
  /\ \A c \in Calls : WF_vars(\E s \in Stores : ResumeBudget(s, c))
  /\ \A s \in Stores : WF_vars(ResumeReceipt(s))

Spec == Init /\ [][Next]_vars /\ Fairness

-----------------------------------------------------------------------------
(* Properties.                                                             *)

\* Every variable keeps its shape.
TypeOK ==
  /\ receipt \in [Calls -> Receipt]
  /\ leaseFile \in [Calls -> Stores \union {Nobody}]
  /\ leases \in [Stores -> [Keys -> Runs \union {Nobody}]]
  /\ exec \in [Stores -> [Calls -> Progress]]
  /\ resume \in [Stores -> Resumptions]
  /\ alive \subseteq Stores
  /\ row \in [Calls -> Budget!Row]
  /\ sent \in [Calls -> Nat]

\* "Claim one formal tool execution": however stores, crashes and resumes
\* interleave, a call is never executed by two stores.
OneExecution ==
  \A c \in Calls, s, t \in Stores : exec[s][c] # "none" /\ exec[t][c] # "none" => s = t

\* A receipt that says "failed" is a promise that no request for the call ever
\* reached the provider, whether its owner or a resume pass wrote it.
FailedMeansUnsent == \A c \in Calls : receipt[c].status = "failed" => sent[c] = 0

\* A call whose owner died is closed in the end.
OrphansAreClosed ==
  \A c \in Calls :
    receipt[c].status = "claimed" /\ receipt[c].owner \notin alive
      ~> receipt[c].status # "claimed"

\* The calls use the ledger as its own specification allows, so what is proved
\* of MediaBudget (one submission per key, nothing sent is released) holds here.
UsesLedgerAsSpecified == Budget!Spec

=============================================================================
