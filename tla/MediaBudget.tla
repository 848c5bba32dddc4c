----------------------------- MODULE MediaBudget -----------------------------
(***************************************************************************)
(* The paid-media ledger of gemia/production_budget.py: one JSON document   *)
(* per production run, every operation one transaction under the thread     *)
(* lock and the file lock of _transaction, written back whole by an atomic  *)
(* replace.  An operation is therefore one action: a crash leaves either    *)
(* the document before it or the document after it.                        *)
(*                                                                         *)
(* Around the ledger stand the workers that carry out paid calls.  A worker *)
(* wins the claim first and talks to the provider afterwards, and it may    *)
(* die anywhere in between; the provider keeps whatever it was sent.        *)
(***************************************************************************)
EXTENDS Integers, FiniteSets, FiniteSetsExt

CONSTANTS
  Calls,           \* idempotency keys of paid calls; a key names its reservation
  Workers,         \* processes or threads that carry out paid calls
  Estimate,        \* [Calls -> Nat]: the estimated cost given to reserve
  Actuals,         \* the actual costs a provider may report
  Cap,             \* the hard cap of the run
  Videos,          \* the calls whose tool is generate_video
  Seconds,         \* [Calls -> Nat]: requested_duration_sec
  VeoMaxCalls,     \* limit on unreleased video rows
  VeoMaxSeconds,   \* limit on their summed duration
  ImportKeys,      \* keys of import_baseline
  ImportAmount     \* [ImportKeys -> Nat]

ASSUME CallsAssumption == IsFiniteSet(Calls)

ASSUME CostAssumption ==
  /\ Estimate \in [Calls -> Nat]
  /\ Actuals \subseteq Nat
  /\ Cap \in Nat
  /\ ImportAmount \in [ImportKeys -> Nat]

ASSUME VideoAssumption ==
  /\ Videos \subseteq Calls
  /\ Seconds \in [Calls -> Nat]
  /\ VeoMaxCalls \in Nat
  /\ VeoMaxSeconds \in Nat

VARIABLES
  row,        \* document["reservations"], by idempotency key
  baseline,   \* document["baseline_microusd"]
  imported,   \* the keys of document["baseline_imports"]
  worker,     \* what each worker is doing: the claim it holds, if any
  sent        \* how many requests the provider has received for each call

ledger == <<row, baseline, imported>>
vars == <<row, baseline, imported, worker, sent>>

-----------------------------------------------------------------------------
(* Rows and the money they stand for.                                      *)

ActiveStatuses == {"reserved", "submitted", "uncertain"}
FinalStatuses  == {"settled", "released"}
Statuses       == {"absent"} \union ActiveStatuses \union FinalStatuses

\* The statuses in which the provider may hold a request for the call.
PaidStatuses == {"submitted", "uncertain", "settled"}

Row == [status    : Statuses,
        actual    : Nat,
        operation : {"none", "attached"},               \* provider_operation_id
        asset     : {"none", "pending", "materialized"}]

BlankRow(status) ==
  [status |-> status, actual |-> 0, operation |-> "none", asset |-> "none"]

Charge(r, c) ==
  IF r.status \in ActiveStatuses THEN Estimate[c]
  ELSE IF r.status = "settled" THEN r.actual
  ELSE 0

CommittedBy(rows) == baseline + MapThenSumSet(LAMBDA c : Charge(rows[c], c), Calls)
Committed == CommittedBy(row)

\* Faulty variant: only rows that are still active count against the limits.
VideoRowsActiveOnly == {c \in Videos : row[c].status \in ActiveStatuses}

VideoRows == {c \in Videos : row[c].status \notin {"absent", "released"}}
VideoSeconds(S) == MapThenSumSet(LAMBDA c : Seconds[c], S)

FitsVideoLimits(c) ==
  c \in Videos =>
    /\ Cardinality(VideoRows) + 1 <= VeoMaxCalls
    /\ VideoSeconds(VideoRows) + Seconds[c] <= VeoMaxSeconds

-----------------------------------------------------------------------------
(* Ledger transactions.  A refused request leaves the document as it was,   *)
(* so only the accepting branches appear.                                  *)

\* import_baseline: spend of a migrated run, counted once per key.
ImportBaseline(k) ==
  /\ k \notin imported
  /\ Committed + ImportAmount[k] <= Cap
  /\ imported' = imported \union {k}
  /\ baseline' = baseline + ImportAmount[k]
  /\ UNCHANGED row

\* reserve, for a key the document does not hold yet.
Reserve(c) ==
  /\ row[c].status = "absent"
  /\ FitsVideoLimits(c)
  /\ Committed + Estimate[c] <= Cap
  /\ row' = [row EXCEPT ![c] = BlankRow("reserved")]
  /\ UNCHANGED <<baseline, imported>>

\* Faulty variant: a retry may claim a call whose outcome is unknown.
ClaimUncertainToo(c) ==
  /\ row[c].status \in {"reserved", "uncertain"}
  /\ row' = [row EXCEPT ![c].status = "submitted"]
  /\ UNCHANGED <<baseline, imported>>

\* claim_submission: reserved -> submitted.
ClaimSubmission(c) ==
  /\ row[c].status = "reserved"
  /\ row' = [row EXCEPT ![c].status = "submitted"]
  /\ UNCHANGED <<baseline, imported>>

AttachProviderOperation(c) ==
  /\ row[c].status \in PaidStatuses
  /\ row' = [row EXCEPT ![c].operation = "attached"]
  /\ UNCHANGED <<baseline, imported>>

\* Faulty variant: the reported cost is not held against the cap.
SettleUnchecked(c, actual, hasAsset, hasOperation) ==
  /\ row[c].status \in ActiveStatuses
  /\ row' = [row EXCEPT ![c].status = "settled", ![c].actual = actual,
                        ![c].asset = IF hasAsset THEN "pending" ELSE @,
                        ![c].operation = IF hasOperation THEN "attached" ELSE @]
  /\ UNCHANGED <<baseline, imported>>

\* settle: any active row; refused when the reported cost breaks the cap.
Settle(c, actual, hasAsset, hasOperation) ==
  LET settled == [row EXCEPT ![c].status = "settled", ![c].actual = actual]
  IN  /\ row[c].status \in ActiveStatuses
      /\ CommittedBy(settled) <= Cap
      /\ row' = [settled EXCEPT
                   ![c].asset = IF hasAsset THEN "pending" ELSE @,
                   ![c].operation = IF hasOperation THEN "attached" ELSE @]
      /\ UNCHANGED <<baseline, imported>>

MarkAssetMaterialized(c) ==
  /\ row[c].status = "settled"
  /\ row' = [row EXCEPT ![c].asset = "materialized"]
  /\ UNCHANGED <<baseline, imported>>

\* Faulty variant: a late error reopens a row that is settled.
MarkUncertainAnyRow(c) ==
  /\ row[c].status # "absent"
  /\ row' = [row EXCEPT ![c].status = "uncertain"]
  /\ UNCHANGED <<baseline, imported>>

\* mark_uncertain: any active row, the reserved one included.
MarkUncertain(c) ==
  /\ row[c].status \in ActiveStatuses
  /\ row' = [row EXCEPT ![c].status = "uncertain"]
  /\ UNCHANGED <<baseline, imported>>

Release(c) ==
  /\ row[c].status = "reserved"
  /\ row' = [row EXCEPT ![c].status = "released"]
  /\ UNCHANGED <<baseline, imported>>

\* Faulty variant: resume gives back every estimate its owner left behind.
OrphanVerdictReleasing(status) ==
  IF status \in {"reserved", "submitted"} THEN "released" ELSE status

\* reconcile_orphaned_reservation: the crash policy for a dead owner's row.
OrphanVerdict(status) ==
  CASE status = "reserved"  -> "released"
    [] status = "submitted" -> "uncertain"
    [] OTHER                -> status

ReconcileOrphaned(c) ==
  /\ row[c].status # "absent"
  /\ row' = [row EXCEPT ![c].status = OrphanVerdict(@)]
  /\ UNCHANGED <<baseline, imported>>

-----------------------------------------------------------------------------
(* Workers.  A worker is [pc |-> "idle"] or holds a claim it has won.       *)

Idle == [pc |-> "idle"]
Holding(pc, c) == [pc |-> pc, call |-> c]
WorkerStates == {Idle} \union {Holding(pc, c) : pc \in {"claimed", "sent"}, c \in Calls}

\* claim_paid_media_call: the claim is won in one transaction.
WorkerClaim(w, c) ==
  /\ worker[w] = Idle
  /\ ClaimSubmission(c)
  /\ worker' = [worker EXCEPT ![w] = Holding("claimed", c)]
  /\ UNCHANGED sent

\* The request leaves for the provider, after the ledger transaction.
WorkerSend(w, c) ==
  /\ worker[w] = Holding("claimed", c)
  /\ sent' = [sent EXCEPT ![c] = @ + 1]
  /\ worker' = [worker EXCEPT ![w] = Holding("sent", c)]
  /\ UNCHANGED ledger

\* The answer, or the exception that leaves the outcome unknown.
WorkerFinish(w, c) ==
  /\ worker[w] = Holding("sent", c)
  /\ \/ \E a \in Actuals, hasAsset, hasOp \in BOOLEAN : Settle(c, a, hasAsset, hasOp)
     \/ MarkUncertain(c)
     \/ row[c].status \in FinalStatuses /\ UNCHANGED ledger   \* settled already: a no-op
  /\ worker' = [worker EXCEPT ![w] = Idle]
  /\ UNCHANGED sent

\* A process dies with the workers in it, or an error leaves handlers early.
WorkersCrash(W) ==
  /\ worker' = [w \in Workers |-> IF w \in W THEN Idle ELSE worker[w]]
  /\ UNCHANGED <<row, baseline, imported, sent>>

\* Ledger calls that need no claim: budgeting, resume, the legacy wrappers.
LedgerCall ==
  /\ \/ \E k \in ImportKeys : ImportBaseline(k)
     \/ \E c \in Calls :
          \/ Reserve(c)
          \/ AttachProviderOperation(c)
          \/ \E a \in Actuals, hasAsset, hasOp \in BOOLEAN : Settle(c, a, hasAsset, hasOp)
          \/ MarkAssetMaterialized(c)
          \/ MarkUncertain(c)
          \/ Release(c)
          \/ ReconcileOrphaned(c)
  /\ UNCHANGED <<worker, sent>>

-----------------------------------------------------------------------------

Init ==
  /\ row = [c \in Calls |-> BlankRow("absent")]
  /\ baseline = 0
  /\ imported = {}
  /\ worker = [w \in Workers |-> Idle]
  /\ sent = [c \in Calls |-> 0]

Next ==
  \/ LedgerCall
  \/ \E w \in Workers, c \in Calls : WorkerClaim(w, c) \/ WorkerSend(w, c) \/ WorkerFinish(w, c)
  \/ \E W \in SUBSET Workers : WorkersCrash(W)

Spec == Init /\ [][Next]_vars

-----------------------------------------------------------------------------
(* Properties.                                                             *)

\* Every variable keeps its shape.
TypeOK ==
  /\ row \in [Calls -> Row]
  /\ baseline \in Nat
  /\ imported \subseteq ImportKeys
  /\ worker \in [Workers -> WorkerStates]
  /\ sent \in [Calls -> Nat]

\* Whatever is reserved, settled above its estimate or imported, and in
\* whatever order, the run never commits more than its hard cap
\* (production_budget.py: reserve, settle and import_baseline each check).
WithinCap == Committed <= Cap

\* "Only the first claimant is allowed to send a paid request" (module
\* docstring): with claims, crashes, reconciliation and late answers in any
\* order, the provider never receives two requests for one key.
SubmittedOnce == \A c \in Calls : sent[c] <= 1

\* A call the provider has received, or has given an operation id for, stays
\* charged: it is never released, so its estimate or its actual cost counts.
SentStaysCharged ==
  \A c \in Calls : sent[c] > 0 \/ row[c].operation = "attached" => row[c].status \in PaidStatuses

\* A final row never changes its status or its charge again, whichever late
\* answer, error or reconciliation reaches the ledger afterwards.
FinalIsFinal ==
  [][\A c \in Calls : row[c].status \in FinalStatuses =>
        /\ row'[c].status = row[c].status
        /\ row'[c].actual = row[c].actual]_vars

=============================================================================
