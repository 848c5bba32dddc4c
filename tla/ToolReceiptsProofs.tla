------------------------- MODULE ToolReceiptsProofs -------------------------
(***************************************************************************)
(* What the receipts guarantee for every number of stores, runs and keys:   *)
(* one execution per call, no "failed" for a call that was sent, and a      *)
(* ledger used as MediaBudget specifies.                                    *)
(***************************************************************************)
EXTENDS ToolReceipts, TLAPS

\* How a transaction may move a row, as far as the receipts rely on it.
RowStep(old, new) ==
  /\ old.status \in Budget!PaidStatuses => new.status \in Budget!PaidStatuses
  /\ new.status = "reserved" => old.status \in {"absent", "reserved"}
  /\ old.status = "released" => new.status = "released"

LedgerStep ==
  /\ row' \in [Calls -> Budget!Row]
  /\ \A c \in Calls : RowStep(row[c], row'[c])

-----------------------------------------------------------------------------
(* The ledger's transactions.                                              *)

LEMMA Transactions ==
  ASSUME row \in [Calls -> Budget!Row]
  PROVE  /\ \A c \in Calls : Budget!Reserve(c) => LedgerStep
         /\ \A c \in Calls : Budget!ClaimSubmission(c) => LedgerStep
         /\ \A c \in Calls, a \in Actuals : Budget!Settle(c, a, TRUE, FALSE) => LedgerStep
         /\ \A c \in Calls : Budget!MarkUncertain(c) => LedgerStep
         /\ \A c \in Calls : Budget!Release(c) => LedgerStep
         /\ \A c \in Calls : Budget!ReconcileOrphaned(c) => LedgerStep
         /\ UNCHANGED row => LedgerStep
<1> USE MoneyAssumption DEF LedgerStep, RowStep, Budget!Row, Budget!BlankRow, Budget!Statuses,
                           Budget!ActiveStatuses, Budget!FinalStatuses, Budget!PaidStatuses
<1>1. \A c \in Calls : Budget!Reserve(c) => LedgerStep
  BY DEF Budget!Reserve
<1>2. \A c \in Calls : Budget!ClaimSubmission(c) => LedgerStep
  BY DEF Budget!ClaimSubmission
<1>3. ASSUME NEW c \in Calls, NEW a \in Actuals, Budget!Settle(c, a, TRUE, FALSE)
      PROVE  LedgerStep
  <2> DEFINE settled == [row[c] EXCEPT !.status = "settled", !.actual = a]
             final   == [settled EXCEPT !.asset = "pending"]
  <2>1. final \in Budget!Row /\ final.status = "settled"
    <3>1. a \in Nat /\ settled \in Budget!Row /\ settled.status = "settled"
      OBVIOUS
    <3> HIDE DEF settled
    <3>2. QED  BY <3>1
  <2>2. row' = [row EXCEPT ![c] = final]
    BY <1>3 DEF Budget!Settle
  <2>3. row[c].status \in Budget!ActiveStatuses
    BY <1>3 DEF Budget!Settle
  <2> HIDE DEF final
  <2>4. QED
    BY <2>1, <2>2, <2>3
<1>4. \A c \in Calls : Budget!MarkUncertain(c) => LedgerStep
  BY DEF Budget!MarkUncertain
<1>5. \A c \in Calls : Budget!Release(c) => LedgerStep
  BY DEF Budget!Release
<1>6. \A c \in Calls : Budget!ReconcileOrphaned(c) => LedgerStep
  BY DEF Budget!ReconcileOrphaned, Budget!OrphanVerdict
<1>7. UNCHANGED row => LedgerStep
  OBVIOUS
<1>8. QED
  BY <1>1, <1>2, <1>3, <1>4, <1>5, <1>6, <1>7

-----------------------------------------------------------------------------
(* The receipts.                                                           *)

Held == {"claimed", "reserved", "bound", "abandoned"}     \* nothing was sent yet
Paying == {"submitting", "sent", "settled", "unsure"}     \* the claim on the money was won

\* One store executes a call, the one its receipt names.
OwnerInv ==
  \A c \in Calls :
    /\ receipt[c].status = "absent" => receipt[c].bound = "no"
    /\ \A s \in Stores :
         exec[s][c] # "none" => receipt[c].status # "absent" /\ receipt[c].owner = s

\* How the progress of a call shows in its receipt and its row.
MoneyInv ==
  \A c \in Calls :
    /\ sent[c] > 0 => receipt[c].bound = "yes" /\ row[c].status \in Budget!PaidStatuses
    /\ \A s \in Stores :
         /\ exec[s][c] \in Held \union {"submitting"} => sent[c] = 0
         /\ exec[s][c] \in Paying => row[c].status \in Budget!PaidStatuses
         /\ exec[s][c] \in Paying \union {"bound"} => receipt[c].bound = "yes"

\* Nothing was sent for c, and no execution can get as far as sending any more.
NeverSent(c) ==
  /\ sent[c] = 0
  /\ \A s \in Stores :
       /\ exec[s][c] \notin Paying
       /\ exec[s][c] = "bound" => row[c].status = "released"

\* "failed" is only concluded, by an owner or by a resume pass, of such a call.
FailedInv ==
  /\ \A c \in Calls : receipt[c].status = "failed" => NeverSent(c)
  /\ \A s \in Stores, c \in Calls :
       resume[s].call = c =>
         /\ receipt[c].status = "claimed"
         /\ resume[s].verdict = "failed" => NeverSent(c)

\* A receipt that a resume pass holds is held by this one only.
ResumeInv ==
  \A s, t \in Stores, c \in Calls : resume[s].call = c /\ resume[t].call = c => s = t

Inv == TypeOK /\ OwnerInv /\ MoneyInv /\ FailedInv /\ ResumeInv

-----------------------------------------------------------------------------
(* Types.                                                                  *)

LEMMA ResumptionFacts ==
  /\ \A r \in Resumptions :
       /\ r # NotResuming => r.call \in Calls /\ r.verdict \in {"failed", "uncertain"}
       /\ r.call \in Calls => r # NotResuming
  /\ \A c \in Calls, v \in {"failed", "uncertain"} :
       /\ Resuming(c, v) \in Resumptions
       /\ Resuming(c, v).call = c /\ Resuming(c, v).verdict = v
  /\ NotResuming \in Resumptions /\ NotResuming.call \notin Calls
BY NobodyAssumption DEF Resumptions, Resuming, NotResuming

\* Every step is one of the store's, a poller's, a resume pass's or a crash.
LEMMA Steps ==
  ASSUME [Next]_vars
  PROVE  \/ \E s \in Stores, c \in Calls : Execute(s, c)
         \/ \E s \in Stores, c \in Calls : ResumeBudget(s, c)
         \/ \E c \in Calls : BackgroundAnswer(c)
         \/ \E s \in Stores : ResumeReceipt(s)
         \/ \E s \in Stores : Crash(s)
         \/ UNCHANGED vars
BY DEF Next

\* The ledger only changes by its own transactions.
LEMMA NextIsLedgerStep ==
  ASSUME TypeOK, [Next]_vars
  PROVE  LedgerStep
<1>1. row \in [Calls -> Budget!Row]
  BY DEF TypeOK
<1>2. UNCHANGED row => LedgerStep
  BY <1>1, Transactions
<1>3. ASSUME NEW s \in Stores, NEW c \in Calls, Execute(s, c)
      PROVE  LedgerStep
  BY <1>1, <1>2, <1>3, Transactions
  DEF Execute, Claim, ClaimEventFails, ReserveBudget, Bind, Submit, Send, Answer, Abandon,
      Complete, CompleteEventFails
<1>4. ASSUME NEW s \in Stores, NEW c \in Calls, ResumeBudget(s, c)
      PROVE  LedgerStep
  BY <1>1, <1>2, <1>4, Transactions DEF ResumeBudget
<1>5. ASSUME NEW c \in Calls, BackgroundAnswer(c)
      PROVE  LedgerStep
  BY <1>1, <1>5, Transactions DEF BackgroundAnswer
<1>6. ASSUME NEW s \in Stores, ResumeReceipt(s) \/ Crash(s)
      PROVE  LedgerStep
  BY <1>2, <1>6 DEF ResumeReceipt, Crash
<1>7. QED
  BY <1>2, <1>3, <1>4, <1>5, <1>6, Steps DEF vars

\* What each variable may become in a step of a store.
LEMMA ExecuteSteps ==
  ASSUME NEW s \in Stores, NEW c \in Calls, Execute(s, c)
  PROVE  /\ \/ UNCHANGED receipt
            \/ receipt' = [receipt EXCEPT ![c] = [status |-> "claimed", owner |-> s, bound |-> "no"]]
            \/ receipt' = [receipt EXCEPT ![c].bound = "yes"]
            \/ \E v \in TerminalStatuses : receipt' = [receipt EXCEPT ![c].status = v]
         /\ \/ UNCHANGED <<leaseFile, leases>>
            \/ AcquireLease(s, c)
            \/ ReleaseLease(s, c)
         /\ \/ UNCHANGED exec
            \/ \E p \in Progress : exec' = [exec EXCEPT ![s][c] = p]
         /\ UNCHANGED <<resume, alive>>
         /\ \/ UNCHANGED sent
            \/ sent' = [sent EXCEPT ![c] = @ + 1]
<1> USE DEF Move, Progress, TerminalStatuses
<1>1. CASE Claim(s, c)
  BY <1>1 DEF Claim, WriteClaim
<1>2. CASE ClaimEventFails(s, c)
  BY <1>2 DEF ClaimEventFails, WriteClaim
<1>3. CASE ReserveBudget(s, c) \/ Submit(s, c) \/ Send(s, c) \/ Answer(s, c) \/ Abandon(s, c)
  BY <1>3 DEF ReserveBudget, Submit, Send, Answer, Abandon
<1>4. CASE Bind(s, c)
  BY <1>4 DEF Bind
<1>5. ASSUME NEW v \in TerminalStatuses, Complete(s, c, v) \/ CompleteEventFails(s, c, v)
      PROVE  /\ UNCHANGED receipt \/ receipt' = [receipt EXCEPT ![c].status = v]
             /\ UNCHANGED <<leaseFile, leases>> \/ ReleaseLease(s, c)
             /\ UNCHANGED exec \/ exec' = [exec EXCEPT ![s][c] = "none"]
             /\ UNCHANGED <<resume, alive, sent>>
  BY <1>5 DEF Complete, CompleteEventFails
<1>6. QED
  BY <1>1, <1>2, <1>3, <1>4, <1>5 DEF Execute

LEMMA TypeStep ==
  ASSUME TypeOK, [Next]_vars
  PROVE  TypeOK'
<1>0. /\ receipt \in [Calls -> Receipt]
      /\ leaseFile \in [Calls -> Stores \union {Nobody}]
      /\ leases \in [Stores -> [Keys -> Runs \union {Nobody}]]
      /\ exec \in [Stores -> [Calls -> Progress]]
      /\ resume \in [Stores -> Resumptions]
      /\ alive \subseteq Stores /\ sent \in [Calls -> Nat]
  BY DEF TypeOK
<1> DEFINE Typed == /\ receipt' \in [Calls -> Receipt]
                    /\ leaseFile' \in [Calls -> Stores \union {Nobody}]
                    /\ leases' \in [Stores -> [Keys -> Runs \union {Nobody}]]
                    /\ exec' \in [Stores -> [Calls -> Progress]]
                    /\ resume' \in [Stores -> Resumptions]
                    /\ alive' \subseteq Stores /\ sent' \in [Calls -> Nat]
<1>1. ASSUME NEW s \in Stores, NEW c \in Calls, Execute(s, c)
      PROVE  Typed
  <2>1. receipt' \in [Calls -> Receipt]
    <3>1. \A r \in Receipt : /\ [r EXCEPT !.bound = "yes"] \in Receipt
                             /\ \A v \in TerminalStatuses : [r EXCEPT !.status = v] \in Receipt
      BY DEF Receipt
    <3>2. [status |-> "claimed", owner |-> s, bound |-> "no"] \in Receipt
      BY DEF Receipt
    <3>3. receipt \in [Calls -> Receipt] /\ receipt[c] \in Receipt
      BY <1>0
    <3>4. \/ receipt' = receipt
          \/ \E r \in Receipt : receipt' = [receipt EXCEPT ![c] = r]
      <4> HIDE DEF Typed
      <4>1. CASE receipt' = [receipt EXCEPT ![c].bound = "yes"]
        BY <3>1, <3>3, <4>1
      <4>2. ASSUME NEW v \in TerminalStatuses, receipt' = [receipt EXCEPT ![c].status = v]
            PROVE  \E r \in Receipt : receipt' = [receipt EXCEPT ![c] = r]
        BY <3>1, <3>3, <4>2
      <4>3. QED
        BY <1>1, <3>2, <4>1, <4>2, ExecuteSteps
    <3>5. QED
      BY <3>3, <3>4
  <2>2. /\ leaseFile' \in [Calls -> Stores \union {Nobody}]
        /\ leases' \in [Stores -> [Keys -> Runs \union {Nobody}]]
    <3>1. KeyOf(c) \in Keys /\ RunOf(c) \in Runs
      BY DEF Calls, KeyOf, RunOf
    <3>2. UNCHANGED <<leaseFile, leases>> \/ AcquireLease(s, c) \/ ReleaseLease(s, c)
      BY <1>1, ExecuteSteps
    <3>3. leaseFile \in [Calls -> Stores \union {Nobody}]
      BY <1>0
    <3>4. leases \in [Stores -> [Keys -> Runs \union {Nobody}]]
      BY <1>0
    <3>5. \A r \in Runs \union {Nobody} :
            [leases EXCEPT ![s][KeyOf(c)] = r] \in [Stores -> [Keys -> Runs \union {Nobody}]]
      BY <3>1, <3>4
    <3>6. CASE AcquireLease(s, c)
      <4>1. \/ leaseFile' = leaseFile /\ leases' = leases
            \/ /\ leaseFile' = [leaseFile EXCEPT ![c] = s]
               /\ leases' = [leases EXCEPT ![s][KeyOf(c)] = RunOf(c)]
        BY <3>6 DEF AcquireLease
      <4>2. [leaseFile EXCEPT ![c] = s] \in [Calls -> Stores \union {Nobody}]
        BY <3>3
      <4>3. QED
        BY <3>1, <3>3, <3>4, <3>5, <4>1, <4>2
    <3>7. CASE ReleaseLease(s, c)
      BY <3>3, <3>5, <3>7 DEF ReleaseLease
    <3>8. QED
      BY <3>2, <3>3, <3>4, <3>6, <3>7
  <2>3. exec' \in [Stores -> [Calls -> Progress]]
    <3>1. exec \in [Stores -> [Calls -> Progress]]
      BY <1>0
    <3>2. \A p \in Progress : [exec EXCEPT ![s][c] = p] \in [Stores -> [Calls -> Progress]]
      BY <3>1
    <3>3. exec' = exec \/ \E p \in Progress : exec' = [exec EXCEPT ![s][c] = p]
      BY <1>1, ExecuteSteps
    <3>4. QED
      BY <3>1, <3>2, <3>3
  <2>4. QED
    BY <1>0, <1>1, <2>1, <2>2, <2>3, ExecuteSteps
<1>2. ASSUME NEW s \in Stores, NEW c \in Calls, ResumeBudget(s, c)
      PROVE  Typed
  <2>1. \E v \in {"failed", "uncertain"} : resume' = [resume EXCEPT ![s] = Resuming(c, v)]
    BY <1>2 DEF ResumeBudget, Verdict
  <2>2. QED
    BY <1>0, <1>2, <2>1, ResumptionFacts DEF ResumeBudget
<1>3. ASSUME NEW c \in Calls, BackgroundAnswer(c)
      PROVE  Typed
  BY <1>0, <1>3 DEF BackgroundAnswer
<1>4. ASSUME NEW s \in Stores, ResumeReceipt(s)
      PROVE  Typed
  <2>1. resume[s].call \in Calls /\ resume[s].verdict \in TerminalStatuses
    BY <1>0, <1>4, ResumptionFacts DEF ResumeReceipt, TerminalStatuses
  <2>2. \A r \in Receipt, v \in TerminalStatuses : [r EXCEPT !.status = v] \in Receipt
    BY DEF Receipt
  <2>3. QED
    BY <1>0, <1>4, <2>1, <2>2, ResumptionFacts DEF ResumeReceipt
<1>5. ASSUME NEW s \in Stores, Crash(s)
      PROVE  Typed
  BY <1>0, <1>5, ResumptionFacts DEF Crash, Progress
<1>6. ASSUME UNCHANGED vars
      PROVE  Typed
  BY <1>0, <1>6 DEF vars
<1>7. row' \in [Calls -> Budget!Row]
  BY NextIsLedgerStep DEF LedgerStep
<1>8. QED
  BY <1>1, <1>2, <1>3, <1>4, <1>5, <1>6, <1>7, Steps DEF TypeOK

-----------------------------------------------------------------------------
(* The invariant, action by action.                                        *)

Safe == OwnerInv /\ MoneyInv /\ FailedInv /\ ResumeInv

LEMMA ExecAt ==
  ASSUME TypeOK, NEW s \in Stores, NEW c \in Calls, NEW p, exec' = [exec EXCEPT ![s][c] = p]
  PROVE  \A t \in Stores, d \in Calls : exec'[t][d] = IF t = s /\ d = c THEN p ELSE exec[t][d]
BY DEF TypeOK

\* Rewriting one field of a receipt leaves the others, and every other receipt.
LEMMA ReceiptAt ==
  ASSUME TypeOK, NEW c \in Calls, NEW v \in TerminalStatuses
  PROVE  /\ receipt' = [receipt EXCEPT ![c].bound = "yes"] =>
              /\ \A d \in Calls : d # c => receipt'[d] = receipt[d]
              /\ receipt'[c].bound = "yes"
              /\ receipt'[c].status = receipt[c].status /\ receipt'[c].owner = receipt[c].owner
         /\ receipt' = [receipt EXCEPT ![c].status = v] =>
              /\ \A d \in Calls : d # c => receipt'[d] = receipt[d]
              /\ receipt'[c].status = v
              /\ receipt'[c].bound = receipt[c].bound /\ receipt'[c].owner = receipt[c].owner
<1>1. receipt \in [Calls -> Receipt]
  BY DEF TypeOK
<1>2. \A r \in Receipt :
        /\ [r EXCEPT !.bound = "yes"].bound = "yes"
        /\ [r EXCEPT !.bound = "yes"].status = r.status /\ [r EXCEPT !.bound = "yes"].owner = r.owner
        /\ [r EXCEPT !.status = v].status = v
        /\ [r EXCEPT !.status = v].bound = r.bound /\ [r EXCEPT !.status = v].owner = r.owner
  BY DEF Receipt
<1>3. /\ receipt[c] \in Receipt
      /\ receipt' = [receipt EXCEPT ![c].bound = "yes"] =>
           /\ \A d \in Calls : d # c => receipt'[d] = receipt[d]
           /\ receipt'[c] = [receipt[c] EXCEPT !.bound = "yes"]
      /\ receipt' = [receipt EXCEPT ![c].status = v] =>
           /\ \A d \in Calls : d # c => receipt'[d] = receipt[d]
           /\ receipt'[c] = [receipt[c] EXCEPT !.status = v]
  BY <1>1
<1>4. CASE receipt' = [receipt EXCEPT ![c].bound = "yes"]
  <2>1. receipt'[c] = [receipt[c] EXCEPT !.bound = "yes"]
        /\ \A d \in Calls : d # c => receipt'[d] = receipt[d]
    BY <1>3, <1>4
  <2>2. /\ receipt'[c].bound = "yes"
        /\ receipt'[c].status = receipt[c].status /\ receipt'[c].owner = receipt[c].owner
    BY <1>2, <1>3, <2>1
  <2>3. receipt' # [receipt EXCEPT ![c].status = v] \/ receipt'[c].status = v
    BY <1>2, <1>3
  <2>4. receipt' = [receipt EXCEPT ![c].status = v] =>
          receipt'[c].bound = receipt[c].bound /\ receipt'[c].owner = receipt[c].owner
    BY <1>2, <1>3
  <2>5. QED
    BY <2>1, <2>2, <2>3, <2>4
<1>5. CASE receipt' = [receipt EXCEPT ![c].status = v] /\ receipt' # [receipt EXCEPT ![c].bound = "yes"]
  <2>1. receipt'[c] = [receipt[c] EXCEPT !.status = v]
        /\ \A d \in Calls : d # c => receipt'[d] = receipt[d]
    BY <1>3, <1>5
  <2>2. /\ receipt'[c].status = v
        /\ receipt'[c].bound = receipt[c].bound /\ receipt'[c].owner = receipt[c].owner
    BY <1>2, <1>3, <2>1
  <2>3. QED
    BY <1>5, <2>1, <2>2
<1>6. QED
  BY <1>4, <1>5

\* A claim writes the first receipt of its call.
LEMMA WriteClaimKeeps ==
  ASSUME Inv, NEW s \in Stores, NEW c \in Calls, WriteClaim(s, c),
         \/ exec' = [exec EXCEPT ![s][c] = "claimed"]
         \/ UNCHANGED exec,
         UNCHANGED <<resume, row, sent>>
  PROVE  Safe'
<1>1. TypeOK /\ Safe
  BY DEF Inv, Safe
<1>2. \A t \in Stores, d \in Calls :
        exec'[t][d] = exec[t][d] \/ (t = s /\ d = c /\ exec'[t][d] = "claimed")
  BY <1>1, ExecAt
<1>3. /\ \A d \in Calls : d # c => receipt'[d] = receipt[d]
      /\ receipt'[c].status = "claimed" /\ receipt'[c].owner = s /\ receipt'[c].bound = "no"
      /\ receipt[c].status = "absent" /\ Unlocked(c)
  BY <1>1 DEF WriteClaim, TypeOK
<1>4. \A t \in Stores : exec[t][c] = "none"
  BY <1>1, <1>3 DEF Safe, OwnerInv
<1>5. sent[c] = 0
  BY <1>1, <1>3 DEF Safe, OwnerInv, MoneyInv, TypeOK
<1>6. resume' = resume /\ row' = row /\ sent' = sent
  OBVIOUS
<1>7. OwnerInv'
  BY <1>1, <1>2, <1>3, <1>4 DEF Safe, OwnerInv
<1>8. MoneyInv'
  BY <1>1, <1>2, <1>3, <1>4, <1>5, <1>6 DEF Safe, MoneyInv, Held, Paying
<1>9. FailedInv'
  BY <1>1, <1>2, <1>3, <1>4, <1>5, <1>6 DEF Safe, FailedInv, NeverSent, Unlocked, Paying
<1>10. ResumeInv'
  BY <1>1, <1>6 DEF Safe, ResumeInv
<1>11. QED
  BY <1>7, <1>8, <1>9, <1>10 DEF Safe

\* Binding records the reservation in a receipt nobody else holds.
LEMMA BindKeeps ==
  ASSUME Inv, NEW s \in Stores, NEW c \in Calls, Bind(s, c)
  PROVE  Safe'
<1>1. TypeOK /\ Safe
  BY DEF Inv, Safe
<1>2. resume' = resume /\ row' = row /\ sent' = sent /\ exec[s][c] = "reserved" /\ Unlocked(c)
  BY DEF Bind
<1>3. PICK p \in {"bound", "abandoned"} :
        /\ exec' = [exec EXCEPT ![s][c] = p]
        /\ \/ p = "abandoned" /\ receipt' = receipt
           \/ receipt[c].status = "claimed" /\ receipt' = [receipt EXCEPT ![c].bound = "yes"]
  BY DEF Bind
<1>4. \A t \in Stores, d \in Calls : exec'[t][d] = IF t = s /\ d = c THEN p ELSE exec[t][d]
  <2>1. exec \in [Stores -> [Calls -> Progress]]
    BY <1>1 DEF TypeOK
  <2>2. QED
    BY <1>3, <2>1
<1>5. /\ \A d \in Calls : receipt'[d].status = receipt[d].status /\ receipt'[d].owner = receipt[d].owner
      /\ \A d \in Calls : receipt'[d].bound = receipt[d].bound \/ (d = c /\ receipt'[d].bound = "yes")
      /\ p = "bound" => receipt'[c].bound = "yes" /\ receipt[c].status = "claimed"
      /\ receipt'[c].bound # receipt[c].bound => receipt[c].status = "claimed"
  <2>1. CASE p = "abandoned" /\ receipt' = receipt
    BY <2>1
  <2>2. CASE receipt[c].status = "claimed" /\ receipt' = [receipt EXCEPT ![c].bound = "yes"]
    <3>1. "failed" \in TerminalStatuses
      BY DEF TerminalStatuses
    <3>2. QED
      BY <1>1, <2>2, <3>1, ReceiptAt
  <2>3. QED
    BY <1>3, <2>1, <2>2
<1>6. OwnerInv'
  BY <1>1, <1>2, <1>4, <1>5 DEF Safe, OwnerInv
<1>7. MoneyInv'
  BY <1>1, <1>2, <1>4, <1>5 DEF Safe, MoneyInv, Held, Paying
<1>8. FailedInv'
  BY <1>1, <1>2, <1>4, <1>5 DEF Safe, FailedInv, NeverSent, Unlocked, Paying
<1>9. ResumeInv'
  BY <1>1, <1>2 DEF Safe, ResumeInv
<1>10. QED
  BY <1>6, <1>7, <1>8, <1>9 DEF Safe

\* An owner's verdict: "failed" comes from a call that was not sent.
LEMMA CompleteKeeps ==
  ASSUME Inv, NEW s \in Stores, NEW c \in Calls, NEW v \in TerminalStatuses,
         Complete(s, c, v) \/ CompleteEventFails(s, c, v)
  PROVE  Safe'
<1>1. TypeOK /\ Safe
  BY DEF Inv, Safe
<1>2. /\ resume' = resume /\ row' = row /\ sent' = sent
      /\ Unlocked(c) /\ v \in Outcomes(exec[s][c])
      /\ exec' = exec \/ exec' = [exec EXCEPT ![s][c] = "none"]
      /\ \/ receipt' = receipt
         \/ receipt[c].status = "claimed" /\ receipt' = [receipt EXCEPT ![c].status = v]
  BY DEF Complete, CompleteEventFails
<1>3. \A t \in Stores, d \in Calls : exec'[t][d] = exec[t][d] \/ exec'[t][d] = "none"
  BY <1>1, <1>2, ExecAt
<1>4. /\ \A d \in Calls : receipt'[d].owner = receipt[d].owner /\ receipt'[d].bound = receipt[d].bound
      /\ \A d \in Calls : \/ receipt'[d].status = receipt[d].status
                          \/ d = c /\ receipt[c].status = "claimed" /\ receipt'[c].status = v
      /\ v # "absent"
  <2>1. CASE receipt' = receipt
    BY <2>1 DEF TerminalStatuses
  <2>2. CASE receipt[c].status = "claimed" /\ receipt' = [receipt EXCEPT ![c].status = v]
    <3>1. v # "absent"
      BY DEF TerminalStatuses
    <3>2. QED
      BY <1>1, <2>2, <3>1, ReceiptAt
  <2>3. QED
    BY <1>2, <2>1, <2>2
<1>5. v = "failed" => exec[s][c] \in {"claimed", "abandoned"}
  BY <1>2 DEF Outcomes
<1>6. v = "failed" => NeverSent(c)
  <2>1. SUFFICES ASSUME exec[s][c] \in {"claimed", "abandoned"}
                 PROVE  NeverSent(c)
    BY <1>5
  <2>2. \A t \in Stores : exec[t][c] # "none" => t = s
    BY <1>1, <2>1 DEF Safe, OwnerInv
  <2>3. sent[c] = 0
    BY <1>1, <2>1 DEF Safe, MoneyInv, Held
  <2>4. \A t \in Stores : exec[t][c] \notin Paying \union {"bound"}
    BY <2>1, <2>2 DEF Paying
  <2>5. QED
    BY <2>3, <2>4 DEF NeverSent
<1>7. OwnerInv'
  BY <1>1, <1>3, <1>4 DEF Safe, OwnerInv
<1>8. MoneyInv'
  BY <1>1, <1>2, <1>3, <1>4 DEF Safe, MoneyInv, Held, Paying
<1>9. FailedInv'
  BY <1>1, <1>2, <1>3, <1>4, <1>6 DEF Safe, FailedInv, NeverSent, Unlocked, Paying
<1>10. ResumeInv'
  BY <1>1, <1>2 DEF Safe, ResumeInv
<1>11. QED
  BY <1>7, <1>8, <1>9, <1>10 DEF Safe

\* Progress that leaves the receipt alone: what the ledger and the provider do.
LEMMA MoveKeeps ==
  ASSUME Inv, LedgerStep, NEW s \in Stores, NEW c \in Calls, NEW from \in Progress, NEW to \in Progress,
         Move(s, c, from, to), from # "none",
         \/ UNCHANGED sent /\ to \in {"reserved", "abandoned"} /\ from \in {"claimed", "reserved", "bound"}
         \/ /\ UNCHANGED sent /\ from = "bound" /\ to = "submitting"
            /\ row[c].status = "reserved" /\ row'[c].status = "submitted"
         \/ from = "submitting" /\ to = "sent" /\ sent' = [sent EXCEPT ![c] = @ + 1]
         \/ UNCHANGED sent /\ from = "sent" /\ to \in {"settled", "unsure"}
  PROVE  Safe'
<1>1. TypeOK /\ Safe
  BY DEF Inv, Safe
<1>2. /\ receipt' = receipt /\ resume' = resume /\ exec[s][c] = from
      /\ \A t \in Stores, d \in Calls : exec'[t][d] = IF t = s /\ d = c THEN to ELSE exec[t][d]
  <2>1. exec \in [Stores -> [Calls -> Progress]]
    BY <1>1 DEF TypeOK
  <2>2. receipt' = receipt /\ resume' = resume /\ exec[s][c] = from /\ exec' = [exec EXCEPT ![s][c] = to]
    BY DEF Move
  <2>3. QED
    BY <2>1, <2>2
<1>3. \A d \in Calls :
        /\ row[d].status \in Budget!PaidStatuses => row'[d].status \in Budget!PaidStatuses
        /\ row[d].status = "released" => row'[d].status = "released"
  BY DEF LedgerStep, RowStep
<1>4. /\ \A d \in Calls : d # c => sent'[d] = sent[d]
      /\ from # "submitting" => sent'[c] = sent[c]
      /\ from = "submitting" => to = "sent"
      /\ to = "submitting" => /\ row[c].status = "reserved" /\ row'[c].status \in Budget!PaidStatuses
                              /\ from = "bound"
      /\ to \in Held => to \in {"reserved", "abandoned"} /\ from \in Held
      /\ to \in Paying => from \in Paying \union {"bound"}
      /\ to \in Paying /\ from \notin Paying => to = "submitting"
      /\ to # "none" /\ to # "bound"
  BY <1>1 DEF TypeOK, Held, Paying, Budget!PaidStatuses
<1>5. \A t \in Stores : exec[t][c] # "none" => t = s
  BY <1>1, <1>2 DEF Safe, OwnerInv
<1>6. OwnerInv'
  BY <1>1, <1>2, <1>4 DEF Safe, OwnerInv
<1>7. MoneyInv'
  <2>1. \A d \in Calls : sent'[d] > 0 => receipt'[d].bound = "yes" /\ row'[d].status \in Budget!PaidStatuses
    <3>1. from = "submitting" => receipt[c].bound = "yes" /\ row[c].status \in Budget!PaidStatuses
      BY <1>1, <1>2 DEF Safe, MoneyInv, Paying
    <3>2. QED
      BY <1>1, <1>2, <1>3, <1>4, <3>1 DEF Safe, MoneyInv
  <2>2. \A d \in Calls, t \in Stores : exec'[t][d] \in Held \union {"submitting"} => sent'[d] = 0
    BY <1>1, <1>2, <1>4, <1>5 DEF Safe, MoneyInv, Held, Paying
  <2>3. \A d \in Calls, t \in Stores : exec'[t][d] \in Paying => row'[d].status \in Budget!PaidStatuses
    BY <1>1, <1>2, <1>3, <1>4 DEF Safe, MoneyInv
  <2>4. \A d \in Calls, t \in Stores : exec'[t][d] \in Paying \union {"bound"} => receipt'[d].bound = "yes"
    BY <1>1, <1>2, <1>4 DEF Safe, MoneyInv
  <2>5. QED
    BY <2>1, <2>2, <2>3, <2>4 DEF MoneyInv
<1>8. FailedInv'
  <2>1. ASSUME NEW d \in Calls, NeverSent(d)
        PROVE  NeverSent(d)'
    <3>1. d = c => from \notin Paying /\ to \notin Paying
      BY <1>2, <1>4, <2>1 DEF NeverSent, Paying
    <3>2. sent'[d] = 0
      BY <1>4, <2>1, <3>1 DEF NeverSent, Paying
    <3>3. QED
      BY <1>2, <1>3, <1>4, <2>1, <3>1, <3>2 DEF NeverSent
  <2>2. QED
    BY <1>1, <1>2, <2>1 DEF Safe, FailedInv
<1>9. ResumeInv'
  BY <1>1, <1>2 DEF Safe, ResumeInv
<1>10. QED
  BY <1>6, <1>7, <1>8, <1>9 DEF Safe

LEMMA ExecuteKeeps ==
  ASSUME Inv, LedgerStep, NEW s \in Stores, NEW c \in Calls, Execute(s, c)
  PROVE  Safe'
<1>1. row \in [Calls -> Budget!Row] /\ row[c] \in Budget!Row
  BY DEF Inv, TypeOK
<1>2. CASE Claim(s, c)
  BY <1>2, WriteClaimKeeps DEF Claim
<1>3. CASE ClaimEventFails(s, c)
  BY <1>3, WriteClaimKeeps DEF ClaimEventFails
<1>4. CASE Bind(s, c)
  BY <1>4, BindKeeps
<1>5. ASSUME NEW v \in TerminalStatuses, Complete(s, c, v) \/ CompleteEventFails(s, c, v)
      PROVE  Safe'
  BY <1>5, CompleteKeeps
<1>6. CASE ReserveBudget(s, c)
  <2>1. Move(s, c, "claimed", "reserved") /\ UNCHANGED sent
    BY <1>6 DEF ReserveBudget
  <2>2. QED
    BY <2>1, MoveKeeps DEF Progress
<1>7. CASE Submit(s, c)
  <2>1. Move(s, c, "bound", "submitting") /\ UNCHANGED sent
    BY <1>7 DEF Submit
  <2>2. row[c].status = "reserved" /\ row' = [row EXCEPT ![c].status = "submitted"]
    BY <1>7 DEF Submit, Budget!ClaimSubmission
  <2>3. row'[c].status = "submitted"
    <3>1. \A r \in Budget!Row : [r EXCEPT !.status = "submitted"].status = "submitted"
      BY DEF Budget!Row
    <3>2. row'[c] = [row[c] EXCEPT !.status = "submitted"]
      BY <1>1, <2>2
    <3>3. QED
      BY <1>1, <3>1, <3>2
  <2>4. QED
    BY <2>1, <2>2, <2>3, MoveKeeps DEF Progress
<1>8. CASE Send(s, c)
  <2>1. Move(s, c, "submitting", "sent") /\ sent' = [sent EXCEPT ![c] = @ + 1]
    BY <1>8 DEF Send
  <2>2. QED
    BY <2>1, MoveKeeps DEF Progress
<1>9. CASE Answer(s, c)
  <2>1. PICK to \in {"settled", "unsure"} : Move(s, c, "sent", to) /\ UNCHANGED sent
    BY <1>9 DEF Answer
  <2>2. to \in Progress /\ "sent" \in Progress
    BY DEF Progress
  <2>3. QED
    BY <2>1, <2>2, MoveKeeps
<1>10. CASE Abandon(s, c)
  <2>1. PICK from \in {"claimed", "reserved", "bound"} :
          Move(s, c, from, "abandoned") /\ UNCHANGED sent
    BY <1>10 DEF Abandon
  <2>2. from \in Progress /\ "abandoned" \in Progress /\ from # "none"
    BY DEF Progress
  <2>3. QED
    BY <2>1, <2>2, MoveKeeps
<1>11. QED
  BY <1>2, <1>3, <1>4, <1>5, <1>6, <1>7, <1>8, <1>9, <1>10 DEF Execute

\* A late answer moves the row only, and not back from where money was taken.
LEMMA RowKeeps ==
  ASSUME Inv, LedgerStep, UNCHANGED <<receipt, exec, resume, sent>>
  PROVE  Safe'
<1>1. Safe
  BY DEF Inv, Safe
<1>2. receipt' = receipt /\ exec' = exec /\ resume' = resume /\ sent' = sent
  OBVIOUS
<1>3. \A d \in Calls :
        /\ row[d].status \in Budget!PaidStatuses => row'[d].status \in Budget!PaidStatuses
        /\ row[d].status = "released" => row'[d].status = "released"
  BY DEF LedgerStep, RowStep
<1>4. OwnerInv'
  BY <1>1, <1>2 DEF Safe, OwnerInv
<1>5. MoneyInv'
  BY <1>1, <1>2, <1>3 DEF Safe, MoneyInv
<1>6. FailedInv'
  BY <1>1, <1>2, <1>3 DEF Safe, FailedInv, NeverSent
<1>7. ResumeInv'
  BY <1>1, <1>2 DEF Safe, ResumeInv
<1>8. QED
  BY <1>4, <1>5, <1>6, <1>7 DEF Safe

\* The resume pass says "failed" of a receipt without a reservation, or of a
\* reservation it has just released: neither was ever sent.
LEMMA ResumeBudgetKeeps ==
  ASSUME Inv, LedgerStep, NEW s \in Stores, NEW c \in Calls, ResumeBudget(s, c)
  PROVE  Safe'
<1>1. TypeOK /\ Safe
  BY DEF Inv, Safe
<1>2. /\ receipt' = receipt /\ exec' = exec /\ sent' = sent
      /\ Unlocked(c) /\ receipt[c].status = "claimed"
  BY DEF ResumeBudget
<1>3. PICK v \in {"failed", "uncertain"} :
        /\ resume' = [resume EXCEPT ![s] = Resuming(c, v)]
        /\ v = "failed" => receipt[c].bound = "no" \/ row'[c].status = "released"
  BY DEF ResumeBudget, Verdict
<1>4. \A t \in Stores : resume'[t] = IF t = s THEN Resuming(c, v) ELSE resume[t]
  <2>1. resume \in [Stores -> Resumptions]
    BY <1>1 DEF TypeOK
  <2>2. QED
    BY <1>3, <2>1
<1>5. Resuming(c, v).call = c /\ Resuming(c, v).verdict = v
  BY ResumptionFacts
<1>6. \A d \in Calls :
        /\ row[d].status \in Budget!PaidStatuses => row'[d].status \in Budget!PaidStatuses
        /\ row[d].status = "released" => row'[d].status = "released"
  BY DEF LedgerStep, RowStep
<1>7. v = "failed" => NeverSent(c)'
  <2>1. SUFFICES ASSUME v = "failed"
                 PROVE  NeverSent(c)'
    OBVIOUS
  <2>2. receipt[c].bound = "no" \/ row'[c].status = "released"
    BY <1>3, <2>1
  <2>3. sent[c] \in Nat
    BY <1>1 DEF TypeOK
  <2>4. CASE receipt[c].bound = "no"
    <3>1. sent[c] = 0
      BY <1>1, <2>3, <2>4 DEF Safe, MoneyInv
    <3>2. \A t \in Stores : exec[t][c] \notin Paying \union {"bound"}
      BY <1>1, <2>4 DEF Safe, MoneyInv
    <3>3. QED
      BY <1>2, <3>1, <3>2 DEF NeverSent
  <2>5. CASE row'[c].status = "released"
    <3>1. row[c].status \notin Budget!PaidStatuses
      BY <1>6, <2>5 DEF Budget!PaidStatuses
    <3>2. sent[c] = 0
      BY <1>1, <2>3, <3>1 DEF Safe, MoneyInv
    <3>3. \A t \in Stores : exec[t][c] \notin Paying
      BY <1>1, <3>1 DEF Safe, MoneyInv
    <3>4. QED
      BY <1>2, <2>5, <3>2, <3>3 DEF NeverSent
  <2>6. QED
    BY <2>2, <2>4, <2>5
<1>8. \A d \in Calls : NeverSent(d) => NeverSent(d)'
  BY <1>2, <1>6 DEF NeverSent
<1>9. OwnerInv'
  BY <1>1, <1>2 DEF Safe, OwnerInv
<1>10. MoneyInv'
  BY <1>1, <1>2, <1>6 DEF Safe, MoneyInv
<1>11. FailedInv'
  <2>1. \A d \in Calls : receipt'[d].status = "failed" => NeverSent(d)'
    BY <1>1, <1>2, <1>8 DEF Safe, FailedInv
  <2>2. ASSUME NEW t \in Stores, NEW d \in Calls, resume'[t].call = d
        PROVE  receipt'[d].status = "claimed" /\ (resume'[t].verdict = "failed" => NeverSent(d)')
    <3>1. CASE t = s
      BY <1>2, <1>4, <1>5, <1>7, <2>2, <3>1
    <3>2. CASE t # s
      BY <1>1, <1>2, <1>4, <1>8, <2>2, <3>2 DEF Safe, FailedInv
    <3>3. QED
      BY <3>1, <3>2
  <2>3. QED
    BY <2>1, <2>2 DEF FailedInv
<1>12. ResumeInv'
  BY <1>1, <1>2, <1>4, <1>5 DEF Safe, ResumeInv, Unlocked
<1>13. QED
  BY <1>9, <1>10, <1>11, <1>12 DEF Safe

\* The verdict becomes the receipt's status.
LEMMA ResumeReceiptKeeps ==
  ASSUME Inv, NEW s \in Stores, ResumeReceipt(s)
  PROVE  Safe'
<1>1. TypeOK /\ Safe
  BY DEF Inv, Safe
<1>2. PICK c \in Calls, v \in {"failed", "uncertain"} :
        resume[s].call = c /\ resume[s].verdict = v
  BY <1>1, ResumptionFacts DEF ResumeReceipt, TypeOK
<1>3. /\ exec' = exec /\ row' = row /\ sent' = sent
      /\ resume' = [resume EXCEPT ![s] = NotResuming]
      /\ receipt' = [receipt EXCEPT ![c].status = v]
  BY <1>2 DEF ResumeReceipt
<1>4. v \in TerminalStatuses /\ v # "absent"
  BY DEF TerminalStatuses
<1>5. /\ \A d \in Calls : d # c => receipt'[d] = receipt[d]
      /\ receipt'[c].status = v
      /\ receipt'[c].bound = receipt[c].bound /\ receipt'[c].owner = receipt[c].owner
  BY <1>1, <1>3, <1>4, ReceiptAt
<1>6. \A t \in Stores : resume'[t] = IF t = s THEN NotResuming ELSE resume[t]
  <2>1. resume \in [Stores -> Resumptions]
    BY <1>1 DEF TypeOK
  <2>2. QED
    BY <1>3, <2>1
<1>7. \A d \in Calls : NotResuming.call # d
  BY ResumptionFacts
<1>8. receipt[c].status = "claimed" /\ (v = "failed" => NeverSent(c))
  BY <1>1, <1>2 DEF Safe, FailedInv
<1>9. \A t \in Stores : t # s => resume[t].call # c
  BY <1>1, <1>2 DEF Safe, ResumeInv
<1>10. \A d \in Calls : NeverSent(d) => NeverSent(d)'
  BY <1>3 DEF NeverSent
<1>11. OwnerInv'
  BY <1>1, <1>3, <1>4, <1>5, <1>8 DEF Safe, OwnerInv
<1>12. MoneyInv'
  BY <1>1, <1>3, <1>5 DEF Safe, MoneyInv
<1>13. FailedInv'
  <2>1. \A d \in Calls : receipt'[d].status = "failed" => NeverSent(d)'
    BY <1>1, <1>5, <1>8, <1>10 DEF Safe, FailedInv
  <2>2. ASSUME NEW t \in Stores, NEW d \in Calls, resume'[t].call = d
        PROVE  receipt'[d].status = "claimed" /\ (resume'[t].verdict = "failed" => NeverSent(d)')
    <3>1. t # s /\ d # c /\ resume[t].call = d /\ resume'[t] = resume[t]
      BY <1>6, <1>7, <1>9, <2>2
    <3>2. QED
      BY <1>1, <1>5, <1>10, <3>1 DEF Safe, FailedInv
  <2>3. QED
    BY <2>1, <2>2 DEF FailedInv
<1>14. ResumeInv'
  BY <1>1, <1>6, <1>7 DEF Safe, ResumeInv
<1>15. QED
  BY <1>11, <1>12, <1>13, <1>14 DEF Safe

\* A crash forgets the store's executions and the receipt it held.
LEMMA CrashKeeps ==
  ASSUME Inv, NEW s \in Stores, Crash(s)
  PROVE  Safe'
<1>1. TypeOK /\ Safe
  BY DEF Inv, Safe
<1>2. receipt' = receipt /\ row' = row /\ sent' = sent
  BY DEF Crash
<1>3. \A t \in Stores, d \in Calls : exec'[t][d] = exec[t][d] \/ exec'[t][d] = "none"
  BY <1>1 DEF Crash, TypeOK
<1>4. \A t \in Stores : resume'[t] = resume[t] \/ resume'[t] = NotResuming
  BY <1>1 DEF Crash, TypeOK
<1>5. \A d \in Calls : NotResuming.call # d
  BY ResumptionFacts
<1>6. \A d \in Calls : NeverSent(d) => NeverSent(d)'
  BY <1>2, <1>3 DEF NeverSent, Paying
<1>7. OwnerInv'
  BY <1>1, <1>2, <1>3 DEF Safe, OwnerInv
<1>8. MoneyInv'
  BY <1>1, <1>2, <1>3 DEF Safe, MoneyInv, Held, Paying
<1>9. FailedInv'
  BY <1>1, <1>2, <1>4, <1>5, <1>6 DEF Safe, FailedInv
<1>10. ResumeInv'
  BY <1>1, <1>4, <1>5 DEF Safe, ResumeInv
<1>11. QED
  BY <1>7, <1>8, <1>9, <1>10 DEF Safe

-----------------------------------------------------------------------------
(* The theorems.                                                           *)

LEMMA InvInit == Init => Inv
<1> SUFFICES ASSUME Init PROVE Inv
  OBVIOUS
<1>1. TypeOK
  <2>1. [status |-> "absent", owner |-> Nobody, bound |-> "no"] \in Receipt
    BY DEF Receipt
  <2>2. Budget!BlankRow("absent") \in Budget!Row
    BY DEF Budget!BlankRow, Budget!Row, Budget!Statuses
  <2>3. "none" \in Progress
    BY DEF Progress
  <2>4. QED
    BY <2>1, <2>2, <2>3, ResumptionFacts DEF Init, TypeOK
<1>2. OwnerInv /\ MoneyInv
  BY DEF Init, OwnerInv, MoneyInv, Held, Paying
<1>3. FailedInv /\ ResumeInv
  BY ResumptionFacts DEF Init, FailedInv, ResumeInv
<1>4. QED
  BY <1>1, <1>2, <1>3 DEF Inv

LEMMA InvStep == Inv /\ [Next]_vars => Inv'
<1> SUFFICES ASSUME Inv, [Next]_vars PROVE Inv'
  OBVIOUS
<1>1. LedgerStep /\ TypeOK'
  BY NextIsLedgerStep, TypeStep DEF Inv
<1>2. ASSUME NEW s \in Stores, NEW c \in Calls, Execute(s, c)
      PROVE  Safe'
  BY <1>1, <1>2, ExecuteKeeps
<1>3. ASSUME NEW s \in Stores, NEW c \in Calls, ResumeBudget(s, c)
      PROVE  Safe'
  BY <1>1, <1>3, ResumeBudgetKeeps
<1>4. ASSUME NEW c \in Calls, BackgroundAnswer(c)
      PROVE  Safe'
  BY <1>1, <1>4, RowKeeps DEF BackgroundAnswer
<1>5. ASSUME NEW s \in Stores, ResumeReceipt(s)
      PROVE  Safe'
  BY <1>5, ResumeReceiptKeeps
<1>6. ASSUME NEW s \in Stores, Crash(s)
      PROVE  Safe'
  BY <1>6, CrashKeeps
<1>7. ASSUME UNCHANGED vars
      PROVE  Safe'
  BY <1>1, <1>7, RowKeeps DEF vars
<1>8. Safe'
  BY <1>2, <1>3, <1>4, <1>5, <1>6, <1>7, Steps
<1>9. QED
  BY <1>1, <1>8 DEF Inv, Safe

THEOREM Invariance == Spec => []Inv
BY InvInit, InvStep, PTL DEF Spec

\* However stores, crashes and resume passes interleave, no call is ever
\* executed by two stores (claim_tool_call and its receipt).
THEOREM CallsRunOnce == Spec => []OneExecution
<1>1. Inv => OneExecution
  BY DEF Inv, OwnerInv, OneExecution
<1>2. QED
  BY <1>1, Invariance, PTL

\* A receipt that says "failed" is of a call the provider never received,
\* whether complete_tool_call or the resume pass wrote it.
THEOREM FailedCallsWereNotSent == Spec => []FailedMeansUnsent
<1>1. Inv => FailedMeansUnsent
  BY DEF Inv, FailedInv, NeverSent, FailedMeansUnsent
<1>2. QED
  BY <1>1, Invariance, PTL

-----------------------------------------------------------------------------
(* The calls use the ledger as MediaBudget specifies it.                    *)

BudgetStep == [Budget!Next]_(Budget!vars)

\* Progress that shows in the ledger's workers.
Shown == {"submitting", "sent"}

LEMMA WorkingStays ==
  ASSUME \A s \in Stores, c \in Calls :
           \/ exec'[s][c] = exec[s][c]
           \/ exec[s][c] \notin Shown /\ exec'[s][c] \notin Shown
  PROVE  UNCHANGED Working
<1>1. \A e \in Executions : /\ e[1] \in Stores /\ e[2] \in Calls
  BY DEF Executions
<1>2. \A e \in Executions : WorkerAt(exec'[e[1]][e[2]], e[2]) = WorkerAt(exec[e[1]][e[2]], e[2])
  BY <1>1 DEF WorkerAt, Shown
<1>3. QED
  BY <1>2 DEF Working

LEMMA WorkingMoves ==
  ASSUME TypeOK, NEW s \in Stores, NEW c \in Calls, NEW from, NEW to, Move(s, c, from, to)
  PROVE  /\ <<s, c>> \in Executions
         /\ Working[<<s, c>>] = WorkerAt(from, c)
         /\ Working' = [Working EXCEPT ![<<s, c>>] = WorkerAt(to, c)]
<1>1. \A e \in Executions : /\ e[1] \in Stores /\ e[2] \in Calls /\ e = <<e[1], e[2]>>
  BY DEF Executions
<1>2. <<s, c>> \in Executions /\ <<s, c>>[1] = s /\ <<s, c>>[2] = c
  BY DEF Executions
<1>3. exec[s][c] = from /\ exec' = [exec EXCEPT ![s][c] = to]
  BY DEF Move
<1>4. \A t \in Stores, d \in Calls : exec'[t][d] = IF t = s /\ d = c THEN to ELSE exec[t][d]
  <2>1. exec \in [Stores -> [Calls -> Progress]]
    BY DEF TypeOK
  <2>2. QED
    BY <1>3, <2>1
<1>5. /\ Working = [e \in Executions |-> WorkerAt(exec[e[1]][e[2]], e[2])]
      /\ Working' = [e \in Executions |-> WorkerAt(exec'[e[1]][e[2]], e[2])]
  BY DEF Working
<1>6. \A e \in Executions : e # <<s, c>> => exec'[e[1]][e[2]] = exec[e[1]][e[2]]
  BY <1>1, <1>4
<1>7. exec'[s][c] = to
  BY <1>4
<1>8. QED
  BY <1>2, <1>3, <1>5, <1>6, <1>7

\* A ledger transaction without a claim, or none at all.
LEMMA LedgerCalls ==
  ASSUME UNCHANGED <<Working, sent>>,
         \/ UNCHANGED row
         \/ \E c \in Calls :
              \/ Budget!Reserve(c)
              \/ \E a \in Actuals : Budget!Settle(c, a, TRUE, FALSE)
              \/ Budget!MarkUncertain(c)
              \/ Budget!Release(c)
              \/ Budget!ReconcileOrphaned(c)
  PROVE  BudgetStep
<1>1. Budget!LedgerCall \/ UNCHANGED row
  BY DEF Budget!LedgerCall
<1>2. QED
  BY <1>1 DEF BudgetStep, Budget!Next, Budget!vars

\* Executions end, by a crash or by leaving the call to the background.
LEMMA WorkersLeave ==
  ASSUME UNCHANGED <<row, sent>>,
         \A s \in Stores, c \in Calls : exec'[s][c] = exec[s][c] \/ exec'[s][c] = "none"
  PROVE  BudgetStep
<1> DEFINE W == {e \in Executions : exec'[e[1]][e[2]] = "none"}
<1>1. \A e \in Executions : /\ e[1] \in Stores /\ e[2] \in Calls
  BY DEF Executions
<1>2. Working' = [e \in Executions |-> IF e \in W THEN Budget!Idle ELSE Working[e]]
  <2>1. \A e \in Executions : e \in W => WorkerAt(exec'[e[1]][e[2]], e[2]) = Budget!Idle
    BY DEF WorkerAt, Budget!Idle
  <2>2. \A e \in Executions : e \notin W => exec'[e[1]][e[2]] = exec[e[1]][e[2]]
    BY <1>1
  <2> HIDE DEF W
  <2>3. QED
    BY <2>1, <2>2 DEF Working
<1>3. W \in SUBSET Executions
  OBVIOUS
<1> HIDE DEF W
<1>4. Budget!WorkersCrash(W)
  BY <1>2 DEF Budget!WorkersCrash
<1>5. QED
  BY <1>3, <1>4 DEF BudgetStep, Budget!Next

LEMMA ExecuteUsesLedger ==
  ASSUME Inv, NEW s \in Stores, NEW c \in Calls, Execute(s, c)
  PROVE  BudgetStep
<1>1. TypeOK /\ OwnerInv /\ exec \in [Stores -> [Calls -> Progress]]
  BY DEF Inv, TypeOK
<1>2. \A from, to : Move(s, c, from, to) /\ from \notin Shown /\ to \notin Shown => UNCHANGED Working
  <2>1. SUFFICES ASSUME NEW from, NEW to, Move(s, c, from, to), from \notin Shown, to \notin Shown
                 PROVE  UNCHANGED Working
    OBVIOUS
  <2>2. \A t \in Stores, d \in Calls : exec'[t][d] = IF t = s /\ d = c THEN to ELSE exec[t][d]
    BY <1>1, <2>1 DEF Move
  <2>3. exec[s][c] = from
    BY <2>1 DEF Move
  <2>4. QED
    BY <2>1, <2>2, <2>3, WorkingStays
<1>3. CASE Claim(s, c)
  <2>1. exec[s][c] = "none"
    BY <1>1, <1>3 DEF Claim, WriteClaim, OwnerInv
  <2>2. \A t \in Stores, d \in Calls :
          exec'[t][d] = exec[t][d] \/ (t = s /\ d = c /\ exec'[t][d] = "claimed")
    BY <1>1, <1>3 DEF Claim
  <2>3. UNCHANGED Working
    BY <2>1, <2>2, WorkingStays DEF Shown
  <2>4. QED
    BY <1>3, <2>3, LedgerCalls DEF Claim
<1>4. CASE ClaimEventFails(s, c)
  <2>1. UNCHANGED Working
    BY <1>4, WorkingStays DEF ClaimEventFails
  <2>2. QED
    BY <1>4, <2>1, LedgerCalls DEF ClaimEventFails
<1>5. CASE Bind(s, c)
  <2>1. PICK p \in {"bound", "abandoned"} : exec[s][c] = "reserved" /\ exec' = [exec EXCEPT ![s][c] = p]
    BY <1>5 DEF Bind
  <2>2. \A t \in Stores, d \in Calls : exec'[t][d] = IF t = s /\ d = c THEN p ELSE exec[t][d]
    BY <1>1, <2>1
  <2>3. UNCHANGED Working
    BY <2>1, <2>2, WorkingStays DEF Shown
  <2>4. QED
    BY <1>5, <2>3, LedgerCalls DEF Bind
<1>6. CASE ReserveBudget(s, c)
  <2>1. Move(s, c, "claimed", "reserved") /\ Budget!Reserve(c) /\ UNCHANGED sent
    BY <1>6 DEF ReserveBudget
  <2>2. UNCHANGED Working
    BY <1>2, <2>1 DEF Shown
  <2>3. QED
    BY <2>1, <2>2, LedgerCalls
<1>7. CASE Submit(s, c)
  <2>1. Move(s, c, "bound", "submitting") /\ Budget!ClaimSubmission(c) /\ UNCHANGED sent
    BY <1>7 DEF Submit
  <2>2. WorkerAt("bound", c) = Budget!Idle /\ WorkerAt("submitting", c) = Budget!Holding("claimed", c)
    BY DEF WorkerAt, Budget!Idle, Budget!Holding
  <2>3. <<s, c>> \in Executions /\ Budget!WorkerClaim(<<s, c>>, c)
    BY <1>1, <2>1, <2>2, WorkingMoves DEF Budget!WorkerClaim
  <2>4. QED
    BY <2>3 DEF BudgetStep, Budget!Next
<1>8. CASE Send(s, c)
  <2>1. Move(s, c, "submitting", "sent") /\ sent' = [sent EXCEPT ![c] = @ + 1] /\ UNCHANGED row
    BY <1>8 DEF Send
  <2>2. /\ WorkerAt("submitting", c) = Budget!Holding("claimed", c)
        /\ WorkerAt("sent", c) = Budget!Holding("sent", c)
    BY DEF WorkerAt, Budget!Holding
  <2>3. <<s, c>> \in Executions /\ Budget!WorkerSend(<<s, c>>, c)
    BY <1>1, <2>1, <2>2, WorkingMoves DEF Budget!WorkerSend, Budget!ledger
  <2>4. QED
    BY <2>3 DEF BudgetStep, Budget!Next
<1>9. CASE Answer(s, c)
  <2>1. PICK to \in {"settled", "unsure"} :
          /\ Move(s, c, "sent", to) /\ UNCHANGED sent
          /\ \/ \E a \in Actuals : Budget!Settle(c, a, TRUE, FALSE)
             \/ Budget!MarkUncertain(c)
             \/ row[c].status \in Budget!FinalStatuses /\ UNCHANGED row
    BY <1>9 DEF Answer
  <2>2. WorkerAt("sent", c) = Budget!Holding("sent", c) /\ WorkerAt(to, c) = Budget!Idle
    BY DEF WorkerAt, Budget!Idle, Budget!Holding
  <2>3. /\ <<s, c>> \in Executions
        /\ Working[<<s, c>>] = Budget!Holding("sent", c)
        /\ Working' = [Working EXCEPT ![<<s, c>>] = Budget!Idle]
    BY <1>1, <2>1, <2>2, WorkingMoves
  <2>4. \/ \E a \in Actuals, hasAsset, hasOp \in BOOLEAN : Budget!Settle(c, a, hasAsset, hasOp)
        \/ Budget!MarkUncertain(c)
        \/ row[c].status \in Budget!FinalStatuses /\ UNCHANGED Budget!ledger
    <3>1. ASSUME NEW a \in Actuals, Budget!Settle(c, a, TRUE, FALSE)
          PROVE  \E b \in Actuals, hasAsset, hasOp \in BOOLEAN : Budget!Settle(c, b, hasAsset, hasOp)
      BY <3>1, Zenon
    <3>2. UNCHANGED row => UNCHANGED Budget!ledger
      BY DEF Budget!ledger
    <3>3. QED
      BY <2>1, <3>1, <3>2, Zenon
  <2>5. Budget!WorkerFinish(<<s, c>>, c)
    BY <2>1, <2>3, <2>4, Zenon DEF Budget!WorkerFinish
  <2>6. QED
    BY <2>3, <2>5 DEF BudgetStep, Budget!Next
<1>10. CASE Abandon(s, c)
  <2>1. PICK from \in {"claimed", "reserved", "bound"} :
          Move(s, c, from, "abandoned") /\ UNCHANGED sent /\ (Budget!Release(c) \/ UNCHANGED row)
    BY <1>10 DEF Abandon
  <2>2. UNCHANGED Working
    BY <1>2, <2>1 DEF Shown
  <2>3. QED
    BY <2>1, <2>2, LedgerCalls
<1>11. ASSUME NEW v \in TerminalStatuses, Complete(s, c, v) \/ CompleteEventFails(s, c, v)
       PROVE  BudgetStep
  <2>1. /\ UNCHANGED <<row, sent>>
        /\ exec' = exec \/ exec' = [exec EXCEPT ![s][c] = "none"]
    BY <1>11 DEF Complete, CompleteEventFails
  <2>2. \A t \in Stores, d \in Calls : exec'[t][d] = exec[t][d] \/ exec'[t][d] = "none"
    BY <1>1, <2>1
  <2>3. QED
    BY <2>1, <2>2, WorkersLeave
<1>12. QED
  BY <1>3, <1>4, <1>5, <1>6, <1>7, <1>8, <1>9, <1>10, <1>11 DEF Execute

LEMMA StepUsesLedger == Inv /\ [Next]_vars => BudgetStep
<1> SUFFICES ASSUME Inv, [Next]_vars PROVE BudgetStep
  OBVIOUS
<1>1. exec \in [Stores -> [Calls -> Progress]]
  BY DEF Inv, TypeOK
<1>2. UNCHANGED exec => UNCHANGED Working
  BY DEF Working
<1>3. ASSUME NEW s \in Stores, NEW c \in Calls, Execute(s, c)
      PROVE  BudgetStep
  BY <1>3, ExecuteUsesLedger
<1>4. ASSUME NEW s \in Stores, NEW c \in Calls, ResumeBudget(s, c)
      PROVE  BudgetStep
  BY <1>2, <1>4, LedgerCalls DEF ResumeBudget
<1>5. ASSUME NEW c \in Calls, BackgroundAnswer(c)
      PROVE  BudgetStep
  BY <1>2, <1>5, LedgerCalls DEF BackgroundAnswer
<1>6. ASSUME NEW s \in Stores, ResumeReceipt(s)
      PROVE  BudgetStep
  BY <1>2, <1>6, LedgerCalls DEF ResumeReceipt
<1>7. ASSUME NEW s \in Stores, Crash(s)
      PROVE  BudgetStep
  <2>1. \A t \in Stores, d \in Calls : exec'[t][d] = exec[t][d] \/ exec'[t][d] = "none"
    BY <1>1, <1>7 DEF Crash
  <2>2. QED
    BY <1>7, <2>1, WorkersLeave DEF Crash
<1>8. ASSUME UNCHANGED vars
      PROVE  BudgetStep
  BY <1>2, <1>8, LedgerCalls DEF vars
<1>9. QED
  BY <1>3, <1>4, <1>5, <1>6, <1>7, <1>8, Steps

\* Claims, resumes and crashes of any number of stores drive the ledger as its
\* own specification allows (production_store.py, production_budget.py).
THEOREM LedgerRefinement == Spec => UsesLedgerAsSpecified
<1>1. Init => Budget!Init
  <2>1. SUFFICES ASSUME Init PROVE Budget!Init
    OBVIOUS
  <2>2. \A e \in Executions : e[1] \in Stores /\ e[2] \in Calls
    BY DEF Executions
  <2>3. \A e \in Executions : WorkerAt(exec[e[1]][e[2]], e[2]) = Budget!Idle
    BY <2>1, <2>2 DEF Init, WorkerAt, Budget!Idle
  <2>4. Working = [e \in Executions |-> Budget!Idle]
    BY <2>3 DEF Working
  <2>5. QED
    BY <2>1, <2>4 DEF Init, Budget!Init
<1>2. Inv /\ [Next]_vars => [Budget!Next]_(Budget!vars)
  BY StepUsesLedger DEF BudgetStep
<1>3. QED
  BY <1>1, <1>2, Invariance, PTL DEF Spec, UsesLedgerAsSpecified, Budget!Spec
=============================================================================
