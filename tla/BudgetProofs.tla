----------------------------- MODULE BudgetProofs -----------------------------
(***************************************************************************)
(* What the two budgets guarantee for every number of calls, workers and    *)
(* children: the paid-media ledger of MediaBudget, and the session budget   *)
(* that the children of Subtasks draw on.  Both promises about money are    *)
(* about sums over a finite set, so the lemmas on sums come first.          *)
(***************************************************************************)
EXTENDS MediaBudget, Subtasks, FiniteSetTheorems, TLAPS

-----------------------------------------------------------------------------
(* Sums over a finite set.  A fold over S is a table of the sums of all     *)
(* subsets of S.  Induction over the subsets is the argument that a         *)
(* non-empty set of counterexamples has a smallest member.                  *)

Pick(s) == CHOOSE x \in s : TRUE

Sums(g, f, S) ==
  g = [s \in SUBSET S |-> IF s = {} THEN 0 ELSE f[Pick(s)] + g[s \ {Pick(s)}]]

Total(f, S) == (CHOOSE g : Sums(g, f, S))[S]

LEMMA PickIsIn == ASSUME NEW s, s # {} PROVE Pick(s) \in s
BY DEF Pick

\* Of sets of subsets of a finite set, some member has no member below it.
LEMMA SmallestSubset ==
  ASSUME NEW S, IsFiniteSet(S), NEW T, T \subseteq SUBSET S, T # {}
  PROVE  \E s \in T : \A t \in T : t \subseteq s => t = s
<1>1. IsWellFoundedOn(StrictSubsetOrdering(S), SUBSET S)
  BY FS_StrictSubsetOrderingWellFounded, FS_FiniteSubsetsOfFinite
<1>2. PICK s \in T : \A t \in T : ~ (<<t, s>> \in StrictSubsetOrdering(S))
  BY <1>1, WFMin
<1>3. \A t \in T : t \subseteq s => t = s
  BY <1>2 DEF StrictSubsetOrdering
<1> QED  BY <1>3

LEMMA SumsEquation ==
  ASSUME NEW g, NEW f, NEW S, Sums(g, f, S), NEW s \in SUBSET S
  PROVE  g[s] = IF s = {} THEN 0 ELSE f[Pick(s)] + g[s \ {Pick(s)}]
BY DEF Sums

\* Two tables of sums over the same set agree.
LEMMA SumsUnique ==
  ASSUME NEW S, IsFiniteSet(S), NEW f, NEW g, NEW h, Sums(g, f, S), Sums(h, f, S)
  PROVE  g = h
<1> DEFINE T == {s \in SUBSET S : g[s] # h[s]}
<1>1. ASSUME T # {}  PROVE FALSE
  <2>1. PICK s \in T : \A t \in T : t \subseteq s => t = s
    <3>1. T \subseteq SUBSET S  OBVIOUS
    <3> HIDE DEF T
    <3> QED  BY <1>1, <3>1, SmallestSubset
  <2>2. s # {}
    <3>1. g[{}] = 0 /\ h[{}] = 0  BY SumsEquation
    <3> QED  BY <3>1
  <2> DEFINE x == Pick(s)
  <2>3. x \in s  BY <2>2, PickIsIn
  <2>4. g[s] = f[x] + g[s \ {x}] /\ h[s] = f[x] + h[s \ {x}]
    BY <2>2, SumsEquation
  <2> HIDE DEF x
  <2>5. s \ {x} \notin T  BY <2>1, <2>3
  <2> QED  BY <2>1, <2>4, <2>5
<1>2. \A s \in SUBSET S : g[s] = h[s]  BY <1>1
<1>3. g = [s \in SUBSET S |-> g[s]] /\ h = [s \in SUBSET S |-> h[s]]
  BY DEF Sums
<1> QED  BY <1>2, <1>3

\* The totals of the subsets are the table of sums.
LEMMA TotalsAreSums ==
  ASSUME NEW S, IsFiniteSet(S), NEW f
  PROVE  Sums([s \in SUBSET S |-> Total(f, s)], f, S)
<1> DEFINE Table(s) == [t \in SUBSET s |-> Total(f, t)]
           T == {s \in SUBSET S : ~ Sums(Table(s), f, s)}
<1>1. ASSUME T # {}  PROVE FALSE
  <2>1. PICK s \in T : \A t \in T : t \subseteq s => t = s
    <3>1. T \subseteq SUBSET S  OBVIOUS
    <3> HIDE DEF T
    <3> QED  BY <1>1, <3>1, SmallestSubset
  <2>2. s \subseteq S /\ ~ Sums(Table(s), f, s)  OBVIOUS
  <2>3. \A t \in SUBSET s : t # s => Sums(Table(t), f, t)  BY <2>1
  <2> HIDE DEF T
  <2> DEFINE g == [t \in SUBSET s |-> IF t = {} THEN 0
                      ELSE f[Pick(t)] + Total(f, t \ {Pick(t)})]
  <2>4. \A t \in SUBSET s : t # s => g[t] = Total(f, t)
    <3> TAKE t \in SUBSET s
    <3> HAVE t # s
    <3>1. Table(t)[t] = IF t = {} THEN 0 ELSE f[Pick(t)] + Table(t)[t \ {Pick(t)}]
      <4> HIDE DEF Table
      <4> QED  BY <2>3, SumsEquation
    <3>2. Table(t)[t] = Total(f, t)  OBVIOUS
    <3>3. t \ {Pick(t)} \in SUBSET t  OBVIOUS
    <3>4. Table(t)[t \ {Pick(t)}] = Total(f, t \ {Pick(t)})  BY <3>3
    <3> QED  BY <3>1, <3>2, <3>4
  <2>5. Sums(g, f, s)
    <3>1. ASSUME NEW t \in SUBSET s, t # {}
          PROVE  Total(f, t \ {Pick(t)}) = g[t \ {Pick(t)}]
      <4>1. t \ {Pick(t)} \in SUBSET s /\ t \ {Pick(t)} # s  BY <3>1, PickIsIn
      <4> HIDE DEF g
      <4> QED  BY <4>1, <2>4
    <3>2. g = [t \in SUBSET s |-> IF t = {} THEN 0 ELSE f[Pick(t)] + g[t \ {Pick(t)}]]
      BY <3>1
    <3> HIDE DEF g
    <3> QED  BY <3>2 DEF Sums
  <2> HIDE DEF g
  <2>6. (CHOOSE h : Sums(h, f, s)) = g
    <3>1. Sums(CHOOSE h : Sums(h, f, s), f, s)  BY <2>5
    <3>2. IsFiniteSet(s)  BY <2>2, FS_Subset
    <3> QED  BY <2>5, <3>1, <3>2, SumsUnique
  <2>7. Total(f, s) = g[s]  BY <2>6 DEF Total
  <2>8. g = [t \in SUBSET s |-> g[t]]  BY DEF g
  <2>9. g = Table(s)  BY <2>4, <2>7, <2>8
  <2> QED  BY <2>2, <2>5, <2>9
<1>2. S \notin T  BY <1>1
<1> QED  BY <1>2

\* What the table of sums of a fold is, the total is.
LEMMA SumIsTotal ==
  ASSUME NEW S, IsFiniteSet(S), NEW f, NEW g, Sums(g, f, S)
  PROVE  g[S] = Total(f, S)
<1>1. g = [s \in SUBSET S |-> Total(f, s)]
  BY TotalsAreSums, SumsUnique
<1> QED  BY <1>1

LEMMA TotalEquation ==
  ASSUME NEW S, IsFiniteSet(S), NEW f
  PROVE  /\ Total(f, {}) = 0
         /\ S # {} => Total(f, S) = f[Pick(S)] + Total(f, S \ {Pick(S)})
<1> DEFINE Table == [s \in SUBSET S |-> Total(f, s)]
<1>1. Sums(Table, f, S)  BY TotalsAreSums
<1>2. Table[{}] = Total(f, {}) /\ Table[S] = Total(f, S)
      /\ Table[S \ {Pick(S)}] = Total(f, S \ {Pick(S)})
  OBVIOUS
<1> HIDE DEF Table
<1>3. Table[{}] = 0  BY <1>1, SumsEquation
<1>4. S # {} => Table[S] = f[Pick(S)] + Table[S \ {Pick(S)}]
  BY <1>1, SumsEquation
<1> QED  BY <1>2, <1>3, <1>4

LEMMA TotalIsInt ==
  ASSUME NEW S, IsFiniteSet(S), NEW f, \A x \in S : f[x] \in Int
  PROVE  Total(f, S) \in Int
<1> DEFINE T == {s \in SUBSET S : Total(f, s) \notin Int}
<1>1. ASSUME T # {}  PROVE FALSE
  <2>1. PICK s \in T : \A t \in T : t \subseteq s => t = s
    <3>1. T \subseteq SUBSET S  OBVIOUS
    <3> HIDE DEF T
    <3> QED  BY <1>1, <3>1, SmallestSubset
  <2>2. IsFiniteSet(s)  BY FS_Subset
  <2>3. s # {}  BY <2>2, TotalEquation
  <2>4. Total(f, s) = f[Pick(s)] + Total(f, s \ {Pick(s)})  BY <2>2, <2>3, TotalEquation
  <2>5. Pick(s) \in s  BY <2>3, PickIsIn
  <2>6. Total(f, s \ {Pick(s)}) \in Int  BY <2>1, <2>5
  <2> QED  BY <2>4, <2>5, <2>6
<1> QED  BY <1>1

\* Any element may be taken out first.
LEMMA TotalWithout ==
  ASSUME NEW S, IsFiniteSet(S), NEW f, \A x \in S : f[x] \in Int, NEW x \in S
  PROVE  Total(f, S) = f[x] + Total(f, S \ {x})
<1> DEFINE T == {s \in SUBSET S : \E y \in s : Total(f, s) # f[y] + Total(f, s \ {y})}
<1>1. ASSUME T # {}  PROVE FALSE
  <2>1. PICK s \in T : \A t \in T : t \subseteq s => t = s
    <3>1. T \subseteq SUBSET S  OBVIOUS
    <3> HIDE DEF T
    <3> QED  BY <1>1, <3>1, SmallestSubset
  <2>2. PICK y \in s : Total(f, s) # f[y] + Total(f, s \ {y})  OBVIOUS
  <2> DEFINE z == Pick(s)
  <2>3. IsFiniteSet(s) /\ s \subseteq S  BY FS_Subset
  <2>4. z \in s /\ Total(f, s) = f[z] + Total(f, s \ {z})
    BY <2>3, TotalEquation, PickIsIn
  <2> HIDE DEF z
  <2>5. y # z  BY <2>2, <2>4
  <2>6. \A t \in SUBSET s : t # s =>
          \A w \in t : Total(f, t) = f[w] + Total(f, t \ {w})
    BY <2>1, <2>3
  <2> HIDE DEF T
  <2>7. Total(f, s \ {z}) = f[y] + Total(f, (s \ {z}) \ {y})
    BY <2>4, <2>5, <2>6
  <2>8. Total(f, s \ {y}) = f[z] + Total(f, (s \ {y}) \ {z})
    BY <2>2, <2>4, <2>5, <2>6
  <2>9. (s \ {z}) \ {y} = (s \ {y}) \ {z}  OBVIOUS
  <2>10. Total(f, (s \ {y}) \ {z}) \in Int
    <3>1. (s \ {y}) \ {z} \in SUBSET S  BY <2>3
    <3> DEFINE u == (s \ {y}) \ {z}
    <3>2. IsFiniteSet(u) /\ \A w \in u : f[w] \in Int  BY <3>1, FS_Subset
    <3> HIDE DEF u
    <3>3. Total(f, u) \in Int  BY <3>2, TotalIsInt
    <3> QED  BY <3>3 DEF u
  <2>11. f[y] \in Int /\ f[z] \in Int  BY <2>3, <2>4
  <2> DEFINE rest == Total(f, (s \ {y}) \ {z})
  <2>12. /\ Total(f, s) = f[z] + (f[y] + rest)
         /\ Total(f, s) # f[y] + (f[z] + rest)
    BY <2>2, <2>4, <2>7, <2>8, <2>9
  <2>13. rest \in Int  BY <2>10
  <2> HIDE DEF rest
  <2> QED  BY <2>11, <2>12, <2>13
<1> QED  BY <1>1

\* Only the elements of the set count.
LEMMA TotalAgrees ==
  ASSUME NEW S, IsFiniteSet(S), NEW f, NEW g, \A x \in S : f[x] = g[x]
  PROVE  Total(f, S) = Total(g, S)
<1> DEFINE T == {s \in SUBSET S : Total(f, s) # Total(g, s)}
<1>1. ASSUME T # {}  PROVE FALSE
  <2>1. PICK s \in T : \A t \in T : t \subseteq s => t = s
    <3>1. T \subseteq SUBSET S  OBVIOUS
    <3> HIDE DEF T
    <3> QED  BY <1>1, <3>1, SmallestSubset
  <2>2. IsFiniteSet(s)  BY FS_Subset
  <2>3. s # {}  BY <2>2, TotalEquation
  <2>4. /\ Total(f, s) = f[Pick(s)] + Total(f, s \ {Pick(s)})
        /\ Total(g, s) = g[Pick(s)] + Total(g, s \ {Pick(s)})
    BY <2>2, <2>3, TotalEquation
  <2>5. Pick(s) \in s  BY <2>3, PickIsIn
  <2>6. Total(f, s \ {Pick(s)}) = Total(g, s \ {Pick(s)})  BY <2>1, <2>5
  <2> QED  BY <2>4, <2>5, <2>6
<1> QED  BY <1>1

\* A sum of nothing but zeros.
LEMMA TotalOfZeros ==
  ASSUME NEW S, IsFiniteSet(S), NEW f, \A x \in S : f[x] = 0
  PROVE  Total(f, S) = 0
<1> DEFINE T == {s \in SUBSET S : Total(f, s) # 0}
<1>1. ASSUME T # {}  PROVE FALSE
  <2>1. PICK s \in T : \A t \in T : t \subseteq s => t = s
    <3>1. T \subseteq SUBSET S  OBVIOUS
    <3> HIDE DEF T
    <3> QED  BY <1>1, <3>1, SmallestSubset
  <2>2. IsFiniteSet(s)  BY FS_Subset
  <2>3. s # {}  BY <2>2, TotalEquation
  <2>4. Total(f, s) = f[Pick(s)] + Total(f, s \ {Pick(s)})  BY <2>2, <2>3, TotalEquation
  <2>5. Pick(s) \in s  BY <2>3, PickIsIn
  <2>6. Total(f, s \ {Pick(s)}) = 0  BY <2>1, <2>5
  <2> QED  BY <2>4, <2>5, <2>6
<1> QED  BY <1>1

\* Two tables that differ in one element have totals that differ by as much.
LEMMA TotalChange ==
  ASSUME NEW S, IsFiniteSet(S), NEW f, NEW g, NEW x \in S,
         \A y \in S : f[y] \in Int /\ g[y] \in Int,
         \A y \in S : y # x => f[y] = g[y]
  PROVE  Total(g, S) = Total(f, S) + g[x] - f[x]
<1>1. IsFiniteSet(S \ {x}) /\ S \ {x} \in SUBSET S  BY FS_Subset
<1>2. Total(f, S \ {x}) = Total(g, S \ {x})
  BY <1>1, TotalAgrees
<1>3. Total(f, S \ {x}) \in Int  BY <1>1, TotalIsInt
<1>4. Total(f, S) = f[x] + Total(f, S \ {x}) /\ Total(g, S) = g[x] + Total(g, S \ {x})
  BY TotalWithout
<1> QED  BY <1>2, <1>3, <1>4

-----------------------------------------------------------------------------
(* The paid-media ledger.                                                  *)

\* A transaction on one row changes only that row, to another row, and keeps
\* the three facts the submission argument needs: a row leaves "reserved" for
\* good, it never leaves the paid statuses, and final rows are frozen.
RowStep(old, new) ==
  /\ old.status \in PaidStatuses => new.status \in PaidStatuses
  /\ new.status = "reserved" => old.status \in {"absent", "reserved"}
  /\ new.operation = "attached" /\ old.operation = "none" => new.status \in PaidStatuses
  /\ old.status \in FinalStatuses => new.status = old.status /\ new.actual = old.actual

LedgerStep ==
  /\ row' \in [Calls -> Row]
  /\ baseline' \in Nat
  /\ imported' \subseteq ImportKeys
  /\ \A c \in Calls : RowStep(row[c], row'[c])

\* Where a claim stands.  A worker that holds an unsent claim holds it alone, on
\* a paid row nothing was sent for; whatever was sent belongs to a paid row.
ClaimInv ==
  /\ \A w \in Workers, c \in Calls :
       worker[w] = Holding("claimed", c) =>
         /\ row[c].status \in PaidStatuses
         /\ sent[c] = 0
  /\ \A v, w \in Workers, c \in Calls :
       worker[v] = Holding("claimed", c) /\ worker[w] = Holding("claimed", c) => v = w

Inv == TypeOK /\ ClaimInv /\ SubmittedOnce /\ SentStaysCharged

-----------------------------------------------------------------------------

\* Each ledger transaction moves rows only the ways RowStep allows.
LEMMA TransactionSteps ==
  ASSUME TypeOK
  PROVE  /\ \A k \in ImportKeys : ImportBaseline(k) => LedgerStep
         /\ \A c \in Calls : Reserve(c) => LedgerStep
         /\ \A c \in Calls : ClaimSubmission(c) => LedgerStep
         /\ \A c \in Calls : AttachProviderOperation(c) => LedgerStep
         /\ \A c \in Calls, a \in Actuals, x, y \in BOOLEAN :
              Settle(c, a, x, y) => LedgerStep
         /\ \A c \in Calls : MarkAssetMaterialized(c) => LedgerStep
         /\ \A c \in Calls : MarkUncertain(c) => LedgerStep
         /\ \A c \in Calls : Release(c) => LedgerStep
         /\ \A c \in Calls : ReconcileOrphaned(c) => LedgerStep
<1> USE CostAssumption DEF TypeOK, Row, BlankRow, LedgerStep, RowStep, Statuses,
                           ActiveStatuses, FinalStatuses, PaidStatuses
<1>0. \A k \in ImportKeys : ImportBaseline(k) => LedgerStep
  BY DEF ImportBaseline
<1>1. \A c \in Calls : Reserve(c) => LedgerStep
  BY DEF Reserve
<1>2. ASSUME NEW c \in Calls, ClaimSubmission(c)
      PROVE  LedgerStep
  <2> DEFINE taken == [row[c] EXCEPT !.status = "submitted"]
  <2>1. taken \in Row /\ taken.status = "submitted"
    OBVIOUS
  <2>2. row[c].status = "reserved" /\ row' = [row EXCEPT ![c] = taken]
        /\ UNCHANGED <<baseline, imported>>
    BY <1>2 DEF ClaimSubmission
  <2> HIDE DEF taken
  <2>3. QED
    BY <2>1, <2>2
<1>3. \A c \in Calls : AttachProviderOperation(c) => LedgerStep
  BY DEF AttachProviderOperation
<1>4. ASSUME NEW c \in Calls, NEW a \in Actuals, NEW x \in BOOLEAN, NEW y \in BOOLEAN,
             Settle(c, a, x, y)
      PROVE  LedgerStep
  <2> DEFINE paid == [row[c] EXCEPT !.status = "settled", !.actual = a]
             final   == [paid EXCEPT !.asset = IF x THEN "pending" ELSE @,
                                        !.operation = IF y THEN "attached" ELSE @]
  <2>1. final \in Row /\ final.status = "settled"
    <3>1. a \in Nat /\ paid \in Row /\ paid.status = "settled"
      OBVIOUS
    <3> HIDE DEF paid
    <3>2. QED  BY <3>1
  <2>2. row' = [row EXCEPT ![c] = final]
    <3>1. row \in [Calls -> Row]
      OBVIOUS
    <3> HIDE DEF TypeOK, Row, LedgerStep, RowStep
    <3>2. PICK rows : rows = [row EXCEPT ![c].status = "settled", ![c].actual = a]
      OBVIOUS
    <3>3. row' = [rows EXCEPT ![c].asset = IF x THEN "pending" ELSE @,
                              ![c].operation = IF y THEN "attached" ELSE @]
      BY <1>4, <3>2 DEF Settle
    <3>4. rows = [row EXCEPT ![c] = paid]
      BY <3>1, <3>2
    <3>5. row' = [rows EXCEPT ![c] = final]
      <4>1. DOMAIN rows = Calls /\ rows[c] = paid
        BY <3>1, <3>4
      <4> HIDE DEF paid
      <4>2. QED
        BY <3>3, <4>1
    <3>6. QED
      BY <3>1, <3>4, <3>5
  <2>3. row[c].status \in ActiveStatuses /\ UNCHANGED <<baseline, imported>>
    BY <1>4 DEF Settle
  <2> HIDE DEF final
  <2>4. QED
    BY <2>1, <2>2, <2>3
<1>5. \A c \in Calls : MarkAssetMaterialized(c) => LedgerStep
  BY DEF MarkAssetMaterialized
<1>6. \A c \in Calls : MarkUncertain(c) => LedgerStep
  BY DEF MarkUncertain
<1>7. \A c \in Calls : Release(c) => LedgerStep
  BY DEF Release
<1>8. \A c \in Calls : ReconcileOrphaned(c) => LedgerStep
  BY DEF ReconcileOrphaned, OrphanVerdict
<1>9. QED
  BY <1>0, <1>1, <1>2, <1>3, <1>4, <1>5, <1>6, <1>7, <1>8

\* Every step of the system is a LedgerStep, whatever part of Next it is.
LEMMA NextIsLedgerStep ==
  ASSUME TypeOK, [Next]_vars
  PROVE  LedgerStep
<1>1. UNCHANGED ledger => LedgerStep
  BY DEF LedgerStep, RowStep, TypeOK, Row, ledger
<1>2. CASE LedgerCall
  BY <1>2, TransactionSteps DEF LedgerCall
<1>3. ASSUME NEW w \in Workers, NEW c \in Calls,
             WorkerClaim(w, c) \/ WorkerSend(w, c) \/ WorkerFinish(w, c)
      PROVE  LedgerStep
  BY <1>1, <1>3, TransactionSteps DEF WorkerClaim, WorkerSend, WorkerFinish
<1>4. ASSUME NEW W \in SUBSET Workers, WorkersCrash(W)
      PROVE  LedgerStep
  BY <1>1, <1>4 DEF WorkersCrash, ledger
<1>5. CASE UNCHANGED vars
  BY <1>1, <1>5 DEF vars, ledger
<1>6. QED
  BY <1>2, <1>3, <1>4, <1>5 DEF Next

\* The variables keep their types: rows in particular stay rows.
LEMMA TypeStep ==
  ASSUME TypeOK, [Next]_vars
  PROVE  TypeOK'
<1>1. row' \in [Calls -> Row] /\ baseline' \in Nat /\ imported' \subseteq ImportKeys
  BY NextIsLedgerStep DEF LedgerStep
<1>2. worker' \in [Workers -> WorkerStates]
  BY DEF TypeOK, WorkerStates, Next, vars, LedgerCall, WorkerClaim, WorkerSend,
         WorkerFinish, WorkersCrash
<1>3. sent' \in [Calls -> Nat]
  BY DEF TypeOK, Next, vars, LedgerCall, WorkerClaim, WorkerSend, WorkerFinish, WorkersCrash
<1>4. QED
  BY <1>1, <1>2, <1>3 DEF TypeOK

-----------------------------------------------------------------------------

LEMMA InvInit == Init => Inv
BY CostAssumption DEF Init, Inv, TypeOK, ClaimInv, SubmittedOnce, SentStaysCharged, Row, BlankRow,
   Statuses, WorkerStates, Idle, Holding

\* The claim is won at most once because it needs a reserved row and leaves a
\* paid one, and LedgerStep never leads from a paid row back to a reserved one.
LEMMA InvNext == Inv /\ [Next]_vars => Inv'
<1> SUFFICES ASSUME Inv, [Next]_vars
             PROVE  Inv'
  OBVIOUS
<1> USE DEF Inv
<1>1. TypeOK /\ TypeOK'
  BY TypeStep
<1>2. LedgerStep
  BY NextIsLedgerStep
<1>3. ASSUME UNCHANGED <<worker, sent>>
      PROVE  ClaimInv' /\ SubmittedOnce' /\ SentStaysCharged'
  BY <1>1, <1>2, <1>3
  DEF TypeOK, Row, LedgerStep, RowStep, ClaimInv, SubmittedOnce, SentStaysCharged
<1>4. CASE LedgerCall
  BY <1>1, <1>3, <1>4 DEF LedgerCall
<1>5. ASSUME NEW w \in Workers, NEW c \in Calls, WorkerClaim(w, c)
      PROVE  Inv'
  <2>1. /\ row[c].status = "reserved"
        /\ row'[c].status = "submitted"
        /\ worker' = [worker EXCEPT ![w] = Holding("claimed", c)]
        /\ UNCHANGED sent
    BY <1>5 DEF WorkerClaim, ClaimSubmission, TypeOK, Row
  <2>2. sent[c] = 0
    BY <2>1 DEF SentStaysCharged, PaidStatuses, TypeOK
  <2>3. ClaimInv'
    BY <1>1, <1>2, <2>1, <2>2
    DEF TypeOK, LedgerStep, RowStep, ClaimInv, Holding, PaidStatuses
  <2>4. SubmittedOnce' /\ SentStaysCharged'
    BY <1>1, <1>2, <2>1
    DEF TypeOK, Row, LedgerStep, RowStep, SubmittedOnce, SentStaysCharged, PaidStatuses
  <2>5. QED
    BY <1>1, <2>3, <2>4
<1>6. ASSUME NEW w \in Workers, NEW c \in Calls, WorkerSend(w, c)
      PROVE  Inv'
  <2>1. /\ worker[w] = Holding("claimed", c)
        /\ worker' = [worker EXCEPT ![w] = Holding("sent", c)]
        /\ sent' = [sent EXCEPT ![c] = @ + 1]
        /\ UNCHANGED row
    BY <1>6 DEF WorkerSend, ledger
  <2>2. sent[c] = 0 /\ row[c].status \in PaidStatuses
    BY <2>1 DEF ClaimInv
  <2>3. ClaimInv'
    BY <1>1, <2>1, <2>2 DEF TypeOK, ClaimInv, Holding
  <2>4. SubmittedOnce' /\ SentStaysCharged'
    BY <1>1, <2>1, <2>2 DEF TypeOK, SubmittedOnce, SentStaysCharged
  <2>5. QED
    BY <1>1, <2>3, <2>4
<1>7. ASSUME NEW W \in SUBSET Workers, UNCHANGED sent,
             worker' = [w \in Workers |-> IF w \in W THEN Idle ELSE worker[w]]
      PROVE  Inv'
  BY <1>1, <1>2, <1>7
  DEF TypeOK, Row, LedgerStep, RowStep, ClaimInv, SubmittedOnce, SentStaysCharged, Holding, Idle
<1>8. ASSUME NEW w \in Workers, NEW c \in Calls, WorkerFinish(w, c)
      PROVE  Inv'
  <2>1. worker' = [v \in Workers |-> IF v \in {w} THEN Idle ELSE worker[v]]
    BY <1>8 DEF WorkerFinish, TypeOK
  <2>2. QED
    BY <1>7, <1>8, <2>1 DEF WorkerFinish
<1>9. CASE UNCHANGED vars
  BY <1>1, <1>3, <1>9 DEF vars
<1>10. QED
  BY <1>4, <1>5, <1>6, <1>7, <1>8, <1>9 DEF Next, WorkersCrash

\* Type correctness of the ledger, its workers and the provider's count.
THEOREM LedgerTypes == Spec => []TypeOK
<1>1. Inv => TypeOK
  BY DEF Inv
<1>2. QED
  BY <1>1, InvInit, InvNext, PTL DEF Spec

\* For every set of calls and workers, no key reaches the provider twice
\* (claim_submission: "exactly one caller wins").
THEOREM AtMostOneSubmission == Spec => []SubmittedOnce
<1>1. Inv => SubmittedOnce
  BY DEF Inv
<1>2. QED
  BY <1>1, InvInit, InvNext, PTL DEF Spec

\* For every set of calls and workers, what the provider has received stays
\* charged: no crash, release or reconciliation gives the money back.
THEOREM SubmittedIsNeverReleased == Spec => []SentStaysCharged
<1>1. Inv => SentStaysCharged
  BY DEF Inv
<1>2. QED
  BY <1>1, InvInit, InvNext, PTL DEF Spec

\* A settled or released row keeps its status and its charge for ever.
THEOREM FinalRowsAreFrozen == Spec => FinalIsFinal
<1>1. Inv /\ [Next]_vars =>
        [\A c \in Calls : row[c].status \in FinalStatuses =>
            /\ row'[c].status = row[c].status
            /\ row'[c].actual = row[c].actual]_vars
  BY NextIsLedgerStep DEF Inv, LedgerStep, RowStep
<1>2. QED
  BY <1>1, InvInit, InvNext, PTL DEF Spec, FinalIsFinal

-----------------------------------------------------------------------------
(* The hard cap.                                                           *)

ChargeOf(rows) == [c \in Calls |-> Charge(rows[c], c)]
ChargeSums(g, rows) ==
  g = [s \in SUBSET Calls |-> IF s = {} THEN 0
         ELSE Charge(rows[Pick(s)], Pick(s)) + g[s \ {Pick(s)}]]

LEMMA FoldOfCharges ==
  ASSUME NEW rows
  PROVE  (CHOOSE g : ChargeSums(g, rows))[Calls] = Total(ChargeOf(rows), Calls)
<1>1. \A s \in SUBSET Calls : s # {} =>
        ChargeOf(rows)[Pick(s)] = Charge(rows[Pick(s)], Pick(s))
  BY PickIsIn DEF ChargeOf
<1>2. ASSUME NEW g
      PROVE  ChargeSums(g, rows) <=> Sums(g, ChargeOf(rows), Calls)
  BY <1>1 DEF ChargeSums, Sums
<1>3. \E g : ChargeSums(g, rows)
  BY <1>2, TotalsAreSums, CallsAssumption
<1>4. ChargeSums(CHOOSE g : ChargeSums(g, rows), rows)
  BY <1>3
<1> QED  BY <1>2, <1>4, SumIsTotal, CallsAssumption

\* What the run has committed is the baseline and the sum of the charges.
LEMMA CommittedIsTotal ==
  /\ \A rows : CommittedBy(rows) = baseline + Total(ChargeOf(rows), Calls)
  /\ Committed = baseline + Total(ChargeOf(row), Calls)
  /\ Committed' = baseline' + Total(ChargeOf(row'), Calls)
<1>1. \A rows : CommittedBy(rows) = baseline + (CHOOSE g : ChargeSums(g, rows))[Calls]
  BY DEF CommittedBy, MapThenSumSet, MapThenFoldSet, ChargeSums, Pick
<1>2. Committed' = baseline' + (CHOOSE g : ChargeSums(g, row'))[Calls]
  BY DEF Committed, CommittedBy, MapThenSumSet, MapThenFoldSet, ChargeSums, Pick
<1>3. Committed = CommittedBy(row)  BY DEF Committed
<1> QED  BY <1>1, <1>2, <1>3, FoldOfCharges

LEMMA ChargeIsNat ==
  ASSUME NEW r \in Row, NEW c \in Calls
  PROVE  Charge(r, c) \in Nat
BY CostAssumption DEF Charge, Row

LEMMA TotalChargeIsInt ==
  ASSUME NEW rows \in [Calls -> Row]
  PROVE  Total(ChargeOf(rows), Calls) \in Int
<1>1. \A c \in Calls : ChargeOf(rows)[c] \in Int  BY ChargeIsNat DEF ChargeOf
<1> QED  BY <1>1, TotalIsInt, CallsAssumption

\* A transaction on one row moves the total by what that row's charge moves.
LEMMA ChargeChange ==
  ASSUME NEW old \in [Calls -> Row], NEW new \in [Calls -> Row], NEW c \in Calls,
         \A d \in Calls : d # c => new[d] = old[d]
  PROVE  Total(ChargeOf(new), Calls)
           = Total(ChargeOf(old), Calls) + Charge(new[c], c) - Charge(old[c], c)
<1>1. \A d \in Calls : ChargeOf(old)[d] \in Int /\ ChargeOf(new)[d] \in Int
  BY ChargeIsNat DEF ChargeOf
<1>2. \A d \in Calls : d # c => ChargeOf(old)[d] = ChargeOf(new)[d]
  BY DEF ChargeOf
<1>3. ChargeOf(new)[c] = Charge(new[c], c) /\ ChargeOf(old)[c] = Charge(old[c], c)
  BY DEF ChargeOf
<1>4. Total(ChargeOf(new), Calls)
        = Total(ChargeOf(old), Calls) + ChargeOf(new)[c] - ChargeOf(old)[c]
  <2> DEFINE f == ChargeOf(old)
             g == ChargeOf(new)
  <2> HIDE DEF f, g
  <2>1. \A d \in Calls : f[d] \in Int /\ g[d] \in Int  BY <1>1 DEF f, g
  <2>2. \A d \in Calls : d # c => f[d] = g[d]  BY <1>2 DEF f, g
  <2>3. Total(g, Calls) = Total(f, Calls) + g[c] - f[c]
    BY <2>1, <2>2, TotalChange, CallsAssumption
  <2> QED  BY <2>3 DEF f, g
<1> QED  BY <1>3, <1>4

\* A transaction that raises no charge needs no check.
LEMMA CheaperRow ==
  ASSUME WithinCap, TypeOK, TypeOK', NEW c \in Calls, baseline' = baseline,
         \A d \in Calls : d # c => row'[d] = row[d],
         Charge(row'[c], c) <= Charge(row[c], c)
  PROVE  WithinCap'
<1>1. row \in [Calls -> Row] /\ row' \in [Calls -> Row] /\ baseline \in Nat
  BY DEF TypeOK
<1>2. Total(ChargeOf(row'), Calls)
        = Total(ChargeOf(row), Calls) + Charge(row'[c], c) - Charge(row[c], c)
  BY <1>1, ChargeChange
<1>3. /\ Charge(row[c], c) \in Nat /\ Charge(row'[c], c) \in Nat
      /\ Total(ChargeOf(row), Calls) \in Int
  BY <1>1, ChargeIsNat, TotalChargeIsInt
<1>4. Total(ChargeOf(row'), Calls) <= Total(ChargeOf(row), Calls)
  BY <1>2, <1>3
<1>5. Total(ChargeOf(row'), Calls) \in Int
  BY <1>1, TotalChargeIsInt
<1>6. baseline + Total(ChargeOf(row), Calls) <= Cap
  BY CommittedIsTotal DEF WithinCap
<1>7. baseline' + Total(ChargeOf(row'), Calls) <= Cap
  BY <1>1, <1>3, <1>4, <1>5, <1>6, CostAssumption
<1> QED  BY <1>7, CommittedIsTotal DEF WithinCap

LEMMA SameRows ==
  ASSUME WithinCap, UNCHANGED <<row, baseline>>
  PROVE  WithinCap'
BY CommittedIsTotal DEF WithinCap

\* reserve, settle and import_baseline check; the others raise no charge.
LEMMA TransactionsKeepCap ==
  ASSUME WithinCap, TypeOK, TypeOK'
  PROVE  /\ \A k \in ImportKeys : ImportBaseline(k) => WithinCap'
         /\ \A c \in Calls : Reserve(c) => WithinCap'
         /\ \A c \in Calls : ClaimSubmission(c) => WithinCap'
         /\ \A c \in Calls : AttachProviderOperation(c) => WithinCap'
         /\ \A c \in Calls, a \in Actuals, x, y \in BOOLEAN :
              Settle(c, a, x, y) => WithinCap'
         /\ \A c \in Calls : MarkAssetMaterialized(c) => WithinCap'
         /\ \A c \in Calls : MarkUncertain(c) => WithinCap'
         /\ \A c \in Calls : Release(c) => WithinCap'
         /\ \A c \in Calls : ReconcileOrphaned(c) => WithinCap'
<1>1. row \in [Calls -> Row] /\ row' \in [Calls -> Row] /\ baseline \in Nat /\ Cap \in Nat
  BY CostAssumption DEF TypeOK
<1>2. Total(ChargeOf(row), Calls) \in Int  BY <1>1, TotalChargeIsInt
<1>3. ASSUME NEW k \in ImportKeys, ImportBaseline(k)  PROVE WithinCap'
  <2>1. /\ Committed + ImportAmount[k] <= Cap
        /\ baseline' = baseline + ImportAmount[k] /\ row' = row
    BY <1>3 DEF ImportBaseline
  <2>2. ImportAmount[k] \in Nat  BY CostAssumption
  <2>3. Committed' = baseline' + Total(ChargeOf(row), Calls)  BY <2>1, CommittedIsTotal
  <2>4. Committed = baseline + Total(ChargeOf(row), Calls)  BY CommittedIsTotal
  <2>5. Committed' <= Cap  BY <1>1, <1>2, <2>1, <2>2, <2>3, <2>4
  <2> QED  BY <2>5 DEF WithinCap
<1>4. ASSUME NEW c \in Calls, Reserve(c)  PROVE WithinCap'
  <2>1. /\ row[c].status = "absent" /\ Committed + Estimate[c] <= Cap
        /\ row' = [row EXCEPT ![c] = BlankRow("reserved")] /\ baseline' = baseline
    BY <1>4 DEF Reserve
  <2>2. Charge(row[c], c) = 0 /\ Charge(row'[c], c) = Estimate[c]
    BY <1>1, <2>1 DEF Charge, BlankRow, ActiveStatuses
  <2>3. \A d \in Calls : d # c => row'[d] = row[d]  BY <1>1, <2>1
  <2>4. Total(ChargeOf(row'), Calls)
          = Total(ChargeOf(row), Calls) + Charge(row'[c], c) - Charge(row[c], c)
    BY <1>1, <2>3, ChargeChange
  <2>5. Estimate[c] \in Nat  BY CostAssumption
  <2>6. Committed' = baseline + Total(ChargeOf(row'), Calls)  BY <2>1, CommittedIsTotal
  <2>7. Committed = baseline + Total(ChargeOf(row), Calls)  BY CommittedIsTotal
  <2>8. Committed' <= Cap  BY <1>1, <1>2, <2>1, <2>2, <2>4, <2>5, <2>6, <2>7
  <2> QED  BY <2>8 DEF WithinCap
<1>5. ASSUME NEW c \in Calls, NEW a \in Actuals, NEW x \in BOOLEAN, NEW y \in BOOLEAN,
             Settle(c, a, x, y)
      PROVE  WithinCap'
  <2> DEFINE closed == [row EXCEPT ![c].status = "settled", ![c].actual = a]
  <2>1. CommittedBy(closed) <= Cap /\ baseline' = baseline
    BY <1>5 DEF Settle
  <2>2. /\ \A d \in Calls : d # c => row'[d] = closed[d]
        /\ row'[c].status = "settled" /\ row'[c].actual = a
    BY <1>1, <1>5 DEF Settle
  <2>3. closed \in [Calls -> Row] /\ closed[c].status = "settled" /\ closed[c].actual = a
    <3> DEFINE paid == [row[c] EXCEPT !.status = "settled", !.actual = a]
    <3>1. a \in Nat /\ row[c] \in Row  BY <1>1, CostAssumption
    <3>2. paid \in Row /\ paid.status = "settled" /\ paid.actual = a
      BY <3>1 DEF Row, Statuses, FinalStatuses
    <3>3. closed = [row EXCEPT ![c] = paid]  BY <1>1
    <3> HIDE DEF paid, closed
    <3> QED  BY <1>1, <3>2, <3>3
  <2> HIDE DEF closed
  <2>4. \A d \in Calls : Charge(row'[d], d) = Charge(closed[d], d)
    BY <2>2, <2>3 DEF Charge
  <2>5. ChargeOf(row') = ChargeOf(closed)  BY <2>4 DEF ChargeOf
  <2>6. Committed' = CommittedBy(closed)  BY <2>1, <2>5, CommittedIsTotal
  <2> QED  BY <2>1, <2>6 DEF WithinCap
<1>6. ASSUME NEW c \in Calls,
             \/ ClaimSubmission(c) \/ AttachProviderOperation(c) \/ MarkAssetMaterialized(c)
             \/ MarkUncertain(c) \/ Release(c) \/ ReconcileOrphaned(c)
      PROVE  WithinCap'
  <2>1. baseline' = baseline /\ \A d \in Calls : d # c => row'[d] = row[d]
    BY <1>1, <1>6 DEF ClaimSubmission, AttachProviderOperation, MarkAssetMaterialized,
                      MarkUncertain, Release, ReconcileOrphaned
  <2>2. row[c] \in Row /\ Estimate[c] \in Nat  BY <1>1, CostAssumption
  <2>3. CASE ClaimSubmission(c) \/ MarkUncertain(c)
    <3>1. row[c].status \in ActiveStatuses /\ row'[c].status \in ActiveStatuses
      BY <1>1, <2>3 DEF ClaimSubmission, MarkUncertain, ActiveStatuses, Row
    <3>2. Charge(row'[c], c) <= Charge(row[c], c)  BY <2>2, <3>1 DEF Charge
    <3> QED  BY <2>1, <3>2, CheaperRow
  <2>4. CASE AttachProviderOperation(c) \/ MarkAssetMaterialized(c)
    <3>1. row'[c].status = row[c].status /\ row'[c].actual = row[c].actual
      BY <1>1, <2>4 DEF AttachProviderOperation, MarkAssetMaterialized, Row
    <3>2. Charge(row'[c], c) = Charge(row[c], c)  BY <3>1 DEF Charge
    <3>3. Charge(row'[c], c) <= Charge(row[c], c)  BY <2>2, <3>2, ChargeIsNat
    <3> QED  BY <2>1, <3>3, CheaperRow
  <2>5. CASE Release(c) \/ ReconcileOrphaned(c)
    <3>1. \/ row'[c].status = "released"
          \/ row[c].status = "submitted" /\ row'[c].status = "uncertain"
          \/ row'[c] = row[c]
      BY <1>1, <2>5 DEF Release, ReconcileOrphaned, OrphanVerdict, Row
    <3>2. Charge(row'[c], c) <= Charge(row[c], c)
      <4>1. CASE row'[c].status = "released"
        <5>1. Charge(row'[c], c) = 0  BY <4>1 DEF Charge, ActiveStatuses
        <5> QED  BY <2>2, <5>1, ChargeIsNat
      <4>2. CASE row[c].status = "submitted" /\ row'[c].status = "uncertain"
        BY <2>2, <4>2 DEF Charge, ActiveStatuses
      <4>3. CASE row'[c] = row[c]  BY <2>2, <4>3, ChargeIsNat
      <4> QED  BY <3>1, <4>1, <4>2, <4>3
    <3> QED  BY <2>1, <3>2, CheaperRow
  <2> QED  BY <1>6, <2>3, <2>4, <2>5
<1> QED  BY <1>3, <1>4, <1>5, <1>6

LEMMA StepKeepsCap ==
  ASSUME WithinCap, TypeOK, TypeOK', [Next]_vars
  PROVE  WithinCap'
<1>1. UNCHANGED ledger => WithinCap'  BY SameRows DEF ledger
<1>2. CASE LedgerCall
  BY <1>2, TransactionsKeepCap DEF LedgerCall
<1>3. ASSUME NEW w \in Workers, NEW c \in Calls,
             WorkerClaim(w, c) \/ WorkerSend(w, c) \/ WorkerFinish(w, c)
      PROVE  WithinCap'
  BY <1>1, <1>3, TransactionsKeepCap DEF WorkerClaim, WorkerSend, WorkerFinish
<1>4. ASSUME NEW W \in SUBSET Workers, WorkersCrash(W)
      PROVE  WithinCap'
  BY <1>1, <1>4 DEF WorkersCrash, ledger
<1>5. CASE UNCHANGED vars  BY <1>1, <1>5 DEF vars, ledger
<1> QED  BY <1>2, <1>3, <1>4, <1>5 DEF Next

LEMMA NothingIsCommitted ==
  ASSUME Init
  PROVE  Committed = 0
<1>1. \A c \in Calls : ChargeOf(row)[c] = 0
  BY DEF Init, ChargeOf, Charge, BlankRow, ActiveStatuses
<1>2. Total(ChargeOf(row), Calls) = 0  BY <1>1, TotalOfZeros, CallsAssumption
<1> QED  BY <1>2, CommittedIsTotal DEF Init

\* For every set of calls and every estimate, actual cost and import: the run
\* never commits more than its cap, in whatever order rows are reserved,
\* settled above their estimate, released or reconciled.
THEOREM CapHolds == Spec => []WithinCap
<1>1. Init => Inv /\ WithinCap
  BY InvInit, NothingIsCommitted, CostAssumption DEF WithinCap
<1>2. Inv /\ WithinCap /\ [Next]_vars => (Inv /\ WithinCap)'
  BY InvNext, StepKeepsCap DEF Inv
<1> QED  BY <1>1, <1>2, PTL DEF Spec

-----------------------------------------------------------------------------
(* The children of a spawn_subtasks call.                                  *)

\* The dispatcher launches children in order, and settles when all are done.
LaunchInv ==
  /\ pc = "idle" => started = {} /\ \A c \in Children : child[c] = "none"
  /\ pc \in {"idle", "check", "add", "construct"} =>
       \A c \in Children : c >= next => child[c] = "none"
  /\ pc \in {"add", "construct"} => next \in Children
  /\ started \subseteq Launched

\* A child has its result from its own end or from its settlement.
ResultInv ==
  /\ pc \notin {"settle", "returned"} => settled = {}
  /\ \A c \in Children :
       results[c] = IF c \in settled \/ child[c] = "ended" THEN 1 ELSE 0
  /\ pc = "returned" => started \subseteq settled

\* A child that has not overrun its slice, or has by one call that took a
\* seconds instead of its estimate e.
Overrun(c) ==
  \/ childSpent[c] <= reserved[c]
  \/ /\ axis = "seconds"
     /\ \E a \in Durations, e \in Estimates : childSpent[c] <= reserved[c] + a - e

\* A call in progress was within the slice by its estimate.
SliceInv ==
  \A c \in Children :
    /\ child[c] = "none" => childSpent[c] = 0
    /\ child[c] = "calling" =>
         calling[c] \in Estimates /\ childSpent[c] + calling[c] <= reserved[c]
    /\ Overrun(c)

BatchInv == SpawnTypeOK /\ LaunchInv /\ ResultInv /\ SliceInv

-----------------------------------------------------------------------------

LEMMA ShareIsNat ==
  ASSUME NEW a \in Nat, NEW b \in Nat \ {0}
  PROVE  a \div b \in Nat
OBVIOUS

LEMMA NextChild ==
  ASSUME NEW n \in Nat \ {0}, NEW k \in 1 .. n
  PROVE  k \in 1 .. n + 1 /\ k + 1 \in 1 .. n + 1
OBVIOUS

LEMMA InitBatch == SpawnInit => BatchInv
BY BudgetAssumption DEF SpawnInit, BatchInv, SpawnTypeOK, LaunchInv, ResultInv, SliceInv, Overrun,
                        Children, Launched, Alive, Done

\* Every variable keeps its shape over every step.
LEMMA StepTypes ==
  ASSUME SpawnTypeOK, LaunchInv, SpawnNext
  PROVE  SpawnTypeOK'
<1> USE BudgetAssumption DEF SpawnTypeOK, guard, batch, children, Alive, Done
<1>1. CASE SliceBudget
  <2>1. CASE pc' = "returned" /\ UNCHANGED slice
    BY <1>1, <2>1 DEF SliceBudget
  <2>2. CASE pc' = "check" /\ slice' = Pool \div N /\ Pool \in Nat
    <3>1. slice' \in Nat  BY <2>2, ShareIsNat
    <3> QED  BY <1>1, <2>2, <3>1 DEF SliceBudget
  <2>3. Pool \in Int  BY DEF Pool
  <2> QED  BY <1>1, <2>1, <2>2, <2>3 DEF SliceBudget
<1>2. CASE ReserveCheck  BY <1>2 DEF ReserveCheck
<1>3. CASE ReserveAdd
  <2>1. next \in Children /\ Slice(next) \in Nat
    BY <1>3 DEF ReserveAdd, LaunchInv, Slice, Smaller, Children
  <2>2. reserved' \in [Children -> Nat]  BY <1>3, <2>1 DEF ReserveAdd
  <2>3. spent' \in Int  BY <1>3, <2>1 DEF ReserveAdd
  <2> QED  BY <1>3, <2>2, <2>3 DEF ReserveAdd
<1>4. CASE Construct
  <2>1. next \in Children  BY <1>4 DEF Construct, LaunchInv
  <2>2. child' \in [Children -> {"none"} \union Alive \union Done]
    BY <1>4, <2>1 DEF Construct
  <2>3. next' \in 1 .. N + 1
    <3>1. next' = next \/ next' = next + 1  BY <1>4 DEF Construct
    <3>2. N \in Nat \ {0} /\ next \in 1 .. N  BY <2>1 DEF Children
    <3> QED  BY <3>1, <3>2, NextChild
  <2> QED  BY <1>4, <2>2, <2>3 DEF Construct
<1>5. CASE WaitEnds \/ Drained \/ Return  BY <1>5 DEF WaitEnds, Drained, Return
<1>6. ASSUME NEW c \in Children, DrainChild(c) \/ SettleChild(c)  PROVE SpawnTypeOK'
  <2>1. CASE DrainChild(c)  BY <2>1 DEF DrainChild
  <2>2. CASE SettleChild(c)
    <3>1. results' \in [Children -> Nat]  BY <2>2 DEF SettleChild
    <3>2. spent' \in Int /\ settled' \subseteq Children  BY <2>2 DEF SettleChild
    <3> QED  BY <2>2, <3>1, <3>2 DEF SettleChild
  <2> QED  BY <1>6, <2>1, <2>2
<1>7. ASSUME NEW c \in Children, Child(c)  PROVE SpawnTypeOK'
  <2>1. CASE ChildStart(c) \/ ChildRaise(c)  BY <2>1 DEF ChildStart, ChildRaise
  <2>2. CASE ChildCallEnd(c)
    <3>1. PICK a \in IF axis = "usd" THEN {calling[c]} ELSE Durations :
            childSpent' = [childSpent EXCEPT ![c] = @ + a]
      BY <2>2 DEF ChildCallEnd
    <3>2. a \in Nat /\ childSpent[c] + a \in Nat  OBVIOUS
    <3>3. childSpent' \in [Children -> Nat]  BY <3>1, <3>2
    <3>4. child' = [child EXCEPT ![c] = "running"]
          /\ UNCHANGED <<axis, spent, start, batch, calling, started, results, mcp>>
      BY <2>2 DEF ChildCallEnd
    <3> QED  BY <3>3, <3>4
  <2>4. CASE ChildEnd(c)
    <3>1. results' \in [Children -> Nat]  BY <2>4 DEF ChildEnd
    <3> QED  BY <2>4, <3>1 DEF ChildEnd
  <2>3. CASE \E estimate \in Estimates : ChildCall(c, estimate)
    <3>1. PICK estimate \in Estimates :
            /\ child' = [child EXCEPT ![c] = "calling"]
            /\ calling' = [calling EXCEPT ![c] = estimate]
            /\ UNCHANGED <<guard, batch, childSpent, started, results, mcp>>
      BY <2>3 DEF ChildCall
    <3>2. child' \in [Children -> {"none"} \union Alive \union Done]  BY <3>1
    <3>3. calling' \in [Children -> Nat]  BY <3>1
    <3> QED  BY <3>1, <3>2, <3>3
  <2> QED  BY <1>7, <2>1, <2>2, <2>3, <2>4 DEF Child
<1>8. ASSUME NEW v \in McpVerbs, Mcp(v)  PROVE SpawnTypeOK'
  <2>1. CASE McpCheck(v)
    <3>1. PICK estimate \in Estimates :
            mcp' = [mcp EXCEPT ![v] =
              IF spent + estimate > MaxSpend THEN McpOver
              ELSE [pc |-> "running", estimate |-> estimate, loaded |-> 0]]
      BY <2>1 DEF McpCheck
    <3>2. mcp' \in [McpVerbs -> [pc : {"new", "running", "loaded", "over"}, estimate : Nat, loaded : Int]]
      BY <3>1 DEF McpOver
    <3>3. UNCHANGED <<guard, batch, children>>  BY <2>1 DEF McpCheck
    <3> QED  BY <3>2, <3>3
  <2>2. CASE McpLoad(v)
    <3>1. mcp' = [mcp EXCEPT ![v].pc = "loaded", ![v].loaded = spent]
          /\ UNCHANGED <<guard, batch, children>>
      BY <2>2 DEF McpLoad
    <3>2. PICK k : k = [mcp[v] EXCEPT !.pc = "loaded", !.loaded = spent]  OBVIOUS
    <3>3. k \in [pc : {"new", "running", "loaded", "over"}, estimate : Nat, loaded : Int]
      BY <3>2
    <3>4. mcp' = [mcp EXCEPT ![v] = k]  BY <3>1, <3>2
    <3>5. mcp' \in [McpVerbs -> [pc : {"new", "running", "loaded", "over"}, estimate : Nat, loaded : Int]]
      BY <3>3, <3>4
    <3> QED  BY <3>1, <3>5
  <2>3. CASE McpStore(v)
    <3>1. mcp[v].loaded \in Int  OBVIOUS
    <3>2. PICK a \in Durations \union {mcp[v].estimate} : spent' = mcp[v].loaded + a
      BY <2>3 DEF McpStore
    <3>3. spent' \in Int  BY <3>1, <3>2
    <3>4. mcp' \in [McpVerbs -> [pc : {"new", "running", "loaded", "over"}, estimate : Nat, loaded : Int]]
      BY <2>3 DEF McpStore, McpOver
    <3>5. UNCHANGED <<axis, start, batch, children>>  BY <2>3 DEF McpStore
    <3> QED  BY <3>3, <3>4, <3>5
  <2> QED  BY <1>8, <2>1, <2>2, <2>3 DEF Mcp
<1> QED  BY <1>1, <1>2, <1>3, <1>4, <1>5, <1>6, <1>7, <1>8 DEF SpawnNext, Dispatcher

\* Children are launched in order.
LEMMA StepLaunch ==
  ASSUME SpawnTypeOK, LaunchInv, SpawnNext
  PROVE  LaunchInv'
<1> USE DEF SpawnTypeOK, LaunchInv, Launched, guard, batch, children, Children
<1>1. CASE SliceBudget \/ ReserveAdd  BY <1>1 DEF SliceBudget, ReserveAdd
<1>6. CASE ReserveCheck  BY <1>6, BudgetAssumption DEF ReserveCheck
<1>7. CASE Construct
  <2>1. next \in Children /\ child[next] = "none"  BY <1>7 DEF Construct
  <2>2. CASE child' = [child EXCEPT ![next] = "task"] /\ next' = next + 1
    <3>1. \A c \in Children : c >= next' => child'[c] = "none"
      <4>1. \A c \in Children : c >= next => child[c] = "none"  BY <1>7 DEF Construct
      <4>2. \A c \in Children : c >= next + 1 => c >= next /\ c # next
        BY <2>1, BudgetAssumption
      <4> HIDE DEF SpawnTypeOK, LaunchInv
      <4> QED  BY <2>2, <4>1, <4>2
    <3> QED  BY <1>7, <2>1, <2>2, <3>1 DEF Construct
  <2>3. CASE pc' = "drain" /\ UNCHANGED <<child, next>>
    BY <1>7, <2>3 DEF Construct
  <2> QED  BY <1>7, <2>2, <2>3 DEF Construct
<1>2. CASE WaitEnds \/ Drained \/ Return  BY <1>2 DEF WaitEnds, Drained, Return
<1>3. ASSUME NEW c \in Children, DrainChild(c) \/ SettleChild(c)  PROVE LaunchInv'
  BY <1>3 DEF DrainChild, SettleChild
<1>4. ASSUME NEW c \in Children, Child(c)  PROVE LaunchInv'
  BY <1>4 DEF Child, ChildStart, ChildCall, ChildCallEnd, ChildEnd, ChildRaise
<1>5. ASSUME NEW v \in McpVerbs, Mcp(v)  PROVE LaunchInv'
  BY <1>5 DEF Mcp, McpCheck, McpLoad, McpStore
<1> QED  BY <1>1, <1>2, <1>3, <1>4, <1>5, <1>6, <1>7 DEF SpawnNext, Dispatcher

\* Results come from a child's end, or from its settlement if it had none.
LEMMA StepResult ==
  ASSUME SpawnTypeOK, LaunchInv, ResultInv, SpawnNext
  PROVE  ResultInv'
<1> USE DEF SpawnTypeOK, ResultInv, Launched, guard, batch, children
<1>1. CASE SliceBudget \/ ReserveCheck \/ ReserveAdd
  BY <1>1 DEF SliceBudget, ReserveCheck, ReserveAdd, LaunchInv
<1>2. CASE Construct  BY <1>2 DEF Construct, LaunchInv
<1>3. CASE WaitEnds \/ Drained \/ Return
  BY <1>3 DEF WaitEnds, Drained, Return, LaunchInv
<1>4. ASSUME NEW c \in Children, DrainChild(c) \/ SettleChild(c)  PROVE ResultInv'
  BY <1>4 DEF DrainChild, SettleChild, Alive
<1>5. ASSUME NEW c \in Children, Child(c)  PROVE ResultInv'
  BY <1>5 DEF Child, ChildStart, ChildCall, ChildCallEnd, ChildEnd, ChildRaise
<1>6. ASSUME NEW v \in McpVerbs, Mcp(v)  PROVE ResultInv'
  BY <1>6 DEF Mcp, McpCheck, McpLoad, McpStore
<1> QED  BY <1>1, <1>2, <1>3, <1>4, <1>5, <1>6 DEF SpawnNext, Dispatcher

\* A call is gated by its estimate, and ends the only one its child is in.
LEMMA StepSlice ==
  ASSUME SpawnTypeOK, LaunchInv, SliceInv, SpawnNext
  PROVE  SliceInv'
<1> USE BudgetAssumption DEF SpawnTypeOK, SliceInv, Overrun, guard, batch, children
<1>1. CASE SliceBudget \/ ReserveCheck \/ WaitEnds \/ Drained \/ Return
  BY <1>1 DEF SliceBudget, ReserveCheck, WaitEnds, Drained, Return
<1>2. CASE ReserveAdd
  <2>1. next \in Children /\ child[next] = "none" /\ Slice(next) \in Nat
    BY <1>2 DEF ReserveAdd, LaunchInv, Slice, Smaller, Children
  <2>2. Overrun(next)'  BY <1>2, <2>1 DEF ReserveAdd
  <2>3. \A d \in Children \ {next} : Overrun(d)'  BY <1>2, <2>1 DEF ReserveAdd
  <2> QED  BY <1>2, <2>1, <2>2, <2>3 DEF ReserveAdd
<1>3. CASE Construct  BY <1>3 DEF Construct
<1>4. ASSUME NEW c \in Children, DrainChild(c) \/ SettleChild(c)  PROVE SliceInv'
  BY <1>4 DEF DrainChild, SettleChild
<1>5. ASSUME NEW c \in Children, Child(c)  PROVE SliceInv'
  <2>1. CASE ChildStart(c) \/ ChildEnd(c) \/ ChildRaise(c)
    BY <2>1 DEF ChildStart, ChildEnd, ChildRaise
  <2>2. CASE ChildCallEnd(c)
    <3>1. PICK a \in IF axis = "usd" THEN {calling[c]} ELSE Durations :
            childSpent' = [childSpent EXCEPT ![c] = @ + a]
      BY <2>2 DEF ChildCallEnd
    <3>2. calling[c] \in Estimates /\ childSpent[c] + calling[c] <= reserved[c]
      BY <2>2 DEF ChildCallEnd
    <3>3. Overrun(c)'
      <4>1. CASE axis = "usd"  BY <2>2, <3>1, <3>2, <4>1 DEF ChildCallEnd
      <4>2. CASE axis = "seconds"
        <5>1. childSpent'[c] <= reserved'[c] + a - calling[c] /\ a \in Durations
          BY <2>2, <3>1, <3>2, <4>2 DEF ChildCallEnd
        <5>2. axis' = "seconds"  BY <2>2, <4>2 DEF ChildCallEnd
        <5> QED  BY <3>2, <5>1, <5>2
      <4> QED  BY <4>1, <4>2
    <3>4. \A d \in Children \ {c} : Overrun(d)'
      BY <2>2, <3>1 DEF ChildCallEnd
    <3>5. \A d \in Children : child'[d] = "none" => childSpent'[d] = 0
      BY <2>2, <3>1 DEF ChildCallEnd
    <3>6. \A d \in Children : child'[d] = "calling" =>
            calling'[d] \in Estimates /\ childSpent'[d] + calling'[d] <= reserved'[d]
      BY <2>2, <3>1 DEF ChildCallEnd
    <3> HIDE DEF Overrun
    <3> QED  BY <3>3, <3>4, <3>5, <3>6
  <2>3. CASE \E estimate \in Estimates : ChildCall(c, estimate)  BY <2>3 DEF ChildCall
  <2> QED  BY <1>5, <2>1, <2>2, <2>3 DEF Child
<1>6. ASSUME NEW v \in McpVerbs, Mcp(v)  PROVE SliceInv'
  BY <1>6 DEF Mcp, McpCheck, McpLoad, McpStore
<1> QED  BY <1>1, <1>2, <1>3, <1>4, <1>5, <1>6 DEF SpawnNext, Dispatcher

LEMMA StutterBatch == BatchInv /\ UNCHANGED spawnVars => BatchInv'
BY DEF BatchInv, SpawnTypeOK, LaunchInv, ResultInv, SliceInv, Overrun, Launched, spawnVars

THEOREM BatchInvariance == SpawnSpec => []BatchInv
<1>1. BatchInv /\ [SpawnNext]_spawnVars => BatchInv'
  BY StepTypes, StepLaunch, StepResult, StepSlice, StutterBatch DEF BatchInv
<1> QED  BY <1>1, InitBatch, PTL DEF SpawnSpec

-----------------------------------------------------------------------------

\* A child never closes twice, and when the verb has returned no child that it
\* opened is without a result.
THEOREM ChildrenClose == SpawnSpec => []StartedChildrenClose
<1>1. BatchInv => StartedChildrenClose
  BY DEF BatchInv, SpawnTypeOK, ResultInv, StartedChildrenClose
<1> QED  BY <1>1, BatchInvariance, PTL

\* A child stays within its dollars, and overruns its seconds by one call at most.
THEOREM OverrunsAreBounded == SpawnSpec => []ChildOverrunsByOneCall
<1>1. BatchInv => ChildOverrunsByOneCall
  BY DEF BatchInv, SliceInv, Overrun, ChildOverrunsByOneCall, Launched
<1> QED  BY <1>1, BatchInvariance, PTL
-----------------------------------------------------------------------------
(* The balance of the session's total.                                     *)

\* Nothing is reserved for a child that has not been reached yet.
BalanceInv ==
  /\ pc \in {"idle", "check", "add"} => \A c \in Children : c >= next => reserved[c] = 0
  /\ pc = "construct" => \A c \in Children : c > next => reserved[c] = 0
  /\ pc = "idle" /\ McpQuiet => spent = start
  /\ LedgerBalances

\* The two sums of LedgerBalances, before and after a step.
LEMMA BalanceIsTotals ==
  /\ LedgerBalances <=>
       (McpQuiet => spent = start + Total(Snapshot, settled)
                                  + Total(reserved, Children \ settled))
  /\ LedgerBalances' <=>
       (McpQuiet' => spent' = start' + Total(Snapshot', settled')
                                     + Total(reserved', Children \ settled'))
BY DEF LedgerBalances, MapThenSumSet, MapThenFoldSet, Total, Sums, Pick, Children

LEMMA FinitelyManyChildren ==
  ASSUME NEW S \in SUBSET Children
  PROVE  IsFiniteSet(S)
<1>1. IsFiniteSet(Children)  BY BudgetAssumption, FS_Interval DEF Children
<1> QED  BY <1>1, FS_Subset

\* What the snapshots say is what their guards hold.
LEMMA SnapshotIsNat == SpawnTypeOK => Snapshot \in [Children -> Nat]
<1> SUFFICES ASSUME SpawnTypeOK, NEW c \in Children  PROVE Snapshot[c] \in Nat
  BY DEF Snapshot
<1>1. childSpent[c] \in Nat /\ Tick \in Nat \ {0} /\ 2 \in Nat \ {0}
  BY BudgetAssumption DEF SpawnTypeOK
<1> DEFINE half == Tick \div 2
           ticks == (childSpent[c] + half) \div Tick
<1>2. half \in Nat  BY <1>1, ShareIsNat
<1>3. childSpent[c] + half \in Nat  BY <1>1, <1>2
<1>4. ticks \in Nat  BY <1>1, <1>3, ShareIsNat
<1>5. Snapshot[c] = IF axis = "usd" THEN childSpent[c] ELSE Tick * ticks
  BY DEF Snapshot
<1> HIDE DEF half, ticks
<1>6. Tick * ticks \in Nat  BY <1>1, <1>4
<1> QED  BY <1>1, <1>5, <1>6

LEMMA SameSnapshot == UNCHANGED <<childSpent, axis>> => Snapshot' = Snapshot
BY DEF Snapshot

LEMMA TotalsAreInt ==
  ASSUME SpawnTypeOK, NEW S \in SUBSET Children
  PROVE  Total(Snapshot, S) \in Int /\ Total(reserved, S) \in Int
<1>1. \A c \in S : Snapshot[c] \in Int /\ reserved[c] \in Int
  BY SnapshotIsNat DEF SpawnTypeOK
<1> QED  BY <1>1, FinitelyManyChildren, TotalIsInt

\* A step that neither touches the guard nor the reservations, and no account of a
\* settled child, keeps the balance.
LEMMA BalanceUntouched ==
  ASSUME SpawnTypeOK, LedgerBalances, UNCHANGED <<spent, start, reserved, settled>>,
         McpQuiet' => McpQuiet, UNCHANGED <<childSpent, axis>> \/ settled = {}
  PROVE  LedgerBalances'
<1>1. Total(Snapshot', settled') = Total(Snapshot, settled)
  BY FS_EmptySet, TotalEquation, SameSnapshot
<1> QED  BY <1>1, BalanceIsTotals

\* The verb settles when it is over; a verb that is over stays over.
LEMMA QuietBefore ==
  ASSUME SpawnTypeOK, SpawnNext
  PROVE  McpQuiet' => McpQuiet
<1>1. ASSUME NEW v \in McpVerbs, Mcp(v)  PROVE McpQuiet' => McpQuiet
  <2>1. mcp[v].pc # "over" /\ \A u \in McpVerbs : u # v => mcp'[u] = mcp[u]
    BY <1>1 DEF Mcp, McpCheck, McpLoad, McpStore, SpawnTypeOK
  <2> QED  BY <2>1 DEF McpQuiet
<1>2. mcp' = mcp => (McpQuiet' => McpQuiet)  BY DEF McpQuiet
<1>3. CASE Dispatcher
  BY <1>2, <1>3 DEF Dispatcher, SliceBudget, ReserveCheck, ReserveAdd, Construct, WaitEnds,
                    Drained, Return, DrainChild, SettleChild
<1>4. ASSUME NEW c \in Children, Child(c)  PROVE mcp' = mcp
  BY <1>4 DEF Child, ChildStart, ChildCall, ChildCallEnd, ChildEnd, ChildRaise
<1> QED  BY <1>1, <1>2, <1>3, <1>4 DEF SpawnNext

\* The steps that move money: a reservation, a settlement, and the MCP verb.
LEMMA ReserveKeepsBalance ==
  ASSUME SpawnTypeOK, LaunchInv, ResultInv, BalanceInv, ReserveAdd
  PROVE  LedgerBalances'
<1>1. /\ next \in Children /\ Slice(next) \in Nat /\ spent \in Int /\ start \in Int
      /\ reserved \in [Children -> Nat]
  BY BudgetAssumption DEF ReserveAdd, LaunchInv, Slice, Smaller, Children, SpawnTypeOK
<1>2. reserved[next] = 0 /\ settled = {}
  <2>1. next >= next  BY <1>1 DEF Children
  <2> QED  BY <1>1, <2>1 DEF ReserveAdd, ResultInv, BalanceInv
<1>3. /\ spent' = spent + Slice(next) /\ reserved' = [reserved EXCEPT ![next] = Slice(next)]
      /\ UNCHANGED <<start, settled, Snapshot, mcp>>
  BY SameSnapshot DEF ReserveAdd, children
<1>4. Total(reserved', Children) = Total(reserved, Children) + Slice(next)
  <2>1. \A c \in Children : reserved[c] \in Int /\ reserved'[c] \in Int
    BY <1>1, <1>3
  <2>2. \A c \in Children : c # next => reserved[c] = reserved'[c]
    BY <1>1, <1>3
  <2>3. IsFiniteSet(Children)  BY FinitelyManyChildren
  <2>4. Total(reserved', Children) = Total(reserved, Children) + reserved'[next] - reserved[next]
    BY <1>1, <2>1, <2>2, <2>3, TotalChange
  <2>5. Total(reserved, Children) \in Int  BY TotalsAreInt
  <2> QED  BY <1>1, <1>2, <1>3, <2>4, <2>5
<1>5. Children \ settled = Children /\ settled' = settled  BY <1>2, <1>3
<1>6. McpQuiet' => McpQuiet  BY <1>3 DEF McpQuiet
<1>7. McpQuiet => spent = start + Total(Snapshot, settled) + Total(reserved, Children)
  BY <1>5, BalanceIsTotals DEF BalanceInv
<1>8. Total(Snapshot, settled) \in Int /\ Total(reserved, Children) \in Int
  BY <1>2, TotalsAreInt
<1>9. McpQuiet' => spent' = start' + Total(Snapshot', settled') + Total(reserved', Children)
  <2>1. Total(Snapshot', settled') = Total(Snapshot, settled) /\ start' = start
    BY <1>3, <1>5
  <2> DEFINE spentBySettled == Total(Snapshot, settled)
             stillReserved  == Total(reserved, Children)
  <2> HIDE DEF spentBySettled, stillReserved
  <2>2. McpQuiet' => spent = start + spentBySettled + stillReserved
    BY <1>6, <1>7 DEF spentBySettled, stillReserved
  <2>3. spentBySettled \in Int /\ stillReserved \in Int
    BY <1>8 DEF spentBySettled, stillReserved
  <2>4. McpQuiet' => spent + Slice(next) = start + spentBySettled + (stillReserved + Slice(next))
    BY <1>1, <2>2, <2>3
  <2> QED  BY <1>3, <1>4, <2>1, <2>4 DEF spentBySettled, stillReserved
<1> QED  BY <1>5, <1>9, BalanceIsTotals

LEMMA SettlementKeepsBalance ==
  ASSUME SpawnTypeOK, LedgerBalances, NEW c \in Children, SettleChild(c)
  PROVE  LedgerBalances'
<1>1. /\ c \notin settled /\ settled \subseteq Children /\ spent \in Int /\ start \in Int
      /\ reserved \in [Children -> Nat] /\ Snapshot \in [Children -> Nat]
  BY SnapshotIsNat DEF SettleChild, SpawnTypeOK
<1>2. /\ spent' = spent + Snapshot[c] - reserved[c] /\ settled' = settled \union {c}
      /\ UNCHANGED <<start, reserved, Snapshot, mcp>>
  BY SameSnapshot DEF SettleChild
<1>3. Total(Snapshot, settled') = Snapshot[c] + Total(Snapshot, settled)
  <2>1. IsFiniteSet(settled') /\ settled' \subseteq Children
    BY <1>1, <1>2, FinitelyManyChildren
  <2>2. settled' \ {c} = settled /\ c \in settled'  BY <1>1, <1>2
  <2>3. \A d \in settled' : Snapshot[d] \in Int  BY <1>1, <2>1
  <2> QED  BY <2>1, <2>2, <2>3, TotalWithout
<1>4. Total(reserved, Children \ settled) = reserved[c] + Total(reserved, Children \ settled')
  <2> DEFINE open == Children \ settled
  <2>1. IsFiniteSet(open) /\ open \subseteq Children  BY FinitelyManyChildren
  <2>2. open \ {c} = Children \ settled' /\ c \in open  BY <1>1, <1>2
  <2>3. \A d \in open : reserved[d] \in Int  BY <1>1
  <2> HIDE DEF open
  <2>4. Total(reserved, open) = reserved[c] + Total(reserved, open \ {c})
    BY <2>1, <2>2, <2>3, TotalWithout
  <2> QED  BY <2>2, <2>4 DEF open
<1>5. /\ Total(Snapshot, settled) \in Int /\ Total(reserved, Children \ settled') \in Int
      /\ reserved[c] \in Int /\ Snapshot[c] \in Int
  BY <1>1, TotalsAreInt
<1>6. McpQuiet' => McpQuiet  BY <1>2 DEF McpQuiet
<1>7. McpQuiet => spent = start + Total(Snapshot, settled) + Total(reserved, Children \ settled)
  BY BalanceIsTotals
<1>8. McpQuiet' => spent' = start' + Total(Snapshot', settled')
                                   + Total(reserved', Children \ settled')
  BY <1>1, <1>2, <1>3, <1>4, <1>5, <1>6, <1>7
<1> QED  BY <1>8, BalanceIsTotals

LEMMA SliceKeepsBalance ==
  ASSUME SpawnTypeOK, BalanceInv, SliceBudget
  PROVE  LedgerBalances'
<1>1. /\ McpQuiet => spent = start
      /\ start' = spent /\ UNCHANGED <<spent, reserved, settled, Snapshot, mcp>>
  BY SameSnapshot DEF SliceBudget, BalanceInv, children
<1>2. spent \in Int /\ Total(Snapshot, settled) \in Int
      /\ Total(reserved, Children \ settled) \in Int
  BY TotalsAreInt DEF SpawnTypeOK
<1>3. McpQuiet => spent = start + Total(Snapshot, settled) + Total(reserved, Children \ settled)
  BY BalanceIsTotals DEF BalanceInv
<1>4. McpQuiet' => McpQuiet  BY <1>1 DEF McpQuiet
<1>5. McpQuiet' => spent' = start' + Total(Snapshot', settled')
                                   + Total(reserved', Children \ settled')
  BY <1>1, <1>2, <1>3, <1>4
<1> QED  BY <1>5, BalanceIsTotals

LEMMA StepBalance ==
  ASSUME SpawnTypeOK, LaunchInv, ResultInv, BalanceInv, SpawnNext
  PROVE  LedgerBalances'
<1> USE DEF guard, batch, children
<1>1. CASE SliceBudget  BY <1>1, SliceKeepsBalance
<1>2. CASE ReserveAdd  BY <1>2, ReserveKeepsBalance
<1>3. CASE ReserveCheck \/ Construct \/ WaitEnds \/ Drained \/ Return
  BY <1>3, BalanceUntouched, QuietBefore
  DEF ReserveCheck, Construct, WaitEnds, Drained, Return, BalanceInv
<1>4. ASSUME NEW c \in Children, DrainChild(c) \/ SettleChild(c)  PROVE LedgerBalances'
  <2>1. CASE DrainChild(c)
    BY <2>1, BalanceUntouched, QuietBefore DEF DrainChild, BalanceInv
  <2>2. CASE SettleChild(c)  BY <2>2, SettlementKeepsBalance DEF BalanceInv
  <2> QED  BY <1>4, <2>1, <2>2
<1>5. ASSUME NEW c \in Children, Child(c)  PROVE LedgerBalances'
  <2>1. pc = "wait" /\ UNCHANGED <<spent, start, reserved, settled>>
    BY <1>5 DEF Child, ChildStart, ChildCall, ChildCallEnd, ChildEnd, ChildRaise
  <2>2. settled = {}  BY <2>1 DEF ResultInv
  <2> QED  BY <2>1, <2>2, BalanceUntouched, QuietBefore DEF BalanceInv
<1>6. ASSUME NEW v \in McpVerbs, Mcp(v)  PROVE LedgerBalances'
  <2>1. CASE McpCheck(v) \/ McpLoad(v)
    BY <2>1, BalanceUntouched, QuietBefore DEF McpCheck, McpLoad, BalanceInv
  <2>2. CASE McpStore(v)
    <3>1. ~ McpQuiet'  BY <2>2 DEF McpStore, McpOver, McpQuiet, SpawnTypeOK
    <3> QED  BY <3>1, BalanceIsTotals
  <2> QED  BY <1>6, <2>1, <2>2 DEF Mcp
<1> QED  BY <1>1, <1>2, <1>3, <1>4, <1>5, <1>6 DEF SpawnNext, Dispatcher

LEMMA StepUnreached ==
  ASSUME SpawnTypeOK, LaunchInv, BalanceInv, SpawnNext
  PROVE  /\ pc' \in {"idle", "check", "add"} =>
              \A c \in Children : c >= next' => reserved'[c] = 0
         /\ pc' = "construct" => \A c \in Children : c > next' => reserved'[c] = 0
         /\ pc' = "idle" /\ McpQuiet' => spent' = start'
<1> USE DEF guard, batch, children
<1>1. CASE SliceBudget  BY <1>1 DEF SliceBudget, BalanceInv
<1>2. CASE ReserveCheck  BY <1>2 DEF ReserveCheck, BalanceInv
<1>3. CASE ReserveAdd
  <2>1. \A c \in Children : c > next => c >= next /\ c # next
    BY DEF Children, SpawnTypeOK
  <2>2. \A c \in Children : c > next => reserved'[c] = 0
    BY <1>3, <2>1 DEF ReserveAdd, BalanceInv, SpawnTypeOK
  <2> QED  BY <1>3, <2>2 DEF ReserveAdd
<1>4. CASE Construct
  <2>1. \A c \in Children : c >= next + 1 => c > next
    BY DEF Children, SpawnTypeOK
  <2> QED  BY <1>4, <2>1 DEF Construct, BalanceInv
<1>5. CASE WaitEnds \/ Drained \/ Return  BY <1>5 DEF WaitEnds, Drained, Return
<1>6. ASSUME NEW c \in Children, DrainChild(c) \/ SettleChild(c)
      PROVE  pc' \notin {"idle", "check", "add", "construct"}
  BY <1>6 DEF DrainChild, SettleChild
<1>7. ASSUME NEW c \in Children, Child(c)
      PROVE  pc' \notin {"idle", "check", "add", "construct"}
  BY <1>7 DEF Child, ChildStart, ChildCall, ChildCallEnd, ChildEnd, ChildRaise
<1>8. ASSUME NEW v \in McpVerbs, Mcp(v)
      PROVE  UNCHANGED <<pc, next, reserved, start>> /\ (McpQuiet' => spent' = spent)
  <2>1. CASE McpCheck(v) \/ McpLoad(v)  BY <2>1 DEF McpCheck, McpLoad
  <2>2. CASE McpStore(v)
    <3>1. ~ McpQuiet'  BY <2>2 DEF McpStore, McpOver, McpQuiet, SpawnTypeOK
    <3> QED  BY <2>2, <3>1 DEF McpStore
  <2> QED  BY <1>8, <2>1, <2>2 DEF Mcp
<1>9. ASSUME NEW v \in McpVerbs, Mcp(v)
      PROVE  pc' = "idle" /\ McpQuiet' => spent' = start'
  BY <1>8, <1>9, QuietBefore DEF BalanceInv
<1> QED
  BY <1>1, <1>2, <1>3, <1>4, <1>5, <1>6, <1>7, <1>8, <1>9 DEF SpawnNext, Dispatcher, BalanceInv

LEMMA InitBalance == SpawnInit => BalanceInv
<1> SUFFICES ASSUME SpawnInit  PROVE BalanceInv
  OBVIOUS
<1>1. \A c \in Children : reserved[c] = 0  BY DEF SpawnInit
<1>2. IsFiniteSet(Children)  BY FinitelyManyChildren
<1>3. Total(reserved, Children) = 0 /\ Total(Snapshot, {}) = 0
  BY <1>1, <1>2, TotalOfZeros, FS_EmptySet, TotalEquation
<1>4. settled = {} /\ Children \ {} = Children /\ spent = start /\ start \in Int
  BY BudgetAssumption DEF SpawnInit
<1>5. LedgerBalances  BY <1>3, <1>4, BalanceIsTotals
<1> QED  BY <1>1, <1>4, <1>5 DEF BalanceInv, SpawnInit

\* As long as no MCP verb charges the same guard, the session's total is at every
\* step what the batch found, plus what settled children spent, plus the slices
\* still reserved, for any number of children and in any order of their ends.
THEOREM BalanceHolds == SpawnSpec => []LedgerBalances
<1>1. BatchInv /\ BalanceInv /\ [SpawnNext]_spawnVars => BalanceInv'
  <2> SUFFICES ASSUME BatchInv, BalanceInv, [SpawnNext]_spawnVars  PROVE BalanceInv'
    OBVIOUS
  <2>1. CASE SpawnNext
    BY <2>1, StepBalance, StepUnreached DEF BatchInv, BalanceInv
  <2>2. CASE UNCHANGED spawnVars
    <3>1. McpQuiet' => McpQuiet  BY <2>2 DEF spawnVars, McpQuiet
    <3>2. LedgerBalances'
      BY <2>2, <3>1, BalanceUntouched DEF BatchInv, BalanceInv, spawnVars
    <3> QED  BY <2>2, <3>1, <3>2 DEF BalanceInv, spawnVars
  <2> QED  BY <2>1, <2>2
<1>2. BalanceInv => LedgerBalances  BY DEF BalanceInv
<1> QED  BY <1>1, <1>2, InitBalance, BatchInvariance, PTL DEF SpawnSpec

=============================================================================
