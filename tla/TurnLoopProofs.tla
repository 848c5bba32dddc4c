--------------------------- MODULE TurnLoopProofs ---------------------------
(***************************************************************************)
(* That a turn reported complete is complete in fact (TurnLoop), for every  *)
(* set of assets and jobs and every number of deliverables wanted.          *)
(*                                                                         *)
(* The argument is about the ledger as a value: what passed its criterion   *)
(* does meet it, and every method of TurnLedger keeps that true.  A probe   *)
(* of several assets is a fold; that the fold keeps it true is shown by     *)
(* taking a smallest set of assets for which it does not.                   *)
(***************************************************************************)
EXTENDS TurnLoop, FiniteSetTheorems, WellFoundedInduction, TLAPS

Tools == {"generate", "edit", "look", "probe", "poll", "read", "unknown"}
Targeted == Assets \union {Source, None}
Failure ==
  [tool : Tools, target : Targeted, job : Jobs \union {None}, superseded : BOOLEAN]

LedgerType ==
  [produce : {"open", "done"}, verify : {"open", "done"}, criterion : {"open", "passed", "failed"},
   results : SUBSET Assets, finals : SUBSET Assets, verified : SUBSET Assets,
   jobs : SUBSET Jobs, failures : SUBSET Failure]

\* What a ledger says of the criterion is so, of the assets in F that meet it.
Truthful(l, F) ==
  /\ l.results \subseteq F
  /\ l.criterion = "passed" => l.finals \subseteq F

Good(l, F) == l \in LedgerType /\ IsFiniteSet(l.finals) /\ Truthful(l, F)

\* An outcome as the loop records it: what it produced is new assets.
Sound(o) ==
  /\ o.tool \in Tools /\ o.target \in Targeted /\ o.job \in Jobs \union {None}
  /\ GoalMutation(o) => o.assets \in SUBSET Assets /\ IsFiniteSet(o.assets)
  /\ o.tool = "probe" => IsFiniteSet(o.assets)

LoopInv ==
  /\ Good(ledger, fit)
  /\ made \subseteq Assets
  /\ phase \in {"idle", "asking", "batch"}
  /\ phase # "idle" => ended # "complete"
  /\ CompleteIsTrue

-----------------------------------------------------------------------------
(* The methods of the ledger.                                              *)

LEMMA JobStateIsGood ==
  ASSUME NEW F, NEW l, Good(l, F), NEW o, Sound(o)
  PROVE  Good(RecordJobState(l, o), F)
BY DEF Good, LedgerType, Truthful, RecordJobState, Sound

LEMMA FailureIsGood ==
  ASSUME NEW F, NEW l, Good(l, F), NEW o, Sound(o)
  PROVE  Good(RecordFailure(l, o), F)
<1>1. [tool |-> o.tool, target |-> o.target, job |-> o.job, superseded |-> FALSE] \in Failure
  BY DEF Sound, Failure
<1>2. QED
  BY <1>1 DEF Good, LedgerType, Truthful, RecordFailure

\* A failure list that is replaced by other failures leaves the ledger good.
LEMMA FailuresDoNotMatter ==
  ASSUME NEW F, NEW l, Good(l, F), NEW S, S \subseteq Failure
  PROVE  Good([l EXCEPT !.failures = S], F)
BY DEF Good, LedgerType, Truthful

LEMMA RetryIsGood ==
  ASSUME NEW F, NEW l, Good(l, F), NEW o
  PROVE  Good(ResolveRetry(l, o), F)
<1>1. {f \in l.failures : ~RetriedBy(f, o)} \subseteq Failure
  BY DEF Good, LedgerType
<1>2. QED
  BY <1>1, FailuresDoNotMatter DEF ResolveRetry

LEMMA AlternativesAreGood ==
  ASSUME NEW F, NEW l, Good(l, F)
  PROVE  Good(ResolveAlternatives(l), F) /\ ResolveAlternatives(l).finals = l.finals
<1>1. {f \in l.failures : ~f.superseded} \subseteq Failure
  BY DEF Good, LedgerType
<1>2. Good([l EXCEPT !.failures = {f \in l.failures : ~f.superseded}], F)
  BY <1>1, FailuresDoNotMatter
<1>3. [l EXCEPT !.failures = {f \in l.failures : ~f.superseded}].finals = l.finals
  BY DEF Good, LedgerType
<1>4. QED
  BY <1>2, <1>3 DEF ResolveAlternatives

\* A mutation takes the verdict back before the deliverables change.
LEMMA MutationIsGood ==
  ASSUME NEW F, NEW l, Good(l, F), NEW o, Sound(o)
  PROVE  Good(Register(Mutate(l, o), o), F)
<1>1. CASE ~GoalMutation(o)
  BY <1>1 DEF Mutate, Register
<1>2. CASE GoalMutation(o)
  <2>1. PICK S : S = {[f EXCEPT !.superseded = f.job # None \/ @] : f \in l.failures}
    OBVIOUS
  <2>2. S \subseteq Failure
    <3>1. \A f \in Failure : \A b \in BOOLEAN : [f EXCEPT !.superseded = b] \in Failure
      BY DEF Failure
    <3>2. \A f \in l.failures : f \in Failure /\ (f.job # None \/ f.superseded) \in BOOLEAN
      BY DEF Good, LedgerType, Failure
    <3>3. QED
      BY <2>1, <3>1, <3>2
  <2>3. PICK m : m = Mutate(l, o)
    OBVIOUS
  <2>4. m = [l EXCEPT !.failures = S, !.verify = "open", !.criterion = "open",
                      !.results = {}, !.verified = {}, !.produce = "done"]
    BY <1>2, <2>1, <2>3 DEF Mutate
  <2>5. Good(m, F) /\ m.criterion = "open" /\ m.results = {}
    BY <2>2, <2>4 DEF Good, LedgerType, Truthful
  <2>6. PICK R : R = {o.target} \union (IF Wanted <= 1 THEN m.finals ELSE {})
    OBVIOUS
  <2>7. CASE o.assets = {}
    BY <2>3, <2>5, <2>7 DEF Register
  <2>8. CASE o.assets # {}
    <3>1. Register(m, o) = [m EXCEPT !.finals = (m.finals \ R) \union o.assets, !.verified = m.verified \ R]
      BY <1>2, <2>6, <2>8 DEF Register
    <3>2. (m.finals \ R) \union o.assets \in SUBSET Assets /\ m.verified \ R \in SUBSET Assets
      BY <1>2, <2>5 DEF Good, LedgerType, Sound
    <3>3. IsFiniteSet((m.finals \ R) \union o.assets)
      BY <1>2, <2>5, FS_Union, FS_Subset DEF Good, Sound
    <3>4. QED
      BY <2>3, <2>5, <3>1, <3>2, <3>3 DEF Good, LedgerType, Truthful
  <2>9. QED
    BY <2>7, <2>8
<1>3. QED
  BY <1>1, <1>2

LEMMA VerificationIsGood ==
  ASSUME NEW F, NEW l, Good(l, F), NEW A
  PROVE  Good(Verify(l, A), F)
<1>1. PICK v : v = l.verified \union (A \intersect l.finals)
  OBVIOUS
<1>2. v \in SUBSET Assets
  BY <1>1 DEF Good, LedgerType
<1>3. Good([l EXCEPT !.verified = v], F) /\ Good([l EXCEPT !.verified = v, !.verify = "done"], F)
  BY <1>2 DEF Good, LedgerType, Truthful
<1>4. QED
  BY <1>1, <1>3, AlternativesAreGood DEF Verify

\* A single deliverable passes if it fits, several when all of them are among
\* the ones that did.
LEMMA MeasureIsGood ==
  ASSUME NEW F, NEW l, Good(l, F), NEW a
  PROVE  Good(Measure(l, a, a \in F), F)
<1>1. CASE a \notin l.finals
  BY <1>1 DEF Measure
<1>2. CASE a \in l.finals
  <2>1. PICK R : R = IF a \in F THEN l.results \union {a} ELSE l.results \ {a}
    OBVIOUS
  <2>2. PICK passed : passed = (IF Cardinality(l.finals) > 1 THEN l.finals \subseteq R ELSE a \in F)
    OBVIOUS
  <2>3. R \in SUBSET Assets /\ R \subseteq F
    BY <1>2, <2>1 DEF Good, LedgerType, Truthful
  <2>4. passed => l.finals \subseteq F
    <3>1. CASE Cardinality(l.finals) > 1
      BY <2>2, <2>3, <3>1
    <3>2. CASE ~(Cardinality(l.finals) > 1)
      <4>1. IsFiniteSet(l.finals) /\ l.finals # {}
        BY <1>2 DEF Good
      <4>2. Cardinality(l.finals) \in Nat /\ Cardinality(l.finals) # 0
        BY <4>1, FS_CardinalityType, FS_EmptySet
      <4>3. Cardinality(l.finals) = 1
        BY <3>2, <4>2
      <4>4. l.finals = {a}
        BY <1>2, <4>1, <4>3, FS_Singleton
      <4>5. QED
        BY <2>2, <3>2, <4>4
    <3>3. QED
      BY <3>1, <3>2
  <2>5. PICK R2, c : /\ R2 = IF Cardinality(l.finals) > 1 THEN R ELSE l.results
                     /\ c = IF passed THEN "passed" ELSE "failed"
    OBVIOUS
  <2>6. R2 \in SUBSET Assets /\ R2 \subseteq F
    BY <2>3, <2>5 DEF Good, LedgerType, Truthful
  <2>7. Good([l EXCEPT !.results = R2, !.criterion = c], F)
    BY <2>4, <2>5, <2>6 DEF Good, LedgerType, Truthful
  <2>8. Measure(l, a, a \in F) = ResolveAlternatives([l EXCEPT !.results = R2, !.criterion = c])
    BY <1>2, <2>1, <2>2, <2>5 DEF Measure
  <2>9. QED
    BY <2>7, <2>8, AlternativesAreGood
<1>3. QED
  BY <1>1, <1>2

-----------------------------------------------------------------------------
(* A probe of several assets.  The fold is a table of the ledgers after the *)
(* measurements of each subset.                                            *)

Pick(s) == CHOOSE x \in s : TRUE
Measured(g, l, F, S) ==
  g = [s \in SUBSET S |->
         IF s = {} THEN l ELSE Measure(g[s \ {Pick(s)}], Pick(s), Pick(s) \in F)]
After(l, F, S) == (CHOOSE g : Measured(g, l, F, S))[S]

LEMMA PickIsIn == ASSUME NEW s, s # {} PROVE Pick(s) \in s
BY DEF Pick

\* Of sets of subsets of a finite set, some member has no member below it.
LEMMA SmallestSubset ==
  ASSUME NEW S, IsFiniteSet(S), NEW T, T \subseteq SUBSET S, T # {}
  PROVE  \E s \in T : \A t \in T : t \subseteq s => t = s
<1>1. IsWellFoundedOn(StrictSubsetOrdering(S), SUBSET S)
  BY FS_StrictSubsetOrderingWellFounded, FS_FiniteSubsetsOfFinite
<1>2. PICK s \in T : \A t \in T : ~ (<<t, s>> \in StrictSubsetOrdering(S))
  BY <1>1, WFMin
<1>3. \A t \in T : t \subseteq s => t = s
  BY <1>2 DEF StrictSubsetOrdering
<1>4. QED
  BY <1>3

LEMMA MeasuredEquation ==
  ASSUME NEW g, NEW l, NEW F, NEW S, Measured(g, l, F, S), NEW s \in SUBSET S
  PROVE  g[s] = IF s = {} THEN l ELSE Measure(g[s \ {Pick(s)}], Pick(s), Pick(s) \in F)
BY DEF Measured

\* Two such tables agree.
LEMMA MeasuredUnique ==
  ASSUME NEW S, IsFiniteSet(S), NEW l, NEW F, NEW g, NEW h, Measured(g, l, F, S), Measured(h, l, F, S)
  PROVE  g = h
<1> DEFINE T == {s \in SUBSET S : g[s] # h[s]}
<1>1. ASSUME T # {} PROVE FALSE
  <2>1. PICK s \in T : \A t \in T : t \subseteq s => t = s
    <3>1. T \subseteq SUBSET S
      OBVIOUS
    <3> HIDE DEF T
    <3>2. QED
      BY <1>1, <3>1, SmallestSubset
  <2>2. s # {}
    <3>1. g[{}] = l /\ h[{}] = l
      BY MeasuredEquation
    <3>2. QED
      BY <3>1
  <2>3. PICK x : x = Pick(s)
    OBVIOUS
  <2>4. x \in s
    BY <2>2, <2>3, PickIsIn
  <2>5. g[s] = Measure(g[s \ {x}], x, x \in F) /\ h[s] = Measure(h[s \ {x}], x, x \in F)
    BY <2>2, <2>3, MeasuredEquation
  <2>6. s \ {x} \notin T
    BY <2>1, <2>4
  <2>7. g[s \ {x}] = h[s \ {x}]
    BY <2>6
  <2>8. g[s] = h[s]
    BY <2>5, <2>7
  <2>9. QED
    BY <2>8
<1>2. \A s \in SUBSET S : g[s] = h[s]
  BY <1>1
<1>3. g = [s \in SUBSET S |-> g[s]] /\ h = [s \in SUBSET S |-> h[s]]
  BY DEF Measured
<1>4. QED
  BY <1>2, <1>3

\* There is such a table: what the fold ends with on the subsets.
LEMMA MeasuredExists ==
  ASSUME NEW S, IsFiniteSet(S), NEW l, NEW F
  PROVE  Measured([s \in SUBSET S |-> After(l, F, s)], l, F, S)
<1> DEFINE Table(s) == [t \in SUBSET s |-> After(l, F, t)]
           T == {s \in SUBSET S : ~ Measured(Table(s), l, F, s)}
<1>1. ASSUME T # {} PROVE FALSE
  <2>1. PICK s \in T : \A t \in T : t \subseteq s => t = s
    <3>1. T \subseteq SUBSET S
      OBVIOUS
    <3> HIDE DEF T
    <3>2. QED
      BY <1>1, <3>1, SmallestSubset
  <2>2. s \subseteq S /\ ~ Measured(Table(s), l, F, s)
    OBVIOUS
  <2>3. \A t \in SUBSET s : t # s => Measured(Table(t), l, F, t)
    BY <2>1
  <2> HIDE DEF T
  <2> DEFINE g == [t \in SUBSET s |-> IF t = {} THEN l
                      ELSE Measure(After(l, F, t \ {Pick(t)}), Pick(t), Pick(t) \in F)]
  <2>4. \A t \in SUBSET s : t # s => g[t] = After(l, F, t)
    <3> TAKE t \in SUBSET s
    <3> HAVE t # s
    <3>1. Table(t)[t] = IF t = {} THEN l ELSE Measure(Table(t)[t \ {Pick(t)}], Pick(t), Pick(t) \in F)
      <4> HIDE DEF Table
      <4>1. QED
        BY <2>3, MeasuredEquation
    <3>2. Table(t)[t] = After(l, F, t)
      OBVIOUS
    <3>3. t \ {Pick(t)} \in SUBSET t
      OBVIOUS
    <3>4. Table(t)[t \ {Pick(t)}] = After(l, F, t \ {Pick(t)})
      BY <3>3
    <3>5. QED
      BY <3>1, <3>2, <3>4
  <2>5. Measured(g, l, F, s)
    <3>1. ASSUME NEW t \in SUBSET s, t # {}
          PROVE  After(l, F, t \ {Pick(t)}) = g[t \ {Pick(t)}]
      <4>1. t \ {Pick(t)} \in SUBSET s /\ t \ {Pick(t)} # s
        BY <3>1, PickIsIn
      <4> HIDE DEF g
      <4>2. QED
        BY <4>1, <2>4
    <3>2. g = [t \in SUBSET s |-> IF t = {} THEN l
                  ELSE Measure(g[t \ {Pick(t)}], Pick(t), Pick(t) \in F)]
      BY <3>1
    <3> HIDE DEF g
    <3>3. QED
      BY <3>2 DEF Measured
  <2> HIDE DEF g
  <2>6. (CHOOSE h : Measured(h, l, F, s)) = g
    <3>1. Measured(CHOOSE h : Measured(h, l, F, s), l, F, s)
      BY <2>5
    <3>2. IsFiniteSet(s)
      BY <2>2, FS_Subset
    <3>3. QED
      BY <2>5, <3>1, <3>2, MeasuredUnique
  <2>7. After(l, F, s) = g[s]
    BY <2>6 DEF After
  <2>8. g = [t \in SUBSET s |-> g[t]]
    BY DEF g
  <2>9. g = Table(s)
    BY <2>4, <2>7, <2>8
  <2>10. QED
    BY <2>2, <2>5, <2>9
<1>2. S \notin T
  BY <1>1
<1>3. QED
  BY <1>2

LEMMA AfterEquation ==
  ASSUME NEW S, IsFiniteSet(S), NEW l, NEW F, NEW s \in SUBSET S
  PROVE  After(l, F, s) = IF s = {} THEN l ELSE Measure(After(l, F, s \ {Pick(s)}), Pick(s), Pick(s) \in F)
<1>1. PICK g : g = [t \in SUBSET S |-> After(l, F, t)]
  OBVIOUS
<1>2. Measured(g, l, F, S)
  BY <1>1, MeasuredExists
<1>3. g[s] = After(l, F, s) /\ g[s \ {Pick(s)}] = After(l, F, s \ {Pick(s)})
  BY <1>1
<1>4. QED
  BY <1>2, <1>3, MeasuredEquation

\* Measuring any number of assets keeps the ledger good.
LEMMA ProbeIsGood ==
  ASSUME NEW S, IsFiniteSet(S), NEW F, NEW l, Good(l, F)
  PROVE  Good(After(l, F, S), F)
<1> DEFINE T == {s \in SUBSET S : ~Good(After(l, F, s), F)}
<1>1. ASSUME T # {} PROVE FALSE
  <2>1. PICK s \in T : \A t \in T : t \subseteq s => t = s
    <3>1. T \subseteq SUBSET S
      OBVIOUS
    <3> HIDE DEF T
    <3>2. QED
      BY <1>1, <3>1, SmallestSubset
  <2>2. s \in SUBSET S /\ ~Good(After(l, F, s), F)
    OBVIOUS
  <2>3. s # {}
    BY <2>2, AfterEquation
  <2>4. PICK x : x = Pick(s)
    OBVIOUS
  <2>5. x \in s
    BY <2>3, <2>4, PickIsIn
  <2>6. Good(After(l, F, s \ {x}), F)
    BY <2>1, <2>5
  <2>7. After(l, F, s) = Measure(After(l, F, s \ {x}), x, x \in F)
    BY <2>2, <2>3, <2>4, AfterEquation
  <2>8. QED
    BY <2>2, <2>6, <2>7, MeasureIsGood
<1>2. QED
  BY <1>1

LEMMA RecordIsGood ==
  ASSUME NEW F, NEW l, Good(l, F), NEW o, Sound(o)
  PROVE  Good(RecordOutcome(l, o, F), F)
<1>1. PICK j : j = RecordJobState(l, o)
  OBVIOUS
<1>2. Good(j, F)
  BY <1>1, JobStateIsGood
<1>3. PICK s : s = Register(Mutate(ResolveRetry(j, o), o), o)
  OBVIOUS
<1>4. Good(s, F)
  BY <1>2, <1>3, RetryIsGood, MutationIsGood
<1>5. FoldSet(LAMBDA a, m : Measure(m, a, a \in F), s, o.assets) = After(s, F, o.assets)
  BY DEF FoldSet, MapThenFoldSet, After, Measured, Pick
<1>6. CASE o.state = "failure"
  BY <1>1, <1>2, <1>6, FailureIsGood DEF RecordOutcome
<1>7. CASE o.state # "failure" /\ o.state # "success"
  BY <1>1, <1>2, <1>7 DEF RecordOutcome
<1>8. CASE o.state = "success" /\ o.tool = "look"
  BY <1>1, <1>3, <1>4, <1>8, VerificationIsGood DEF RecordOutcome
<1>9. CASE o.state = "success" /\ o.tool = "probe"
  <2>1. Good(After(s, F, o.assets), F)
    BY <1>4, <1>9, ProbeIsGood DEF Sound
  <2>2. RecordOutcome(l, o, F) = After(s, F, o.assets)
    BY <1>1, <1>3, <1>5, <1>9 DEF RecordOutcome
  <2>3. QED
    BY <2>1, <2>2
<1>10. CASE o.state = "success" /\ o.tool # "look" /\ o.tool # "probe"
  BY <1>1, <1>3, <1>4, <1>10 DEF RecordOutcome
<1>11. QED
  BY <1>6, <1>7, <1>8, <1>9, <1>10

-----------------------------------------------------------------------------
(* The turn.                                                               *)

LEMMA MoreFitIsGood ==
  ASSUME NEW F, NEW G, F \subseteq G, NEW l, Good(l, F)
  PROVE  Good(l, G)
BY DEF Good, Truthful

LEMMA ReviewedIsGood ==
  ASSUME Good(ledger, fit)
  PROVE  Good(Reviewed, fit)
<1>1. PICK o : o = Outcome("look", "success", None, None, turn.shown, FALSE, TRUE)
  OBVIOUS
<1>2. o.tool = "look" /\ o.target = None /\ o.job = None
  BY <1>1 DEF Outcome
<1>3. ~GoalMutation(o)
  BY <1>2 DEF GoalMutation, MutationTools
<1>4. Sound(o)
  BY <1>2, <1>3 DEF Sound, Tools, Targeted
<1>5. QED
  BY <1>1, <1>4, RecordIsGood DEF Reviewed

\* A call's outcome, recorded or not.
LEMMA CallIsGood ==
  ASSUME NEW F, fit \subseteq F, Good(ledger, fit), NEW o, Sound(o), Record(o, F)
  PROVE  Good(ledger', F)
BY RecordIsGood, MoreFitIsGood DEF Record

LEMMA FailedIsSound ==
  ASSUME NEW t \in {"edit", "look", "probe", "generate", "poll", "unknown"},
         NEW x \in Targeted, NEW j \in Jobs \union {None}, NEW b
  PROVE  Sound(Failed(t, x, j, b))
<1>1. PICK o : o = Failed(t, x, j, b)
  OBVIOUS
<1>2. o.tool = t /\ o.target = x /\ o.job = j /\ o.assets = {}
  BY <1>1 DEF Failed, Outcome
<1>3. t \in Tools
  BY DEF Tools
<1>4. o.assets \in SUBSET Assets /\ IsFiniteSet(o.assets)
  BY <1>2, FS_EmptySet
<1>5. QED
  BY <1>1, <1>2, <1>3, <1>4 DEF Sound

LEMMA FailuresAreSound ==
  ASSUME NEW S, S \subseteq {"edit", "look", "probe", "generate", "poll", "unknown"},
         NEW X, X \subseteq Targeted, NEW b, NEW o \in FailuresOf(S, X, b)
  PROVE  Sound(o)
<1>1. PICK t \in S, x \in X : o = Failed(t, x, None, b)
  BY DEF FailuresOf
<1>2. t \in {"edit", "look", "probe", "generate", "poll", "unknown"} /\ x \in Targeted
  OBVIOUS
<1>3. Sound(Failed(t, x, None, b))
  BY <1>2, FailedIsSound
<1>4. QED
  BY <1>1, <1>3

\* Every call of a batch leaves the ledger good.
LEMMA ReportIsGood ==
  ASSUME LoopInv, NEW o, Sound(o), Reports(o)
  PROVE  Good(ledger, fit)' /\ made' \subseteq Assets
BY CallIsGood DEF LoopInv, Reports, Dispatched

LEMMA ProductIsGood ==
  ASSUME LoopInv, NEW tool \in {"edit", "generate", "poll"}, NEW x \in Targeted, NEW j \in Jobs \union {None},
         NEW final \in BOOLEAN, Produces(tool, x, j, final)
  PROVE  Good(ledger, fit)' /\ made' \subseteq Assets
<1>1. PICK a \in Assets \ made, fits \in BOOLEAN :
        /\ made' = made \union {a}
        /\ fit' = IF fits THEN fit \union {a} ELSE fit
        /\ Dispatched(Outcome(tool, "success", x, j, {a}, final, TRUE), fit')
  BY DEF Produces
<1>2. PICK o : o = Outcome(tool, "success", x, j, {a}, final, TRUE)
  OBVIOUS
<1>3. o.tool = tool /\ o.target = x /\ o.job = j /\ o.assets = {a} /\ tool \in Tools /\ tool # "probe"
  BY <1>2 DEF Outcome, Tools
<1>4. Sound(o)
  <2>1. o.assets \in SUBSET Assets /\ IsFiniteSet(o.assets)
    BY <1>3, FS_Singleton
  <2>2. QED
    BY <1>3, <2>1 DEF Sound
<1>5. Record(o, fit') /\ fit \subseteq fit'
  BY <1>1, <1>2 DEF Dispatched
<1>6. PICK F : F = fit'
  OBVIOUS
<1>7. Good(ledger', F)
  BY <1>4, <1>5, <1>6, CallIsGood DEF LoopInv
<1>8. QED
  BY <1>1, <1>6, <1>7 DEF LoopInv

LEMMA LoopStep == LoopInv /\ [Next]_vars => LoopInv'
<1> SUFFICES ASSUME LoopInv, [Next]_vars PROVE LoopInv'
  OBVIOUS
<1>1. Good(ledger, fit) /\ made \subseteq Assets
  BY DEF LoopInv
<1> DEFINE Safe == Good(ledger, fit)' /\ made' \subseteq Assets
<1>2. Safe /\ phase' \in {"idle", "asking", "batch"} /\ ended' # "complete" => LoopInv'
  BY DEF LoopInv, CompleteIsTrue
<1>3. CASE StartTurn
  <2>1. PICK pending \in SUBSET Jobs : ledger' = EmptyLedger(pending)
    BY <1>3 DEF StartTurn
  <2>2. ledger' \in LedgerType
    BY <2>1 DEF EmptyLedger, LedgerType
  <2>3. ledger'.finals = {} /\ ledger'.results = {} /\ ledger'.criterion = "open"
    BY <2>1 DEF EmptyLedger
  <2>4. Good(ledger, fit)'
    BY <2>2, <2>3, FS_EmptySet DEF Good, Truthful
  <2>5. QED
    BY <1>2, <1>3, <2>4 DEF StartTurn
<1>4. CASE StreamFails
  BY <1>1, <1>2, <1>4 DEF StreamFails, End
<1>5. CASE Answer
  <2>1. ended # "complete"
    BY <1>5 DEF Answer, LoopInv
  <2>2. PICK ok \in SUBSET (IF turn.enforced THEN Reviewed.finals \ turn.probed ELSE {}) :
          ledger' = IF ok = {} THEN Reviewed
                    ELSE RecordOutcome(Reviewed, Outcome("probe", "success", None, None, ok, FALSE, TRUE), fit)
    BY <1>5 DEF Answer
  <2>3. Good(Reviewed, fit)
    BY <1>1, ReviewedIsGood
  <2>4. IsFiniteSet(ok)
    BY <2>3, FS_Subset, FS_EmptySet DEF Good
  <2>5. PICK o : o = Outcome("probe", "success", None, None, ok, FALSE, TRUE)
    OBVIOUS
  <2>6. o.tool = "probe" /\ o.target = None /\ o.job = None /\ o.assets = ok
    BY <2>5 DEF Outcome
  <2>7. Sound(o)
    BY <2>4, <2>6 DEF Sound, Tools, Targeted, GoalMutation, MutationTools
  <2>8. Safe
    <3>1. Good(ledger', fit)
      BY <2>2, <2>3, <2>5, <2>7, RecordIsGood
    <3>2. UNCHANGED <<made, fit>>
      BY <1>5 DEF Answer
    <3>3. QED
      BY <1>1, <3>1, <3>2
  <2>9. CASE ended' = "complete"
    <3>1. phase' = "idle" /\ Complete(ledger')
      BY <1>5, <2>1, <2>9 DEF Answer, End, GoOn
    <3>2. Cardinality(ledger'.finals) = Wanted /\ ledger'.finals \subseteq fit'
      BY <2>8, <3>1 DEF Complete, Good, Truthful
    <3>3. QED
      BY <2>8, <3>1, <3>2 DEF LoopInv, CompleteIsTrue
  <2>10. phase' \in {"idle", "asking", "batch"}
    BY <1>5 DEF Answer, End, GoOn
  <2>11. QED
    BY <1>2, <2>8, <2>9, <2>10
<1>6. CASE CallTools
  <2>1. Good(Reviewed, fit) /\ ended # "complete"
    BY <1>1, <1>6, ReviewedIsGood DEF CallTools, LoopInv
  <2>2. QED
    BY <1>1, <1>2, <1>6, <2>1 DEF CallTools
<1>7. CASE CallFails
  <2>1. PICK o \in Rejections \union DispatchFailures : Record(o, fit)
    BY <1>7 DEF CallFails
  <2>2. made \union {Source} \subseteq Targeted /\ None \in Targeted /\ ledger.jobs \subseteq Jobs
    BY <1>1 DEF Targeted, Good, LedgerType
  <2>3. Sound(o)
    <3>1. CASE o \in FailuresOf({"edit", "probe", "unknown"}, {None}, TRUE)
      BY <2>2, <3>1, FailuresAreSound
    <3>2. CASE o \in FailuresOf({"edit", "look"}, Targets, FALSE)
      BY <2>2, <3>2, FailuresAreSound DEF Targets
    <3>3. CASE o \in FailuresOf({"edit", "look", "probe"}, Targets, TRUE)
      BY <2>2, <3>3, FailuresAreSound DEF Targets
    <3>4. CASE o \in FailuresOf({"generate"}, {None}, TRUE)
      BY <2>2, <3>4, FailuresAreSound
    <3>5. CASE o \in {Failed("poll", None, j, TRUE) : j \in ledger.jobs}
      BY <2>2, <3>5, FailedIsSound
    <3>6. QED
      BY <2>1, <3>1, <3>2, <3>3, <3>4, <3>5 DEF Rejections, DispatchFailures
  <2>4. Good(ledger', fit)
    BY <1>1, <2>1, <2>3, CallIsGood
  <2>5. phase' = phase /\ ended' = ended /\ phase = "batch" /\ UNCHANGED <<made, fit>>
    BY <1>7 DEF CallFails, GoOn
  <2>6. QED
    BY <1>1, <1>2, <2>4, <2>5 DEF LoopInv
<1>8. CASE PlanGated
  <2>1. PICK x \in Targets : Record(Failed("edit", x, None, FALSE), fit)
    BY <1>8 DEF PlanGated
  <2>2. x \in Targeted
    BY <1>1 DEF Targets, Targeted
  <2>3. Good(ledger', fit)
    BY <1>1, <2>1, <2>2, FailedIsSound, CallIsGood
  <2>4. UNCHANGED <<made, fit>> /\ phase = "batch"
        /\ ((phase' = phase /\ ended' = ended) \/ (phase' = "idle" /\ ended' = "plan_gate_limit"))
    <3>1. GoOn \/ End("plan_gate_limit")
      BY <1>8 DEF PlanGated
    <3>2. UNCHANGED <<made, fit>> /\ phase = "batch"
      BY <1>8 DEF PlanGated
    <3>3. QED
      BY <3>1, <3>2 DEF GoOn, End
  <2>5. QED
    BY <1>1, <1>2, <2>3, <2>4 DEF LoopInv
<1>9. ASSUME Safe, NEW o, NEW F, Dispatched(o, F)
      PROVE  LoopInv'
  <2>1. phase = "batch"
        /\ ((phase' = phase /\ ended' = ended) \/ (phase' = "idle" /\ ended' = "doom_loop"))
    <3>1. GoOn \/ End("doom_loop")
      BY <1>9 DEF Dispatched
    <3>2. phase = "batch"
      BY <1>9 DEF Dispatched
    <3>3. QED
      BY <3>1, <3>2 DEF GoOn, End
  <2>2. QED
    BY <1>2, <1>9, <2>1 DEF LoopInv
<1>10. CASE DispatchMutation
  <2>1. CASE \E final \in BOOLEAN :
               \/ Produces("generate", None, None, final)
               \/ \E x \in Targets : Produces("edit", x, None, final)
    <3>1. PICK tool \in {"generate", "edit"}, x \in Targeted, final \in BOOLEAN : Produces(tool, x, None, final)
      BY <1>1, <2>1 DEF Targets, Targeted
    <3>2. Safe
      BY <3>1, ProductIsGood
    <3>3. \E o, F : Dispatched(o, F)
      BY <3>1 DEF Produces
    <3>4. QED
      BY <1>9, <3>2, <3>3
  <2>2. CASE \E j \in Jobs \ ledger.jobs :
               Reports(Outcome("generate", "pending", None, j, {}, FALSE, TRUE))
    <3>0. PICK j \in Jobs : Reports(Outcome("generate", "pending", None, j, {}, FALSE, TRUE))
      BY <2>2
    <3>1. PICK o : o = Outcome("generate", "pending", None, j, {}, FALSE, TRUE) /\ Reports(o)
      BY <3>0
    <3>2. o.tool = "generate" /\ o.target = None /\ o.job = j /\ o.assets = {}
      BY <3>1 DEF Outcome
    <3>3. Sound(o)
      BY <3>2, FS_EmptySet DEF Sound, Tools, Targeted
    <3>4. Safe
      BY <3>1, <3>3, ReportIsGood
    <3>5. QED
      BY <1>9, <3>1, <3>4 DEF Reports
  <2>3. QED
    BY <1>10, <2>1, <2>2 DEF DispatchMutation
<1>11. CASE DispatchRead
  <2>1. CASE \E j \in ledger.jobs : Produces("poll", None, j, TRUE)
    <3>1. PICK j \in Jobs : Produces("poll", None, j, TRUE)
      BY <1>1, <2>1 DEF Good, LedgerType
    <3>2. Safe
      BY <3>1, ProductIsGood DEF Targeted
    <3>3. \E o, F : Dispatched(o, F)
      BY <3>1 DEF Produces
    <3>4. QED
      BY <1>9, <3>2, <3>3
  <2>2. ASSUME NEW o, Sound(o), Reports(o)
        PROVE  LoopInv'
    BY <1>9, <2>2, ReportIsGood DEF Reports
  <2>3. CASE \E tool \in {"probe", "look"}, x \in Targets :
               Reports(Outcome(tool, "success", x, None, {x}, FALSE, TRUE))
    <3>0. PICK tool \in {"probe", "look"}, x \in Targeted :
            Reports(Outcome(tool, "success", x, None, {x}, FALSE, TRUE))
      BY <1>1, <2>3 DEF Targets, Targeted
    <3>1. PICK o : o = Outcome(tool, "success", x, None, {x}, FALSE, TRUE) /\ Reports(o)
      BY <3>0
    <3>2. o.tool = tool /\ o.target = x /\ o.job = None /\ o.assets = {x}
      BY <3>1 DEF Outcome
    <3>3. ~GoalMutation(o)
      BY <3>2 DEF GoalMutation, MutationTools
    <3>4. Sound(o)
      BY <3>2, <3>3, FS_Singleton DEF Sound, Tools
    <3>5. QED
      BY <2>2, <3>1, <3>4
  <2>4. CASE \E j \in ledger.jobs : Reports(Outcome("poll", "pending", None, j, {}, FALSE, TRUE))
    <3>0. PICK j \in Jobs : Reports(Outcome("poll", "pending", None, j, {}, FALSE, TRUE))
      BY <1>1, <2>4 DEF Good, LedgerType
    <3>1. PICK o : o = Outcome("poll", "pending", None, j, {}, FALSE, TRUE) /\ Reports(o)
      BY <3>0
    <3>2. o.tool = "poll" /\ o.target = None /\ o.job = j /\ o.assets = {}
      BY <3>1 DEF Outcome
    <3>3. Sound(o)
      BY <3>2, FS_EmptySet DEF Sound, Tools, Targeted
    <3>4. QED
      BY <2>2, <3>1, <3>3
  <2>5. CASE Reports(Outcome("read", "noop", None, None, {}, FALSE, TRUE))
    <3>1. PICK o : o = Outcome("read", "noop", None, None, {}, FALSE, TRUE) /\ Reports(o)
      BY <2>5
    <3>2. o.tool = "read" /\ o.target = None /\ o.job = None /\ o.assets = {}
      BY <3>1 DEF Outcome
    <3>3. Sound(o)
      BY <3>2, FS_EmptySet DEF Sound, Tools, Targeted
    <3>4. QED
      BY <2>2, <3>1, <3>3
  <2>6. QED
    BY <1>11, <2>1, <2>3, <2>4, <2>5 DEF DispatchRead
<1>12. CASE EndBatch
  <2>1. UNCHANGED <<ledger, made, fit>> /\ phase = "batch"
        /\ ((phase' = "asking" /\ ended' = ended) \/ (phase' = "idle" /\ ended' = "incomplete"))
    <3>1. UNCHANGED <<ledger, made, fit>> /\ phase = "batch"
      BY <1>12 DEF EndBatch
    <3>2. End("incomplete") \/ (phase' = "asking" /\ ended' = ended)
      BY <1>12 DEF EndBatch
    <3>3. QED
      BY <3>1, <3>2 DEF End
  <2>2. QED
    BY <1>1, <1>2, <2>1 DEF LoopInv
<1>13. CASE UNCHANGED vars
  BY <1>13 DEF LoopInv, vars, CompleteIsTrue
<1>14. QED
  BY <1>3, <1>4, <1>5, <1>6, <1>7, <1>8, <1>10, <1>11, <1>12, <1>13 DEF Next, Step

LEMMA LoopInit == Init => LoopInv
<1> SUFFICES ASSUME Init PROVE LoopInv
  OBVIOUS
<1>1. ledger = EmptyLedger({}) /\ made = {} /\ phase = "idle" /\ ended = "none"
  BY DEF Init
<1>2. ledger \in LedgerType
  BY <1>1 DEF EmptyLedger, LedgerType
<1>3. ledger.finals = {} /\ ledger.results = {} /\ ledger.criterion = "open"
  BY <1>1 DEF EmptyLedger
<1>4. Good(ledger, fit)
  BY <1>2, <1>3, FS_EmptySet DEF Good, Truthful
<1>5. QED
  BY <1>1, <1>4 DEF LoopInv, CompleteIsTrue

\* A turn that ends as complete has as many deliverables as were wanted, and
\* each of them meets the criterion: whatever mutations, retries, provider jobs
\* and reviews came between the measurements.
THEOREM CompleteTurnsAreComplete == Spec => []CompleteIsTrue
<1>1. LoopInv => CompleteIsTrue
  BY DEF LoopInv
<1>2. QED
  BY <1>1, LoopInit, LoopStep, PTL DEF Spec
=============================================================================
