----------------------------- MODULE TurnLedger -----------------------------
(***************************************************************************)
(* The acceptance ledger of one turn: gemia/turn_ledger.py, for a request   *)
(* that wants Wanted visual assets meeting one objective criterion (the     *)
(* video_edit, video_generation and image workflows).  The ledger is a      *)
(* value; the operators are its methods.  That the last verification is     *)
(* newer than the last mutation is the same as verify being done.  Failures *)
(* that do not block and request-specific "op:" steps are left out.         *)
(***************************************************************************)
EXTENDS Naturals, FiniteSets, FiniteSetsExt

CONSTANTS
  Assets,    \* asset ids a turn can produce
  Source,    \* the asset the user brought
  Jobs,      \* provider jobs
  None,      \* no target, no job
  Wanted     \* the asset_count criterion

ASSUME LedgerAssumption ==
  /\ Source \notin Assets /\ None \notin Assets \union Jobs \union {Source}
  /\ Wanted \in Nat \ {0}

MutationTools == {"generate", "edit"}
ReadTools     == {"look", "probe"}

\* What a settled call reports.  target: the asset its arguments name; assets:
\* what it produced, final or intermediate, or what it examined.
Outcome(tool, state, target, job, assets, final, blocking) ==
  [tool |-> tool, state |-> state, target |-> target, job |-> job,
   assets |-> assets, final |-> final, blocking |-> blocking]

Failed(tool, target, job, blocking) ==
  Outcome(tool, "failure", target, job, {}, FALSE, blocking)

EmptyLedger(pending) ==
  [produce |-> "open", verify |-> "open", criterion |-> "open", results |-> {},
   finals |-> {}, verified |-> {}, jobs |-> pending, failures |-> {}]

\* _record_job_state.
RecordJobState(l, o) ==
  IF o.job = None THEN l
  ELSE [l EXCEPT !.jobs = IF o.state = "pending" THEN @ \union {o.job} ELSE @ \ {o.job}]

\* The failure branch of record_outcome.
RecordFailure(l, o) ==
  IF ~o.blocking THEN l
  ELSE [l EXCEPT !.failures = @ \union
         {[tool |-> o.tool, target |-> o.target, job |-> o.job, superseded |-> FALSE]}]

SameClass(t, u) ==
  \/ t = u
  \/ {t, u} \subseteq MutationTools
  \/ {t, u} \subseteq ReadTools

\* _resolve_successful_retry.
RetriedBy(f, o) ==
  IF f.job # None THEN f.job = o.job
  ELSE IF f.target # None \/ o.target # None
       THEN f.target = o.target /\ SameClass(f.tool, o.tool)
       ELSE f.tool = o.tool
ResolveRetry(l, o) == [l EXCEPT !.failures = {f \in @ : ~RetriedBy(f, o)}]

\* A mutation of the deliverable; a reference image or another intermediate is not.
GoalMutation(o) ==
  \/ o.tool \in MutationTools /\ (o.assets = {} \/ o.final)
  \/ o.tool = "poll" /\ o.assets # {} /\ o.final

\* Faulty variant: what was proved of the earlier deliverable is kept.
MutateKeepingProof(l, o) ==
  IF ~GoalMutation(o) THEN l
  ELSE [l EXCEPT
    !.failures = {[f EXCEPT !.superseded = f.job # None \/ @] : f \in @},
    !.verify = "open", !.produce = "done"]

\* The mutation branch: failed jobs are superseded, _invalidate_prior_verification,
\* _mark_action_done.
Mutate(l, o) ==
  IF ~GoalMutation(o) THEN l
  ELSE [l EXCEPT
    !.failures = {[f EXCEPT !.superseded = f.job # None \/ @] : f \in @},
    !.verify = "open", !.criterion = "open",
    !.results = {}, !.verified = {}, !.produce = "done"]

\* The deliverables the outcome replaces and adds (note_final_asset).
Register(l, o) ==
  IF ~(GoalMutation(o) /\ o.assets # {}) THEN l
  ELSE LET replaced == {o.target} \union (IF Wanted <= 1 THEN l.finals ELSE {})
       IN  [l EXCEPT !.finals = (@ \ replaced) \union o.assets,
                     !.verified = @ \ replaced]

\* _resolve_verified_alternative_failures.
ResolveAlternatives(l) ==
  IF l.finals # {} /\ l.finals \subseteq l.verified
     /\ l.criterion = "passed" /\ Cardinality(l.finals) = Wanted
  THEN [l EXCEPT !.failures = {f \in @ : ~f.superseded}]
  ELSE l

\* _evaluate_criteria on measurements of one asset: several deliverables must
\* all have matched; results holds the ones that did since the last mutation.
Measure(l, a, fits) ==
  IF a \notin l.finals THEN l
  ELSE LET results == IF fits THEN l.results \union {a} ELSE l.results \ {a}
           several == Cardinality(l.finals) > 1
       IN  ResolveAlternatives(
             [l EXCEPT
               !.results = IF several THEN results ELSE @,
               !.criterion = IF (IF several THEN l.finals \subseteq results ELSE fits)
                             THEN "passed" ELSE "failed"])

\* Visual verification of some assets.
Verify(l, assets) ==
  LET verified == l.verified \union (assets \intersect l.finals)
      covered == l.finals # {} /\ l.finals \subseteq verified
  IN  IF assets \intersect l.finals = {} THEN l
      ELSE IF ~covered THEN [l EXCEPT !.verified = verified]
      ELSE ResolveAlternatives([l EXCEPT !.verified = verified, !.verify = "done"])

\* record_outcome; fit says which assets meet the criterion.
RecordOutcome(ledger, o, fit) ==
  LET l == RecordJobState(ledger, o)
      s == Register(Mutate(ResolveRetry(l, o), o), o)
  IN  IF o.state = "failure" THEN RecordFailure(l, o)
      ELSE IF o.state # "success" THEN l
      ELSE IF o.tool = "look" THEN Verify(s, o.assets)
      ELSE IF o.tool = "probe"
      THEN FoldSet(LAMBDA a, m : Measure(m, a, a \in fit), s, o.assets)
      ELSE s

\* completion_decision.
Complete(l) ==
  /\ l.produce = "done" /\ l.verify = "done"
  /\ l.criterion = "passed" /\ Cardinality(l.finals) = Wanted
  /\ l.jobs = {}
  /\ l.failures = {}
  /\ l.finals # {} /\ l.finals \subseteq l.verified

\* progress_signature but for last_mutation_seq: what else counts as progress.
Signature(l) ==
  <<l.produce = "done", l.verify = "done", l.criterion, l.results,
    l.finals, l.verified, l.jobs, Cardinality(l.finals) = Wanted>>
=============================================================================
