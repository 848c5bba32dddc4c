--------------------------- MODULE ProductionRun ---------------------------
(***************************************************************************)
(* A production run on its way to an accepted delivery: the project's      *)
(* revision, run.json and the evidence files that ProductionStore          *)
(* (src/gemia/production_store.py) keeps, and the verify_delivery tool     *)
(* that moves the run through its machine gate.                            *)
(*                                                                         *)
(* One action stands for what a call reads and decides.  Its writes are    *)
(* left pending in calls[t] and reach the disk one by one, always in the   *)
(* order evidence, project record, run record: other threads get in        *)
(* between where the locks let them, and a crash leaves a prefix.          *)
(* add_evidence takes no lock of the run, review_run none of the project;  *)
(* observe, bind_session and create_run take only the project's.           *)
(***************************************************************************)
EXTENDS Naturals

CONSTANTS Threads,      \* threads that call the store
          Masters,      \* exports that may be put up for review
          Start,        \* state of a run that has neither evidence nor a master yet
          Targets,      \* states the callers ask transition_run for
          MaxRevision,  \* bound on the project's revision
          None

States == {"created", "preflight", "sourcing", "rough_cut", "sound_pass", "visual_pass",
           "rendering", "verifying", "ready_for_review", "revising", "accepted",
           "blocked", "cancelled", "failed"}
Reviewable == {"ready_for_review", "accepted"}

\* A review master is accepted by a review, not by a plain transition.
ASSUME TargetsAssumption == Targets \subseteq States \ {"accepted"}
ASSUME StartAssumption == Start \in States \ {"accepted"}
ASSUME BoundAssumption == MaxRevision \in Nat

VARIABLES project,    \* revision of the project record
          run,        \* run.json
          evidence,   \* evidence files
          receipt,    \* per export, the revision its render receipt names
          calls,      \* per thread, the locks it holds and the writes it has still to do
          task,       \* per thread, the verify_delivery it is in
          withdrawn   \* revisions for which a request for changes has returned (history)

vars == <<project, run, evidence, receipt, calls, task, withdrawn>>

Revisions == 0 .. MaxRevision
\* What a file of evidence says.  Evidence of another kind opens no gate: adding
\* it is kept (it rewrites the run), the file is not.
Evidence == [kind : {"acceptance", "approval"}, master : Masters, revision : Revisions]
ASSUME NoneAssumption == None \notin Masters /\ None \notin Nat /\ None \notin Evidence

\* run.evidence: the acceptance evidence it lists.
Run == [state : States, revision : Revisions, master : Masters \union {None},
        evidence : SUBSET Evidence]

\* What a call has still to write; None for a file it does not touch.
Call == [locks : SUBSET {"run", "project"}, evidence : Evidence \union {None},
         project : Revisions \union {None}, run : Run \union {None},
         asks : Revisions \union {None}]   \* the revision a request for changes is about
Idle == [locks |-> {}, evidence |-> None, project |-> None, run |-> None,
         asks |-> None]

Task == [phase : {"none", "evidence", "record", "move"}, master : Masters \union {None},
         revision : Revisions, passed : BOOLEAN]
NoTask == [phase |-> "none", master |-> None, revision |-> 0, passed |-> FALSE]

TypeOK ==
  /\ project \in Revisions
  /\ run \in Run
  /\ evidence \subseteq Evidence
  /\ receipt \in [Masters -> Revisions \union {None}]
  /\ calls \in [Threads -> Call]
  /\ task \in [Threads -> Task]
  /\ withdrawn \subseteq Revisions

Init ==
  /\ project = 0
  /\ run = [state |-> Start, revision |-> 0, master |-> None, evidence |-> {}]
  /\ evidence = {}
  /\ receipt = [m \in Masters |-> None]
  /\ calls = [t \in Threads |-> Idle]
  /\ task = [t \in Threads |-> NoTask]
  /\ withdrawn = {}

-----------------------------------------------------------------------------
(* Rules of the store. *)

\* _STATE_TRANSITIONS.
Successors(s) ==
  CASE s = "created" -> {"preflight", "blocked", "cancelled", "failed"}
    [] s = "preflight" -> {"sourcing", "blocked", "cancelled", "failed"}
    [] s = "sourcing" -> {"rough_cut", "blocked", "cancelled", "failed"}
    [] s = "rough_cut" -> {"sound_pass", "blocked", "cancelled", "failed"}
    [] s = "sound_pass" -> {"visual_pass", "blocked", "cancelled", "failed"}
    [] s = "visual_pass" -> {"rendering", "blocked", "cancelled", "failed"}
    [] s = "rendering" -> {"verifying", "blocked", "cancelled", "failed"}
    [] s = "verifying" -> {"ready_for_review", "revising", "blocked", "failed"}
    [] s = "ready_for_review" -> {"accepted", "revising", "blocked", "cancelled"}
    [] s = "revising" -> {"rough_cut", "sound_pass", "visual_pass", "rendering",
                          "blocked", "cancelled", "failed"}
    [] s = "accepted" -> {"revising"}
    [] s = "blocked" -> {"preflight", "sourcing", "rough_cut", "sound_pass",
                         "visual_pass", "rendering", "cancelled", "failed"}
    [] s = "failed" -> {"preflight", "cancelled"}
    [] OTHER -> {}

Allowed(from, to) == to = from \/ to \in Successors(from)

Says(kind, m, rev) == [kind |-> kind, master |-> m, revision |-> rev]

\* _current_machine_evidence: listed, on disk, and of the project's revision.
Accepting == {e \in run.evidence \intersect evidence :
                e.kind = "acceptance" /\ e.revision = project}
\* It returns False for a run at another revision than the project's, and the
\* gate asks whether the answer is not None: such a run passes.
HasCurrentMachineEvidence == run.revision # project \/ Accepting # {}

\* _validate_delivery_candidate: the receipt names the project's revision.
ValidCandidate(m) == m # None /\ receipt[m] = project

\* public_delivery: the master a client is shown.
Shown(m) ==
  /\ run.state \in Reviewable
  /\ run.revision = project
  /\ run.master = m
  /\ ValidCandidate(m)

-----------------------------------------------------------------------------
(* A call: locks, the decision, and the writes left to do. *)

Free(t) == calls[t] = Idle
Unoccupied(t) == Free(t) /\ task[t] = NoTask
Available(locks) == \A u \in Threads : calls[u].locks \intersect locks = {}

\* The call of t decides now what it will write.
Begin(t, locks, writes) ==
  /\ Free(t)
  /\ Available(locks)
  /\ calls' = [calls EXCEPT ![t] = [writes EXCEPT !.locks = locks]]
  /\ UNCHANGED <<project, run, evidence, receipt, withdrawn>>

WriteEvidence(t) ==
  /\ calls[t].evidence # None
  /\ evidence' = evidence \union {calls[t].evidence}
  /\ calls' = [calls EXCEPT ![t].evidence = None]
  /\ UNCHANGED <<project, run, receipt, task, withdrawn>>

\* Another call has read the project under its lock and not yet written it.
ProjectInUse(t) == \E u \in Threads \ {t} : "project" \in calls[u].locks

\* A request for changes takes no lock of the project: one that raises the
\* revision under a holder of the lock may have it set back, and counts as
\* overlapped.
WriteProject(t) ==
  /\ calls[t].evidence = None
  /\ calls[t].project # None
  /\ project' = calls[t].project
  /\ calls' = [calls EXCEPT ![t] =
       IF calls[t].run = None THEN Idle
       ELSE [calls[t] EXCEPT !.project = None,
                             !.asks = IF ProjectInUse(t) THEN None ELSE calls[t].asks]]
  /\ UNCHANGED <<run, evidence, receipt, task, withdrawn>>

\* The last write of a call: a request for changes that was not overlapped has
\* withdrawn its revision.
WriteRun(t) ==
  /\ calls[t].run # None
  /\ calls[t].evidence = None /\ calls[t].project = None
  /\ run' = calls[t].run
  /\ calls' = [calls EXCEPT ![t] = Idle]
  /\ withdrawn' = withdrawn \union ({calls[t].asks} \ {None})
  /\ UNCHANGED <<project, evidence, receipt, task>>

-----------------------------------------------------------------------------
(* Moves of the run. *)

CanMove(target) ==
  /\ Allowed(run.state, target)
  /\ target = "ready_for_review" => HasCurrentMachineEvidence

\* A review master is an active candidate: any other state drops it.
Moved(target) ==
  [run EXCEPT !.state = target, !.master = IF target \in Reviewable THEN @ ELSE None]

\* A change of the project drops the master and reopens a reviewable run.
Changed(rev) ==
  [run EXCEPT !.revision = rev, !.master = None,
              !.state = IF @ \in Reviewable THEN "revising" ELSE @]

Larger(a, b) == IF a > b THEN a ELSE b
SeenAt(rev) == [run EXCEPT !.revision = Larger(@, rev)]
Listing(r, e) == [r EXCEPT !.evidence = @ \union {e}]

TransitionRun(t, target) ==
  /\ Unoccupied(t)
  /\ CanMove(target)
  /\ Begin(t, {"run"}, [Idle EXCEPT !.run = Moved(target)])
  /\ UNCHANGED task

SyncRunProjectRevision(t, rev) ==
  /\ Unoccupied(t)
  /\ rev > run.revision
  /\ Begin(t, {"run"}, [Idle EXCEPT !.run = Changed(rev)])
  /\ UNCHANGED task

\* patch_design_state, and observe_design_program when the program changed.
PatchDesignState(t) ==
  /\ Unoccupied(t)
  /\ project < MaxRevision
  /\ Begin(t, {"run", "project"},
           [Idle EXCEPT !.project = project + 1, !.run = Changed(project + 1)])
  /\ UNCHANGED task

ObserveProjectState(t) ==
  /\ Unoccupied(t)
  /\ project < MaxRevision
  /\ Begin(t, {"project"}, [Idle EXCEPT !.project = project + 1])
  /\ UNCHANGED task

\* bind_session, and create_run for a further run: the project record is written
\* back, with the revision that was read, under the project's lock alone.
RewriteProject(t) ==
  /\ Unoccupied(t)
  /\ Begin(t, {"project"}, [Idle EXCEPT !.project = project])
  /\ UNCHANGED task

\* add_evidence, of a kind that opens a gate or of another: the run as it is
\* now is what will be written back.
AddAcceptance(t, e) ==
  Begin(t, {}, [Idle EXCEPT !.evidence = e, !.run = Listing(SeenAt(e.revision), e)])
AddOther(t, rev) == Begin(t, {}, [Idle EXCEPT !.run = SeenAt(rev)])

AddEvidence(t, rev) ==
  /\ Unoccupied(t)
  /\ AddOther(t, rev)
  /\ UNCHANGED task

\* complete_turn.
CompleteTurn(t, rev) ==
  /\ Unoccupied(t)
  /\ Begin(t, {"run"}, [Idle EXCEPT !.run = SeenAt(rev)])
  /\ UNCHANGED task

\* claim_turn, reconcile_inflight_turns and refresh_budget_summary write the run
\* back for fields that are not modelled.
RewriteRun(t) ==
  /\ Unoccupied(t)
  /\ Begin(t, {"run"}, [Idle EXCEPT !.run = run])
  /\ UNCHANGED task

-----------------------------------------------------------------------------
(* The review. *)

Approve(t) ==
  /\ Unoccupied(t)
  /\ run.state = "ready_for_review"
  /\ HasCurrentMachineEvidence
  /\ ValidCandidate(run.master)
  /\ LET e == Says("approval", run.master, project)
     IN  Begin(t, {"run"}, [Idle EXCEPT
           !.evidence = e,
           !.run = [run EXCEPT !.state = "accepted", !.revision = project]])
  /\ UNCHANGED task

\* The project keeps its revision when changes are asked for (faulty variant).
RequestAtSameRevision(t) ==
  /\ Unoccupied(t)
  /\ Allowed(run.state, "revising")
  /\ Begin(t, {"run"}, [Idle EXCEPT
       !.asks = project, !.run = [run EXCEPT !.state = "revising", !.master = None]])
  /\ UNCHANGED task

RequestChanges(t) ==
  /\ Unoccupied(t)
  /\ Allowed(run.state, "revising")
  /\ project < MaxRevision
  /\ Begin(t, {"run"}, [Idle EXCEPT
       !.project = project + 1, !.asks = project,
       !.run = [run EXCEPT !.state = "revising", !.master = None,
                           !.revision = project + 1]])
  /\ UNCHANGED task

-----------------------------------------------------------------------------
(* verify_delivery: evidence, then the master, then the state. *)

\* The project's revision is read once, here.
VerifyDelivery(t, m, passed) ==
  /\ Unoccupied(t)
  /\ run.state = "verifying"
  /\ passed => ValidCandidate(m)
  /\ task' = [task EXCEPT ![t] = [phase |-> "evidence", master |-> m,
                                  revision |-> project, passed |-> passed]]
  /\ UNCHANGED <<project, run, evidence, receipt, calls, withdrawn>>

Report(t) == Says("acceptance", task[t].master, task[t].revision)

FileReport(t) ==
  /\ task[t].phase = "evidence"
  /\ IF task[t].passed THEN AddAcceptance(t, Report(t)) ELSE AddOther(t, task[t].revision)
  /\ task' = [task EXCEPT ![t].phase = IF task[t].passed THEN "record" ELSE "move"]

\* A run that has a master takes another (faulty variant).
RecordableOver(e) ==
  /\ e \in evidence
  /\ e.revision = project /\ run.revision = project
  /\ run.state \in {"verifying"} \union Reviewable
  /\ ValidCandidate(e.master)

\* record_deliverable, for acceptance evidence e.
Recordable(e) ==
  /\ e \in evidence
  /\ e.revision = project /\ run.revision = project
  /\ run.state \in {"verifying"} \union Reviewable
  /\ ValidCandidate(e.master)
  /\ run.master = None

RecordDeliverable(t, e) ==
  /\ Recordable(e)
  /\ Begin(t, {"run"}, [Idle EXCEPT !.run = [run EXCEPT !.master = e.master]])

RecordReviewMaster(t) ==
  /\ task[t].phase = "record"
  /\ RecordDeliverable(t, Report(t))
  /\ task' = [task EXCEPT ![t].phase = "move"]

FinishVerification(t) ==
  /\ task[t].phase = "move"
  /\ LET target == IF task[t].passed THEN "ready_for_review" ELSE "revising"
     IN  CanMove(target) /\ Begin(t, {"run"}, [Idle EXCEPT !.run = Moved(target)])
  /\ task' = [task EXCEPT ![t] = NoTask]

\* The store refuses a step of the tool, which raises.
VerificationFails(t) ==
  /\ Free(t) /\ Available({"run"})
  /\ \/ task[t].phase = "record" /\ ~Recordable(Report(t))
     \/ /\ task[t].phase = "move"
        /\ ~CanMove(IF task[t].passed THEN "ready_for_review" ELSE "revising")
  /\ task' = [task EXCEPT ![t] = NoTask]
  /\ UNCHANGED <<project, run, evidence, receipt, calls, withdrawn>>

BackfillCurrentDelivery(t) ==
  /\ Unoccupied(t)
  /\ run.state \in Reviewable
  /\ run.revision = project
  /\ \E e \in Accepting : RecordDeliverable(t, e)
  /\ UNCHANGED task

-----------------------------------------------------------------------------
(* Renders, crashes. *)

\* An export and the receipt that binds it to the revision it was rendered from.
Render(m) ==
  /\ receipt[m] = None
  /\ receipt' = [receipt EXCEPT ![m] = project]
  /\ UNCHANGED <<project, run, evidence, calls, task, withdrawn>>

\* The process dies: pending writes are lost, what was written stays.
Crash ==
  /\ \E t \in Threads : ~Unoccupied(t)
  /\ calls' = [t \in Threads |-> Idle]
  /\ task' = [t \in Threads |-> NoTask]
  /\ UNCHANGED <<project, run, evidence, receipt, withdrawn>>

Write(t) == WriteEvidence(t) \/ WriteProject(t) \/ WriteRun(t)

Next ==
  \/ Crash
  \/ \E m \in Masters : Render(m)
  \/ \E t \in Threads :
       \/ Write(t)
       \/ \E target \in Targets : TransitionRun(t, target)
       \/ \E rev \in 0 .. project :
            SyncRunProjectRevision(t, rev) \/ AddEvidence(t, rev) \/ CompleteTurn(t, rev)
       \/ PatchDesignState(t) \/ ObserveProjectState(t)
       \/ RewriteProject(t) \/ RewriteRun(t)
       \/ Approve(t) \/ RequestChanges(t)
       \/ \E m \in Masters, passed \in BOOLEAN : VerifyDelivery(t, m, passed)
       \/ FileReport(t) \/ RecordReviewMaster(t) \/ FinishVerification(t)
       \/ VerificationFails(t) \/ BackfillCurrentDelivery(t)

Spec == Init /\ [][Next]_vars

-----------------------------------------------------------------------------
(* Properties. *)

\* What a client is shown for review has passing machine evidence of the
\* project's very revision, and what it is shown as accepted was approved there
\* by a reviewer: through runs written back stale, crashes half way through a
\* review and projects changed under it.  The gate alone does not see to it (it
\* lets a run of another revision pass): record_deliverable names a master only
\* with its evidence, and public_delivery shows none without its receipt.
ShownIsEarned ==
  \A m \in Masters : Shown(m) =>
    /\ Says("acceptance", m, project) \in evidence
    /\ run.state = "accepted" => Says("approval", m, project) \in evidence

\* Once a request for changes has returned, no master of the revision it was
\* about, or of one before, is shown again, whoever writes the run back.  Only a
\* request is excepted that raised the revision while another call held the
\* project's lock (an observation, bind_session, create_run): that call may set
\* the revision back (README, disagreements).
WithdrawnStaysHidden ==
  \A m \in Masters : Shown(m) => \A rev \in withdrawn : receipt[m] > rev
=============================================================================
