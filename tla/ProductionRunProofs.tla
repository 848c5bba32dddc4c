------------------------ MODULE ProductionRunProofs ------------------------
(***************************************************************************)
(* What is shown for review was earned, and what was withdrawn stays       *)
(* hidden, for any threads, exports and revisions.                         *)
(*                                                                         *)
(* The invariants speak of the run on disk and of every copy of it that a  *)
(* call has still to write: a stale copy is as earned as the run it was    *)
(* read from, because evidence and receipts only grow.  Every action that  *)
(* begins a call is shown to begin a lawful one (Begun); what a lawful     *)
(* call and its writes preserve is then shown once.                        *)
(***************************************************************************)
EXTENDS ProductionRun, TLAPS

\* The run r names no master and no acceptance that the evidence E lacks.
EarnedBy(r, E) ==
  /\ r.master # None => Says("acceptance", r.master, receipt[r.master]) \in E
  /\ r.state = "accepted" =>
       r.master # None /\ Says("approval", r.master, receipt[r.master]) \in E

\* The evidence on disk, and e if there is one still to be written.
With(e) == evidence \union ({e} \intersect Evidence)

EarnedInv ==
  /\ EarnedBy(run, evidence)
  /\ \A t \in Threads :
       calls[t].run # None => EarnedBy(calls[t].run, With(calls[t].evidence))

\* Locks are held by one thread; who writes the project holds one, and a request
\* for changes holds the run's.
LockInv ==
  \A t \in Threads :
    /\ calls[t].project # None => calls[t].locks # {}
    /\ calls[t].asks # None => "run" \in calls[t].locks
    /\ \A u \in Threads \ {t} : calls[t].locks \intersect calls[u].locks = {}

\* Nothing that is to come sets the project back to rev.
PastAll(rev) ==
  /\ project > rev
  /\ \A u \in Threads : calls[u].project # None => calls[u].project > rev

\* The project is past every revision withdrawn, and so is all that is to come.
PastInv == \A rev \in withdrawn : PastAll(rev)

\* A request for changes raises the revision past the one it is about; once it
\* has, and was not overlapped, nothing sets it back.
AskInv ==
  \A t \in Threads : calls[t].asks # None =>
    /\ calls[t].project # None => calls[t].project > calls[t].asks
    /\ calls[t].project = None => PastAll(calls[t].asks)

TaskInv == \A t \in Threads : task[t].phase = "evidence" => task[t].master \in Masters

Inv == TypeOK /\ TaskInv /\ LockInv /\ AskInv /\ EarnedInv /\ PastInv

Lawful(w) ==
  /\ w.project # None => w.locks # {} /\ w.project >= project
  /\ w.asks # None => "run" \in w.locks /\ w.project # None /\ w.project > w.asks
  /\ w.run # None => EarnedBy(w.run, With(w.evidence))

Disk == <<project, run, evidence, receipt, withdrawn>>

Begun(t) ==
  \E w \in Call :
    /\ Free(t) /\ Available(w.locks) /\ Lawful(w)
    /\ calls' = [calls EXCEPT ![t] = w]
    /\ UNCHANGED Disk

TasksKept == task' \in [Threads -> Task] /\ TaskInv'

-----------------------------------------------------------------------------
(* Calls. *)

\* A call that writes the run back, with or without evidence.
LEMMA CallOfRun ==
  ASSUME NEW L \in SUBSET {"run", "project"}, NEW r \in Run, NEW e \in Evidence \union {None},
         EarnedBy(r, With(e))
  PROVE  LET w == [[Idle EXCEPT !.evidence = e, !.run = r] EXCEPT !.locks = L]
         IN  w \in Call /\ w.locks = L /\ Lawful(w)
  BY DEF Idle, Call, Lawful

\* The same without evidence, as most calls are written.
LEMMA PlainCallOfRun ==
  ASSUME NEW L \in SUBSET {"run", "project"}, NEW r \in Run, EarnedBy(r, evidence)
  PROVE  LET w == [[Idle EXCEPT !.run = r] EXCEPT !.locks = L]
         IN  w \in Call /\ w.locks = L /\ Lawful(w)
<1>1. EarnedBy(r, With(None))
  BY DEF EarnedBy, With
<1>. QED  BY <1>1 DEF Idle, Call, Lawful

\* Copies of the run on disk, whatever they change beside master and acceptance.
LEMMA KeptRun ==
  ASSUME Inv, NEW r \in Run, NEW E, evidence \subseteq E,
         r.master \in {run.master, None}, r.state = "accepted" => r.state = run.state /\ r.master = run.master
  PROVE  EarnedBy(r, E)
  BY DEF Inv, EarnedInv, EarnedBy

LEMMA RunTypes ==
  ASSUME Inv
  PROVE  /\ run \in Run /\ run.state \in States /\ run.revision \in Revisions
         /\ run.master \in Masters \union {None} /\ run.evidence \subseteq Evidence
         /\ project \in Revisions /\ Revisions \subseteq Nat
  BY BoundAssumption DEF Inv, TypeOK, Run, Revisions

-----------------------------------------------------------------------------
LEMMA TransitionBegins ==
  ASSUME Inv, NEW t \in Threads, NEW target \in States \ {"accepted"},
         CanMove(target), Begin(t, {"run"}, [Idle EXCEPT !.run = Moved(target)])
  PROVE  Begun(t)
<1>1. Moved(target) \in Run /\ Moved(target).master \in {run.master, None}
      /\ Moved(target).state = target
  BY RunTypes DEF Moved, Run
<1>2. EarnedBy(Moved(target), evidence)
  BY <1>1, KeptRun
<1>. DEFINE w == [[Idle EXCEPT !.run = Moved(target)] EXCEPT !.locks = {"run"}]
<1>3. w \in Call /\ w.locks = {"run"} /\ Lawful(w)
  BY <1>1, <1>2, PlainCallOfRun
<1>. QED  BY <1>3 DEF Begin, Begun, Disk

LEMMA ChangedRun ==
  ASSUME Inv, NEW rev \in Revisions
  PROVE  Changed(rev) \in Run /\ EarnedBy(Changed(rev), evidence)
<1>1. Changed(rev) \in Run /\ Changed(rev).master = None /\ Changed(rev).state # "accepted"
  BY RunTypes DEF Changed, Run, States, Reviewable
<1>. QED  BY <1>1, KeptRun

LEMMA SeenRun ==
  ASSUME Inv, NEW rev \in Revisions
  PROVE  SeenAt(rev) \in Run /\ EarnedBy(SeenAt(rev), evidence)
<1>1. Larger(run.revision, rev) \in Revisions
  BY RunTypes DEF Larger
<1>2. SeenAt(rev) \in Run /\ SeenAt(rev).master = run.master /\ SeenAt(rev).state = run.state
  BY <1>1, RunTypes DEF SeenAt, Run
<1>. QED  BY <1>2, KeptRun

LEMMA PlainBegins ==
  ASSUME NEW t \in Threads, NEW L \in SUBSET {"run", "project"}, NEW r \in Run,
         EarnedBy(r, evidence), Begin(t, L, [Idle EXCEPT !.run = r])
  PROVE  Begun(t)
<1>. DEFINE w == [[Idle EXCEPT !.run = r] EXCEPT !.locks = L]
<1>1. w \in Call /\ w.locks = L /\ Lawful(w)
  BY PlainCallOfRun
<1>. QED  BY <1>1 DEF Begin, Begun, Disk

LEMMA SameRun ==
  ASSUME Inv
  PROVE  run \in Run /\ EarnedBy(run, evidence)
  BY DEF Inv, TypeOK, EarnedInv

LEMMA PatchBegins ==
  ASSUME Inv, NEW t \in Threads, PatchDesignState(t)
  PROVE  Begun(t)
<1>. DEFINE w == [[Idle EXCEPT !.project = project + 1, !.run = Changed(project + 1)]
                   EXCEPT !.locks = {"run", "project"}]
<1>1. project + 1 \in Revisions /\ project + 1 >= project /\ project + 1 > project
  BY RunTypes, BoundAssumption DEF PatchDesignState, Revisions
<1>2. Changed(project + 1) \in Run /\ EarnedBy(Changed(project + 1), evidence)
  BY <1>1, ChangedRun
<1>3. EarnedBy(Changed(project + 1), With(None))
  BY <1>2 DEF EarnedBy, With
<1>4. w \in Call /\ w.locks = {"run", "project"} /\ w.project = project + 1
      /\ w.asks = None /\ w.evidence = None /\ w.run = Changed(project + 1)
  BY <1>1, <1>2 DEF Idle, Call
<1>5. Lawful(w)
  BY <1>1, <1>3, <1>4 DEF Lawful
<1>. QED  BY <1>4, <1>5 DEF PatchDesignState, Begin, Begun, Disk

LEMMA ObserveBegins ==
  ASSUME Inv, NEW t \in Threads, ObserveProjectState(t)
  PROVE  Begun(t)
<1>. DEFINE w == [[Idle EXCEPT !.project = project + 1] EXCEPT !.locks = {"project"}]
<1>1. project + 1 \in Revisions /\ project + 1 >= project /\ project + 1 > project
  BY RunTypes, BoundAssumption DEF ObserveProjectState, Revisions
<1>2. w \in Call /\ w.locks = {"project"} /\ w.project = project + 1
      /\ w.asks = None /\ w.run = None
  BY <1>1 DEF Idle, Call
<1>3. Lawful(w)
  BY <1>1, <1>2 DEF Lawful
<1>. QED  BY <1>2, <1>3 DEF ObserveProjectState, Begin, Begun, Disk

LEMMA RewriteBegins ==
  ASSUME Inv, NEW t \in Threads, RewriteProject(t)
  PROVE  Begun(t)
<1>. DEFINE w == [[Idle EXCEPT !.project = project] EXCEPT !.locks = {"project"}]
<1>1. project \in Revisions /\ project >= project
  BY RunTypes
<1>2. w \in Call /\ w.locks = {"project"} /\ w.project = project
      /\ w.asks = None /\ w.run = None
  BY <1>1 DEF Idle, Call
<1>3. Lawful(w)
  BY <1>1, <1>2 DEF Lawful
<1>. QED  BY <1>2, <1>3 DEF RewriteProject, Begin, Begun, Disk

LEMMA RequestBegins ==
  ASSUME Inv, NEW t \in Threads, RequestChanges(t)
  PROVE  Begun(t)
<1>. DEFINE r == [run EXCEPT !.state = "revising", !.master = None, !.revision = project + 1]
            w == [[Idle EXCEPT !.project = project + 1, !.asks = project, !.run = r]
                   EXCEPT !.locks = {"run"}]
<1>1. project + 1 \in Revisions /\ project \in Revisions /\ project + 1 >= project /\ project + 1 > project
  BY RunTypes, BoundAssumption DEF RequestChanges, Revisions
<1>2. r \in Run /\ r.master = None /\ r.state = "revising"
  BY <1>1, RunTypes DEF Run, States
<1>3. EarnedBy(r, With(None))
  BY <1>2 DEF EarnedBy
<1>4. w \in Call /\ w.locks = {"run"} /\ w.project = project + 1
      /\ w.asks = project /\ w.evidence = None /\ w.run = r
  BY <1>1, <1>2 DEF Idle, Call
<1>5. Lawful(w)
  <2>. HIDE DEF w, r
  <2>1. project + 1 # None
    BY <1>1, RunTypes, NoneAssumption
  <2>. QED  BY <1>1, <1>3, <1>4, <2>1 DEF Lawful
<1>. QED  BY <1>4, <1>5 DEF RequestChanges, Begin, Begun, Disk

\* The approval goes with the master whose acceptance the run already has.
LEMMA ApproveBegins ==
  ASSUME Inv, NEW t \in Threads, Approve(t)
  PROVE  Begun(t)
<1>. DEFINE e == Says("approval", run.master, project)
            r == [run EXCEPT !.state = "accepted", !.revision = project]
            w == [[Idle EXCEPT !.evidence = e, !.run = r] EXCEPT !.locks = {"run"}]
<1>1. run.master # None /\ receipt[run.master] = project
  BY DEF Approve, ValidCandidate
<1>2. e \in Evidence
  BY <1>1, RunTypes DEF Evidence, Says
<1>3. r \in Run /\ r.master = run.master /\ r.state = "accepted"
  BY RunTypes DEF Run, States
<1>4. Says("acceptance", run.master, receipt[run.master]) \in evidence
  BY <1>1 DEF Inv, EarnedInv, EarnedBy
<1>5. EarnedBy(r, With(e))
  <2>. HIDE DEF r
  <2>. QED  BY <1>1, <1>2, <1>3, <1>4 DEF EarnedBy, With
<1>6. w \in Call /\ w.locks = {"run"} /\ Lawful(w)
  <2>. HIDE DEF e, r
  <2>. QED  BY <1>2, <1>3, <1>5, CallOfRun
<1>. QED  BY <1>6 DEF Approve, Begin, Begun, Disk

LEMMA AcceptanceBegins ==
  ASSUME Inv, NEW t \in Threads, NEW e \in Evidence, AddAcceptance(t, e)
  PROVE  Begun(t)
<1>. DEFINE r == Listing(SeenAt(e.revision), e)
            w == [[Idle EXCEPT !.evidence = e, !.run = r] EXCEPT !.locks = {}]
<1>1. e.revision \in Revisions
  BY DEF Evidence
<1>2. SeenAt(e.revision) \in Run /\ EarnedBy(SeenAt(e.revision), evidence)
  BY <1>1, SeenRun
<1>3. r \in Run /\ r.master = SeenAt(e.revision).master /\ r.state = SeenAt(e.revision).state
  BY <1>2 DEF Listing, Run
<1>4. EarnedBy(r, With(e))
  <2>. HIDE DEF r
  <2>. QED  BY <1>2, <1>3 DEF EarnedBy, With
<1>5. w \in Call /\ w.locks = {} /\ Lawful(w)
  <2>. HIDE DEF r
  <2>. QED  BY <1>3, <1>4, CallOfRun
<1>. QED  BY <1>5 DEF AddAcceptance, Begin, Begun, Disk

LEMMA OtherBegins ==
  ASSUME Inv, NEW t \in Threads, NEW rev \in Revisions, AddOther(t, rev)
  PROVE  Begun(t)
  BY SeenRun, PlainBegins DEF AddOther

\* A master is recorded only for a run that has none and so is not accepted.
LEMMA RecordBegins ==
  ASSUME Inv, NEW t \in Threads, NEW e, e.kind = "acceptance", RecordDeliverable(t, e)
  PROVE  Begun(t)
<1>. DEFINE r == [run EXCEPT !.master = e.master]
<1>1. /\ e \in Evidence /\ e \in evidence
      /\ e.revision = project /\ e.master # None /\ receipt[e.master] = project
      /\ run.master = None
  BY DEF RecordDeliverable, Recordable, ValidCandidate, Inv, TypeOK
<1>2. e.master \in Masters /\ e = Says("acceptance", e.master, project)
  BY <1>1 DEF Evidence, Says
<1>3. r \in Run /\ r.master = e.master /\ r.state = run.state
  BY <1>2, RunTypes DEF Run
<1>4. run.state # "accepted"
  BY <1>1 DEF Inv, EarnedInv, EarnedBy
<1>5. EarnedBy(r, evidence)
  <2>. HIDE DEF r
  <2>. QED  BY <1>1, <1>2, <1>3, <1>4 DEF EarnedBy
<1>6. Begin(t, {"run"}, [Idle EXCEPT !.run = r])
  BY DEF RecordDeliverable
<1>. HIDE DEF r
<1>. QED  BY <1>3, <1>5, <1>6, PlainBegins

-----------------------------------------------------------------------------
(* The tool, and all decisions together. *)

Kept == UNCHANGED <<project, run, evidence, receipt, calls, withdrawn>>

LEMMA TaskStays ==
  ASSUME Inv, UNCHANGED task
  PROVE  TasksKept
  BY DEF Inv, TypeOK, TaskInv, TasksKept

LEMMA TaskMoves ==
  ASSUME Inv, NEW t \in Threads, NEW p \in {"record", "move"},
         task' = [task EXCEPT ![t].phase = p]
  PROVE  TasksKept
<1>1. task' \in [Threads -> Task]
  BY DEF Inv, TypeOK, Task
<1>2. TaskInv'
  BY DEF Inv, TypeOK, TaskInv, Task
<1>. QED  BY <1>1, <1>2 DEF TasksKept

LEMMA TaskIsSet ==
  ASSUME Inv, NEW t \in Threads, NEW k \in Task, k.phase = "evidence" => k.master \in Masters,
         task' = [task EXCEPT ![t] = k]
  PROVE  TasksKept
  BY DEF Inv, TypeOK, TaskInv, TasksKept

LEMMA EmptyTask == NoTask \in Task /\ NoTask.phase = "none"
  BY BoundAssumption DEF NoTask, Task, Revisions

\* Every decision begins a lawful call or leaves calls and disk alone.
LEMMA DecisionsBegin ==
  ASSUME Inv, NEW t \in Threads,
         \/ \E target \in Targets : TransitionRun(t, target)
         \/ \E rev \in 0 .. project :
              SyncRunProjectRevision(t, rev) \/ AddEvidence(t, rev) \/ CompleteTurn(t, rev)
         \/ PatchDesignState(t) \/ ObserveProjectState(t)
         \/ RewriteProject(t) \/ RewriteRun(t)
         \/ Approve(t) \/ RequestChanges(t)
         \/ \E m \in Masters, passed \in BOOLEAN : VerifyDelivery(t, m, passed)
         \/ FileReport(t) \/ RecordReviewMaster(t) \/ FinishVerification(t)
         \/ VerificationFails(t) \/ BackfillCurrentDelivery(t)
  PROVE  (Begun(t) \/ Kept) /\ TasksKept
<1>1. ASSUME NEW target \in Targets, TransitionRun(t, target)  PROVE Begun(t) /\ TasksKept
  BY <1>1, TransitionBegins, TaskStays, TargetsAssumption DEF TransitionRun
<1>2. \A rev \in 0 .. project : rev \in Revisions
  BY RunTypes, BoundAssumption DEF Revisions
<1>3. ASSUME NEW rev \in 0 .. project, SyncRunProjectRevision(t, rev)  PROVE Begun(t) /\ TasksKept
  <2>1. Changed(rev) \in Run /\ EarnedBy(Changed(rev), evidence)
    BY <1>2, ChangedRun
  <2>. QED  BY <1>3, <2>1, PlainBegins, TaskStays DEF SyncRunProjectRevision
<1>4. ASSUME NEW rev \in 0 .. project, AddEvidence(t, rev)  PROVE Begun(t) /\ TasksKept
  BY <1>2, <1>4, OtherBegins, TaskStays DEF AddEvidence
<1>5. ASSUME NEW rev \in 0 .. project, CompleteTurn(t, rev)  PROVE Begun(t) /\ TasksKept
  <2>1. SeenAt(rev) \in Run /\ EarnedBy(SeenAt(rev), evidence)
    BY <1>2, SeenRun
  <2>. QED  BY <1>5, <2>1, PlainBegins, TaskStays DEF CompleteTurn
<1>6. CASE PatchDesignState(t)
  BY <1>6, PatchBegins, TaskStays DEF PatchDesignState
<1>7. CASE ObserveProjectState(t)
  BY <1>7, ObserveBegins, TaskStays DEF ObserveProjectState
<1>8. CASE RewriteRun(t)
  BY <1>8, SameRun, PlainBegins, TaskStays DEF RewriteRun
<1>9. CASE Approve(t)
  BY <1>9, ApproveBegins, TaskStays DEF Approve
<1>10. CASE RequestChanges(t)
  BY <1>10, RequestBegins, TaskStays DEF RequestChanges
<1>11. ASSUME NEW m \in Masters, NEW passed \in BOOLEAN, VerifyDelivery(t, m, passed)
       PROVE  Kept /\ TasksKept
  <2>. DEFINE k == [phase |-> "evidence", master |-> m, revision |-> project, passed |-> passed]
  <2>1. k \in Task /\ k.master \in Masters
    BY RunTypes DEF Task
  <2>2. task' = [task EXCEPT ![t] = k]
    BY <1>11 DEF VerifyDelivery
  <2>. HIDE DEF k
  <2>3. TasksKept
    BY <2>1, <2>2, TaskIsSet
  <2>. QED  BY <1>11, <2>3 DEF VerifyDelivery, Kept
<1>12. CASE FileReport(t)
  <2>1. TasksKept
    BY <1>12, TaskMoves DEF FileReport
  <2>2. task[t].master \in Masters /\ task[t].revision \in Revisions
    BY <1>12 DEF FileReport, Inv, TypeOK, TaskInv, Task
  <2>3. Report(t) \in Evidence
    BY <2>2 DEF Report, Says, Evidence
  <2>4. AddAcceptance(t, Report(t)) \/ AddOther(t, task[t].revision)
    BY <1>12 DEF FileReport
  <2>. QED  BY <2>1, <2>2, <2>3, <2>4, AcceptanceBegins, OtherBegins
<1>13. CASE RecordReviewMaster(t)
  <2>1. TasksKept
    BY <1>13, TaskMoves DEF RecordReviewMaster
  <2>2. Report(t).kind = "acceptance"
    BY DEF Report, Says
  <2>. QED  BY <1>13, <2>1, <2>2, RecordBegins DEF RecordReviewMaster
<1>14. CASE FinishVerification(t)
  <2>. DEFINE target == IF task[t].passed THEN "ready_for_review" ELSE "revising"
  <2>1. target \in States \ {"accepted"}
    BY DEF States
  <2>2. CanMove(target) /\ Begin(t, {"run"}, [Idle EXCEPT !.run = Moved(target)])
    BY <1>14 DEF FinishVerification
  <2>3. Begun(t)
    <3>. HIDE DEF target
    <3>. QED  BY <2>1, <2>2, TransitionBegins
  <2>. QED  BY <1>14, <2>3, TaskIsSet, EmptyTask DEF FinishVerification
<1>15. CASE VerificationFails(t)
  BY <1>15, TaskIsSet, EmptyTask DEF VerificationFails, Kept
<1>16. CASE BackfillCurrentDelivery(t)
  <2>1. PICK e \in Accepting : RecordDeliverable(t, e)
    BY <1>16 DEF BackfillCurrentDelivery
  <2>2. e.kind = "acceptance"
    BY DEF Accepting
  <2>. QED  BY <1>16, <2>1, <2>2, RecordBegins, TaskStays DEF BackfillCurrentDelivery
<1>17. CASE RewriteProject(t)
  BY <1>17, RewriteBegins, TaskStays DEF RewriteProject
<1>. QED
  BY <1>1, <1>3, <1>4, <1>5, <1>6, <1>7, <1>8, <1>9, <1>10, <1>11, <1>12, <1>13, <1>14,
     <1>15, <1>16, <1>17

-----------------------------------------------------------------------------
(* What a lawful call and its writes preserve. *)

LEMMA BegunKeeps ==
  ASSUME Inv, NEW t \in Threads, Begun(t), TasksKept
  PROVE  Inv'
<1>1. PICK w \in Call : /\ Free(t) /\ Available(w.locks) /\ Lawful(w)
                        /\ calls' = [calls EXCEPT ![t] = w]
                        /\ UNCHANGED Disk
  BY DEF Begun
<1>2. calls \in [Threads -> Call] /\ calls' \in [Threads -> Call]
  BY <1>1 DEF Inv, TypeOK
<1>3. TypeOK'
  BY <1>1, <1>2 DEF Inv, TypeOK, TasksKept, Disk
<1>4. LockInv'
  BY <1>1, <1>2 DEF Inv, LockInv, Lawful, Available
<1>5. EarnedInv'
  BY <1>1, <1>2 DEF Inv, EarnedInv, EarnedBy, With, Lawful, Disk
\* What is begun now writes the project at the revision it has, or past it.
<1>8. ASSUME NEW rev \in Nat, PastAll(rev)  PROVE PastAll(rev)'
  <2>1. project > rev /\ project' = project /\ project \in Nat
        /\ \A u \in Threads : calls[u].project # None => calls[u].project > rev
    BY <1>1, <1>8, RunTypes DEF PastAll, Disk
  <2>2. w.project # None => w.project \in Nat /\ w.project >= project
    BY <1>1, RunTypes DEF Lawful, Call
  <2>3. w.project # None => w.project > rev
    BY <2>1, <2>2
  <2>4. \A u \in Threads : calls'[u].project # None => calls'[u].project > rev
    BY <1>1, <1>2, <2>1, <2>3
  <2>. QED  BY <2>1, <2>4 DEF PastAll
<1>9. withdrawn' = withdrawn /\ withdrawn \subseteq Nat
  BY <1>1, RunTypes DEF Inv, TypeOK, Disk
<1>6. PastInv'
  BY <1>8, <1>9 DEF Inv, PastInv
<1>7. AskInv'
  <2>. SUFFICES ASSUME NEW u \in Threads, NEW a, a = calls'[u].asks, a # None
                PROVE  /\ calls'[u].project # None => calls'[u].project > a
                       /\ calls'[u].project = None => PastAll(a)'
    BY DEF AskInv, PastAll
  <2>1. CASE u = t
    BY <1>1, <1>2, <2>1 DEF Lawful
  <2>2. CASE u # t
    <3>1. calls'[u] = calls[u]
      BY <1>1, <1>2, <2>2
    <3>2. calls[u].asks \in Nat
      BY <1>2, <3>1, RunTypes DEF Call
    <3>. QED  BY <1>8, <3>1, <3>2 DEF Inv, AskInv
  <2>. QED  BY <2>1, <2>2
<1>. QED  BY <1>3, <1>4, <1>5, <1>6, <1>7 DEF Inv, TasksKept

LEMMA WritesKeep ==
  ASSUME Inv, NEW t \in Threads, Write(t)
  PROVE  Inv'
<1>. USE DEF Inv
<1>t. calls[t] \in Call /\ calls \in [Threads -> Call]
  BY DEF TypeOK
<1>i. Idle \in Call /\ Idle.locks = {} /\ Idle.evidence = None /\ Idle.project = None
      /\ Idle.run = None /\ Idle.asks = None
  BY DEF Idle, Call
<1>1. CASE WriteEvidence(t)
  <2>. DEFINE w == [calls[t] EXCEPT !.evidence = None]
  <2>1. w \in Call /\ w.locks = calls[t].locks /\ w.project = calls[t].project
        /\ w.run = calls[t].run /\ w.asks = calls[t].asks /\ w.evidence = None
    BY <1>t DEF Call
  <2>2. calls' = [calls EXCEPT ![t] = w] /\ evidence' = evidence \union {calls[t].evidence}
        /\ calls[t].evidence \in Evidence /\ UNCHANGED <<project, run, receipt, task, withdrawn>>
    BY <1>1, <1>t DEF WriteEvidence, Call
  <2>. HIDE DEF w
  <2>3. TypeOK' /\ TaskInv'
    BY <2>1, <2>2 DEF TypeOK, TaskInv
  <2>4. LockInv'
    BY <1>t, <2>1, <2>2 DEF LockInv
  <2>5. EarnedInv'
    BY <1>t, <2>1, <2>2 DEF EarnedInv, EarnedBy, With
  <2>6. PastInv'
    BY <1>t, <2>1, <2>2 DEF PastInv, PastAll
  <2>7. AskInv'
    BY <1>t, <2>1, <2>2 DEF AskInv, PastAll
  <2>. QED  BY <2>3, <2>4, <2>5, <2>6, <2>7
<1>2. CASE WriteProject(t)
  <2>. DEFINE w == IF calls[t].run = None THEN Idle
                   ELSE [calls[t] EXCEPT !.project = None,
                                         !.asks = IF ProjectInUse(t) THEN None ELSE calls[t].asks]
  <2>1. w \in Call /\ w.project = None /\ w.evidence = None
        /\ w.locks \in {{}, calls[t].locks} /\ w.run \in {None, calls[t].run}
    BY <1>2, <1>t, <1>i DEF WriteProject, Call
  <2>9. w.asks # None => w.asks = calls[t].asks /\ w.locks = calls[t].locks /\ ~ProjectInUse(t)
    BY <1>t, <1>i DEF Call
  <2>2. /\ calls' = [calls EXCEPT ![t] = w] /\ project' = calls[t].project
        /\ calls[t].project \in Revisions /\ calls[t].evidence = None
        /\ UNCHANGED <<evidence, run, receipt, task, withdrawn>>
    <3>1. calls' = [calls EXCEPT ![t] = w]
      BY <1>2, <1>t DEF WriteProject
    <3>2. calls[t].project \in Revisions
      BY <1>2, <1>t DEF WriteProject, Call
    <3>. QED  BY <1>2, <3>1, <3>2 DEF WriteProject
  <2>. HIDE DEF w
  <2>3. TypeOK' /\ TaskInv'
    BY <2>1, <2>2 DEF TypeOK, TaskInv
  <2>4. LockInv'
    BY <1>t, <2>1, <2>2, <2>9 DEF LockInv
  <2>5. EarnedInv'
    BY <1>t, <2>1, <2>2 DEF EarnedInv, EarnedBy, With
  <2>8. ASSUME NEW rev \in Nat, PastAll(rev)  PROVE PastAll(rev)'
    BY <1>t, <2>1, <2>2, <2>8, NoneAssumption DEF PastAll, Revisions
  <2>10. withdrawn' = withdrawn /\ withdrawn \subseteq Nat
    BY <2>2 DEF TypeOK, Revisions
  <2>6. PastInv'
    BY <2>8, <2>10 DEF PastInv
  <2>7. AskInv'
    <3>. SUFFICES ASSUME NEW u \in Threads, NEW a, a = calls'[u].asks, a # None
                  PROVE  /\ calls'[u].project # None => calls'[u].project > a
                         /\ calls'[u].project = None => PastAll(a)'
      BY DEF AskInv, PastAll
    \* Nobody else has the project's lock, and t has the run's: no other write of
    \* the project is pending.
    <3>1. CASE u = t
      <4>1. calls'[u] = w /\ a = calls[t].asks /\ calls[t].asks # None /\ ~ProjectInUse(t)
        BY <1>t, <2>2, <2>9, <3>1
      <4>2. \A x \in Threads \ {t} : calls[x].locks = {}
        <5>. TAKE x \in Threads \ {t}
        <5>1. "run" \in calls[t].locks /\ calls[t].locks \intersect calls[x].locks = {}
          BY <4>1 DEF LockInv
        <5>2. calls[x].locks \subseteq {"run", "project"} /\ "project" \notin calls[x].locks
          BY <1>t, <4>1 DEF ProjectInUse, Call
        <5>. QED  BY <5>1, <5>2
      <4>3. \A x \in Threads \ {t} : calls'[x].project = None
        BY <1>t, <2>2, <4>2 DEF LockInv
      <4>4. calls[t].project # None /\ calls[t].project > calls[t].asks
        BY <1>2, <4>1 DEF WriteProject, AskInv
      <4>. QED  BY <2>1, <2>2, <3>1, <4>1, <4>3, <4>4 DEF PastAll
    <3>2. CASE u # t
      <4>1. calls'[u] = calls[u]
        BY <1>t, <2>2, <3>2
      <4>2. calls[u].asks \in Nat
        BY <1>t, <4>1 DEF Call, Revisions
      <4>. QED  BY <2>8, <4>1, <4>2 DEF AskInv
    <3>. QED  BY <3>1, <3>2
  <2>. QED  BY <2>3, <2>4, <2>5, <2>6, <2>7
<1>3. CASE WriteRun(t)
  <2>1. /\ calls' = [calls EXCEPT ![t] = Idle] /\ run' = calls[t].run
        /\ calls[t].run \in Run /\ calls[t].run # None
        /\ calls[t].evidence = None /\ calls[t].project = None
        /\ UNCHANGED <<project, evidence, receipt, task>>
    BY <1>3, <1>t DEF WriteRun, Call
  <2>2. withdrawn' \subseteq Revisions
    BY <1>3, <1>t DEF WriteRun, Call, TypeOK
  <2>3. TypeOK' /\ TaskInv'
    BY <1>i, <2>1, <2>2 DEF TypeOK, TaskInv
  <2>4. LockInv'
    BY <1>t, <1>i, <2>1 DEF LockInv
  <2>5. EarnedInv'
    <3>1. EarnedBy(calls[t].run, With(None))
      BY <2>1 DEF EarnedInv
    <3>2. With(None) = evidence
      BY NoneAssumption DEF With
    <3>3. EarnedBy(run, evidence)'
      BY <2>1, <3>1, <3>2 DEF EarnedBy
    <3>. QED  BY <1>t, <1>i, <2>1, <3>3 DEF EarnedInv, EarnedBy, With
  <2>8. ASSUME NEW rev, PastAll(rev)  PROVE PastAll(rev)'
    BY <1>t, <1>i, <2>1, <2>8 DEF PastAll
  <2>6. PastInv'
    <3>. SUFFICES ASSUME NEW rev \in withdrawn'  PROVE PastAll(rev)
      BY <2>8 DEF PastInv
    <3>1. CASE rev \in withdrawn
      BY <3>1 DEF PastInv
    <3>2. CASE rev \notin withdrawn
      BY <1>3, <2>1, <3>2 DEF WriteRun, AskInv
    <3>. QED  BY <3>1, <3>2
  <2>7. AskInv'
    <3>1. \A u \in Threads \ {t} : calls'[u] = calls[u]
      BY <1>t, <2>1
    <3>2. calls'[t].asks = None
      BY <1>t, <1>i, <2>1
    <3>. QED  BY <2>8, <3>1, <3>2 DEF AskInv
  <2>. QED  BY <2>3, <2>4, <2>5, <2>6, <2>7
<1>. QED  BY <1>1, <1>2, <1>3 DEF Write

LEMMA RenderKeeps ==
  ASSUME Inv, NEW m \in Masters, Render(m)
  PROVE  Inv'
<1>. USE DEF Inv
<1>1. receipt' = [receipt EXCEPT ![m] = project] /\ receipt[m] = None
      /\ UNCHANGED <<project, run, evidence, calls, task, withdrawn>>
  BY DEF Render
<1>2. TypeOK' /\ TaskInv' /\ LockInv' /\ AskInv' /\ PastInv'
  BY <1>1 DEF TypeOK, TaskInv, LockInv, AskInv, PastAll, PastInv
\* What evidence speaks of has a receipt, so it is not the export rendered now.
<1>3. ASSUME NEW r \in Run, NEW e \in Evidence \union {None}, EarnedBy(r, With(e))
      PROVE  EarnedBy(r, With(e))'
  <2>1. \A x \in With(e) : x.revision \in Revisions
    BY DEF With, Evidence, TypeOK
  <2>2. r.master # None => r.master # m
    <3>. SUFFICES ASSUME r.master = m, r.master # None  PROVE FALSE
      OBVIOUS
    <3>1. Says("acceptance", m, None) \in With(e)
      BY <1>1, <1>3 DEF EarnedBy
    <3>. QED  BY <2>1, <3>1, NoneAssumption, BoundAssumption DEF Says, Revisions
  <2>. QED  BY <1>1, <1>3, <2>2 DEF EarnedBy, With, Run, TypeOK
<1>4. With(None) = evidence /\ With(None)' = evidence'
  BY NoneAssumption DEF With
<1>5. EarnedBy(run, evidence)'
  BY <1>1, <1>3, <1>4 DEF EarnedInv, TypeOK
<1>6. \A t \in Threads : calls[t].run # None => EarnedBy(calls[t].run, With(calls[t].evidence))'
  <2>. SUFFICES ASSUME NEW t \in Threads, calls[t].run # None
                PROVE  EarnedBy(calls[t].run, With(calls[t].evidence))'
    BY <1>1
  <2>1. calls[t].run \in Run /\ calls[t].evidence \in Evidence \union {None}
    BY DEF TypeOK, Call
  <2>2. EarnedBy(calls[t].run, With(calls[t].evidence))
    BY DEF EarnedInv
  <2>. QED  BY <1>1, <1>3, <2>1, <2>2
<1>. QED  BY <1>1, <1>2, <1>5, <1>6 DEF EarnedInv

LEMMA CrashKeeps ==
  ASSUME Inv, Crash
  PROVE  Inv'
<1>1. Idle \in Call /\ Idle.locks = {} /\ Idle.project = None /\ Idle.run = None
      /\ Idle.asks = None
  BY DEF Idle, Call
<1>. HIDE DEF Idle
<1>. QED  BY <1>1, EmptyTask
          DEF Crash, Inv, TypeOK, TaskInv, LockInv, AskInv, PastAll, EarnedInv, EarnedBy, PastInv

LEMMA InitHolds == Init => Inv
<1>. SUFFICES ASSUME Init  PROVE Inv
  OBVIOUS
<1>1. Idle \in Call /\ Idle.locks = {} /\ Idle.project = None /\ Idle.run = None
      /\ Idle.asks = None
  BY DEF Idle, Call
<1>2. run \in Run /\ run.master = None /\ run.state # "accepted"
  BY StartAssumption, BoundAssumption DEF Init, Run, Revisions
<1>. HIDE DEF Idle
<1>. QED  BY <1>1, <1>2, EmptyTask, BoundAssumption
          DEF Init, Inv, TypeOK, TaskInv, LockInv, AskInv, PastAll, EarnedInv, EarnedBy, PastInv, Revisions

LEMMA NextKeeps ==
  ASSUME Inv, [Next]_vars
  PROVE  Inv'
<1>1. CASE Crash
  BY <1>1, CrashKeeps
<1>2. CASE \E m \in Masters : Render(m)
  BY <1>2, RenderKeeps
<1>3. ASSUME NEW t \in Threads, Write(t)  PROVE Inv'
  BY <1>3, WritesKeep
<1>4. ASSUME NEW t \in Threads, Begun(t) \/ Kept, TasksKept  PROVE Inv'
  <2>1. CASE Begun(t)
    BY <1>4, <2>1, BegunKeeps
  <2>2. CASE Kept
    BY <1>4, <2>2 DEF Kept, TasksKept, Inv, TypeOK, TaskInv, LockInv, AskInv, PastAll, EarnedInv,
                      EarnedBy, With, PastInv
  <2>. QED  BY <1>4, <2>1, <2>2
<1>5. CASE UNCHANGED vars
  BY <1>5 DEF vars, Inv, TypeOK, TaskInv, LockInv, AskInv, PastAll, EarnedInv, EarnedBy, With, PastInv
<1>. QED  BY <1>1, <1>2, <1>3, <1>4, <1>5, DecisionsBegin DEF Next

THEOREM Invariance == Spec => []Inv
<1>1. Inv /\ [Next]_vars => Inv'
  BY NextKeeps
<1>. QED  BY InitHolds, <1>1, PTL DEF Spec

\* No interleaving of calls, stale run written back, crash between the files of
\* a call, or move through the gate without evidence has a client shown a master
\* that lacks machine evidence of the project's revision, or shown as accepted
\* one that no reviewer approved.
THEOREM ReviewedMastersAreEarned == Spec => []ShownIsEarned
<1>1. Inv => ShownIsEarned
  BY DEF Inv, EarnedInv, EarnedBy, ShownIsEarned, Shown, ValidCandidate
<1>. QED  BY <1>1, Invariance, PTL

\* After a request for changes that raised the revision while no other call held
\* the project's lock, no master of its revision or of one before is shown,
\* although add_evidence may write back a run that still names it, and
\* observations and bindings may follow.
THEOREM WithdrawalsHold == Spec => []WithdrawnStaysHidden
<1>1. Inv => WithdrawnStaysHidden
  BY DEF Inv, PastInv, PastAll, WithdrawnStaysHidden, Shown, ValidCandidate
<1>. QED  BY <1>1, Invariance, PTL
=============================================================================
