------------------------------ MODULE TurnLoop ------------------------------
(***************************************************************************)
(* When a turn stops: AgentLoopV3._drive_turn (gemia/agent_loop_v3.py) with *)
(* the acceptance ledger (TurnLedger) and the tool router's expansion       *)
(* (gemia/tool_router.py).  HTTP threads toggle plan mode while the turn    *)
(* runs, so every reading of it is a choice.  What the messages hold is in  *)
(* Conversation, what calls cost in MediaBudget and Subtasks.               *)
(***************************************************************************)
EXTENDS TurnLedger

CONSTANTS
  PlanGateLimit,        \* PLAN_GATE_TURN_LIMIT
  DoomThreshold,        \* _DOOM_LOOP_THRESHOLD
  AdjacentPacks,        \* packs the router can still add before the full surface
  MaxCalls, MaxFailures \* bounds: calls in a batch, failures a ledger holds

VARIABLES
  phase,     \* "idle", "asking" the provider, in a "batch"
  turn,      \* the locals of _drive_turn, NoTurn between turns
  batch,     \* the calls left of the batch, and what its end compares
  ledger,    \* the turn's ledger
  made, fit, \* the turn's assets; those that meet the criterion in fact
  ended      \* how the last turn ended

vars == <<phase, turn, batch, ledger, made, fit, ended>>

FreshRouter == [count |-> 0, packs |-> AdjacentPacks, full |-> FALSE]
NoTurn ==
  [enforced  |-> FALSE, router |-> FreshRouter,
   idle      |-> 0,      \* full_surface_no_progress_batches
   gated     |-> FALSE,  \* completion_check_done
   shown     |-> {},     \* the assets the gate message shows until it is consumed
   probed    |-> {},     \* host_probed_assets
   same      |-> 0,      \* identical calls dispatched in a row
   planGates |-> 0]
NoBatch == [left |-> 0, before |-> <<>>, mutated |-> FALSE, failed |-> FALSE]

\* Faulty variant: without a pack left to add nothing is expanded.
ExpandedDeadEnd(r) ==
  IF r.full THEN r
  ELSE IF r.count = 0
       THEN [r EXCEPT !.count = IF r.packs > 0 THEN 1 ELSE 0, !.packs = IF @ > 0 THEN @ - 1 ELSE 0]
       ELSE [r EXCEPT !.count = 2, !.full = TRUE]

\* note_no_progress; its stage is "adjacent" or "full" unless the surface was full.
Expanded(r) ==
  IF r.full THEN r
  ELSE IF r.count = 0 /\ r.packs > 0
       THEN [r EXCEPT !.count = 1, !.packs = @ - 1]
       ELSE [r EXCEPT !.count = 2, !.full = TRUE]

-----------------------------------------------------------------------------
\* run_turn and _drive_turn up to the loop; the request may continue a job, and
\* the ledger of chat, or of a turn begun in plan mode, is not enforced.
StartTurn ==
  /\ phase = "idle"
  /\ phase' = "asking"
  /\ \E enforced \in BOOLEAN : turn' = [NoTurn EXCEPT !.enforced = enforced]
  /\ \E pending \in SUBSET Jobs : ledger' = EmptyLedger(pending)
  /\ batch' = NoBatch /\ made' = {} /\ fit' = {}
  /\ ended' = "running"

End(how) == phase' = "idle" /\ turn' = NoTurn /\ batch' = NoBatch /\ ended' = how
GoOn == UNCHANGED <<phase, ended>>

\* The request is over: a gate message that held images is recorded as
\* host_visual_review.  A ledger that is not enforced is kept and never asked.
Reviewed ==
  IF turn.shown = {} \/ ~turn.enforced THEN ledger
  ELSE RecordOutcome(ledger, Outcome("look", "success", None, None, turn.shown, FALSE, TRUE), fit)

\* The stream reports an error, or the turn is cancelled.
StreamFails ==
  /\ phase = "asking"
  /\ End("error")
  /\ UNCHANGED <<ledger, made, fit>>

\* The model calls no tool.  _host_verify_objective_criteria probes the
\* deliverables it has not probed since the last mutation (a probe may fail);
\* then the pre-delivery gate applies once, and an open ledger expands the route.
Answer ==
  /\ phase = "asking"
  /\ \E ok \in SUBSET (IF turn.enforced THEN Reviewed.finals \ turn.probed ELSE {}) :
       LET host   == Outcome("probe", "success", None, None, ok, FALSE, TRUE)
           open   == turn.enforced /\ ~Complete(ledger')
           router == IF open THEN Expanded(turn.router) ELSE turn.router
           goneOn == [turn EXCEPT !.probed = @ \union ok, !.router = router, !.shown = {}]
       IN  /\ ledger' = IF ok = {} THEN Reviewed ELSE RecordOutcome(Reviewed, host, fit)
           /\ \/ /\ ~turn.gated
                 /\ \E shown \in SUBSET made :
                      turn' = [goneOn EXCEPT !.gated = TRUE, !.shown = shown]
                 /\ GoOn /\ UNCHANGED batch
              \/ /\ turn.gated /\ open /\ ~turn.router.full
                 /\ turn' = goneOn
                 /\ GoOn /\ UNCHANGED batch
              \/ turn.gated /\ open /\ turn.router.full /\ End("incomplete")
              \/ turn.gated /\ ~open /\ turn.enforced /\ End("complete")
              \/ ~turn.enforced /\ End("answered")
  /\ UNCHANGED <<made, fit>>

\* The model calls n tools.
CallTools ==
  /\ phase = "asking"
  /\ phase' = "batch"
  /\ ledger' = Reviewed
  /\ turn' = [turn EXCEPT !.shown = {}]
  /\ \E n \in 1..MaxCalls :
       batch' = [NoBatch EXCEPT !.left = n, !.before = Signature(ledger')]
  /\ UNCHANGED <<made, fit, ended>>

-----------------------------------------------------------------------------
(* One call of the batch.                                                  *)

Mutates(o) == o.state = "success" /\ GoalMutation(o)
Called(o) == [batch EXCEPT !.left = @ - 1, !.mutated = @ \/ Mutates(o)]
Record(o, fits) ==
  /\ ledger' = IF turn.enforced THEN RecordOutcome(ledger, o, fits) ELSE ledger
  /\ Cardinality(ledger'.failures) <= MaxFailures

Targets == made \union {Source}

FailuresOf(tools, targets, blocking) ==
  {Failed(t, x, None, blocking) : t \in tools, x \in targets}

\* Rejected before any dispatch: unreadable arguments (their target is lost
\* with them), an unknown tool; a hidden tool, the budget or the visual cap,
\* which do not block.
Rejections ==
  FailuresOf({"edit", "probe", "unknown"}, {None}, TRUE)
    \union FailuresOf({"edit", "look"}, Targets, FALSE)

\* Or the dispatch fails: an exception, or a result that is a failure.
DispatchFailures ==
  FailuresOf({"edit", "look", "probe"}, Targets, TRUE)
    \union FailuresOf({"generate"}, {None}, TRUE)
    \union {Failed("poll", None, j, TRUE) : j \in ledger.jobs}

CallFails ==
  /\ phase = "batch" /\ batch.left > 0
  /\ \E o \in Rejections \union DispatchFailures :
       Record(o, fit) /\ batch' = [Called(o) EXCEPT !.failed = TRUE]
  /\ GoOn /\ UNCHANGED <<turn, made, fit>>

\* The plan gate; at its limit the rest of the batch is cancelled with it.
PlanGated ==
  /\ phase = "batch" /\ batch.left > 0
  /\ \E x \in Targets :
       LET o == Failed("edit", x, None, FALSE)
       IN  /\ Record(o, fit)
           /\ IF turn.planGates + 1 >= PlanGateLimit
              THEN End("plan_gate_limit")
              ELSE /\ batch' = [Called(o) EXCEPT !.failed = TRUE]
                   /\ turn' = [turn EXCEPT !.planGates = @ + 1]
                   /\ GoOn
  /\ UNCHANGED <<made, fit>>

\* A dispatch that is no failure counts for the repeated-call guard, whatever
\* its result; at the threshold the rest of the batch is cancelled.  A mutation
\* of the deliverable makes the host probe again.
Dispatched(o, fits) ==
  /\ phase = "batch" /\ batch.left > 0
  /\ Record(o, fits)
  /\ \E again \in BOOLEAN :
       LET same == IF again THEN turn.same + 1 ELSE 1
       IN  /\ again => turn.same > 0
           /\ IF same >= DoomThreshold
              THEN End("doom_loop")
              ELSE /\ turn' = [turn EXCEPT !.same = same,
                                           !.probed = IF Mutates(o) THEN {} ELSE @]
                   /\ batch' = Called(o)
                   /\ GoOn

\* A new asset, as a deliverable or an intermediate, that meets the criterion or not.
Produces(tool, target, job, final) ==
  \E a \in Assets \ made, fits \in BOOLEAN :
    /\ made' = made \union {a}
    /\ fit' = IF fits THEN fit \union {a} ELSE fit
    /\ Dispatched(Outcome(tool, "success", target, job, {a}, final, TRUE), fit')

Reports(o) == Dispatched(o, fit) /\ UNCHANGED <<made, fit>>

\* Generation and editing; generation may only submit a job.
DispatchMutation ==
  \/ \E final \in BOOLEAN :
       \/ Produces("generate", None, None, final)
       \/ \E x \in Targets : Produces("edit", x, None, final)
  \/ \E j \in Jobs \ ledger.jobs :
       Reports(Outcome("generate", "pending", None, j, {}, FALSE, TRUE))

\* Probing or looking at an asset, polling a job, and every other read.
DispatchRead ==
  \/ \E tool \in {"probe", "look"}, x \in Targets :
       Reports(Outcome(tool, "success", x, None, {x}, FALSE, TRUE))
  \/ \E j \in ledger.jobs :
       \/ Produces("poll", None, j, TRUE)
       \/ Reports(Outcome("poll", "pending", None, j, {}, FALSE, TRUE))
  \/ Reports(Outcome("read", "noop", None, None, {}, FALSE, TRUE))

\* After the batch: progress resets the router, failures only the idle count,
\* and without either the router expands, until the full surface has idled twice.
Progress == batch.mutated \/ Signature(ledger) # batch.before

EndBatch ==
  /\ phase = "batch" /\ batch.left = 0
  /\ LET idles == turn.enforced /\ ~Progress /\ ~batch.failed
     IN  IF idles /\ turn.router.full /\ turn.idle > 0
         THEN End("incomplete")
         ELSE /\ turn' =
                   IF idles THEN [turn EXCEPT !.router = Expanded(@),
                                              !.idle = IF turn.router.full THEN @ + 1 ELSE @]
                   ELSE IF turn.enforced /\ Progress
                   THEN [turn EXCEPT !.router.count = 0, !.idle = 0]
                   ELSE [turn EXCEPT !.idle = 0]
              /\ phase' = "asking" /\ batch' = NoBatch /\ UNCHANGED ended
  /\ UNCHANGED <<ledger, made, fit>>

Init ==
  /\ phase = "idle" /\ turn = NoTurn /\ batch = NoBatch /\ ledger = EmptyLedger({})
  /\ made = {} /\ fit = {} /\ ended = "none"

\* The turn itself: the provider and the tools answer.
Step ==
  \/ StreamFails \/ Answer \/ CallTools
  \/ CallFails \/ PlanGated \/ DispatchMutation \/ DispatchRead
  \/ EndBatch

Next == StartTurn \/ Step

Spec == Init /\ [][Next]_vars /\ WF_vars(Step)

-----------------------------------------------------------------------------
\* turn_complete of an actionable turn is never false: the deliverables are as
\* many as wanted and meet the criterion in fact.
CompleteIsTrue ==
  ended = "complete" => Cardinality(ledger.finals) = Wanted /\ ledger.finals \subseteq fit

\* A turn ends unless again and again a batch changes the ledger or has a failed
\* call, or the ledger is not enforced: talking and reading cannot go on forever.
TurnsEnd ==
  \/ []<>(phase = "idle")
  \/ []<>(phase = "batch" /\ batch.left = 0 /\ (Progress \/ batch.failed \/ ~turn.enforced))
=============================================================================
