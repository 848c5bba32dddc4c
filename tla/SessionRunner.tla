---------------------------- MODULE SessionRunner ----------------------------
(***************************************************************************)
(* One session of gemia/session_manager.py: HTTP and MCP threads around the *)
(* event loop that runs the agent.  A section under _state_lock is one      *)
(* step, and so is what the loop runs between two awaits; everything a      *)
(* thread reads in one step may be stale in its next one.                   *)
(*                                                                         *)
(* A turn is scheduled with run_coroutine_threadsafe: the loop runs the     *)
(* coroutine, the thread keeps a concurrent Future that is settled one loop *)
(* callback after the coroutine ended.  Cancelling that Future succeeds     *)
(* until it is settled and reaches the coroutine at its next await.         *)
(***************************************************************************)
EXTENDS Integers, FiniteSets

CONSTANTS
  MaxTurns,    \* bound: turns submitted
  Verbs,       \* run_verb calls of MCP threads
  Mutating,    \* the verbs outside MCP_READ_ONLY
  Edits,       \* run_project_edit calls of HTTP threads
  Stoppers     \* cancel_turn calls of HTTP threads

ASSUME CallAssumption ==
  /\ MaxTurns \in Nat
  /\ Mutating \subseteq Verbs
  /\ Verbs \intersect Edits = {}

Turns == 1 .. MaxTurns
NoTurn == 0
Calls == Verbs \union Edits

VARIABLES
  inProgress,  \* _turn_in_progress
  turnFuture,  \* _turn_future: the turn whose Future it holds
  turn,        \* how far each turn is
  future,      \* the Future of each turn
  kept,        \* turns whose submitter has assigned _turn_future
  planMode,    \* the agent's plan_mode
  caller,      \* what the thread of each call is doing
  task,        \* the coroutine of each call on the loop
  committed,   \* verbs whose actuals went to the budget
  stopper,     \* what each stop request has read
  loop         \* the event loop

turnVars == <<inProgress, turnFuture, turn, future, kept>>
callVars == <<caller, task, committed>>
vars == <<inProgress, turnFuture, turn, future, kept, planMode,
          caller, task, committed, stopper, loop>>

\* "claimed": the flag is set, the coroutine is not scheduled; "lost": it never
\* will run, because the loop was closed or the task cancelled first.
TurnStates == {"new", "claimed", "queued", "running", "over", "lost"}
Active(t) == turn[t] \in {"claimed", "queued", "running"}
Open == loop \in {"open", "closing"}

-----------------------------------------------------------------------------
(* submit_turn.                                                            *)

\* Faulty variant: the flag is tested before the lock is taken.
SubmitUntested(t) ==
  /\ turn[t] = "new"
  /\ \A u \in 1 .. t - 1 : turn[u] # "new"
  /\ inProgress' = TRUE
  /\ turn' = [turn EXCEPT ![t] = "claimed"]
  /\ UNCHANGED <<turnFuture, future, kept, planMode, callVars, stopper, loop>>

\* Test and set under the lock; a second submission is refused with 409.
Submit(t) ==
  /\ turn[t] = "new"
  /\ \A u \in 1 .. t - 1 : turn[u] # "new"
  /\ ~inProgress
  /\ inProgress' = TRUE
  /\ turn' = [turn EXCEPT ![t] = "claimed"]
  /\ UNCHANGED <<turnFuture, future, kept, planMode, callVars, stopper, loop>>

\* run_coroutine_threadsafe raises on a closed loop, and the flag stays set.
Schedule(t) ==
  /\ turn[t] = "claimed"
  /\ turn' = [turn EXCEPT ![t] = IF loop = "closed" THEN "lost" ELSE "queued"]
  /\ future' = [future EXCEPT ![t] = IF loop = "closed" THEN @ ELSE "pending"]
  /\ UNCHANGED <<inProgress, turnFuture, kept, planMode, callVars, stopper, loop>>

\* The assignment comes after the coroutine may have run, and even ended.
KeepFuture(t) ==
  /\ future[t] # "none"
  /\ t \notin kept
  /\ turnFuture' = t
  /\ kept' = kept \union {t}
  /\ UNCHANGED <<inProgress, turn, future, planMode, callVars, stopper, loop>>

-----------------------------------------------------------------------------
(* The turn on the loop.                                                   *)

StartTurn(t) ==
  /\ Open
  /\ turn[t] = "queued"
  /\ turn' = [turn EXCEPT ![t] = "running"]
  /\ UNCHANGED <<inProgress, turnFuture, future, kept, planMode, callVars, stopper, loop>>

\* Faulty variant: the flag is cleared on the normal way out only.
EndTurnUnguarded(t) ==
  /\ Open
  /\ turn[t] = "running"
  /\ turn' = [turn EXCEPT ![t] = "over"]
  /\ inProgress' = (future[t] = "cancelled")
  /\ UNCHANGED <<turnFuture, future, kept, planMode, callVars, stopper, loop>>

\* run_turn returns, raises or unwinds; its finally block clears the flag.
EndTurn(t) ==
  /\ Open
  /\ turn[t] = "running"
  /\ turn' = [turn EXCEPT ![t] = "over"]
  /\ inProgress' = FALSE
  /\ UNCHANGED <<turnFuture, future, kept, planMode, callVars, stopper, loop>>

\* The loop callback that settles the concurrent Future; close cancels tasks.
SettleFuture(t) ==
  /\ Open
  /\ turn[t] \in {"over", "lost"}
  /\ future[t] = "pending"
  /\ \E end \in {"finished", "cancelled"} :
       /\ end = "cancelled" => loop = "closing"
       /\ turn[t] = "lost" => end = "cancelled"
       /\ future' = [future EXCEPT ![t] = end]
  /\ UNCHANGED <<inProgress, turnFuture, turn, kept, planMode, callVars, stopper, loop>>

-----------------------------------------------------------------------------
(* cancel_turn.                                                            *)

\* Future and flag are read under the lock.
StopRead(s) ==
  /\ stopper[s] = [pc |-> "new"]
  /\ stopper' = [stopper EXCEPT ![s] =
       IF inProgress /\ turnFuture # NoTurn
       THEN [pc |-> "read", turn |-> turnFuture]
       ELSE [pc |-> "refused"]]
  /\ UNCHANGED <<turnVars, planMode, callVars, loop>>

\* Future.cancel; then self._emit, which a SessionRunner does not have, raises.
StopCancel(s) ==
  LET t == stopper[s].turn
  IN  /\ stopper[s].pc = "read"
      /\ future' = [future EXCEPT ![t] = IF @ = "finished" THEN @ ELSE "cancelled"]
      /\ stopper' = [stopper EXCEPT ![s] =
           [pc |-> IF future[t] = "finished" THEN "refused" ELSE "raised"]]
      /\ UNCHANGED <<inProgress, turnFuture, turn, kept, planMode, callVars, loop>>

-----------------------------------------------------------------------------
(* run_verb and run_project_edit.                                          *)

SetPlanMode == planMode' = ~planMode /\ UNCHANGED <<turnVars, callVars, stopper, loop>>

\* The turn-collision guard: turn_in_progress is read under the lock, once.
VerbCheck(v) ==
  /\ caller[v] = "new"
  /\ caller' = [caller EXCEPT ![v] =
       IF loop = "closed" \/ (v \in Mutating /\ inProgress) THEN "refused" ELSE "checked"]
  /\ UNCHANGED <<turnVars, planMode, task, committed, stopper, loop>>

\* (Mutating stands for the verbs plan mode blocks, too.)
\* The plan gate, then the budget gate; plan_mode is read without a lock.
VerbGate(v) ==
  /\ caller[v] = "checked"
  /\ \E affordable \in BOOLEAN :
       caller' = [caller EXCEPT ![v] =
         IF (planMode /\ v \in Mutating) \/ ~affordable THEN "refused" ELSE "cleared"]
  /\ UNCHANGED <<turnVars, planMode, task, committed, stopper, loop>>

\* tool_exec_start, then the coroutine is scheduled.
VerbDispatch(v) ==
  /\ caller[v] = "cleared"
  /\ caller' = [caller EXCEPT ![v] = IF loop = "closed" THEN "refused" ELSE "waiting"]
  /\ task' = [task EXCEPT ![v] = IF loop = "closed" THEN @ ELSE "queued"]
  /\ UNCHANGED <<turnVars, planMode, committed, stopper, loop>>

\* A user edit has no gate: it only hops onto the loop.
EditDispatch(e) ==
  /\ caller[e] = "new"
  /\ caller' = [caller EXCEPT ![e] = IF loop = "closed" THEN "refused" ELSE "waiting"]
  /\ task' = [task EXCEPT ![e] = IF loop = "closed" THEN @ ELSE "queued"]
  /\ UNCHANGED <<turnVars, planMode, committed, stopper, loop>>

TaskStart(c) ==
  /\ Open
  /\ task[c] = "queued"
  /\ task' = [task EXCEPT ![c] = "running"]
  /\ UNCHANGED <<turnVars, planMode, caller, committed, stopper, loop>>

TaskEnd(c) ==
  /\ Open
  /\ task[c] = "running"
  /\ task' = [task EXCEPT ![c] = "finished"]
  /\ UNCHANGED <<turnVars, planMode, caller, committed, stopper, loop>>

\* The result or the exception arrives in time; actuals are committed.  The
\* CancelledError of a concurrent Future is an Exception like any other, so a
\* verb that close cancelled is charged, even before its first step.
CallReturn(c) ==
  /\ caller[c] = "waiting"
  /\ task[c] \in {"finished", "cancelled"}
  /\ caller' = [caller EXCEPT ![c] = "returned"]
  /\ committed' = IF c \in Verbs THEN committed \union {c} ELSE committed
  /\ UNCHANGED <<turnVars, planMode, task, stopper, loop>>

\* Faulty variant: a verb that timed out is charged as well.
CallTimeoutCommitting(c) ==
  /\ caller[c] = "waiting"
  /\ caller' = [caller EXCEPT ![c] = "timedOut"]
  /\ committed' = IF c \in Verbs THEN committed \union {c} ELSE committed
  /\ UNCHANGED <<turnVars, planMode, task, stopper, loop>>

\* Faulty variant: no timeout before the coroutine has started.
CallTimeoutStarted(c) ==
  /\ caller[c] = "waiting"
  /\ task[c] = "running"
  /\ caller' = [caller EXCEPT ![c] = "timedOut"]
  /\ UNCHANGED <<turnVars, planMode, task, committed, stopper, loop>>

\* The wait runs out; the coroutine stays on the loop and is not charged.  The
\* same branch takes a TimeoutError that the verb itself raised.
CallTimeout(c) ==
  /\ caller[c] = "waiting"
  /\ caller' = [caller EXCEPT ![c] = "timedOut"]
  /\ UNCHANGED <<turnVars, planMode, task, committed, stopper, loop>>

-----------------------------------------------------------------------------
(* close.                                                                  *)

\* _cancel_pending cancels every task of the loop.  A coroutine between two
\* awaits of its own unwinds when the loop comes to it (EndTurn, TaskEnd); one
\* that has not had its first step is never entered, so no finally block of it
\* runs.  What was scheduled and has no task yet is not cancelled.
CloseBegin ==
  /\ loop = "open"
  /\ loop' = "closing"
  /\ \E lost \in SUBSET {t \in Turns : turn[t] = "queued"},
        gone \in SUBSET {c \in Calls : task[c] = "queued"} :
       /\ turn' = [t \in Turns |-> IF t \in lost THEN "lost" ELSE turn[t]]
       /\ task' = [c \in Calls |-> IF c \in gone THEN "cancelled" ELSE task[c]]
  /\ UNCHANGED <<inProgress, turnFuture, future, kept, planMode, caller, committed, stopper>>

\* loop.stop, after _cancel_pending or after five seconds in which the loop did
\* not come to it: what is scheduled or unwinding stays as it is.
CloseLoop ==
  /\ Open
  /\ loop' = "closed"
  /\ UNCHANGED <<turnVars, planMode, callVars, stopper>>

-----------------------------------------------------------------------------

Init ==
  /\ inProgress = FALSE
  /\ turnFuture = NoTurn
  /\ turn = [t \in Turns |-> "new"]
  /\ future = [t \in Turns |-> "none"]
  /\ kept = {}
  /\ planMode = FALSE
  /\ caller = [c \in Calls |-> "new"]
  /\ task = [c \in Calls |-> "none"]
  /\ committed = {}
  /\ stopper = [s \in Stoppers |-> [pc |-> "new"]]
  /\ loop = "open"

Next ==
  \/ \E t \in Turns :
       Submit(t) \/ Schedule(t) \/ KeepFuture(t) \/ StartTurn(t) \/ EndTurn(t) \/ SettleFuture(t)
  \/ \E s \in Stoppers : StopRead(s) \/ StopCancel(s)
  \/ \E v \in Verbs : VerbCheck(v) \/ VerbGate(v) \/ VerbDispatch(v)
  \/ \E e \in Edits : EditDispatch(e)
  \/ \E c \in Calls : TaskStart(c) \/ TaskEnd(c) \/ CallReturn(c) \/ CallTimeout(c)
  \/ SetPlanMode \/ CloseBegin \/ CloseLoop

\* The loop runs what is scheduled, turns and verbs end, and threads go on.
Fairness ==
  /\ \A t \in Turns :
       WF_vars(Schedule(t)) /\ WF_vars(StartTurn(t)) /\ WF_vars(EndTurn(t))
  /\ \A c \in Calls :
       /\ WF_vars(TaskStart(c)) /\ WF_vars(TaskEnd(c))
       /\ WF_vars(CallReturn(c) \/ CallTimeout(c))
  /\ \A v \in Verbs : WF_vars(VerbGate(v)) /\ WF_vars(VerbDispatch(v))

Spec == Init /\ [][Next]_vars /\ Fairness

-----------------------------------------------------------------------------
(* Properties.                                                             *)

\* Every variable keeps its shape.
TypeOK ==
  /\ inProgress \in BOOLEAN
  /\ turnFuture \in Turns \union {NoTurn}
  /\ turn \in [Turns -> TurnStates]
  /\ future \in [Turns -> {"none", "pending", "cancelled", "finished"}]
  /\ kept \subseteq Turns
  /\ planMode \in BOOLEAN
  /\ caller \in [Calls -> {"new", "checked", "cleared", "refused", "waiting", "returned", "timedOut"}]
  /\ task \in [Calls -> {"none", "queued", "running", "finished", "cancelled"}]
  /\ committed \subseteq Verbs
  /\ stopper \in [Stoppers -> [pc : {"new", "refused", "raised"}]
                             \union [pc : {"read"}, turn : Turns]]
  /\ loop \in {"open", "closing", "closed"}

\* Two turns of a session are never in flight together, whichever threads
\* submit, whenever the previous one is cancelled or ends.
OneTurn == \A t, u \in Turns : Active(t) /\ Active(u) => t = u

\* The flag that refuses a second turn is up exactly while one is in flight.
FlagTracksTurn ==
  loop = "open" => (inProgress <=> \E t \in Turns : Active(t))

\* A refused verb never reaches the loop, and nothing is charged while it may
\* still run or land ("Do NOT commit budget -- the dispatch is still running"):
\* a verb is charged to a caller who has its end, and as long as the session is
\* open that end follows a run.  Closing it charges verbs that never ran
\* (README, disagreements).
VerbAccounting ==
  /\ \A v \in Verbs : caller[v] = "refused" => task[v] = "none"
  /\ \A v \in committed :
       /\ caller[v] = "returned"
       /\ task[v] \in {"finished", "cancelled"}
       /\ task[v] = "cancelled" => loop # "open"

\* A turn that was submitted always frees the session again, cancelled or not.
TurnSlotFrees == inProgress ~> (~inProgress \/ loop # "open")

\* A call that passed its gates is always answered, even when the loop it waits
\* for is closed under it.
CallsAreAnswered ==
  \A c \in Calls : caller[c] = "waiting" ~> caller[c] \in {"returned", "timedOut"}
=============================================================================
