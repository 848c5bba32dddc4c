------------------------------- MODULE Subtasks -------------------------------
(***************************************************************************)
(* One spawn_subtasks call of gemia/subtasks.py on the session's event      *)
(* loop, and the session budget of gemia/budget_guard.py it draws on.       *)
(*                                                                         *)
(* The dispatcher cuts the budget into slices, reserves one per child,      *)
(* starts the children as tasks, waits for them under a deadline, and       *)
(* settles in a finally block.  Nothing else runs on the loop between two   *)
(* awaits, but MCP threads (SessionRunner.run_verb) use the same budget.    *)
(*                                                                         *)
(* The two axes of the budget are alike but for the charge, and a behaviour *)
(* is about one of them.  A call, a child's or an MCP verb's, costs the     *)
(* dollars it was estimated at, but the seconds it took.  Amounts are whole *)
(* numbers of a small unit, and a share of the pool is rounded down to one. *)
(***************************************************************************)
EXTENDS Integers, FiniteSets, FiniteSetsExt

CONSTANTS
  N,            \* children of the batch (at most MAX_CHILDREN)
  MaxSpend,     \* max_usd or max_seconds
  Floor,        \* PARENT_BUDGET_FLOOR * MaxSpend
  Requested,    \* [1..N -> Nat]: max_cost_usd of each subtask
  Estimates,    \* what tool calls are estimated at
  Durations,    \* what calls may really take (seconds axis)
  Tick,         \* what BudgetGuard.snapshot rounds seconds to, in these units
  McpVerbs      \* run_verb calls on MCP threads

ASSUME BudgetAssumption ==
  /\ N \in Nat \ {0} /\ MaxSpend \in Nat /\ Floor \in 0 .. MaxSpend
  /\ Requested \in [1 .. N -> Nat]
  /\ Estimates \subseteq Nat /\ Durations \subseteq Nat /\ Tick \in Nat \ {0}

Children == 1 .. N

VARIABLES
  axis,        \* "usd" or "seconds"; never changes
  spent,       \* the session guard's spent_usd or spent_seconds
  start,       \* its value when the batch began
  pc,          \* where the dispatcher is
  next,        \* the child it launches next
  slice,       \* slice_usd_base / slice_sec
  reserved,    \* reservation of each child: its amount, or 0
  settled,     \* children whose reservation was settled
  child,       \* the task of each child
  calling,     \* estimate of the tool call a child is in
  childSpent,  \* each child's own guard
  started,     \* children that emitted subagent_start
  results,     \* number of subagent_result events of each child
  mcp          \* each MCP verb: progress, its estimate, what it loaded of spent

guard == <<axis, spent, start>>
batch == <<pc, next, slice, reserved, settled>>
children == <<child, calling, childSpent, started, results>>
spawnVars == <<axis, spent, start, pc, next, slice, reserved, settled,
               child, calling, childSpent, started, results, mcp>>

Smaller(a, b) == IF a < b THEN a ELSE b
Pool == MaxSpend - spent - Floor

\* What a child may ask for bounds its dollars only.
Slice(c) == IF axis = "usd" THEN Smaller(Requested[c], slice) ELSE slice

\* A child's guard as its snapshot tells it: dollars to the last unit, seconds
\* rounded to the nearest tick.
Snapshot == [c \in Children |->
  IF axis = "usd" THEN childSpent[c]
  ELSE Tick * ((childSpent[c] + (Tick \div 2)) \div Tick)]

Alive == {"task", "running", "calling"}
Done == {"ended", "failed", "cancelled", "dropped"}
Launched == {c \in Children : child[c] # "none"}
LoopIsFree == pc \in {"wait", "drain"}        \* the dispatcher is at an await

-----------------------------------------------------------------------------
(* The dispatcher up to its first await.                                   *)

\* _slice_budget, with its refusal.
SliceBudget ==
  /\ pc = "idle"
  /\ IF Pool < 0 \/ (axis = "seconds" /\ Pool = 0)
     THEN pc' = "returned" /\ UNCHANGED slice
     ELSE pc' = "check" /\ slice' = Pool \div N
  /\ start' = spent
  /\ UNCHANGED <<axis, spent, next, reserved, settled, children, mcp>>

\* reserve_amount: the check.  Refused, the dispatcher stops launching.
ReserveCheck ==
  /\ pc = "check"
  /\ pc' = IF next > N \/ spent + Slice(next) > MaxSpend THEN "wait" ELSE "add"
  /\ UNCHANGED <<guard, next, slice, reserved, settled, children, mcp>>

\* reserve_amount: the add, after a BudgetReservation was constructed.
ReserveAdd ==
  /\ pc = "add"
  /\ spent' = spent + Slice(next)
  /\ reserved' = [reserved EXCEPT ![next] = Slice(next)]
  /\ pc' = "construct"
  /\ UNCHANGED <<axis, start, next, slice, settled, children, mcp>>

\* SubtaskLoop() and ensure_future; an exception goes to the finally block.
Construct ==
  /\ pc = "construct"
  /\ \/ /\ child' = [child EXCEPT ![next] = "task"]
        /\ next' = next + 1
        /\ pc' = "check"
     \/ /\ pc' = "drain"
        /\ UNCHANGED <<child, next>>
  /\ UNCHANGED <<guard, slice, reserved, settled, calling, childSpent, started, results, mcp>>

-----------------------------------------------------------------------------
(* A child on the loop.                                                    *)

ChildStart(c) ==
  /\ pc = "wait"
  /\ child[c] = "task"
  /\ child' = [child EXCEPT ![c] = "running"]
  /\ started' = started \union {c}
  /\ UNCHANGED <<guard, batch, calling, childSpent, results, mcp>>

\* Faulty variant: the call is not held against the child's slice.
ChildCallUngated(c, estimate) ==
  /\ pc = "wait"
  /\ child[c] = "running"
  /\ child' = [child EXCEPT ![c] = "calling"]
  /\ calling' = [calling EXCEPT ![c] = estimate]
  /\ childSpent[c] <= MaxSpend       \* bound
  /\ UNCHANGED <<guard, batch, childSpent, started, results, mcp>>

\* _dispatch_child_call: the child's own guard gates it.
ChildCall(c, estimate) ==
  /\ pc = "wait"
  /\ child[c] = "running"
  /\ childSpent[c] + estimate <= reserved[c]
  /\ child' = [child EXCEPT ![c] = "calling"]
  /\ calling' = [calling EXCEPT ![c] = estimate]
  /\ UNCHANGED <<guard, batch, childSpent, started, results, mcp>>

\* The tool returned or raised; either way the child's guard is charged.
ChildCallEnd(c) ==
  /\ pc = "wait"
  /\ child[c] = "calling"
  /\ \E actual \in IF axis = "usd" THEN {calling[c]} ELSE Durations :
       childSpent' = [childSpent EXCEPT ![c] = @ + actual]
  /\ child' = [child EXCEPT ![c] = "running"]
  /\ UNCHANGED <<guard, batch, calling, started, results, mcp>>

\* run() returns and emits the result.
ChildEnd(c) ==
  /\ pc = "wait"
  /\ child[c] = "running"
  /\ child' = [child EXCEPT ![c] = "ended"]
  /\ results' = [results EXCEPT ![c] = @ + 1]
  /\ UNCHANGED <<guard, batch, calling, childSpent, started, mcp>>

\* An exception out of the model stream leaves run() without a result.
ChildRaise(c) ==
  /\ pc = "wait"
  /\ child[c] = "running"
  /\ child' = [child EXCEPT ![c] = "failed"]
  /\ UNCHANGED <<guard, batch, calling, childSpent, started, results, mcp>>

-----------------------------------------------------------------------------
(* The wait and the finally block.                                         *)

\* asyncio.wait ends: all children are done, the deadline passed, or the turn
\* that called the verb was cancelled.
WaitEnds ==
  /\ pc = "wait"
  /\ pc' = "drain"
  /\ UNCHANGED <<guard, next, slice, reserved, settled, children, mcp>>

\* cancel and gather.  A task that never ran a step is dropped; the call a
\* cancelled child was in is not charged.
DrainChild(c) ==
  /\ pc = "drain"
  /\ child[c] \in Alive
  /\ child' = [child EXCEPT ![c] = IF @ = "task" THEN "dropped" ELSE "cancelled"]
  /\ UNCHANGED <<guard, batch, calling, childSpent, started, results, mcp>>

Drained ==
  /\ pc = "drain"
  /\ \A c \in Children : child[c] \notin Alive
  /\ pc' = "settle"
  /\ UNCHANGED <<guard, next, slice, reserved, settled, children, mcp>>

\* Faulty variants: the result is emitted whether or not run() did; the unspent
\* part of a slice is not given back; cancelled children are passed over.
SettleEmittingAgain(c) ==
  /\ pc = "settle"
  /\ c \in Launched \ settled
  /\ spent' = spent + Snapshot[c] - reserved[c]
  /\ settled' = settled \union {c}
  /\ results' = [results EXCEPT ![c] = @ + 1]
  /\ UNCHANGED <<axis, start, pc, next, slice, reserved, child, calling, childSpent, started, mcp>>
SettleKeepingSlice(c) ==
  /\ pc = "settle"
  /\ c \in Launched \ settled
  /\ spent' = spent + Snapshot[c]
  /\ settled' = settled \union {c}
  /\ results' = [results EXCEPT ![c] = IF @ = 0 THEN 1 ELSE @]
  /\ UNCHANGED <<axis, start, pc, next, slice, reserved, child, calling, childSpent, started, mcp>>
SettleEndedOnly(c) ==
  /\ pc = "settle"
  /\ c \in Launched \ settled
  /\ child[c] # "cancelled"
  /\ spent' = spent + Snapshot[c] - reserved[c]
  /\ settled' = settled \union {c}
  /\ results' = [results EXCEPT ![c] = IF @ = 0 THEN 1 ELSE @]
  /\ UNCHANGED <<axis, start, pc, next, slice, reserved, child, calling, childSpent, started, mcp>>

\* zip(children, reservations): only children that were constructed.
SettleChild(c) ==
  /\ pc = "settle"
  /\ c \in Launched \ settled
  /\ spent' = spent + Snapshot[c] - reserved[c]
  /\ settled' = settled \union {c}
  /\ results' = [results EXCEPT ![c] = IF @ = 0 THEN 1 ELSE @]
  /\ UNCHANGED <<axis, start, pc, next, slice, reserved, child, calling, childSpent, started, mcp>>

Return ==
  /\ pc = "settle"
  /\ Launched \subseteq settled
  /\ pc' = "returned"
  /\ UNCHANGED <<guard, next, slice, reserved, settled, children, mcp>>

-----------------------------------------------------------------------------
(* An MCP verb: check() and commit() on its own thread.                     *)

McpOver == [pc |-> "over", estimate |-> 0, loaded |-> 0]

McpCheck(v) ==
  /\ mcp[v].pc = "new"
  /\ \E estimate \in Estimates :
       mcp' = [mcp EXCEPT ![v] =
         IF spent + estimate > MaxSpend THEN McpOver
         ELSE [pc |-> "running", estimate |-> estimate, loaded |-> 0]]
  /\ UNCHANGED <<guard, batch, children>>

\* commit: spent is loaded, float() is called, the sum is stored.
McpLoad(v) ==
  /\ mcp[v].pc = "running"
  /\ mcp' = [mcp EXCEPT ![v].pc = "loaded", ![v].loaded = spent]
  /\ UNCHANGED <<guard, batch, children>>

McpStore(v) ==
  /\ mcp[v].pc = "loaded"
  /\ \E actual \in IF axis = "usd" THEN {mcp[v].estimate} ELSE Durations :
       spent' = mcp[v].loaded + actual
  /\ mcp' = [mcp EXCEPT ![v] = McpOver]
  /\ UNCHANGED <<axis, start, batch, children>>

-----------------------------------------------------------------------------

SpawnInit ==
  /\ axis \in {"usd", "seconds"}
  /\ spent \in 0 .. MaxSpend            \* what earlier turns spent
  /\ start = spent
  /\ pc = "idle"
  /\ next = 1
  /\ slice = 0
  /\ reserved = [c \in Children |-> 0]
  /\ settled = {}
  /\ child = [c \in Children |-> "none"]
  /\ calling = [c \in Children |-> 0]
  /\ childSpent = [c \in Children |-> 0]
  /\ started = {}
  /\ results = [c \in Children |-> 0]
  /\ mcp = [v \in McpVerbs |-> [pc |-> "new", estimate |-> 0, loaded |-> 0]]

Dispatcher ==
  \/ SliceBudget \/ ReserveCheck \/ ReserveAdd \/ Construct
  \/ WaitEnds \/ Drained \/ Return
  \/ \E c \in Children : DrainChild(c) \/ SettleChild(c)

Child(c) ==
  \/ ChildStart(c) \/ ChildCallEnd(c) \/ ChildEnd(c) \/ ChildRaise(c)
  \/ \E estimate \in Estimates : ChildCall(c, estimate)

Mcp(v) == McpCheck(v) \/ McpLoad(v) \/ McpStore(v)

SpawnNext == Dispatcher \/ (\E c \in Children : Child(c)) \/ (\E v \in McpVerbs : Mcp(v))

\* The deadline passes, and the dispatcher goes on; children promise nothing.
SpawnSpec == SpawnInit /\ [][SpawnNext]_spawnVars /\ WF_spawnVars(Dispatcher)

-----------------------------------------------------------------------------
(* Properties.                                                             *)

\* Every variable keeps its shape.
SpawnTypeOK ==
  /\ axis \in {"usd", "seconds"}
  /\ spent \in Int /\ start \in Int
  /\ pc \in {"idle", "check", "add", "construct", "wait", "drain", "settle", "returned"}
  /\ next \in 1 .. N + 1
  /\ slice \in Nat
  /\ reserved \in [Children -> Nat]
  /\ settled \subseteq Children
  /\ child \in [Children -> {"none"} \union Alive \union Done]
  /\ calling \in [Children -> Nat]
  /\ childSpent \in [Children -> Nat]
  /\ started \subseteq Children
  /\ results \in [Children -> Nat]
  /\ mcp \in [McpVerbs -> [pc : {"new", "running", "loaded", "over"}, estimate : Nat, loaded : Int]]

\* At every step, as long as no MCP verb has charged the same guard, the
\* session's total is what it was before the batch, plus what settled children
\* spent (seconds as their snapshots round them), plus the slices still reserved,
\* whatever child was cancelled, raised, or never constructed.
McpQuiet == \A v \in McpVerbs : mcp[v].pc # "over"
LedgerBalances ==
  McpQuiet =>
    spent = start
      + MapThenSumSet(LAMBDA c : Snapshot[c], settled)
      + MapThenSumSet(LAMBDA c : reserved[c], Children \ settled)

\* A child never exceeds its slice of dollars.  Of seconds, where a call may take
\* longer than its estimate, it overruns by the excess of one call and no more.
ChildOverrunsByOneCall ==
  \A c \in Launched :
    \/ childSpent[c] <= reserved[c]
    \/ /\ axis = "seconds"
       /\ \E a \in Durations, e \in Estimates : childSpent[c] <= reserved[c] + a - e

\* A child never closes twice, and no child that opened is left without a
\* result once the verb returns, deadline, exception or cancellation included.
StartedChildrenClose ==
  /\ \A c \in Children : results[c] <= 1
  /\ pc = "returned" => \A c \in started : results[c] = 1

\* The verb returns by its deadline even when children hang.
BatchReturns == <>(pc = "returned")
=============================================================================
