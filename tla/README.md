# Lumeri: verification project

TLA+ models of the parts of Lumeri whose correctness depends on order: two
dispatchers and a paid provider, several writers and a crash, HTTP threads and
an event loop. Each module was written from the code it names; `PROJECT.json`
maps every definition to the lines it stands for.

Contents: [the system](#the-system) · [modules](#modules) · [runs](#runs-and-what-they-show)
· [bounds](#bounds) · [fairness](#fairness) · [proofs](#proofs) · [disagreements found](#where-code-and-documents-disagree)
· [not modelled](#not-modelled) · [plan](#plan)

## The system

Lumeri edits video by conversation. A browser (`static/v3`) or an MCP client
talks to one Python process; each session has a thread with an asyncio loop on
which the agent runs its turns and calls tools.

| Component | State | Operations | Hard behaviour | Module |
|---|---|---|---|---|
| Paid-media ledger `production_budget.py` | one JSON document: reservations, baseline, imports | import_baseline, reserve, claim_submission, attach_provider_operation, settle, mark_asset_materialized, mark_uncertain, release, reconcile_orphaned_reservation | two claimants of one reservation; a crash between claim and answer; late answers; the cap | `MediaBudget` |
| Tool-call receipts `production_store.py` | a receipt per (project, run, key), a lease file, an in-process lease map | claim_tool_call, bind_tool_call_reservation, complete_tool_call, reconcile_inflight_tool_calls | several processes; a resume pass while calls run; a crash between ledger and receipt | `ToolReceipts` |
| Production run, delivery gate `production_store.py`, `tools/verify_delivery.py` | project revision, run.json, evidence files | transition_run, sync_run_project_revision, patch_design_state, observe_project_state, add_evidence, record_deliverable, review_run, complete_turn, verify_delivery | different locks for different writers; stale runs written back; a crash between files | `ProductionRun` |
| Project store `project_store.py` | state.json, meta.json, seed, one file per patch | create/open, apply_patches, undo_to_seq | writers in several processes; a crash between file writes; an undo with a stale target | `ProjectStore` |
| Timeline `lumerai/patches.py`, `gemia/project_model.py` | tracks and clips | ops on clips and tracks, batches, normalisation, validation | checks of single ops against validation of the whole; ripple; stale transitions | `Timeline` |
| Session runner `session_manager.py` | turn flag and future, loop, plan mode | submit_turn, cancel_turn, run_verb, run_project_edit, set_plan_mode, close | HTTP and MCP threads against the loop; timeouts; closing under a waiter | `SessionRunner` |
| Session directory `session_manager.py` | runners, creation count | create_session, get, close_session, cleanup_idle, close_all | several threads create and close one id; the sweep closes what it looked at earlier | `SessionDirectory` |
| Agent turn loop `agent_loop_v3.py`, `turn_compaction.py` | messages, failure counters, router, gates | run_turn, window, compaction, set_plan_mode | a cancellation between a call and its result; endings | `Conversation`, `TurnLoop` |
| Turn ledger `turn_ledger.py`, `tool_outcome.py`, `tool_router.py` | steps, criteria, results, failures, jobs | record an outcome, supersede, decide completion | verification made stale by a later edit | `TurnLedger` |
| Sub-agents `subtasks.py`, budget guard `budget_guard.py` | children, slices, reservations; spent dollars and seconds | spawn_subtasks; check, reserve_amount, commit_reserved, commit | deadline, cancellation, partial failure, settlement; no lock, two kinds of thread | `Subtasks` |
| SSE transport `transport/sse.py` | ring of 200 events per session, readers | register, emit, close, unregister, iter_events | overtaken readers, reconnection, resumption | `SseStream` |
| Ask bridge `tools/_ask_bridge.py` | pending questions and futures | emit_and_wait, deliver | timer, answers, cancellation | `AskBridge` |
| Job registry, Lumenframe, tools and effects, export, memory, sandbox, routes and MCP server, front end | | | | see [not modelled](#not-modelled) |

Interaction: routes and the MCP server find a `SessionRunner` in the directory and call
it from their own threads. It schedules coroutines on the session's loop. The loop emits
events through the transcript into the SSE ring, which request threads read. A turn appends
to the conversation and feeds the turn ledger; a tool call may ask the user (ask bridge),
fan out (sub-agents, which draw on the budget guard that MCP threads also charge), edit the
timeline (a batch of ops, then the project store) or spend money (receipts, then the ledger,
then the provider). A delivery goes through the production run, which counts only evidence
of the project's present revision.

What would make each part correct, in a sentence: the ledger never exceeds its
cap and never lets one key reach the provider twice; a receipt never calls
"failed" what was sent; what a client is shown for review was earned by evidence of the
project's revision and not withdrawn; the project is a sequence of whole patches of which none acknowledged is lost;
ops that are each accepted compose to a valid timeline; turns do not overlap and end;
a live session has its own stream; a request pairs every call with its result; a turn that
says "complete" is; every slice of a budget is accounted for; an event is delivered
once or its loss is announced; a question gets an answer meant for it.

## Modules

| Module | State and actions in the code |
|---|---|
| `MediaBudget` | `row` is `document["reservations"]`; each public method is one action because `_transaction` holds the thread and file locks and replaces the file atomically. Workers claim, send, hear back and crash |
| `ToolReceipts` | `receipt` and `leaseFile` are on disk, `leases` is `_tool_call_leases`; the resume pass is two actions, before and after the receipt is written, with the call's mutation lock held between them. Composed with the ledger: `Budget == INSTANCE MediaBudget` |
| `ProductionRun` | an action is what a call reads and decides; its writes are pending in `calls[t]` and reach the disk in the order evidence, project, run, with other threads in between where the locks let them: add_evidence takes no lock of the run, review_run none of the project, bind_session and create_run only the project's (`RewriteProject`). The gate passes a run of another revision than the project's, as in the code. `withdrawn` is history. One process: these locks are `RLock`s. `Targets` leaves out "accepted": acceptance is "an explicit review action" (`production_acceptance.py:5`), although transition_run itself would move ready_for_review there |
| `ProjectLog` | abstract specification: a patch sequence that grows by whole calls and rewinds to a prefix |
| `ProjectStore` | each action ends at a file write or a lock; `Crash` ends a call between two of them |
| `Timeline` | `doc` is the copy during a batch, otherwise the stored project as the next load normalises it; a refused op is the absence of a step. `odd` marks what only legacy ops or pieces shorter than the 0.1 s of normalisation (`MinDuration`) bring in: edits after such a step are not explored (a bound). Neither insert_clip nor the validation of the whole holds a clip against its asset's length; only trim_clip does. An insertion whose source range is not as long as its duration is left out: the batch is refused, unless it goes on to trim or delete that clip |
| `SessionRunner` | a section under `_state_lock`, or what the loop runs between two awaits, is one action. `CloseBegin` cancels the loop's tasks: a running coroutine unwinds, one that has not begun may be cancelled before its first step (the caller then returns with an error, and charges) |
| `SessionDirectory` | a section under the manager's or the registry's lock is one action; constructing and closing a runner lie outside both. Only turns emit; what request threads and worker threads emit by session id is left out (see disagreements) |
| `Conversation` | the message list as a set of stamped messages; one action per append, trim, compaction and exit |
| `TurnLedger` | the ledger of one turn as a value, its methods as operators |
| `TurnLoop` | extends `TurnLedger` with `_drive_turn`: a batch is settled call by call, then its end decides. Plan mode is read anew at each gate, because HTTP threads toggle it |
| `Subtasks` | the dispatcher's steps follow its code; `reserve_amount` is two actions, and `commit` on an MCP thread two, because nothing locks the guard. A settlement uses the child's snapshot, which rounds seconds to a `Tick` |
| `SseStream` | `Read` is one pass of `iter_events` under its lock; `gen` tells streams registered under the same id apart |
| `AskBridge` | `Resolve` is the callback `deliver` schedules; `Wake` is the awaiting task's next step |

`MC...` modules give constants their values, `...Proofs` modules hold theorems. Definitions
called *faulty variant* are never part of a specification: each is the bug a property must
exclude, and `PROJECT.json` lists which property rejects which.

Refinements. `ToolReceipts` uses the ledger as `MediaBudget!Spec` allows
(`UsesLedgerAsSpecified`, checked and proved): its executions map to the ledger's workers
(`Working`), so what is proved of the ledger holds of the receipts. `ProjectStore`
implements `ProjectLog` with `log <- state` until a call ends half way (checked and proved).

What is abstracted: contents of patches, messages, events and media; decimal money
(integers stand for micro-dollars); argument hashes (a duplicate with other
arguments is refused without a state change); audit fields and display caches.

## Runs and what they show

One per component, all passing:

| Run | Question |
|---|---|
| `media_budget` | can any order of claims, crashes, late answers, imports and reconciliation exceed the cap, send a key twice, release what was sent, or change a final row? |
| `tool_receipts` | with three stores, two of which may die: is a call executed twice, is a sent call closed as failed, are orphans closed, is the ledger used as specified? |
| `production_run` | with two threads and a crash between any two writes: is a client shown a master without machine evidence of the project's revision, one accepted without a reviewer, or one that was withdrawn? |
| `project_store` | with three writers: does the log replay to the snapshot, and is the store a patch sequence, until a call ends between two writes? After it, is an acknowledged patch lost, or is the numbered log ever ahead of the snapshot? |
| `timeline` | does every op that is accepted leave a document the validation of the whole accepts? Can anything but trim_clip and set_clip_time part two clips and keep the transition between them? Does a split change which part of which source is where? |
| `session_runner` | two turns, a mutating verb, a user edit, a stop, a close: do turns overlap, does the flag lie, is a verb charged that is refused or may still run, or on an open session one that did not run, does a turn keep its slot or a call go unanswered? |
| `session_directory` | three creates of one id, a close, sweeps and failing constructors: can a live session lose its stream, the limit be passed, a turn's events reach another session (only from a loop that outlived the timeouts of its close), an id be left unusable? |
| `conversation` | through compaction, window, nudges, failures, hard stops and cancellations: does a request hold a call without its result (only of a batch a cancellation cut) or a result without its call (only when the window cut right behind the call), lose the user's request, or send an image twice? |
| `turn_loop` | does a turn claim "complete" when its deliverables are too few or fail the criterion, because a verification is stale or was of another asset? Can a turn of talking and reading go on for ever? (only with progress, failing calls, or no enforced ledger) |
| `subtasks` | with failing construction, exceptions, deadline and an MCP thread on the same guard: does the total balance at every step, how far can a child exceed its slice (not at all in dollars, by one call in seconds), does a child close twice or never, does the verb return? |
| `sse_stream` | do events come once and in order, with a resume under the client? Until one, can the client lose an event without being told? (only when overtaken while connected, or with no id yet) |
| `ask_bridge` | is a question answered by an answer meant for another or refused, is an accepted one lost, does every question end? |

## Bounds

- `media_budget`: three video calls of 2, 3 and 2 under a cap of 6, actual costs 0, 2
  or 4: no two limits are slack, each pair conflicts differently, and a settlement may
  exceed its estimate. Two workers suffice for every race on a row, and every
  subset may crash at once.
- `tool_receipts`: two keys and a cap for one of them; three stores so that an
  owner, a resumer and a successor of a dead resumer meet. One run id:
  what a second one under the same key breaks is described below.
- `production_run`: two threads for the race between one call's reading and its last write,
  two exports so that one can be withdrawn for the other, one change of the revision.
  Without the exception of `WithdrawnStaysHidden` TLC finds a request whose revision
  bind_session sets back. The
  run starts at "rendering"; earlier states have neither evidence nor a master. The
  theorems cover any numbers, any start and all targets.
- `project_store`: `MaxPatches` is the only unbounded quantity (patches issued);
  five patches of batches of at most two let two undos and an append interleave.
  `MaxCrashes = 2` covers a crash during the repair of a crash. Writers are symmetric,
  and the runs with symmetry check no liveness property.
- `timeline`: three clips (the least with a middle one) or fewer beside added tracks
  (`MaxSize`), four units of time, an asset of two units, used in whole or in half, and a text of two
  (no clip reaches beyond its asset here; that it changes nothing, the theorems show), two video tracks,
  an overlay and an audio track. Every overlap, gap and butt joint of two neighbours, and a
  ripple over a third, fits.
- `session_runner`: two turns are enough for overlap and for a stop that reads the
  future of the turn before.
- `session_directory`: ids meet only in the limit, so one id; three creators so that a
  third meets the leftovers of a creation under a close; and the third meets the limit of two.
- `conversation`: a window of two user messages under three turns, one recent block kept,
  two calls a batch, eleven messages: enough for a batch to be trimmed, compacted, cut and
  followed.
- `turn_loop`: two deliverables wanted of two assets, one job, one pack left to add, limits of
  one and two for gates and repetitions; one call in a batch and one failure remembered, so
  that every limit is reached.
- `subtasks`: two children, one asking for less than its share, are enough for one to
  be at any point while the other is launched, fails or settles; `spent` starts at
  every value up to the cap, so exhausted budgets and the refusal are included. A
  behaviour is about one axis, dollars or seconds; two units make a tick, so that every other
  amount is rounded. An MCP verb costs its estimate in dollars or the time it took.
- `sse_stream`: a ring of two is turned over once by four events, in each of the two
  generations a resumed stream needs. The ring's size appears in the code only through
  its bound.
- `ask_bridge`: two questions, three requests: a rival answer and one that is late for
  the first question while the second is open.

Deadlock checking is off where the modelled work ends (every call has returned,
every bound is reached).

## Fairness

Safety properties rest on none. Liveness uses weak fairness only:

- `ToolReceipts`: some live store runs `reconcile_inflight_tool_calls` (the session
  start does) and finishes the receipt it has begun. Owners need do nothing.
- `SessionRunner`: the loop runs what is scheduled, turns and verbs end, threads go
  on. Verbs have a timeout; that turns end is assumed here, and `TurnLoop` shows what alone may
  keep one going; a model stream that never ends is outside both.
- `SessionDirectory`: a thread that creates or closes goes on (its joins have timeouts).
- `TurnLoop`: the loop takes its next step, that is, streams and calls come to an end.
- `Subtasks`: the dispatcher goes on (asyncio's timer fires) and cancelled children
  unwind. Children promise nothing, so the verb returns even if all of them hang.
- `AskBridge`: the timer fires, the loop runs its callbacks and tasks. Nobody need answer.

## Proofs

Checked by TLAPS for every value of the constants that satisfies the modules'
assumptions. Costs, limits, durations and bounds are natural numbers, and a ring, a window, a
batch and a number of deliverables are not zero (`CostAssumption`, `VideoAssumption`,
`MoneyAssumption`, `BudgetAssumption`, `BoundAssumption`, `RingAssumption`,
`ConversationAssumption`, `LedgerAssumption`, `TimelineAssumption`, where also the duration
asked for a text is positive, which the ops check). Markers for "none" are no members of what they are
missing from (`NobodyAssumption`, `NoneAssumption`, `AnswerAssumption`, `BoundAssumption`,
`LedgerAssumption`, `DirectoryAssumption`, which also keeps threads of different jobs apart and
finite). The paid calls of a run are finitely many (`CallsAssumption`), a call of the session is
a verb or an edit, not both (`CallAssumption`), and a run is neither started as nor moved by a
plain transition to "accepted" (`StartAssumption`, `TargetsAssumption`).

| Module | Theorem | States |
|---|---|---|
| `BudgetProofs` | `LedgerTypes` | `[]TypeOK` |
| | `CapHolds` | `[]WithinCap` |
| | `AtMostOneSubmission` | `[]SubmittedOnce` |
| | `SubmittedIsNeverReleased` | `[]SentStaysCharged` |
| | `FinalRowsAreFrozen` | `FinalIsFinal` |
| | `ChildrenClose` | `[]StartedChildrenClose` |
| | `OverrunsAreBounded` | `[]ChildOverrunsByOneCall` |
| | `BalanceHolds` | `[]LedgerBalances` |
| `ToolReceiptsProofs` | `CallsRunOnce` | `[]OneExecution` |
| | `FailedCallsWereNotSent` | `[]FailedMeansUnsent` |
| | `LedgerRefinement` | `UsesLedgerAsSpecified` |
| `ProductionRunProofs` | `ReviewedMastersAreEarned` | `[]ShownIsEarned` |
| | `WithdrawalsHold` | `[]WithdrawnStaysHidden` |
| `ProjectProofs` | `AckedPatchesAreKept` | `[]AckedIsKept` |
| | `LogStaysBehind` | `[]LogBehindState` |
| | `LogIsTheSnapshot` | `[]LogMatchesState` |
| | `ProjectIsALog` | `ImplementsProjectLog` |
| | `EditsKeepTheProjectValid` | `[]EditsFitTogether` |
| | `OnlyRetimingLeavesTransitions` | `TransitionsStayHonest` |
| | `SplitsDoNotShow` | `SplitShowsTheSame` |
| `SessionProofs` | `Types` | `[]TypeOK` |
| | `TurnsDoNotOverlap` | `[]OneTurn` |
| | `FlagIsExact` | `[]FlagTracksTurn` |
| | `VerbsAreAccounted` | `[]VerbAccounting` |
| | `RightAnswers` | `[]OnlyAcceptedAnswersAreUsed` |
| | `AcceptedAnswersCount` | `[]AcceptedIsNotLost` |
| | `LossesAreAnnounced` | `[]OnlyOverrunsAreSilent` |
| | `EventsComeInOrder` | `InOrderOnce` |
| `SessionDirectoryProofs` | `StreamsOfLiveSessions` | `[]LiveSessionHasItsStream` |
| | `TurnEventsOfOneRunner` | `[]TurnEventsStayInTheirSession` |
| | `LimitHolds` | `[]WithinLimit` |
| `ConversationProofs` | `BatchesStayWhole` | `[]BatchesAreWhole`, that is, `[]CallsHaveResults` and `[]ResultsHaveCalls` |
| | `RequestsStay` | `[]RequestStays` |
| | `ImagesGoOutOnce` | `[]OneShotImages` |
| `TurnLoopProofs` | `CompleteTurnsAreComplete` | `[]CompleteIsTrue` |

Every safety invariant, action property and refinement that a run checks has its theorem. Some
modules hold the theorems of several components: `BudgetProofs` those of `MediaBudget` and
`Subtasks`, `ProjectProofs` those of `ProjectStore` and `Timeline`, `SessionProofs` those of
`SessionRunner`, `AskBridge` and `SseStream`, whose specifications are therefore called
`SpawnSpec`, `TimelineSpec`, `AskSpec` and `StreamSpec`.

*Ledger.* `SubmittedOnce` is not inductive: it says nothing of a worker that is about
to send. `Inv` adds `ClaimInv`: a worker holding an unsent claim holds it alone, on
a paid row for which nothing was sent. Every ledger transaction is a `LedgerStep`
(`TransactionSteps`, `NextIsLedgerStep`): it leaves each row where it is or moves it in
the permitted direction, so "reserved" is never entered again and paid statuses are
never left. A claim succeeds only on a reserved row, which by `SentStaysCharged` has
not been sent; that is the step the uniqueness rests on.

*Sums.* The cap is about a sum over the calls, the balance about two over the children. A
fold over a finite set is a table of the sums of its subsets; that the table exists, is unique
and changes by what one entry changes (`TotalChange`) is shown by taking a smallest subset for
which it fails. A transaction moves the committed amount by what its row's charge moves
(`ChargeChange`), and only reserve, import and a settlement above its estimate move it up, each
after a comparison with the cap.

*Sub-agents.* A result comes from a child's own end or from its settlement, never from both
(`ResultInv`), and settlement begins when nobody runs. A call in progress was within the slice
by its estimate (`SliceInv`), so a child overruns by the excess of its last call. For the
balance, nothing is reserved for a child not yet reached (`BalanceInv`).

*Receipts.* Whoever executes a call is the owner its receipt names (`OwnerInv`); a sent call has a bound receipt and a paid row (`MoneyInv`); "failed" is
concluded only of a call for which nothing was or will be sent (`FailedInv`); one resume pass
at a time holds a receipt (`ResumeInv`). The refinement needs only these and that rows move by
ledger transactions.

*Production run.* `EarnedInv` speaks of the run on disk and of every copy of it that a call
has still to write: a stale copy is as earned as the run it was read from, because evidence
and receipts only grow. It does not rest on the gate of transition_run, which lets a run of
another revision pass with no evidence: such a run names no master, since record_deliverable
takes one only with its evidence. `PastInv`: the project, and every project record still to be
written, is past each withdrawn revision (`PastAll`). A request counts as returned only if no
other call held the project's lock when it raised the revision; that and `LockInv` (who may
write the project meanwhile) give `AskInv`: from then on all there is to write is past what the
request withdraws.

*Project store.* The log may be ahead of the recorded number after an interrupted apply, and
the snapshot ahead of the log, so the invariant is about the files the number covers: they are in
the snapshot, in order (`BehindInv`), and each acknowledged patch that no undo set aside is
among them (`KeptInv`). A call between its writes promises more (`ApplyInv`: the next number
to record is covered too; `UndoInv`: what it rebuilt is what remains), which its lock protects.
Until the first call ends half way, `CleanInv` strengthens "in order" to "the same sequence"; the
refinement follows. `Replay` sorts by number: the file of rank i stands at place i
(`ReplayInOrder`).

*Timeline.* The invariant is that every clip is sound by itself, no two of a track
overlap, and none is too short for normalisation (`TimelineInv`). Its heart is one lemma on
`_ripple_shift` (`ResizingIsFree`): shifting what starts behind a clip by the change of its
length keeps the others apart and leaves just the room the clip needs. With the new length
0 that is delete and move, otherwise trim and retiming; insertion opens a gap instead
(`OpeningIsDisjoint`). On a document without overlaps a clip meets its next one exactly if some clip
starts where it ends (`JoinedMeansFollowed`), which turns the transitions' property into one
about places: an insertion that tears two clips apart puts its own between them, and whether
a clip is joined depends on its own track only (`JoinsAreLocal`).

*Session.* `OneTurn` holds because a submission needs the flag down, so `FlagInv` ties the
two: a turn in flight holds the flag, always, and on an open loop the flag is held by a
turn. The second half fails once the loop is closed (a claimed turn is lost with its flag
up), which is why `FlagTracksTurn` speaks of an open loop. Of verbs, one not
yet dispatched has no coroutine, and only close cancels a coroutine before its first step
(`OnlyCloseCancels`), so a charge on an open session follows a run.

*Ask bridge.* An answer is checked in one thread and used in another, so the invariant
follows it: a scheduled callback carries an accepted answer for its question
(`CallbacksAreAccepted`), nobody answers a question that was never asked, and one that is
over was resolved. With that, a callback that resolves nothing finds its question
resolved already, which is what `AcceptedIsNotLost` needs.

*Stream.* Three numbers may differ: the id the client stored, the reader's cutoff, and the
oldest event of the ring. What the client has never lies beyond the first two (`StoredInv`), what the
reader has still to write continues it without a hole (`WritingInv`), and until a resume
whatever lies below them was received, announced as lost, or overwritten while the reader was
connected or had nothing to compare with (`FirstInv`).

*Directory.* Every registered stream has exactly one answerer: the thread that registered it,
until its runner is listed, then the runner, then the thread that took it out. The limit is
counted: listed ids and threads in creation are disjoint finite sets whose cardinalities the
counter follows.

*Conversation.* A result is younger than its call, and a block that the compaction replaces
holds a call with all its results (`BlockIsOneBatch`), so neither the window, which keeps what
is youngest, nor the compaction takes a result from under a call that stays. The other way
round the window can: guidance between the results of a batch counts as a user turn, and a cut
there drops the call and keeps later results. Then nothing as old as the call is left (`Headed`,
with `CallInv` for the batch under way). The newest user message is
always inside the window (`TrimKeepsNewest`), and after a strip only images stranded by a hard stop
are left (`StripLeavesStranded`).

*Turn loop.* The ledger is truthful (`Good`): what it counts as a result, and what a passed
criterion speaks of, does meet the criterion. That survives an edit only because the
verdict is taken back before the deliverables change. A probe of several assets is a fold
over them; the proof takes a smallest set of assets for which the fold is not truthful.

Only model-checked: liveness (`OrphansAreClosed`, `TurnSlotFrees`, `CallsAreAnswered`,
`BatchReturns`, `QuestionsEnd`, `TurnsEnd`, `StreamsAreNotStranded`), for which the prover has
no rule for fairness and ENABLED, and the absence of deadlocks where runs check it.

## Where code and documents disagree

Met while modelling. The models do what the code does, and their properties leave these
cases out by name.

Sessions and events:

- A stop emits through `self._emit` (`session_manager.py:226`), which the runner does not
  have: `AttributeError` after the turn was cancelled; the client hears of no end.
- A mutating verb can run in the middle of a turn: the flag is read before the coroutine is
  scheduled (`session_manager.py:322`, "can't land mid-turn").
- After a resume the ids of a session's events start again at 1 (`session_manager.py:682`); a
  client that kept its last id (`v3.js:555`) is shown nothing up to it ("can replay everything
  it missed", `sse.py:25`).
- A runner whose constructor raises after it started its thread leaks the thread:
  `runner` is still None in the handler (`session_manager.py:684`).
- The idle sweep (`session_manager.py:733`) closes runners it chose earlier, also one created
  again or given a turn since.
- run_verb (`session_manager.py:336`, `:359`, `:417`, `:438`, `:476`, `:522`), set_plan_mode
  (`:548`) and progress callbacks of worker threads emit by session id through a runner that
  may have been closed meanwhile, by a close without any timeout too. If the id is used again, the later session's
  client is shown their events. `TurnEventsStayInTheirSession` therefore speaks of turns only.
- close cancels verbs before their first step (`session_manager.py:596`); `run_verb` takes the
  cancellation for the verb's own failure and charges it (`:463`), although it never ran ("Commit actuals").
  Likewise a verb that itself raises TimeoutError is taken for one that runs on, and is not
  charged (`:432`). Hence "open" in `VerbAccounting`. A turn cancelled before its first
  step leaves the flag up.
- `AskBridge.deliver` (`_ask_bridge.py:95`) accepts a second answer in the interval between
  the first one's callback and the wake-up of the question ("already answered"); the
  second is ignored.

Agent loop and sub-agents:

- A turn cancelled inside a tool call leaves the calls of its batch without results
  (`agent_loop_v3.py:1962`), and the next turn sends them, against the comment at 1793
  ("so no provider sees an orphan assistant tool call"). Hence the exception `cut` of `CallsHaveResults`.
- Guidance put between the results of a batch (`agent_loop_v3.py:884`) is a user message, so the
  window (`:1187`) can cut inside the batch and keep results whose call is gone: the exception
  of `ResultsHaveCalls`.
- A model that asks again and again for over-budget calls is counted but not stopped
  (`agent_loop_v3.py:1886`, "cannot spin forever"); a failed call of an unknown tool blocks completion for the rest of the turn; images pending at a hard stop are
  sent by the next turn.
- A reservation is never settled if its child cannot be built (`subtasks.py:794`, "settle
  EVERY reservation"): `LedgerBalances` therefore counts slices still reserved.
- Children cancelled before their first step get a `subagent_result` without a
  `subagent_start` (`subtasks.py:843`).
- A child's seconds slice is gated by estimates and charged by elapsed time
  (`subtasks.py:525`, "structurally cannot exceed"): hence `ChildOverrunsByOneCall`.
- `BudgetGuard` is used from MCP threads, although its docstring (`budget_guard.py:210`)
  counts on one loop: a commit can fall between the check and the add of a reservation.

Project and timeline:

- A crash between state.json and meta.json (`project_store.py:218`) lets the next call
  overwrite a patch's file ("append-only history", `project_store.py:8`).
- `ProjectHandle.undo` (`project_store.py:438`) reads the number before the lock, so it also
  rewinds a patch committed in between ("Rewind the last ``steps`` patches").
- trim_clip and split_clip accept and store pieces shorter than 0.1 s (`patches.py:515`, `:547`);
  the next load lengthens them (`project_model.py:956`), and the project then fails its own
  validation (`docs/timeline-v1/01-op-vocabulary.md:215`), so every later validated batch is
  refused. With `MinDuration = 2` TLC reaches it without the bound `odd`.
- replace_clip is to pass the validation of the whole (same document, 3.7), but batches of legacy ops
  skip it, and an overlap they leave makes every later validated edit fail.
- set_clip_time has the semantics of move_clip (3.6), yet neither it nor trim_clip clears a
  transition whose clips it parts: the exception of `TransitionsStayHonest`.
- remove_track leaves other tracks' `duck_under` behind; when the id is added again as another
  kind, a track ducks under one that is not audio (3.14).
- A video track whose id begins with "A" or "OV" becomes an audio or overlay track at the next
  load (`project_model.py`, `_normalize_tracks`).

Production:

- The gate to ready_for_review and to approval passes a run of another revision than the
  project's with no evidence: `_current_machine_evidence` returns False there (`production_store.py:1500`),
  and the gate asks whether it is not None (`:1636`; "ready_for_review
  requires passed machine evidence for the current project revision", `:817`). Nothing unearned is
  shown because of it (`ShownIsEarned`).
- The project's revision can fall ("Monotonic across any observed project-state change",
  `production_store.py:255`): review_run raises the revision it read without the project's
  lock (`:1268`), while bind_session (`:310`), create_run (`:397`) and observe_project_state write
  back, under that lock, the record they read; each may undo the other. Hence the exception of `WithdrawnStaysHidden`: requests that raised
  the revision while another call held the lock.
- add_evidence writes back, without the run's lock, the run it read (`:1231`): an approval, a
  cancellation or a request of the interval is undone on the run record. What a client is shown stays earned.
- complete_turn and add_evidence raise `run.project_revision` (`:2212`, `:1226`) without
  reopening the run; a following sync finds nothing new, and "accepted" stays for a changed
  project, though it is no longer shown.
- The lease map is keyed without the run (`:2400`). One store that works on two runs under one
  idempotency key takes no file lock for the second, and another store's resume pass then
  closes a live call. The one run of `tool_receipts` leaves this out.

## Not modelled

| Part | Why |
|---|---|
| Job registry | one poller at a time: only the turn loop polls, and turns do not overlap. `TurnLedger` has jobs as pending or settled |
| Turn files of a run, blockers, Creative-IR text | written under the run's lock, read by no gate; the writes of the run record they entail are in `ProductionRun` |
| Quantum tree, shot list, ducking, images, Lottie, markers, effects | edits that move no clip; images and Lottie differ in their source ranges |
| Lumenframe | a document algebra and renderer without state across calls |
| Classification of requests | text matching; the ledger starts from its result |
| Model streaming, prompts, nudges' wording | no state that a decision reads |
| Media processing, export, OTIO | files and pixels |
| Memory, skills, onboarding, annotations | single files replaced atomically, as in `ProjectStore` |
| Sandbox, running builds | the operating system's |
| Routes, MCP server, front end | they make the calls of the models' environments; the browser's event client is in `SseStream` |

Of the modelled parts these behaviours are missing: a second cancellation during the
settlement of sub-agents, contents of session snapshots, the transcript's order, deletion of
session directories, an interrupted `create` that nobody can repair (reached, but no property
speaks of it). Two processes on one production run are only in `ToolReceipts`: the locks of
the run are a process's own.

## Plan

All parts whose correctness depends on order have their module, and their safety is proved. What
is left, most useful first:

1. `ProductionRun` composed with `ToolReceipts`: a resume of a run with its turns, from one
   reconciliation to the next.
2. Proofs: what the liveness properties rest on that is itself safety (a waiting question has
   its timer or a callback, a held slot has a thread or task that will free it).
3. `Timeline` with images and `duck_under`, over the batches of `ProjectStore`.
4. Two runs per store in `ToolReceipts`, once the lease map is keyed by both.
