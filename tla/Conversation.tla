---------------------------- MODULE Conversation ----------------------------
(***************************************************************************)
(* The message list an AgentLoopV3 sends to its provider:                   *)
(* gemia/agent_loop_v3.py (run_turn, _drive_turn, _trim_rolling_window) and *)
(* gemia/turn_compaction.py.  What the model and the tools say is left out; *)
(* who appends what, and what the window and the compaction remove, is not. *)
(*                                                                         *)
(* The list is a set of messages stamped in the order they were appended.   *)
(***************************************************************************)
EXTENDS Integers, FiniteSets

CONSTANTS
  RollingUserTurns,  \* _ROLLING_USER_TURNS
  KeepRecent,        \* keep_recent of compact_settled_tool_blocks
  MaxTurns, MaxCalls, MaxStamp   \* bounds: turns, calls in a batch, messages

ASSUME ConversationAssumption ==
  /\ RollingUserTurns \in Nat \ {0} /\ KeepRecent \in Nat
  /\ MaxTurns \in Nat /\ MaxCalls \in Nat /\ MaxStamp \in Nat

VARIABLES
  messages,    \* self._messages
  next,        \* stamp of the next message
  phase,       \* "idle", "top" of the loop, "asking" the provider, in a "batch"
  turn,        \* run_turn calls so far
  batch,       \* the assistant message with tool calls last appended (its stamp)
  calls,       \* how many calls that message makes
  settled,     \* how many of them have their result
  thumbnails,  \* _pending_thumbnails is not empty
  stranded,    \* images one_shot_image_messages lists no more: its turn is over
  cut          \* history: batches a cancellation left before their last result

vars == <<messages, next, phase, turn, batch, calls, settled, thumbnails, stranded, cut>>
loopVars == <<turn, batch, calls, settled>>

\* of: the turn of a request, the batch of a result; call: the calls of an
\* assistant message, the call a result answers.
Message(at, kind, of, call, image) ==
  [at |-> at, kind |-> kind, of |-> of, call |-> call, image |-> image]

Request(at)        == Message(at, "request", turn + 1, 0, FALSE)
Host(at, image)    == Message(at, "host", 0, 0, image)
Assistant(at, n)   == Message(at, "assistant", at, n, FALSE)
Result(at, b, c)   == Message(at, "tool", b, c, FALSE)

IsUser(m) == m.kind \in {"request", "host"}

\* _trim_rolling_window: host messages have the user role and count as turns.
Trim(ms) ==
  LET users == {m.at : m \in {u \in ms : IsUser(u)}}
      kept  == {u \in users : Cardinality({v \in users : v > u}) < RollingUserTurns}
  IN  IF Cardinality(users) <= RollingUserTurns THEN ms
      ELSE {m \in ms : \E u \in kept : u <= m.at}

\* settled_tool_blocks: the batches whose results all follow their call with
\* nothing else in between.
Settled(ms) ==
  {a \in ms :
    /\ a.kind = "assistant" /\ a.call > 0
    /\ \A c \in 1..a.call : \E r \in ms :
         /\ r.kind = "tool" /\ r.of = a.at /\ r.call = c
         /\ \A m \in ms : (a.at < m.at /\ m.at < r.at) => (m.kind = "tool" /\ m.of = a.at)}

\* Faulty variant: a block goes on to the next assistant message.
BlockToNextAssistant(ms, a) ==
  {m \in ms : a.at <= m.at
     /\ \A n \in ms : (n.kind = "assistant" /\ a.at < n.at) => m.at < n.at}

\* Faulty variant: the end of a block is its last result, not the one after it.
BlockShortOfResult(ms, a) ==
  LET last == {r.at : r \in {t \in ms : t.kind = "tool" /\ t.of = a.at}}
  IN  {m \in ms : a.at <= m.at /\ \E l \in last : m.at < l}

\* A block is the run of messages up to its last result.
Block(ms, a) ==
  LET last == {r.at : r \in {t \in ms : t.kind = "tool" /\ t.of = a.at}}
  IN  {m \in ms : a.at <= m.at /\ \E l \in last : m.at <= l}

\* Blocks old enough to go: all but the KeepRecent newest.
Old(ms) ==
  {a \in Settled(ms) : Cardinality({b \in Settled(ms) : b.at > a.at}) >= KeepRecent}

\* compact_settled_tool_blocks: any of the old blocks may go; the thresholds, the
\* ledger's protected calls and provider signatures say which.
Compaction(ms, ms2) ==
  \E gone \in SUBSET Old(ms) : ms2 = ms \ UNION {Block(ms, a) : a \in gone}

\* _strip_gate_images on the images of the request, those the turn still lists.
Strip(ms) ==
  {m \in ms : ~m.image \/ m.at \in stranded}
    \union {[m EXCEPT !.image = FALSE] : m \in {i \in ms : i.image /\ i.at \notin stranded}}

-----------------------------------------------------------------------------
\* run_turn up to the loop.
RunTurn ==
  /\ phase = "idle" /\ turn < MaxTurns /\ next <= MaxStamp
  /\ messages' = Trim(messages \union {Request(next)})
  /\ next' = next + 1
  /\ turn' = turn + 1
  /\ phase' = "top"
  /\ UNCHANGED <<batch, calls, settled, thumbnails, stranded, cut>>

\* The top of the loop: compaction, render_messages, the request.
Ask ==
  /\ phase = "top"
  /\ Compaction(messages, messages')
  /\ phase' = "asking"
  /\ UNCHANGED <<next, loopVars, thumbnails, stranded, cut>>

\* render_messages raises (it reads the project and the memory files).
RenderRaises ==
  /\ phase = "top"
  /\ Compaction(messages, messages')
  /\ phase' = "idle"
  /\ stranded' = stranded \union {m.at : m \in {i \in messages : i.image}}
  /\ UNCHANGED <<next, loopVars, thumbnails, cut>>

\* Faulty variant: the images are reclaimed on normal completion only.
StreamFailsUnstripped ==
  /\ phase = "asking"
  /\ phase' = "idle"
  /\ UNCHANGED <<messages, next, loopVars, thumbnails, stranded, cut>>

\* The stream reports an error, raises or is cancelled.
StreamFails ==
  /\ phase = "asking"
  /\ messages' = Strip(messages)
  /\ phase' = "idle"
  /\ UNCHANGED <<next, loopVars, thumbnails, stranded, cut>>

\* An answer without calls ends the turn, or the host replies to it: the
\* pre-delivery gate (with previews or without) or the open ledger.
Answer ==
  /\ phase = "asking" /\ next <= MaxStamp
  /\ \/ /\ messages' = Strip(messages) \union {Assistant(next, 0)}
        /\ next' = next + 1
        /\ phase' = "idle"
     \/ \E image \in BOOLEAN :
          /\ messages' = Strip(messages) \union {Assistant(next, 0), Host(next + 1, image)}
          /\ next' = next + 2
          /\ phase' = "top"
  /\ UNCHANGED <<loopVars, thumbnails, stranded, cut>>

\* An answer with n calls: the assistant message comes before any dispatch.
CallTools ==
  /\ phase = "asking" /\ next <= MaxStamp
  /\ \E n \in 1..MaxCalls :
       /\ messages' = Strip(messages) \union {Assistant(next, n)}
       /\ calls' = n
  /\ next' = next + 1
  /\ batch' = next
  /\ settled' = 0
  /\ phase' = "batch"
  /\ UNCHANGED <<turn, thumbnails, stranded, cut>>

\* One call is dispatched, gated or rejected and its result appended; a
\* thumbnail may be queued, and a repeated failure puts its guidance right
\* behind the result.
SettleCall ==
  /\ phase = "batch" /\ settled < calls /\ next <= MaxStamp
  /\ settled' = settled + 1
  /\ \/ /\ messages' = messages \union {Result(next, batch, settled + 1)}
        /\ next' = next + 1
        /\ thumbnails' \in {thumbnails, TRUE}
     \/ /\ messages' = messages \union {Result(next, batch, settled + 1), Host(next + 1, FALSE)}
        /\ next' = next + 2
        /\ UNCHANGED thumbnails
  /\ UNCHANGED <<phase, turn, batch, calls, stranded, cut>>

\* Faulty variant: the calls after the one that stopped the turn are dropped.
HardStopDropping ==
  /\ phase = "batch" /\ settled < calls /\ next <= MaxStamp
  /\ messages' = messages \union {Result(next, batch, settled + 1)}
  /\ next' = next + 1
  /\ settled' = settled + 1
  /\ thumbnails' \in {thumbnails, TRUE}
  /\ phase' = "idle"
  /\ UNCHANGED <<turn, batch, calls, stranded, cut>>

\* The plan-gate limit or the repeated-call guard: this call and the ones
\* after it get their results, and the turn ends.
HardStop ==
  /\ phase = "batch" /\ settled < calls /\ next <= MaxStamp
  /\ messages' = messages \union
       {Result(next + c - settled - 1, batch, c) : c \in (settled + 1)..calls}
  /\ next' = next + calls - settled
  /\ settled' = calls
  /\ thumbnails' \in {thumbnails, TRUE}
  /\ phase' = "idle"
  /\ UNCHANGED <<turn, batch, calls, stranded, cut>>

\* After the batch: up to two no-progress messages, then the queued thumbnails
\* as one message; or the goal is given up.
EndBatch ==
  /\ phase = "batch" /\ settled = calls /\ next <= MaxStamp
  /\ \E h \in 0..2 :
       LET told == messages \union {Host(next + i - 1, FALSE) : i \in 1..h}
       IN  \/ /\ messages' = told
              /\ next' = next + h
              /\ phase' = "idle"
              /\ UNCHANGED thumbnails
           \/ /\ messages' = told \union
                   (IF thumbnails THEN {Host(next + h, TRUE)} ELSE {})
              /\ next' = next + h + (IF thumbnails THEN 1 ELSE 0)
              /\ thumbnails' = FALSE
              /\ phase' = "top"
  /\ UNCHANGED <<loopVars, stranded, cut>>

\* The turn is cancelled while it awaits a dispatch: CancelledError is no
\* Exception, so neither this call nor the next ones get a result.
Cancel ==
  /\ phase = "batch" /\ settled < calls
  /\ phase' = "idle"
  /\ cut' = cut \union {batch}
  /\ UNCHANGED <<messages, next, loopVars, thumbnails, stranded>>

Init ==
  /\ messages = {} /\ next = 1 /\ phase = "idle" /\ turn = 0
  /\ batch = 0 /\ calls = 0 /\ settled = 0
  /\ thumbnails = FALSE /\ stranded = {} /\ cut = {}

Next ==
  \/ RunTurn \/ Ask \/ RenderRaises \/ StreamFails \/ Answer
  \/ CallTools \/ SettleCall \/ HardStop \/ EndBatch \/ Cancel

Spec == Init /\ [][Next]_vars

-----------------------------------------------------------------------------
MessageSet ==
  [at : Nat, kind : {"request", "host", "assistant", "tool"},
   of : Nat, call : Nat, image : BOOLEAN]

\* Every variable keeps its type; stamps are below the next one.
TypeOK ==
  /\ messages \subseteq MessageSet
  /\ next \in Nat \ {0} /\ turn \in Nat /\ batch \in Nat /\ calls \in Nat /\ settled \in Nat
  /\ phase \in {"idle", "top", "asking", "batch"}
  /\ thumbnails \in BOOLEAN /\ stranded \subseteq Nat /\ cut \subseteq Nat

ResultsOf(a, c) == {r \in messages : r.kind = "tool" /\ r.of = a.at /\ r.call = c}

\* A request never holds a tool call without its one result behind it, unless
\* a cancellation cut the batch: the hard stops settle every later call, and
\* neither the guidance put between results nor what the window and the
\* compaction remove takes a result from under a call that stays.
CallsHaveResults ==
  phase = "asking" =>
    \A a \in messages : a.kind = "assistant" /\ a.at \notin cut =>
      \A c \in 1..a.call : \E r \in messages :
        ResultsOf(a, c) = {r} /\ r.at > a.at

\* The other way round: a request holds no result whose call is gone, but where
\* the window cut behind the call, for guidance between results counts as a user
\* turn.  Then nothing as old as that call is left.
ResultsHaveCalls ==
  phase = "asking" =>
    \A r \in messages : r.kind = "tool" =>
      \/ \E a \in messages : a.kind = "assistant" /\ a.at = r.of /\ r.call \in 1..a.call
      \/ \A m \in messages : r.of < m.at

\* What a request sends of a batch is whole, in both directions, but for the two
\* exceptions named.
BatchesAreWhole == CallsHaveResults /\ ResultsHaveCalls

\* What the user asked for in this turn is in every request of the turn,
\* whatever the window and the compaction dropped before it.
RequestStays ==
  phase = "asking" => \E m \in messages : m.kind = "request" /\ m.of = turn

\* An image is in one request only: it is the newest message of the one being
\* sent, however that one ends, unless render_messages raised before it.
OneShotImages ==
  \A m \in messages : m.image /\ m.at \notin stranded =>
    phase \in {"top", "asking"} /\ m.at = next - 1
=============================================================================
