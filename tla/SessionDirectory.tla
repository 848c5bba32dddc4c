-------------------------- MODULE SessionDirectory --------------------------
(***************************************************************************)
(* SessionManager (gemia/session_manager.py), the directory of live         *)
(* sessions, with the part of the SSE registry it drives: streams are       *)
(* registered, closed and unregistered by session id.  HTTP and MCP threads *)
(* create and close sessions, a sweeper closes idle ones.  What a thread    *)
(* does under the manager's or the registry's lock is one step; building a  *)
(* runner and closing one happen outside both locks.                        *)
(*                                                                         *)
(* A runner is named by the thread that created it: ids are used again,     *)
(* runners are not.                                                        *)
(***************************************************************************)
EXTENDS Integers, FiniteSets

CONSTANTS
  Sessions,     \* session ids
  Creators,     \* threads in create_session; also the runners they make
  Closers,      \* threads in close_session or close_all
  Sweeper,      \* the thread of _sweep_loop
  MaxSessions,  \* _max_sessions
  None          \* no runner, no stream, no id

ASSUME DirectoryAssumption ==
  /\ MaxSessions \in Nat \ {0}
  /\ IsFiniteSet(Creators)
  /\ Creators \intersect Closers = {}
  /\ Sweeper \notin Creators \union Closers
  /\ None \notin Sessions \union Creators \union Closers \union {Sweeper}

Threads == Creators \union Closers \union {Sweeper}

VARIABLES
  runners,     \* _runners: the runner listed under each id
  creating,    \* _creating_sessions
  stream,      \* the runner each registered stream was registered for
  ended,       \* ids whose stream is closed
  pc,          \* where each thread is
  todo,        \* ids the thread still has to close
  sid,         \* the id a thread is creating or closing
  victim,      \* the runner the thread took out of the directory
  loop,        \* each runner's event loop and its thread
  turn         \* runners with a turn under way on their loop

runnerVars == <<loop, turn>>
streamVars == <<stream, ended>>
closeVars == <<todo, victim>>
vars == <<runners, creating, stream, ended, pc, todo, sid, victim,
          loop, turn>>

Listed == {s \in Sessions : runners[s] # None}

Goto(t, label) == pc' = [pc EXCEPT ![t] = label]

-----------------------------------------------------------------------------
(* Closing: the loop over ids of cleanup_idle and close_all, and each id's  *)
(* close_session.                                                          *)

\* cleanup_idle, the section under the lock: any runner without a turn may have
\* been unused for long enough.  create_session begins with it, and the sweeper
\* repeats it, until close_all stops it: nothing obliges it to sweep again.
Expirable == {s \in Listed : runners[s] \notin turn}

ToClose(t) ==
  IF t \in Closers THEN {Listed} \union {{s} : s \in Sessions} ELSE SUBSET Expirable

Choose(t) ==
  /\ pc[t] = "new"
  /\ \E ids \in ToClose(t) : todo' = [todo EXCEPT ![t] = ids]
  /\ Goto(t, "closing")
  /\ UNCHANGED <<runners, creating, sid, victim, streamVars, runnerVars>>

\* Faulty variant: the stream goes before the runner is closed.
PopAndUnregister(t) ==
  /\ pc[t] = "closing"
  /\ \E s \in todo[t] :
       /\ todo' = [todo EXCEPT ![t] = @ \ {s}]
       /\ runners' = [runners EXCEPT ![s] = None]
       /\ stream' = [stream EXCEPT ![s] = IF runners[s] = None THEN @ ELSE None]
       /\ sid' = [sid EXCEPT ![t] = s]
       /\ victim' = [victim EXCEPT ![t] = runners[s]]
       /\ Goto(t, IF runners[s] = None THEN "closing" ELSE "popped")
  /\ UNCHANGED <<creating, ended, runnerVars>>

Pop(t) ==
  /\ pc[t] = "closing"
  /\ \E s \in todo[t] :
       /\ todo' = [todo EXCEPT ![t] = @ \ {s}]
       /\ runners' = [runners EXCEPT ![s] = None]
       /\ sid' = [sid EXCEPT ![t] = s]
       /\ victim' = [victim EXCEPT ![t] = runners[s]]
       /\ Goto(t, IF runners[s] = None THEN "closing" ELSE "popped")
  /\ UNCHANGED <<creating, streamVars, runnerVars>>

\* SessionRunner.close waits five seconds for the tasks and five for the thread:
\* a loop held by a blocking tool outlives it.
CloseRunner(t) ==
  /\ pc[t] = "popped"
  /\ \E l \in {"gone", "late"} :
       /\ loop' = [loop EXCEPT ![victim[t]] = l]
       /\ turn' = IF l = "gone" THEN turn \ {victim[t]} ELSE turn
  /\ victim' = [victim EXCEPT ![t] = None]
  /\ Goto(t, "closed")
  /\ UNCHANGED <<runners, creating, todo, sid, streamVars>>

\* SSE_REGISTRY.close; a create that fails with its stream registered does it too.
CloseStream(t) ==
  /\ pc[t] \in {"closed", "broken"}
  /\ ended' = IF stream[sid[t]] = None THEN ended ELSE ended \union {sid[t]}
  /\ Goto(t, IF pc[t] = "closed" THEN "silent" ELSE "dismantled")
  /\ UNCHANGED <<runners, creating, stream, sid, closeVars, runnerVars>>

Unregister(t) ==
  /\ pc[t] \in {"silent", "dismantled"}
  /\ stream' = [stream EXCEPT ![sid[t]] = None]
  /\ ended' = ended \ {sid[t]}
  /\ Goto(t, IF pc[t] = "silent" THEN "closing" ELSE "raising")
  /\ UNCHANGED <<runners, creating, sid, closeVars, runnerVars>>

AllClosed(t) ==
  /\ pc[t] = "closing" /\ todo[t] = {}
  /\ Goto(t, CASE t \in Creators -> "swept" [] t \in Closers -> "done" [] OTHER -> "new")
  /\ UNCHANGED <<runners, creating, sid, closeVars, streamVars, runnerVars>>

-----------------------------------------------------------------------------
(* create_session after its sweep.  The id is new, or that of a session the *)
(* resume route did not find a moment ago.                                  *)

\* Faulty variant: sessions being created do not count.
ClaimListed(t) ==
  /\ pc[t] = "swept"
  /\ \E s \in Sessions : sid' = [sid EXCEPT ![t] = s]
  /\ IF Cardinality(Listed) < MaxSessions
       THEN creating' = creating + 1 /\ Goto(t, "claimed")
       ELSE creating' = creating /\ Goto(t, "refused")
  /\ UNCHANGED <<runners, closeVars, streamVars, runnerVars>>

Claim(t) ==
  /\ pc[t] = "swept"
  /\ \E s \in Sessions : sid' = [sid EXCEPT ![t] = s]
  /\ IF Cardinality(Listed) + creating < MaxSessions
       THEN creating' = creating + 1 /\ Goto(t, "claimed")
       ELSE creating' = creating /\ Goto(t, "refused")
  /\ UNCHANGED <<runners, closeVars, streamVars, runnerVars>>

\* Faulty variant: a failed registration is cleaned up like a failed build.
RegisterAssumed(t) ==
  /\ pc[t] = "claimed"
  /\ IF stream[sid[t]] = None
       THEN stream' = [stream EXCEPT ![sid[t]] = t] /\ Goto(t, "registered")
       ELSE stream' = stream /\ Goto(t, "broken")
  /\ UNCHANGED <<runners, creating, ended, sid, closeVars, runnerVars>>

Register(t) ==
  /\ pc[t] = "claimed"
  /\ IF stream[sid[t]] = None
       THEN stream' = [stream EXCEPT ![sid[t]] = t] /\ Goto(t, "registered")
       ELSE stream' = stream /\ Goto(t, "raising")
  /\ UNCHANGED <<runners, creating, ended, sid, closeVars, runnerVars>>

Build(t) ==
  /\ pc[t] = "registered"
  /\ loop' = [loop EXCEPT ![t] = "open"]
  /\ Goto(t, "built")
  /\ UNCHANGED <<runners, creating, sid, turn>>
  /\ UNCHANGED <<closeVars, streamVars>>

\* Faulty variant: a failed construction leaves its stream registered.
BuildFailsOnly(t) ==
  /\ pc[t] = "registered"
  /\ \E l \in {"none", "leaked"} : loop' = [loop EXCEPT ![t] = l]
  /\ Goto(t, "raising")
  /\ UNCHANGED <<runners, creating, sid, turn>>
  /\ UNCHANGED <<closeVars, streamVars>>

\* The constructor raises, before or after it started the loop's thread: the
\* name runner is not bound yet, and nothing closes that thread.
BuildFails(t) ==
  /\ pc[t] = "registered"
  /\ \E l \in {"none", "leaked"} : loop' = [loop EXCEPT ![t] = l]
  /\ Goto(t, "broken")
  /\ UNCHANGED <<runners, creating, sid, turn>>
  /\ UNCHANGED <<closeVars, streamVars>>

\* The finally block: the slot is given back and the runner listed in one section.
Finish(t) ==
  /\ pc[t] \in {"built", "raising"}
  /\ creating' = creating - 1
  /\ runners' = IF pc[t] = "built" THEN [runners EXCEPT ![sid[t]] = t] ELSE runners
  /\ Goto(t, IF pc[t] = "built" THEN "done" ELSE "refused")
  /\ UNCHANGED <<sid, closeVars, streamVars, runnerVars>>

-----------------------------------------------------------------------------
(* The runners, as far as the directory sees them: their turns.  Requests   *)
(* that hold a runner without running a turn on it change nothing here.     *)

\* submit_turn, by a request that got the runner while it was listed; the runner
\* may be chosen by a sweep, or popped, since.
SubmitTurn(r) ==
  /\ pc[r] = "done" /\ loop[r] = "open" /\ r \notin turn
  /\ turn' = turn \union {r}
  /\ UNCHANGED <<runners, creating, pc, sid, loop, closeVars, streamVars>>

EndTurn(r) ==
  /\ r \in turn
  /\ turn' = turn \ {r}
  /\ loop' = IF loop[r] = "late" THEN [loop EXCEPT ![r] = "gone"] ELSE loop
  /\ UNCHANGED <<runners, creating, pc, sid, closeVars, streamVars>>

-----------------------------------------------------------------------------
Init ==
  /\ runners = [s \in Sessions |-> None]
  /\ stream = [s \in Sessions |-> None]
  /\ creating = 0
  /\ ended = {} /\ turn = {}
  /\ pc = [t \in Threads |-> "new"]
  /\ todo = [t \in Threads |-> {}]
  /\ sid = [t \in Threads |-> None]
  /\ victim = [t \in Threads |-> None]
  /\ loop = [r \in Creators |-> "none"]

Closing(t) ==
  Pop(t) \/ CloseRunner(t) \/ CloseStream(t) \/ Unregister(t) \/ AllClosed(t)

Creating(t) ==
  Claim(t) \/ Register(t) \/ Build(t) \/ BuildFails(t) \/ Finish(t)

Next ==
  \/ \E t \in Threads : Choose(t) \/ Closing(t)
  \/ \E t \in Creators : Creating(t)
  \/ \E r \in Creators : SubmitTurn(r) \/ EndTurn(r)

\* Threads run, and close and the constructor have timeouts.
Fairness ==
  /\ \A t \in Threads : WF_vars(Closing(t))
  /\ \A t \in Creators : WF_vars(Creating(t))

Spec == Init /\ [][Next]_vars /\ Fairness

-----------------------------------------------------------------------------
(* Properties.                                                             *)

\* A session's stream is there before its runner can emit, and as long as the
\* runner is listed it is the runner's own and open: creates and closes of one
\* id by other threads do not take it away.
LiveSessionHasItsStream ==
  \A r \in Creators :
    pc[r] = "built" \/ (\E s \in Sessions : runners[s] = r) =>
      stream[sid[r]] = r /\ sid[r] \notin ended

InCreation == {t \in Creators : pc[t] \in
                 {"claimed", "registered", "built", "broken", "dismantled", "raising"}}

\* Listed sessions and those being created stay within the limit together, and
\* every slot taken belongs to a thread that is still creating.
WithinLimit ==
  /\ Cardinality(Listed) + creating =< MaxSessions
  /\ creating = Cardinality(InCreation)

\* _emit_event finds the stream by the session's id.  What a turn's coroutine
\* emits does not reach a later session that uses the id again, unless the loop's
\* thread outlived the timeouts of its close.  It says nothing of the threads that
\* got the runner by get() before it was closed: run_verb, set_plan_mode and the
\* progress callbacks of worker threads emit by id whenever they get to it, after
\* a close without any timeout as well.
TurnEventsStayInTheirSession ==
  \A r \in turn : stream[sid[r]] \in {None, r} \/ loop[r] = "late"

\* A stream without a session is on its way to be listed or unregistered: no
\* failed create or close leaves an id that can never be registered again.
StreamsAreNotStranded ==
  \A s \in Sessions :
    stream[s] # None /\ runners[s] = None ~> stream[s] = None \/ runners[s] # None
=============================================================================
