----------------------- MODULE SessionDirectoryProofs -----------------------
(***************************************************************************)
(* What the directory guarantees for any ids, any creating, closing and     *)
(* sweeping threads, and any limit.  That no id stays stranded rests on     *)
(* fairness and is left to TLC.                                            *)
(***************************************************************************)
EXTENDS SessionDirectory, FiniteSetTheorems, TLAPS

Labels == {"new", "closing", "popped", "closed", "silent", "swept", "claimed",
           "registered", "built", "broken", "dismantled", "raising", "done", "refused"}

\* Who answers for a registered stream: the thread that registered it, until the
\* runner is listed, and then the thread that took the runner out.
Holding(t) == pc[t] \in {"registered", "built", "broken", "dismantled"}
Ending(t) == pc[t] \in {"popped", "closed", "silent"}

TypeOK ==
  /\ runners \in [Sessions -> Creators \union {None}]
  /\ stream \in [Sessions -> Creators \union {None}]
  /\ ended \in SUBSET Sessions
  /\ pc \in [Threads -> Labels]
  /\ todo \in [Threads -> SUBSET Sessions]
  /\ sid \in [Threads -> Sessions \union {None}]
  /\ victim \in [Threads -> Creators \union {None}]
  /\ loop \in [Creators -> {"none", "open", "late", "gone", "leaked"}]
  /\ turn \in SUBSET Creators

\* Threads that answer for an id have one, and a popped runner is a runner.
Named ==
  \A t \in Threads :
    /\ Holding(t) \/ Ending(t) \/ pc[t] = "claimed" => sid[t] \in Sessions
    /\ pc[t] = "done" /\ t \in Creators => sid[t] \in Sessions
    /\ pc[t] = "popped" => victim[t] \in Creators

HolderInv ==
  \A t \in Threads : Holding(t) =>
    /\ stream[sid[t]] = t
    /\ runners[sid[t]] = None
    /\ pc[t] # "dismantled" => sid[t] \notin ended

ListedInv ==
  \A s \in Sessions : runners[s] # None =>
    /\ stream[s] = runners[s]
    /\ sid[runners[s]] = s
    /\ pc[runners[s]] = "done"
    /\ s \notin ended

EndingInv ==
  \A t \in Threads : Ending(t) =>
    /\ runners[sid[t]] = None
    /\ stream[sid[t]] \in Creators
    /\ pc[stream[sid[t]]] = "done"
    /\ pc[t] = "popped" => stream[sid[t]] = victim[t]
    /\ pc[t] # "popped" => loop[stream[sid[t]]] # "open"

OneEnds ==
  \A t, u \in Threads : Ending(t) /\ Ending(u) /\ sid[t] = sid[u] => t = u

NoneEnded == \A s \in Sessions : stream[s] = None => s \notin ended

\* A runner whose loop was not closed still has its stream.
OpenInv ==
  \A r \in Creators : pc[r] = "done" /\ loop[r] = "open" => stream[sid[r]] = r

TurnInv ==
  \A r \in turn : pc[r] = "done" /\ loop[r] \in {"open", "late"}

StreamInv ==
  /\ TypeOK /\ Named /\ HolderInv /\ ListedInv /\ EndingInv
  /\ OneEnds /\ NoneEnded /\ OpenInv /\ TurnInv

-----------------------------------------------------------------------------
LEMMA StreamInit == Init => StreamInv
  BY DirectoryAssumption DEF Init, StreamInv, TypeOK, Named, HolderInv, ListedInv,
     EndingInv, OneEnds, NoneEnded, OpenInv, TurnInv, Holding, Ending, Labels, Threads

\* One lemma per group of steps: no step of one thread disturbs what another
\* thread, or the directory, holds.
LEMMA ChooseStep ==
  ASSUME StreamInv, NEW t \in Threads, Choose(t) \/ AllClosed(t)
  PROVE  StreamInv'
<1> USE DirectoryAssumption DEF Goto, runnerVars, streamVars, closeVars, Threads
<1>1. TypeOK'
  <2>1. CASE Choose(t)
    <3>1. PICK ids \in ToClose(t) : todo' = [todo EXCEPT ![t] = ids]
      BY <2>1 DEF Choose
    <3>2. ids \in SUBSET Sessions
      BY <3>1 DEF ToClose, Expirable, Listed
    <3>3. QED
      BY <2>1, <3>1, <3>2 DEF StreamInv, TypeOK, Labels, Choose
  <2>2. CASE AllClosed(t)
    BY <2>2 DEF StreamInv, TypeOK, Labels, AllClosed
  <2>3. QED
    BY <2>1, <2>2
<1>2. QED
  BY <1>1 DEF Choose, AllClosed, StreamInv, TypeOK, Named, HolderInv, ListedInv, EndingInv,
     OneEnds, NoneEnded, OpenInv, TurnInv, Holding, Ending, Labels

LEMMA PopStep ==
  ASSUME StreamInv, NEW t \in Threads, Pop(t)
  PROVE  StreamInv'
<1> USE DirectoryAssumption DEF Goto, runnerVars, streamVars, closeVars, Threads, StreamInv
<1>1. PICK s \in todo[t] :
        /\ todo' = [todo EXCEPT ![t] = @ \ {s}]
        /\ runners' = [runners EXCEPT ![s] = None]
        /\ sid' = [sid EXCEPT ![t] = s]
        /\ victim' = [victim EXCEPT ![t] = runners[s]]
        /\ pc' = [pc EXCEPT ![t] = IF runners[s] = None THEN "closing" ELSE "popped"]
  BY DEF Pop
<1>2. s \in Sessions /\ pc[t] = "closing"
  BY DEF Pop, TypeOK
<1>3. UNCHANGED <<stream, ended, loop, turn>>
  BY DEF Pop
<1>4. TypeOK'
  BY <1>1, <1>2, <1>3 DEF TypeOK, Labels
<1>5. Named' /\ HolderInv' /\ ListedInv'
  BY <1>1, <1>2, <1>3 DEF TypeOK, Named, HolderInv, ListedInv, Holding, Ending
<1>6. EndingInv' /\ OneEnds'
  BY <1>1, <1>2, <1>3 DEF TypeOK, Named, HolderInv, ListedInv, EndingInv, OneEnds, Holding, Ending
<1>7. NoneEnded' /\ OpenInv' /\ TurnInv'
  BY <1>1, <1>2, <1>3 DEF TypeOK, NoneEnded, OpenInv, TurnInv
<1>8. QED
  BY <1>4, <1>5, <1>6, <1>7

LEMMA CloseRunnerStep ==
  ASSUME StreamInv, NEW t \in Threads, CloseRunner(t)
  PROVE  StreamInv'
<1> USE DirectoryAssumption DEF Goto, runnerVars, streamVars, closeVars, Threads, StreamInv
<1>1. PICK l \in {"gone", "late"} :
        /\ loop' = [loop EXCEPT ![victim[t]] = l]
        /\ turn' = IF l = "gone" THEN turn \ {victim[t]} ELSE turn
  BY DEF CloseRunner
<1>2. /\ pc[t] = "popped" /\ pc' = [pc EXCEPT ![t] = "closed"]
      /\ victim' = [victim EXCEPT ![t] = None]
      /\ UNCHANGED <<runners, todo, sid, stream, ended>>
      /\ victim[t] \in Creators
  BY DEF CloseRunner, Named
<1>3. TypeOK'
  BY <1>1, <1>2 DEF TypeOK, Labels
<1>4. Named' /\ HolderInv' /\ ListedInv' /\ NoneEnded'
  BY <1>2 DEF TypeOK, Named, HolderInv, ListedInv, NoneEnded, Holding, Ending
<1>5. EndingInv' /\ OneEnds'
  BY <1>1, <1>2 DEF TypeOK, Named, EndingInv, OneEnds, Holding, Ending
<1>6. OpenInv' /\ TurnInv'
  BY <1>1, <1>2 DEF TypeOK, OpenInv, TurnInv
<1>7. QED
  BY <1>3, <1>4, <1>5, <1>6

LEMMA CloseStreamStep ==
  ASSUME StreamInv, NEW t \in Threads, CloseStream(t)
  PROVE  StreamInv'
<1> USE DirectoryAssumption DEF Goto, runnerVars, streamVars, closeVars, Threads, StreamInv
<1>0. pc[t] \in {"closed", "broken"}
  BY DEF CloseStream
<1>a. stream[sid[t]] # None /\ sid[t] \in Sessions
  BY <1>0 DEF Named, HolderInv, EndingInv, Holding, Ending
<1>1. /\ pc[t] \in {"closed", "broken"}
      /\ pc' = [pc EXCEPT ![t] = IF pc[t] = "closed" THEN "silent" ELSE "dismantled"]
      /\ stream[sid[t]] # None /\ sid[t] \in Sessions
      /\ ended' = ended \union {sid[t]}
      /\ UNCHANGED <<runners, todo, sid, stream, victim, loop, turn>>
  BY <1>0, <1>a DEF CloseStream
<1>2. TypeOK' /\ Named'
  BY <1>1 DEF TypeOK, Labels, Named, Holding, Ending
<1>3. HolderInv' /\ ListedInv' /\ NoneEnded'
  BY <1>1 DEF TypeOK, Named, HolderInv, ListedInv, EndingInv, NoneEnded, Holding, Ending
<1>4. EndingInv' /\ OneEnds'
  BY <1>1 DEF TypeOK, Named, EndingInv, OneEnds, Holding, Ending
<1>5. OpenInv' /\ TurnInv'
  BY <1>1 DEF TypeOK, OpenInv, TurnInv
<1>6. QED
  BY <1>2, <1>3, <1>4, <1>5

LEMMA UnregisterStep ==
  ASSUME StreamInv, NEW t \in Threads, Unregister(t)
  PROVE  StreamInv'
<1> USE DirectoryAssumption DEF Goto, runnerVars, streamVars, closeVars, Threads, StreamInv
<1>0. pc[t] \in {"silent", "dismantled"}
  BY DEF Unregister
<1>a. sid[t] \in Sessions
  BY <1>0 DEF Named, Holding, Ending
<1>1. /\ pc[t] \in {"silent", "dismantled"} /\ sid[t] \in Sessions
      /\ pc' = [pc EXCEPT ![t] = IF pc[t] = "silent" THEN "closing" ELSE "raising"]
      /\ stream' = [stream EXCEPT ![sid[t]] = None]
      /\ ended' = ended \ {sid[t]}
      /\ UNCHANGED <<runners, todo, sid, victim, loop, turn>>
  BY <1>0, <1>a DEF Unregister
<1>2. runners[sid[t]] = None
  BY <1>1 DEF HolderInv, EndingInv, Holding, Ending
<1>3. TypeOK' /\ Named'
  BY <1>1 DEF TypeOK, Labels, Named, Holding, Ending
<1>4. HolderInv'
  BY <1>1 DEF TypeOK, Named, HolderInv, EndingInv, Holding, Ending
<1>5. ListedInv' /\ NoneEnded' /\ TurnInv'
  BY <1>1, <1>2 DEF TypeOK, ListedInv, NoneEnded, TurnInv
<1>6. EndingInv' /\ OneEnds'
  BY <1>1 DEF TypeOK, Named, HolderInv, EndingInv, OneEnds, Holding, Ending
<1>7. OpenInv'
  BY <1>1 DEF TypeOK, Named, HolderInv, EndingInv, OpenInv, Holding, Ending
<1>8. QED
  BY <1>3, <1>4, <1>5, <1>6, <1>7

LEMMA ClaimStep ==
  ASSUME StreamInv, NEW t \in Creators, Claim(t)
  PROVE  StreamInv'
<1> USE DirectoryAssumption DEF Goto, runnerVars, streamVars, closeVars, Threads, StreamInv
<1>1. PICK s \in Sessions : sid' = [sid EXCEPT ![t] = s]
  BY DEF Claim
<1>2. PICK l \in {"claimed", "refused"} : pc' = [pc EXCEPT ![t] = l]
  BY DEF Claim
<1>3. pc[t] = "swept" /\ UNCHANGED <<runners, todo, stream, ended, victim, loop, turn>>
  BY DEF Claim
<1>4. TypeOK'
  BY <1>1, <1>2, <1>3 DEF TypeOK, Labels
<1>5. Named' /\ HolderInv' /\ ListedInv' /\ NoneEnded'
  BY <1>1, <1>2, <1>3 DEF TypeOK, Named, HolderInv, ListedInv, NoneEnded, Holding, Ending
<1>6. EndingInv' /\ OneEnds'
  BY <1>1, <1>2, <1>3 DEF TypeOK, Named, EndingInv, OneEnds, Holding, Ending
<1>7. OpenInv' /\ TurnInv'
  BY <1>1, <1>2, <1>3 DEF TypeOK, OpenInv, TurnInv
<1>8. QED
  BY <1>4, <1>5, <1>6, <1>7

LEMMA RegisterStep ==
  ASSUME StreamInv, NEW t \in Creators, Register(t)
  PROVE  StreamInv'
<1> USE DirectoryAssumption DEF Goto, runnerVars, streamVars, closeVars, Threads, StreamInv
<1>1. pc[t] = "claimed" /\ sid[t] \in Sessions
  BY DEF Register, Named
<1>2. UNCHANGED <<runners, todo, ended, sid, victim, loop, turn>>
  BY DEF Register
<1>3. CASE stream[sid[t]] = None
  <2>1. /\ stream' = [stream EXCEPT ![sid[t]] = t]
        /\ pc' = [pc EXCEPT ![t] = "registered"]
    BY <1>3 DEF Register
  <2>2. TypeOK' /\ Named'
    BY <1>1, <1>2, <2>1 DEF TypeOK, Labels, Named, Holding, Ending
  <2>3. HolderInv'
    BY <1>1, <1>2, <1>3, <2>1 DEF TypeOK, Named, HolderInv, ListedInv, NoneEnded, Holding, Ending
  <2>4. ListedInv' /\ NoneEnded' /\ TurnInv'
    BY <1>1, <1>2, <1>3, <2>1 DEF TypeOK, ListedInv, NoneEnded, TurnInv
  <2>5. EndingInv' /\ OneEnds'
    BY <1>1, <1>2, <1>3, <2>1 DEF TypeOK, Named, EndingInv, OneEnds, Holding, Ending
  <2>6. OpenInv'
    BY <1>1, <1>2, <1>3, <2>1 DEF TypeOK, Named, OpenInv
  <2>7. QED
    BY <2>2, <2>3, <2>4, <2>5, <2>6
<1>4. CASE stream[sid[t]] # None
  <2>1. stream' = stream /\ pc' = [pc EXCEPT ![t] = "raising"]
    BY <1>4 DEF Register
  <2>2. QED
    BY <1>1, <1>2, <2>1 DEF TypeOK, Labels, Named, HolderInv, ListedInv, EndingInv,
       OneEnds, NoneEnded, OpenInv, TurnInv, Holding, Ending
<1>5. QED
  BY <1>3, <1>4

LEMMA BuildStep ==
  ASSUME StreamInv, NEW t \in Creators, Build(t) \/ BuildFails(t)
  PROVE  StreamInv'
<1> USE DirectoryAssumption DEF Goto, runnerVars, streamVars, closeVars, Threads, StreamInv
<1>1. PICK l \in {"open", "none", "leaked"} : loop' = [loop EXCEPT ![t] = l]
  BY DEF Build, BuildFails
<1>2. PICK b \in {"built", "broken"} : pc' = [pc EXCEPT ![t] = b]
  BY DEF Build, BuildFails
<1>3. /\ pc[t] = "registered" /\ sid[t] \in Sessions
      /\ UNCHANGED <<runners, todo, stream, ended, sid, victim, turn>>
  BY DEF Build, BuildFails, Named, Holding
<1>4. TypeOK' /\ Named'
  BY <1>1, <1>2, <1>3 DEF TypeOK, Labels, Named, Holding, Ending
<1>5. HolderInv' /\ ListedInv' /\ NoneEnded'
  BY <1>1, <1>2, <1>3 DEF TypeOK, Named, HolderInv, ListedInv, NoneEnded, Holding, Ending
<1>6. EndingInv' /\ OneEnds'
  BY <1>1, <1>2, <1>3 DEF TypeOK, Named, EndingInv, OneEnds, Holding, Ending
<1>7. OpenInv' /\ TurnInv'
  BY <1>1, <1>2, <1>3 DEF TypeOK, OpenInv, TurnInv
<1>8. QED
  BY <1>4, <1>5, <1>6, <1>7

LEMMA FinishStep ==
  ASSUME StreamInv, NEW t \in Creators, Finish(t)
  PROVE  StreamInv'
<1> USE DirectoryAssumption DEF Goto, runnerVars, streamVars, closeVars, Threads, StreamInv
<1>1. UNCHANGED <<todo, stream, ended, sid, victim, loop, turn>>
  BY DEF Finish
<1>2. CASE pc[t] = "built"
  <2>1. /\ runners' = [runners EXCEPT ![sid[t]] = t]
        /\ pc' = [pc EXCEPT ![t] = "done"]
        /\ sid[t] \in Sessions /\ stream[sid[t]] = t /\ sid[t] \notin ended
    BY <1>2 DEF Finish, Named, HolderInv, Holding
  <2>2. TypeOK' /\ Named'
    BY <1>1, <1>2, <2>1 DEF TypeOK, Labels, Named, Holding, Ending
  <2>3. HolderInv' /\ NoneEnded'
    BY <1>1, <1>2, <2>1 DEF TypeOK, Named, HolderInv, NoneEnded, Holding
  <2>4. ListedInv'
    BY <1>1, <1>2, <2>1 DEF TypeOK, ListedInv
  <2>5. EndingInv' /\ OneEnds'
    BY <1>1, <1>2, <2>1 DEF TypeOK, Named, EndingInv, OneEnds, Ending
  <2>6. OpenInv' /\ TurnInv'
    BY <1>1, <1>2, <2>1 DEF TypeOK, OpenInv, TurnInv
  <2>7. QED
    BY <2>2, <2>3, <2>4, <2>5, <2>6
<1>3. CASE pc[t] = "raising"
  <2>1. runners' = runners /\ pc' = [pc EXCEPT ![t] = "refused"]
    BY <1>3 DEF Finish
  <2>2. QED
    BY <1>1, <1>3, <2>1 DEF TypeOK, Labels, Named, HolderInv, ListedInv, EndingInv,
       OneEnds, NoneEnded, OpenInv, TurnInv, Holding, Ending
<1>4. QED
  BY <1>2, <1>3 DEF Finish

LEMMA TurnStep ==
  ASSUME StreamInv, NEW r \in Creators, SubmitTurn(r) \/ EndTurn(r)
  PROVE  StreamInv'
<1> USE DirectoryAssumption DEF runnerVars, streamVars, closeVars, Threads, StreamInv
<1>1. UNCHANGED <<runners, pc, todo, stream, ended, sid, victim>>
  BY DEF SubmitTurn, EndTurn
<1>2. TypeOK' /\ OpenInv' /\ TurnInv'
  BY <1>1 DEF SubmitTurn, EndTurn, TypeOK, OpenInv, TurnInv
<1>3. Named' /\ HolderInv' /\ ListedInv' /\ OneEnds' /\ NoneEnded'
  BY <1>1 DEF Named, HolderInv, ListedInv, OneEnds, NoneEnded, Holding, Ending
<1>4. EndingInv'
  BY <1>1 DEF SubmitTurn, EndTurn, TypeOK, EndingInv, Ending
<1>5. QED
  BY <1>2, <1>3, <1>4

LEMMA StreamStep ==
  ASSUME StreamInv, [Next]_vars
  PROVE  StreamInv'
<1>1. CASE Next
  BY <1>1, ChooseStep, PopStep, CloseRunnerStep, CloseStreamStep, UnregisterStep,
     ClaimStep, RegisterStep, BuildStep, FinishStep, TurnStep DEF Next, Closing, Creating
<1>2. CASE UNCHANGED vars
  BY <1>2 DEF vars, StreamInv, TypeOK, Named, HolderInv, ListedInv, EndingInv,
     OneEnds, NoneEnded, OpenInv, TurnInv, Holding, Ending
<1>3. QED
  BY <1>1, <1>2

LEMMA StreamInvariant == Spec => []StreamInv
  BY StreamInit, StreamStep, PTL DEF Spec

\* However creates, closes and sweeps of one id overlap, a listed runner has its
\* own open stream, and so has one that is built and about to be listed.
THEOREM StreamsOfLiveSessions == Spec => []LiveSessionHasItsStream
<1>1. StreamInv => LiveSessionHasItsStream
  BY DirectoryAssumption DEF StreamInv, LiveSessionHasItsStream, TypeOK, HolderInv,
     ListedInv, Holding, Threads
<1>2. QED
  BY <1>1, StreamInvariant, PTL

\* Events of a turn reach the stream of a later session of the same id only from
\* a loop whose thread outlived its close.  (Requests that hold a closed runner
\* emit by id as well; the theorem does not speak of them.)
THEOREM TurnEventsOfOneRunner == Spec => []TurnEventsStayInTheirSession
<1>1. StreamInv => TurnEventsStayInTheirSession
  BY DEF StreamInv, TurnEventsStayInTheirSession, TypeOK, OpenInv, TurnInv
<1>2. QED
  BY <1>1, StreamInvariant, PTL

-----------------------------------------------------------------------------
\* The two counts of the limit are cardinalities of finite sets.
LimitInv == IsFiniteSet(Listed) /\ creating \in Int /\ WithinLimit

LEMMA SlotsFinite == IsFiniteSet(InCreation) /\ Cardinality(InCreation) \in Nat
  BY DirectoryAssumption, FS_Subset, FS_CardinalityType DEF InCreation

LEMMA LimitStep ==
  ASSUME StreamInv, LimitInv, [Next]_vars
  PROVE  LimitInv'
<1> USE DEF Goto
<1>1. MaxSessions \in Nat /\ Cardinality(Listed) \in Nat /\ Cardinality(InCreation) \in Nat
  BY DirectoryAssumption, SlotsFinite, FS_CardinalityType DEF LimitInv
<1>2. ASSUME InCreation' = InCreation, Listed' = Listed, creating' = creating
      PROVE  LimitInv'
  BY <1>2 DEF LimitInv, WithinLimit
<1>3. ASSUME NEW t \in Threads, Choose(t) \/ AllClosed(t)
      PROVE  LimitInv'
  <2>1. PICK l \in {"closing", "swept", "done", "new"} : pc' = [pc EXCEPT ![t] = l]
    BY <1>3 DEF Choose, AllClosed
  <2>2. pc[t] \in {"new", "closing"} /\ UNCHANGED <<runners, creating>>
    BY <1>3 DEF Choose, AllClosed
  <2>3. QED
    BY <1>2, <2>1, <2>2 DEF InCreation, Listed, StreamInv, TypeOK
<1>4. ASSUME NEW t \in Threads, CloseRunner(t) \/ CloseStream(t) \/ Unregister(t)
      PROVE  LimitInv'
  <2>1. UNCHANGED <<runners, creating>>
    BY <1>4 DEF CloseRunner, CloseStream, Unregister
  <2>2. \/ pc[t] = "popped" /\ pc' = [pc EXCEPT ![t] = "closed"]
        \/ pc[t] = "closed" /\ pc' = [pc EXCEPT ![t] = "silent"]
        \/ pc[t] = "broken" /\ pc' = [pc EXCEPT ![t] = "dismantled"]
        \/ pc[t] = "silent" /\ pc' = [pc EXCEPT ![t] = "closing"]
        \/ pc[t] = "dismantled" /\ pc' = [pc EXCEPT ![t] = "raising"]
    BY <1>4 DEF CloseRunner, CloseStream, Unregister
  <2>3. PICK l \in Labels :
          /\ pc' = [pc EXCEPT ![t] = l]
          /\ l \in {"dismantled", "raising"} <=> pc[t] \in {"broken", "dismantled"}
          /\ l \notin {"claimed", "registered", "built", "broken"}
          /\ pc[t] \notin {"claimed", "registered", "built", "raising"}
    BY <2>2 DEF Labels
  <2>4. InCreation' = InCreation
    BY <2>3 DEF InCreation, StreamInv, TypeOK
  <2>5. QED
    BY <1>2, <2>1, <2>4 DEF Listed
<1>5. ASSUME NEW t \in Threads, Pop(t)
      PROVE  LimitInv'
  <2>1. PICK s \in todo[t] :
          /\ runners' = [runners EXCEPT ![s] = None]
          /\ pc' = [pc EXCEPT ![t] = IF runners[s] = None THEN "closing" ELSE "popped"]
    BY <1>5 DEF Pop
  <2>2. pc[t] = "closing" /\ creating' = creating /\ s \in Sessions
    BY <1>5 DEF Pop, StreamInv, TypeOK
  <2>3. InCreation' = InCreation
    BY <2>1, <2>2 DEF InCreation, StreamInv, TypeOK
  <2>4. Listed' = Listed \ {s}
    BY <2>1, <2>2 DEF Listed, StreamInv, TypeOK
  <2>5. IsFiniteSet(Listed') /\ Cardinality(Listed') \in Nat
        /\ Cardinality(Listed') =< Cardinality(Listed)
    BY <2>4, FS_Subset, FS_CardinalityType DEF LimitInv
  <2>6. QED
    BY <1>1, <2>2, <2>3, <2>5 DEF LimitInv, WithinLimit
<1>6. ASSUME NEW t \in Creators, Claim(t)
      PROVE  LimitInv'
  <2>1. pc[t] = "swept" /\ Listed' = Listed /\ t \notin InCreation
    BY <1>6 DEF Claim, Listed, InCreation
  <2>2. CASE Cardinality(Listed) + creating < MaxSessions
    <3>1. InCreation' = InCreation \union {t}
      BY <1>6, <2>1, <2>2 DEF Claim, InCreation, StreamInv, TypeOK, Threads
    <3>2. Cardinality(InCreation') = Cardinality(InCreation) + 1
      BY <2>1, <3>1, SlotsFinite, FS_AddElement
    <3>3. creating' = creating + 1
      BY <1>6, <2>2 DEF Claim
    <3>4. QED
      BY <1>1, <2>1, <2>2, <3>2, <3>3 DEF LimitInv, WithinLimit
  <2>3. CASE ~(Cardinality(Listed) + creating < MaxSessions)
    <3>1. creating' = creating /\ pc' = [pc EXCEPT ![t] = "refused"]
      BY <1>6, <2>3 DEF Claim
    <3>2. InCreation' = InCreation
      BY <2>1, <3>1 DEF InCreation, StreamInv, TypeOK
    <3>3. QED
      BY <1>2, <2>1, <3>1, <3>2
  <2>4. QED
    BY <2>2, <2>3
<1>7. ASSUME NEW t \in Creators, Register(t)
      PROVE  LimitInv'
  <2>1. PICK l \in {"registered", "raising"} : pc' = [pc EXCEPT ![t] = l]
    BY <1>7 DEF Register
  <2>2. pc[t] = "claimed" /\ UNCHANGED <<runners, creating>>
    BY <1>7 DEF Register
  <2>3. QED
    BY <1>2, <2>1, <2>2 DEF InCreation, Listed, StreamInv, TypeOK
<1>8. ASSUME NEW t \in Creators, Build(t) \/ BuildFails(t)
      PROVE  LimitInv'
  <2>1. PICK l \in {"built", "broken"} : pc' = [pc EXCEPT ![t] = l]
    BY <1>8 DEF Build, BuildFails
  <2>2. pc[t] = "registered" /\ UNCHANGED <<runners, creating>>
    BY <1>8 DEF Build, BuildFails
  <2>3. QED
    BY <1>2, <2>1, <2>2 DEF InCreation, Listed, StreamInv, TypeOK
<1>9. ASSUME NEW t \in Creators, Finish(t)
      PROVE  LimitInv'
  <2>1. t \in InCreation /\ creating' = creating - 1
    BY <1>9 DEF Finish, InCreation
  <2>2. InCreation' = InCreation \ {t}
    BY <1>9 DEF Finish, InCreation, StreamInv, TypeOK, Threads
  <2>3. Cardinality(InCreation') = Cardinality(InCreation) - 1
    BY <2>1, <2>2, SlotsFinite, FS_RemoveElement
  <2>4. IsFiniteSet(Listed') /\ Cardinality(Listed') \in Nat
        /\ Cardinality(Listed') =< Cardinality(Listed) + 1
    <3>1. Listed' = Listed \/ Listed' = Listed \union {sid[t]}
      BY <1>9, DirectoryAssumption DEF Finish, Listed, StreamInv, TypeOK, Named, Holding, Threads
    <3>2. CASE Listed' = Listed
      BY <1>1, <3>2 DEF LimitInv
    <3>3. CASE Listed' = Listed \union {sid[t]}
      <4>1. /\ IsFiniteSet(Listed \union {sid[t]})
            /\ \/ Cardinality(Listed \union {sid[t]}) = Cardinality(Listed)
               \/ Cardinality(Listed \union {sid[t]}) = Cardinality(Listed) + 1
        BY FS_AddElement DEF LimitInv
      <4>2. QED
        BY <1>1, <3>3, <4>1
    <3>4. QED
      BY <3>1, <3>2, <3>3
  <2>5. QED
    BY <1>1, <2>1, <2>3, <2>4 DEF LimitInv, WithinLimit
<1>10. ASSUME NEW r \in Creators, SubmitTurn(r) \/ EndTurn(r)
       PROVE  LimitInv'
  BY <1>2, <1>10 DEF SubmitTurn, EndTurn, InCreation, Listed
<1>11. CASE UNCHANGED vars
  BY <1>2, <1>11 DEF vars, InCreation, Listed
<1>12. QED
  BY <1>3, <1>4, <1>5, <1>6, <1>7, <1>8, <1>9, <1>10, <1>11 DEF Next, Closing, Creating

\* The limit counts sessions being created: it holds at every moment, and every
\* create gives its slot back, listed or refused.
THEOREM LimitHolds == Spec => []WithinLimit
<1>1. Init => LimitInv
  <2>1. ASSUME Init
        PROVE  Listed = {} /\ InCreation = {} /\ creating = 0
    BY <2>1 DEF Init, Listed, InCreation, Threads
  <2>2. QED
    BY <2>1, DirectoryAssumption, FS_EmptySet DEF LimitInv, WithinLimit
<1>2. LimitInv => WithinLimit
  BY DEF LimitInv
<1>3. QED
  BY <1>1, <1>2, LimitStep, StreamInvariant, PTL DEF Spec
=============================================================================
