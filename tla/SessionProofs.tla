----------------------------- MODULE SessionProofs -----------------------------
(***************************************************************************)
(* What one session guarantees for every number of turns, calls, questions  *)
(* and events: the threads around its loop (SessionRunner), the questions   *)
(* of elicit and their answers (AskBridge), and the event stream to the     *)
(* browser (SseStream).  That turns end, calls are answered and questions   *)
(* end rests on fairness and is left to TLC.                               *)
(***************************************************************************)
EXTENDS SessionRunner, AskBridge, SseStream, SequenceTheorems, TLAPS

-----------------------------------------------------------------------------
(* SessionRunner.                                                          *)

\* A turn in flight holds the flag, and on an open loop the flag is held by one.
\* After the loop was closed the flag may stay up for a turn that never runs.
FlagInv ==
  /\ \A t \in Turns : Active(t) => inProgress
  /\ loop = "open" /\ inProgress => \E t \in Turns : Active(t)

\* A verb that has not been dispatched has no coroutine.
NotYetDispatched ==
  \A v \in Verbs : caller[v] \in {"new", "checked", "cleared"} => task[v] = "none"

\* Only close cancels a call's coroutine before its first step.
OnlyCloseCancels == \A c \in Calls : task[c] = "cancelled" => loop # "open"

Inv == TypeOK /\ OneTurn /\ FlagInv /\ NotYetDispatched /\ OnlyCloseCancels /\ VerbAccounting

\* The variables keep their types.
LEMMA TypeStep ==
  ASSUME TypeOK, [Next]_vars
  PROVE  TypeOK'
<1> USE CallAssumption DEF TypeOK, turnVars, callVars
<1>1. ASSUME NEW t \in Turns, Submit(t) \/ Schedule(t) \/ KeepFuture(t)
      PROVE  TypeOK'
  <2>1. CASE Submit(t)
    BY <2>1 DEF Submit, TurnStates
  <2>2. CASE Schedule(t)
    <3>1. turn' \in [Turns -> TurnStates]
      BY <2>2 DEF Schedule, TurnStates
    <3>2. future' \in [Turns -> {"none", "pending", "cancelled", "finished"}]
      BY <2>2 DEF Schedule
    <3>3. QED
      BY <2>2, <3>1, <3>2 DEF Schedule
  <2>3. CASE KeepFuture(t)
    BY <2>3 DEF KeepFuture
  <2>4. QED
    BY <1>1, <2>1, <2>2, <2>3
<1>2. ASSUME NEW t \in Turns, StartTurn(t) \/ EndTurn(t) \/ SettleFuture(t)
      PROVE  TypeOK'
  <2>1. CASE StartTurn(t)
    BY <2>1 DEF StartTurn, TurnStates
  <2>2. CASE EndTurn(t)
    BY <2>2 DEF EndTurn, TurnStates
  <2>3. CASE SettleFuture(t)
    BY <2>3 DEF SettleFuture
  <2>4. QED
    BY <1>2, <2>1, <2>2, <2>3
<1>3. ASSUME NEW s \in Stoppers, StopRead(s)
      PROVE  TypeOK'
  BY <1>3 DEF StopRead
<1>4. ASSUME NEW s \in Stoppers, StopCancel(s)
      PROVE  TypeOK'
  <2>1. stopper[s].turn \in Turns
    BY <1>4 DEF StopCancel
  <2>2. QED
    BY <1>4, <2>1 DEF StopCancel
<1>5. ASSUME NEW v \in Verbs, VerbCheck(v) \/ VerbGate(v) \/ VerbDispatch(v)
      PROVE  TypeOK'
  BY <1>5 DEF VerbCheck, VerbGate, VerbDispatch, Calls
<1>6. ASSUME NEW e \in Edits, EditDispatch(e)
      PROVE  TypeOK'
  BY <1>6 DEF EditDispatch, Calls
<1>7. ASSUME NEW c \in Calls, TaskStart(c) \/ TaskEnd(c) \/ CallReturn(c) \/ CallTimeout(c)
      PROVE  TypeOK'
  BY <1>7 DEF TaskStart, TaskEnd, CallReturn, CallTimeout
<1>8. CASE SetPlanMode
  BY <1>8 DEF SetPlanMode
<1>9. CASE CloseBegin
  <2>1. turn' \in [Turns -> TurnStates]
    BY <1>9 DEF CloseBegin, TurnStates
  <2>2. task' \in [Calls -> {"none", "queued", "running", "finished", "cancelled"}]
    BY <1>9 DEF CloseBegin
  <2>3. QED
    BY <1>9, <2>1, <2>2 DEF CloseBegin
<1>10. CASE CloseLoop
  BY <1>10 DEF CloseLoop
<1>11. CASE UNCHANGED vars
  BY <1>11 DEF vars
<1>12. QED
  BY <1>1, <1>2, <1>3, <1>4, <1>5, <1>6, <1>7, <1>8, <1>9, <1>10, <1>11 DEF Next

\* Turns and their flag: the steps that change either keep them together.
LEMMA TurnStep ==
  ASSUME TypeOK, OneTurn, FlagInv, [Next]_vars
  PROVE  OneTurn' /\ FlagInv'
<1> USE DEF TypeOK, OneTurn, FlagInv, Active
<1>1. CASE UNCHANGED <<turn, inProgress, loop>>
  BY <1>1
<1>2. ASSUME NEW t \in Turns, Submit(t)
      PROVE  OneTurn' /\ FlagInv'
  \* The flag was down, so no turn was in flight.
  BY <1>2 DEF Submit
<1>3. ASSUME NEW t \in Turns, Schedule(t)
      PROVE  OneTurn' /\ FlagInv'
  BY <1>3 DEF Schedule
<1>4. ASSUME NEW t \in Turns, StartTurn(t)
      PROVE  OneTurn' /\ FlagInv'
  BY <1>4 DEF StartTurn
<1>5. ASSUME NEW t \in Turns, EndTurn(t)
      PROVE  OneTurn' /\ FlagInv'
  \* The turn that ended was the only one in flight.
  BY <1>5 DEF EndTurn
<1>6. CASE CloseBegin
  BY <1>6 DEF CloseBegin
<1>7. CASE CloseLoop
  BY <1>7 DEF CloseLoop, turnVars
<1>8. QED
  BY <1>1, <1>2, <1>3, <1>4, <1>5, <1>6, <1>7 DEF Next, vars, turnVars, KeepFuture, SettleFuture,
     StopRead, StopCancel, SetPlanMode, VerbCheck, VerbGate, VerbDispatch, EditDispatch,
     TaskStart, TaskEnd, CallReturn, CallTimeout

\* The threads of verbs and their coroutines.
LEMMA VerbStep ==
  ASSUME TypeOK, NotYetDispatched, OnlyCloseCancels, VerbAccounting, [Next]_vars
  PROVE  NotYetDispatched' /\ OnlyCloseCancels' /\ VerbAccounting'
<1> USE CallAssumption DEF TypeOK, NotYetDispatched, OnlyCloseCancels, VerbAccounting, Calls
<1>1. CASE UNCHANGED <<caller, task, committed, loop>>
  BY <1>1
<1>2. ASSUME NEW v \in Verbs, VerbCheck(v) \/ VerbGate(v) \/ VerbDispatch(v)
      PROVE  NotYetDispatched' /\ OnlyCloseCancels' /\ VerbAccounting'
  BY <1>2 DEF VerbCheck, VerbGate, VerbDispatch
<1>3. ASSUME NEW e \in Edits, EditDispatch(e)
      PROVE  NotYetDispatched' /\ OnlyCloseCancels' /\ VerbAccounting'
  BY <1>3 DEF EditDispatch
<1>4. ASSUME NEW c \in Calls, TaskStart(c) \/ TaskEnd(c) \/ CallTimeout(c)
      PROVE  NotYetDispatched' /\ OnlyCloseCancels' /\ VerbAccounting'
  BY <1>4 DEF TaskStart, TaskEnd, CallTimeout
<1>5. ASSUME NEW c \in Calls, CallReturn(c)
      PROVE  NotYetDispatched' /\ OnlyCloseCancels' /\ VerbAccounting'
  BY <1>5 DEF CallReturn
<1>6. CASE CloseBegin
  <2>1. UNCHANGED <<caller, committed>> /\ loop' # "open"
    BY <1>6 DEF CloseBegin
  <2>2. \A c \in Calls : task'[c] = task[c] \/ (task[c] = "queued" /\ task'[c] = "cancelled")
    BY <1>6 DEF CloseBegin
  <2>3. QED
    BY <2>1, <2>2
<1>7. CASE CloseLoop
  BY <1>7 DEF CloseLoop, callVars
<1>8. QED
  BY <1>1, <1>2, <1>3, <1>4, <1>5, <1>6, <1>7 DEF Next, vars, callVars, Submit, Schedule, KeepFuture,
     StartTurn, EndTurn, SettleFuture, StopRead, StopCancel, SetPlanMode

LEMMA InvInit == Init => Inv
<1> SUFFICES ASSUME Init PROVE Inv
  OBVIOUS
<1>1. TypeOK
  BY DEF Init, TypeOK, TurnStates, NoTurn
<1>2. OneTurn /\ FlagInv
  BY DEF Init, OneTurn, FlagInv, Active
<1>3. NotYetDispatched /\ OnlyCloseCancels /\ VerbAccounting
  BY DEF Init, NotYetDispatched, OnlyCloseCancels, VerbAccounting, Calls
<1>4. QED
  BY <1>1, <1>2, <1>3 DEF Inv

LEMMA Invariance == Spec => []Inv
<1>1. Inv /\ [Next]_vars => Inv'
  BY TypeStep, TurnStep, VerbStep DEF Inv
<1>2. QED
  BY <1>1, InvInit, PTL DEF Spec

\* Type correctness of the session.
THEOREM Types == Spec => []TypeOK
BY Invariance, PTL DEF Inv

\* submit_turn's promise: two turns of a session never overlap, however many are
\* submitted, stopped or closed.
THEOREM TurnsDoNotOverlap == Spec => []OneTurn
BY Invariance, PTL DEF Inv

\* turn_in_progress tells the truth as long as the session is open.
THEOREM FlagIsExact == Spec => []FlagTracksTurn
<1>1. Inv => FlagTracksTurn
  BY DEF Inv, TypeOK, FlagInv, FlagTracksTurn
<1>2. QED
  BY <1>1, Invariance, PTL

\* Refused verbs do not run; no verb is charged that has still to run or to land;
\* and until the session is closed only verbs that ran are charged.
THEOREM VerbsAreAccounted == Spec => []VerbAccounting
BY Invariance, PTL DEF Inv

-----------------------------------------------------------------------------
(* AskBridge.                                                              *)

\* A scheduled callback carries an answer that was accepted for its question.
CallbacksAreAccepted ==
  \A i \in 1 .. Len(callbacks) :
    LET c == callbacks[i]
    IN  post[c.answer].pc = "accepted" /\ post[c.answer].question = c.question

\* A question that is over was resolved, and nobody answers one that was never
\* asked.
OverMeansResolved ==
  \A q \in Questions : asking[q] \in {"answered", "cancelled"} => answerFuture[q] # Unresolved
AcceptedMeansAsked ==
  \A a \in Answers : post[a].pc = "accepted" => asking[post[a].question] # "new"

AskInv ==
  /\ AskTypeOK
  /\ CallbacksAreAccepted
  /\ OverMeansResolved
  /\ AcceptedMeansAsked
  /\ OnlyAcceptedAnswersAreUsed
  /\ AcceptedIsNotLost

\* The values a answerFuture can have are told apart by their first field.
LEMMA FutureValues ==
  /\ Unresolved # Cancelled
  /\ \A x : ResolvedBy(x) # Unresolved /\ ResolvedBy(x) # Cancelled
  /\ \A x, y : ResolvedBy(x) = ResolvedBy(y) => x = y
<1>1. Unresolved.by = "nobody" /\ Cancelled.by = "cancel"
  BY DEF Unresolved, Cancelled
<1>2. \A x : ResolvedBy(x).by = "result" /\ ResolvedBy(x).result = x
  BY DEF ResolvedBy
<1>3. QED
  BY <1>1, <1>2

\* The variables keep their types.
LEMMA AskTypeStep ==
  ASSUME AskTypeOK, [AskNext]_askVars
  PROVE  AskTypeOK'
<1> USE DEF AskTypeOK, Requests, Results
<1>1. ASSUME NEW q \in Questions, Ask(q)
      PROVE  AskTypeOK'
  BY <1>1 DEF Ask
<1>2. ASSUME NEW q \in Questions, Timeout(q) \/ CancelTurn(q)
      PROVE  AskTypeOK'
  BY <1>2 DEF Timeout, CancelTurn
<1>3. ASSUME NEW q \in Questions, Wake(q)
      PROVE  AskTypeOK'
  <2>1. answerFuture[q] \in {Cancelled} \union Results
    BY <1>3 DEF Wake
  <2>2. used' \in [Questions -> {Nothing} \union Results]
    BY <1>3, <2>1 DEF Wake
  <2>3. QED
    BY <1>3, <2>2 DEF Wake
<1>4. CASE Resolve
  <2>1. Head(callbacks) \in Callback
        /\ Tail(callbacks) \in Seq(Callback)
    BY <1>4, HeadTailProperties DEF Resolve
  <2>2. answerFuture' \in [Questions -> {Unresolved, Cancelled} \union Results]
    BY <1>4, <2>1 DEF Resolve, Callback
  <2>3. QED
    BY <1>4, <2>1, <2>2 DEF Resolve
<1>5. ASSUME NEW a \in Answers, NEW q \in Questions, Validate(a, q)
      PROVE  AskTypeOK'
  BY <1>5 DEF Validate
<1>6. ASSUME NEW a \in Answers, Deliver(a)
      PROVE  AskTypeOK'
  <2>1. post[a] \in [pc : {"validated", "accepted", "refused"}, question : Questions]
    BY <1>6 DEF Deliver
  <2>2. post' \in [Answers -> Requests]
    BY <1>6, <2>1 DEF Deliver
  <2>3. callbacks' \in Seq(Callback)
    <3> DEFINE e == [question |-> post[a].question, answer |-> a]
    <3>1. e \in Callback
      BY <2>1 DEF Callback
    <3>2. callbacks' = callbacks \/ callbacks' = Append(callbacks, e)
      BY <1>6 DEF Deliver
    <3> HIDE DEF e
    <3>3. QED
      BY <3>1, <3>2, AppendProperties
  <2>4. QED
    BY <1>6, <2>2, <2>3 DEF Deliver
<1>7. CASE UNCHANGED askVars
  BY <1>7 DEF askVars
<1>8. QED
  BY <1>1, <1>2, <1>3, <1>4, <1>5, <1>6, <1>7 DEF AskNext

\* No step changes a answerFuture that is done, and none resolves a question with an
\* answer except the callback that carries it.
LEMMA FutureStep ==
  ASSUME AskInv, [AskNext]_askVars, NEW q \in Questions
  PROVE  /\ answerFuture[q] # Unresolved => answerFuture'[q] = answerFuture[q]
         /\ \A a \in Answers :
              answerFuture'[q] = ResolvedBy(a) /\ answerFuture[q] # ResolvedBy(a) =>
                post[a].pc = "accepted" /\ post[a].question = q
<1> USE DEF AskInv, AskTypeOK
<1>1. CASE UNCHANGED answerFuture
  BY <1>1
<1>2. ASSUME NEW p \in Questions, Timeout(p) \/ CancelTurn(p)
      PROVE  /\ answerFuture[q] # Unresolved => answerFuture'[q] = answerFuture[q]
             /\ \A a \in Answers : answerFuture'[q] = ResolvedBy(a) => answerFuture[q] = ResolvedBy(a)
  BY <1>2, FutureValues, AnswerAssumption DEF Timeout, CancelTurn
<1>3. CASE Resolve
  <2> DEFINE c == Head(callbacks)
  <2>1. c = callbacks[1] /\ 1 \in 1 .. Len(callbacks)
    BY <1>3, EmptySeq DEF Resolve
  <2>2. post[c.answer].pc = "accepted" /\ post[c.answer].question = c.question
    BY <2>1 DEF CallbacksAreAccepted
  <2>3. answerFuture' = IF c.question \in pending /\ answerFuture[c.question] = Unresolved
                  THEN [answerFuture EXCEPT ![c.question] = ResolvedBy(c.answer)] ELSE answerFuture
    BY <1>3 DEF Resolve
  <2> HIDE DEF c
  <2>4. QED
    BY <2>2, <2>3, FutureValues
<1>4. QED
  BY <1>1, <1>2, <1>3 DEF AskNext, askVars, Ask, Wake, Validate, Deliver

\* Requests only go forward: once accepted they stay as they are.
LEMMA PostStep ==
  ASSUME AskTypeOK, [AskNext]_askVars, NEW a \in Answers, post[a].pc = "accepted"
  PROVE  post'[a] = post[a]
BY DEF AskTypeOK, AskNext, askVars, Ask, Timeout, CancelTurn, Wake, Resolve, Validate, Deliver

\* A request becomes accepted in one way.
LEMMA Accepting ==
  ASSUME AskTypeOK, [AskNext]_askVars, NEW a \in Answers,
         post[a].pc # "accepted", post'[a].pc = "accepted"
  PROVE  /\ post[a].question \in pending
         /\ post'[a].question = post[a].question
         /\ callbacks' = Append(callbacks, [question |-> post[a].question, answer |-> a])
<1>1. PICK b \in Answers : Deliver(b) \/ \E q \in Questions : Validate(b, q)
  BY DEF AskNext, askVars, Ask, Timeout, CancelTurn, Wake, Resolve
<1>2. a = b
  BY <1>1 DEF AskTypeOK, Validate, Deliver
<1>3. ASSUME NEW q \in Questions, Validate(a, q)
      PROVE  FALSE
  BY <1>3 DEF AskTypeOK, Validate
<1>4. Deliver(a)
  BY <1>1, <1>2, <1>3
<1>5. post[a] \in [pc : {"validated", "accepted", "refused"}, question : Questions]
  BY <1>4 DEF Deliver, AskTypeOK, Requests
<1>6. QED
  BY <1>4, <1>5 DEF Deliver, AskTypeOK

LEMMA AskInvStep ==
  ASSUME AskInv, [AskNext]_askVars
  PROVE  AskInv'
<1>1. AskTypeOK'
  BY AskTypeStep DEF AskInv
<1>2. OnlyAcceptedAnswersAreUsed'
  <2> SUFFICES ASSUME NEW q \in Questions, NEW a \in Answers, answerFuture'[q] = ResolvedBy(a)
               PROVE  post'[a].pc = "accepted" /\ post'[a].question = q
    BY DEF OnlyAcceptedAnswersAreUsed
  <2>1. post[a].pc = "accepted" /\ post[a].question = q
    BY FutureStep DEF AskInv, OnlyAcceptedAnswersAreUsed
  <2>2. QED
    BY <2>1, PostStep DEF AskInv
<1>3. OverMeansResolved'
  <2> SUFFICES ASSUME NEW q \in Questions, asking'[q] \in {"answered", "cancelled"}
               PROVE  answerFuture'[q] # Unresolved
    BY DEF OverMeansResolved
  <2>1. answerFuture[q] # Unresolved
    BY DEF AskInv, AskTypeOK, OverMeansResolved, AskNext, askVars, Ask, Timeout, CancelTurn, Wake,
           Resolve, Validate, Deliver
  <2>2. QED
    BY <2>1, FutureStep
<1>4. AcceptedMeansAsked'
  <2> SUFFICES ASSUME NEW a \in Answers, post'[a].pc = "accepted"
               PROVE  asking'[post'[a].question] # "new"
    BY DEF AcceptedMeansAsked
  <2>1. asking[post'[a].question] # "new" /\ post'[a].question \in Questions
    <3>1. CASE post[a].pc = "accepted"
      BY <3>1, PostStep DEF AskInv, AcceptedMeansAsked, AskTypeOK, Requests
    <3>2. CASE post[a].pc # "accepted"
      <4>1. post[a].question \in pending /\ post'[a].question = post[a].question
        BY <3>2, Accepting DEF AskInv
      <4>2. QED
        BY <4>1 DEF AskInv, AskTypeOK
    <3>3. QED
      BY <3>1, <3>2
  <2>2. \A q \in Questions : asking[q] # "new" => asking'[q] # "new"
    BY DEF AskInv, AskTypeOK, AskNext, askVars, Ask, Timeout, CancelTurn, Wake, Resolve, Validate, Deliver
  <2>3. QED
    BY <2>1, <2>2
<1>5. CallbacksAreAccepted'
  <2> SUFFICES ASSUME NEW i \in 1 .. Len(callbacks')
               PROVE  LET c == callbacks'[i]
                      IN  post'[c.answer].pc = "accepted" /\ post'[c.answer].question = c.question
    BY DEF CallbacksAreAccepted
  <2>1. ASSUME NEW j \in 1 .. Len(callbacks), callbacks'[i] = callbacks[j]
        PROVE  LET c == callbacks'[i]
               IN  post'[c.answer].pc = "accepted" /\ post'[c.answer].question = c.question
    <3>1. callbacks[j] \in Callback
      BY ElementOfSeq DEF AskInv, AskTypeOK
    <3>2. QED
      BY <2>1, <3>1, PostStep DEF AskInv, CallbacksAreAccepted, Callback
  <2>2. CASE UNCHANGED callbacks
    BY <2>1, <2>2
  <2>3. CASE Resolve
    <3>1. i + 1 \in 1 .. Len(callbacks) /\ callbacks'[i] = callbacks[i + 1]
      BY <2>3, HeadTailProperties DEF AskInv, AskTypeOK, Resolve
    <3>2. QED
      BY <2>1, <3>1
  <2>4. ASSUME NEW a \in Answers, Deliver(a), callbacks' # callbacks
        PROVE  LET c == callbacks'[i]
               IN  post'[c.answer].pc = "accepted" /\ post'[c.answer].question = c.question
    <3> DEFINE e == [question |-> post[a].question, answer |-> a]
    <3>1. callbacks' = Append(callbacks, e) /\ post' = [post EXCEPT ![a].pc = "accepted"]
      BY <2>4 DEF Deliver
    <3>2. e \in Callback
          /\ post[a] \in [pc : {"validated", "accepted", "refused"}, question : Questions]
      BY <2>4 DEF AskInv, AskTypeOK, Requests, Deliver, Callback
    <3> HIDE DEF e
    <3>3. CASE i = Len(callbacks) + 1
      <4>1. callbacks'[i] = e
        BY <3>1, <3>2, <3>3, AppendProperties DEF AskInv, AskTypeOK
      <4>2. post'[a].pc = "accepted" /\ post'[a].question = post[a].question
        BY <3>1, <3>2 DEF AskInv, AskTypeOK
      <4>3. QED
        BY <4>1, <4>2 DEF e
    <3>4. CASE i # Len(callbacks) + 1
      <4>1. i \in 1 .. Len(callbacks) /\ callbacks'[i] = callbacks[i]
        BY <3>1, <3>2, <3>4, AppendProperties DEF AskInv, AskTypeOK
      <4>2. QED
        BY <2>1, <4>1
    <3>5. QED
      BY <3>3, <3>4
  <2>5. QED
    BY <2>2, <2>3, <2>4 DEF AskNext, askVars, Ask, Timeout, CancelTurn, Wake, Validate
<1>6. AcceptedIsNotLost'
  <2> SUFFICES ASSUME NEW a \in Answers, post'[a].pc = "accepted",
                      answerFuture'[post'[a].question] = Unresolved
               PROVE  \E i \in DOMAIN callbacks' : callbacks'[i].answer = a
    BY DEF AcceptedIsNotLost
  <2>1. CASE post[a].pc # "accepted"
    <3> DEFINE e == [question |-> post[a].question, answer |-> a]
    <3>1. callbacks' = Append(callbacks, e) /\ post[a].question \in Questions
      BY <2>1, Accepting DEF AskInv, AskTypeOK
    <3>2. e \in Callback /\ e.answer = a
      BY <3>1 DEF Callback
    <3> HIDE DEF e
    <3>3. callbacks' \in Seq(Callback) /\ Len(callbacks') = Len(callbacks) + 1
          /\ callbacks'[Len(callbacks) + 1] = e /\ Len(callbacks) \in Nat
      BY <3>1, <3>2, AppendProperties, LenProperties DEF AskInv, AskTypeOK
    <3>4. Len(callbacks) + 1 \in DOMAIN callbacks'
      BY <3>3, LenProperties
    <3>5. QED
      BY <3>2, <3>3, <3>4
  <2>2. CASE post[a].pc = "accepted"
    <3>1. post'[a] = post[a] /\ post[a].question \in Questions
      BY <2>2, PostStep DEF AskInv, AskTypeOK, Requests
    <3>2. answerFuture[post[a].question] = Unresolved
      BY <3>1, FutureStep
    <3>3. PICK i \in 1 .. Len(callbacks) : callbacks[i].answer = a
      BY <2>2, <3>2, LenProperties DEF AskInv, AskTypeOK, AcceptedIsNotLost
    <3>4. callbacks[i].question = post[a].question
      BY <3>3 DEF AskInv, CallbacksAreAccepted
    <3>5. CASE Resolve
      <4>1. i # 1
        <5>1. Head(callbacks) = callbacks[1]
          BY <3>5, EmptySeq DEF Resolve
        <5>2. post[a].question \in pending
          BY <2>2, <3>1, <3>2 DEF AskInv, AskTypeOK, OverMeansResolved, AcceptedMeansAsked
        <5>3. Head(callbacks).question = post[a].question =>
                answerFuture'[post[a].question] = ResolvedBy(Head(callbacks).answer)
          BY <3>1, <3>2, <3>5, <5>2 DEF AskInv, AskTypeOK, Resolve
        <5>4. QED
          BY <3>1, <3>4, <5>1, <5>3, FutureValues
      <4>2. callbacks' = Tail(callbacks) /\ callbacks # <<>>
        BY <3>5 DEF Resolve
      <4>3. callbacks' \in Seq(Callback) /\ i - 1 \in 1 .. Len(callbacks')
            /\ callbacks'[i - 1] = callbacks[i]
        BY <4>1, <4>2, HeadTailProperties, LenProperties DEF AskInv, AskTypeOK
      <4>4. QED
        BY <3>3, <4>3, LenProperties
    <3>6. CASE callbacks' = callbacks
      BY <3>3, <3>6, LenProperties DEF AskInv, AskTypeOK
    <3>7. ASSUME NEW b \in Answers, Deliver(b), callbacks' # callbacks
          PROVE  \E k \in DOMAIN callbacks' : callbacks'[k].answer = a
      <4> DEFINE e == [question |-> post[b].question, answer |-> b]
      <4>1. callbacks' = Append(callbacks, e) /\ e \in Callback
        BY <3>7 DEF Deliver, AskInv, AskTypeOK, Callback
      <4> HIDE DEF e
      <4>2. callbacks' \in Seq(Callback) /\ i \in 1 .. Len(callbacks') /\ callbacks'[i] = callbacks[i]
        BY <4>1, AppendProperties, LenProperties DEF AskInv, AskTypeOK
      <4>3. QED
        BY <3>3, <4>2, LenProperties
    <3>8. QED
      BY <3>5, <3>6, <3>7 DEF AskNext, askVars, Ask, Timeout, CancelTurn, Wake, Validate
  <2>3. QED
    BY <2>1, <2>2
<1>7. QED
  BY <1>1, <1>2, <1>3, <1>4, <1>5, <1>6 DEF AskInv

LEMMA AskInvInit == AskInit => AskInv
BY FutureValues DEF AskInit, AskInv, AskTypeOK, Requests, Results, Nothing, Unresolved, CallbacksAreAccepted,
   OverMeansResolved, AcceptedMeansAsked, OnlyAcceptedAnswersAreUsed, AcceptedIsNotLost

LEMMA AskInvariance == AskSpec => []AskInv
BY AskInvInit, AskInvStep, PTL DEF AskSpec

\* However many questions and requests there are, a question's result is an
\* answer that was validated against that question and accepted.
THEOREM RightAnswers == AskSpec => []OnlyAcceptedAnswersAreUsed
BY AskInvariance, PTL DEF AskInv

\* An accepted answer is waiting for its callback as long as its question is
\* unresolved: deliver's "true" is never followed by silence.
THEOREM AcceptedAnswersCount == AskSpec => []AcceptedIsNotLost
BY AskInvariance, PTL DEF AskInv

-----------------------------------------------------------------------------
(* SseStream.                                                              *)

Chunk == [kind : {"event", "replay_gap"}, id : Nat, gen : Nat \ {0}]

StreamTypeInv ==
  /\ gen \in Nat \ {0} /\ nextId \in Nat \ {0}
  /\ reader \in {"none", "reading", "writing"}
  /\ cutoff \in Nat /\ checks \in BOOLEAN /\ lastId \in Nat
  /\ chunks \in Seq(Chunk)
  /\ got \subseteq (Nat \ {0}) \X Nat

\* The client has no event of generation g beyond k.
GotUpto(g, k) == \A e \in got : e[1] = g => e[2] <= k

\* The stored id is not behind what the client has of the current generation.
StoredInv ==
  /\ \A e \in got : e[1] <= gen
  /\ GotUpto(gen, lastId) /\ GotUpto(gen, nextId - 1)
  /\ reader = "reading" => GotUpto(gen, cutoff)

\* What the request thread has to write comes after what the client has: the
\* events up to its cutoff, without a hole, or the gap that makes it stop.
WritingInv ==
  reader = "writing" =>
    /\ chunks # <<>>
    /\ chunks[1].gen <= gen
    /\ chunks[1].gen = gen => chunks[1].id < nextId /\ cutoff < nextId
    /\ chunks[1].gen < gen => GotUpto(gen, 0)
    /\ chunks[1].kind = "replay_gap" =>
         chunks[1].id > 0 /\ GotUpto(chunks[1].gen, chunks[1].id)
    /\ chunks[1].kind = "event" =>
         /\ GotUpto(chunks[1].gen, chunks[1].id - 1)
         /\ chunks[1].id > 0
         /\ \A i \in 1 .. Len(chunks) :
              /\ chunks[i].kind = "event" /\ chunks[i].gen = chunks[1].gen
              /\ chunks[i].id + Len(chunks) = cutoff + i

\* The first generation: events 1 .. k are accounted for.
Accounted(k) == \A j \in 1 .. k : <<1, j>> \in got \union told \union overrun
Overrun(j, k) == \A i \in j .. k : <<1, i>> \in overrun

FirstInv ==
  gen = 1 =>
    /\ Accounted(lastId)
    /\ lastId = 0 => Overrun(1, Oldest - 1)
    /\ reader = "reading" => Accounted(cutoff)
    /\ reader # "none" /\ ~checks => Overrun(cutoff + 1, Oldest - 1)
    /\ reader # "none" /\ checks => lastId # 0
    /\ reader = "writing" /\ chunks[1].kind = "event" => Accounted(chunks[1].id - 1)

StreamInv == StreamTypeInv /\ StoredInv /\ WritingInv /\ FirstInv

USE RingAssumption

\* What the locked section copies from the ring: the events after id, up to the
\* newest, without a hole.
LEMMA OldestInRing ==
  ASSUME StreamTypeInv
  PROVE  Oldest \in Nat \ {0} /\ Oldest <= nextId /\ (nextId > 1 => Oldest < nextId)
BY DEF StreamTypeInv, Oldest

LEMMA RingCopy ==
  ASSUME StreamTypeInv, NEW c \in Nat
  PROVE  /\ From(c) \in Seq(Chunk)
         /\ \A i \in 1 .. Len(From(c)) :
              /\ From(c)[i].kind = "event" /\ From(c)[i].gen = gen
              /\ From(c)[i].id + Len(From(c)) = Latest + i
         /\ From(c) # <<>> =>
              /\ From(c)[1].id = IF c < Oldest THEN Oldest ELSE c + 1
              /\ From(c)[1].id <= Latest
         /\ From(c) = <<>> => c >= Oldest \/ Oldest = 1
<1> DEFINE first == IF c < Oldest THEN Oldest ELSE c + 1
<1> DEFINE n == IF Latest < first THEN 0 ELSE Latest - first + 1
<1>1. first \in Nat /\ n \in Nat /\ Latest \in Nat /\ (n # 0 => n = Latest - first + 1)
      /\ (n = 0 => Latest < first) /\ Latest + 1 = nextId /\ nextId \in Nat /\ Oldest \in Nat
      /\ (n # 0 => first <= Latest)
  BY OldestInRing DEF StreamTypeInv, Latest
<1>2. From(c) = [i \in 1 .. n |-> Event(first + i - 1)]
  BY DEF From
<1>3. \A i \in 1 .. n : Event(first + i - 1) \in Chunk
  BY <1>1 DEF Event, Chunk, StreamTypeInv
<1>4. n = 0 => c >= Oldest \/ Oldest = 1
  BY <1>1, OldestInRing
<1>5. n # 0 => first = (IF c < Oldest THEN Oldest ELSE c + 1)
  OBVIOUS
<1> HIDE DEF n, first
<1>6. From(c) \in Seq(Chunk) /\ Len(From(c)) = n
  BY <1>1, <1>2, <1>3
<1>7. ASSUME NEW i \in 1 .. n
      PROVE  From(c)[i].kind = "event" /\ From(c)[i].gen = gen /\ From(c)[i].id = first + i - 1
  BY <1>2 DEF Event
<1>8. \A i \in 1 .. n : From(c)[i].id + n = Latest + i
  BY <1>1, <1>7
<1>9. From(c) # <<>> <=> n # 0
  BY <1>1, <1>6, EmptySeq
<1>10. n # 0 => From(c)[1].id = first
  BY <1>1, <1>7
<1>11. QED
  BY <1>1, <1>4, <1>5, <1>6, <1>7, <1>8, <1>9, <1>10

\* What a read finds: the ring's events after the cutoff, or a gap first; the
\* newest event is the last.
LEMMA FoundFacts ==
  ASSUME StreamTypeInv
  PROVE  /\ Found \in Seq(Chunk)
         /\ Found # <<>> => Last(Found).id = Latest
         /\ Missed => /\ Found # <<>>
                      /\ Found[1].kind = "replay_gap" /\ Found[1].gen = gen /\ Found[1].id = Oldest - 1
         /\ ~Missed => Found = From(cutoff)
<1>1. Oldest \in Nat \ {0} /\ cutoff \in Nat /\ Latest \in Nat /\ gen \in Nat \ {0} /\ Oldest - 1 \in Nat
  BY OldestInRing DEF StreamTypeInv, Latest
<1>2. \A c \in Nat : From(c) # <<>> => Len(From(c)) \in Nat \ {0} /\ Last(From(c)).id = Latest
  <2> SUFFICES ASSUME NEW c \in Nat, From(c) # <<>>
               PROVE  Len(From(c)) \in Nat \ {0} /\ Last(From(c)).id = Latest
    OBVIOUS
  <2>1. Len(From(c)) \in Nat \ {0} /\ From(c) \in Seq(Chunk)
    BY RingCopy, EmptySeq
  <2>2. From(c)[Len(From(c))] \in Chunk
    BY <2>1
  <2>3. PICK k : k = Len(From(c))
    OBVIOUS
  <2>4. k \in 1 .. Len(From(c)) /\ k \in Nat
    BY <2>1, <2>3
  <2>5. From(c)[k].id + k = Latest + k
    BY <2>3, <2>4, RingCopy
  <2>6. From(c)[k].id \in Nat
    BY <2>2, <2>3 DEF Chunk
  <2>7. From(c)[k].id = Latest
    BY <1>1, <2>4, <2>5, <2>6
  <2>8. QED
    BY <2>1, <2>3, <2>7 DEF Last
<1>3. CASE ~Missed
  BY <1>1, <1>2, <1>3, RingCopy DEF Found
<1>4. CASE Missed
  <2> DEFINE g == Gap(Oldest - 1)
  <2> DEFINE f == From(Oldest - 1)
  <2>1. Found = <<g>> \o f
    BY <1>4 DEF Found
  <2>2. g \in Chunk /\ g.kind = "replay_gap" /\ g.gen = gen /\ g.id = Oldest - 1
    BY <1>1 DEF Gap, Chunk
  <2>3. f \in Seq(Chunk)
    BY <1>1, RingCopy
  <2>4. Oldest > 1
    BY <1>1, <1>4 DEF Missed
  <2>5. f # <<>>
    BY <1>1, <2>4, RingCopy
  <2>6. Len(f) \in Nat \ {0} /\ Last(f).id = Latest
    BY <1>1, <1>2, <2>5
  <2> HIDE DEF f, g
  <2>7. Found \in Seq(Chunk) /\ Len(Found) = 1 + Len(f) /\ Found[1] = g
        /\ Found[Len(Found)] = f[Len(f)] /\ Found # <<>>
    BY <2>1, <2>2, <2>3, <2>6
  <2>8. QED
    BY <1>4, <2>2, <2>6, <2>7 DEF Last
<1>5. QED
  BY <1>3, <1>4

LEMMA StreamTypeStep == StreamInv /\ [StreamNext]_sseVars => StreamTypeInv'
<1> SUFFICES ASSUME StreamInv, [StreamNext]_sseVars PROVE StreamTypeInv'
  OBVIOUS
<1>1. StreamTypeInv
  BY DEF StreamInv
<1>2. CASE Read
  <2>1. CASE Found # <<>> /\ chunks' = Found /\ cutoff' = Last(Found).id
    <3>1. Found \in Seq(Chunk) /\ cutoff' \in Nat
      BY <1>1, <2>1, FoundFacts DEF StreamTypeInv, Latest
    <3>2. QED
      BY <1>1, <1>2, <2>1, <3>1 DEF StreamTypeInv, Read, streamVars, clientVars
  <2>2. CASE UNCHANGED <<cutoff, chunks>>
    BY <1>1, <1>2, <2>2 DEF StreamTypeInv, Read, streamVars, clientVars
  <2>3. QED
    BY <1>2, <2>1, <2>2 DEF Read
<1>3. CASE Receive \/ ReceiveGap
  <2>1. chunks # <<>> /\ chunks \in Seq(Chunk)
    BY <1>1, <1>3 DEF StreamInv, WritingInv, StreamTypeInv, Receive, ReceiveGap
  <2>2. Head(chunks) \in Chunk /\ Tail(chunks) \in Seq(Chunk)
    BY <2>1
  <2>3. Head(chunks).id \in Nat /\ Head(chunks).gen \in Nat \ {0}
    BY <2>2 DEF Chunk
  <2>4. <<>> \in Seq(Chunk)
    OBVIOUS
  <2>5. <<Head(chunks).gen, Head(chunks).id>> \in (Nat \ {0}) \X Nat
    BY <2>3
  <2>6. got' \subseteq (Nat \ {0}) \X Nat /\ chunks' \in Seq(Chunk)
    BY <1>1, <1>3, <2>2, <2>4, <2>5 DEF StreamTypeInv, Receive, ReceiveGap
  <2>7. lastId' \in Nat /\ reader' \in {"none", "reading", "writing"}
    BY <1>3, <2>3 DEF Receive, ReceiveGap
  <2>8. QED
    BY <1>1, <1>3, <2>6, <2>7 DEF StreamTypeInv, Receive, ReceiveGap, streamVars
<1>4. CASE Drop
  BY <1>1, <1>4 DEF StreamTypeInv, Drop, streamVars, clientVars
<1>5. CASE Refresh
  BY <1>1, <1>5 DEF StreamTypeInv, Refresh, Latest, streamVars, readerVars
<1>6. CASE Connect
  BY <1>1, <1>6 DEF StreamTypeInv, Connect, streamVars, clientVars
<1>7. CASE Emit \/ Close \/ Unregister \/ Register \/ UNCHANGED sseVars
  BY <1>1, <1>7 DEF StreamTypeInv, Emit, Close, Unregister, Register, sseVars, readerVars, clientVars
<1>8. QED
  BY <1>2, <1>3, <1>4, <1>5, <1>6, <1>7 DEF StreamNext

LEMMA StoredStep == StreamInv /\ [StreamNext]_sseVars => StoredInv'
<1> SUFFICES ASSUME StreamInv, [StreamNext]_sseVars PROVE StoredInv'
  OBVIOUS
<1>1. StreamTypeInv /\ StoredInv
  BY DEF StreamInv
<1>2. CASE Read
  <2>1. reader = "reading"
    BY <1>2 DEF Read
  <2>2. UNCHANGED <<gen, nextId, lastId, got>> /\ (reader' = "reading" => cutoff' = cutoff)
    BY <1>2 DEF Read, streamVars, clientVars
  <2>3. QED
    BY <1>1, <2>1, <2>2 DEF StoredInv, GotUpto
<1>3. CASE Receive
  <2>0. PICK h : h = Head(chunks)
    OBVIOUS
  <2>1. chunks # <<>> /\ chunks \in Seq(Chunk) /\ h = chunks[1]
    BY <1>3, <2>0 DEF StreamInv, WritingInv, StreamTypeInv, Receive
  <2>2. h.id \in Nat /\ h.gen \in Nat \ {0}
    <3>1. h \in Chunk
      BY <2>0, <2>1
    <3>2. QED
      BY <3>1 DEF Chunk
  <2>3. /\ h.gen <= gen
        /\ h.gen = gen => h.id < nextId
        /\ h.gen < gen => GotUpto(gen, 0)
        /\ GotUpto(h.gen, h.id - 1)
    BY <1>3, <2>1 DEF StreamInv, WritingInv, Receive
  <2>4. UNCHANGED <<gen, nextId, cutoff>> /\ lastId' = h.id /\ got' = got \union {<<h.gen, h.id>>}
    BY <1>3, <2>0 DEF Receive, streamVars
  <2>5. reader' = "reading" => h.id = cutoff
    <3> SUFFICES ASSUME reader' = "reading" PROVE h.id = cutoff
      OBVIOUS
    <3>1. Len(chunks) = 1
      BY <1>3 DEF Receive
    <3>2. chunks[1].id + Len(chunks) = cutoff + 1
      BY <1>3, <2>1, <3>1 DEF StreamInv, WritingInv, Receive
    <3>3. QED
      BY <1>1, <2>1, <2>2, <3>1, <3>2 DEF StreamTypeInv
  <2>6. \A e \in got : e[1] \in Nat /\ e[2] \in Nat
    BY <1>1 DEF StreamTypeInv
  <2>7. \A e \in got' : e[1] <= gen
    BY <1>1, <2>3, <2>4 DEF StoredInv
  <2>8. \A k \in Nat : (h.gen = gen => h.id <= k) /\ GotUpto(gen, k) => GotUpto(gen, k)'
    BY <2>4 DEF GotUpto
  <2>9. GotUpto(gen, h.id)
    BY <1>1, <2>2, <2>3, <2>6 DEF GotUpto, StreamTypeInv
  <2>10. GotUpto(gen, h.id)'
    BY <2>2, <2>4, <2>9 DEF GotUpto
  <2>11. GotUpto(gen, nextId - 1)'
    BY <1>1, <2>2, <2>3, <2>4 DEF GotUpto, StoredInv, StreamTypeInv
  <2>12. QED
    BY <2>4, <2>5, <2>7, <2>10, <2>11 DEF StoredInv, GotUpto
<1>4. CASE ReceiveGap
  <2>0. PICK h : h = Head(chunks)
    OBVIOUS
  <2>1. chunks # <<>> /\ chunks \in Seq(Chunk) /\ h = chunks[1]
    BY <1>4, <2>0 DEF StreamInv, WritingInv, StreamTypeInv, ReceiveGap
  <2>2. h.id \in Nat /\ h.gen \in Nat \ {0}
    <3>1. h \in Chunk
      BY <2>0, <2>1
    <3>2. QED
      BY <3>1 DEF Chunk
  <2>3. /\ h.gen <= gen
        /\ h.gen < gen => GotUpto(gen, 0)
        /\ GotUpto(h.gen, h.id)
    BY <1>4, <2>1 DEF StreamInv, WritingInv, ReceiveGap
  <2>4. UNCHANGED <<gen, nextId, got>> /\ lastId' = h.id /\ reader' = "none"
    BY <1>4, <2>0 DEF ReceiveGap, streamVars
  <2>5. GotUpto(gen, h.id)
    BY <1>1, <2>2, <2>3 DEF GotUpto, StreamTypeInv
  <2>6. QED
    BY <1>1, <2>4, <2>5 DEF StoredInv, GotUpto
<1>5. CASE Refresh
  BY <1>1, <1>5 DEF StoredInv, StreamTypeInv, GotUpto, Refresh, Latest, streamVars, readerVars
<1>6. CASE Register
  BY <1>1, <1>6 DEF StoredInv, StreamTypeInv, GotUpto, Register, readerVars, clientVars
<1>7. CASE Connect
  BY <1>1, <1>7 DEF StoredInv, GotUpto, Connect, streamVars, clientVars
<1>8. CASE Emit
  BY <1>1, <1>8 DEF StoredInv, StreamTypeInv, GotUpto, Emit, readerVars, clientVars
<1>9. CASE Close \/ Unregister \/ Drop \/ UNCHANGED sseVars
  BY <1>1, <1>9 DEF StoredInv, GotUpto, Close, Unregister, Drop, sseVars, streamVars, readerVars, clientVars
<1>10. QED
  BY <1>2, <1>3, <1>4, <1>5, <1>6, <1>7, <1>8, <1>9 DEF StreamNext

LEMMA WritingStep == StreamInv /\ [StreamNext]_sseVars => WritingInv'
<1> SUFFICES ASSUME StreamInv, [StreamNext]_sseVars PROVE WritingInv'
  OBVIOUS
<1>1. StreamTypeInv /\ StoredInv /\ WritingInv
  BY DEF StreamInv
<1>2. CASE Read
  <2> SUFFICES ASSUME reader' = "writing" PROVE WritingInv'
    BY DEF WritingInv
  <2>1. PICK f : f = Found
    OBVIOUS
  <2>2. /\ f # <<>> /\ chunks' = f /\ cutoff' = Last(f).id
        /\ UNCHANGED <<gen, nextId, got>> /\ reader = "reading"
    BY <1>2, <2>1 DEF Read, streamVars, clientVars
  <2>3. f \in Seq(Chunk) /\ cutoff' = Latest /\ cutoff' < nextId /\ Latest + 1 = nextId
    BY <1>1, <2>1, <2>2, FoundFacts DEF StreamTypeInv, Latest
  <2>4. GotUpto(gen, cutoff) /\ gen \in Nat /\ cutoff \in Nat /\ Oldest \in Nat /\ Oldest <= nextId /\ nextId \in Nat
    BY <1>1, <2>2, OldestInRing DEF StoredInv, StreamTypeInv
  <2>5. \A e \in got : e[2] \in Nat
    BY <1>1 DEF StreamTypeInv
  <2>6. CASE Missed
    <3>1. f[1].kind = "replay_gap" /\ f[1].gen = gen /\ f[1].id = Oldest - 1
      BY <1>1, <2>1, <2>6, FoundFacts
    <3>2. Oldest - 1 > 0 /\ Oldest - 1 < nextId /\ cutoff < Oldest - 1
      BY <2>4, <2>6 DEF Missed
    <3>3. \A e \in got : e[1] = gen => e[2] <= Oldest - 1
      BY <2>4, <2>5, <3>2 DEF GotUpto
    <3>4. QED
      BY <2>2, <2>3, <2>4, <3>1, <3>2, <3>3 DEF WritingInv, GotUpto
  <2>7. CASE ~Missed
    <3>1. f = From(cutoff)
      BY <1>1, <2>1, <2>7, FoundFacts
    <3>2. 1 \in 1 .. Len(f) /\ Len(f) \in Nat
      BY <2>2, <2>3, EmptySeq
    <3>3. \A i \in 1 .. Len(f) : f[i].kind = "event" /\ f[i].gen = gen /\ f[i].id + Len(f) = Latest + i
      BY <1>1, <2>4, <3>1, RingCopy
    <3>4. f[1].kind = "event" /\ f[1].gen = gen
      BY <3>2, <3>3
    <3>5. f[1].id > 0 /\ f[1].id > cutoff /\ f[1].id < nextId /\ f[1].id \in Nat
      <4>1. f[1].id = (IF cutoff < Oldest THEN Oldest ELSE cutoff + 1) /\ f[1].id <= Latest
        BY <1>1, <2>2, <2>4, <3>1, RingCopy
      <4>2. Oldest > 0 /\ Latest \in Nat
        BY <1>1, OldestInRing DEF StreamTypeInv, Latest
      <4>3. PICK k : k = f[1].id
        OBVIOUS
      <4>4. k \in Nat /\ k > 0 /\ k > cutoff /\ k < nextId
        BY <2>3, <2>4, <4>1, <4>2, <4>3
      <4>5. QED
        BY <4>3, <4>4
    <3>6. \A e \in got : e[1] = gen => e[2] <= f[1].id - 1
      BY <2>4, <2>5, <3>5 DEF GotUpto
    <3>7. QED
      BY <2>2, <2>3, <2>4, <3>3, <3>4, <3>5, <3>6 DEF WritingInv, GotUpto
  <2>8. QED
    BY <2>6, <2>7
<1>3. CASE Receive
  <2> SUFFICES ASSUME reader' = "writing" PROVE WritingInv'
    BY DEF WritingInv
  <2>1. PICK c : c = chunks
    OBVIOUS
  <2>2. PICK t : t = Tail(c)
    OBVIOUS
  <2>3. c # <<>> /\ c \in Seq(Chunk) /\ Head(c) = c[1] /\ c[1].kind = "event" /\ Len(c) # 1
    BY <1>1, <1>3, <2>1 DEF WritingInv, StreamTypeInv, Receive
  <2>4. /\ chunks' = t /\ UNCHANGED <<gen, nextId, cutoff>> /\ reader = "writing"
        /\ got' = got \union {<<c[1].gen, c[1].id>>}
    BY <1>3, <2>1, <2>2, <2>3 DEF Receive, streamVars
  <2>5. /\ t \in Seq(Chunk) /\ t # <<>> /\ Len(c) \in Nat /\ Len(t) = Len(c) - 1 /\ Len(t) > 0
        /\ \A i \in 1 .. Len(t) : i + 1 \in 1 .. Len(c) /\ t[i] = c[i + 1]
    <3>1. Len(c) \in Nat \ {0} /\ t \in Seq(Chunk) /\ Len(t) = Len(c) - 1
      BY <2>2, <2>3, EmptySeq
    <3>2. Len(t) > 0
      BY <2>3, <3>1
    <3>3. t # <<>>
      BY <3>2
    <3>4. \A i \in 1 .. Len(t) : i + 1 \in 1 .. Len(c) /\ t[i] = c[i + 1]
      BY <2>2, <2>3, <3>1
    <3>5. QED
      BY <3>1, <3>2, <3>3, <3>4
  <2>6. \A i \in 1 .. Len(c) : c[i].kind = "event" /\ c[i].gen = c[1].gen /\ c[i].id + Len(c) = cutoff + i
    BY <1>1, <2>1, <2>3, <2>4 DEF WritingInv
  <2>7. \A i \in 1 .. Len(c) : c[i].id \in Nat /\ c[i].gen \in Nat
    <3>1. \A i \in 1 .. Len(c) : c[i] \in Chunk
      BY <2>3
    <3>2. QED
      BY <3>1 DEF Chunk
  <2>8. t[1].kind = "event" /\ t[1].gen = c[1].gen /\ t[1].id + Len(c) = cutoff + 2 /\ c[1].id + Len(c) = cutoff + 1
    BY <2>5, <2>6
  <2>9. t[1].id = c[1].id + 1 /\ t[1].id \in Nat /\ c[1].id \in Nat /\ c[1].gen \in Nat
    <3>1. 1 \in 1 .. Len(c) /\ 2 \in 1 .. Len(c) /\ t[1] = c[2]
      BY <2>5
    <3>2. c[1].id \in Nat /\ t[1].id \in Nat /\ c[1].gen \in Nat /\ Len(c) \in Nat /\ cutoff \in Nat
      BY <1>1, <2>5, <2>7, <3>1 DEF StreamTypeInv
    <3>3. PICK x, y, n : x = t[1].id /\ y = c[1].id /\ n = Len(c)
      OBVIOUS
    <3>4. x + n = cutoff + 2 /\ y + n = cutoff + 1 /\ x \in Nat /\ y \in Nat /\ n \in Nat
      BY <2>8, <3>2, <3>3
    <3>5. x = y + 1
      BY <3>2, <3>4
    <3>6. QED
      BY <3>2, <3>3, <3>5
  <2>10. \A i \in 1 .. Len(t) : t[i].kind = "event" /\ t[i].gen = t[1].gen /\ t[i].id + Len(t) = cutoff + i
    <3> SUFFICES ASSUME NEW i \in 1 .. Len(t)
                 PROVE  t[i].kind = "event" /\ t[i].gen = t[1].gen /\ t[i].id + Len(t) = cutoff + i
      OBVIOUS
    <3>1. PICK j : j = i + 1
      OBVIOUS
    <3>2. j \in 1 .. Len(c) /\ t[i] = c[j]
      BY <2>5, <3>1
    <3>3. t[i].kind = "event" /\ t[i].gen = t[1].gen /\ t[i].id + Len(c) = cutoff + j /\ t[i].id \in Nat
      BY <2>6, <2>7, <2>8, <3>2
    <3>4. i \in Nat /\ cutoff \in Nat /\ Len(c) \in Nat /\ Len(t) = Len(c) - 1
      BY <1>1, <2>5 DEF StreamTypeInv
    <3>5. t[i].id + Len(t) = cutoff + i
      <4>1. PICK x, n, m : x = t[i].id /\ n = Len(c) /\ m = Len(t)
        OBVIOUS
      <4>2. x + n = cutoff + i + 1 /\ x \in Nat /\ n \in Nat /\ m = n - 1
        BY <3>1, <3>3, <3>4, <4>1
      <4>3. x + m = cutoff + i
        BY <3>4, <4>2
      <4>4. QED
        BY <4>1, <4>3
    <3>6. QED
      BY <3>3, <3>5
  <2>11. /\ c[1].gen <= gen
         /\ c[1].gen = gen => c[1].id < nextId /\ cutoff < nextId
         /\ c[1].gen < gen => GotUpto(gen, 0)
         /\ GotUpto(c[1].gen, c[1].id - 1)
    BY <1>1, <2>1, <2>3, <2>4 DEF WritingInv
  <2>12. \A e \in got : e[1] \in Nat /\ e[2] \in Nat
    BY <1>1 DEF StreamTypeInv
  <2>13. \A e \in got' : e[1] = t[1].gen => e[2] <= t[1].id - 1
    <3>1. PICK x, y, g : x = t[1].id /\ y = c[1].id /\ g = c[1].gen
      OBVIOUS
    <3>2. x = y + 1 /\ y \in Nat /\ t[1].gen = g /\ got' = got \union {<<g, y>>}
      BY <2>4, <2>8, <2>9, <3>1
    <3>3. \A e \in got : e[1] = g => e[2] <= y - 1
      BY <2>11, <3>1 DEF GotUpto
    <3>4. \A e \in got : e[1] = g => e[2] <= x - 1
      BY <2>12, <3>2, <3>3
    <3>5. <<g, y>>[2] <= x - 1
      BY <3>2
    <3>6. \A e \in got' : e[1] = g => e[2] <= x - 1
      BY <3>2, <3>4, <3>5
    <3>7. QED
      BY <3>1, <3>2, <3>6
  <2>14. t[1].gen < gen => \A e \in got' : e[1] = gen => e[2] <= 0
    BY <1>1, <2>4, <2>8, <2>9, <2>11, <2>12 DEF GotUpto, StreamTypeInv
  <2>15. t[1].gen = gen => t[1].id < nextId
    <3>1. PICK x, n : x = t[1].id /\ n = Len(c)
      OBVIOUS
    <3>2. x \in Nat /\ n \in Nat /\ n >= 2 /\ x + n = cutoff + 2 /\ cutoff \in Nat /\ nextId \in Nat
      BY <1>1, <2>5, <2>8, <2>9, <3>1 DEF StreamTypeInv
    <3>3. x <= cutoff
      BY <3>2
    <3>4. t[1].gen = gen => cutoff < nextId
      BY <2>8, <2>11
    <3>5. t[1].gen = gen => x < nextId
      BY <3>2, <3>3, <3>4
    <3>6. QED
      BY <3>1, <3>5
  <2>16. QED
    BY <2>4, <2>5, <2>8, <2>9, <2>10, <2>11, <2>13, <2>14, <2>15 DEF WritingInv, GotUpto
<1>4. CASE Register
  <2> SUFFICES ASSUME reader' = "writing" PROVE WritingInv'
    BY DEF WritingInv
  <2>1. reader = "writing" /\ chunks # <<>> /\ UNCHANGED <<chunks, cutoff, got>> /\ gen' = gen + 1
    BY <1>1, <1>4 DEF WritingInv, Register, readerVars, clientVars
  <2>2. chunks[1].gen <= gen /\ gen \in Nat /\ chunks[1].gen \in Nat
    <3>1. chunks[1] \in Chunk
      BY <1>1, <2>1, EmptySeq DEF StreamTypeInv
    <3>2. QED
      BY <1>1, <2>1, <3>1 DEF WritingInv, StreamTypeInv, Chunk
  <2>3. chunks[1].gen <= gen' /\ chunks[1].gen # gen'
    BY <2>1, <2>2
  <2>4. \A e \in got : e[1] # gen'
    <3> SUFFICES ASSUME NEW e \in got, e[1] = gen' PROVE FALSE
      OBVIOUS
    <3>1. e[1] \in Nat /\ e[1] <= gen
      BY <1>1 DEF StoredInv, StreamTypeInv
    <3>2. QED
      BY <2>1, <2>2, <3>1
  <2>5. QED
    BY <1>1, <2>1, <2>3, <2>4 DEF WritingInv, GotUpto
<1>5. CASE Emit
  <2> SUFFICES ASSUME reader' = "writing" PROVE WritingInv'
    BY DEF WritingInv
  <2>1. reader = "writing" /\ chunks # <<>> /\ UNCHANGED <<chunks, cutoff, got, gen>> /\ nextId' = nextId + 1
    BY <1>1, <1>5 DEF WritingInv, Emit, readerVars, clientVars
  <2>2. chunks[1].id \in Nat /\ nextId \in Nat /\ cutoff \in Nat
    <3>1. chunks[1] \in Chunk
      BY <1>1, <2>1, EmptySeq DEF StreamTypeInv
    <3>2. QED
      BY <1>1, <3>1 DEF StreamTypeInv, Chunk
  <2>3. chunks[1].gen = gen => chunks[1].id < nextId' /\ cutoff < nextId'
    BY <1>1, <2>1, <2>2 DEF WritingInv
  <2>4. QED
    BY <1>1, <2>1, <2>3 DEF WritingInv, GotUpto
<1>6. CASE ReceiveGap \/ Drop \/ Refresh \/ Connect
  BY <1>6 DEF ReceiveGap, Drop, Refresh, Connect, WritingInv, readerVars
<1>7. CASE Close \/ Unregister \/ UNCHANGED sseVars
  BY <1>1, <1>7 DEF WritingInv, GotUpto, Close, Unregister, sseVars, streamVars, readerVars, clientVars
<1>8. QED
  BY <1>2, <1>3, <1>4, <1>5, <1>6, <1>7 DEF StreamNext

\* In the first generation a read hands out what follows the events accounted
\* for; what it skips was announced or overran the reader.
LEMMA ReadIsAccounted ==
  ASSUME StreamInv, gen = 1, reader = "reading", Found # <<>>, Found[1].kind = "event"
  PROVE  Accounted(Found[1].id - 1)
<1>1. StreamTypeInv /\ cutoff \in Nat /\ Latest \in Nat /\ Latest + 1 = nextId
  BY DEF StreamInv, StreamTypeInv, Latest
<1>2. Oldest \in Nat /\ Oldest > 0 /\ Oldest <= nextId
  BY <1>1, OldestInRing DEF StreamTypeInv
<1>3. Accounted(cutoff) /\ (~checks => Overrun(cutoff + 1, Oldest - 1))
  BY DEF StreamInv, FirstInv
<1>4. ~Missed
  BY <1>1, FoundFacts
<1>5. /\ Found[1].id = (IF cutoff < Oldest THEN Oldest ELSE cutoff + 1)
      /\ Found[1].id <= Latest
  BY <1>1, <1>4, FoundFacts, RingCopy
<1>6. CASE cutoff >= Oldest - 1
  <2>1. Found[1].id - 1 = cutoff
    BY <1>1, <1>2, <1>5, <1>6
  <2>2. QED
    BY <1>3, <2>1
<1>7. CASE cutoff < Oldest - 1
  <2>1. ~checks
    BY <1>1, <1>2, <1>4, <1>5, <1>7 DEF Missed
  <2>2. Found[1].id = Oldest
    BY <1>1, <1>2, <1>5, <1>7
  <2>3. \A j \in 1 .. (Oldest - 1) : j \in 1 .. cutoff \/ j \in (cutoff + 1) .. (Oldest - 1)
    BY <1>1, <1>2
  <2>4. \A j \in 1 .. (Oldest - 1) : <<1, j>> \in got \union told \union overrun
    BY <1>3, <2>1, <2>3 DEF Accounted, Overrun
  <2>5. QED
    BY <2>2, <2>4 DEF Accounted
<1>8. QED
  BY <1>1, <1>2, <1>6, <1>7

\* After a read nothing the reader is past has left the ring unseen.
LEMMA ReadCatchesUp ==
  ASSUME StreamInv, gen = 1, Read, reader' # "none"
  PROVE  Overrun(cutoff + 1, Oldest - 1)'
<1>1. StreamTypeInv /\ cutoff \in Nat /\ Latest \in Nat /\ Latest + 1 = nextId /\ nextId \in Nat
  BY DEF StreamInv, StreamTypeInv, Latest
<1>2. Oldest \in Nat /\ Oldest > 0 /\ Oldest <= nextId /\ (nextId > 1 => Oldest < nextId)
  BY <1>1, OldestInRing DEF StreamTypeInv
<1>3. UNCHANGED <<nextId, overrun>> /\ Oldest' = Oldest
  BY DEF Read, streamVars, Oldest
<1>4. PICK c, o : c = cutoff' /\ o = Oldest
  OBVIOUS
<1>5. c \in Nat /\ (c >= o \/ o = 1)
  <2>1. CASE Found # <<>> /\ cutoff' = Last(Found).id
    <3>1. c = Latest
      BY <1>1, <1>4, <2>1, FoundFacts
    <3>2. QED
      BY <1>1, <1>2, <1>4, <3>1
  <2>2. CASE Found = <<>> /\ cutoff' = cutoff
    <3>1. cutoff >= Oldest \/ Oldest = 1
      BY <1>1, <2>2, FoundFacts, RingCopy
    <3>2. QED
      BY <1>1, <1>4, <2>2, <3>1
  <2>3. QED
    BY <2>1, <2>2 DEF Read
<1>6. \A i \in (c + 1) .. (o - 1) : FALSE
  <2>1. o \in Nat
    BY <1>2, <1>4
  <2> SUFFICES ASSUME NEW i \in (c + 1) .. (o - 1) PROVE FALSE
    OBVIOUS
  <2>2. i \in Int /\ c + 1 <= i /\ i <= o - 1
    BY <1>5, <2>1
  <2>3. QED
    BY <1>5, <2>1, <2>2
<1>7. QED
  BY <1>3, <1>4, <1>6 DEF Overrun

LEMMA FirstStep == StreamInv /\ [StreamNext]_sseVars => FirstInv'
<1> SUFFICES ASSUME StreamInv, [StreamNext]_sseVars, gen' = 1 PROVE FirstInv'
  BY DEF FirstInv
<1>1. StreamTypeInv /\ gen = 1 /\ ~Register
  <2>1. StreamTypeInv /\ gen \in Nat \ {0}
    BY DEF StreamInv, StreamTypeInv
  <2>2. ~Register
    BY <2>1 DEF Register
  <2>3. gen' = gen
    BY <2>2 DEF StreamNext, Emit, Close, Unregister, Read, Receive, ReceiveGap, Drop, Refresh, Connect,
       sseVars, streamVars
  <2>4. QED
    BY <2>1, <2>2, <2>3
<1>2. /\ Accounted(lastId)
      /\ lastId = 0 => Overrun(1, Oldest - 1)
      /\ reader = "reading" => Accounted(cutoff)
      /\ reader # "none" /\ ~checks => Overrun(cutoff + 1, Oldest - 1)
      /\ reader # "none" /\ checks => lastId # 0
      /\ reader = "writing" /\ chunks[1].kind = "event" => Accounted(chunks[1].id - 1)
  BY <1>1 DEF StreamInv, FirstInv
<1>3. CASE Read
  <2>1. UNCHANGED <<nextId, lastId, got, told, overrun>> /\ reader = "reading" /\ ~checks' /\ Oldest' = Oldest
    BY <1>3 DEF Read, streamVars, clientVars, Oldest
  <2>2. reader' = "reading" => cutoff' = cutoff
    BY <1>3 DEF Read
  <2>3. reader' # "none" => Overrun(cutoff + 1, Oldest - 1)'
    BY <1>1, <1>3, ReadCatchesUp
  <2>4. reader' = "writing" => Found # <<>> /\ chunks' = Found
    BY <1>3 DEF Read
  <2>5. reader' = "writing" /\ chunks'[1].kind = "event" => Accounted(chunks[1].id - 1)'
    BY <1>1, <2>1, <2>4, ReadIsAccounted DEF Accounted
  <2>6. QED
    BY <1>2, <2>1, <2>2, <2>3, <2>5 DEF FirstInv, Accounted, Overrun
<1>4. CASE Receive
  <2>1. PICK h : h = Head(chunks)
    OBVIOUS
  <2>2. chunks # <<>> /\ chunks \in Seq(Chunk) /\ h = chunks[1] /\ h.kind = "event"
    BY <1>1, <1>4, <2>1 DEF StreamInv, WritingInv, StreamTypeInv, Receive
  <2>3. h.id \in Nat /\ h.id > 0 /\ h.gen = 1
    <3>1. h \in Chunk
      BY <2>1, <2>2
    <3>2. h.gen <= 1 /\ h.id > 0
      BY <1>1, <1>4, <2>2 DEF StreamInv, WritingInv, Receive
    <3>3. QED
      BY <3>1, <3>2 DEF Chunk
  <2>4. /\ UNCHANGED <<nextId, told, overrun, cutoff, checks>> /\ reader = "writing"
        /\ lastId' = h.id /\ got' = got \union {<<1, h.id>>} /\ chunks' = Tail(chunks) /\ Oldest' = Oldest
    BY <1>4, <2>1, <2>3 DEF Receive, streamVars, Oldest
  <2>5. Accounted(h.id - 1)
    BY <1>2, <2>2, <2>4
  <2>6. Accounted(h.id)'
    <3>1. \A j \in 1 .. h.id : j \in 1 .. (h.id - 1) \/ j = h.id
      BY <2>3
    <3>2. \A j \in 1 .. h.id : <<1, j>> \in got' \union told \union overrun
      BY <2>4, <2>5, <3>1 DEF Accounted
    <3>3. QED
      BY <2>4, <3>2 DEF Accounted
  <2>7. reader' = "reading" => Accounted(cutoff)'
    <3> SUFFICES ASSUME reader' = "reading" PROVE Accounted(cutoff)'
      OBVIOUS
    <3>1. Len(chunks) = 1
      BY <1>4 DEF Receive
    <3>2. chunks[1].id + Len(chunks) = cutoff + 1
      BY <2>2, <2>4, <3>1 DEF StreamInv, WritingInv
    <3>3. h.id = cutoff
      BY <1>1, <2>2, <2>3, <3>1, <3>2 DEF StreamTypeInv
    <3>4. QED
      BY <2>4, <2>6, <3>3
  <2>8. reader' = "writing" => Accounted(chunks[1].id - 1)'
    <3> SUFFICES ASSUME reader' = "writing" PROVE Accounted(chunks[1].id - 1)'
      OBVIOUS
    <3>1. Len(chunks) \in Nat /\ Len(chunks) > 1
      <4>1. Len(chunks) # 1
        BY <1>4 DEF Receive
      <4>2. Len(chunks) \in Nat /\ Len(chunks) # 0
        BY <2>2, EmptySeq
      <4>3. PICK n : n = Len(chunks)
        OBVIOUS
      <4>4. n \in Nat /\ n > 1
        BY <4>1, <4>2, <4>3
      <4>5. QED
        BY <4>3, <4>4
    <3>2. chunks'[1] = chunks[2]
      BY <2>2, <2>4, <3>1
    <3>3. chunks[2].id + Len(chunks) = cutoff + 2 /\ chunks[1].id + Len(chunks) = cutoff + 1
      BY <2>2, <2>4, <3>1 DEF StreamInv, WritingInv
    <3>4. chunks[2].id \in Nat
      <4>1. chunks[2] \in Chunk
        BY <2>2, <3>1
      <4>2. QED
        BY <4>1 DEF Chunk
    <3>5. PICK x, n : x = chunks[2].id /\ n = Len(chunks)
      OBVIOUS
    <3>6. x - 1 = h.id
      BY <1>1, <2>2, <2>3, <3>1, <3>3, <3>4, <3>5 DEF StreamTypeInv
    <3>7. chunks'[1].id - 1 = h.id
      BY <3>2, <3>5, <3>6
    <3>8. QED
      BY <2>6, <3>7 DEF Accounted
  <2>9. reader' # "none"
    BY <1>4 DEF Receive
  <2>10. Accounted(lastId)' /\ lastId' # 0
    BY <2>3, <2>4, <2>6 DEF Accounted
  <2>11. ~checks' => Overrun(cutoff + 1, Oldest - 1)'
    BY <1>2, <2>4 DEF Overrun
  <2>12. QED
    BY <2>7, <2>8, <2>10, <2>11 DEF FirstInv
<1>5. CASE ReceiveGap
  <2>1. PICK h : h = Head(chunks)
    OBVIOUS
  <2>2. chunks # <<>> /\ chunks \in Seq(Chunk) /\ h = chunks[1] /\ h.kind = "replay_gap"
    BY <1>1, <1>5, <2>1 DEF StreamInv, WritingInv, StreamTypeInv, ReceiveGap
  <2>3. h.id \in Nat /\ h.id > 0 /\ h.gen = 1
    <3>1. h \in Chunk
      BY <2>1, <2>2
    <3>2. h.gen <= 1 /\ h.id > 0
      BY <1>1, <1>5, <2>2 DEF StreamInv, WritingInv, ReceiveGap
    <3>3. QED
      BY <3>1, <3>2 DEF Chunk
  <2>4. lastId' = h.id /\ told' = told \union Upto(1, h.id) /\ reader' = "none"
    BY <1>5, <2>1, <2>3 DEF ReceiveGap
  <2>5. QED
    BY <2>3, <2>4 DEF FirstInv, Accounted, Upto
<1>6. CASE Refresh
  <2>1. Latest \in Nat /\ told' = told \union Upto(1, Latest) /\ UNCHANGED <<nextId, got, overrun, reader>>
        /\ reader = "none" /\ lastId' = (IF Latest = 0 THEN lastId ELSE Latest) /\ Oldest' = Oldest
    BY <1>1, <1>6 DEF Refresh, StreamTypeInv, Latest, streamVars, readerVars, Oldest
  <2>2. Accounted(lastId)'
    BY <1>2, <2>1 DEF Accounted, Upto
  <2>3. lastId' = 0 => Overrun(1, Oldest - 1)'
    BY <1>2, <2>1 DEF Overrun
  <2>4. QED
    BY <2>1, <2>2, <2>3 DEF FirstInv
<1>7. CASE Connect
  <2>1. UNCHANGED <<nextId, lastId, got, told, overrun>> /\ reader' = "reading" /\ cutoff' = lastId
        /\ checks' = (lastId # 0) /\ Oldest' = Oldest
    BY <1>7 DEF Connect, streamVars, clientVars, Oldest
  <2>2. lastId = 0 => lastId + 1 = 1
    OBVIOUS
  <2>3. ~checks' => Overrun(cutoff + 1, Oldest - 1)'
    BY <1>2, <2>1, <2>2 DEF Overrun
  <2>4. QED
    BY <1>2, <2>1, <2>3 DEF FirstInv, Accounted, Overrun
<1>8. CASE Emit
  <2>1. /\ UNCHANGED <<reader, cutoff, checks, chunks, lastId, got, told>> /\ nextId' = nextId + 1
        /\ overrun \subseteq overrun'
    BY <1>8 DEF Emit, readerVars, clientVars
  <2>2. Oldest \in Nat /\ (Oldest' = Oldest \/ (nextId > RingSize /\ Oldest' = Oldest + 1))
    BY <1>1, <2>1, OldestInRing DEF StreamTypeInv, Oldest
  <2>3. cutoff \in Nat /\ lastId \in Nat
    BY <1>1 DEF StreamTypeInv
  <2>4. \A c \in Nat : Overrun(c + 1, Oldest - 1)
                       /\ (nextId > RingSize /\ c < Oldest => <<1, Oldest>> \in overrun')
                       => Overrun(c + 1, Oldest - 1)'
    <3> SUFFICES ASSUME NEW c \in Nat, Overrun(c + 1, Oldest - 1),
                        nextId > RingSize /\ c < Oldest => <<1, Oldest>> \in overrun'
                 PROVE  Overrun(c + 1, Oldest - 1)'
      OBVIOUS
    <3>1. CASE Oldest' = Oldest
      BY <2>1, <3>1 DEF Overrun
    <3>2. CASE nextId > RingSize /\ Oldest' = Oldest + 1
      <4>1. \A i \in (c + 1) .. (Oldest' - 1) : i \in (c + 1) .. (Oldest - 1) \/ (i = Oldest /\ c < Oldest)
        BY <2>2, <3>2
      <4>2. \A i \in (c + 1) .. (Oldest' - 1) : <<1, i>> \in overrun'
        BY <2>1, <3>2, <4>1 DEF Overrun
      <4>3. QED
        BY <4>2 DEF Overrun
    <3>3. QED
      BY <2>2, <3>1, <3>2
  <2>5. lastId = 0 => Overrun(1, Oldest - 1)'
    <3> SUFFICES ASSUME lastId = 0 PROVE Overrun(0 + 1, Oldest - 1)'
      OBVIOUS
    <3>1. nextId > RingSize => <<1, Oldest>> \in overrun'
      BY <1>1, <1>8 DEF Emit
    <3>2. Overrun(0 + 1, Oldest - 1)
      BY <1>2
    <3>3. QED
      BY <2>4, <3>1, <3>2
  <2>6. reader # "none" /\ ~checks => Overrun(cutoff + 1, Oldest - 1)'
    <3> SUFFICES ASSUME reader # "none", ~checks PROVE Overrun(cutoff + 1, Oldest - 1)'
      OBVIOUS
    <3>1. PICK c : c = cutoff
      OBVIOUS
    <3>2. nextId > RingSize /\ c < Oldest => <<1, Oldest>> \in overrun'
      BY <1>1, <1>8, <3>1 DEF Emit
    <3>3. Overrun(c + 1, Oldest - 1)'
      BY <1>2, <2>3, <2>4, <3>1, <3>2
    <3>4. QED
      BY <2>1, <3>1, <3>3
  <2>7. QED
    BY <1>2, <2>1, <2>5, <2>6 DEF FirstInv, Accounted
<1>9. CASE Drop \/ Close \/ Unregister \/ UNCHANGED sseVars
  BY <1>1, <1>2, <1>9 DEF FirstInv, Accounted, Overrun, Oldest, Drop, Close, Unregister, sseVars, streamVars,
     readerVars, clientVars
<1>10. QED
  BY <1>1, <1>3, <1>4, <1>5, <1>6, <1>7, <1>8, <1>9 DEF StreamNext

LEMMA StreamInvInit == StreamInit => StreamInv
<1> SUFFICES ASSUME StreamInit PROVE StreamInv
  OBVIOUS
<1>0. <<>> \in Seq(Chunk)
  OBVIOUS
<1>1. StreamTypeInv /\ StoredInv /\ WritingInv
  <2>1. StreamTypeInv
    <3>1. chunks \in Seq(Chunk)
      BY <1>0 DEF StreamInit
    <3>2. got \subseteq (Nat \ {0}) \X Nat
      BY DEF StreamInit
    <3>3. gen \in Nat \ {0} /\ nextId \in Nat \ {0} /\ cutoff \in Nat /\ lastId \in Nat
      BY DEF StreamInit
    <3>4. reader \in {"none", "reading", "writing"} /\ checks \in BOOLEAN
      BY DEF StreamInit
    <3>5. QED
      BY <3>1, <3>2, <3>3, <3>4 DEF StreamTypeInv
  <2>2. StoredInv
    BY DEF StreamInit, StoredInv, GotUpto
  <2>3. WritingInv
    BY DEF StreamInit, WritingInv
  <2>4. QED
    BY <2>1, <2>2, <2>3
<1>2. Oldest = 1 /\ lastId = 0 /\ cutoff = 0 /\ reader = "none"
  BY DEF StreamInit, Oldest
<1>3. FirstInv
  BY <1>2 DEF FirstInv, Accounted, Overrun
<1>4. QED
  BY <1>1, <1>3 DEF StreamInv

LEMMA StreamInvariance == StreamSpec => []StreamInv
<1>1. StreamInv /\ [StreamNext]_sseVars => StreamInv'
  BY StreamTypeStep, StoredStep, WritingStep, FirstStep DEF StreamInv
<1>2. QED
  BY <1>1, StreamInvInit, PTL DEF StreamSpec

\* For any ring, number of events and number of generations, whatever
\* connections are lost and made again: until the session is resumed, what the
\* client does not have of the events before its last one, it was told of, or
\* they overran a reader that was past its gap check.
THEOREM LossesAreAnnounced == StreamSpec => []OnlyOverrunsAreSilent
<1>1. StreamInv => OnlyOverrunsAreSilent
  <2> SUFFICES ASSUME StreamInv, gen = 1, NEW e \in got, NEW j \in 1 .. e[2]
               PROVE  <<e[1], j>> \in got \union told \union overrun
    BY DEF OnlyOverrunsAreSilent
  <2>1. e[1] \in Nat \ {0} /\ e[2] \in Nat /\ e[1] <= 1
    BY DEF StreamInv, StreamTypeInv, StoredInv
  <2>2. e[1] = 1 /\ e[2] <= lastId /\ lastId \in Nat
    BY <2>1 DEF StreamInv, StreamTypeInv, StoredInv, GotUpto
  <2>3. j \in 1 .. lastId
    BY <2>1, <2>2
  <2>4. QED
    BY <2>2, <2>3 DEF StreamInv, FirstInv, Accounted
<1>2. QED
  BY <1>1, StreamInvariance, PTL

\* An event is received only when the client has no later event of the same
\* generation and not the event itself, whatever ids it stored, from
\* whichever generation.
THEOREM EventsComeInOrder == StreamSpec => InOrderOnce
<1>1. StreamInv /\ [StreamNext]_sseVars =>
        [Receive => LET e == Head(chunks) IN \A j \in e.id .. MaxEvents : <<e.gen, j>> \notin got]_sseVars
  <2> SUFFICES ASSUME StreamInv, Receive
               PROVE  \A j \in Head(chunks).id .. MaxEvents : <<Head(chunks).gen, j>> \notin got
    OBVIOUS
  <2>1. PICK h : h = Head(chunks)
    OBVIOUS
  <2>2. chunks # <<>> /\ chunks \in Seq(Chunk) /\ h = chunks[1]
    BY <2>1 DEF StreamInv, WritingInv, StreamTypeInv, Receive
  <2>3. h.id \in Nat
    <3>1. h \in Chunk
      BY <2>1, <2>2
    <3>2. QED
      BY <3>1 DEF Chunk
  <2>4. GotUpto(h.gen, h.id - 1)
    BY <2>2 DEF StreamInv, WritingInv, Receive
  <2>5. ASSUME NEW j \in h.id .. MaxEvents, <<h.gen, j>> \in got
        PROVE  FALSE
    <3>1. j <= h.id - 1
      BY <2>4, <2>5 DEF GotUpto
    <3>2. j \in Int /\ h.id <= j
      BY <2>3, <2>5
    <3>3. QED
      BY <2>3, <3>1, <3>2
  <2>6. QED
    BY <2>1, <2>5
<1>2. QED
  BY <1>1, StreamInvariance, PTL DEF StreamSpec, InOrderOnce
=============================================================================
