------------------------------ MODULE AskBridge ------------------------------
(***************************************************************************)
(* A question of the elicit verb and the threads that answer it:            *)
(* gemia/tools/_ask_bridge.py with the ask_response route of                *)
(* gemia/v3_routes.py.  The question waits on the session loop; an answer   *)
(* comes from an HTTP thread and hops onto the loop as a callback, which    *)
(* runs after whatever the loop had queued before, the timer included.      *)
(***************************************************************************)
EXTENDS Naturals, Sequences

CONSTANTS
  Questions,    \* elicit calls of the session, asked one at a time
  Answers,      \* POST /ask_response requests: an answer each
  Default       \* the result None: the tool falls back to its defaults

ASSUME AnswerAssumption == Default \notin Answers

VARIABLES
  asking,        \* how far each elicit call is
  pending,       \* the ids in _pending and _questions
  answerFuture,  \* the future of each question: unresolved, or its result
  used,          \* what each elicit call returned with
  post,          \* how far each request is, and the question it answers
  callbacks      \* _resolve callbacks scheduled on the loop

askVars == <<asking, pending, answerFuture, used, post, callbacks>>

Unresolved == [by |-> "nobody"]
ResolvedBy(x) == [by |-> "result", result |-> x]
Cancelled == [by |-> "cancel"]
Nothing == [by |-> "nobody"]

-----------------------------------------------------------------------------
(* The session loop.                                                       *)

\* emit_and_wait up to its await.
Ask(q) ==
  /\ asking[q] = "new"
  /\ \A p \in Questions : asking[p] # "waiting"
  /\ asking' = [asking EXCEPT ![q] = "waiting"]
  /\ pending' = pending \union {q}
  /\ UNCHANGED <<answerFuture, used, post, callbacks>>

\* Faulty variant: a request that is being handled disarms the timer.
TimeoutUnlessAnswering(q) ==
  /\ asking[q] = "waiting"
  /\ answerFuture[q] = Unresolved
  /\ \A a \in Answers : post[a].pc = "validated" => post[a].question # q
  /\ answerFuture' = [answerFuture EXCEPT ![q] = ResolvedBy(Default)]
  /\ UNCHANGED <<asking, pending, used, post, callbacks>>

\* _on_timeout.
Timeout(q) ==
  /\ asking[q] = "waiting"
  /\ answerFuture[q] = Unresolved
  /\ answerFuture' = [answerFuture EXCEPT ![q] = ResolvedBy(Default)]
  /\ UNCHANGED <<asking, pending, used, post, callbacks>>

\* The turn is cancelled: so is the future it awaits.
CancelTurn(q) ==
  /\ asking[q] = "waiting"
  /\ answerFuture[q] = Unresolved
  /\ answerFuture' = [answerFuture EXCEPT ![q] = Cancelled]
  /\ UNCHANGED <<asking, pending, used, post, callbacks>>

\* Faulty variants: a callback resolves the question that is open now; all callbacks are taken for one.
ResolveOpen ==
  /\ callbacks # <<>>
  /\ answerFuture' = [q \in Questions |->
       IF q \in pending /\ answerFuture[q] = Unresolved THEN ResolvedBy(Head(callbacks).answer) ELSE answerFuture[q]]
  /\ callbacks' = Tail(callbacks)
  /\ UNCHANGED <<asking, pending, used, post>>
ResolveDropping ==
  /\ callbacks # <<>>
  /\ callbacks' = <<>>
  /\ LET c == Head(callbacks)
     IN  answerFuture' = IF c.question \in pending /\ answerFuture[c.question] = Unresolved
                   THEN [answerFuture EXCEPT ![c.question] = ResolvedBy(c.answer)] ELSE answerFuture
  /\ UNCHANGED <<asking, pending, used, post>>

\* _resolve.
Resolve ==
  /\ callbacks # <<>>
  /\ LET c == Head(callbacks)
     IN  answerFuture' = IF c.question \in pending /\ answerFuture[c.question] = Unresolved
                   THEN [answerFuture EXCEPT ![c.question] = ResolvedBy(c.answer)] ELSE answerFuture
  /\ callbacks' = Tail(callbacks)
  /\ UNCHANGED <<asking, pending, used, post>>

\* The awaiting task runs again, one loop iteration after its future was done.
Wake(q) ==
  /\ asking[q] = "waiting"
  /\ answerFuture[q] # Unresolved
  /\ asking' = [asking EXCEPT ![q] = IF answerFuture[q] = Cancelled THEN "cancelled" ELSE "answered"]
  /\ pending' = pending \ {q}
  /\ used' = [used EXCEPT ![q] = IF answerFuture[q] = Cancelled THEN Nothing ELSE answerFuture[q]]
  /\ UNCHANGED <<answerFuture, post, callbacks>>

-----------------------------------------------------------------------------
(* An HTTP thread.                                                         *)

\* get_pending_question and the validation; an invalid answer gets a 422 and
\* leaves everything as it is.
Validate(a, q) ==
  /\ post[a].pc = "new"
  /\ \E valid \in BOOLEAN :
       post' = [post EXCEPT ![a] = [question |-> q,
         pc |-> IF q \in pending /\ valid THEN "validated" ELSE "refused"]]
  /\ UNCHANGED <<asking, pending, answerFuture, used, callbacks>>

\* deliver: the question may have left _pending since it was validated.
Deliver(a) ==
  /\ post[a].pc = "validated"
  /\ IF post[a].question \in pending
     THEN /\ post' = [post EXCEPT ![a].pc = "accepted"]
          /\ callbacks' = Append(callbacks, [question |-> post[a].question, answer |-> a])
     ELSE /\ post' = [post EXCEPT ![a].pc = "refused"]
          /\ UNCHANGED callbacks
  /\ UNCHANGED <<asking, pending, answerFuture, used>>

-----------------------------------------------------------------------------

AskInit ==
  /\ asking = [q \in Questions |-> "new"]
  /\ pending = {}
  /\ answerFuture = [q \in Questions |-> Unresolved]
  /\ used = [q \in Questions |-> Nothing]
  /\ post = [a \in Answers |-> [pc |-> "new"]]
  /\ callbacks = <<>>

AskNext ==
  \/ \E q \in Questions : Ask(q) \/ Timeout(q) \/ CancelTurn(q) \/ Wake(q)
  \/ Resolve
  \/ \E a \in Answers : Deliver(a) \/ \E q \in Questions : Validate(a, q)

\* call_later fires, and the loop runs its callbacks and tasks.
AskSpec == AskInit /\ [][AskNext]_askVars
        /\ WF_askVars(Resolve) /\ \A q \in Questions : WF_askVars(Timeout(q)) /\ WF_askVars(Wake(q))

-----------------------------------------------------------------------------
(* Properties.                                                             *)

Results == {ResolvedBy(x) : x \in Answers \union {Default}}
Callback == [question : Questions, answer : Answers]
Requests == [pc : {"new"}] \union [pc : {"validated", "accepted", "refused"}, question : Questions]

\* Every variable keeps its shape.
AskTypeOK ==
  /\ asking \in [Questions -> {"new", "waiting", "answered", "cancelled"}]
  /\ pending \subseteq Questions
  /\ answerFuture \in [Questions -> {Unresolved, Cancelled} \union Results]
  /\ used \in [Questions -> {Nothing} \union Results]
  /\ post \in [Answers -> Requests]
  /\ callbacks \in Seq(Callback)
  /\ pending = {q \in Questions : asking[q] = "waiting"}

\* A question is only ever answered by a request that was validated against it
\* and accepted, and a refused request is never used for any question.
OnlyAcceptedAnswersAreUsed ==
  \A q \in Questions, a \in Answers :
    answerFuture[q] = ResolvedBy(a) => post[a].pc = "accepted" /\ post[a].question = q

\* An accepted answer is not lost: until its callback ran it is still queued, or
\* the timer, a rival or the cancellation has closed the question.
AcceptedIsNotLost ==
  \A a \in Answers :
    post[a].pc = "accepted" =>
      \/ \E i \in DOMAIN callbacks : callbacks[i].answer = a
      \/ answerFuture[post[a].question] # Unresolved

\* No question keeps its turn waiting for ever, answered or not.
QuestionsEnd == \A q \in Questions : asking[q] = "waiting" ~> asking[q] # "waiting"
=============================================================================
