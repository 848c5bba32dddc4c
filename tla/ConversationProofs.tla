-------------------------- MODULE ConversationProofs --------------------------
(***************************************************************************)
(* For every window, every number of recent blocks and every batch size: no *)
(* request holds an unanswered tool call but where a cancellation left one,  *)
(* none a result without its call but where the window cut behind the call,  *)
(* each holds what the user asked in its turn, and an image goes out in one  *)
(* request only.                                                            *)
(***************************************************************************)
EXTENDS Conversation, FiniteSetTheorems, TLAPS

\* What holds of the messages whatever the loop is doing: stamps below k tell
\* them apart, only host messages carry images, and a result is the only one
\* of its call and stands behind it.
Good(ms, k) ==
  /\ ms \subseteq MessageSet
  /\ \A m \in ms : m.at < k
  /\ \A m, n \in ms : m.at = n.at => m = n
  /\ \A m \in ms : m.image => m.kind = "host"
  /\ \A r \in ms : r.kind = "tool" => r.of < r.at
  /\ \A r, s \in ms : (r.kind = "tool" /\ s.kind = "tool" /\ r.of = s.of /\ r.call = s.call) => r = s
  /\ \A a, r \in ms : (a.kind = "assistant" /\ r.kind = "tool" /\ r.of = a.at) => r.call \in 1..a.call

\* Every call is answered, but for the batches in except.
Whole(ms, except) ==
  \A a \in ms : a.kind = "assistant" /\ a.at \notin except =>
    \A c \in 1..a.call : \E r \in ms : r.kind = "tool" /\ r.of = a.at /\ r.call = c

\* The batch under way has the results of its settled calls and no others.
Open(ms) ==
  /\ batch \in Nat \ {0} /\ batch < next /\ settled \in 0..calls
  /\ \A a \in ms : (a.kind = "assistant" /\ a.at = batch) => a.call = calls
  /\ \A r \in ms : (r.kind = "tool" /\ r.of = batch) => r.call <= settled
  /\ \A c \in 1..settled : \E r \in ms : r.kind = "tool" /\ r.of = batch /\ r.call = c

Inv ==
  /\ TypeOK
  /\ Good(messages, next)
  /\ Whole(messages, cut \union (IF phase = "batch" THEN {batch} ELSE {}))
  /\ phase = "batch" => Open(messages)

-----------------------------------------------------------------------------

\* Dropping messages disturbs none of what holds of each or of two.
LEMMA GoodSubset ==
  ASSUME NEW ms, NEW ms2, NEW k \in Nat, Good(ms, k), ms2 \subseteq ms
  PROVE  Good(ms2, k)
BY DEF Good

\* The window drops a call whenever it drops one of its results.
LEMMA TrimKeeps ==
  ASSUME NEW ms, NEW k \in Nat, NEW except, Good(ms, k), Whole(ms, except)
  PROVE  Good(Trim(ms), k) /\ Whole(Trim(ms), except)
<1>1. Trim(ms) \subseteq ms
  BY DEF Trim
<1>2. \A a, r \in ms : (a \in Trim(ms) /\ a.at < r.at) => r \in Trim(ms)
  <2> SUFFICES ASSUME NEW a \in ms, NEW r \in ms, a \in Trim(ms), a.at < r.at
               PROVE  r \in Trim(ms)
    OBVIOUS
  <2> DEFINE users == {m.at : m \in {u \in ms : IsUser(u)}}
             kept == {u \in users : Cardinality({v \in users : v > u}) < RollingUserTurns}
  <2>1. CASE Cardinality(users) <= RollingUserTurns
    BY <2>1 DEF Trim
  <2>2. CASE ~(Cardinality(users) <= RollingUserTurns)
    <3>1. Trim(ms) = {m \in ms : \E u \in kept : u <= m.at}
      BY <2>2 DEF Trim
    <3>2. PICK u \in kept : u <= a.at
      BY <3>1
    <3>3. u \in Nat /\ a.at \in Nat /\ r.at \in Nat
      BY DEF Good, MessageSet
    <3> HIDE DEF kept
    <3>4. QED
      BY <3>1, <3>2, <3>3
  <2>3. QED
    BY <2>1, <2>2
<1>3. Whole(Trim(ms), except)
  BY <1>1, <1>2 DEF Whole, Good
<1>4. QED
  BY <1>1, <1>3, GoodSubset

\* A settled block holds its call and the results of that call, nothing else.
LEMMA BlockIsOneBatch ==
  ASSUME NEW ms, NEW k \in Nat, Good(ms, k), NEW b \in Settled(ms), NEW m \in Block(ms, b)
  PROVE  m = b \/ (m.kind = "tool" /\ m.of = b.at)
<1>1. b \in ms /\ b.kind = "assistant"
  BY DEF Settled
<1>2. m \in ms /\ b.at <= m.at
  BY DEF Block
<1>3. PICK l \in ms : l.kind = "tool" /\ l.of = b.at /\ m.at <= l.at
  BY DEF Block
<1>4. l.call \in 1..b.call
  BY <1>1, <1>3 DEF Good
<1>5. PICK r \in ms :
        /\ r.kind = "tool" /\ r.of = b.at /\ r.call = l.call
        /\ \A x \in ms : (b.at < x.at /\ x.at < r.at) => (x.kind = "tool" /\ x.of = b.at)
  BY <1>1, <1>4 DEF Settled
<1>6. r = l
  BY <1>3, <1>5 DEF Good
<1>7. b.at \in Nat /\ m.at \in Nat /\ l.at \in Nat
  BY <1>1, <1>2, <1>3 DEF Good, MessageSet
<1>8. CASE m.at = b.at
  BY <1>1, <1>2, <1>8 DEF Good
<1>9. CASE m.at = l.at
  BY <1>2, <1>3, <1>9 DEF Good
<1>10. QED
  BY <1>2, <1>3, <1>5, <1>6, <1>7, <1>8, <1>9

\* A block removed by the compaction holds the results of its own call and
\* nothing else, so the calls that stay keep theirs.
LEMMA CompactionKeeps ==
  ASSUME NEW ms, NEW ms2, NEW k \in Nat, NEW except,
         Good(ms, k), Whole(ms, except), Compaction(ms, ms2)
  PROVE  Good(ms2, k) /\ Whole(ms2, except)
<1>1. PICK gone \in SUBSET Old(ms) : ms2 = ms \ UNION {Block(ms, b) : b \in gone}
  BY DEF Compaction
<1>2. ms2 \subseteq ms
  BY <1>1
<1>3. ASSUME NEW b \in gone, NEW m \in Block(ms, b)
      PROVE  m = b \/ (m.kind = "tool" /\ m.of = b.at)
  BY <1>1, <1>3, BlockIsOneBatch DEF Old
<1>4. ASSUME NEW b \in gone
      PROVE  b \in Block(ms, b)
  <2>1. b \in ms /\ b.call > 0 /\ b \in Settled(ms)
    BY <1>4 DEF Old, Settled
  <2>2. b.call \in Nat /\ b.at \in Nat
    BY <2>1 DEF Good, MessageSet
  <2>3. PICK r \in ms : r.kind = "tool" /\ r.of = b.at
    BY <2>1, <2>2 DEF Settled
  <2>4. r.at \in Nat /\ b.at < r.at
    BY <2>3 DEF Good, MessageSet
  <2>5. QED
    BY <2>1, <2>2, <2>3, <2>4 DEF Block
<1>5. ASSUME NEW a \in ms2, a.kind = "assistant", NEW r \in ms, r.kind = "tool", r.of = a.at
      PROVE  r \in ms2
  <2> SUFFICES ASSUME NEW b \in gone, r \in Block(ms, b)
               PROVE  FALSE
    BY <1>1, <1>5
  <2>1. b \in ms /\ b.kind = "assistant"
    BY DEF Old, Settled
  <2>2. r.of = b.at
    BY <1>3, <1>5, <2>1
  <2>3. a = b
    BY <1>2, <1>5, <2>1, <2>2 DEF Good
  <2>4. QED
    BY <1>1, <1>4, <2>3
<1>6. Whole(ms2, except)
  BY <1>2, <1>5 DEF Whole
<1>7. QED
  BY <1>2, <1>6, GoodSubset

\* Reclaiming images changes host messages only.
LEMMA StripKeeps ==
  ASSUME NEW ms, NEW k \in Nat, NEW except, Good(ms, k), Whole(ms, except)
  PROVE  Good(Strip(ms), k) /\ Whole(Strip(ms), except)
<1> DEFINE Stripped(m) == [m EXCEPT !.image = FALSE]
<1>1. ASSUME NEW m \in ms
      PROVE  /\ Stripped(m) \in MessageSet /\ Stripped(m).at = m.at
             /\ Stripped(m).kind = m.kind /\ Stripped(m).image = FALSE
  BY <1>1 DEF Good, MessageSet
<1>2. \A m \in Strip(ms) :
        m \in ms \/ \E i \in ms : i.image /\ i.at \notin stranded /\ m = Stripped(i)
  BY DEF Strip
<1>3. \A m \in Strip(ms) : m.kind # "host" => m \in ms
  BY <1>1, <1>2 DEF Good
<1>4. \A m \in ms : m.kind # "host" => m \in Strip(ms)
  BY DEF Strip, Good
<1>5. \A m \in Strip(ms) : \E i \in ms : i.at = m.at /\
        \/ m = i /\ (~i.image \/ i.at \in stranded)
        \/ m = Stripped(i) /\ i.image /\ i.at \notin stranded
  <2> TAKE m \in Strip(ms)
  <2>1. CASE m \in ms /\ (~m.image \/ m.at \in stranded)
    BY <2>1
  <2>2. CASE \E i \in ms : i.image /\ i.at \notin stranded /\ m = Stripped(i)
    <3>1. PICK i \in ms : i.image /\ i.at \notin stranded /\ m = Stripped(i)
      BY <2>2
    <3>2. i.at = m.at
      BY <1>1, <3>1
    <3>3. QED
      BY <3>1, <3>2
  <2>3. QED
    BY <2>1, <2>2 DEF Strip
<1> HIDE DEF Stripped
<1>6. Strip(ms) \subseteq MessageSet /\ \A m \in Strip(ms) : m.at < k
  <2> SUFFICES ASSUME NEW m \in Strip(ms)
               PROVE  m \in MessageSet /\ m.at < k
    OBVIOUS
  <2>1. CASE m \in ms
    BY <2>1 DEF Good
  <2>2. CASE m \notin ms
    <3>1. PICK i \in ms : m = Stripped(i)
      BY <1>2, <2>2
    <3>2. QED
      BY <1>1, <3>1 DEF Good
  <2>3. QED
    BY <2>1, <2>2
<1>7. \A m, n \in Strip(ms) : m.at = n.at => m = n
  BY <1>5 DEF Good
<1>8. \A m \in Strip(ms) : m.image => m.kind = "host"
  BY <1>1, <1>2 DEF Good
<1>9. Good(Strip(ms), k)
  BY <1>3, <1>6, <1>7, <1>8 DEF Good
<1>10. Whole(Strip(ms), except)
  BY <1>3, <1>4 DEF Whole
<1>11. QED
  BY <1>9, <1>10

LEMMA InitInv == Init => Inv
<1> SUFFICES ASSUME Init PROVE Inv
  OBVIOUS
<1>1. messages = {} /\ phase = "idle"
  BY DEF Init
<1>2. TypeOK
  <2>1. messages \subseteq MessageSet /\ stranded \subseteq Nat /\ cut \subseteq Nat
    BY DEF Init
  <2>2. /\ next \in Nat \ {0} /\ turn \in Nat /\ batch \in Nat /\ calls \in Nat /\ settled \in Nat
        /\ phase \in {"idle", "top", "asking", "batch"}
    BY DEF Init
  <2>3. thumbnails \in BOOLEAN
    BY Zenon DEF Init
  <2>4. QED
    BY <2>1, <2>2, <2>3 DEF TypeOK
<1>3. Good(messages, next)
  BY <1>1 DEF Good
<1>4. QED
  BY <1>1, <1>2, <1>3 DEF Inv, Whole

\* Messages with stamps from k to k2 that neither call nor answer.
Plain(new, k, k2) ==
  /\ new \subseteq MessageSet
  /\ \A m \in new : /\ k <= m.at /\ m.at < k2
                    /\ m.kind # "tool" /\ (m.kind = "assistant" => m.call = 0)
                    /\ (m.image => m.kind = "host")
  /\ \A m, n \in new : m.at = n.at => m = n

\* They disturb nothing.
LEMMA AddPlainMessages ==
  ASSUME NEW ms, NEW new, NEW except, NEW k \in Nat, NEW k2 \in Nat, k <= k2,
         Good(ms, k), Whole(ms, except), Plain(new, k, k2)
  PROVE  Good(ms \union new, k2) /\ Whole(ms \union new, except)
<1>1. /\ \A x \in ms : x.at \in Nat /\ x.of \in Nat /\ x.at < k
      /\ \A x \in new : x.at \in Nat
  BY DEF Good, Plain, MessageSet
<1> USE DEF Plain
<1>2. \A r \in ms \union new : r.kind = "tool" => r \in ms /\ r.of < k
  BY <1>1 DEF Good
<1>3. \A m, n \in ms \union new : m.at = n.at => m = n
  BY <1>1 DEF Good
<1>4. ms \union new \subseteq MessageSet /\ \A m \in ms \union new : m.at < k2
  BY <1>1 DEF Good
<1>5. \A a, r \in ms \union new :
        (a.kind = "assistant" /\ r.kind = "tool" /\ r.of = a.at) => a \in ms
  BY <1>1, <1>2
<1>6. Good(ms \union new, k2)
  BY <1>2, <1>3, <1>4, <1>5 DEF Good
<1>7. Whole(ms \union new, except)
  <2> SUFFICES ASSUME NEW a \in ms \union new, a.kind = "assistant", a.at \notin except, NEW c \in 1..a.call
               PROVE  \E r \in ms \union new : r.kind = "tool" /\ r.of = a.at /\ r.call = c
    BY DEF Whole
  <2>1. a \in ms
    OBVIOUS
  <2>2. QED
    BY <2>1 DEF Whole
<1>8. QED
  BY <1>6, <1>7

\* An assistant message with calls opens a batch.
LEMMA AddCalls ==
  ASSUME NEW ms, NEW k \in Nat, NEW except, NEW n \in Nat, Good(ms, k), Whole(ms, except)
  PROVE  LET ms2 == ms \union {Assistant(k, n)}
         IN  Good(ms2, k + 1) /\ Whole(ms2, except \union {k})
<1> DEFINE a0 == Assistant(k, n)
           ms2 == ms \union {a0}
<1>1. a0 \in MessageSet /\ a0.at = k /\ a0.kind = "assistant" /\ a0.image = FALSE
  BY DEF Assistant, Message, MessageSet
<1> HIDE DEF a0
<1>2. \A x \in ms : x.at \in Nat /\ x.of \in Nat /\ x.at < k
  BY DEF Good, MessageSet
<1>3. \A r \in ms2 : r.kind = "tool" => r \in ms /\ r.of < k
  BY <1>1, <1>2 DEF Good
<1>4. Good(ms2, k + 1)
  BY <1>1, <1>2, <1>3 DEF Good
<1>5. Whole(ms2, except \union {k})
  BY <1>1 DEF Whole
<1>6. QED
  BY <1>4, <1>5 DEF a0

\* The results of calls settled + 1 to t of the batch under way.
NewResults(t) == {Result(next + c - settled - 1, batch, c) : c \in (settled + 1)..t}

LEMMA AddResults ==
  ASSUME TypeOK, Good(messages, next), Open(messages), NEW except,
         Whole(messages, except), NEW t \in settled..calls
  PROVE  LET ms2 == messages \union NewResults(t)
         IN  /\ Good(ms2, next + t - settled)
             /\ Whole(ms2, except)
             /\ \A r \in ms2 : (r.kind = "tool" /\ r.of = batch) => r.call <= t
             /\ \A c \in 1..t : \E r \in ms2 : r.kind = "tool" /\ r.of = batch /\ r.call = c
             /\ \A a \in ms2 : (a.kind = "assistant" /\ a.at = batch) => a.call = calls
<1> DEFINE new == NewResults(t)
           ms2 == messages \union new
<1>1. next \in Nat \ {0} /\ settled \in Nat /\ calls \in Nat /\ t \in Nat /\ settled <= t
      /\ batch \in Nat /\ batch < next
  BY DEF TypeOK, Open
<1>2. \A m \in new : /\ m \in MessageSet /\ m.kind = "tool" /\ m.of = batch /\ m.image = FALSE
                     /\ m.call \in (settled + 1)..t /\ m.at = next + m.call - settled - 1
  <2> SUFFICES ASSUME NEW m \in new
               PROVE  /\ m \in MessageSet /\ m.kind = "tool" /\ m.of = batch /\ m.image = FALSE
                      /\ m.call \in (settled + 1)..t /\ m.at = next + m.call - settled - 1
    OBVIOUS
  <2>1. PICK c \in (settled + 1)..t : m = Result(next + c - settled - 1, batch, c)
    BY DEF NewResults
  <2>2. next + c - settled - 1 \in Nat /\ c \in Nat
    BY <1>1
  <2>3. QED
    BY <1>1, <2>1, <2>2 DEF Result, Message, MessageSet
<1>3. \A c \in (settled + 1)..t : \E m \in new : m.call = c
  <2> SUFFICES ASSUME NEW c \in (settled + 1)..t
               PROVE  \E m \in new : m.call = c
    OBVIOUS
  <2>1. Result(next + c - settled - 1, batch, c) \in new
    BY DEF NewResults
  <2>2. Result(next + c - settled - 1, batch, c).call = c
    BY DEF Result, Message
  <2>3. QED
    BY <2>1, <2>2
<1>4. \A m, n \in new : (m.at = n.at \/ m.call = n.call) => m = n
  <2> SUFFICES ASSUME NEW m \in new, NEW n \in new, m.at = n.at \/ m.call = n.call
               PROVE  m = n
    OBVIOUS
  <2>1. m.call = n.call
    BY <1>1, <1>2
  <2>2. PICK c \in (settled + 1)..t : m = Result(next + c - settled - 1, batch, c)
    BY DEF NewResults
  <2>3. PICK d \in (settled + 1)..t : n = Result(next + d - settled - 1, batch, d)
    BY DEF NewResults
  <2>4. c = d
    BY <2>1, <2>2, <2>3 DEF Result, Message
  <2>5. QED
    BY <2>2, <2>3, <2>4
<1> HIDE DEF new
<1>5. /\ \A x \in messages : x.at \in Nat /\ x.at < next /\ x.of \in Nat /\ x.call \in Nat
      /\ messages \subseteq MessageSet
  BY DEF Good, MessageSet
<1>6. \A m \in new : next <= m.at /\ m.at < next + t - settled
  BY <1>1, <1>2
<1>7. \A m, n \in ms2 : m.at = n.at => m = n
  <2>1. \A m \in new : m.at \in Nat
    BY <1>2 DEF MessageSet
  <2>2. \A m, n \in messages : m.at = n.at => m = n
    BY DEF Good
  <2>3. QED
    BY <1>1, <1>4, <1>5, <1>6, <2>1, <2>2
<1>8. \A r, s \in ms2 : (r.kind = "tool" /\ s.kind = "tool" /\ r.of = s.of /\ r.call = s.call) => r = s
  BY <1>1, <1>2, <1>4, <1>5 DEF Good, Open
<1>9. \A a, r \in ms2 : (a.kind = "assistant" /\ r.kind = "tool" /\ r.of = a.at) => r.call \in 1..a.call
  BY <1>1, <1>2, <1>5 DEF Good, Open
<1>10. \A r \in ms2 : r.kind = "tool" => r.of < r.at
  BY <1>1, <1>2, <1>6 DEF Good
<1>11. Good(ms2, next + t - settled)
  <2>1. ms2 \subseteq MessageSet /\ \A m \in ms2 : m.at < next + t - settled
    BY <1>1, <1>2, <1>5, <1>6
  <2>2. \A m \in ms2 : m.image => m.kind = "host"
    BY <1>2 DEF Good
  <2>3. QED
    BY <1>7, <1>8, <1>9, <1>10, <2>1, <2>2 DEF Good
<1>12. Whole(ms2, except)
  BY <1>2 DEF Whole
<1>13. \A r \in ms2 : (r.kind = "tool" /\ r.of = batch) => r.call <= t
  BY <1>1, <1>2, <1>5 DEF Open
<1>14. \A c \in 1..t : \E r \in ms2 : r.kind = "tool" /\ r.of = batch /\ r.call = c
  BY <1>1, <1>2, <1>3 DEF Open
<1>15. \A a \in ms2 : (a.kind = "assistant" /\ a.at = batch) => a.call = calls
  BY <1>2 DEF Open
<1>16. QED
  BY <1>11, <1>12, <1>13, <1>14, <1>15 DEF new

LEMMA StepInv == Inv /\ [Next]_vars => Inv'
<1> SUFFICES ASSUME Inv, [Next]_vars PROVE Inv'
  OBVIOUS
<1> DEFINE open == IF phase = "batch" THEN {batch} ELSE {}
<1>1. /\ TypeOK /\ Good(messages, next) /\ next \in Nat \ {0}
      /\ Whole(messages, cut \union open)
  BY DEF Inv, TypeOK
<1>2. CASE RunTurn
  <2>1. phase = "idle" /\ phase' = "top" /\ cut' = cut
    BY <1>2 DEF RunTurn
  <2>2. /\ Request(next) \in MessageSet /\ Request(next).at = next /\ Request(next).kind = "request"
        /\ Request(next).image = FALSE
    BY <1>1 DEF Request, Message, MessageSet, TypeOK
  <2> DEFINE new == {Request(next)}
             ms == messages \union new
  <2>3. Good(ms, next + 1) /\ Whole(ms, cut)
    <3>1. Plain(new, next, next + 1)
      BY <1>1, <2>2 DEF Plain
    <3> HIDE DEF new
    <3>2. next \in Nat /\ next + 1 \in Nat /\ next <= next + 1 /\ Whole(messages, cut)
      BY <1>1, <2>1
    <3>3. QED
      BY <1>1, <3>1, <3>2, AddPlainMessages
  <2>4. Good(Trim(ms), next + 1) /\ Whole(Trim(ms), cut)
    BY <1>1, <2>3, TrimKeeps
  <2>5. Good(messages', next') /\ Whole(messages', cut')
    BY <1>2, <2>4 DEF RunTurn
  <2>6. TypeOK'
    <3>1. messages' \subseteq MessageSet
      BY <2>5 DEF Good
    <3>2. next' \in Nat \ {0} /\ turn' \in Nat
      BY <1>1, <1>2 DEF RunTurn, TypeOK
    <3>3. QED
      BY <1>1, <1>2, <3>1, <3>2 DEF RunTurn, TypeOK
  <2>7. QED
    BY <2>1, <2>5, <2>6 DEF Inv
<1>3. CASE Ask \/ RenderRaises
  <2>1. /\ phase = "top" /\ phase' \in {"asking", "idle"} /\ cut' = cut /\ next' = next
        /\ Compaction(messages, messages')
    BY <1>3 DEF Ask, RenderRaises
  <2>2. Good(messages', next') /\ Whole(messages', cut')
    BY <1>1, <2>1, CompactionKeeps
  <2>3. stranded' \subseteq Nat
    <3>1. stranded \subseteq Nat /\ \A m \in messages : m.at \in Nat
      BY <1>1 DEF TypeOK, MessageSet
    <3>2. CASE Ask
      BY <3>1, <3>2 DEF Ask
    <3>3. CASE RenderRaises
      BY <3>1, <3>3 DEF RenderRaises
    <3>4. QED
      BY <1>3, <3>2, <3>3
  <2>4. TypeOK'
    BY <1>1, <1>3, <2>2, <2>3 DEF Ask, RenderRaises, TypeOK, Good, loopVars
  <2>5. QED
    BY <2>1, <2>2, <2>4 DEF Inv
<1>4. CASE StreamFails
  <2>1. phase = "asking" /\ phase' = "idle" /\ cut' = cut /\ next' = next /\ messages' = Strip(messages)
    BY <1>4 DEF StreamFails
  <2>2. Good(messages', next') /\ Whole(messages', cut')
    BY <1>1, <2>1, StripKeeps
  <2>3. TypeOK'
    BY <1>1, <1>4, <2>2 DEF StreamFails, TypeOK, Good, loopVars
  <2>4. QED
    BY <2>1, <2>2, <2>3 DEF Inv
<1>5. CASE Answer
  <2>1. phase = "asking" /\ phase' \in {"idle", "top"} /\ cut' = cut
    BY <1>5 DEF Answer
  <2>2. Good(Strip(messages), next) /\ Whole(Strip(messages), cut)
    BY <1>1, <2>1, StripKeeps
  <2>3. /\ Assistant(next, 0) \in MessageSet /\ Assistant(next, 0).at = next
        /\ Assistant(next, 0).kind = "assistant" /\ Assistant(next, 0).call = 0
        /\ Assistant(next, 0).image = FALSE
    BY <1>1 DEF Assistant, Message, MessageSet
  <2>4. ASSUME messages' = Strip(messages) \union {Assistant(next, 0)}, next' = next + 1
        PROVE  Good(messages', next') /\ Whole(messages', cut')
    <3> DEFINE new == {Assistant(next, 0)}
    <3>1. Plain(new, next, next + 1)
      BY <1>1, <2>3 DEF Plain
    <3> HIDE DEF new
    <3>2. next \in Nat /\ next + 1 \in Nat /\ next <= next + 1
      BY <1>1
    <3>3. Good(Strip(messages) \union new, next + 1) /\ Whole(Strip(messages) \union new, cut)
      BY <2>2, <3>1, <3>2, AddPlainMessages
    <3>4. QED
      BY <2>1, <2>4, <3>3 DEF new
  <2>5. ASSUME NEW image \in BOOLEAN,
               messages' = Strip(messages) \union {Assistant(next, 0), Host(next + 1, image)},
               next' = next + 2
        PROVE  Good(messages', next') /\ Whole(messages', cut')
    <3>1. /\ Host(next + 1, image) \in MessageSet /\ Host(next + 1, image).at = next + 1
          /\ Host(next + 1, image).kind = "host"
      BY <1>1 DEF Host, Message, MessageSet
    <3> DEFINE new == {Assistant(next, 0), Host(next + 1, image)}
    <3>2. Plain(new, next, next + 2)
      <4>1. next \in Nat /\ next # next + 1 /\ next < next + 2 /\ next + 1 < next + 2
        BY <1>1
      <4>2. QED
        BY <2>3, <3>1, <4>1 DEF Plain
    <3> HIDE DEF new
    <3>3. Good(Strip(messages) \union new, next + 2) /\ Whole(Strip(messages) \union new, cut)
      <4>1. next \in Nat /\ next + 2 \in Nat /\ next <= next + 2
        BY <1>1
      <4>2. QED
        BY <2>2, <3>2, <4>1, AddPlainMessages
    <3>4. QED
      BY <2>1, <2>5, <3>3 DEF new
  <2>6. Good(messages', next') /\ Whole(messages', cut') /\ next' \in Nat \ {0}
    <3>1. Good(messages', next') /\ Whole(messages', cut')
      BY <1>5, <2>4, <2>5 DEF Answer
    <3>2. QED
      BY <1>1, <1>5, <3>1 DEF Answer
  <2>7. TypeOK'
    BY <1>1, <1>5, <2>1, <2>6 DEF Answer, TypeOK, Good, loopVars
  <2>8. QED
    BY <2>1, <2>6, <2>7 DEF Inv
<1>6. CASE CallTools
  <2>1. phase = "asking" /\ phase' = "batch" /\ cut' = cut /\ next' = next + 1 /\ batch' = next /\ settled' = 0
    BY <1>6 DEF CallTools
  <2>2. PICK n \in 1..MaxCalls : messages' = Strip(messages) \union {Assistant(next, n)} /\ calls' = n
    BY <1>6 DEF CallTools
  <2>3. n \in Nat
    BY ConversationAssumption
  <2>4. Good(Strip(messages), next) /\ Whole(Strip(messages), cut)
    BY <1>1, <2>1, StripKeeps
  <2>5. Good(messages', next') /\ Whole(messages', cut' \union {batch'})
    BY <1>1, <2>1, <2>2, <2>3, <2>4, AddCalls
  <2>6. TypeOK'
    BY <1>1, <1>6, <2>1, <2>2, <2>3, <2>5 DEF CallTools, TypeOK, Good
  <2>7. Open(messages)'
    <3>1. Assistant(next, n).kind = "assistant" /\ Assistant(next, n).call = n
      BY DEF Assistant, Message
    <3>2. \A m \in Strip(messages) : m.at < next /\ m.at \in Nat /\ m.of \in Nat
      BY <2>4 DEF Good, MessageSet
    <3>3. \A m \in Strip(messages) : m.kind = "tool" => m.of < next
      BY <1>1, <2>4, <3>2 DEF Good
    <3>4. \A a \in messages' : (a.kind = "assistant" /\ a.at = batch') => a.call = calls'
      BY <1>1, <2>1, <2>2, <3>1, <3>2
    <3>5. \A r \in messages' : ~(r.kind = "tool" /\ r.of = batch')
      BY <1>1, <2>1, <2>2, <3>1, <3>3
    <3>6. batch' \in Nat \ {0} /\ batch' < next' /\ settled' \in 0..calls'
      BY <1>1, <2>1, <2>2, <2>3
    <3>7. \A c \in 1..settled' : FALSE
      BY <2>1
    <3>8. QED
      BY <3>4, <3>5, <3>6, <3>7 DEF Open
  <2>8. QED
    BY <2>1, <2>5, <2>6, <2>7 DEF Inv
<1>7. CASE SettleCall
  <2>1. /\ phase = "batch" /\ phase' = "batch" /\ settled < calls /\ settled' = settled + 1
        /\ batch' = batch /\ calls' = calls /\ cut' = cut
    BY <1>7 DEF SettleCall
  <2>2. Open(messages) /\ settled \in Nat /\ calls \in Nat
    BY <1>1, <2>1 DEF Inv, TypeOK
  <2> DEFINE t == settled + 1
             ms == messages \union {Result(next, batch, settled + 1)}
  <2>3. messages \union NewResults(t) = ms
    <3>1. (settled + 1)..t = {settled + 1} /\ next + (settled + 1) - settled - 1 = next
      BY <1>1, <2>2
    <3>2. QED
      BY <3>1 DEF NewResults
  <2>4. /\ Good(ms, next + t - settled) /\ Whole(ms, cut \union {batch})
        /\ \A r \in ms : (r.kind = "tool" /\ r.of = batch) => r.call <= t
        /\ \A c \in 1..t : \E r \in ms : r.kind = "tool" /\ r.of = batch /\ r.call = c
        /\ \A a \in ms : (a.kind = "assistant" /\ a.at = batch) => a.call = calls
    <3> HIDE DEF ms
    <3>1. t \in settled..calls
      BY <2>1, <2>2
    <3>2. QED
      BY <1>1, <2>1, <2>2, <2>3, <3>1, AddResults
  <2>5. next + t - settled = next + 1
    BY <1>1, <2>2
  <2> HIDE DEF ms
  <2> DEFINE host == Host(next + 1, FALSE)
  <2>6. host \in MessageSet /\ host.at = next + 1 /\ host.kind = "host" /\ host.image = FALSE
    BY <1>1 DEF Host, Message, MessageSet
  <2> HIDE DEF host
  <2>7. \/ messages' = ms /\ next' = next + 1
        \/ messages' = ms \union {host} /\ next' = next + 2
    BY <1>7 DEF SettleCall, ms, host
  <2>8. Good(ms \union {host}, next + 2) /\ Whole(ms \union {host}, cut \union {batch})
    <3> DEFINE new == {host}
    <3>1. Plain(new, next + 1, next + 2)
      BY <1>1, <2>6 DEF Plain
    <3> HIDE DEF new
    <3>2. next + 1 \in Nat /\ next + 2 \in Nat /\ next + 1 <= next + 2
      BY <1>1
    <3>3. Good(ms \union new, next + 2) /\ Whole(ms \union new, cut \union {batch})
      BY <2>4, <2>5, <3>1, <3>2, AddPlainMessages
    <3>4. QED
      BY <3>3 DEF new
  <2>9. /\ Good(messages', next') /\ Whole(messages', cut' \union {batch'}) /\ next' \in Nat \ {0}
        /\ next < next'
    <3>1. CASE messages' = ms /\ next' = next + 1
      BY <1>1, <2>1, <2>4, <2>5, <3>1
    <3>2. CASE messages' = ms \union {host} /\ next' = next + 2
      BY <1>1, <2>1, <2>8, <3>2
    <3>3. QED
      BY <2>7, <3>1, <3>2
  <2>10. Open(messages)'
    <3>1. batch' \in Nat \ {0} /\ batch' < next' /\ settled' \in 0..calls'
      <4>1. batch \in Nat \ {0} /\ batch < next
        BY <2>2 DEF Open
      <4>2. batch' < next'
        BY <1>1, <2>1, <2>9, <4>1
      <4>3. settled' \in 0..calls'
        BY <2>1, <2>2
      <4>4. QED
        BY <2>1, <4>1, <4>2, <4>3
    <3>2. \A a \in messages' : (a.kind = "assistant" /\ a.at = batch') => a.call = calls'
      BY <2>1, <2>4, <2>6, <2>7
    <3>3. \A r \in messages' : (r.kind = "tool" /\ r.of = batch') => r.call <= settled'
      BY <2>1, <2>4, <2>6, <2>7
    <3>4. \A c \in 1..settled' : \E r \in messages' : r.kind = "tool" /\ r.of = batch' /\ r.call = c
      BY <2>1, <2>4, <2>7
    <3>5. QED
      BY <3>1, <3>2, <3>3, <3>4 DEF Open
  <2>11. TypeOK'
    <3>1. messages' \subseteq MessageSet
      BY <2>9 DEF Good
    <3>2. thumbnails' \in BOOLEAN
      BY <1>1, <1>7 DEF SettleCall, TypeOK
    <3>3. QED
      BY <1>1, <1>7, <2>1, <2>2, <2>9, <3>1, <3>2 DEF SettleCall, TypeOK
  <2>12. QED
    BY <2>1, <2>9, <2>10, <2>11 DEF Inv
<1>8. CASE HardStop
  <2>1. /\ phase = "batch" /\ phase' = "idle" /\ settled < calls /\ settled' = calls
        /\ messages' = messages \union NewResults(calls) /\ next' = next + calls - settled
        /\ batch' = batch /\ calls' = calls /\ cut' = cut
    BY <1>8 DEF HardStop, NewResults
  <2>2. Open(messages) /\ settled \in Nat /\ calls \in Nat /\ calls \in settled..calls
    BY <1>1, <2>1 DEF Inv, TypeOK
  <2>3. /\ Good(messages', next') /\ Whole(messages', cut \union {batch})
        /\ \A c \in 1..calls : \E r \in messages' : r.kind = "tool" /\ r.of = batch /\ r.call = c
        /\ \A a \in messages' : (a.kind = "assistant" /\ a.at = batch) => a.call = calls
    BY <1>1, <2>1, <2>2, AddResults
  <2>4. Whole(messages', cut')
    BY <2>1, <2>3 DEF Whole
  <2>5. TypeOK'
    <3>1. next' \in Nat \ {0}
      BY <1>1, <2>1, <2>2
    <3>2. messages' \subseteq MessageSet
      BY <2>3 DEF Good
    <3>3. thumbnails' \in BOOLEAN /\ UNCHANGED <<turn, stranded>>
      BY <1>1, <1>8 DEF HardStop, TypeOK
    <3>4. QED
      BY <1>1, <2>1, <3>1, <3>2, <3>3 DEF TypeOK
  <2>6. QED
    BY <2>1, <2>3, <2>4, <2>5 DEF Inv
<1>9. CASE EndBatch
  <2>1. phase = "batch" /\ phase' \in {"idle", "top"} /\ settled = calls /\ cut' = cut
    BY <1>9 DEF EndBatch
  <2>2. Open(messages)
    BY <2>1 DEF Inv
  <2>3. Whole(messages, cut)
    BY <1>1, <2>1, <2>2 DEF Whole, Open
  <2> DEFINE hosts(h) == {Host(next + i - 1, FALSE) : i \in 1..h}
             thumb(h) == IF thumbnails THEN {Host(next + h, TRUE)} ELSE {}
  <2>4. PICK h \in 0..2 :
          \/ messages' = messages \union hosts(h) /\ next' = next + h
          \/ /\ messages' = (messages \union hosts(h)) \union thumb(h)
             /\ next' = next + h + (IF thumbnails THEN 1 ELSE 0)
    BY <1>9 DEF EndBatch
  <2>5. ASSUME NEW m \in hosts(h)
        PROVE  /\ m \in MessageSet /\ next <= m.at /\ m.at < next + h
               /\ m.kind = "host" /\ m.image = FALSE /\ m = Host(m.at, FALSE)
    <3>1. PICK i \in 1..h : m = Host(next + i - 1, FALSE)
      BY <2>5
    <3>2. next + i - 1 \in Nat /\ next + i - 1 < next + h /\ next <= next + i - 1
      BY <1>1
    <3>3. QED
      BY <3>1, <3>2 DEF Host, Message, MessageSet
  <2>6. ASSUME NEW m \in thumb(h)
        PROVE  /\ m \in MessageSet /\ m.at = next + h /\ m.kind = "host" /\ m = Host(next + h, TRUE) /\ thumbnails
    <3>1. m = Host(next + h, TRUE) /\ thumbnails
      BY <2>6
    <3>2. QED
      BY <1>1, <3>1 DEF Host, Message, MessageSet
  <2> DEFINE k == next + h
             k2 == next + h + (IF thumbnails THEN 1 ELSE 0)
  <2>7. k \in Nat \ {0} /\ k2 \in Nat \ {0} /\ next <= k /\ k <= k2 /\ (thumbnails => k < k2)
    BY <1>1 DEF TypeOK
  <2> HIDE DEF hosts, thumb, k2
  <2>8. Good(messages \union hosts(h), k) /\ Whole(messages \union hosts(h), cut)
    <3>1. Plain(hosts(h), next, k)
      BY <2>5, <2>7 DEF Plain, MessageSet
    <3>2. QED
      BY <1>1, <2>3, <2>7, <3>1, AddPlainMessages
  <2>9. LET ms2 == (messages \union hosts(h)) \union thumb(h)
        IN  Good(ms2, k2) /\ Whole(ms2, cut)
    <3>1. Plain(thumb(h), k, k2)
      <4>1. \A m \in thumb(h) : m \in MessageSet /\ m.at = k /\ m.kind = "host"
                               /\ m = Host(k, TRUE) /\ thumbnails
        BY <2>6
      <4> HIDE DEF k
      <4>2. \A m, n \in thumb(h) : m = n
        BY <4>1
      <4>3. \A m \in thumb(h) : k <= m.at /\ m.at < k2
        <5> SUFFICES ASSUME NEW m \in thumb(h)
                     PROVE  k <= m.at /\ m.at < k2
          OBVIOUS
        <5>1. k < k2
          BY <2>7, <4>1, Zenon
        <5>2. m.at = k /\ k \in Nat
          BY <2>7, <4>1
        <5>3. QED
          BY <5>1, <5>2
      <4>4. QED
        BY <4>1, <4>2, <4>3 DEF Plain
    <3>2. QED
      BY <2>7, <2>8, <3>1, AddPlainMessages
  <2>10. Good(messages', next') /\ Whole(messages', cut') /\ next' \in Nat \ {0}
    BY <2>1, <2>4, <2>7, <2>8, <2>9 DEF k2
  <2>11. TypeOK'
    BY <1>1, <1>9, <2>1, <2>10 DEF EndBatch, TypeOK, Good, loopVars
  <2>12. QED
    BY <2>1, <2>10, <2>11 DEF Inv
<1>10. CASE Cancel
  <2>1. phase = "batch" /\ phase' = "idle" /\ cut' = cut \union {batch} /\ messages' = messages /\ next' = next
    BY <1>10 DEF Cancel
  <2>2. TypeOK'
    BY <1>1, <1>10 DEF Cancel, TypeOK, loopVars
  <2>3. QED
    BY <1>1, <2>1, <2>2 DEF Inv
<1>11. CASE UNCHANGED vars
  BY <1>1, <1>11 DEF vars, Inv, TypeOK, Open
<1>12. QED
  BY <1>2, <1>3, <1>4, <1>5, <1>6, <1>7, <1>8, <1>9, <1>10, <1>11 DEF Next

\* While the loop asks, the strengthened invariant gives every call one result.
LEMMA InvAnswers == Inv => CallsHaveResults
<1> SUFFICES ASSUME Inv, phase = "asking", NEW a \in messages, a.kind = "assistant",
                    a.at \notin cut, NEW c \in 1..a.call
             PROVE  \E r \in messages : ResultsOf(a, c) = {r} /\ r.at > a.at
  BY DEF CallsHaveResults
<1>1. PICK r \in messages : r.kind = "tool" /\ r.of = a.at /\ r.call = c
  BY DEF Inv, Whole
<1>2. \A s \in ResultsOf(a, c) : s = r
  BY <1>1 DEF ResultsOf, Inv, Good
<1>3. r.at \in Nat /\ a.at \in Nat /\ a.at < r.at
  BY <1>1 DEF Inv, Good, MessageSet
<1>4. QED
  BY <1>1, <1>2, <1>3 DEF ResultsOf

\* No request holds a tool call without its one result, unless its batch was
\* cut by a cancellation (agent_loop_v3.py, turn_compaction.py).
THEOREM CallsAlwaysHaveResults == Spec => []CallsHaveResults
<1>1. Spec => []Inv
  BY InitInv, StepInv, PTL DEF Spec
<1>2. QED
  BY <1>1, InvAnswers, PTL

-----------------------------------------------------------------------------
(* Results and the calls they answer.                                      *)

Called(ms, r) == \E a \in ms : a.kind = "assistant" /\ a.at = r.of /\ r.call \in 1..a.call

\* Nothing as old as the call that r answers is left.
Parted(ms, r) == \A m \in ms : r.of < m.at

Headed(ms) == \A r \in ms : r.kind = "tool" => Called(ms, r) \/ Parted(ms, r)

\* The call of the batch under way is there, nothing being removed meanwhile.
CallInv ==
  /\ Headed(messages)
  /\ phase = "batch" => \E a \in messages : a.kind = "assistant" /\ a.at = batch /\ a.call = calls

\* The window either leaves a call or leaves nothing as old as it.
LEMMA TrimHeaded ==
  ASSUME NEW ms, NEW k \in Nat, Good(ms, k), Headed(ms)
  PROVE  Headed(Trim(ms))
<1> SUFFICES ASSUME NEW r \in Trim(ms), r.kind = "tool", ~ Parted(Trim(ms), r)
             PROVE  Called(Trim(ms), r)
  BY DEF Headed
<1>1. Trim(ms) \subseteq ms
  BY DEF Trim
<1>2. PICK m \in Trim(ms) : ~ (r.of < m.at)
  BY DEF Parted
<1>3. PICK a \in ms : a.kind = "assistant" /\ a.at = r.of /\ r.call \in 1..a.call
  <2>1. Called(ms, r)
    BY <1>1, <1>2 DEF Headed, Parted
  <2> QED  BY <2>1 DEF Called
<1>4. m.at <= a.at /\ m.at \in Nat /\ a.at \in Nat
  BY <1>1, <1>2, <1>3 DEF Good, MessageSet
<1>5. a \in Trim(ms)
  <2> DEFINE users == {u.at : u \in {v \in ms : IsUser(v)}}
             kept == {u \in users : Cardinality({v \in users : v > u}) < RollingUserTurns}
  <2>1. CASE Trim(ms) = ms
    BY <2>1
  <2>2. CASE Trim(ms) = {n \in ms : \E u \in kept : u <= n.at}
    <3>1. PICK u \in kept : u <= m.at
      BY <2>2
    <3>2. u \in Nat
      BY DEF Good, MessageSet
    <3>3. u <= a.at
      BY <1>4, <3>1, <3>2
    <3> HIDE DEF kept
    <3> QED  BY <2>2, <3>1, <3>3
  <2> QED  BY <2>1, <2>2 DEF Trim
<1> QED  BY <1>3, <1>5 DEF Called

\* The compaction removes the results of a call with the call.
LEMMA CompactionHeaded ==
  ASSUME NEW ms, NEW ms2, NEW k \in Nat, Good(ms, k), Compaction(ms, ms2), Headed(ms)
  PROVE  Headed(ms2)
<1>1. PICK gone \in SUBSET Old(ms) : ms2 = ms \ UNION {Block(ms, b) : b \in gone}
  BY DEF Compaction
<1> SUFFICES ASSUME NEW r \in ms2, r.kind = "tool", ~ Parted(ms2, r)
             PROVE  Called(ms2, r)
  BY DEF Headed
<1>2. ms2 \subseteq ms
  BY <1>1
<1>3. PICK a \in ms : a.kind = "assistant" /\ a.at = r.of /\ r.call \in 1..a.call
  <2>1. Called(ms, r)
    BY <1>2 DEF Headed, Parted
  <2> QED  BY <2>1 DEF Called
<1>4. ASSUME NEW b \in gone, a \in Block(ms, b)  PROVE FALSE
  <2>1. b \in ms /\ b.kind = "assistant" /\ b \in Settled(ms)
    BY <1>4 DEF Old, Settled
  <2>2. a = b
    BY <1>1, <1>3, <1>4, <2>1, BlockIsOneBatch
  <2>3. r \in ms /\ r.of < r.at /\ r.at \in Nat /\ r.of \in Nat
    BY <1>2 DEF Good, MessageSet
  <2>4. r \in Block(ms, b)
    BY <1>3, <2>2, <2>3 DEF Block
  <2> QED  BY <1>1, <2>4
<1> QED  BY <1>1, <1>3, <1>4 DEF Called

\* Reclaiming images moves no message.
LEMMA StripHeaded ==
  ASSUME NEW ms, NEW k \in Nat, Good(ms, k), Headed(ms)
  PROVE  Headed(Strip(ms))
<1>1. \A m \in Strip(ms) : m \in ms \/ \E i \in ms : i.image /\ m = [i EXCEPT !.image = FALSE]
  BY DEF Strip
<1>2. \A i \in ms : [i EXCEPT !.image = FALSE].at = i.at /\ [i EXCEPT !.image = FALSE].kind = i.kind
  BY DEF Good, MessageSet
<1>3. \A m \in Strip(ms) : \E i \in ms : i.at = m.at
  BY <1>1, <1>2
<1>4. \A m \in Strip(ms) : m.kind = "tool" => m \in ms
  <2> SUFFICES ASSUME NEW m \in Strip(ms), m.kind = "tool", m \notin ms  PROVE FALSE
    OBVIOUS
  <2>1. PICK i \in ms : i.image /\ m = [i EXCEPT !.image = FALSE]
    BY <1>1
  <2>2. i.kind = "host"
    BY <2>1 DEF Good
  <2> QED  BY <1>2, <2>1, <2>2
<1>5. \A m \in ms : m.kind = "assistant" => m \in Strip(ms)
  BY DEF Strip, Good
<1> SUFFICES ASSUME NEW r \in Strip(ms), r.kind = "tool"
             PROVE  Called(Strip(ms), r) \/ Parted(Strip(ms), r)
  BY DEF Headed
<1>6. CASE Called(ms, r)
  BY <1>5, <1>6 DEF Called
<1>7. CASE Parted(ms, r)
  <2> SUFFICES ASSUME NEW m \in Strip(ms)  PROVE r.of < m.at
    BY DEF Parted
  <2>1. PICK i \in ms : i.at = m.at
    BY <1>3
  <2> QED  BY <1>7, <2>1 DEF Parted
<1> QED  BY <1>4, <1>6, <1>7 DEF Headed

\* New messages stand behind all there are; a new result needs its call.
LEMMA AddHeaded ==
  ASSUME NEW ms, NEW new, NEW k \in Nat, Good(ms, k), Headed(ms),
         \A m \in new : m.at \in Nat /\ k <= m.at,
         \A r \in new : r.kind = "tool" => Called(ms, r)
  PROVE  Headed(ms \union new)
<1> SUFFICES ASSUME NEW r \in ms \union new, r.kind = "tool"
             PROVE  Called(ms \union new, r) \/ Parted(ms \union new, r)
  BY DEF Headed
<1>1. CASE Called(ms, r)
  BY <1>1 DEF Called
<1>2. CASE r \in ms /\ Parted(ms, r)
  <2>1. r.of \in Nat /\ r.at \in Nat /\ r.of < r.at /\ r.at < k
    BY <1>2 DEF Good, MessageSet
  <2>2. \A m \in new : r.of < m.at
    BY <2>1
  <2> QED  BY <1>2, <2>2 DEF Parted
<1> QED  BY <1>1, <1>2 DEF Headed

LEMMA StepCalls == Inv /\ CallInv /\ [Next]_vars => CallInv'
<1> SUFFICES ASSUME Inv, CallInv, [Next]_vars  PROVE CallInv'
  OBVIOUS
<1>1. Good(messages, next) /\ next \in Nat /\ turn \in Nat /\ Headed(messages) /\ settled \in Nat
  BY DEF Inv, TypeOK, CallInv
<1>2. CASE RunTurn
  <2> DEFINE new == {Request(next)}
  <2>1. Request(next).at = next /\ Request(next).kind = "request"
        /\ Request(next) \in MessageSet /\ Request(next).image = FALSE
    BY <1>1 DEF Request, Message, MessageSet
  <2>2. Plain(new, next, next + 1)
    BY <1>1, <2>1 DEF Plain
  <2>3. Headed(messages \union new)
    <3>1. \A m \in new : m.at \in Nat /\ next <= m.at /\ m.kind # "tool"
      BY <1>1, <2>1
    <3> HIDE DEF new
    <3> QED  BY <1>1, <3>1, AddHeaded
  <2>4. Good(messages \union new, next + 1)
    <3> HIDE DEF new
    <3>1. next + 1 \in Nat /\ next <= next + 1 /\ Whole(messages, cut \union (IF phase = "batch" THEN {batch} ELSE {}))
      BY <1>1 DEF Inv
    <3> QED  BY <1>1, <2>2, <3>1, AddPlainMessages
  <2>5. Headed(Trim(messages \union new))
    <3> HIDE DEF new
    <3>1. next + 1 \in Nat
      BY <1>1
    <3> QED  BY <2>3, <2>4, <3>1, TrimHeaded
  <2>6. messages' = Trim(messages \union new) /\ phase' = "top"
    BY <1>2 DEF RunTurn
  <2> QED  BY <2>5, <2>6 DEF CallInv
<1>3. CASE Ask \/ RenderRaises
  <2>1. Compaction(messages, messages') /\ phase' # "batch"
    BY <1>3 DEF Ask, RenderRaises
  <2>2. Headed(messages')
    BY <1>1, <2>1, CompactionHeaded
  <2> QED  BY <2>1, <2>2 DEF CallInv
<1>4. Headed(Strip(messages)) /\ Good(Strip(messages), next)
  BY <1>1, StripHeaded, StripKeeps DEF Inv
<1>5. CASE StreamFails
  BY <1>4, <1>5 DEF StreamFails, CallInv
<1>6. CASE Answer
  <2> DEFINE new == messages' \ Strip(messages)
  <2>1. /\ Strip(messages) \subseteq messages'
        /\ \A m \in new : m = Assistant(next, 0) \/ \E i \in BOOLEAN : m = Host(next + 1, i)
    BY <1>6, Zenon DEF Answer
  <2>2. \A m \in new : m.at \in Nat /\ next <= m.at /\ m.kind # "tool"
    <3>1. Assistant(next, 0).at = next /\ Assistant(next, 0).kind # "tool"
      BY DEF Assistant, Message
    <3>2. \A i \in BOOLEAN : Host(next + 1, i).at = next + 1 /\ Host(next + 1, i).kind # "tool"
      BY DEF Host, Message
    <3> HIDE DEF new
    <3> QED  BY <1>1, <2>1, <3>1, <3>2
  <2>3. Headed(Strip(messages) \union new)
    <3> HIDE DEF new
    <3> QED  BY <1>1, <1>4, <2>2, AddHeaded
  <2>4. phase' # "batch"
    BY <1>6 DEF Answer
  <2>5. messages' = Strip(messages) \union new
    BY <2>1
  <2> QED  BY <2>3, <2>4, <2>5 DEF CallInv
<1>7. CASE CallTools
  <2>1. PICK n \in 1..MaxCalls : messages' = Strip(messages) \union {Assistant(next, n)} /\ calls' = n
    BY <1>7 DEF CallTools
  <2>2. /\ Assistant(next, n).at = next /\ Assistant(next, n).kind = "assistant"
        /\ Assistant(next, n).call = n
    BY DEF Assistant, Message
  <2>3. \A m \in {Assistant(next, n)} : m.at \in Nat /\ next <= m.at /\ m.kind # "tool"
    BY <1>1, <2>2
  <2>4. Headed(messages')
    BY <1>1, <1>4, <2>1, <2>3, AddHeaded
  <2>5. batch' = next
    BY <1>7 DEF CallTools
  <2> QED  BY <2>1, <2>2, <2>4, <2>5 DEF CallInv
<1>8. CASE SettleCall \/ HardStop
  <2>1. phase = "batch" /\ settled < calls /\ batch' = batch /\ calls' = calls
    BY <1>8 DEF SettleCall, HardStop
  <2>2. PICK a \in messages : a.kind = "assistant" /\ a.at = batch /\ a.call = calls
    BY <2>1 DEF CallInv
  <2>3. calls \in Nat
    BY DEF Inv, TypeOK
  <2>4. \A m \in messages' \ messages :
          \/ m = Host(next + 1, FALSE)
          \/ \E c \in (settled + 1)..calls : m = Result(next + c - settled - 1, batch, c)
    <3>1. CASE SettleCall
      <4>1. settled + 1 \in (settled + 1)..calls /\ next + (settled + 1) - settled - 1 = next
        BY <1>1, <2>1, <2>3
      <4> QED  BY <3>1, <4>1 DEF SettleCall
    <3>2. CASE HardStop
      BY <3>2 DEF HardStop
    <3> QED  BY <1>8, <3>1, <3>2
  <2>5. \A m \in messages' \ messages : m.at \in Nat /\ next <= m.at
    <3> SUFFICES ASSUME NEW m \in messages' \ messages  PROVE m.at \in Nat /\ next <= m.at
      OBVIOUS
    <3>1. CASE m = Host(next + 1, FALSE)
      BY <1>1, <3>1 DEF Host, Message
    <3>2. CASE \E c \in (settled + 1)..calls : m = Result(next + c - settled - 1, batch, c)
      <4>1. PICK c \in (settled + 1)..calls : m = Result(next + c - settled - 1, batch, c)
        BY <3>2
      <4>2. m.at = next + c - settled - 1
        BY <4>1 DEF Result, Message
      <4> QED  BY <1>1, <2>3, <4>1, <4>2
    <3> QED  BY <2>4, <3>1, <3>2
  <2>6. \A r \in messages' \ messages : r.kind = "tool" => Called(messages, r)
    <3> SUFFICES ASSUME NEW r \in messages' \ messages, r.kind = "tool"  PROVE Called(messages, r)
      OBVIOUS
    <3>1. PICK c \in (settled + 1)..calls : r = Result(next + c - settled - 1, batch, c)
      <4>1. Host(next + 1, FALSE).kind # "tool"
        BY DEF Host, Message
      <4> QED  BY <2>4, <4>1
    <3>2. r.of = batch /\ r.call = c
      BY <3>1 DEF Result, Message
    <3>3. c \in 1..calls
      BY <1>1, <2>3
    <3> QED  BY <2>2, <3>2, <3>3 DEF Called
  <2>7. messages \subseteq messages'
    BY <1>8 DEF SettleCall, HardStop
  <2>8. Headed(messages')
    <3>1. messages' = messages \union (messages' \ messages)
      BY <2>7
    <3>2. Headed(messages \union (messages' \ messages))
      BY <1>1, <2>5, <2>6, AddHeaded
    <3> QED  BY <3>1, <3>2
  <2> QED  BY <2>1, <2>2, <2>7, <2>8 DEF CallInv
<1>9. CASE EndBatch
  <2>1. PICK h \in 0..2 :
          /\ messages \subseteq messages'
          /\ \A m \in messages' \ messages :
               m = Host(next + h, TRUE) \/ \E i \in 1..h : m = Host(next + i - 1, FALSE)
    BY <1>9 DEF EndBatch
  <2>2. \A m \in messages' \ messages : m.at \in Nat /\ next <= m.at /\ m.kind # "tool"
    <3> SUFFICES ASSUME NEW m \in messages' \ messages
                 PROVE  m.at \in Nat /\ next <= m.at /\ m.kind # "tool"
      OBVIOUS
    <3>1. CASE m = Host(next + h, TRUE)
      BY <1>1, <3>1 DEF Host, Message
    <3>2. CASE \E i \in 1..h : m = Host(next + i - 1, FALSE)
      <4>1. PICK i \in 1..h : m = Host(next + i - 1, FALSE)
        BY <3>2
      <4>2. m.at = next + i - 1 /\ m.kind = "host"
        BY <4>1 DEF Host, Message
      <4>3. next + i - 1 \in Nat /\ next <= next + i - 1
        BY <1>1
      <4> QED  BY <4>2, <4>3
    <3> QED  BY <2>1, <3>1, <3>2
  <2>3. messages' = messages \union (messages' \ messages)
    BY <2>1
  <2>4. Headed(messages \union (messages' \ messages))
    BY <1>1, <2>2, AddHeaded
  <2>5. phase' # "batch"
    BY <1>9 DEF EndBatch
  <2> QED  BY <2>3, <2>4, <2>5 DEF CallInv
<1>10. CASE Cancel
  BY <1>1, <1>10 DEF Cancel, CallInv
<1>11. CASE UNCHANGED vars
  BY <1>11 DEF vars, CallInv
<1> QED
  BY <1>2, <1>3, <1>5, <1>6, <1>7, <1>8, <1>9, <1>10, <1>11 DEF Next

\* No request holds a result whose call the compaction removed or nobody made:
\* a call is missing only where the window dropped all that was as old.
THEOREM ResultsAlwaysHaveCalls == Spec => []ResultsHaveCalls
<1>1. Init => CallInv
  BY DEF Init, CallInv, Headed
<1>2. CallInv => ResultsHaveCalls
  BY DEF CallInv, Headed, Called, Parted, ResultsHaveCalls
<1> QED  BY <1>1, <1>2, InitInv, StepInv, StepCalls, PTL DEF Spec

\* Both together: what the window and the compaction of agent_loop_v3.py leave of a batch is
\* whole, unless a cancellation cut the batch or the window cut it right behind its call.
THEOREM BatchesStayWhole == Spec => []BatchesAreWhole
<1>1. CallsHaveResults /\ ResultsHaveCalls => BatchesAreWhole  BY DEF BatchesAreWhole
<1> QED  BY <1>1, CallsAlwaysHaveResults, ResultsAlwaysHaveCalls, PTL

-----------------------------------------------------------------------------
(* What the user asked for.                                                *)

\* Something still asks for what this turn was started with.
Asked(ms) == \E m \in ms : m.kind = "request" /\ m.of = turn

RequestInv == phase # "idle" => Asked(messages)

\* The window keeps the newest user message, however narrow it is.
LEMMA TrimKeepsNewest ==
  ASSUME NEW ms, NEW k \in Nat, Good(ms, k), NEW m \in ms, IsUser(m),
         \A u \in ms : u.at <= m.at
  PROVE  m \in Trim(ms)
<1> DEFINE users == {u.at : u \in {v \in ms : IsUser(v)}}
           Newer(u) == {v \in users : v > u}
           kept == {u \in users : Cardinality(Newer(u)) < RollingUserTurns}
<1>1. m.at \in users /\ m.at \in Nat
  BY DEF Good, MessageSet
<1>2. Newer(m.at) = {}
  <2>1. \A v \in users : v <= m.at /\ v \in Nat
    BY DEF Good, MessageSet
  <2> HIDE DEF users
  <2>2. \A v \in users : ~(v > m.at)  BY <1>1, <2>1
  <2> QED  BY <2>2
<1>3. Cardinality(Newer(m.at)) < RollingUserTurns
  BY <1>2, FS_EmptySet, ConversationAssumption
<1>4. m.at \in kept
  BY <1>1, <1>3
<1>5. Trim(ms) = ms \/ Trim(ms) = {n \in ms : \E u \in kept : u <= n.at}
  BY DEF Trim
<1>6. m.at <= m.at
  BY <1>1
<1> HIDE DEF kept
<1> QED  BY <1>4, <1>5, <1>6

\* The compaction removes calls and results, never what the user wrote.
LEMMA CompactionKeepsRequests ==
  ASSUME NEW ms, NEW ms2, NEW k \in Nat, Good(ms, k), Compaction(ms, ms2),
         NEW m \in ms, m.kind = "request"
  PROVE  m \in ms2
<1>1. PICK gone \in SUBSET Old(ms) : ms2 = ms \ UNION {Block(ms, b) : b \in gone}
  BY DEF Compaction
<1>2. ASSUME NEW b \in gone, m \in Block(ms, b)  PROVE FALSE
  <2>1. b.kind = "assistant" /\ b \in Settled(ms)
    BY DEF Old, Settled
  <2> QED  BY <1>2, <2>1, BlockIsOneBatch
<1> QED  BY <1>1, <1>2

LEMMA StepRequest == Inv /\ RequestInv /\ [Next]_vars => RequestInv'
<1> SUFFICES ASSUME Inv, RequestInv, [Next]_vars  PROVE RequestInv'
  OBVIOUS
<1> USE DEF RequestInv, Asked
<1>1. Good(messages, next) /\ next \in Nat /\ turn \in Nat
  BY DEF Inv, TypeOK
<1>2. CASE RunTurn
  <2> DEFINE m == Request(next)
             ms == messages \union {m}
  <2>1. /\ m \in MessageSet /\ m.at = next /\ m.kind = "request" /\ m.of = turn + 1
        /\ m.image = FALSE
    BY <1>1 DEF Request, Message, MessageSet
  <2>2. messages' = Trim(ms) /\ turn' = turn + 1
    BY <1>2 DEF RunTurn
  <2>3. Good(ms, next + 1)
    <3>1. \A u \in messages : u.at \in Nat /\ u.at < next
      BY <1>1 DEF Good, MessageSet
    <3> HIDE DEF m
    <3> QED  BY <1>1, <2>1, <3>1 DEF Good
  <2>4. \A u \in ms : u.at <= m.at
    <3>1. \A u \in messages : u.at \in Nat /\ u.at < next
      BY <1>1 DEF Good, MessageSet
    <3> HIDE DEF m
    <3> QED  BY <1>1, <2>1, <3>1
  <2> HIDE DEF m
  <2>5. m \in Trim(ms)
    <3>1. m \in ms /\ IsUser(m) /\ next + 1 \in Nat  BY <1>1, <2>1 DEF IsUser
    <3> HIDE DEF ms
    <3> QED  BY <2>3, <2>4, <3>1, TrimKeepsNewest
  <2> QED  BY <2>1, <2>2, <2>5
<1>3. CASE Ask
  <2>1. PICK m \in messages : m.kind = "request" /\ m.of = turn
    BY <1>3 DEF Ask
  <2>2. m \in messages'
    BY <1>1, <1>3, <2>1, CompactionKeepsRequests DEF Ask
  <2>3. turn' = turn
    BY <1>3 DEF Ask, loopVars
  <2> QED  BY <2>1, <2>2, <2>3
<1>4. CASE RenderRaises \/ StreamFails \/ HardStop \/ Cancel
  BY <1>4 DEF RenderRaises, StreamFails, HardStop, Cancel
<1>5. CASE Answer \/ CallTools
  <2>1. PICK m \in messages : m.kind = "request" /\ m.of = turn
    BY <1>5 DEF Answer, CallTools
  <2>2. m \in Strip(messages)
    BY <1>1, <2>1 DEF Strip, Good
  <2>3. turn' = turn /\ Strip(messages) \subseteq messages'
    BY <1>5 DEF Answer, CallTools, loopVars
  <2> QED  BY <2>1, <2>2, <2>3
<1>6. CASE SettleCall \/ EndBatch
  <2>1. PICK m \in messages : m.kind = "request" /\ m.of = turn
    BY <1>6 DEF SettleCall, EndBatch
  <2>2. turn' = turn /\ messages \subseteq messages'
    BY <1>6 DEF SettleCall, EndBatch, loopVars
  <2> QED  BY <2>1, <2>2
<1>7. CASE UNCHANGED vars
  BY <1>7 DEF vars
<1> QED
  BY <1>2, <1>3, <1>4, <1>5, <1>6, <1>7 DEF Next

\* For every window of at least one user message, and whatever the compaction
\* finds to remove, each request of a turn holds what the user asked in it.
THEOREM RequestsStay == Spec => []RequestStays
<1>1. Init => RequestInv
  BY DEF Init, RequestInv
<1>2. RequestInv => RequestStays
  BY DEF RequestInv, Asked, RequestStays
<1> QED  BY <1>1, <1>2, InitInv, StepInv, StepRequest, PTL DEF Spec

-----------------------------------------------------------------------------
(* The images of the host's messages.                                      *)

\* After a strip only the stranded images are left.
LEMMA StripLeavesStranded ==
  ASSUME NEW ms, NEW k \in Nat, Good(ms, k)
  PROVE  \A m \in Strip(ms) : m.image => m.at \in stranded
<1> SUFFICES ASSUME NEW m \in Strip(ms), m.image  PROVE m.at \in stranded
  OBVIOUS
<1>1. \/ m \in ms /\ (~m.image \/ m.at \in stranded)
      \/ \E i \in ms : m = [i EXCEPT !.image = FALSE]
  BY DEF Strip
<1>2. \A i \in ms : [i EXCEPT !.image = FALSE].image = FALSE
  BY DEF Good, MessageSet
<1> QED  BY <1>1, <1>2

LEMMA NoImage ==
  ASSUME NEW k, NEW b, NEW c
  PROVE  /\ Request(k).image = FALSE /\ Assistant(k, c).image = FALSE
         /\ Result(k, b, c).image = FALSE /\ Host(k, FALSE).image = FALSE
BY DEF Request, Assistant, Result, Host, Message

LEMMA StepImages == Inv /\ OneShotImages /\ [Next]_vars => OneShotImages'
<1> SUFFICES ASSUME Inv, OneShotImages, [Next]_vars  PROVE OneShotImages'
  OBVIOUS
<1> USE DEF OneShotImages
<1>1. Good(messages, next) /\ next \in Nat
  BY DEF Inv, TypeOK
<1>2. CASE RunTurn
  <2>1. messages' \subseteq messages \union {Request(next)}
    BY <1>2 DEF RunTurn, Trim
  <2>2. phase = "idle" /\ stranded' = stranded
    BY <1>2 DEF RunTurn
  <2> QED  BY <2>1, <2>2, NoImage
<1>3. CASE Ask
  <2>1. messages' \subseteq messages
    BY <1>3 DEF Ask, Compaction
  <2> QED  BY <1>3, <2>1 DEF Ask
<1>4. CASE RenderRaises
  <2>1. messages' \subseteq messages
    BY <1>4 DEF RenderRaises, Compaction
  <2> QED  BY <1>4, <2>1 DEF RenderRaises
<1>5. \A m \in Strip(messages) : m.image => m.at \in stranded
  BY <1>1, StripLeavesStranded
<1>6. CASE StreamFails
  BY <1>5, <1>6 DEF StreamFails
<1>7. CASE Answer
  <2>1. stranded' = stranded
    BY <1>7 DEF Answer
  <2>2. CASE messages' = Strip(messages) \union {Assistant(next, 0)}
    BY <1>5, <2>1, <2>2, NoImage
  <2>3. ASSUME NEW image \in BOOLEAN, next' = next + 2, phase' = "top",
               messages' = Strip(messages) \union {Assistant(next, 0), Host(next + 1, image)}
        PROVE  OneShotImages'
    <3>1. Host(next + 1, image).at = next' - 1
      BY <1>1, <2>3 DEF Host, Message
    <3> QED  BY <1>5, <2>1, <2>3, <3>1, NoImage
  <2> QED  BY <1>7, <2>2, <2>3 DEF Answer
<1>8. CASE CallTools
  <2>1. PICK n \in 1..MaxCalls : messages' = Strip(messages) \union {Assistant(next, n)}
    BY <1>8 DEF CallTools
  <2> QED  BY <1>5, <1>8, <2>1, NoImage DEF CallTools
<1>9. CASE SettleCall
  <2>1. /\ phase = "batch" /\ stranded' = stranded
        /\ messages' \subseteq messages \union
             {Result(next, batch, settled + 1), Host(next + 1, FALSE)}
    BY <1>9 DEF SettleCall
  <2> QED  BY <2>1, NoImage
<1>10. CASE HardStop
  <2>1. \A m \in messages' \ messages : ~ m.image
    BY <1>10, NoImage DEF HardStop
  <2>2. phase = "batch" /\ stranded' = stranded
    BY <1>10 DEF HardStop
  <2> QED  BY <2>1, <2>2
<1>11. CASE EndBatch
  <2>1. phase = "batch" /\ stranded' = stranded
    BY <1>11 DEF EndBatch
  <2>2. PICK h \in 0..2 :
          \/ messages' = messages \union {Host(next + i - 1, FALSE) : i \in 1..h}
          \/ /\ messages' = (messages \union {Host(next + i - 1, FALSE) : i \in 1..h})
                              \union (IF thumbnails THEN {Host(next + h, TRUE)} ELSE {})
             /\ next' = next + h + (IF thumbnails THEN 1 ELSE 0)
             /\ phase' = "top"
    BY <1>11 DEF EndBatch
  <2>3. \A m \in messages' \ messages :
          m.image => m = Host(next + h, TRUE) /\ next' = next + h + 1 /\ phase' = "top"
    BY <2>2, NoImage
  <2>4. Host(next + h, TRUE).at = next + h
    BY DEF Host, Message
  <2>5. next + h = (next + h + 1) - 1
    BY <1>1
  <2> QED  BY <2>1, <2>3, <2>4, <2>5
<1>12. CASE Cancel
  BY <1>12 DEF Cancel
<1>13. CASE UNCHANGED vars
  BY <1>13 DEF vars
<1> QED
  BY <1>2, <1>3, <1>4, <1>6, <1>7, <1>8, <1>9, <1>10, <1>11, <1>12, <1>13 DEF Next

\* An image goes out in one request: whatever way that request ends, the images
\* left afterwards are those of a turn whose render_messages had raised.
THEOREM ImagesGoOutOnce == Spec => []OneShotImages
<1>1. Init => OneShotImages
  BY DEF Init, OneShotImages
<1> QED  BY <1>1, InitInv, StepInv, StepImages, PTL DEF Spec

============================================================================
