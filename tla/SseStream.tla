------------------------------ MODULE SseStream ------------------------------
(***************************************************************************)
(* The event stream of one session, gemia/transport/sse.py: an emitter      *)
(* numbers events into a ring buffer, a request thread (iter_events) copies *)
(* what it finds there and writes it out, and the browser of                *)
(* static/v3/v3.js connects, loses the connection, and connects again with  *)
(* the last id it stored.  Closing a session forgets the stream; resuming   *)
(* it registers a new one under the same session id.                        *)
(*                                                                         *)
(* An event is <<generation, id>>: the generation tells apart the streams   *)
(* registered one after the other, which on the wire look the same.         *)
(***************************************************************************)
EXTENDS Integers, Sequences, SequencesExt

CONSTANTS
  RingSize,        \* REPLAY_BUFFER_SIZE
  MaxEvents,       \* bound: events of one generation
  MaxGenerations   \* bound: register calls

ASSUME RingAssumption == RingSize \in Nat \ {0} /\ MaxEvents \in Nat /\ MaxGenerations \in Nat \ {0}

VARIABLES
  stream,      \* the _SessionState: absent, open or closed
  gen,         \* its generation
  nextId,      \* its next_id
  reader,      \* the request thread: "none", "reading", "writing"
  cutoff,      \* its cutoff
  checks,      \* will its next read check for a gap
  chunks,      \* what it has still to write
  lastId,      \* the client's stored last event id; 0 is none
  got,         \* events the client received
  told,        \* events the client knows it missed, or took from a snapshot
  overrun      \* events dropped from the ring before a reader could know of them

streamVars == <<stream, gen, nextId>>
readerVars == <<reader, cutoff, checks, chunks>>
clientVars == <<lastId, got, told>>
sseVars == <<stream, gen, nextId, reader, cutoff, checks, chunks, lastId, got, told, overrun>>

Generations == 1 .. MaxGenerations
Ids == 1 .. MaxEvents
Events == Generations \X Ids

\* The ring holds consecutive ids, the newest last.
Latest == nextId - 1
Oldest == IF nextId > RingSize THEN nextId - RingSize ELSE 1
Upto(g, id) == {g} \X (1 .. id)

Event(id) == [kind |-> "event", id |-> id, gen |-> gen]
Gap(id) == [kind |-> "replay_gap", id |-> id, gen |-> gen]

-----------------------------------------------------------------------------
(* The registry.                                                           *)

\* The event with id Oldest falls off a full ring.
Emit ==
  /\ stream = "open"
  /\ nextId <= MaxEvents
  /\ nextId' = nextId + 1
  /\ overrun' =
       IF nextId > RingSize /\ (lastId = 0 \/ (reader # "none" /\ ~checks /\ cutoff < Oldest))
       THEN overrun \union {<<gen, Oldest>>}
       ELSE overrun
  /\ UNCHANGED <<stream, gen, readerVars, clientVars>>

\* close and unregister, the two steps of SessionManager.close_session.
Close ==
  /\ stream = "open"
  /\ stream' = "closed"
  /\ UNCHANGED <<gen, nextId, readerVars, clientVars, overrun>>

Unregister ==
  /\ stream = "closed"
  /\ stream' = "absent"
  /\ UNCHANGED <<gen, nextId, readerVars, clientVars, overrun>>

\* The session is resumed: create_session registers it with the default
\* last_event_id of 0, whatever the ids before.
Register ==
  /\ stream = "absent"
  /\ gen < MaxGenerations
  /\ stream' = "open"
  /\ gen' = gen + 1
  /\ nextId' = 1
  /\ UNCHANGED <<readerVars, clientVars, overrun>>

-----------------------------------------------------------------------------
(* The request thread.                                                     *)

\* What the locked section of iter_events finds in the ring.
Missed == checks /\ Latest > cutoff /\ cutoff < Oldest - 1
From(id) == LET first == IF id < Oldest THEN Oldest ELSE id + 1
            IN  [i \in 1 .. (IF Latest < first THEN 0 ELSE Latest - first + 1) |-> Event(first + i - 1)]
\* Faulty variants: no gap is announced; an id is compared with >=.
FoundUnchecked == From(cutoff)
FoundAgain == IF Missed THEN <<Gap(Oldest - 1)>> \o From(Oldest - 1)
              ELSE From(IF cutoff = 0 THEN 0 ELSE cutoff - 1)

Found == IF Missed THEN <<Gap(Oldest - 1)>> \o From(Oldest - 1) ELSE From(cutoff)

\* One pass under the lock: chunks to write, the end, or cv.wait().
Read ==
  /\ reader = "reading"
  /\ checks' = FALSE
  /\ IF stream = "absent"
     THEN reader' = "none" /\ UNCHANGED <<cutoff, chunks>>
     ELSE IF Found # <<>>
     THEN reader' = "writing" /\ chunks' = Found /\ cutoff' = Last(Found).id
     ELSE reader' = (IF stream = "closed" THEN "none" ELSE "reading") /\ UNCHANGED <<cutoff, chunks>>
  /\ UNCHANGED <<streamVars, clientVars, overrun>>

-----------------------------------------------------------------------------
(* The client (v3.js).                                                     *)

\* A chunk is written, received, and its id stored.
Receive ==
  /\ reader = "writing"
  /\ Head(chunks).kind = "event"
  /\ chunks' = Tail(chunks)
  /\ reader' = IF Len(chunks) = 1 THEN "reading" ELSE "writing"
  /\ lastId' = Head(chunks).id
  /\ got' = got \union {<<Head(chunks).gen, Head(chunks).id>>}
  /\ UNCHANGED <<streamVars, cutoff, checks, told, overrun>>

\* The replay_gap handler closes the EventSource; Refresh and Connect follow.
ReceiveGap ==
  /\ reader = "writing"
  /\ Head(chunks).kind = "replay_gap"
  /\ reader' = "none"
  /\ chunks' = <<>>
  /\ lastId' = Head(chunks).id
  /\ told' = told \union Upto(Head(chunks).gen, Head(chunks).id)
  /\ UNCHANGED <<streamVars, cutoff, checks, got, overrun>>

\* The connection breaks, or the user leaves the session.
Drop ==
  /\ reader # "none"
  /\ reader' = "none"
  /\ chunks' = <<>>
  /\ UNCHANGED <<streamVars, cutoff, checks, clientVars, overrun>>

\* refreshSessionState stores the snapshot's latest_event_id; saveLastEventId
\* ignores a 0.
Refresh ==
  /\ reader = "none"
  /\ stream = "open"
  /\ lastId' = IF Latest = 0 THEN lastId ELSE Latest
  /\ told' = told \union Upto(gen, Latest)
  /\ UNCHANGED <<streamVars, readerVars, got, overrun>>

\* connectSse, with ?last_event_id= when one is stored.
Connect ==
  /\ reader = "none"
  /\ reader' = "reading"
  /\ cutoff' = lastId
  /\ checks' = (lastId # 0)
  /\ UNCHANGED <<streamVars, chunks, clientVars, overrun>>

-----------------------------------------------------------------------------

StreamInit ==
  /\ stream = "open"
  /\ gen = 1
  /\ nextId = 1
  /\ reader = "none"
  /\ cutoff = 0
  /\ checks = FALSE
  /\ chunks = <<>>
  /\ lastId = 0
  /\ got = {}
  /\ told = {}
  /\ overrun = {}

StreamNext ==
  \/ Emit \/ Close \/ Unregister \/ Register
  \/ Read
  \/ Receive \/ ReceiveGap \/ Drop \/ Refresh \/ Connect

StreamSpec == StreamInit /\ [][StreamNext]_sseVars

-----------------------------------------------------------------------------
(* Properties.                                                             *)

\* An event reaches the client at most once and in order, across however many
\* connections, replays and refreshes.
InOrderOnce ==
  [][Receive => LET e == Head(chunks)
                IN  \A j \in e.id .. MaxEvents : <<e.gen, j>> \notin got]_sseVars

\* Until the session is resumed, every event before one the client has was
\* received, announced as missed, or dropped from the ring behind a reader that
\* was past its gap check or a client that had no id to be checked: losses in a
\* disconnection are never silent.
OnlyOverrunsAreSilent ==
  gen = 1 => \A e \in got : \A j \in 1 .. e[2] : <<e[1], j>> \in got \union told \union overrun
=============================================================================
