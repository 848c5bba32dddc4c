----------------------------- MODULE ProjectStore -----------------------------
(***************************************************************************)
(* The durable project of gemia/project_store.py: a snapshot, a seed, a     *)
(* patch log of one file per patch, and a meta file with the last sequence  *)
(* number.  Each file is replaced atomically, but a call replaces several   *)
(* of them, one after the other, under a thread lock and a process lock.    *)
(* Undo reads the sequence number before it takes the lock.                 *)
(*                                                                         *)
(* A writer is a thread of some process.  Its calls may end half way: the   *)
(* process dies or a write raises OSError; either way the locks are freed   *)
(* and the files stay as they are.                                         *)
(*                                                                         *)
(* A project state is modelled by the sequence of patches it was built      *)
(* from, <<>> being the seed; apply_timeline_patches appends to it.         *)
(***************************************************************************)
EXTENDS Integers, Sequences, FiniteSets, SequencesExt

CONSTANTS
  Writers,
  Nobody, Missing,    \* no writer; no file
  MaxPatches,         \* bound: patches ever submitted
  MaxBatch,           \* bound: patches in one call
  MaxSteps,           \* bound: steps of one undo call
  MaxCrashes          \* bound: calls that end half way

ASSUME BoundAssumption ==
  /\ Nobody \notin Writers
  /\ Missing \notin Nat \union Seq(Nat)
  /\ {MaxPatches, MaxBatch, MaxSteps, MaxCrashes} \subseteq Nat

Patches == 1 .. MaxPatches
SeqNumbers == 1 .. MaxPatches

VARIABLES
  state,      \* state.json
  seed,       \* is seed.json there
  metaSeq,    \* meta.json: patch_seq
  files,      \* patches/NNNN.json, by sequence number
  lock,       \* the writer inside _project_write_lock
  call,       \* what each writer is doing
  issued,     \* patches submitted so far; patch n is the nth of them
  acked,      \* patches whose apply_patches call returned
  discarded,  \* patches an undo moved to patches_discarded
  crashes

disk == <<state, seed, metaSeq, files>>
history == <<issued, acked, discarded, crashes>>
vars == <<state, seed, metaSeq, files, lock, call, issued, acked, discarded, crashes>>

Idle == [pc |-> "idle"]

-----------------------------------------------------------------------------
(* Small steps of a call.                                                  *)

Goto(w, step) == call' = [call EXCEPT ![w] = step]
Begin(w) == call[w] = Idle
Acquire(w) == lock = Nobody /\ lock' = w
Return(w) == Goto(w, Idle) /\ lock' = Nobody

-----------------------------------------------------------------------------
(* create, as ProjectHandle.open calls it.                                 *)

\* open: the existence check, before any lock.
OpenMissing(w) ==
  /\ Begin(w)
  /\ state = Missing
  /\ Goto(w, [pc |-> "create"])
  /\ UNCHANGED <<disk, lock, history>>

CreateState(w) ==
  /\ call[w].pc = "create"
  /\ lock = Nobody
  /\ IF state # Missing
     THEN Goto(w, Idle) /\ UNCHANGED <<state, lock>>      \* "project already exists"
     ELSE Acquire(w) /\ state' = <<>> /\ Goto(w, [pc |-> "createSeed"])
  /\ UNCHANGED <<seed, metaSeq, files, history>>

CreateSeed(w) ==
  /\ call[w].pc = "createSeed"
  /\ seed' = TRUE
  /\ Goto(w, [pc |-> "createMeta"])
  /\ UNCHANGED <<state, metaSeq, files, lock, history>>

CreateMeta(w) ==
  /\ call[w].pc = "createMeta"
  /\ metaSeq' = 0
  /\ Return(w)
  /\ UNCHANGED <<state, seed, files, history>>

-----------------------------------------------------------------------------
(* apply_patches.  A batch the reducer rejects changes nothing.             *)

Batch(size) == [i \in 1 .. size |-> issued + i]

\* Faulty variant: snapshot and number are read while another call writes.
ApplyBeginUnlocked(w, size) ==
  /\ Begin(w)
  /\ issued + size <= MaxPatches
  /\ state # Missing /\ metaSeq # Missing
  /\ lock' = w
  /\ Goto(w, [pc |-> "applyFiles", batch |-> Batch(size), first |-> metaSeq + 1,
              next |-> 1, updated |-> state \o Batch(size)])
  /\ issued' = issued + size
  /\ UNCHANGED <<disk, acked, discarded, crashes>>

\* Load, apply in memory; nothing is written yet.
ApplyBegin(w, size) ==
  /\ Begin(w)
  /\ issued + size <= MaxPatches
  /\ state # Missing /\ metaSeq # Missing
  /\ Acquire(w)
  /\ Goto(w, [pc |-> "applyFiles", batch |-> Batch(size), first |-> metaSeq + 1,
              next |-> 1, updated |-> state \o Batch(size)])
  /\ issued' = issued + size
  /\ UNCHANGED <<disk, acked, discarded, crashes>>

\* Faulty variant: the number is advanced with each file.
ApplyFileAndNumber(w) ==
  LET c == call[w]
  IN  /\ c.pc = "applyFiles"
      /\ c.next <= Len(c.batch)
      /\ files' = [files EXCEPT ![c.first + c.next - 1] = c.batch[c.next]]
      /\ metaSeq' = c.first + c.next - 1
      /\ Goto(w, [c EXCEPT !.next = @ + 1])
      /\ UNCHANGED <<state, seed, lock, history>>

ApplyFile(w) ==
  LET c == call[w]
  IN  /\ c.pc = "applyFiles"
      /\ c.next <= Len(c.batch)
      /\ files' = [files EXCEPT ![c.first + c.next - 1] = c.batch[c.next]]
      /\ Goto(w, [c EXCEPT !.next = @ + 1])
      /\ UNCHANGED <<state, seed, metaSeq, lock, history>>

ApplyState(w) ==
  LET c == call[w]
  IN  /\ c.pc = "applyFiles"
      /\ c.next > Len(c.batch)
      /\ state' = c.updated
      /\ Goto(w, [c EXCEPT !.pc = "applyMeta"])
      /\ UNCHANGED <<seed, metaSeq, files, lock, history>>

ApplyMeta(w) ==
  LET c == call[w]
  IN  /\ c.pc = "applyMeta"
      /\ metaSeq' = c.first + Len(c.batch) - 1
      /\ acked' = acked \union {c.batch[i] : i \in DOMAIN c.batch}
      /\ Return(w)
      /\ UNCHANGED <<state, seed, files, issued, discarded, crashes>>

-----------------------------------------------------------------------------
(* ProjectHandle.undo and undo_to_seq.                                     *)

Logged(S) == {n \in S : files[n] # Missing}
\* The seed with the patches numbered in S replayed over it, in their order.
Nth(S, i) == CHOOSE n \in S : Cardinality({m \in S : m <= n}) = i
Replay(S) == [i \in 1 .. Cardinality(S) |-> files[Nth(S, i)]]

\* The target is computed from a sequence number read before the lock.
UndoRead(w, steps) ==
  /\ Begin(w)
  /\ metaSeq # Missing
  /\ Goto(w, [pc |-> "undo",
              target |-> IF steps < metaSeq THEN metaSeq - steps ELSE 0])
  /\ UNCHANGED <<disk, lock, history>>

\* Beyond the current number: an error.  Equal to it: nothing to do.
UndoRefused(w) ==
  /\ call[w].pc = "undo"
  /\ lock = Nobody
  /\ call[w].target >= metaSeq
  /\ Goto(w, Idle)
  /\ UNCHANGED <<disk, lock, history>>

\* Replaying a log with a gap may be rejected by the reducer.
UndoReplayFails(w) ==
  /\ call[w].pc = "undo"
  /\ lock = Nobody
  /\ call[w].target < metaSeq
  /\ Logged(1 .. call[w].target) # 1 .. call[w].target
  /\ Goto(w, Idle)
  /\ UNCHANGED <<disk, lock, history>>

\* Faulty variant: the first patch above the target stays where it is.
UndoBeginOffByOne(w) ==
  LET c == call[w]
  IN  /\ c.pc = "undo"
      /\ c.target < metaSeq
      /\ Acquire(w)
      /\ Goto(w, [pc |-> "undoMove", target |-> c.target,
                  discard |-> Logged(c.target + 2 .. MaxPatches),
                  rebuilt |-> Replay(Logged(1 .. c.target))])
      /\ UNCHANGED <<disk, history>>

UndoBegin(w) ==
  LET c == call[w]
  IN  /\ c.pc = "undo"
      /\ c.target < metaSeq
      /\ Acquire(w)
      /\ Goto(w, [pc |-> "undoMove", target |-> c.target,
                  discard |-> Logged(c.target + 1 .. MaxPatches),
                  rebuilt |-> Replay(Logged(1 .. c.target))])
      /\ UNCHANGED <<disk, history>>

UndoMove(w) ==
  LET c == call[w]
      n == CHOOSE m \in c.discard : \A k \in c.discard : m <= k
  IN  /\ c.pc = "undoMove"
      /\ c.discard # {}
      /\ files' = [files EXCEPT ![n] = Missing]
      /\ discarded' = discarded \union {files[n]}
      /\ Goto(w, [c EXCEPT !.discard = @ \ {n}])
      /\ UNCHANGED <<state, seed, metaSeq, lock, issued, acked, crashes>>

UndoState(w) ==
  LET c == call[w]
  IN  /\ c.pc = "undoMove"
      /\ c.discard = {}
      /\ state' = c.rebuilt
      /\ Goto(w, [c EXCEPT !.pc = "undoMeta"])
      /\ UNCHANGED <<seed, metaSeq, files, lock, history>>

UndoMeta(w) ==
  /\ call[w].pc = "undoMeta"
  /\ metaSeq' = call[w].target
  /\ Return(w)
  /\ UNCHANGED <<state, seed, files, history>>

-----------------------------------------------------------------------------
\* A call ends half way: its process dies, or a file operation raises.
Crash(w) ==
  /\ call[w] # Idle
  /\ crashes < MaxCrashes
  /\ Goto(w, Idle)
  /\ lock' = IF lock = w THEN Nobody ELSE lock
  /\ crashes' = crashes + 1
  /\ UNCHANGED <<disk, issued, acked, discarded>>

Init ==
  /\ state = Missing
  /\ seed = FALSE
  /\ metaSeq = Missing
  /\ files = [n \in SeqNumbers |-> Missing]
  /\ lock = Nobody
  /\ call = [w \in Writers |-> Idle]
  /\ issued = 0
  /\ acked = {}
  /\ discarded = {}
  /\ crashes = 0

Create(w) == OpenMissing(w) \/ CreateState(w) \/ CreateSeed(w) \/ CreateMeta(w)
Apply(w) ==
  \/ \E size \in 1 .. MaxBatch : ApplyBegin(w, size)
  \/ ApplyFile(w) \/ ApplyState(w) \/ ApplyMeta(w)
Undo(w) ==
  \/ \E steps \in 1 .. MaxSteps : UndoRead(w, steps)
  \/ UndoRefused(w) \/ UndoReplayFails(w) \/ UndoBegin(w)
  \/ UndoMove(w) \/ UndoState(w) \/ UndoMeta(w)

Next == \E w \in Writers : Create(w) \/ Apply(w) \/ Undo(w) \/ Crash(w)

Spec == Init /\ [][Next]_vars

-----------------------------------------------------------------------------
(* Properties.                                                             *)

\* Between calls, as long as none ended half way, the log is gapless, ends at
\* the recorded number, and replaying it over the seed gives the snapshot.
LogMatchesState ==
  crashes = 0 /\ lock = Nobody /\ state # Missing =>
    /\ seed
    /\ Logged(SeqNumbers) = 1 .. metaSeq
    /\ state = Replay(1 .. metaSeq)

\* To its editors the store is a patch sequence: whole calls are appended, and
\* undo takes it back to a prefix, however calls and unlocked reads interleave.
\* It implements ProjectLog step by step until a call ends half way.
Log == INSTANCE ProjectLog WITH log <- state, NoProject <- Missing
ImplementsProjectLog == Log!Init /\ [][crashes = 0 => Log!Next]_state

\* Whatever call ends half way, a patch whose call returned is in the project
\* until an undo sets it aside.
AckedIsKept ==
  acked \subseteq discarded \union (IF state = Missing THEN {} ELSE Range(state))

\* Whatever call ends half way, the log up to the recorded number never holds a
\* patch the snapshot lacks, nor holds them in another order.
InOrder(S, s) ==
  \A m, n \in S : \E i, j \in DOMAIN s :
    s[i] = files[m] /\ s[j] = files[n] /\ (m < n => i < j)

LogBehindState ==
  lock = Nobody /\ metaSeq # Missing => InOrder(Logged(1 .. metaSeq), state)
=============================================================================
