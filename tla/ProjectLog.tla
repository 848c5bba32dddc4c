------------------------------ MODULE ProjectLog ------------------------------
(***************************************************************************)
(* What a stored project promises to its editors: a sequence of patches     *)
(* that grows by whole calls and is rewound to one of its own prefixes.     *)
(***************************************************************************)
EXTENDS Naturals, Sequences, SequencesExt

CONSTANTS Patches, NoProject

VARIABLE log        \* the patches that make up the project, or NoProject

Create == log = NoProject /\ log' = <<>>

\* One apply_patches call: patches are added at the end.
Commit ==
  /\ log # NoProject
  /\ log' \in Seq(Patches)
  /\ IsPrefix(log, log')

\* One undo: the project as it was right after patch number t.
Rewind ==
  /\ log # NoProject
  /\ \E t \in 0 .. Len(log) : log' = SubSeq(log, 1, t)

Init == log = NoProject

Next == Create \/ Commit \/ Rewind

Spec == Init /\ [][Next]_log
=============================================================================
