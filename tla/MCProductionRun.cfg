SPECIFICATION Spec
CONSTANTS
  Threads = {t1, t2}
  Masters = {m1, m2}
  Start = "rendering"
  Targets = {"rendering", "verifying", "ready_for_review", "revising"}
  MaxRevision = 1
  None = None
INVARIANTS ShownIsEarned WithdrawnStaysHidden
SYMMETRY Symmetry
