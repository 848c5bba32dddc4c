----------------------------- MODULE MCSseStream -----------------------------
(* A ring of two events is overtaken twice by six.                          *)
EXTENDS SseStream, TLC
=============================================================================
