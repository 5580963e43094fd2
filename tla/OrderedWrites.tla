---------------------------- MODULE OrderedWrites ----------------------------
(***************************************************************************)
(* What internal/app promises of app state persistence: writes are applied *)
(* one at a time in the order in which their positions were reserved,      *)
(* however late each is handed in; a writer that is told its write is      *)
(* through has had it applied; the store closes on no write it still owes. *)
(***************************************************************************)
EXTENDS Integers, Sequences

VARIABLES issued,    \* positions reserved so far: 0 .. issued - 1
          ready,     \* positions whose write has been handed in
          log,       \* the positions applied, in order
          returned,  \* writers that have been told
          closed     \* the store is closed

vars == <<issued, ready, log, returned, closed>>

Init == issued = 0 /\ ready = {} /\ log = <<>> /\ returned = {} /\ closed = FALSE

Reserve ==
  /\ ~closed
  /\ issued' = issued + 1
  /\ UNCHANGED <<ready, log, returned, closed>>

HandIn ==
  /\ \E t \in 0 .. issued - 1 : t \notin ready /\ ready' = ready \cup {t}
  /\ UNCHANGED <<issued, log, returned, closed>>

Apply ==
  /\ ~closed
  /\ Len(log) \in ready
  /\ log' = Append(log, Len(log))
  /\ UNCHANGED <<issued, ready, returned, closed>>

Return ==
  /\ \E t \in 0 .. Len(log) - 1 : t \notin returned /\ returned' = returned \cup {t}
  /\ UNCHANGED <<issued, ready, log, closed>>

Close ==
  /\ ~closed
  /\ Len(log) = issued
  /\ closed' = TRUE
  /\ UNCHANGED <<issued, ready, log, returned>>

Next == Reserve \/ HandIn \/ Apply \/ Return \/ Close

Spec == Init /\ [][Next]_vars

\* A write that can be applied is.
FairSpec == Spec /\ WF_vars(Apply)
=============================================================================
