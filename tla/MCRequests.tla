----------------------------- MODULE MCRequests -----------------------------
(***************************************************************************)
(* Instances of RequestsParts for TLC.                                     *)
(***************************************************************************)
EXTENDS RequestsParts, TLC

CONSTANTS m1, m2   \* two messages of one kind

MCWorkers == {"live", "history"}

\* Who acts together on media: the retry command, and the daemon's actors in pairs.
MCMediaCasts == {{"retry"}, {"worker", "exact"}, {"worker", "removal"}, {"exact", "copy"}}

\* Two Connected callbacks and one of PushNameSetting; two users are asked for,
\* perhaps after a third one, and two are remembered.
MCTarget == [r1 |-> "u1", r2 |-> "u2"]

\* Two daemons, one after the other, and two other processes.
MCRole == [p \in {"d1", "d2", "send", "local", "once", "auth", "maintain"} |->
             IF p \in {"d1", "d2"} THEN "follow" ELSE p]
MCProcesses == {{"d1", "d2", "send", "local"}, {"d1", "d2", "once", "maintain"},
                {"d1", "d2", "auth"}}

\* No module tells the two messages apart.
Symmetry == Permutations({m1, m2})
=============================================================================
