-------------------------- MODULE MCWebRTCSessions --------------------------
(* Small instances of WebRTCSessions for TLC. *)
EXTENDS WebRTCSessions, TLC

CONSTANTS s1, s2, c1, unnamed, t1, t2, t3

TwoSessions == {s1, s2}
TwoKeys == {c1, unnamed}
TwoTasks == {t1, t2}
ThreeTasks == {t1, t2, t3}

\* Sessions and tasks are interchangeable: used in runs of safety properties.
Symmetric == Permutations(TwoSessions) \cup Permutations(ThreeTasks)
SymmetricTwo == Permutations(TwoSessions) \cup Permutations(TwoTasks)
=============================================================================
