------------------------- MODULE MCContainerManager -------------------------
(* Small instances of ContainerManager for TLC. *)
EXTENDS PortOwnership, TLC

CONSTANTS r1, r2, c1, c2

TwoRequests == {r1, r2}
TwoIds == {c1, c2}

\* Requests and ids are interchangeable: used in runs of safety properties.
Symmetric == Permutations(TwoRequests) \cup Permutations(TwoIds)

\* Faults of the daemon.
NoFaults == {}
\* Creates and stops that are carried out late or never, and removals that do
\* not reach the daemon.
LateFaults == {<<"create", "late">>, <<"stop", "late">>, <<"remove", "unreachable">>}
\* Everything but a create or a removal that goes wrong unseen.
RemovableFaults == {<<"create", "unreachable">>, <<"create", "refused">>,
                    <<"start", "unreachable">>, <<"start", "lost_reply">>,
                    <<"start", "refused">>, <<"stop", "lost_reply">>}

\* Hazards of the other surroundings.
OverlapAndExit == {"overlap", "self_exit", "db_error"}
RestartAndForce == {"restart", "sync_failure", "unforced"}
Restarting == {"restart"}
Calm == {}
=============================================================================
