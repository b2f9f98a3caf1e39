----------------------------- MODULE MCRequests -----------------------------
(* Small instances of Requests for TLC. *)
EXTENDS Requests

CONSTANTS r1, r2, c1, c2, u1, u2

TwoRequests == {r1, r2}
TwoIds == {c1, c2}
TwoUsers == {u1, u2}
OneUser == {u1}

\* A create whose reply does not decode, a start the daemon refuses, and a stop
\* that does not get through.
FailingCalls ==
  {<<"create", "garbled">>, <<"start", "refused">>, <<"stop", "unreachable">>}

\* Clients delete without force, and delete again.
Clients == {"unforced", "repeat_delete"}
=============================================================================
