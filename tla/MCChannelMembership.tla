------------------------ MODULE MCChannelMembership ------------------------
(* A small instance of ChannelMembership. *)
EXTENDS ChannelMembership

CONSTANTS x, y, a1, a2

Order2 == <<x, y>>
E(manual, anchors) == [state |-> "Present", op |-> 0, manual |-> manual, ref |-> FALSE, anchors |-> anchors]
Left(e, f, o) == [edits |-> e, faults |-> f, others |-> o]
Scenario(ex, ey, app, p, l) ==
    [spec |-> [m \in {x, y} |-> IF m = x THEN ex ELSE ey], app |-> app, policy |-> p, left |-> l]

\* One administrator suffices: x is removed and admitted again, or x and y are
\* admitted side by side.  Signatures are collected: another change makes the
\* proposal stale, or x is removed again while a Pod is lost.
Direct == Scenario(E(FALSE, a1), None, a2, "admin", Left(2, 1, 1))
Racing == Scenario(E(FALSE, None), E(FALSE, None), a1, "admin", Left(0, 1, 0))
Stale == Scenario(E(TRUE, None), None, a1, "many", Left(0, 0, 1))
Signed == Scenario(E(TRUE, None), None, a1, "many", Left(1, 1, 0))
Scenarios == {Direct, Racing, Stale, Signed}
=============================================================================
