--------------------------- MODULE MCOrgIdentity ---------------------------
(* A small instance of OrgIdentity. *)
EXTENDS OrgIdentity

CONSTANTS orderer0, peer0, r1, r2

Declares(ws, couch, r, cleanup) == [workloads |-> ws, couchDB |-> couch, request |-> r, cleanup |-> cleanup]
Left(e, f, x) == [edits |-> e, faults |-> f, expiries |-> x]
Scenario(s, l) == [spec |-> s, left |-> l]

\* A first enrollment with a fault; a rotation requested anew while one runs, with
\* faults; certificates that come due in a workload, or with faults for the
\* administrator alone; a peer with its database that is scaled down.
Enrolling == Scenario(Declares({peer0}, FALSE, None, TRUE), Left(0, 1, 0))
Rotating == Scenario(Declares({}, FALSE, r1, TRUE), Left(1, 1, 0))
Renewing == Scenario(Declares({orderer0}, FALSE, None, FALSE), Left(0, 0, 2))
Repairing == Scenario(Declares({}, FALSE, r1, FALSE), Left(0, 1, 2))
Scaling == Scenario(Declares({peer0}, TRUE, None, TRUE), Left(1, 0, 0))
Scenarios == {Enrolling, Rotating, Renewing, Repairing, Scaling}
============================================================================
