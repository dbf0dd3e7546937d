-------------------------- MODULE MCNetworkLifecycle -------------------------
(* A small instance of NetworkLifecycle: the networks my.x, my-x and           *)
(* network-my-x of one control namespace have the same namespaces for the      *)
(* organizations a and b, since sanitizeName makes a dash of the dot and       *)
(* compactNetworkName drops the prefix; the first two have the same labels.    *)
EXTENDS NetworkLifecycle

CONSTANTS dotted, dashed, prefixed, a, b

MCSanitizeName == [n \in Network |-> IF n = dotted THEN dashed ELSE n]
MCNamespace == {"fo-my-x-a", "fo-my-x-b"}
MCNamespaceName == [k \in Network \X Org |-> IF k[2] = a THEN "fo-my-x-a" ELSE "fo-my-x-b"]

Declares(orgs, valid) == [orgs |-> orgs, valid |-> valid]
Both == Declares(<<a, b>>, TRUE)
OnlyB == Declares(<<b>>, TRUE)
Invalid == Declares(<<a, b>>, FALSE)
Declarations == {Both, OnlyB, Invalid}

Nothing == [k \in MCNamespace |-> None]
There(label, g) ==
    [Nothing EXCEPT !["fo-my-x-b"] =
        [owner |-> None, label |-> label, org |-> g, state |-> "active", objects |-> "none"]]
Left(e, d, f) == [edits |-> e, deletes |-> d, faults |-> f]
Scenario(one, other, third, there, l) ==
    [declares |-> [n \in Network |-> IF n = dotted THEN one ELSE IF n = dashed THEN other ELSE third],
     namespaces |-> there, left |-> l]

\* One network is edited, deleted and created again, with faults; two networks
\* with different labels or with the same want one namespace, and may be deleted;
\* a namespace that is nobody's, or only carries a label, is adopted.
Alone == Scenario(Both, None, None, Nothing, Left(1, 2, 1))
Contending == Scenario(Both, None, OnlyB, Nothing, Left(1, 1, 1))
SameLabel == Scenario(Both, OnlyB, None, Nothing, Left(0, 2, 1))
Adopting == {Scenario(OnlyB, None, None, There(label, b), Left(0, 1, 1)) : label \in {None, dashed, prefixed}}
Scenarios == {Alone, Contending, SameLabel} \cup Adopting
==============================================================================
