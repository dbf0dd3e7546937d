------------------------ MODULE MCChaincodeLifecycle ------------------------
(* Small instances of ChaincodeLifecycle. *)
EXTENDS ChaincodeLifecycle

CONSTANTS orgA, orgB, orgC, p0, p1, l1, l2, v1, v2, code, policy, collA, collB

Cc(label, version, seq, p, coll) ==
    [label |-> label, content |-> code, version |-> version, seq |-> seq, policy |-> p, collections |-> coll]
Declare(cc, orgs, gs) == [cc |-> cc, orgs |-> orgs, guests |-> gs, cleanup |-> gs = {}]
One == <<[name |-> orgA, peers |-> <<p0>>]>>
Pair == <<[name |-> orgA, peers |-> <<p0, p1>>]>>
Two == <<[name |-> orgA, peers |-> <<p0, p1>>], [name |-> orgB, peers |-> <<p0>>]>>
Less == <<[name |-> orgA, peers |-> <<p0>>], [name |-> orgB, peers |-> <<p0>>]>>

\* With a guest: an upgrade of version and sequence, for which the guest has a new
\* package, and one definition with a fault.
Joint1 == Declare(Cc(l1, v1, 1, policy, None), One, {orgC})
Joint2 == Declare(Cc(l1, v2, 2, policy, None), One, {orgC})
GuestCc2 == Cc(l2, v2, 2, policy, None)
Joint == Declare(Cc(l1, v2, 1, policy, None), One, {orgC})

\* Without one: an upgrade to a new package, other collections and one more peer, with
\* a fault; two organizations and a derived policy, and one peer less.
Own1 == Declare(Cc(l1, v1, 1, None, collA), One, {})
Own2 == Declare(Cc(l2, v2, 2, None, collB), Pair, {})
Own == Declare(Cc(l1, v1, 1, None, None), Two, {})
OwnLess == Declare(Own.cc, Less, {})

\* The same sequence with other collections.
Same == Declare(Cc(l1, v1, 1, None, collB), One, {})

Start(s, f) == [spec |-> s, guest |-> s.cc, faults |-> f]
Upgrades == {<<Joint1, Joint2>>, <<Own1, Own2>>, <<Own, OwnLess>>}
GuestUpgrades == {<<Joint1.cc, GuestCc2>>}
UpgradeInitial == {Start(Joint1, 0), Start(Joint, 1), Start(Own1, 1), Start(Own, 0)}
UpgradeDeclared == {Joint1, Joint2, Joint, Own1, Own2, Own, OwnLess}

SameEdits == {<<Own1, Same>>}
SameInitial == {Start(Own1, 0)}
SameDeclared == {Own1, Same}
Peers == <<p0>>
=============================================================================
