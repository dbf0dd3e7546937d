---------------------------- MODULE MCRaftReview ----------------------------
(* Instance of RaftReview: three orderers, a, b and c.  The host of a is   *)
(* also spelled differently, and b is also written with c's certificate,   *)
(* with a CA certificate and with port 0.                                  *)
EXTENDS RaftReview, TLC

Entries == {"a", "A", "b", "c", "b with certC"}
BadEntries == {"b with ca", "b at 0"}
MCRaftConsenter == Entries \cup BadEntries
MCEndpoint == [e \in MCRaftConsenter |->
    CASE e \in {"a", "A"} -> "a:7050" [] e = "c" -> "c:7050" [] e = "b at 0" -> "b:0" [] OTHER -> "b:7050"]
MCCertificate == [e \in MCRaftConsenter |->
    CASE e \in {"a", "A"} -> "certA"
      [] e \in {"c", "b with certC"} -> "certC"
      [] e = "b with ca" -> "ca"
      [] OTHER -> "certB"]

MCLists ==
    {<<>>} \cup {<<e>> : e \in MCRaftConsenter}
           \cup {<<e, f>> : e \in Entries, f \in Entries}
           \cup {<<e, f, g>> : e \in Entries, f \in Entries, g \in Entries}
\* consenter lists of a live channel
LiveLists == {l \in MCLists : Len(l) > 2 => \A i \in 1 .. 2 : l[i] \in {"a", "b"}}
MCRests == {"reviewed", "other"}
MCSequences64 == {<<9>>, <<1, 0>>, <<1, 9>>, <<9, 9>>, <<1, 0, 0>>}
Snapshot(sequence, mode, consenters) ==
    [sequence |-> sequence, mode |-> mode, consenters |-> consenters, rest |-> "reviewed"]
MCSnapshots == {Snapshot(s, "normal", l) : s \in {<<9>>, <<1, 9>>}, l \in LiveLists}
               \cup {Snapshot(<<9>>, "maintenance", <<"a">>)}

\* Plan files as the CLI would write them for two lists, with any action, and
\* a plan from <<a>> to <<a, b>> in which any of the other fields was changed.
PlanOf(configSequence, action, old, new) ==
    [configSequence |-> configSequence, action |-> action,
     currentQuorum |-> Quorum(Len(old.consenters)), desiredQuorum |-> Quorum(Len(new.consenters)),
     originalConfig |-> old, updatedConfig |-> new]
Reviewed(consenters) == Snapshot(<<9>>, "normal", consenters)
Variants(consenters) ==
    [sequence : {<<9>>, <<1, 0>>}, mode : {"normal", "maintenance"}, consenters : {consenters}, rest : MCRests]
OriginalLists == {l \in LiveLists : validateRaftConsenters(l)} \cup {<<>>, <<"b at 0">>, <<"a", "A">>}
MCHanded ==
    {PlanOf(<<9>>, action, Reviewed(old), Reviewed(new)) :
        action \in PlanActions, old \in OriginalLists, new \in MCLists}
    \cup {PlanOf(s, "Add", old, new) :
        s \in {<<9>>, <<1, 0>>}, old \in Variants(<<"a">>), new \in Variants(<<"a", "b">>)}
=============================================================================
