---------------------------- MODULE MCRaftUpdate ----------------------------
(* Instance of RaftUpdate: a channel ordered by o1 and o2, with o3 joined  *)
(* as a follower that has not caught up.  Requests fetch from o1.          *)
EXTENDS RaftUpdate

MCOrderer == {"o1", "o2", "o3"}
Itself == [o1 |-> "o1", o2 |-> "o2", o3 |-> "o3"]

Before == [sequence |-> 0, version |-> 0, mode |-> "normal",
           consenters |-> <<"o1", "o2">>, rest |-> "reviewed"]
Now == [Before EXCEPT !.sequence = 1, !.rest = "other"]
Installing(config, h) == [config |-> config, lastConfig |-> h]
MCHistory == <<Installing(Before, 1), Installing(Now, 2)>>
MCReplicated == [o1 |-> 2, o2 |-> 2, o3 |-> 1]

AddO3 == planRaftConfig(Now, <<"o3", "o2", "o1">>)
MCPlan == [add     |-> AddO3,
           remove  |-> planRaftConfig(Now, <<"o1">>),
           removeO1 |-> planRaftConfig(Now, <<"o2">>),
           confirm |-> planRaftConfig(Now, <<"o2", "o1">>),
           stale   |-> planRaftConfig(Before, <<"o1", "o2", "o3">>),
           relabelled |-> [AddO3 EXCEPT !.action = "AlreadyApplied"],
           misplaced  |-> AddO3]
MCSource == [add |-> "o1", remove |-> "o1", removeO1 |-> "o2", confirm |-> "o1", stale |-> "o1",
             relabelled |-> "o1", misplaced |-> "elsewhere"]

Update(desired) == [version |-> 0, consenters |-> desired]
MCUpdate == [addSigned    |-> Update(<<"o1", "o2", "o3">>),
             addTooFew    |-> Update(<<"o1", "o2", "o3">>),
             addUnsigned  |-> Update(<<"o1", "o2", "o3">>),
             removeSigned |-> Update(<<"o1">>),
             removeO1Signed |-> Update(<<"o2">>)]
MCSignatures == [addSigned |-> "enough", addTooFew |-> "some",
                 addUnsigned |-> "none", removeSigned |-> "enough", removeO1Signed |-> "enough"]

AddAny     == {<<"add", "addSigned">>, <<"add", "addTooFew">>,
               <<"add", "addUnsigned">>, <<"add", "removeSigned">>}
Each       == {<<"remove", "removeSigned">>, <<"removeO1", "removeO1Signed">>}
AddOrRemove == AddAny \cup Each

SomeLists == {<<"o1">>, <<"o1", "o2">>}

\* A young channel ordered by o1 alone, to which o2 is added before it has joined.
Pair == {"o1", "o2"}
PairItself == [o1 |-> "o1", o2 |-> "o2"]
Alone == [Now EXCEPT !.consenters = <<"o1">>]
Young == <<Installing(Alone, 1)>>
NotJoined == [o1 |-> 1, o2 |-> 0]
AddO2 == [add |-> planRaftConfig(Alone, <<"o2", "o1">>)]
FromO1 == [add |-> "o1"]
AddO2Update == [addSigned |-> Update(<<"o1", "o2">>)]
Enough == [addSigned |-> "enough"]
AddOnly == {<<"add", "addSigned">>}
OriginalList == {<<"o1">>}
=============================================================================
