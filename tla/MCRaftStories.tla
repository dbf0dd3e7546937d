--------------------------- MODULE MCRaftStories ----------------------------
(* The safety properties of RaftUpdate over five stories, which one run    *)
(* checks together: each behaviour follows one of them, with the requests, *)
(* envelopes, foreign config updates and bounds the story allows.          *)
EXTENDS MCRaftUpdate

VARIABLE story

Story == [requests |-> {"add"}, envelopes |-> {"addSigned"}, withdraws |-> FALSE,
          others |-> {}, replicating |-> MCOrderer, renews |-> FALSE, deletes |-> TRUE,
          height |-> 3, pending |-> 1, edits |-> 3, failures |-> 0]

\* One operation, withdrawn, failing and retried, while others change the config
OneOperation == [Story EXCEPT !.withdraws = TRUE, !.others = {"rest", "mode"},
                              !.failures = 1, !.renews = TRUE, !.replicating = {"o1", "o3"}]
\* Others install consenters, perhaps the reviewed ones
Race == [Story EXCEPT !.others = {"list"}, !.edits = 2, !.height = 4]
\* Envelopes with too few signatures, or for another change
Signatures == [Story EXCEPT !.envelopes = {"addSigned", "addTooFew", "addUnsigned",
                                           "removeSigned"}, !.height = 2,
                            !.replicating = {"o3"}]
\* Two operations of one channel whose deltas exclude each other
TwoOperations == [Story EXCEPT !.requests = {"remove", "removeO1"}, !.edits = 4,
                               !.envelopes = {"removeSigned", "removeO1Signed"},
                               !.replicating = {"o1", "o2"}, !.height = 2,
                               !.deletes = FALSE]
\* Requests that need no signature, or that validation refuses
Unsigned == [Story EXCEPT !.requests = {"confirm", "stale", "relabelled", "misplaced"},
                          !.envelopes = {}, !.withdraws = TRUE, !.others = {"list", "mode"}]

NewTip == chain'[Len(chain')].config
ForeignUpdate == CASE NewTip.version = Tip.version -> "rest"
                   [] NewTip.mode # Tip.mode -> "mode"
                   [] OTHER -> "list"

InStory ==
    /\ spec' # spec => /\ \/ spec'.request \in story.requests
                          \/ spec'.request = NoRequest /\ story.withdraws
                       /\ spec'.envelope \in story.envelopes \cup {NoEnvelope}
    /\ edits' <= story.edits /\ failures' <= story.failures
    /\ (Len(chain') > Len(chain) /\ pending' = pending) =>
           /\ Len(chain') <= story.height
           /\ NewTip # Tip => ForeignUpdate \in story.others
    /\ Len(pending') <= story.pending
    /\ \A o \in Orderer \ story.replicating : height'[o] = height[o]
    /\ managed' = managed \/ story.renews
    /\ \/ story.deletes
       \/ /\ \A r \in Request : stagingJob'[r] = "absent" => stagingJob[r] = "absent"
          /\ \A k \in Operation : submission'[k] = NoJob => submission[k] = NoJob

StoriesInit == Init /\ story \in {OneOperation, Race, Signatures, TwoOperations, Unsigned}
StoriesNext == Next /\ InStory /\ UNCHANGED story
StoriesSpec == StoriesInit /\ [][StoriesNext]_<<vars, story>>
=============================================================================
