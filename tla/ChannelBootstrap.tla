-------------------------- MODULE ChannelBootstrap --------------------------
(***************************************************************************)
(* How reconcileChannels brings one channel up and admits organizations    *)
(* that are declared later: the genesis block, the orderer joins, the      *)
(* admission of local organizations by a signed config update, the peer    *)
(* joins and the anchor peer updates, with the Job behind every step, the  *)
(* ConfigMap it publishes, and the channel those Jobs change.              *)
(*                                                                         *)
(* A pass of the controller works on the declaration it read when it       *)
(* started.  Each iteration of its loops is one action: the reads and the  *)
(* ensureJob of one iteration concern one Job and the ConfigMap only that  *)
(* Job writes.  The declarations have no externalOrgs and no raftUpdate    *)
(* (RaftUpdate models that step), so a pass ends after the anchor peers.   *)
(*                                                                         *)
(* Jobs keep their Pod template for life; a Job is recreated only after    *)
(* someone deleted it.  A Pod runs the script of the Job (step "start" and *)
(* after), then publishes what the script wrote (step "ran").               *)
(***************************************************************************)
EXTENDS Naturals, Sequences, FiniteSets, Functions

CONSTANTS
    Org,              \* organizations with peers that this network manages
    Peer,             \* names of peers
    Orderer,          \* orderers, in the order of desiredOrdererInstances
    OrdererOrg,       \* organizations that host orderers
    Declaration,      \* values of spec.channels[].orgs
    initial,          \* the declaration the network is created with
    Edit,             \* pairs of declarations: the edits users make
    EditWhenReady,    \* whether users edit only a channel that is ready
    Envelope,         \* envelopes a user may store behind signedUpdateRef
    None,
    CleanupTTL,       \* None, or when a succeeded Job may go: 0 at once, else later
    BackoffLimit,     \* Pods a Job replaces before it fails (4 in the code)
    MaxFaults,        \* bound: Pods lost and accepted updates never ordered
    MaxDeletes,       \* bound: failed Jobs deleted by users
    MaxOther          \* bound: membership changes by other administrators

VARIABLES
    spec,             \* the declaration in the FabricNetwork, and signedUpdateRefs
    configtx,         \* the channel's configtx ConfigMap: organizations, with anchor peers
    block,            \* the channel block ConfigMap
    copy,             \* its copy in the namespace of an organization
    job,              \* the Jobs that exist
    ordererResult, peerResult, anchorResult, addResult, submitResult,
    ledger,           \* the channel config in force at the first orderer
    joined,           \* the genesis block a node joined with
    pending,          \* updates accepted and not yet ordered
    pass,             \* the controller's pass
    status,           \* what the controller last reported of the channel
    spent             \* how much of the bounds has been used

kubernetes == <<configtx, block, copy, job>>
results == <<ordererResult, peerResult, anchorResult, addResult, submitResult>>
fabric == <<ledger, joined, pending>>
vars == <<spec, kubernetes, results, fabric, pass, status, spent>>
-----------------------------------------------------------------------------
OrdererSet == Range(Orderer)
OrgPeer == Org \X Peer
Node == OrdererSet \cup OrgPeer

Names(orgs) == {orgs[i].name : i \in DOMAIN orgs}
PeerNames(orgs) ==
    {p \in OrgPeer : \E i \in DOMAIN orgs : p[1] = orgs[i].name /\ p[2] \in Range(orgs[i].peers)}

\* The Jobs, by what their names are made of.  An addition is named by the
\* administrator that stages it and the organization that joins; a submission
\* by the staged update as well (of which the version it read tells proposals
\* for one organization apart) and by the envelope.
BlockJob == <<"block">>
OrdererJob(o) == <<"orderer", o>>
PeerJob(p) == <<"peer", p>>
AnchorJob(g) == <<"anchor", g>>
AddJob(k) == <<"add", k>>
SubmitJob(k) == <<"submit", k>>

Version == 0..(Cardinality(Org) + MaxOther)
AddKey == {k \in Org \X Org : k[1] # k[2]}
SubmitKey == {k \in Org \X Org \X Version \X Envelope : k[1] # k[2] /\ k[4].name = k[2]}
JobName ==
    {BlockJob} \cup {OrdererJob(o) : o \in OrdererSet} \cup {PeerJob(p) : p \in OrgPeer}
      \cup {AnchorJob(g) : g \in Org} \cup {AddJob(k) : k \in AddKey}
      \cup {SubmitJob(k) : k \in SubmitKey}

AnchorMap == [Org -> Peer \cup {None}]
Genesis == [id : 1..(MaxFaults + 1), anchors : AnchorMap]
Evidence == [outcome : {"staged", "alreadyApplied"}, version : Version]

\* A declaration names an organization once, with the peers it declares.
ASSUME DeclarationsAreWellFormed ==
    /\ Declaration \subseteq Seq([name : Org, peers : Seq(Peer) \ {<<>>}])
    /\ \A orgs \in Declaration : \A i, n \in DOMAIN orgs : orgs[i].name = orgs[n].name => i = n
    /\ initial \in Declaration

ASSUME OrderersAreNodes ==
    /\ Orderer \in Seq(OrdererSet) \ {<<>>}
    /\ OrdererSet \cap OrgPeer = {}
    /\ OrdererOrg \subseteq Org

ASSUME NoneIsNoValue == None \notin Org \cup Peer \cup Genesis

ASSUME BoundsAreFinite ==
    /\ IsFiniteSet(Org)
    /\ BackoffLimit \in Nat /\ MaxFaults \in Nat /\ MaxDeletes \in Nat /\ MaxOther \in Nat

Idle == [at |-> "idle", spec |-> None, i |-> 1, k |-> 1, ok |-> TRUE, admin |-> None, todo |-> <<>>]

Init ==
    /\ spec = [orgs |-> initial, signed |-> [g \in Org |-> None]]
    /\ configtx = [g \in Org |-> None]
    /\ block = None
    /\ copy = [g \in Org |-> None]
    /\ job = <<>>
    /\ ordererResult = {}
    /\ peerResult = {}
    /\ anchorResult = [g \in Org |-> None]
    /\ addResult = [k \in AddKey |-> None]
    /\ submitResult = {}
    /\ ledger = [members |-> {}, version |-> 0,
                 anchors |-> [g \in Org |-> None], anchorVersion |-> [g \in Org |-> 0]]
    /\ joined = [n \in Node |-> None]
    /\ pending = {}
    /\ pass = Idle
    /\ status = [ready |-> FALSE, orgs |-> <<>>]
    /\ spent = [runs |-> 0, faults |-> 0, deletes |-> 0, other |-> 0]
-----------------------------------------------------------------------------
(***************************************************************************)
(* Users and other administrators.                                         *)
(***************************************************************************)
EditOrgs(orgs) ==
    /\ <<spec.orgs, orgs>> \in Edit
    /\ EditWhenReady => status = [ready |-> TRUE, orgs |-> spec.orgs]
    /\ spec' = [spec EXCEPT !.orgs = orgs]
    /\ UNCHANGED <<kubernetes, results, fabric, pass, status, spent>>

\* A proposal that was staged is signed and handed back, perhaps altered.
SetSignedUpdateRef(g, e) ==
    /\ e.name = g
    /\ \E a \in Org : <<a, g>> \in AddKey /\ addResult[<<a, g>>] # None /\ addResult[<<a, g>>].outcome = "staged"
    /\ spec.signed[g] # e
    /\ spec' = [spec EXCEPT !.signed[g] = e]
    /\ UNCHANGED <<kubernetes, results, fabric, pass, status, spent>>

Without(deleted) == [n \in DOMAIN job \ deleted |-> job[n]]

DeleteFailedJob(j) ==
    /\ job[j].state = "failed"
    /\ spent.deletes < MaxDeletes
    /\ job' = Without({j})
    /\ spent' = [spent EXCEPT !.deletes = @ + 1]
    /\ UNCHANGED <<spec, configtx, block, copy, results, fabric, pass, status>>

\* Someone admits or removes an organization that is not in Org.
OtherMembershipChange ==
    /\ spent.other < MaxOther
    /\ ledger.members # {}
    /\ ledger' = [ledger EXCEPT !.version = @ + 1]
    /\ spent' = [spent EXCEPT !.other = @ + 1]
    /\ UNCHANGED <<spec, kubernetes, results, joined, pending, pass, status>>
-----------------------------------------------------------------------------
(***************************************************************************)
(* The controller.                                                         *)
(***************************************************************************)
channelConfigOrganizations(orgs) == {g \in Org : g \in OrdererOrg \/ g \in Names(orgs)}

\* What the template of a Job holds of the declaration, for as long as the Job
\* exists: the anchor peer, and the organizations whose MSP the block Job mounts.
NewJob(j, anchor) ==
    [state |-> "active", step |-> "start", tries |-> 0, anchor |-> anchor,
     msps |-> IF j = BlockJob THEN channelConfigOrganizations(pass.spec.orgs) ELSE {}, got |-> None]

ensureJob(j, anchor) ==
    [n \in DOMAIN job \cup {j} |-> IF n \in DOMAIN job THEN job[n] ELSE NewJob(j, anchor)]

\* A Job that has ended without the result that is looked for ends the pass.
Ended(j) == j \in DOMAIN job /\ job[j].state \in {"failed", "succeeded"}

At(step) == pass.at = step
GoTo(step) == [pass EXCEPT !.at = step, !.i = 1, !.k = 1, !.ok = TRUE]
Report(ready) == [pass EXCEPT !.at = "report", !.ok = ready]
Declared == pass.spec.orgs
Entry == Declared[pass.i]

StartPass ==
    /\ At("idle")
    /\ pass' = [Idle EXCEPT !.at = "generate", !.spec = spec]
    /\ UNCHANGED <<spec, kubernetes, results, fabric, status, spent>>

channelAnchorPeerForOrg(entry) == entry.peers[1]

\* The anchor peer of each declared organization, None for the others.
buildConfigtxYAML(orgs) ==
    [g \in Org |-> IF g \in Names(orgs)
                   THEN channelAnchorPeerForOrg(CHOOSE entry \in Range(orgs) : entry.name = g)
                   ELSE None]

reconcileChannelBlockGeneration ==
    /\ At("generate")
    /\ configtx' = buildConfigtxYAML(Declared)
    /\ job' = IF block = None THEN ensureJob(BlockJob, None) ELSE job
    /\ pass' = GoTo("block")
    /\ UNCHANGED <<spec, block, copy, results, fabric, status, spent>>

\* An organization's components are not ready: the channel has to wait.
AwaitComponents ==
    /\ At("generate")
    /\ spent.faults < MaxFaults
    /\ spent' = [spent EXCEPT !.faults = @ + 1]
    /\ pass' = Report(FALSE)
    /\ UNCHANGED <<spec, kubernetes, results, fabric, status>>

channelBlockReadiness ==
    /\ At("block")
    /\ pass' = IF block = None THEN Report(FALSE) ELSE GoTo("orderers")
    /\ UNCHANGED <<spec, kubernetes, results, fabric, status, spent>>

reconcileOrdererJoins ==
    /\ At("orderers")
    /\ IF pass.i > Len(Orderer)
       THEN /\ pass' = IF pass.ok THEN GoTo("receipts") ELSE Report(FALSE)
            /\ UNCHANGED job
       ELSE LET o == Orderer[pass.i] IN
            IF o \in ordererResult
            THEN pass' = [pass EXCEPT !.i = @ + 1] /\ UNCHANGED job
            ELSE /\ job' = ensureJob(OrdererJob(o), None)
                 /\ pass' = IF Ended(OrdererJob(o)) THEN Report(FALSE)
                            ELSE [pass EXCEPT !.i = @ + 1, !.ok = FALSE]
    /\ UNCHANGED <<spec, configtx, block, copy, results, fabric, status, spent>>

\* An anchor receipt for any declared peer makes an organization a member that
\* can administer; the organizations without one are candidates for admission.
HasReceipt(entry) == anchorResult[entry.name] \in Range(entry.peers)

reconcileLocalOrgAdditions ==
    /\ At("receipts")
    /\ pass' = IF pass.i > Len(Declared)
               THEN IF pass.admin = None \/ pass.todo = <<>> THEN GoTo("peers") ELSE GoTo("add")
               ELSE IF ~HasReceipt(Entry)
                    THEN [pass EXCEPT !.i = @ + 1, !.todo = Append(@, Entry.name)]
                    ELSE [pass EXCEPT !.i = @ + 1,
                                      !.admin = IF @ = None THEN Entry.name ELSE @]
    /\ UNCHANGED <<spec, kubernetes, results, fabric, status, spent>>

\* Mutant of Admitted: a proposal that is staged is enough.
Admitted_staged(k, e) == addResult[k] # None

\* Evidence that the organization is in the channel: its addition found it
\* there, or the signed proposal was submitted and seen committed.
Admitted(k, e) ==
    /\ addResult[k] # None
    /\ addResult[k].outcome = "staged" => <<k[1], k[2], addResult[k].version, e>> \in submitResult

reconcileLocalOrgAdd ==
    /\ At("add")
    /\ IF pass.i > Len(pass.todo)
       THEN pass' = GoTo("peers") /\ UNCHANGED job
       ELSE LET g == pass.todo[pass.i]
                k == <<pass.admin, g>>
                e == pass.spec.signed[g]
            IN  \/ /\ addResult[k] = None
                   /\ job' = ensureJob(AddJob(k), None)
                   /\ pass' = Report(FALSE)
                \/ /\ Admitted(k, e)
                   /\ pass' = [pass EXCEPT !.i = @ + 1]
                   /\ UNCHANGED job
                \/ /\ addResult[k] # None
                   /\ ~Admitted(k, e)
                   /\ job' = IF e = None THEN job
                             ELSE ensureJob(SubmitJob(<<k[1], k[2], addResult[k].version, e>>), None)
                   /\ pass' = Report(FALSE)
    /\ UNCHANGED <<spec, configtx, block, copy, results, fabric, status, spent>>

\* Mutant of peerJoinResultReadiness: the result counts while its Job exists.
peerJoinResultReadiness_whileJob(p) == p \in peerResult /\ PeerJob(p) \in DOMAIN job

peerJoinResultReadiness(p) == p \in peerResult

\* The peer after the one at hand, of the same organization or of the next.
NextPeer(ok) ==
    IF pass.k < Len(Entry.peers) THEN [pass EXCEPT !.k = @ + 1, !.ok = ok]
                                 ELSE [pass EXCEPT !.i = @ + 1, !.k = 1, !.ok = ok]

\* The block is copied to an organization before the first of its peers.
reconcilePeerJoins ==
    /\ At("peers")
    /\ IF pass.i > Len(Declared)
       THEN /\ pass' = IF pass.ok THEN GoTo("anchors") ELSE Report(FALSE)
            /\ UNCHANGED <<copy, job>>
       ELSE LET p == <<Entry.name, Entry.peers[pass.k]>> IN
            /\ copy' = IF pass.k = 1 THEN [copy EXCEPT ![Entry.name] = block] ELSE copy
            /\ IF peerJoinResultReadiness(p)
               THEN pass' = NextPeer(pass.ok) /\ UNCHANGED job
               ELSE /\ job' = ensureJob(PeerJob(p), None)
                    /\ pass' = IF Ended(PeerJob(p)) THEN Report(FALSE) ELSE NextPeer(FALSE)
    /\ UNCHANGED <<spec, configtx, block, results, fabric, status, spent>>

\* Mutant of anchorPeerUpdateResultMatches: the receipt of the peer join is taken.
anchorPeerUpdateResultMatches_joined(entry) == <<entry.name, channelAnchorPeerForOrg(entry)>> \in peerResult

anchorPeerUpdateResultMatches(entry) == anchorResult[entry.name] = channelAnchorPeerForOrg(entry)

reconcileAnchorPeerUpdates ==
    /\ At("anchors")
    /\ IF pass.i > Len(Declared)
       THEN pass' = Report(TRUE) /\ UNCHANGED job
       ELSE IF anchorPeerUpdateResultMatches(Entry)
            THEN pass' = [pass EXCEPT !.i = @ + 1] /\ UNCHANGED job
            ELSE /\ job' = ensureJob(AnchorJob(Entry.name), channelAnchorPeerForOrg(Entry))
                 /\ pass' = Report(FALSE)
    /\ UNCHANGED <<spec, configtx, block, copy, results, fabric, status, spent>>

\* The succeeded Jobs that are old enough to be deleted.
Expired(old) ==
    /\ CleanupTTL = None => old = {}
    /\ CleanupTTL = 0 => \A j \in DOMAIN job \ old : job[j].state # "succeeded"
    /\ \A j \in old : job[j].state = "succeeded"

\* The status is written, then cleanupSucceededJobs runs.
ReportStatus ==
    /\ At("report")
    /\ status' = [ready |-> pass.ok, orgs |-> Declared]
    /\ \E old \in SUBSET DOMAIN job : Expired(old) /\ job' = Without(old)
    /\ pass' = Idle
    /\ UNCHANGED <<spec, configtx, block, copy, results, fabric, spent>>

\* The manager stops, or an API call fails: the next pass starts afresh.
AbandonPass ==
    /\ ~At("idle")
    /\ spent.faults < MaxFaults
    /\ spent' = [spent EXCEPT !.faults = @ + 1]
    /\ pass' = Idle
    /\ UNCHANGED <<spec, kubernetes, results, fabric, status>>
-----------------------------------------------------------------------------
(***************************************************************************)
(* The Pods of the Jobs.                                                   *)
(***************************************************************************)
Running(j, step) == j \in DOMAIN job /\ job[j].state = "active" /\ job[j].step = step
Advance(j, step, got) == job' = [job EXCEPT ![j].step = step, ![j].got = got]

\* Mutants of AfterPod: a Job that replaces Pods for ever, and one that never does.
AfterPod_forever(j) == [job EXCEPT ![j].step = "start", ![j].tries = @ + 1, ![j].got = None]
AfterPod_never(j) == [job EXCEPT ![j].state = "failed", ![j].step = "start", ![j].got = None]

\* A Pod that failed is replaced, until the Job has used up its retries.
AfterPod(j) ==
    IF job[j].tries = BackoffLimit
    THEN [job EXCEPT ![j].state = "failed", ![j].step = "start", ![j].got = None]
    ELSE [job EXCEPT ![j].step = "start", ![j].tries = @ + 1, ![j].got = None]

LosePod(j) ==
    /\ spent.faults < MaxFaults
    /\ spent' = [spent EXCEPT !.faults = @ + 1]
    /\ job' = AfterPod(j)

\* The Pod has published its result: the Job succeeds, unless the Pod is lost
\* before its end is recorded, or the rest of the publishing step fails.
Finish(j) ==
    \/ /\ job' = [job EXCEPT ![j].state = "succeeded", ![j].step = "start", ![j].got = None]
       /\ UNCHANGED spent
    \/ LosePod(j)

\* A Pod reads the configtx ConfigMap as it is now, and has the MSPs that were
\* mounted when the Job was created: configtxgen fails on a missing MSPDir.
MSPsMounted == {g \in Org : configtx[g] # None} \subseteq job[BlockJob].msps

\* configtxgen stamps every block it makes with the time and a nonce, so no
\* two runs give the same block.
generateChannelBlock ==
    /\ Running(BlockJob, "start")
    /\ MSPsMounted
    /\ Advance(BlockJob, "ran", [id |-> spent.runs + 1, anchors |-> configtx])
    /\ spent' = [spent EXCEPT !.runs = @ + 1]
    /\ UNCHANGED <<spec, configtx, block, copy, results, fabric, pass, status>>

publishChannelBlock ==
    /\ Running(BlockJob, "ran")
    /\ block' = job[BlockJob].got
    /\ Finish(BlockJob)
    /\ UNCHANGED <<spec, configtx, copy, results, fabric, pass, status>>

\* An orderer that is active already is left alone.  The channel starts with
\* the block the first orderer joins with.
joinOrderer(o) ==
    /\ Running(OrdererJob(o), "start")
    /\ Advance(OrdererJob(o), "ran", None)
    /\ joined' = IF joined[o] = None THEN [joined EXCEPT ![o] = block] ELSE joined
    /\ ledger' = IF joined[o] = None /\ o = Orderer[1]
                 THEN [ledger EXCEPT !.members = {g \in Org : block.anchors[g] # None},
                                     !.anchors = block.anchors]
                 ELSE ledger
    /\ UNCHANGED <<spec, configtx, block, copy, results, pending, pass, status, spent>>

publishOrdererJoinResult(o) ==
    /\ Running(OrdererJob(o), "ran")
    /\ ordererResult' = ordererResult \cup {o}
    /\ Finish(OrdererJob(o))
    /\ UNCHANGED <<spec, configtx, block, copy, peerResult, anchorResult, addResult, submitResult,
                   fabric, pass, status>>

\* A peer needs its own administrator to join, not membership in the channel.
joinPeer(p) ==
    /\ Running(PeerJob(p), "start")
    /\ Advance(PeerJob(p), "ran", None)
    /\ joined' = IF joined[p] = None THEN [joined EXCEPT ![p] = copy[p[1]]] ELSE joined
    /\ UNCHANGED <<spec, configtx, block, copy, results, ledger, pending, pass, status, spent>>

publishPeerJoinResult(p) ==
    /\ Running(PeerJob(p), "ran")
    /\ peerResult' = peerResult \cup {p}
    /\ Finish(PeerJob(p))
    /\ UNCHANGED <<spec, configtx, block, copy, ordererResult, anchorResult, addResult, submitResult,
                   fabric, pass, status>>

\* Only a member's administrator may fetch the config.
fetchForAnchor(g) ==
    LET j == AnchorJob(g) IN
    /\ Running(j, "start")
    /\ g \in ledger.members
    /\ IF ledger.anchors[g] = job[j].anchor THEN Advance(j, "ran", None)
       ELSE Advance(j, "fetched", [version |-> ledger.anchorVersion[g]])
    /\ UNCHANGED <<spec, configtx, block, copy, results, fabric, pass, status, spent>>

\* The receipt is written once the orderer has accepted the update.
updateAnchorPeer(g) ==
    LET j == AnchorJob(g) IN
    /\ Running(j, "fetched")
    /\ job[j].got.version = ledger.anchorVersion[g]
    /\ pending' = pending \cup {[kind |-> "anchor", name |-> g, anchor |-> job[j].anchor, version |-> job[j].got.version]}
    /\ Advance(j, "ran", None)
    /\ UNCHANGED <<spec, configtx, block, copy, results, ledger, joined, pass, status, spent>>

publishAnchorPeerUpdateResult(g) ==
    /\ Running(AnchorJob(g), "ran")
    /\ anchorResult' = [anchorResult EXCEPT ![g] = job[AnchorJob(g)].anchor]
    /\ Finish(AnchorJob(g))
    /\ UNCHANGED <<spec, configtx, block, copy, ordererResult, peerResult, addResult, submitResult,
                   fabric, pass, status>>

addLocalOrg(k) ==
    /\ Running(AddJob(k), "start")
    /\ k[1] \in ledger.members
    /\ Advance(AddJob(k), "ran",
               [outcome |-> IF k[2] \in ledger.members THEN "alreadyApplied" ELSE "staged",
                version |-> ledger.version])
    /\ UNCHANGED <<spec, configtx, block, copy, results, fabric, pass, status, spent>>

publishLocalOrgAddResult(k) ==
    /\ Running(AddJob(k), "ran")
    /\ addResult' = [addResult EXCEPT ![k] = job[AddJob(k)].got]
    /\ Finish(AddJob(k))
    /\ UNCHANGED <<spec, configtx, block, copy, ordererResult, peerResult, anchorResult, submitResult,
                   fabric, pass, status>>

\* The envelope e has to carry the proposal that was staged for g at version v.
SignedMatches(k) == k[4].version = k[3]
Accepted(k) == k[4].enough /\ k[3] = ledger.version

signedChannelUpdate(k) ==
    /\ Running(SubmitJob(k), "start")
    /\ SignedMatches(k)
    /\ k[1] \in ledger.members
    /\ IF k[2] \in ledger.members
       THEN Advance(SubmitJob(k), "ran", None) /\ UNCHANGED pending
       ELSE /\ Accepted(k)
            /\ pending' = pending \cup {[kind |-> "member", name |-> k[2], anchor |-> None, version |-> k[3]]}
            /\ Advance(SubmitJob(k), "sent", None)
    /\ UNCHANGED <<spec, configtx, block, copy, results, ledger, joined, pass, status, spent>>

\* Mutant of observeMembership: an update that was accepted is taken for committed.
observeMembership_accepted(k) ==
    /\ Running(SubmitJob(k), "sent")
    /\ Advance(SubmitJob(k), "ran", None)
    /\ UNCHANGED <<spec, configtx, block, copy, results, fabric, pass, status, spent>>

observeMembership(k) ==
    /\ Running(SubmitJob(k), "sent")
    /\ k[2] \in ledger.members
    /\ Advance(SubmitJob(k), "ran", None)
    /\ UNCHANGED <<spec, configtx, block, copy, results, fabric, pass, status, spent>>

publishSignedUpdateResult(k) ==
    /\ Running(SubmitJob(k), "ran")
    /\ submitResult' = submitResult \cup {k}
    /\ Finish(SubmitJob(k))
    /\ UNCHANGED <<spec, configtx, block, copy, ordererResult, peerResult, anchorResult, addResult,
                   fabric, pass, status>>

PodLost(j) ==
    /\ job[j].state = "active"
    /\ LosePod(j)
    /\ UNCHANGED <<spec, configtx, block, copy, results, fabric, pass, status>>

\* What the scripts cannot get past: a missing MSP directory, a fetch by an
\* organization that is not a member, an update computed from a config that has
\* changed, an envelope that does not match or is not accepted, an accepted
\* update that never commits.  (A wait that ends before a slow update commits is
\* a PodLost.)
AnchorStuck(g) ==
    \/ Running(AnchorJob(g), "start") /\ ledger.members # {} /\ g \notin ledger.members
    \/ Running(AnchorJob(g), "fetched") /\ job[AnchorJob(g)].got.version # ledger.anchorVersion[g]
SubmitStuck(k) ==
    \/ Running(SubmitJob(k), "start") /\ ~SignedMatches(k)
    \/ Running(SubmitJob(k), "start") /\ k[2] \notin ledger.members /\ ~Accepted(k)
    \/ /\ Running(SubmitJob(k), "sent") /\ k[2] \notin ledger.members
       /\ \A u \in pending : u.kind = "member" => u.name # k[2]

PodFails(j) ==
    /\ job' = AfterPod(j)
    /\ UNCHANGED <<spec, configtx, block, copy, results, fabric, pass, status, spent>>
GenerationFails == Running(BlockJob, "start") /\ ~MSPsMounted /\ PodFails(BlockJob)
AnchorFails(g) == AnchorStuck(g) /\ PodFails(AnchorJob(g))
SubmitFails(k) == SubmitStuck(k) /\ PodFails(SubmitJob(k))
-----------------------------------------------------------------------------
(***************************************************************************)
(* The ordering service.                                                   *)
(***************************************************************************)
Current(u) ==
    IF u.kind = "member" THEN u.version = ledger.version
                         ELSE u.version = ledger.anchorVersion[u.name]

Order(u) ==
    /\ ledger' = IF ~Current(u) THEN ledger
                 ELSE IF u.kind = "member"
                 THEN [ledger EXCEPT !.members = @ \cup {u.name}, !.version = @ + 1]
                 ELSE [ledger EXCEPT !.anchors[u.name] = u.anchor, !.anchorVersion[u.name] = @ + 1]
    /\ pending' = pending \ {u}
    /\ UNCHANGED <<spec, kubernetes, results, joined, pass, status, spent>>

Lose(u) ==
    /\ spent.faults < MaxFaults
    /\ spent' = [spent EXCEPT !.faults = @ + 1]
    /\ pending' = pending \ {u}
    /\ UNCHANGED <<spec, kubernetes, results, ledger, joined, pass, status>>
-----------------------------------------------------------------------------
ReconcileStep ==
    \/ StartPass \/ reconcileChannelBlockGeneration \/ channelBlockReadiness
    \/ reconcileOrdererJoins \/ reconcileLocalOrgAdditions \/ reconcileLocalOrgAdd
    \/ reconcilePeerJoins \/ reconcileAnchorPeerUpdates \/ ReportStatus

JobStep ==
    \/ generateChannelBlock \/ publishChannelBlock \/ GenerationFails
    \/ \E o \in OrdererSet : joinOrderer(o) \/ publishOrdererJoinResult(o)
    \/ \E p \in OrgPeer : joinPeer(p) \/ publishPeerJoinResult(p)
    \/ \E g \in Org : \/ fetchForAnchor(g) \/ updateAnchorPeer(g)
                      \/ publishAnchorPeerUpdateResult(g) \/ AnchorFails(g)
    \/ \E k \in AddKey : addLocalOrg(k) \/ publishLocalOrgAddResult(k)
    \/ \E k \in SubmitKey : \/ signedChannelUpdate(k) \/ observeMembership(k)
                            \/ publishSignedUpdateResult(k) \/ SubmitFails(k)

Fault ==
    \/ AwaitComponents \/ AbandonPass
    \/ \E j \in DOMAIN job : PodLost(j)
    \/ \E u \in pending : Lose(u)

Others ==
    \/ \E orgs \in Declaration : EditOrgs(orgs)
    \/ \E g \in Org, e \in Envelope : SetSignedUpdateRef(g, e)
    \/ \E j \in DOMAIN job : DeleteFailedJob(j)
    \/ OtherMembershipChange
    \/ \E u \in pending : Order(u)

Next == ReconcileStep \/ JobStep \/ Fault \/ Others

Spec == Init /\ [][Next]_vars

\* The controller is requeued every ten seconds while a channel is not ready;
\* Kubernetes runs the Pods of a Job to their end; an update that an orderer
\* accepted is ordered unless it is lost.
Fairness ==
    /\ WF_vars(ReconcileStep)
    /\ WF_vars(generateChannelBlock \/ publishChannelBlock \/ GenerationFails)
    /\ \A o \in OrdererSet : WF_vars(joinOrderer(o) \/ publishOrdererJoinResult(o))
    /\ \A p \in OrgPeer : WF_vars(joinPeer(p) \/ publishPeerJoinResult(p))
    /\ \A g \in Org : WF_vars(\/ fetchForAnchor(g) \/ updateAnchorPeer(g)
                              \/ publishAnchorPeerUpdateResult(g) \/ AnchorFails(g))
    /\ \A k \in AddKey : WF_vars(addLocalOrg(k) \/ publishLocalOrgAddResult(k))
    /\ \A k \in SubmitKey : WF_vars(\/ signedChannelUpdate(k) \/ observeMembership(k)
                                    \/ publishSignedUpdateResult(k) \/ SubmitFails(k))
    /\ WF_vars(\E u \in pending : Order(u))

FairSpec == Spec /\ Fairness
-----------------------------------------------------------------------------
JobRecord ==
    [state : {"active", "succeeded", "failed"},
     step : {"start", "fetched", "sent", "ran"},
     tries : 0..BackoffLimit, anchor : Peer \cup {None}, msps : SUBSET Org,
     got : Genesis \cup Evidence \cup [version : Nat] \cup {None}]

UpdateRecord ==
    [kind : {"anchor", "member"}, name : Org, anchor : Peer \cup {None}, version : Nat]

ChannelSpec == [orgs : Declaration, signed : [Org -> Envelope \cup {None}]]

\* The variables hold what the API objects of the program can hold.
TypeOK ==
    /\ spec \in ChannelSpec
    /\ configtx \in AnchorMap
    /\ block \in Genesis \cup {None}
    /\ copy \in [Org -> Genesis \cup {None}]
    /\ DOMAIN job \subseteq JobName
    /\ job \in [DOMAIN job -> JobRecord]
    /\ ordererResult \subseteq OrdererSet
    /\ peerResult \subseteq OrgPeer
    /\ anchorResult \in AnchorMap
    /\ addResult \in [AddKey -> Evidence \cup {None}]
    /\ submitResult \subseteq SubmitKey
    /\ ledger \in [members : SUBSET Org, version : Version,
                   anchors : AnchorMap, anchorVersion : [Org -> Nat]]
    /\ joined \in [Node -> Genesis \cup {None}]
    /\ pending \subseteq UpdateRecord
    /\ pass \in [at : {"idle", "generate", "block", "orderers", "receipts", "add", "peers", "anchors", "report"},
                 spec : ChannelSpec \cup {None}, i : Nat, k : Nat, ok : BOOLEAN,
                 admin : Org \cup {None}, todo : Seq(Org)]
    /\ status \in [ready : BOOLEAN, orgs : Declaration \cup {<<>>}]
    /\ spent \in [runs : 0..(MaxFaults + 1), faults : 0..MaxFaults,
                  deletes : 0..MaxDeletes, other : 0..MaxOther]

\* reconcileLocalOrgAdditions takes an anchor receipt as proof that an
\* organization can administer the channel, and reconcileLocalOrgAdd takes the
\* evidence of an addition or of a signed submission as proof of admission:
\* whoever such a ConfigMap names is a member of the channel.
EvidenceIsMembership ==
    /\ \A g \in Org : anchorResult[g] # None => g \in ledger.members
    /\ \A k \in AddKey :
          addResult[k] # None =>
             /\ k[1] \in ledger.members
             /\ addResult[k].outcome = "alreadyApplied" => k[2] \in ledger.members
    /\ \A k \in submitResult : k[2] \in ledger.members

\* reconcileChannels reports a channel ready only when every organization it
\* was asked for is in the channel config and each of its peers, and every
\* orderer, has joined.
ReadyMeansAdmitted ==
    status.ready =>
       /\ Names(status.orgs) \subseteq ledger.members
       /\ \A p \in PeerNames(status.orgs) : joined[p] # None
       /\ \A o \in OrdererSet : joined[o] # None

\* reconcileLocalOrgAdditions holds peer joins and anchor updates back: no such
\* Job exists for an organization that is not in the channel config.
AdmissionGate ==
    \A g \in Org :
       (AnchorJob(g) \in DOMAIN job \/ \E n \in Peer : PeerJob(<<g, n>>) \in DOMAIN job)
       => g \in ledger.members

\* Results outlive Jobs: while the status says that a declaration is ready, no
\* pass over it creates a Job, whatever cleanupSucceededJobs has deleted.
NoRework ==
    [][status.ready /\ ~At("idle") /\ status.orgs = Declared => DOMAIN job' \subseteq DOMAIN job]_vars

\* The channel block that peers and orderers are given never changes once it
\* has been published.
BlockIsKept == [][block # None => block' = block]_vars

\* An organization whose peers joined before it was admitted, and that stays
\* declared, has its admission staged.
AdmissionIsStaged ==
    \A g \in Org :
       (/\ g \in Names(spec.orgs) \ ledger.members
        /\ \E n \in Peer : joined[<<g, n>>] # None)
       ~> \/ g \in ledger.members
          \/ \E a \in Org : <<a, g>> \in AddKey /\ addResult[<<a, g>>] # None
          \/ g \notin Names(spec.orgs)

\* The current proposal of an organization was handed back with enough
\* signatures.
Signed(g) ==
    \E a \in Org : /\ <<a, g>> \in AddKey /\ addResult[<<a, g>>] # None
                   /\ spec.signed[g] = [name |-> g, version |-> addResult[<<a, g>>].version, enough |-> TRUE]

\* Once the declaration is left alone, with every organization a member that
\* has no envelope or one whose current proposal is signed, the channel comes
\* up: reconcileChannels reports it ready for that declaration, although a Pod
\* or an accepted update was lost before.
BootstrapCompletes ==
    /\ <>[][UNCHANGED spec]_vars
    /\ <>[](\A g \in Names(spec.orgs) :
              Signed(g) \/ (g \in ledger.members /\ spec.signed[g] = None))
    => <>[](status = [ready |-> TRUE, orgs |-> spec.orgs])
=============================================================================
