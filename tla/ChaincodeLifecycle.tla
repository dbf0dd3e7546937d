------------------------- MODULE ChaincodeLifecycle -------------------------
(***************************************************************************)
(* The lifecycle of one chaincode on one channel: the package of every     *)
(* organization, its installation on every peer, the server workload next  *)
(* to the peer, the approval by every organization and the commit.  The    *)
(* founding network acts through reconcileChaincodes, an organization that *)
(* joined from another cluster (a guest) through                           *)
(* reconcileParticipantChaincode; both run the same install and approve    *)
(* scripts.                                                                *)
(*                                                                         *)
(* A pass works on the declaration it read when it started; each peer is   *)
(* one action, and so are the commit and the report.  Package, approval    *)
(* and commit results are kept under names made of the package label, the  *)
(* package and a hash of the definition; TLS is on, so that the commit is  *)
(* sent to every peer.                                                     *)
(***************************************************************************)
EXTENDS Jobs, Sequences, Functions, FiniteSets

CONSTANTS
    Org,              \* organizations of the channel
    Guest,            \* those that are managed elsewhere, by a FabricParticipant
    Peer,             \* names of peers
    GuestPeers,       \* the peers of a guest, in the order it declares them
    Network,          \* the FabricNetwork, as the one whose channel is ready or not
    Declared,         \* values of spec: chaincode, local organizations and guests of the channel
    Edit,             \* pairs of declarations: the edits users make
    GuestEdit,        \* pairs of chaincodes: the edits of a FabricParticipant
    Initial,          \* first declarations of both, with a bound on the faults: Pods that are
                      \* lost or give up on a transaction, lost transactions, failed passes
    MaxSequence       \* bound: largest sequence that is declared

VARIABLES
    spec,             \* the chaincode of the FabricNetwork, the channel's organizations, the Job TTL
    guestSpec,        \* the chaincode of the FabricParticipants, by guest
    channelReady,     \* what the channel step of the two controllers finds
    package,          \* the package ConfigMap of an organization
    collections,      \* the collections ConfigMap of an organization
    packageID,        \* the package ID ConfigMap, by organization, peer and label
    approveResult, commitResult,
    job,              \* the Jobs that exist
    workload,         \* the Deployment next to a peer: what it should run, and its Pods
    installed,        \* the packages a peer holds
    approved,         \* what an organization has approved, by sequence
    committed,        \* the definition in force, of sequence 0 before the first
    pending,          \* transactions accepted and not yet ordered
    pass,             \* the network controller
    status, guestStatus,
    faults            \* how many faults may still happen

specs == <<spec, guestSpec, channelReady>>
configMaps == <<package, collections>>
results == <<packageID, approveResult, commitResult>>
ledger == <<approved, committed, pending>>
founder == <<pass, status>>
vars == <<specs, configMaps, results, job, workload, installed, ledger, founder, guestStatus, faults>>
-----------------------------------------------------------------------------
OrgPeer == Org \X Peer
Local == Org \ Guest
Names(orgs) == {orgs[i].name : i \in DOMAIN orgs}
Targets(orgs) ==
    {t \in OrgPeer : \E i \in DOMAIN orgs : t[1] = orgs[i].name /\ t[2] \in Range(orgs[i].peers)}

\* The first peer of an organization approves for it.
chaincodeApprovalPeers(orgs) == {<<orgs[i].name, orgs[i].peers[1]>> : i \in DOMAIN orgs}

Package(cc) == [label |-> cc.label, content |-> cc.content]

\* A policy that is not declared is derived from the organizations of the
\* channel; a FabricParticipant leaves it out, and the collections too.
chaincodeEndorsementPolicy(s) == IF s.cc.policy # None THEN {s.cc.policy} ELSE Names(s.orgs)
Definition(cc, policy, coll) ==
    [version |-> cc.version, seq |-> cc.seq, policy |-> policy, collections |-> coll]
DefinitionOf(s) == Definition(s.cc, chaincodeEndorsementPolicy(s), s.cc.collections)
GuestDefinitionOf(cc) == Definition(cc, IF cc.policy # None THEN {cc.policy} ELSE {}, None)
NoDefinition == [version |-> None, seq |-> 0, policy |-> {}, collections |-> None]

\* The hash in the names covers what is declared of the definition: not the
\* version, and not a policy that is derived.
chaincodeDefinitionNameHash(cc) == <<cc.seq, cc.policy, cc.collections>>

InstallJob(t, label) == <<"install", t[1], t[2], label>>
ApproveJob(g, pkg, cc) == <<"approve", g, pkg, chaincodeDefinitionNameHash(cc)>>
CommitJob(g, pkg, cc) == <<"commit", g, pkg, chaincodeDefinitionNameHash(cc)>>

Chaincodes == {s.cc : s \in Declared} \cup {i.guest : i \in Initial} \cup {e[2] : e \in GuestEdit}
Labels == {cc.label : cc \in Chaincodes}
Packages == {Package(cc) : cc \in Chaincodes}
InstallKey == {InstallJob(t, l) : t \in OrgPeer, l \in Labels}
ApproveKey == {ApproveJob(g, pkg, cc) : g \in Org, pkg \in Packages, cc \in Chaincodes}
CommitKey == {CommitJob(g, pkg, cc) : g \in Local, pkg \in Packages, cc \in Chaincodes}
Sequence == 1..MaxSequence

\* What an organization approves, and the transactions of approvals and commits.
Definitions ==
    [version : {cc.version : cc \in Chaincodes}, seq : Sequence,
     policy : SUBSET (Org \cup {cc.policy : cc \in Chaincodes}),
     collections : {cc.collections : cc \in Chaincodes} \cup {None}]
Approval == [def : Definitions, pkg : Packages]
Transaction == [kind : {"approve", "commit"}, org : Org, def : Definitions, pkg : Packages,
                orgs : SUBSET Org, base : Sequence \cup {0}]

ASSUME NoneIsNoValue == None \notin Packages \cup Approval \cup Transaction

ASSUME BoundsAreNatural == MaxSequence \in Nat /\ BackoffLimit \in Nat

\* What is declared: the organizations of this network, each with its peers.
ASSUME DeclarationsAreWellFormed ==
    /\ Guest \subseteq Org
    /\ Network \notin Guest
    /\ GuestPeers \in Seq(Peer) \ {<<>>}
    /\ \A s \in Declared :
          /\ s.orgs \in Seq([name : Local, peers : Seq(Peer) \ {<<>>}]) \ {<<>>}
          /\ s.guests \subseteq Guest
          /\ s.cleanup \in BOOLEAN
    /\ \A i \in Initial : i.spec \in Declared /\ i.faults \in Nat
    /\ \A cc \in Chaincodes : cc.seq \in Sequence

Idle == [at |-> "idle", spec |-> None, ready |-> FALSE, i |-> 1, k |-> 1, pkg |-> None,
         approved |-> TRUE, running |-> 0]
NoWorkload == [wants |-> None, pods |-> "none"]
NotReady(s) == [spec |-> s, committed |-> FALSE, ready |-> FALSE]
GuestNotReady(cc) == [cc |-> cc, ready |-> FALSE]

Init ==
    /\ \E i \in Initial : /\ spec = i.spec
                         /\ guestSpec = [g \in Guest |-> i.guest]
                         /\ faults = i.faults
    /\ channelReady = [c \in Guest \cup {Network} |-> FALSE]
    /\ package = [g \in Org |-> None]
    /\ collections = [g \in Org |-> None]
    /\ packageID = [k \in InstallKey |-> None]
    /\ approveResult = [k \in ApproveKey |-> 0]
    /\ commitResult = [k \in CommitKey |-> 0]
    /\ job = <<>>
    /\ workload = [t \in OrgPeer |-> NoWorkload]
    /\ installed = [t \in OrgPeer |-> {}]
    /\ approved = [g \in Org |-> [n \in Sequence |-> None]]
    /\ committed = NoDefinition
    /\ pending = {}
    /\ pass = Idle
    /\ status = NotReady(spec)
    /\ guestStatus = [g \in Guest |-> GuestNotReady(guestSpec[g])]
-----------------------------------------------------------------------------
(* Users and the rest of the two controllers. *)

\* A new organization has to join before the channel is ready again.
EditSpec ==
    /\ \E s \in Declared :
          /\ <<spec, s>> \in Edit
          /\ spec' = s
          /\ channelReady' = [channelReady EXCEPT ![Network] = @ /\ s.orgs = spec.orgs]
    /\ UNCHANGED <<guestSpec, configMaps, results, job, workload, installed, ledger, founder, guestStatus, faults>>

EditGuest(g) ==
    /\ \E cc \in Chaincodes : <<guestSpec[g], cc>> \in GuestEdit /\ guestSpec' = [guestSpec EXCEPT ![g] = cc]
    /\ UNCHANGED <<spec, channelReady, configMaps, results, job, workload, installed, ledger, founder, guestStatus, faults>>

ChannelBecomesReady(c) ==
    /\ ~channelReady[c]
    /\ c = Network \/ c \in spec.guests
    /\ channelReady' = [channelReady EXCEPT ![c] = TRUE]
    /\ UNCHANGED <<spec, guestSpec, configMaps, results, job, workload, installed, ledger, founder, guestStatus, faults>>

\* The remedy for a failed Job, which nothing else removes.
DeleteFailedJob(j) ==
    /\ jobFailed(job, j)
    /\ job' = Without(job, {j})
    /\ UNCHANGED <<specs, configMaps, results, workload, installed, ledger, founder, guestStatus, faults>>

\* A rolling update of one replica: the old Pod stays until the new one is ready.
\*   "none"   no Pod is ready               "old"   the new template is not taken up yet
\*   "surge"  the new Pod is not ready      "both"  both are      "new"  the old one is gone
RollOut(t) ==
    /\ workload[t].wants # None
    /\ \E step \in {<<"none", "new">>, <<"old", "surge">>, <<"surge", "both">>, <<"both", "new">>} :
          workload[t].pods = step[1] /\ workload' = [workload EXCEPT ![t].pods = step[2]]
    /\ UNCHANGED <<specs, configMaps, results, job, installed, ledger, founder, guestStatus, faults>>
-----------------------------------------------------------------------------
(* The founding network: reconcileChaincodes. *)

StartPass ==
    /\ pass.at = "idle"
    /\ pass' = [Idle EXCEPT !.at = "targets", !.spec = spec, !.ready = channelReady[Network]]
    /\ UNCHANGED <<specs, configMaps, results, job, workload, installed, ledger, status, guestStatus, faults>>


\* The workload follows the installed package at once, whatever is committed.
ensureChaincodeWorkload(w, id) ==
    IF w.wants = id THEN w
    ELSE [wants |-> id, pods |-> IF w.pods = "none" THEN "none" ELSE "old"]

\* deploymentWorkloadStatus: all ready replicas, old ones included, once the template
\* is taken up, its Pod is there and enough Pods are available.
readyReplicas(w) == CASE w.pods \in {"none", "old"} -> 0 [] w.pods \in {"surge", "new"} -> 1
                      [] w.pods = "both" -> 2

chaincodeLifecycleResultReadiness(result, seq) == result = seq

\* The package ID that was published for the label, None while there is none.
chaincodeInstallReadiness(t, cc) == packageID[InstallJob(t, cc.label)]
chaincodeApproveReadiness(approve, seq) == chaincodeLifecycleResultReadiness(approveResult[approve], seq)

\* One collections ConfigMap per organization, rewritten for every definition.
ensureChaincodeCollections(g, cc) ==
    [collections EXCEPT ![g] = IF cc.collections = None THEN @ ELSE cc.collections]

\* The organization whose peers the pass is at.
Entry == pass.spec.orgs[pass.i]

ApproveArg(s, pkg) == [def |-> DefinitionOf(s), pkg |-> pkg]

\* One peer: the package and collections ConfigMaps of its organization, the
\* installation, the workload and, on the approval peer, the approval.  The replicas
\* are counted from the cache, which may not have what the pass just wrote.
ReconcileTarget ==
    /\ pass.at = "targets"
    /\ pass.i <= Len(pass.spec.orgs)
    /\ LET s == pass.spec
           g == Entry.name
           t == <<g, Entry.peers[pass.k]>>
           isLast == pass.k = Len(Entry.peers)
           install == InstallJob(t, s.cc.label)
           id == chaincodeInstallReadiness(t, s.cc)
           isInstalled == pass.ready /\ id # None
           approve == ApproveJob(g, id, s.cc)
           approves == t \in chaincodeApprovalPeers(s.orgs)
           isApproved == isInstalled /\ chaincodeApproveReadiness(approve, s.cc.seq)
           ensured == ensureChaincodeWorkload(workload[t], id)
       IN  /\ package' = [package EXCEPT ![g] = Package(s.cc)]
           /\ collections' = ensureChaincodeCollections(g, s.cc)
           /\ workload' = IF isInstalled THEN [workload EXCEPT ![t] = ensured] ELSE workload
           /\ job' = IF ~pass.ready THEN job
                     ELSE IF ~isInstalled THEN ensureJob(job, install, s.cc.label)
                     ELSE IF approves /\ ~isApproved THEN ensureJob(job, approve, ApproveArg(s, id))
                     ELSE job
           /\ \E seen \in {workload[t], ensured} :
                 pass' = [pass EXCEPT !.i = IF isLast THEN @ + 1 ELSE @,
                                      !.k = IF isLast THEN 1 ELSE @ + 1,
                                      !.pkg = IF @ = None /\ isInstalled THEN id ELSE @,
                                      !.approved = @ /\ pass.ready /\ (approves => isApproved),
                                      !.running = IF isInstalled THEN @ + readyReplicas(seen) ELSE @]
    /\ UNCHANGED <<specs, results, installed, ledger, status, guestStatus, faults>>

\* Workloads of local peers that are no longer targets.
cleanupRemovedChaincodeWorkloads(s) ==
    [t \in OrgPeer |-> IF t[1] \in Local /\ t \notin Targets(s.orgs)
                       THEN NoWorkload ELSE workload[t]]

\* Every local peer and the anchor peers of the guests endorse.
chaincodeLifecyclePeers(s) == Names(s.orgs) \cup s.guests

CommitArg(s) == [def |-> DefinitionOf(s), orgs |-> chaincodeLifecyclePeers(s)]

\* Mutant of ApprovedReady: the commit does not wait for the approvals.
ApprovedReady_skip == pass.pkg # None
ApprovedReady == pass.approved

\* Mutant of chaincodeCommitReadiness: the Job is taken for the commit.
chaincodeCommitReadiness_job(commit, seq) == commit \in DOMAIN job
chaincodeCommitReadiness(commit, seq) == chaincodeLifecycleResultReadiness(commitResult[commit], seq)

\* The commit Job, in the namespace of the first organization, until its result is there.
CommitOf(s, pkg) == CommitJob(s.orgs[1].name, pkg, s.cc)
reconcileChaincodeCommit(s, pkg) ==
    IF chaincodeCommitReadiness(CommitOf(s, pkg), s.cc.seq) THEN job
    ELSE ensureJob(job, CommitOf(s, pkg), CommitArg(s))

\* Replicas are summed over the peers, and compared with one for each of them.
WorkloadsReady == pass.running >= Cardinality(Targets(pass.spec.orgs))

cleanupSucceededJobs(jobs) == Without(jobs, {j \in DOMAIN jobs : j[2] \in Local /\ jobSucceeded(jobs, j)})

\* The end of a pass: removed workloads, the commit once every local
\* organization has approved, the status, and the cleanup of succeeded Jobs.
FinishPass ==
    /\ pass.at = "targets"
    /\ pass.i > Len(pass.spec.orgs)
    /\ LET s == pass.spec
           isCommitted == ApprovedReady /\ chaincodeCommitReadiness(CommitOf(s, pass.pkg), s.cc.seq)
           jobs == IF ApprovedReady THEN reconcileChaincodeCommit(s, pass.pkg) ELSE job
       IN  /\ job' = IF s.cleanup THEN cleanupSucceededJobs(jobs) ELSE jobs
           /\ workload' = cleanupRemovedChaincodeWorkloads(s)
           /\ status' = [spec |-> s, committed |-> isCommitted, ready |-> isCommitted /\ WorkloadsReady]
    /\ pass' = Idle
    /\ UNCHANGED <<specs, configMaps, results, installed, ledger, guestStatus, faults>>

\* A pass ends with an error (a call fails, or the artifact of an external organization
\* is not there when its peers are looked up for the commit) or the process dies.
FailPass ==
    /\ pass.at = "targets"
    /\ faults > 0
    /\ faults' = faults - 1
    /\ pass' = Idle
    /\ status' \in {status, NotReady(pass.spec)}
    /\ \/ UNCHANGED workload
       \/ pass.i > Len(pass.spec.orgs) /\ workload' = cleanupRemovedChaincodeWorkloads(pass.spec)
    /\ UNCHANGED <<specs, configMaps, results, job, installed, ledger, guestStatus>>
-----------------------------------------------------------------------------
(* A guest: reconcileParticipantChaincode, for all its peers.  The pass is one *)
(* action: what it reads and writes belongs to its own organization.           *)

ensureParticipantChaincodePackageConfigMap(g, cc) == [package EXCEPT ![g] = Package(cc)]

reconcileParticipantChaincodeApproval(g, cc, pkg) ==
    IF chaincodeApproveReadiness(ApproveJob(g, pkg, cc), cc.seq) THEN job
    ELSE ensureJob(job, ApproveJob(g, pkg, cc), [def |-> GuestDefinitionOf(cc), pkg |-> pkg])

GuestPass(g) ==
    /\ channelReady[g]
    /\ LET cc == guestSpec[g]
           ts == [i \in DOMAIN GuestPeers |-> <<g, GuestPeers[i]>>]
           id == [t \in Range(ts) |-> chaincodeInstallReadiness(t, cc)]
           missing == {t \in Range(ts) : id[t] = None}
           pkg == id[ts[1]]
           isApproved == missing = {} /\ chaincodeApproveReadiness(ApproveJob(g, pkg, cc), cc.seq)
       IN  /\ package' = ensureParticipantChaincodePackageConfigMap(g, cc)
           /\ workload' = [t \in OrgPeer |->
                  IF t \in Range(ts) \ missing THEN ensureChaincodeWorkload(workload[t], id[t]) ELSE workload[t]]
           /\ job' = IF missing = {} THEN reconcileParticipantChaincodeApproval(g, cc, pkg)
                     ELSE ensureJobs(job, {InstallJob(t, cc.label) : t \in missing}, cc.label)
           /\ \E stale \in SUBSET Range(ts) :
                 guestStatus' = [guestStatus EXCEPT ![g] =
                    [cc |-> cc,
                     ready |-> /\ isApproved
                               /\ \A t \in Range(ts) :
                                     readyReplicas(IF t \in stale THEN workload[t] ELSE workload'[t]) > 0]]
    /\ UNCHANGED <<specs, collections, results, installed, ledger, founder, faults>>
-----------------------------------------------------------------------------
(* Fabric's lifecycle system chaincode, as the scripts meet it. *)

\* queryapproved without a sequence: the approval of the next definition when
\* there is one, else the approval of the one in force; 0 when there is neither.
queryapproved(g) ==
    LET Has(n) == n \in Sequence /\ approved[g][n] # None
    IN  IF Has(committed.seq + 1) THEN committed.seq + 1
        ELSE IF Has(committed.seq) THEN committed.seq ELSE 0

\* approveformyorg takes the next sequence, unless nothing would change, and
\* the one in force when the definition is that one.
Approvable(g, def, pkg) ==
    \/ def.seq = committed.seq + 1 /\ approved[g][def.seq] # [def |-> def, pkg |-> pkg]
    \/ def.seq = committed.seq /\ def = committed

\* commit takes the next sequence once every endorser has approved this definition.
Committable(def, orgs) ==
    /\ def.seq = committed.seq + 1
    /\ \A g \in orgs : approved[g][def.seq] # None /\ approved[g][def.seq].def = def

\* A transaction is valid when what its simulation read still stands.
Order(tx) ==
    /\ tx \in pending
    /\ pending' = pending \ {tx}
    /\ IF tx.base # committed.seq THEN UNCHANGED <<approved, committed>>
       ELSE \/ /\ tx.kind = "approve"
               /\ approved' = [approved EXCEPT ![tx.org][tx.def.seq] = [def |-> tx.def, pkg |-> tx.pkg]]
               /\ UNCHANGED committed
            \/ /\ tx.kind = "commit"
               /\ committed' = IF Committable(tx.def, tx.orgs) THEN tx.def ELSE committed
               /\ UNCHANGED approved
    /\ UNCHANGED <<specs, configMaps, results, job, workload, installed, founder, guestStatus, faults>>

\* A transaction the orderer accepted and lost.
Lose(tx) ==
    /\ tx \in pending
    /\ faults > 0
    /\ faults' = faults - 1
    /\ pending' = pending \ {tx}
    /\ UNCHANGED <<specs, configMaps, results, job, workload, installed, approved, committed, founder, guestStatus>>
-----------------------------------------------------------------------------
(* The Jobs.  The package and the collections are mounted when a Pod starts; *)
(* the rest of the definition is part of the script.                        *)

Mounted(j) ==
    LET def == job[j].arg.def
    IN  [def EXCEPT !.collections = IF @ = None THEN None ELSE collections[j[2]]]
ApproveTx(j, def) == [kind |-> "approve", org |-> j[2], def |-> def, pkg |-> job[j].arg.pkg,
                      orgs |-> {}, base |-> committed.seq]
CommitTx(j, def) == [kind |-> "commit", org |-> j[2], def |-> def, pkg |-> j[3],
                     orgs |-> job[j].arg.orgs, base |-> committed.seq]

\* A package of that label that the peer already holds is taken for the one asked for.
installChaincodePackage(j) ==
    LET t == <<j[2], j[3]>>
        held == {p \in installed[t] : p.label = job[j].arg}
    IN  /\ Running(job, j, "start")
        /\ package[t[1]] # None /\ package[t[1]].label = job[j].arg
        /\ installed' = IF held = {} THEN [installed EXCEPT ![t] = {package[t[1]]} \cup @] ELSE installed
        /\ \E p \in IF held = {} THEN {package[t[1]]} ELSE held : job' = Advanced(job, j, "done", p)

Install(j) ==
    /\ j[1] = "install"
    /\ \/ installChaincodePackage(j) /\ UNCHANGED packageID
       \/ /\ Running(job, j, "done")
          /\ packageID' = [packageID EXCEPT ![j] = job[j].got]
          /\ job' = Succeeded(job, j)
          /\ UNCHANGED installed
    /\ UNCHANGED <<specs, configMaps, approveResult, commitResult, workload, ledger, founder, guestStatus, faults>>

\* Mutant of AlreadyApproved: the script approves again.
AlreadyApproved_never(j) == FALSE
AlreadyApproved(j) == queryapproved(j[2]) = job[j].arg.def.seq

approveChaincodeDefinition(j) ==
    LET def == Mounted(j)
    IN  /\ Running(job, j, "start")
        /\ IF AlreadyApproved(j) THEN job' = Advanced(job, j, "wait", None) /\ UNCHANGED pending
           ELSE IF Approvable(j[2], def, job[j].arg.pkg)
           THEN /\ pending' = pending \cup {ApproveTx(j, def)}
                /\ job' = Advanced(job, j, "wait", ApproveTx(j, def))
           ELSE job' = AfterPod(job, j) /\ UNCHANGED pending

\* The client waits for the transaction; an invalid one fails the Pod.
Effective(tx) ==
    \/ tx = None
    \/ tx # None /\ tx.kind = "approve" /\ approved[tx.org][tx.def.seq] = [def |-> tx.def, pkg |-> tx.pkg]
    \/ tx # None /\ tx.kind = "commit" /\ committed.seq >= tx.def.seq

\* Mutant of Awaited: the client does not wait for its transaction.
Awaited_not(j, P) == Running(job, j, "wait")
Awaited(j, P) == Running(job, j, "wait") /\ job[j].got \notin pending /\ Effective(job[j].got) = P

Approve(j) ==
    /\ j[1] = "approve"
    /\ \/ approveChaincodeDefinition(j) /\ UNCHANGED approveResult
       \/ /\ Awaited(j, TRUE)
          /\ approveResult' = [approveResult EXCEPT ![j] = queryapproved(j[2])]
          /\ job' = Succeeded(job, j)
          /\ UNCHANGED pending
    /\ UNCHANGED <<specs, configMaps, packageID, commitResult, workload, installed, approved, committed,
                   founder, guestStatus, faults>>

commitChaincodeDefinition(j) ==
    LET def == Mounted(j)
    IN  /\ Running(job, j, "start")
        /\ IF committed.seq = def.seq THEN job' = Advanced(job, j, "wait", None) /\ UNCHANGED pending
           ELSE IF Committable(def, job[j].arg.orgs)
           THEN /\ pending' = pending \cup {CommitTx(j, def)}
                /\ job' = Advanced(job, j, "wait", CommitTx(j, def))
           ELSE job' = AfterPod(job, j) /\ UNCHANGED pending

Commit(j) ==
    /\ j[1] = "commit"
    /\ \/ commitChaincodeDefinition(j) /\ UNCHANGED commitResult
       \/ /\ Awaited(j, TRUE)
          /\ commitResult' = [commitResult EXCEPT ![j] = committed.seq]
          /\ job' = Succeeded(job, j)
          /\ UNCHANGED pending
    /\ UNCHANGED <<specs, configMaps, packageID, approveResult, workload, installed, approved, committed,
                   founder, guestStatus, faults>>

InvalidTransaction(j) ==
    /\ j[1] \in {"approve", "commit"}
    /\ Awaited(j, FALSE)
    /\ job' = AfterPod(job, j)
    /\ UNCHANGED <<specs, configMaps, results, workload, installed, ledger, founder, guestStatus, faults>>

LosePod(j) ==
    /\ j \in DOMAIN job /\ job[j].state = "active"
    /\ faults > 0
    /\ faults' = faults - 1
    /\ job' = AfterPod(job, j)
    /\ UNCHANGED <<specs, configMaps, results, workload, installed, ledger, founder, guestStatus>>
-----------------------------------------------------------------------------
Controllers ==
    \/ StartPass \/ ReconcileTarget \/ FinishPass \/ FailPass
    \/ \E g \in Guest : GuestPass(g)

Step(j) == Install(j) \/ Approve(j) \/ Commit(j) \/ InvalidTransaction(j)
Pods == \E j \in DOMAIN job : Step(j)

Cluster == \/ \E c \in DOMAIN channelReady : ChannelBecomesReady(c)
           \/ \E t \in OrgPeer : RollOut(t)
           \/ \E tx \in pending : Order(tx)

Next ==
    \/ Controllers \/ Pods \/ Cluster
    \/ EditSpec
    \/ \E g \in Guest : EditGuest(g)
    \/ \E j \in DOMAIN job : DeleteFailedJob(j) \/ LosePod(j)
    \/ \E tx \in pending : Lose(tx)

Spec == Init /\ [][Next]_vars

\* Both controllers requeue, Pods run, the orderer orders, Deployments roll
\* out, and somebody deletes the Jobs that failed for good.
FairSpec ==
    /\ Spec
    /\ WF_vars(StartPass \/ ReconcileTarget \/ FinishPass)
    /\ \A g \in Guest : WF_vars(GuestPass(g))
    /\ \A g \in Org : WF_vars(\E j \in DOMAIN job : j[2] = g /\ (Step(j) \/ DeleteFailedJob(j)))
    /\ WF_vars(\E tx \in pending : Order(tx))
    /\ WF_vars(\E t \in OrgPeer : RollOut(t))
-----------------------------------------------------------------------------
\* A chaincode that status calls committed is on the channel with the declared
\* version, policy and collections (reconcileChaincodeCommit compares sequences only).
DefinitionIsDeclared ==
    status.committed =>
        /\ committed.seq >= status.spec.cc.seq
        /\ committed.seq = status.spec.cc.seq => committed = DefinitionOf(status.spec)

\* The package the organization of t approved at that sequence is on the peer, and is
\* what the Deployment w is to run.
DeploysApproved(w, t, seq) ==
    LET a == approved[t[1]][seq]
    IN  a # None /\ a.pkg \in installed[t] /\ w.wants = a.pkg


\* A commit Job is created only when every local organization has approved the
\* very definition it commits (status.ApprovedReady in reconcileChaincodes).
CommitFollowsApprovals ==
    [][\A j \in (DOMAIN job' \ DOMAIN job) \cap CommitKey :
          \A g \in Names(pass.spec.orgs) :
             LET a == approved[g][pass.spec.cc.seq]
             IN  a # None /\ a.def = job'[j].arg.def]_vars

\* A Job that succeeded has left the result the controllers look for: a
\* succeeded Job without it is never run again and would block its chaincode.
SuccessIsEvidence ==
    \A j \in DOMAIN job : jobSucceeded(job, j) =>
        /\ j[1] = "install" => packageID[j] # None
        /\ j[1] = "approve" => approveResult[j] >= job[j].arg.def.seq
        /\ j[1] = "commit" => commitResult[j] >= job[j].arg.def.seq

\* Once the declarations ask for the next sequence and agree with each other, for good,
\* and the channels are ready, both sides become ready, and every local peer has a
\* server that runs the approved package and no older one: whatever Jobs ran too early,
\* were lost or had to be deleted on the way.
LifecycleCompletes ==
    <>[](/\ spec.cc.seq <= committed.seq + 1
         /\ channelReady[Network]
         /\ \A g \in spec.guests : channelReady[g] /\ GuestDefinitionOf(guestSpec[g]) = DefinitionOf(spec))
    => <>(/\ status.ready /\ status.spec = spec /\ \A g \in spec.guests : guestStatus[g].ready
          /\ \A t \in Targets(spec.orgs) :
                DeploysApproved(workload[t], t, spec.cc.seq) /\ workload[t].pods = "new")
=============================================================================
