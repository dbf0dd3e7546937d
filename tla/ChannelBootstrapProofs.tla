----------------------- MODULE ChannelBootstrapProofs -----------------------
(***************************************************************************)
(* The safety of ChannelBootstrap for any organizations, peers, orderers,  *)
(* declarations and edits, and however many faults there are.              *)
(***************************************************************************)
EXTENDS ChannelBootstrap, FiniteSetTheorems, TLAPS

\* How long the provers may take over a step, in seconds.
USE SMTT(20), ZenonT(20)

First == Orderer[1]

\* What the record of Job j holds, by the kind of the Job.
Shaped(j, r) ==
    /\ r \in JobRecord
    /\ r.step # "start" => r.state = "active"
    /\ j[1] = "anchor" => r.anchor \in Peer
    /\ j[1] = "block" /\ r.step # "start" => r.got \in Genesis
    /\ j[1] = "anchor" /\ r.step = "fetched" => r.got \in [version : Nat]
    /\ j[1] = "add" /\ r.step # "start" => r.got \in Evidence

\* What Job j has done so far shows in the channel.
Stands(j, r) ==
    /\ j[1] = "block" /\ r.step = "start" /\ (r.state = "active" \/ block = None)
          => spent.runs <= spent.faults
    /\ j[1] = "orderer" => block # None
    /\ j[1] = "anchor" /\ r.step # "start" => j[2] \in ledger.members
    /\ j[1] = "add" /\ r.step # "start" =>
          /\ j[2][1] \in ledger.members
          /\ r.got.outcome = "alreadyApplied" => j[2][2] \in ledger.members
    /\ j[1] = "submit" /\ r.step = "ran" => j[2][2] \in ledger.members

Jobs == \A j \in DOMAIN job : Shaped(j, job[j]) /\ Stands(j, job[j])

\* An envelope is stored for the organization it names.
Signs(s) == \A g \in Org : s.signed[g] # None => s.signed[g].name = g

Ledger == [members : SUBSET Org, version : Nat, anchors : AnchorMap, anchorVersion : [Org -> Nat]]
Pass ==
    [at : {"idle", "generate", "block", "orderers", "receipts", "add", "peers", "anchors", "report"},
     spec : ChannelSpec \cup {None}, i : Nat \ {0}, k : Nat \ {0}, ok : BOOLEAN,
     admin : Org \cup {None}, todo : Seq(Org)]
Spent == [runs : Nat, faults : 0..MaxFaults, deletes : 0..MaxDeletes, other : 0..MaxOther]

SpecShape == spec \in ChannelSpec /\ Signs(spec)
KubernetesShape ==
    /\ configtx \in AnchorMap
    /\ block \in Genesis \cup {None}
    /\ copy \in [Org -> Genesis \cup {None}]
JobShape == DOMAIN job \subseteq JobName /\ job \in [DOMAIN job -> JobRecord]
ResultShape ==
    /\ ordererResult \subseteq OrdererSet
    /\ peerResult \subseteq OrgPeer
    /\ anchorResult \in AnchorMap
    /\ addResult \in [AddKey -> Evidence \cup {None}]
    /\ submitResult \subseteq SubmitKey
FabricShape ==
    /\ ledger \in Ledger
    /\ joined \in [Node -> Genesis \cup {None}]
    /\ pending \subseteq UpdateRecord
StatusShape == status \in [ready : BOOLEAN, orgs : Declaration \cup {<<>>}]

\* The organizations a pass has sorted out before its position.
Seen(g) == \E m \in DOMAIN Declared : m < pass.i /\ Declared[m].name = g

PassShape ==
    /\ pass \in Pass
    /\ pass.at # "idle" => pass.spec \in ChannelSpec /\ Signs(pass.spec)
    /\ pass.at \in {"orderers", "receipts", "add", "peers", "anchors"} => block # None
    /\ pass.at = "peers" /\ pass.i <= Len(Declared) => pass.k <= Len(Entry.peers)
    /\ pass.at \in {"generate", "block", "orderers"} => pass.todo = <<>> /\ pass.admin = None

\* An organization is either without a receipt or can administer, never both.
PassSorts ==
    /\ pass.at = "receipts" =>
          /\ \A n \in DOMAIN pass.todo : Seen(pass.todo[n])
          /\ pass.admin # None => Seen(pass.admin)
    /\ pass.at \in {"receipts", "add"} => \A n \in DOMAIN pass.todo : pass.todo[n] # pass.admin
    /\ pass.at = "add" => pass.admin \in Org

\* A block is generated again only after a fault.
RunsBound ==
    /\ spent \in Spent
    /\ spent.runs <= spent.faults + 1
    /\ block = None /\ BlockJob \notin DOMAIN job => spent.runs <= spent.faults

\* The config grows with the organizations in it: an update that can still be
\* ordered admits a new one.
ConfigBound ==
    /\ ledger.version <= Cardinality(ledger.members) + spent.other
    /\ joined[First] = None => ledger.members = {} /\ ledger.version = 0
    /\ \A u \in pending : u.kind = "member" =>
          /\ joined[First] # None
          /\ u.version <= ledger.version
          /\ u.version = ledger.version => u.name \notin ledger.members

IInv ==
    /\ SpecShape /\ KubernetesShape /\ JobShape /\ ResultShape /\ FabricShape /\ StatusShape
    /\ PassShape /\ PassSorts /\ Jobs /\ RunsBound /\ ConfigBound /\ EvidenceIsMembership
-----------------------------------------------------------------------------
(* The constants. *)

LEMMA DeclarationIs ==
    ASSUME NEW orgs \in Declaration
    PROVE  /\ Len(orgs) \in Nat /\ DOMAIN orgs = 1..Len(orgs)
           /\ \A i \in DOMAIN orgs :
                 /\ orgs[i].name \in Org
                 /\ orgs[i].peers \in Seq(Peer) /\ Len(orgs[i].peers) \in Nat /\ Len(orgs[i].peers) >= 1
                 /\ DOMAIN orgs[i].peers = 1..Len(orgs[i].peers)
                 /\ \A n \in 1..Len(orgs[i].peers) : orgs[i].peers[n] \in Peer
           /\ \A i, n \in DOMAIN orgs : orgs[i].name = orgs[n].name => i = n
<1>. DEFINE E == [name : Org, peers : Seq(Peer) \ {<<>>}]
<1>1. orgs \in Seq(E)
  BY DeclarationsAreWellFormed, Zenon
<1>2. /\ Len(orgs) \in Nat /\ DOMAIN orgs = 1..Len(orgs)
      /\ \A i \in DOMAIN orgs : orgs[i] \in E
  <2>. HIDE DEF E
  <2>. QED  BY <1>1
<1>3. \A i \in DOMAIN orgs : orgs[i].name \in Org /\ orgs[i].peers \in Seq(Peer) /\ orgs[i].peers # <<>>
  BY <1>2
<1>4. ASSUME NEW q \in Seq(Peer), q # <<>>
      PROVE  /\ Len(q) \in Nat /\ Len(q) >= 1 /\ DOMAIN q = 1..Len(q)
             /\ \A n \in 1..Len(q) : q[n] \in Peer
  BY <1>4
<1>5. \A i, n \in DOMAIN orgs : orgs[i].name = orgs[n].name => i = n
  BY DeclarationsAreWellFormed, Zenon
<1>. QED  BY <1>2, <1>3, <1>4, <1>5, Zenon

LEMMA OrdererIs ==
    /\ Len(Orderer) \in Nat /\ Len(Orderer) >= 1 /\ DOMAIN Orderer = 1..Len(Orderer)
    /\ \A i \in DOMAIN Orderer : Orderer[i] \in OrdererSet
    /\ First \in OrdererSet
    /\ \A o \in OrdererSet : \E i \in DOMAIN Orderer : o = Orderer[i]
<1>1. Orderer \in Seq(OrdererSet) /\ Orderer # <<>>
  BY OrderersAreNodes
<1>. QED  BY <1>1 DEF OrdererSet, Range, First

LEMMA VersionIs == Version \subseteq Nat /\ Cardinality(Org) \in Nat
BY BoundsAreFinite, FS_CardinalityType DEF Version

\* Names of Jobs tell their kind and what they are for.
LEMMA JobNameIs ==
    /\ BlockJob[1] = "block"
    /\ \A o : OrdererJob(o)[1] = "orderer" /\ OrdererJob(o)[2] = o
    /\ \A p : PeerJob(p)[1] = "peer" /\ PeerJob(p)[2] = p
    /\ \A g : AnchorJob(g)[1] = "anchor" /\ AnchorJob(g)[2] = g
    /\ \A k : AddJob(k)[1] = "add" /\ AddJob(k)[2] = k
    /\ \A k : SubmitJob(k)[1] = "submit" /\ SubmitJob(k)[2] = k
BY DEF BlockJob, OrdererJob, PeerJob, AnchorJob, AddJob, SubmitJob

LEMMA JobNameCases ==
    ASSUME NEW j \in JobName
    PROVE  /\ j[1] = "block" => j = BlockJob
           /\ j[1] = "orderer" => j[2] \in OrdererSet /\ j = OrdererJob(j[2])
           /\ j[1] = "peer" => j[2] \in OrgPeer /\ j = PeerJob(j[2])
           /\ j[1] = "anchor" => j[2] \in Org /\ j = AnchorJob(j[2])
           /\ j[1] = "add" => j[2] \in AddKey /\ j = AddJob(j[2])
           /\ j[1] = "submit" => j[2] \in SubmitKey /\ j = SubmitJob(j[2])
BY JobNameIs DEF JobName

LEMMA JobNameHas ==
    /\ BlockJob \in JobName
    /\ \A o \in OrdererSet : OrdererJob(o) \in JobName
    /\ \A p \in OrgPeer : PeerJob(p) \in JobName
    /\ \A g \in Org : AnchorJob(g) \in JobName
    /\ \A k \in AddKey : AddJob(k) \in JobName
    /\ \A k \in SubmitKey : SubmitJob(k) \in JobName
BY DEF JobName
-----------------------------------------------------------------------------
(* The operations on Jobs. *)

GotType == Genesis \cup Evidence \cup [version : Nat] \cup {None}

\* Only Job j changes, to a record with this state and at this step.
Touches(j, state, step, got) ==
    /\ DOMAIN job' = DOMAIN job
    /\ job' \in [DOMAIN job -> JobRecord]
    /\ \A n \in DOMAIN job \ {j} : job'[n] = job[n]
    /\ job'[j].state = state /\ job'[j].step = step /\ job'[j].got = got
    /\ job'[j].anchor = job[j].anchor

LEMMA NewJobIs ==
    ASSUME NEW j, NEW anchor \in Peer \cup {None}
    PROVE  /\ NewJob(j, anchor) \in JobRecord
           /\ NewJob(j, anchor).state = "active" /\ NewJob(j, anchor).step = "start"
           /\ NewJob(j, anchor).anchor = anchor
<1>1. PICK msps \in SUBSET Org :
         msps = IF j = BlockJob THEN channelConfigOrganizations(pass.spec.orgs) ELSE {}
  BY DEF channelConfigOrganizations
<1>2. NewJob(j, anchor) = [state |-> "active", step |-> "start", tries |-> 0, anchor |-> anchor,
                           msps |-> msps, got |-> None]
  BY <1>1, Zenon DEF NewJob
<1>. QED  BY <1>2, BoundsAreFinite DEF JobRecord

LEMMA RemainingJobs ==
    ASSUME job \in [DOMAIN job -> JobRecord], NEW deleted
    PROVE  LET e == Without(deleted)
           IN  /\ DOMAIN e = DOMAIN job \ deleted
               /\ e \in [DOMAIN e -> JobRecord]
               /\ \A n \in DOMAIN e : e[n] = job[n]
BY DEF Without

LEMMA AdvancedJob ==
    ASSUME job \in [DOMAIN job -> JobRecord], NEW j \in DOMAIN job,
           NEW step \in {"start", "fetched", "sent", "ran"}, NEW got \in GotType,
           Advance(j, step, got)
    PROVE  Touches(j, job[j].state, step, got)
<1>. DEFINE r == [job[j] EXCEPT !.step = step, !.got = got]
<1>1. r \in JobRecord /\ r.anchor = job[j].anchor /\ r.state = job[j].state /\ r.step = step /\ r.got = got
  BY Zenon DEF JobRecord, GotType
<1>2. job' = [job EXCEPT ![j] = r]
  BY Zenon DEF Advance
<1>. HIDE DEF r
<1>. QED  BY <1>1, <1>2 DEF Touches

LEMMA SucceededJob ==
    ASSUME job \in [DOMAIN job -> JobRecord], NEW j \in DOMAIN job,
           job' = [job EXCEPT ![j].state = "succeeded", ![j].step = "start", ![j].got = None]
    PROVE  Touches(j, "succeeded", "start", None)
<1>. DEFINE r == [job[j] EXCEPT !.state = "succeeded", !.step = "start", !.got = None]
<1>1. /\ r \in JobRecord /\ r.anchor = job[j].anchor
      /\ r.state = "succeeded" /\ r.step = "start" /\ r.got = None
  BY Zenon DEF JobRecord
<1>2. job' = [job EXCEPT ![j] = r]
  BY Zenon
<1>. HIDE DEF r
<1>. QED  BY <1>1, <1>2 DEF Touches

LEMMA FailedPod ==
    ASSUME job \in [DOMAIN job -> JobRecord], NEW j \in DOMAIN job, job' = AfterPod(j)
    PROVE  Touches(j, job'[j].state, "start", None)
           /\ job'[j].state \in {job[j].state, "failed"}
<1>1. CASE job[j].tries = BackoffLimit
  <2>. DEFINE r == [job[j] EXCEPT !.state = "failed", !.step = "start", !.got = None]
  <2>1. /\ r \in JobRecord /\ r.anchor = job[j].anchor
        /\ r.state = "failed" /\ r.step = "start" /\ r.got = None
    BY Zenon DEF JobRecord
  <2>2. job' = [job EXCEPT ![j] = r]
    BY <1>1, Zenon DEF AfterPod
  <2>. HIDE DEF r
  <2>. QED  BY <2>1, <2>2 DEF Touches
<1>2. CASE job[j].tries # BackoffLimit
  <2>1. job[j].tries + 1 \in 0..BackoffLimit
    BY <1>2, BoundsAreFinite DEF JobRecord
  <2>. DEFINE r == [job[j] EXCEPT !.tries = @ + 1, !.step = "start", !.got = None]
  <2>2. /\ r \in JobRecord /\ r.anchor = job[j].anchor
        /\ r.state = job[j].state /\ r.step = "start" /\ r.got = None
    BY <2>1, Zenon DEF JobRecord
  <2>3. job' = [job EXCEPT ![j] = r]
    BY <1>2, Zenon DEF AfterPod
  <2>. HIDE DEF r
  <2>. QED  BY <2>2, <2>3 DEF Touches
<1>. QED  BY <1>1, <1>2
-----------------------------------------------------------------------------
(* The type invariant, and what no step takes back. *)

LEMMA LedgerVersion == IInv => ledger.version \in Version
<1> SUFFICES ASSUME IInv
             PROVE  ledger.version \in Version
  OBVIOUS
<1>1. ledger.members \subseteq Org /\ ledger.version \in Nat
  BY DEF IInv, FabricShape, Ledger
<1>2. Cardinality(ledger.members) \in Nat /\ Cardinality(ledger.members) <= Cardinality(Org)
  BY <1>1, BoundsAreFinite, FS_Subset, FS_CardinalityType
<1>3. spent.other \in 0..MaxOther /\ ledger.version <= Cardinality(ledger.members) + spent.other
  BY DEF IInv, RunsBound, Spent, ConfigBound
<1>. QED  BY <1>1, <1>2, <1>3, VersionIs, BoundsAreFinite DEF Version

LEMMA IInvTypes == IInv => TypeOK
<1> SUFFICES ASSUME IInv
             PROVE  TypeOK
  OBVIOUS
<1>1. /\ spec \in ChannelSpec
      /\ configtx \in AnchorMap /\ block \in Genesis \cup {None} /\ copy \in [Org -> Genesis \cup {None}]
      /\ DOMAIN job \subseteq JobName /\ job \in [DOMAIN job -> JobRecord]
      /\ ordererResult \subseteq OrdererSet /\ peerResult \subseteq OrgPeer /\ anchorResult \in AnchorMap
      /\ addResult \in [AddKey -> Evidence \cup {None}] /\ submitResult \subseteq SubmitKey
      /\ joined \in [Node -> Genesis \cup {None}] /\ pending \subseteq UpdateRecord
      /\ status \in [ready : BOOLEAN, orgs : Declaration \cup {<<>>}]
  BY Zenon DEF IInv, SpecShape, KubernetesShape, JobShape, ResultShape, FabricShape, StatusShape
<1>2. ledger \in [members : SUBSET Org, version : Version, anchors : AnchorMap, anchorVersion : [Org -> Nat]]
  BY LedgerVersion DEF IInv, FabricShape, Ledger
<1>3. pass \in [at : {"idle", "generate", "block", "orderers", "receipts", "add", "peers", "anchors", "report"},
                 spec : ChannelSpec \cup {None}, i : Nat, k : Nat, ok : BOOLEAN,
                 admin : Org \cup {None}, todo : Seq(Org)]
  BY Zenon DEF IInv, PassShape, Pass
<1>4. spent \in [runs : 0..(MaxFaults + 1), faults : 0..MaxFaults,
                  deletes : 0..MaxDeletes, other : 0..MaxOther]
  BY BoundsAreFinite DEF IInv, RunsBound, Spent
<1>. QED  BY <1>1, <1>2, <1>3, <1>4 DEF TypeOK

LEMMA InitIInv == Init => IInv
<1> SUFFICES ASSUME Init
             PROVE  IInv
  OBVIOUS
<1>1. initial \in Declaration
  BY DeclarationsAreWellFormed
<1>2. SpecShape /\ KubernetesShape /\ ResultShape /\ StatusShape
  BY <1>1 DEF Init, SpecShape, ChannelSpec, Signs, KubernetesShape, AnchorMap, ResultShape, StatusShape
<1>3. JobShape /\ Jobs
  BY DEF Init, JobShape, Jobs
<1>4. FabricShape
  BY DEF Init, FabricShape, Ledger, AnchorMap
<1>5. PassShape /\ PassSorts
  BY DEF Init, PassShape, PassSorts, Pass, Idle
<1>6. RunsBound
  BY BoundsAreFinite DEF Init, RunsBound, Spent
<1>7. ConfigBound
  BY FS_EmptySet DEF Init, ConfigBound
<1>8. EvidenceIsMembership
  BY DEF Init, EvidenceIsMembership, AddKey
<1>. QED  BY <1>2, <1>3, <1>4, <1>5, <1>6, <1>7, <1>8 DEF IInv

LEMMA ReconcileFrame ==
    ReconcileStep => UNCHANGED <<spec, block, results, fabric, spent>>
BY Zenon DEF ReconcileStep, StartPass, reconcileChannelBlockGeneration, channelBlockReadiness,
       reconcileOrdererJoins, reconcileLocalOrgAdditions, reconcileLocalOrgAdd, reconcilePeerJoins,
       reconcileAnchorPeerUpdates, ReportStatus, kubernetes

LEMMA JobFrame == JobStep => UNCHANGED <<spec, configtx, copy, pass, status>>
BY Zenon DEF JobStep, generateChannelBlock, publishChannelBlock, joinOrderer, publishOrdererJoinResult,
       joinPeer, publishPeerJoinResult, fetchForAnchor, updateAnchorPeer,
       publishAnchorPeerUpdateResult, GenerationFails, AnchorFails, addLocalOrg, publishLocalOrgAddResult,
       signedChannelUpdate, observeMembership, publishSignedUpdateResult, SubmitFails, PodFails

LEMMA FaultFrame == Fault => UNCHANGED <<spec, configtx, block, copy, results, ledger, joined, status>>
BY Zenon DEF Fault, AwaitComponents, AbandonPass, PodLost, Lose, kubernetes, fabric

LEMMA OthersFrame == Others => UNCHANGED <<configtx, block, copy, results, joined, pass, status>>
BY Zenon DEF Others, EditOrgs, SetSignedUpdateRef, DeleteFailedJob, OtherMembershipChange, Order,
       kubernetes, fabric

LEMMA JobWrites ==
    ASSUME JobStep
    PROVE  /\ UNCHANGED block \/ publishChannelBlock
           /\ UNCHANGED ledger \/ \E o \in OrdererSet : joinOrderer(o)
           /\ \/ UNCHANGED joined
              \/ \E o \in OrdererSet : joinOrderer(o)
              \/ \E p \in OrgPeer : joinPeer(p)
           /\ \/ UNCHANGED pending
              \/ \E g \in Org : updateAnchorPeer(g)
              \/ \E k \in SubmitKey : signedChannelUpdate(k)
           /\ UNCHANGED ordererResult \/ \E o \in OrdererSet : publishOrdererJoinResult(o)
           /\ UNCHANGED peerResult \/ \E p \in OrgPeer : publishPeerJoinResult(p)
           /\ UNCHANGED anchorResult \/ \E g \in Org : publishAnchorPeerUpdateResult(g)
           /\ UNCHANGED addResult \/ \E k \in AddKey : publishLocalOrgAddResult(k)
           /\ UNCHANGED submitResult \/ \E k \in SubmitKey : publishSignedUpdateResult(k)
BY Zenon DEF JobStep, generateChannelBlock, publishChannelBlock, joinOrderer, publishOrdererJoinResult,
       joinPeer, publishPeerJoinResult, fetchForAnchor, updateAnchorPeer,
       publishAnchorPeerUpdateResult, GenerationFails, AnchorFails, addLocalOrg, publishLocalOrgAddResult,
       signedChannelUpdate, observeMembership, publishSignedUpdateResult, SubmitFails, PodFails,
       results, fabric

LEMMA OthersWrite ==
    ASSUME Others
    PROVE  /\ \/ UNCHANGED spec
              \/ \E orgs \in Declaration : EditOrgs(orgs)
              \/ \E g \in Org, e \in Envelope : SetSignedUpdateRef(g, e)
           /\ UNCHANGED ledger \/ OtherMembershipChange \/ \E u \in pending : Order(u)
           /\ UNCHANGED pending \/ \E u \in pending : Order(u)
           /\ UNCHANGED job \/ \E j \in DOMAIN job : DeleteFailedJob(j)
           /\ UNCHANGED spent \/ OtherMembershipChange \/ \E j \in DOMAIN job : DeleteFailedJob(j)
BY Zenon DEF Others, EditOrgs, SetSignedUpdateRef, DeleteFailedJob, OtherMembershipChange, Order,
       kubernetes, fabric

LEMMA FaultWrites ==
    ASSUME Fault
    PROVE  /\ UNCHANGED job \/ \E j \in DOMAIN job : PodLost(j)
           /\ UNCHANGED pass \/ AwaitComponents \/ AbandonPass
           /\ UNCHANGED pending \/ \E u \in pending : Lose(u)
           /\ spent.faults < MaxFaults /\ spent' = [spent EXCEPT !.faults = @ + 1]
BY Zenon DEF Fault, AwaitComponents, AbandonPass, PodLost, LosePod, Lose, kubernetes, fabric

LEMMA ReconcileWrites ==
    ASSUME ReconcileStep
    PROVE  /\ UNCHANGED configtx \/ reconcileChannelBlockGeneration
           /\ UNCHANGED copy \/ reconcilePeerJoins
           /\ UNCHANGED status \/ ReportStatus
BY Zenon DEF ReconcileStep, StartPass, reconcileChannelBlockGeneration, channelBlockReadiness,
       reconcileOrdererJoins, reconcileLocalOrgAdditions, reconcileLocalOrgAdd, reconcilePeerJoins,
       reconcileAnchorPeerUpdates, ReportStatus, kubernetes

LEMMA SpecStep ==
    ASSUME IInv, Next
    PROVE  SpecShape'
<1>1. spec \in ChannelSpec /\ Signs(spec)
  BY DEF IInv, SpecShape
<1>2. ASSUME NEW orgs \in Declaration, EditOrgs(orgs)
      PROVE  SpecShape'
  BY <1>1, <1>2 DEF EditOrgs, SpecShape, ChannelSpec, Signs
<1>3. ASSUME NEW g \in Org, NEW e \in Envelope, SetSignedUpdateRef(g, e)
      PROVE  SpecShape'
  BY <1>1, <1>3 DEF SetSignedUpdateRef, SpecShape, ChannelSpec, Signs
<1>4. CASE UNCHANGED spec
  BY <1>1, <1>4 DEF SpecShape, Signs
<1>. QED  BY <1>2, <1>3, <1>4, ReconcileFrame, JobFrame, FaultFrame, OthersWrite, Zenon DEF Next

LEMMA buildConfigtxYAMLIs ==
    ASSUME NEW orgs \in Declaration
    PROVE  /\ buildConfigtxYAML(orgs) \in AnchorMap
           /\ \A g \in Names(orgs) : buildConfigtxYAML(orgs)[g] \in Peer
<1>1. ASSUME NEW g \in Org, g \in Names(orgs)
      PROVE  channelAnchorPeerForOrg(CHOOSE entry \in Range(orgs) : entry.name = g) \in Peer
  <2>1. \E entry \in Range(orgs) : entry.name = g
    BY <1>1 DEF Names, Range
  <2>2. PICK entry \in Range(orgs) : entry = CHOOSE e \in Range(orgs) : e.name = g
    BY <2>1
  <2>3. \A e \in Range(orgs) : e.peers[1] \in Peer
    BY DeclarationIs DEF Range
  <2>. QED  BY <2>2, <2>3 DEF channelAnchorPeerForOrg
<1>2. Names(orgs) \subseteq Org
  BY DeclarationIs DEF Names
<1>. QED  BY <1>1, <1>2 DEF buildConfigtxYAML, AnchorMap

\* A pass that is at work has read a declaration.
LEMMA PassReads ==
    ASSUME IInv, pass.at # "idle"
    PROVE  pass.spec \in ChannelSpec /\ Declared \in Declaration
BY DEF IInv, PassShape, ChannelSpec, Declared

LEMMA PassFields ==
    ASSUME IInv
    PROVE  /\ pass \in Pass
           /\ pass.i \in Nat /\ pass.i >= 1 /\ pass.k \in Nat /\ pass.k >= 1
           /\ pass.todo \in Seq(Org) /\ Len(pass.todo) \in Nat /\ DOMAIN pass.todo = 1..Len(pass.todo)
           /\ \A n \in DOMAIN pass.todo : pass.todo[n] \in Org
           /\ pass.at # "idle" => Len(Declared) \in Nat /\ DOMAIN Declared = 1..Len(Declared)
<1>1. pass \in Pass /\ pass.i \in Nat /\ pass.i >= 1 /\ pass.k \in Nat /\ pass.k >= 1 /\ pass.todo \in Seq(Org)
  BY DEF IInv, PassShape, Pass
<1>2. pass.at # "idle" => Len(Declared) \in Nat /\ DOMAIN Declared = 1..Len(Declared)
  BY PassReads, DeclarationIs
<1>. QED  BY <1>1, <1>2

LEMMA KubernetesStep ==
    ASSUME IInv, Next
    PROVE  KubernetesShape' /\ (block # None => block' # None)
<1>1. configtx \in AnchorMap /\ block \in Genesis \cup {None} /\ copy \in [Org -> Genesis \cup {None}]
  BY DEF IInv, KubernetesShape
<1>2. configtx' \in AnchorMap
  <2>1. ASSUME reconcileChannelBlockGeneration
        PROVE  configtx' \in AnchorMap
    BY <2>1, PassReads, buildConfigtxYAMLIs DEF reconcileChannelBlockGeneration, At
  <2>. QED  BY <1>1, <2>1, ReconcileWrites, JobFrame, FaultFrame, OthersFrame DEF Next
<1>3. block' \in Genesis \cup {None} /\ (block # None => block' # None)
  <2>1. ASSUME publishChannelBlock
        PROVE  block' \in Genesis
    <3>1. Shaped(BlockJob, job[BlockJob]) /\ job[BlockJob].step = "ran"
      BY <2>1 DEF publishChannelBlock, Running, IInv, Jobs
    <3>. QED  BY <2>1, <3>1, JobNameIs DEF publishChannelBlock, Shaped
  <2>. QED  BY <1>1, <2>1, NoneIsNoValue, ReconcileFrame, JobWrites, FaultFrame, OthersFrame DEF Next
<1>4. copy' \in [Org -> Genesis \cup {None}]
  <2>1. ASSUME reconcilePeerJoins
        PROVE  copy' \in [Org -> Genesis \cup {None}]
    BY <1>1, <2>1, Zenon DEF reconcilePeerJoins
  <2>. QED  BY <1>1, <2>1, ReconcileWrites, JobFrame, FaultFrame, OthersFrame DEF Next
<1>. QED  BY <1>2, <1>3, <1>4 DEF KubernetesShape

LEMMA SpentWith ==
    ASSUME NEW s \in Spent, NEW f \in 0..MaxFaults
    PROVE  LET e == [s EXCEPT !.faults = f]
           IN  e \in Spent /\ e.faults = f /\ e.runs = s.runs /\ e.other = s.other /\ e.deletes = s.deletes
BY Zenon DEF Spent

LedgerWith(l, m, v) == [l EXCEPT !.members = m, !.version = v]
LedgerAnchored(l, g, a, v) == [l EXCEPT !.anchors[g] = a, !.anchorVersion[g] = v]

LEMMA LedgerWithIs ==
    ASSUME NEW l \in Ledger, NEW m \in SUBSET Org, NEW v \in Nat
    PROVE  /\ LedgerWith(l, m, v) \in Ledger
           /\ LedgerWith(l, m, v).members = m /\ LedgerWith(l, m, v).version = v
BY Zenon DEF Ledger, LedgerWith

LEMMA LedgerAnchoredIs ==
    ASSUME NEW l \in Ledger, NEW g \in Org, NEW a \in Peer \cup {None}, NEW v \in Nat
    PROVE  /\ LedgerAnchored(l, g, a, v) \in Ledger
           /\ LedgerAnchored(l, g, a, v).members = l.members
           /\ LedgerAnchored(l, g, a, v).version = l.version
<1>1. PICK x \in AnchorMap, y \in [Org -> Nat] :
          x = [l.anchors EXCEPT ![g] = a] /\ y = [l.anchorVersion EXCEPT ![g] = v]
  BY ZenonT(30) DEF Ledger, AnchorMap
<1>2. LedgerAnchored(l, g, a, v) = [l EXCEPT !.anchors = x, !.anchorVersion = y]
  BY <1>1, Zenon DEF Ledger, LedgerAnchored
<1>. QED  BY <1>2, Zenon DEF Ledger

LEMMA JobSpends ==
    JobStep => \/ generateChannelBlock \/ UNCHANGED spent
               \/ spent.faults < MaxFaults /\ spent' = [spent EXCEPT !.faults = @ + 1]
BY Zenon DEF JobStep, publishChannelBlock, joinOrderer, publishOrdererJoinResult,
       joinPeer, publishPeerJoinResult, fetchForAnchor, updateAnchorPeer,
       publishAnchorPeerUpdateResult, GenerationFails, AnchorFails, addLocalOrg, publishLocalOrgAddResult,
       signedChannelUpdate, observeMembership, publishSignedUpdateResult, SubmitFails, PodFails,
       Finish, LosePod

LEMMA SpentStep ==
    ASSUME IInv, Next
    PROVE  /\ spent' \in Spent
           /\ spent'.runs = spent.runs \/ generateChannelBlock
           /\ spent'.faults >= spent.faults
           /\ spent'.other = spent.other \/ OtherMembershipChange
<1>1. /\ spent \in Spent
      /\ spent.runs \in Nat /\ spent.faults \in Nat /\ spent.other \in Nat /\ spent.deletes \in Nat
  BY DEF IInv, RunsBound, Spent
<1>2. CASE UNCHANGED spent
  BY <1>1, <1>2
<1>3. CASE spent.faults < MaxFaults /\ spent' = [spent EXCEPT !.faults = @ + 1]
  <2>1. PICK f \in 0..MaxFaults : f = spent.faults + 1
    BY <1>1, <1>3, BoundsAreFinite
  <2>2. spent' = [spent EXCEPT !.faults = f]
    BY <1>3, <2>1
  <2>. QED  BY <1>1, <2>1, <2>2, SpentWith
<1>4. CASE generateChannelBlock
  BY <1>1, <1>4 DEF generateChannelBlock, Spent
<1>5. CASE OtherMembershipChange
  BY <1>1, <1>5, BoundsAreFinite DEF OtherMembershipChange, Spent
<1>6. CASE \E j \in DOMAIN job : DeleteFailedJob(j)
  BY <1>1, <1>6, BoundsAreFinite DEF DeleteFailedJob, Spent
<1>. QED  BY <1>2, <1>3, <1>4, <1>5, <1>6, JobSpends, ReconcileFrame, FaultWrites, OthersWrite, Zenon DEF Next

\* Only the first orderer's join starts the channel, and only once.
LEMMA joinOrdererIs ==
    ASSUME IInv, NEW o \in OrdererSet, joinOrderer(o)
    PROVE  /\ block \in Genesis
           /\ joined' \in [Node -> Genesis \cup {None}]
           /\ \A n \in Node : joined[n] # None => joined'[n] = joined[n]
           /\ joined'[o] # None
           /\ \/ joined[o] = None /\ o = First
              \/ UNCHANGED ledger /\ joined'[First] = joined[First]
              \/ UNCHANGED ledger /\ joined[First] # None
           /\ joined[o] = None /\ o = First =>
                 ledger' = [ledger EXCEPT !.members = {g \in Org : block.anchors[g] # None},
                                          !.anchors = block.anchors]
<1>1. block \in Genesis
  BY JobNameIs DEF joinOrderer, Running, IInv, Jobs, Stands, KubernetesShape
<1>2. joined \in [Node -> Genesis \cup {None}] /\ o \in Node /\ First \in Node
  BY OrdererIs DEF IInv, FabricShape, Node
<1>. QED  BY <1>1, <1>2, NoneIsNoValue DEF joinOrderer, First

LEMMA joinPeerIs ==
    ASSUME IInv, NEW p \in OrgPeer, joinPeer(p)
    PROVE  /\ joined' \in [Node -> Genesis \cup {None}]
           /\ \A n \in Node : joined[n] # None => joined'[n] = joined[n]
           /\ \A n \in OrdererSet : joined'[n] = joined[n]
<1>1. /\ joined \in [Node -> Genesis \cup {None}] /\ p \in Node /\ p \notin OrdererSet
      /\ copy[p[1]] \in Genesis \cup {None}
  BY OrderersAreNodes DEF IInv, FabricShape, KubernetesShape, Node, OrgPeer
<1>. QED  BY <1>1 DEF joinPeer, Node

LEMMA FabricStep ==
    ASSUME IInv, Next
    PROVE  /\ FabricShape'
           /\ ledger.members \subseteq ledger'.members
           /\ \A n \in Node : joined[n] # None => joined'[n] = joined[n]
<1>1. ledger \in Ledger /\ joined \in [Node -> Genesis \cup {None}] /\ pending \subseteq UpdateRecord
  BY DEF IInv, FabricShape
<1>2. ledger' \in Ledger /\ ledger.members \subseteq ledger'.members
  <2>1. ASSUME NEW o \in OrdererSet, joinOrderer(o), joined[o] = None, o = First
        PROVE  ledger' \in Ledger /\ ledger.members \subseteq ledger'.members
    <3>1. block.anchors \in AnchorMap /\ ledger.members = {}
      BY <2>1, joinOrdererIs, Zenon DEF Genesis, IInv, ConfigBound
    <3>. QED  BY <1>1, <2>1, <3>1, joinOrdererIs, ZenonT(20) DEF Ledger
  <2>2. ASSUME OtherMembershipChange
        PROVE  ledger' \in Ledger /\ ledger.members \subseteq ledger'.members
    BY <1>1, <2>2 DEF OtherMembershipChange, Ledger
  <2>3. ASSUME NEW u \in pending, Order(u)
        PROVE  ledger' \in Ledger /\ ledger.members \subseteq ledger'.members
    <3>1. u.name \in Org /\ u.anchor \in Peer \cup {None}
      BY <1>1 DEF UpdateRecord
    <3>2. CASE UNCHANGED ledger
      BY <1>1, <3>2
    <3>3. CASE ledger' = [ledger EXCEPT !.members = @ \cup {u.name}, !.version = @ + 1]
      <4>1. ledger.members \in SUBSET Org /\ ledger.version \in Nat
        BY <1>1 DEF Ledger
      <4>2. ledger.members \cup {u.name} \in SUBSET Org /\ ledger.version + 1 \in Nat
        BY <3>1, <4>1
      <4>3. ledger' = LedgerWith(ledger, ledger.members \cup {u.name}, ledger.version + 1)
        BY <3>3 DEF LedgerWith
      <4>4. ledger' \in Ledger /\ ledger'.members = ledger.members \cup {u.name}
        BY <1>1, <4>2, <4>3, LedgerWithIs
      <4>. QED  BY <4>4, Zenon
    <3>4. CASE ledger' = [ledger EXCEPT !.anchors[u.name] = u.anchor, !.anchorVersion[u.name] = @ + 1]
      <4>1. ledger.anchorVersion[u.name] + 1 \in Nat
        BY <1>1, <3>1 DEF Ledger
      <4>2. ledger' = LedgerAnchored(ledger, u.name, u.anchor, ledger.anchorVersion[u.name] + 1)
        BY <3>4 DEF LedgerAnchored
      <4>3. ledger' \in Ledger /\ ledger'.members = ledger.members
        BY <1>1, <3>1, <4>1, <4>2, LedgerAnchoredIs, Zenon
      <4>. QED  BY <4>3
    <3>. QED  BY <2>3, <3>2, <3>3, <3>4 DEF Order
  <2>. QED  BY <1>1, <2>1, <2>2, <2>3, joinOrdererIs, ReconcileFrame, JobWrites, FaultFrame, OthersWrite, ZenonT(20)
            DEF Next, fabric
<1>3. joined' \in [Node -> Genesis \cup {None}] /\ \A n \in Node : joined[n] # None => joined'[n] = joined[n]
  BY <1>1, joinOrdererIs, joinPeerIs, ReconcileFrame, JobWrites, FaultFrame, OthersFrame, Zenon DEF Next, fabric
<1>4. pending' \subseteq UpdateRecord
  <2>1. ASSUME NEW g \in Org, updateAnchorPeer(g)
        PROVE  pending' \subseteq UpdateRecord
    <3>1. AnchorJob(g) \in DOMAIN job /\ job[AnchorJob(g)].step = "fetched"
          /\ Shaped(AnchorJob(g), job[AnchorJob(g)])
      BY <2>1 DEF updateAnchorPeer, Running, IInv, Jobs
    <3>2. job[AnchorJob(g)].anchor \in Peer /\ job[AnchorJob(g)].got.version \in Nat
      BY <3>1, JobNameIs DEF Shaped
    <3>. QED  BY <1>1, <2>1, <3>2 DEF updateAnchorPeer, UpdateRecord
  <2>2. ASSUME NEW k \in SubmitKey, signedChannelUpdate(k)
        PROVE  pending' \subseteq UpdateRecord
    <3>1. k[2] \in Org /\ k[3] \in Nat
      BY VersionIs DEF SubmitKey
    <3>. QED  BY <1>1, <2>2, <3>1 DEF signedChannelUpdate, UpdateRecord
  <2>3. (\E u \in pending : Order(u) \/ Lose(u)) => pending' \subseteq pending
    BY DEF Order, Lose
  <2>. QED  BY <1>1, <2>1, <2>2, <2>3, ReconcileFrame, JobWrites, FaultWrites, OthersWrite DEF Next, fabric
<1>. QED  BY <1>2, <1>3, <1>4 DEF FabricShape

LEMMA ConfigStep ==
    ASSUME IInv, Next
    PROVE  ConfigBound'
<1>1. /\ ledger \in Ledger /\ ledger.members \subseteq Org /\ ledger.version \in Nat
      /\ pending \subseteq UpdateRecord
      /\ spent.other \in Nat /\ ConfigBound
      /\ First \in OrdererSet /\ First \in Node
  BY OrdererIs DEF IInv, FabricShape, Ledger, RunsBound, Spent, Node
<1>2. Cardinality(ledger.members) \in Nat /\ IsFiniteSet(ledger.members)
  BY <1>1, BoundsAreFinite, FS_Subset, FS_CardinalityType
<1>3. \A u \in pending : u.version \in Nat /\ u.kind \in {"anchor", "member"}
  BY <1>1 DEF UpdateRecord
<1>4. ASSUME UNCHANGED <<ledger, joined>>, spent'.other = spent.other, pending' \subseteq pending
      PROVE  ConfigBound'
  BY <1>1, <1>4 DEF ConfigBound
<1>5. ASSUME NEW o \in OrdererSet, joinOrderer(o)
      PROVE  ConfigBound'
  <2>1. UNCHANGED <<pending, spent>>
    BY <1>5 DEF joinOrderer
  <2>2. CASE UNCHANGED ledger /\ joined'[First] = joined[First]
    BY <1>1, <2>1, <2>2 DEF ConfigBound
  <2>3. CASE UNCHANGED ledger /\ joined[First] # None
    BY <1>1, <1>5, <2>1, <2>3, joinOrdererIs, Zenon DEF ConfigBound
  <2>4. CASE joined[o] = None /\ o = First
    <3>1. ledger' = [ledger EXCEPT !.members = {g \in Org : block.anchors[g] # None},
                                   !.anchors = block.anchors]
      BY <1>5, <2>4, joinOrdererIs, Zenon
    <3>2. ledger'.members \subseteq Org /\ ledger'.version = 0
      BY <1>1, <2>4, <3>1 DEF ConfigBound, Ledger
    <3>3. Cardinality(ledger'.members) \in Nat
      BY <3>2, BoundsAreFinite, FS_Subset, FS_CardinalityType
    <3>4. joined'[First] # None
      BY <1>5, <2>4, joinOrdererIs, Zenon
    <3>. QED  BY <1>1, <2>1, <2>4, <3>2, <3>3, <3>4 DEF ConfigBound
  <2>. QED  BY <1>5, <2>2, <2>3, <2>4, joinOrdererIs, Zenon
<1>6. ASSUME NEW p \in OrgPeer, joinPeer(p)
      PROVE  ConfigBound'
  <2>1. joined'[First] = joined[First] /\ UNCHANGED <<ledger, pending, spent>>
    BY <1>1, <1>6, joinPeerIs DEF joinPeer
  <2>. QED  BY <1>1, <2>1 DEF ConfigBound
<1>7. ASSUME NEW g \in Org, updateAnchorPeer(g)
      PROVE  ConfigBound'
  BY <1>1, <1>7 DEF updateAnchorPeer, ConfigBound
<1>8. ASSUME NEW k \in SubmitKey, signedChannelUpdate(k)
      PROVE  ConfigBound'
  <2>1. UNCHANGED <<ledger, joined, spent>> /\ k[1] \in ledger.members
    BY <1>8 DEF signedChannelUpdate
  <2>2. joined[First] # None
    BY <1>1, <2>1 DEF ConfigBound
  <2>3. CASE k[2] \in ledger.members
    BY <1>1, <1>8, <2>1, <2>3 DEF signedChannelUpdate, ConfigBound
  <2>4. CASE k[2] \notin ledger.members
    <3>1. pending' = pending \cup {[kind |-> "member", name |-> k[2], anchor |-> None, version |-> k[3]]}
      BY <1>8, <2>4 DEF signedChannelUpdate
    <3>2. k[3] = ledger.version
      BY <1>8, <2>4 DEF signedChannelUpdate, Accepted
    <3>. QED  BY <1>1, <2>1, <2>2, <2>4, <3>1, <3>2 DEF ConfigBound
  <2>. QED  BY <2>3, <2>4
<1>9. ASSUME OtherMembershipChange
      PROVE  ConfigBound'
  <2>1. /\ ledger'.members = ledger.members /\ ledger'.version = ledger.version + 1
        /\ spent'.other = spent.other + 1
        /\ UNCHANGED <<joined, pending>> /\ ledger.members # {}
    BY <1>1, <1>9 DEF OtherMembershipChange, Ledger, IInv, RunsBound, Spent
  <2>. QED  BY <1>1, <1>2, <1>3, <2>1 DEF ConfigBound
<1>10. ASSUME NEW u \in pending, Order(u)
       PROVE  ConfigBound'
  <2>1. UNCHANGED <<joined, spent>> /\ pending' \subseteq pending
    BY <1>10 DEF Order
  <2>2. CASE UNCHANGED ledger
    BY <1>1, <2>1, <2>2 DEF ConfigBound
  <2>3. CASE u.kind = "member" /\ Current(u)
    <3>1. ledger' = LedgerWith(ledger, ledger.members \cup {u.name}, ledger.version + 1)
      BY <1>10, <2>3 DEF Order, LedgerWith
    <3>2. ledger.members \cup {u.name} \in SUBSET Org /\ ledger.version + 1 \in Nat
      BY <1>1 DEF UpdateRecord
    <3>3. ledger'.members = ledger.members \cup {u.name} /\ ledger'.version = ledger.version + 1
      BY <1>1, <3>1, <3>2, LedgerWithIs
    <3>4. u.name \notin ledger.members /\ joined[First] # None
      BY <1>1, <2>3 DEF ConfigBound, Current
    <3>5. Cardinality(ledger'.members) = Cardinality(ledger.members) + 1
      <4>1. PICK m, x : m = ledger.members /\ x = u.name
        OBVIOUS
      <4>2. IsFiniteSet(m) /\ x \notin m /\ ledger'.members = m \cup {x}
        BY <1>2, <3>3, <3>4, <4>1
      <4>. QED  BY <4>1, <4>2, FS_AddElement, Zenon
    <3>. QED  BY <1>1, <1>2, <1>3, <2>1, <3>3, <3>4, <3>5 DEF ConfigBound
  <2>4. CASE u.kind # "member" /\ Current(u)
    <3>1. ledger' = LedgerAnchored(ledger, u.name, u.anchor, ledger.anchorVersion[u.name] + 1)
      BY <1>10, <2>4 DEF Order, LedgerAnchored
    <3>2. u.name \in Org /\ u.anchor \in Peer \cup {None} /\ ledger.anchorVersion[u.name] + 1 \in Nat
      BY <1>1 DEF UpdateRecord, Ledger
    <3>3. ledger'.members = ledger.members /\ ledger'.version = ledger.version
      BY <1>1, <3>1, <3>2, LedgerAnchoredIs, Zenon
    <3>. QED  BY <1>1, <2>1, <3>3 DEF ConfigBound
  <2>. QED  BY <1>10, <2>2, <2>3, <2>4 DEF Order
<1>11. CASE ReconcileStep
  BY <1>4, <1>11, ReconcileFrame DEF fabric
<1>12. CASE JobStep
  <2>1. spent'.other = spent.other
    BY <1>12, JobSpends DEF generateChannelBlock, IInv, RunsBound, Spent
  <2>. QED  BY <1>4, <1>5, <1>6, <1>7, <1>8, <1>12, <2>1, JobWrites, Zenon
<1>13. CASE Fault
  <2>1. spent'.other = spent.other /\ pending' \subseteq pending
    BY <1>13, <1>1, FaultWrites DEF IInv, RunsBound, Spent, Lose
  <2>. QED  BY <1>4, <1>13, <2>1, FaultFrame
<1>14. CASE Others
  <2>1. ASSUME UNCHANGED ledger, UNCHANGED pending
        PROVE  ConfigBound'
    <3>1. spent' = spent \/ (\E j \in DOMAIN job : DeleteFailedJob(j)) => spent'.other = spent.other
      BY Zenon DEF DeleteFailedJob, IInv, RunsBound, Spent
    <3>. QED  BY <1>4, <1>9, <1>14, <2>1, <3>1, OthersFrame, OthersWrite, Zenon
  <2>. QED  BY <1>9, <1>10, <1>14, <2>1, OthersWrite
<1>. QED  BY <1>11, <1>12, <1>13, <1>14 DEF Next

LEMMA ResultStep ==
    ASSUME IInv, Next
    PROVE  /\ ResultShape'
           /\ EvidenceIsMembership'
           /\ ordererResult \subseteq ordererResult' /\ peerResult \subseteq peerResult'
           /\ \A g \in Org : anchorResult[g] # None => anchorResult'[g] # None
<1>1. /\ ordererResult \subseteq OrdererSet /\ peerResult \subseteq OrgPeer
      /\ anchorResult \in AnchorMap /\ addResult \in [AddKey -> Evidence \cup {None}]
      /\ submitResult \subseteq SubmitKey
      /\ EvidenceIsMembership
  BY DEF IInv, ResultShape
<1>2. ledger.members \subseteq ledger'.members
  BY FabricStep
<1>3. ReconcileStep \/ Fault \/ Others => UNCHANGED results
  BY ReconcileFrame, FaultFrame, OthersFrame
<1>4. /\ ordererResult' \subseteq OrdererSet /\ ordererResult \subseteq ordererResult'
      /\ peerResult' \subseteq OrgPeer /\ peerResult \subseteq peerResult'
  <2>1. ASSUME NEW o \in OrdererSet, publishOrdererJoinResult(o)
        PROVE  ordererResult' = ordererResult \cup {o}
    BY <2>1 DEF publishOrdererJoinResult
  <2>2. ASSUME NEW p \in OrgPeer, publishPeerJoinResult(p)
        PROVE  peerResult' = peerResult \cup {p}
    BY <2>2 DEF publishPeerJoinResult
  <2>. QED  BY <1>1, <1>3, <2>1, <2>2, JobWrites DEF Next, results
<1>. DEFINE Anchors ==
                 /\ anchorResult' \in AnchorMap
                 /\ \A g \in Org : anchorResult'[g] # None => g \in ledger'.members
                 /\ \A g \in Org : anchorResult[g] # None => anchorResult'[g] # None
             Adds ==
                 /\ addResult' \in [AddKey -> Evidence \cup {None}]
                 /\ \A k \in AddKey : addResult'[k] # None =>
                       /\ k[1] \in ledger'.members
                       /\ addResult'[k].outcome = "alreadyApplied" => k[2] \in ledger'.members
<1>5. Anchors
  <2>1. ASSUME NEW g \in Org, publishAnchorPeerUpdateResult(g)
        PROVE  /\ g \in ledger.members /\ job[AnchorJob(g)].anchor \in Peer
               /\ anchorResult' = [anchorResult EXCEPT ![g] = job[AnchorJob(g)].anchor]
    <3>1. AnchorJob(g) \in DOMAIN job /\ job[AnchorJob(g)].step = "ran"
      BY <2>1 DEF publishAnchorPeerUpdateResult, Running
    <3>2. Shaped(AnchorJob(g), job[AnchorJob(g)]) /\ Stands(AnchorJob(g), job[AnchorJob(g)])
      BY <3>1 DEF IInv, Jobs
    <3>. QED  BY <2>1, <3>1, <3>2, JobNameIs DEF publishAnchorPeerUpdateResult, Shaped, Stands
  <2>2. CASE UNCHANGED anchorResult
    BY <1>1, <1>2, <2>2 DEF EvidenceIsMembership
  <2>3. ASSUME NEW g \in Org, publishAnchorPeerUpdateResult(g)
        PROVE  Anchors
    BY <1>1, <1>2, <2>1, <2>3, NoneIsNoValue DEF EvidenceIsMembership, AnchorMap
  <2>. QED  BY <1>3, <2>2, <2>3, JobWrites, Zenon DEF Next, results
<1>6. Adds
  <2>1. ASSUME NEW k \in AddKey, publishLocalOrgAddResult(k)
        PROVE  LET got == job[AddJob(k)].got
               IN  /\ got \in Evidence /\ k[1] \in ledger.members
                   /\ got.outcome = "alreadyApplied" => k[2] \in ledger.members
                   /\ addResult' = [addResult EXCEPT ![k] = got]
    <3>1. AddJob(k) \in DOMAIN job /\ job[AddJob(k)].step = "ran"
      BY <2>1 DEF publishLocalOrgAddResult, Running
    <3>2. Shaped(AddJob(k), job[AddJob(k)]) /\ Stands(AddJob(k), job[AddJob(k)])
      BY <3>1 DEF IInv, Jobs
    <3>. QED  BY <2>1, <3>1, <3>2, JobNameIs DEF publishLocalOrgAddResult, Shaped, Stands
  <2>2. CASE UNCHANGED addResult
    BY <1>1, <1>2, <2>2 DEF EvidenceIsMembership
  <2>3. ASSUME NEW k \in AddKey, publishLocalOrgAddResult(k)
        PROVE  Adds
    BY <1>1, <1>2, <2>1, <2>3 DEF EvidenceIsMembership
  <2>. QED  BY <1>3, <2>2, <2>3, JobWrites, Zenon DEF Next, results
<1>7. submitResult' \subseteq SubmitKey /\ \A k \in submitResult' : k[2] \in ledger'.members
  <2>1. ASSUME NEW k \in SubmitKey, publishSignedUpdateResult(k)
        PROVE  k[2] \in ledger.members /\ submitResult' = submitResult \cup {k}
    <3>1. SubmitJob(k) \in DOMAIN job /\ job[SubmitJob(k)].step = "ran"
      BY <2>1 DEF publishSignedUpdateResult, Running
    <3>2. Stands(SubmitJob(k), job[SubmitJob(k)])
      BY <3>1 DEF IInv, Jobs
    <3>. QED  BY <2>1, <3>1, <3>2, JobNameIs DEF publishSignedUpdateResult, Stands
  <2>. QED  BY <1>1, <1>2, <1>3, <2>1, JobWrites DEF Next, results, EvidenceIsMembership
<1>. QED  BY <1>4, <1>5, <1>6, <1>7 DEF ResultShape, EvidenceIsMembership
-----------------------------------------------------------------------------
(* The Jobs. *)

\* What the Jobs stand on is not taken away.
Lasting ==
    /\ ledger.members \subseteq ledger'.members
    /\ block # None => block' # None
    /\ spent.runs <= spent.faults => spent'.runs <= spent'.faults

\* The steps that create a Job, and those that run its script to the end.
Begins(j) ==
    /\ j[1] = "block" => reconcileChannelBlockGeneration
    /\ j[1] = "orderer" => reconcileOrdererJoins
    /\ j[1] \in {"add", "submit"} => reconcileLocalOrgAdd
    /\ j[1] = "peer" => reconcilePeerJoins
    /\ j[1] = "anchor" => reconcileAnchorPeerUpdates
Runs(j) ==
    /\ j[1] = "block" => generateChannelBlock
    /\ j[1] = "orderer" => joinOrderer(j[2])
    /\ j[1] = "peer" => joinPeer(j[2])

\* Jobs keep their template, and go only when they have ended.
Continues ==
    /\ \A n \in DOMAIN job' \ DOMAIN job : job'[n].step = "start" /\ Begins(n)
    /\ \A n \in DOMAIN job \cap DOMAIN job' :
          /\ job'[n].anchor = job[n].anchor
          /\ job'[n].step = "ran" => job'[n] = job[n] \/ Runs(n)
    /\ \A n \in DOMAIN job \ DOMAIN job' : job[n].state # "active"

LEMMA JobsFrame ==
    ASSUME JobShape, Jobs, Lasting, UNCHANGED job
    PROVE  JobShape' /\ Jobs' /\ Continues
BY DEF JobShape, Jobs, Lasting, Shaped, Stands, Continues

LEMMA JobsTouched ==
    ASSUME JobShape, Jobs, Lasting, NEW j \in DOMAIN job,
           Touches(j, job'[j].state, job'[j].step, job'[j].got),
           Shaped(j, job'[j]), Stands(j, job[j])',
           job'[j].step = "ran" => Runs(j)
    PROVE  JobShape' /\ Jobs' /\ Continues
<1>1. JobShape' /\ DOMAIN job' = DOMAIN job
  BY DEF JobShape, Touches
<1>2. ASSUME NEW n \in DOMAIN job \ {j}
      PROVE  Shaped(n, job'[n]) /\ Stands(n, job[n])'
  <2>1. Shaped(n, job[n]) /\ Stands(n, job[n]) /\ job'[n] = job[n]
    BY DEF Jobs, Touches
  <2>. QED  BY <2>1 DEF Stands, Lasting
<1>3. Continues
  BY DEF Continues, Touches
<1>. QED  BY <1>1, <1>2, <1>3 DEF Jobs

LEMMA JobsEnsured ==
    ASSUME JobShape, Jobs, Lasting, NEW j \in JobName, NEW anchor \in Peer \cup {None},
           job' = ensureJob(j, anchor), Begins(j),
           j[1] = "anchor" => anchor \in Peer,
           j[1] = "orderer" => block' # None,
           j[1] = "block" => spent'.runs <= spent'.faults
    PROVE  JobShape' /\ Jobs' /\ Continues
<1>1. /\ DOMAIN job' = DOMAIN job \cup {j} /\ job' \in [DOMAIN job' -> JobRecord]
      /\ \A n \in DOMAIN job : job'[n] = job[n]
      /\ j \notin DOMAIN job => job'[j] = NewJob(j, anchor)
  <2>1. job \in [DOMAIN job -> JobRecord]
    BY DEF JobShape
  <2>2. PICK e : e = ensureJob(j, anchor)
    OBVIOUS
  <2>3. /\ DOMAIN e = DOMAIN job \cup {j} /\ e \in [DOMAIN e -> JobRecord]
        /\ \A n \in DOMAIN job : e[n] = job[n]
        /\ j \notin DOMAIN job => e[j] = NewJob(j, anchor)
    BY <2>1, <2>2, NewJobIs DEF ensureJob
  <2>. QED  BY <2>2, <2>3
<1>2. ASSUME NEW n \in DOMAIN job
      PROVE  Shaped(n, job'[n]) /\ Stands(n, job[n])'
  <2>1. Shaped(n, job[n]) /\ Stands(n, job[n]) /\ job'[n] = job[n]
    BY <1>1 DEF Jobs
  <2>. QED  BY <2>1 DEF Stands, Lasting
<1>3. ASSUME j \notin DOMAIN job
      PROVE  Shaped(j, job'[j]) /\ Stands(j, job[j])' /\ job'[j].step = "start"
  BY <1>1, <1>3, NewJobIs DEF Shaped, Stands
<1>4. Continues
  BY <1>1, <1>3 DEF Continues
<1>. QED  BY <1>1, <1>2, <1>3, <1>4 DEF Jobs, JobShape

LEMMA JobsRemain ==
    ASSUME JobShape, Jobs, Lasting, NEW deleted, job' = Without(deleted),
           \A n \in DOMAIN job \cap deleted : job[n].state # "active"
    PROVE  JobShape' /\ Jobs' /\ Continues
<1>1. /\ DOMAIN job' = DOMAIN job \ deleted /\ job' \in [DOMAIN job' -> JobRecord]
      /\ \A n \in DOMAIN job' : job'[n] = job[n]
  BY RemainingJobs, Zenon DEF JobShape
<1>2. ASSUME NEW n \in DOMAIN job'
      PROVE  Shaped(n, job'[n]) /\ Stands(n, job[n])'
  <2>1. Shaped(n, job[n]) /\ Stands(n, job[n]) /\ job'[n] = job[n]
    BY <1>1 DEF Jobs
  <2>. QED  BY <2>1 DEF Stands, Lasting
<1>3. Continues
  BY <1>1 DEF Continues
<1>. QED  BY <1>1, <1>2, <1>3 DEF Jobs, JobShape

LEMMA PodEnds ==
    ASSUME JobShape, Jobs, Lasting, NEW j \in DOMAIN job, job' = AfterPod(j),
           j[1] = "block" => spent'.runs <= spent'.faults
    PROVE  JobShape' /\ Jobs' /\ Continues
<1>1. Touches(j, job'[j].state, "start", None)
  BY FailedPod DEF JobShape
<1>2. Shaped(j, job[j]) /\ Stands(j, job[j])
  BY DEF Jobs
<1>3. /\ job'[j] \in JobRecord /\ job'[j].step = "start" /\ job'[j].got = None
      /\ job'[j].anchor = job[j].anchor
  BY <1>1 DEF Touches
<1>4. Shaped(j, job'[j])
  BY <1>2, <1>3 DEF Shaped
<1>5. Stands(j, job[j])'
  BY <1>2, <1>3 DEF Stands, Lasting
<1>. QED  BY <1>1, <1>3, <1>4, <1>5, JobsTouched DEF Touches

LEMMA PodLosses ==
    ASSUME IInv, NEW j, LosePod(j)
    PROVE  spent'.runs <= spent'.faults
BY DEF LosePod, IInv, RunsBound, Spent

LEMMA JobFinishes ==
    ASSUME IInv, Lasting, NEW j \in DOMAIN job, Finish(j), j[1] = "block" => block' # None
    PROVE  JobShape' /\ Jobs' /\ Continues
<1>. JobShape /\ Jobs
  BY DEF IInv
<1>1. CASE LosePod(j)
  BY <1>1, PodLosses, PodEnds DEF LosePod
<1>2. CASE job' = [job EXCEPT ![j].state = "succeeded", ![j].step = "start", ![j].got = None]
  <2>1. Touches(j, "succeeded", "start", None)
    BY <1>2, SucceededJob, Zenon DEF JobShape
  <2>2. Shaped(j, job[j]) /\ Stands(j, job[j])
    BY DEF Jobs
  <2>3. /\ job'[j] \in JobRecord /\ job'[j].state = "succeeded" /\ job'[j].step = "start"
        /\ job'[j].got = None /\ job'[j].anchor = job[j].anchor
    BY <2>1 DEF Touches
  <2>4. Shaped(j, job'[j])
    BY <2>2, <2>3 DEF Shaped
  <2>5. Stands(j, job[j])'
    BY <2>2, <2>3 DEF Stands, Lasting
  <2>. QED  BY <2>1, <2>3, <2>4, <2>5, JobsTouched DEF Touches
<1>. QED  BY <1>1, <1>2 DEF Finish

\* A script moves on: the Job is active and has now reached this step.
LEMMA JobAdvances ==
    ASSUME IInv, Lasting, NEW j \in DOMAIN job, job[j].state = "active",
           NEW step \in {"fetched", "sent", "ran"}, NEW got \in GotType, Advance(j, step, got),
           j[1] = "block" => got \in Genesis,
           j[1] = "anchor" /\ step = "fetched" => got \in [version : Nat],
           j[1] = "anchor" => j[2] \in ledger'.members,
           j[1] = "add" =>
              /\ got \in Evidence /\ j[2][1] \in ledger'.members
              /\ got.outcome = "alreadyApplied" => j[2][2] \in ledger'.members,
           j[1] = "submit" /\ step = "ran" => j[2][2] \in ledger'.members,
           step = "ran" => Runs(j)
    PROVE  JobShape' /\ Jobs' /\ Continues
<1>. JobShape /\ Jobs
  BY DEF IInv
<1>1. Touches(j, "active", step, got)
  BY AdvancedJob DEF JobShape
<1>2. Shaped(j, job[j]) /\ Stands(j, job[j])
  BY DEF Jobs
<1>3. /\ job'[j] \in JobRecord /\ job'[j].state = "active" /\ job'[j].step = step
      /\ job'[j].got = got /\ job'[j].anchor = job[j].anchor
  BY <1>1 DEF Touches
<1>4. Shaped(j, job'[j])
  BY <1>2, <1>3 DEF Shaped
<1>5. Stands(j, job[j])'
  BY <1>2, <1>3, ZenonT(20) DEF Stands, Lasting
<1>. QED  BY <1>1, <1>3, <1>4, <1>5, JobsTouched

LEMMA GenerationStep ==
    ASSUME IInv, generateChannelBlock
    PROVE  JobShape' /\ Jobs' /\ Continues
<1>1. /\ JobShape /\ Jobs /\ BlockJob \in DOMAIN job
      /\ job[BlockJob].state = "active" /\ job[BlockJob].step = "start"
      /\ UNCHANGED <<ledger, block>>
  BY DEF IInv, generateChannelBlock, Running, fabric
<1>2. Shaped(BlockJob, job[BlockJob]) /\ Stands(BlockJob, job[BlockJob])
  BY <1>1 DEF Jobs
<1>3. PICK got \in Genesis : got = [id |-> spent.runs + 1, anchors |-> configtx]
  <2>1. spent.runs <= spent.faults /\ spent.runs \in Nat /\ spent.faults \in 0..MaxFaults
    BY <1>1, <1>2, JobNameIs DEF Stands, IInv, RunsBound, Spent
  <2>2. spent.runs + 1 \in 1..(MaxFaults + 1)
    BY <2>1, BoundsAreFinite
  <2>. QED  BY <2>2, ZenonT(20) DEF Genesis, IInv, KubernetesShape
<1>4. Touches(BlockJob, "active", "ran", got)
  BY <1>1, <1>3, AdvancedJob DEF generateChannelBlock, JobShape, GotType
<1>5. JobShape' /\ DOMAIN job' = DOMAIN job
  BY <1>1, <1>4 DEF JobShape, Touches
<1>6. ASSUME NEW n \in DOMAIN job
      PROVE  Shaped(n, job'[n]) /\ Stands(n, job[n])'
  <2>1. CASE n = BlockJob
    <3>1. job'[n] \in JobRecord /\ job'[n].state = "active" /\ job'[n].step = "ran" /\ job'[n].got = got
      BY <1>4, <2>1 DEF Touches
    <3>. QED  BY <2>1, <3>1, JobNameIs DEF Shaped, Stands
  <2>2. CASE n # BlockJob
    <3>1. Shaped(n, job[n]) /\ Stands(n, job[n]) /\ job'[n] = job[n] /\ n[1] # "block"
      BY <1>1, <1>4, <2>2, JobNameCases DEF Jobs, Touches, JobShape
    <3>. QED  BY <1>1, <3>1 DEF Stands
  <2>. QED  BY <2>1, <2>2
<1>7. Runs(BlockJob)
  BY JobNameIs DEF Runs
<1>8. Continues
  BY <1>1, <1>4, <1>7 DEF Continues, Touches
<1>. QED  BY <1>5, <1>6, <1>8 DEF Jobs

LEMMA JobLasting ==
    ASSUME IInv, Next, ~generateChannelBlock
    PROVE  Lasting
<1>1. spent'.runs = spent.runs /\ spent'.faults >= spent.faults
  BY SpentStep
<1>2. spent'.faults \in Nat /\ spent.faults \in Nat /\ spent.runs \in Nat
  BY SpentStep DEF IInv, RunsBound, Spent
<1>. QED  BY <1>1, <1>2, FabricStep, KubernetesStep DEF Lasting

LEMMA JobStepJobs ==
    ASSUME IInv, JobStep
    PROVE  JobShape' /\ Jobs' /\ Continues
<1>. DEFINE Goal == JobShape' /\ Jobs' /\ Continues
<1>1. CASE generateChannelBlock
  BY <1>1, GenerationStep
<1>. SUFFICES ASSUME ~generateChannelBlock
              PROVE  Goal
  BY <1>1
<1>2. /\ Lasting /\ JobShape /\ Jobs
      /\ ledger.members \subseteq ledger'.members
  BY JobLasting, FabricStep DEF Next, IInv
<1>3. None \in GotType /\ Genesis \subseteq GotType /\ Evidence \subseteq GotType /\ [version : Nat] \subseteq GotType
  BY DEF GotType
<1>. HIDE DEF Goal
<1>4. CASE publishChannelBlock
  <2>1. block' # None
    <3>1. Shaped(BlockJob, job[BlockJob]) /\ job[BlockJob].step = "ran"
      BY <1>4 DEF publishChannelBlock, Running, IInv, Jobs
    <3>. QED  BY <1>4, <3>1, JobNameIs, NoneIsNoValue DEF publishChannelBlock, Shaped
  <2>. QED  BY <1>2, <1>4, <2>1, JobFinishes DEF publishChannelBlock, Running, Goal
<1>5. ASSUME NEW o \in OrdererSet, joinOrderer(o)
      PROVE  Goal
  <2>1. /\ OrdererJob(o) \in DOMAIN job /\ job[OrdererJob(o)].state = "active"
        /\ Advance(OrdererJob(o), "ran", None)
    BY <1>5 DEF joinOrderer, Running
  <2>2. Runs(OrdererJob(o))
    BY <1>5, JobNameIs DEF Runs
  <2>. QED  BY <1>2, <1>3, <2>1, <2>2, JobAdvances, JobNameIs DEF Goal
<1>6. ASSUME NEW p \in OrgPeer, joinPeer(p)
      PROVE  Goal
  <2>1. /\ PeerJob(p) \in DOMAIN job /\ job[PeerJob(p)].state = "active"
        /\ Advance(PeerJob(p), "ran", None)
    BY <1>6, Zenon DEF joinPeer, Running
  <2>2. Runs(PeerJob(p))
    BY <1>6, JobNameIs DEF Runs
  <2>. QED  BY <1>2, <1>3, <2>1, <2>2, JobAdvances, JobNameIs DEF Goal
<1>7. ASSUME NEW g \in Org, fetchForAnchor(g)
      PROVE  Goal
  <2>1. ledger.anchorVersion[g] \in Nat
    BY DEF IInv, FabricShape, Ledger
  <2>2. PICK got \in [version : Nat] : got = [version |-> ledger.anchorVersion[g]]
    BY <2>1, ZenonT(20)
  <2>3. /\ AnchorJob(g) \in DOMAIN job /\ job[AnchorJob(g)].state = "active"
        /\ g \in ledger'.members
        /\ Advance(AnchorJob(g), "ran", None) \/ Advance(AnchorJob(g), "fetched", got)
    BY <1>7, <2>2, Zenon DEF fetchForAnchor, Running, fabric
  <2>4. got \in GotType /\ Runs(AnchorJob(g))
    BY <1>3, JobNameIs DEF Runs
  <2>5. CASE Advance(AnchorJob(g), "ran", None)
    BY <1>2, <1>3, <2>3, <2>4, <2>5, JobAdvances, JobNameIs DEF Goal
  <2>6. CASE Advance(AnchorJob(g), "fetched", got)
    BY <1>2, <2>3, <2>4, <2>6, JobAdvances, JobNameIs DEF Goal
  <2>. QED  BY <2>3, <2>5, <2>6
<1>8. ASSUME NEW g \in Org, updateAnchorPeer(g)
      PROVE  Goal
  <2>1. /\ AnchorJob(g) \in DOMAIN job /\ job[AnchorJob(g)].state = "active"
        /\ job[AnchorJob(g)].step = "fetched" /\ UNCHANGED ledger
        /\ Advance(AnchorJob(g), "ran", None)
    BY <1>8, ZenonT(20) DEF updateAnchorPeer, Running
  <2>2. g \in ledger'.members
    BY <1>2, <2>1, JobNameIs DEF Jobs, Stands
  <2>3. Runs(AnchorJob(g))
    BY JobNameIs DEF Runs
  <2>. QED  BY <1>2, <1>3, <2>1, <2>2, <2>3, JobAdvances, JobNameIs DEF Goal
<1>9. ASSUME NEW k \in AddKey, addLocalOrg(k)
      PROVE  Goal
  <2>0. PICK v \in Version, outcome \in {"alreadyApplied", "staged"} :
            /\ v = ledger.version
            /\ outcome = IF k[2] \in ledger.members THEN "alreadyApplied" ELSE "staged"
    BY LedgerVersion
  <2>1. PICK got \in Evidence : got = [outcome |-> outcome, version |-> v]
    BY Zenon DEF Evidence
  <2>2. /\ AddJob(k) \in DOMAIN job /\ job[AddJob(k)].state = "active"
        /\ k[1] \in ledger'.members /\ UNCHANGED ledger
        /\ Advance(AddJob(k), "ran", got)
    BY <1>9, <2>0, <2>1 DEF addLocalOrg, Running, fabric
  <2>3. got.outcome = "alreadyApplied" => k[2] \in ledger'.members
    BY <2>0, <2>1, <2>2
  <2>4. Runs(AddJob(k)) /\ got \in GotType
    BY <1>3, JobNameIs DEF Runs
  <2>. QED  BY <1>2, <2>2, <2>3, <2>4, JobAdvances, JobNameIs DEF Goal
<1>10. ASSUME NEW k \in SubmitKey, signedChannelUpdate(k) \/ observeMembership(k)
       PROVE  Goal
  <2>1. /\ SubmitJob(k) \in DOMAIN job /\ job[SubmitJob(k)].state = "active"
        /\ \/ Advance(SubmitJob(k), "ran", None) /\ k[2] \in ledger'.members
           \/ Advance(SubmitJob(k), "sent", None)
    BY <1>10 DEF signedChannelUpdate, observeMembership, Running, fabric
  <2>2. Runs(SubmitJob(k))
    BY JobNameIs DEF Runs
  <2>3. CASE Advance(SubmitJob(k), "ran", None) /\ k[2] \in ledger'.members
    BY <1>2, <1>3, <2>1, <2>2, <2>3, JobAdvances, JobNameIs, ZenonT(20) DEF Goal
  <2>4. CASE Advance(SubmitJob(k), "sent", None)
    BY <1>2, <1>3, <2>1, <2>2, <2>4, JobAdvances, JobNameIs DEF Goal
  <2>. QED  BY <2>1, <2>3, <2>4
<1>11. ASSUME NEW j, j[1] # "block", Running(j, "ran"), Finish(j)
       PROVE  Goal
  BY <1>2, <1>11, JobFinishes DEF Running, Goal
<1>12. ASSUME NEW j \in DOMAIN job, j[1] # "block", PodFails(j)
       PROVE  Goal
  BY <1>2, <1>12, PodEnds DEF PodFails, Goal
<1>13. (\E o \in OrdererSet : publishOrdererJoinResult(o)) => Goal
  BY <1>11, JobNameIs DEF publishOrdererJoinResult
<1>14. (\E p \in OrgPeer : publishPeerJoinResult(p)) => Goal
  BY <1>11, JobNameIs DEF publishPeerJoinResult
<1>15. (\E g \in Org : publishAnchorPeerUpdateResult(g) \/ AnchorFails(g)) => Goal
  BY <1>11, <1>12, JobNameIs DEF publishAnchorPeerUpdateResult, AnchorFails, AnchorStuck, Running
<1>16. (\E k \in AddKey : publishLocalOrgAddResult(k)) => Goal
  BY <1>11, JobNameIs DEF publishLocalOrgAddResult
<1>17. (\E k \in SubmitKey : publishSignedUpdateResult(k) \/ SubmitFails(k)) => Goal
  BY <1>11, <1>12, JobNameIs, Zenon DEF publishSignedUpdateResult, SubmitFails, SubmitStuck, Running
<1>18. CASE GenerationFails
  <2>1. /\ BlockJob \in DOMAIN job /\ job[BlockJob].state = "active" /\ job[BlockJob].step = "start"
        /\ job' = AfterPod(BlockJob) /\ UNCHANGED spent
    BY <1>18 DEF GenerationFails, Running, PodFails
  <2>2. spent'.runs <= spent'.faults
    BY <1>2, <2>1, JobNameIs DEF Jobs, Stands
  <2>. QED  BY <1>2, <2>1, <2>2, PodEnds DEF Goal
<1>19. Goal
  BY <1>4, <1>5, <1>6, <1>7, <1>8, <1>9, <1>10, <1>13, <1>14, <1>15, <1>16, <1>17, <1>18,
     Zenon DEF JobStep
<1>. QED  BY <1>19 DEF Goal

LEMMA ReconcileJobs ==
    ASSUME IInv, ReconcileStep
    PROVE  JobShape' /\ Jobs' /\ Continues
<1>. DEFINE Goal == JobShape' /\ Jobs' /\ Continues
<1>1. /\ Lasting /\ JobShape /\ Jobs /\ UNCHANGED <<block, spent>>
      /\ pass \in Pass
  <2>1. ~generateChannelBlock \/ UNCHANGED spent
    BY ReconcileFrame
  <2>2. UNCHANGED <<ledger, block, spent>>
    BY ReconcileFrame DEF fabric
  <2>. QED  BY <2>2 DEF Lasting, IInv, PassShape
<1>. HIDE DEF Goal
<1>2. ASSUME UNCHANGED job
      PROVE  Goal
  BY <1>1, <1>2, JobsFrame DEF Goal
<1>3. ASSUME reconcileChannelBlockGeneration
      PROVE  Goal
  <2>1. CASE block # None
    BY <1>2, <1>3, <2>1 DEF reconcileChannelBlockGeneration
  <2>2. CASE block = None
    <3>1. job' = ensureJob(BlockJob, None) /\ Begins(BlockJob)
      BY <1>3, <2>2, JobNameIs DEF reconcileChannelBlockGeneration, Begins
    <3>2. CASE BlockJob \in DOMAIN job
      <4>1. job' = job
        BY <1>1, <3>1, <3>2 DEF ensureJob, JobShape
      <4>. QED  BY <1>2, <4>1
    <3>3. CASE BlockJob \notin DOMAIN job
      <4>1. spent'.runs <= spent'.faults
        BY <1>1, <2>2, <3>3 DEF IInv, RunsBound
      <4>. QED  BY <1>1, <3>1, <4>1, JobsEnsured, JobNameIs, JobNameHas DEF Goal
    <3>. QED  BY <3>2, <3>3
  <2>. QED  BY <2>1, <2>2
<1>4. ASSUME reconcileOrdererJoins
      PROVE  Goal
  <2>1. CASE pass.i > Len(Orderer) \/ Orderer[pass.i] \in ordererResult
    BY <1>2, <1>4, <2>1, Zenon DEF reconcileOrdererJoins
  <2>2. CASE ~(pass.i > Len(Orderer) \/ Orderer[pass.i] \in ordererResult)
    <3>1. Orderer[pass.i] \in OrdererSet /\ pass.at = "orderers"
      BY <1>1, <1>4, <2>2, OrdererIs DEF reconcileOrdererJoins, At, Pass
    <3>2. PICK j \in JobName : j = OrdererJob(Orderer[pass.i])
      BY <3>1, JobNameHas
    <3>3. job' = ensureJob(j, None) /\ j[1] = "orderer" /\ Begins(j)
      BY <1>4, <2>2, <3>2, JobNameIs, Zenon DEF reconcileOrdererJoins, Begins
    <3>4. block' # None
      BY <1>1, <3>1 DEF IInv, PassShape
    <3>. QED  BY <1>1, <3>3, <3>4, JobsEnsured DEF Goal
  <2>. QED  BY <2>1, <2>2
<1>5. ASSUME reconcileLocalOrgAdd
      PROVE  Goal
  <2>1. CASE UNCHANGED job
    BY <1>2, <2>1
  <2>2. CASE job' # job
    <3>1. pass.at = "add" /\ pass.i <= Len(pass.todo)
      <4>1. pass.at = "add" /\ ~(pass.i > Len(pass.todo))
        BY <1>5, <2>2, Zenon DEF reconcileLocalOrgAdd, At
      <4>. QED  BY <4>1, PassFields
    <3>2. pass.i \in DOMAIN pass.todo /\ pass.todo[pass.i] \in Org
      BY <1>1, <3>1 DEF Pass
    <3>3. PICK g \in Org : g = pass.todo[pass.i]
      BY <3>2
    <3>4. PICK a \in Org : a = pass.admin /\ a # g
      BY <3>1, <3>2, <3>3 DEF IInv, PassSorts
    <3>5. PICK k \in AddKey : k = <<a, g>>
      BY <3>4, ZenonT(20) DEF AddKey
    <3>6. PICK e \in Envelope \cup {None} : e = pass.spec.signed[g] /\ (e # None => e.name = g)
      BY <3>1 DEF IInv, PassShape, ChannelSpec, Signs
    <3>7. \/ job' = ensureJob(AddJob(k), None)
          \/ /\ addResult[k] # None /\ e # None
             /\ job' = ensureJob(SubmitJob(<<a, g, addResult[k].version, e>>), None)
      BY <1>5, <2>2, <3>1, <3>3, <3>4, <3>5, <3>6, Zenon DEF reconcileLocalOrgAdd
    <3>8. CASE job' = ensureJob(AddJob(k), None)
      <4>1. Begins(AddJob(k))
        BY <1>5, JobNameIs DEF Begins
      <4>. QED  BY <1>1, <3>8, <4>1, JobsEnsured, JobNameIs, JobNameHas DEF Goal
    <3>9. ASSUME addResult[k] # None, e # None,
                 job' = ensureJob(SubmitJob(<<a, g, addResult[k].version, e>>), None)
          PROVE  Goal
      <4>1. addResult[k].version \in Version
        BY <3>9 DEF IInv, ResultShape, Evidence
      <4>2. PICK s \in SubmitKey : s = <<a, g, addResult[k].version, e>>
        BY <3>4, <3>6, <3>9, <4>1 DEF SubmitKey
      <4>3. Begins(SubmitJob(s))
        BY <1>5, JobNameIs DEF Begins
      <4>. QED  BY <1>1, <3>9, <4>2, <4>3, JobsEnsured, JobNameIs, JobNameHas, Zenon DEF Goal
    <3>. QED  BY <3>7, <3>8, <3>9
  <2>. QED  BY <2>1, <2>2
<1>6. ASSUME reconcilePeerJoins
      PROVE  Goal
  <2>1. CASE UNCHANGED job
    BY <1>2, <2>1
  <2>2. CASE job' # job
    <3>1. pass.at = "peers" /\ pass.i <= Len(Declared)
      <4>1. pass.at = "peers" /\ ~(pass.i > Len(Declared))
        BY <1>6, <2>2, Zenon DEF reconcilePeerJoins, At
      <4>. QED  BY <4>1, PassFields
    <3>2. Entry.name \in Org /\ Entry.peers[pass.k] \in Peer
      <4>1. Declared \in Declaration /\ pass.k <= Len(Entry.peers) /\ pass.k >= 1 /\ pass.i >= 1
            /\ pass.k \in Nat /\ pass.i \in Nat
        BY <1>1, <3>1, PassReads DEF IInv, PassShape, Pass
      <4>. QED  BY <3>1, <4>1, DeclarationIs DEF Entry
    <3>3. PICK p \in OrgPeer : p = <<Entry.name, Entry.peers[pass.k]>>
      BY <3>2, Zenon DEF OrgPeer
    <3>4. job' = ensureJob(PeerJob(p), None)
      BY <1>6, <2>2, <3>1, <3>3, Zenon DEF reconcilePeerJoins
    <3>5. Begins(PeerJob(p))
      BY <1>6, JobNameIs DEF Begins
    <3>. QED  BY <1>1, <3>4, <3>5, JobsEnsured, JobNameIs, JobNameHas DEF Goal
  <2>. QED  BY <2>1, <2>2
<1>7. ASSUME reconcileAnchorPeerUpdates
      PROVE  Goal
  <2>1. CASE UNCHANGED job
    BY <1>2, <2>1
  <2>2. CASE job' # job
    <3>1. pass.at = "anchors" /\ pass.i <= Len(Declared)
      <4>1. pass.at = "anchors" /\ ~(pass.i > Len(Declared))
        BY <1>7, <2>2, Zenon DEF reconcileAnchorPeerUpdates, At
      <4>. QED  BY <4>1, PassFields
    <3>2. Entry.name \in Org /\ channelAnchorPeerForOrg(Entry) \in Peer
      <4>1. Declared \in Declaration /\ pass.i >= 1 /\ pass.i \in Nat
        BY <1>1, <3>1, PassReads DEF Pass
      <4>. QED  BY <3>1, <4>1, DeclarationIs DEF Entry, channelAnchorPeerForOrg
    <3>3. PICK j \in JobName, a \in Peer :
              j = AnchorJob(Entry.name) /\ a = channelAnchorPeerForOrg(Entry)
      BY <3>2, JobNameHas
    <3>4. job' = ensureJob(j, a) /\ j[1] = "anchor" /\ Begins(j)
      BY <1>7, <2>2, <3>1, <3>3, JobNameIs, Zenon DEF reconcileAnchorPeerUpdates, Begins
    <3>. QED  BY <1>1, <3>4, JobsEnsured DEF Goal
  <2>. QED  BY <2>1, <2>2
<1>8. ASSUME ReportStatus
      PROVE  Goal
  <2>1. PICK old \in SUBSET DOMAIN job : Expired(old) /\ job' = Without(old)
    BY <1>8 DEF ReportStatus
  <2>2. \A n \in DOMAIN job \cap old : job[n].state # "active"
    BY <2>1 DEF Expired
  <2>. QED  BY <1>1, <2>1, <2>2, JobsRemain DEF Goal
<1>9. StartPass \/ channelBlockReadiness \/ reconcileLocalOrgAdditions => Goal
  BY <1>2, Zenon DEF StartPass, channelBlockReadiness, reconcileLocalOrgAdditions, kubernetes
<1>10. Goal
  BY <1>3, <1>4, <1>5, <1>6, <1>7, <1>8, <1>9 DEF ReconcileStep
<1>. QED  BY <1>10 DEF Goal

LEMMA JobsStep ==
    ASSUME IInv, Next
    PROVE  JobShape' /\ Jobs' /\ Continues
<1>1. CASE ReconcileStep
  BY <1>1, ReconcileJobs
<1>2. CASE JobStep
  BY <1>2, JobStepJobs
<1>. SUFFICES ASSUME Fault \/ Others
              PROVE  JobShape' /\ Jobs' /\ Continues
  BY <1>1, <1>2 DEF Next
<1>3. Lasting /\ JobShape /\ Jobs
  <2>1. spent'.runs = spent.runs
    BY FaultWrites, OthersWrite, ZenonT(20) DEF IInv, RunsBound, Spent, OtherMembershipChange, DeleteFailedJob
  <2>2. spent'.faults >= spent.faults /\ spent'.faults \in Nat /\ spent.faults \in Nat /\ spent.runs \in Nat
    BY SpentStep DEF IInv, RunsBound, Spent
  <2>. QED  BY <2>1, <2>2, FabricStep, KubernetesStep DEF Lasting, IInv
<1>4. CASE UNCHANGED job
  BY <1>3, <1>4, JobsFrame
<1>5. ASSUME NEW j \in DOMAIN job, PodLost(j)
      PROVE  JobShape' /\ Jobs' /\ Continues
  BY <1>3, <1>5, PodLosses, PodEnds DEF PodLost, LosePod
<1>6. ASSUME NEW j \in DOMAIN job, DeleteFailedJob(j)
      PROVE  JobShape' /\ Jobs' /\ Continues
  BY <1>3, <1>6, JobsRemain DEF DeleteFailedJob
<1>. QED  BY <1>4, <1>5, <1>6, FaultWrites, OthersWrite

LEMMA RunsStep ==
    ASSUME IInv, Next
    PROVE  RunsBound'
<1>1. /\ spent' \in Spent /\ spent'.faults >= spent.faults
      /\ spent.runs \in Nat /\ spent.faults \in Nat /\ spent'.runs \in Nat /\ spent'.faults \in Nat
      /\ RunsBound /\ Jobs
  BY SpentStep DEF IInv, RunsBound, Spent
<1>2. CASE generateChannelBlock
  <2>1. /\ BlockJob \in DOMAIN job /\ job[BlockJob].state = "active" /\ job[BlockJob].step = "start"
        /\ spent'.runs = spent.runs + 1 /\ spent'.faults = spent.faults
    BY <1>1, <1>2 DEF generateChannelBlock, Running, RunsBound, Spent
  <2>2. spent.runs <= spent.faults
    BY <1>1, <2>1, JobNameIs DEF Jobs, Stands
  <2>3. BlockJob \in DOMAIN job'
    BY <2>1, JobsStep DEF Continues
  <2>. QED  BY <1>1, <2>1, <2>2, <2>3 DEF RunsBound
<1>3. CASE ~generateChannelBlock
  <2>1. spent'.runs = spent.runs
    BY <1>3, SpentStep
  <2>2. ASSUME block' = None, BlockJob \notin DOMAIN job'
        PROVE  spent'.runs <= spent'.faults
    <3>1. block = None
      BY <2>2, KubernetesStep
    <3>2. CASE BlockJob \notin DOMAIN job
      BY <1>1, <2>1, <3>1, <3>2 DEF RunsBound
    <3>3. CASE BlockJob \in DOMAIN job
      <4>1. job[BlockJob].state # "active"
        BY <2>2, <3>3, JobsStep DEF Continues
      <4>2. job[BlockJob].step = "start" /\ Stands(BlockJob, job[BlockJob])
        BY <1>1, <3>3, <4>1 DEF Jobs, Shaped
      <4>. QED  BY <1>1, <2>1, <3>1, <4>2, JobNameIs DEF Stands
    <3>. QED  BY <3>2, <3>3
  <2>. QED  BY <1>1, <2>1, <2>2 DEF RunsBound
<1>. QED  BY <1>2, <1>3
-----------------------------------------------------------------------------
(* The controller's pass, field by field. *)

Goes(step) ==
    /\ pass' \in Pass /\ pass'.spec = pass.spec /\ Declared' = Declared
    /\ pass'.at = step /\ pass'.i = 1 /\ pass'.k = 1 /\ pass'.ok = TRUE
    /\ pass'.admin = pass.admin /\ pass'.todo = pass.todo
Reports(ready) ==
    /\ pass' \in Pass /\ pass'.spec = pass.spec /\ Declared' = Declared
    /\ pass'.at = "report" /\ pass'.ok = ready
Moves(i, k, ok, admin, todo) ==
    /\ pass' \in Pass /\ pass'.spec = pass.spec /\ Declared' = Declared
    /\ pass'.at = pass.at /\ pass'.i = i /\ pass'.k = k /\ pass'.ok = ok
    /\ pass'.admin = admin /\ pass'.todo = todo

LEMMA GoToIs ==
    ASSUME pass \in Pass,
           NEW step \in {"block", "orderers", "receipts", "add", "peers", "anchors"}, pass' = GoTo(step)
    PROVE  Goes(step)
<1>1. 1 \in Nat \ {0} /\ TRUE \in BOOLEAN
  OBVIOUS
<1>. QED  BY <1>1, Zenon DEF GoTo, Goes, Pass, Declared

LEMMA ReportIs ==
    ASSUME pass \in Pass, NEW ready \in BOOLEAN, pass' = Report(ready)
    PROVE  Reports(ready)
BY Zenon DEF Report, Reports, Pass, Declared

LEMMA MoveIs ==
    ASSUME pass \in Pass, NEW i \in Nat \ {0}, NEW k \in Nat \ {0}, NEW ok \in BOOLEAN,
           NEW admin \in Org \cup {None}, NEW todo \in Seq(Org)
    PROVE  /\ pass' = [pass EXCEPT !.i = i]
              => Moves(i, pass.k, pass.ok, pass.admin, pass.todo)
           /\ pass' = [pass EXCEPT !.i = i, !.ok = ok]
              => Moves(i, pass.k, ok, pass.admin, pass.todo)
           /\ pass' = [pass EXCEPT !.k = k, !.ok = ok]
              => Moves(pass.i, k, ok, pass.admin, pass.todo)
           /\ pass' = [pass EXCEPT !.i = i, !.k = k, !.ok = ok]
              => Moves(i, k, ok, pass.admin, pass.todo)
           /\ pass' = [pass EXCEPT !.i = i, !.todo = todo]
              => Moves(i, pass.k, pass.ok, pass.admin, todo)
           /\ pass' = [pass EXCEPT !.i = i, !.admin = admin]
              => Moves(i, pass.k, pass.ok, admin, pass.todo)
<1>1. pass' = [pass EXCEPT !.i = i] => Moves(i, pass.k, pass.ok, pass.admin, pass.todo)
  BY Zenon DEF Moves, Pass, Declared
<1>2. pass' = [pass EXCEPT !.i = i, !.ok = ok] => Moves(i, pass.k, ok, pass.admin, pass.todo)
  BY Zenon DEF Moves, Pass, Declared
<1>3. pass' = [pass EXCEPT !.k = k, !.ok = ok] => Moves(pass.i, k, ok, pass.admin, pass.todo)
  BY Zenon DEF Moves, Pass, Declared
<1>4. pass' = [pass EXCEPT !.i = i, !.k = k, !.ok = ok] => Moves(i, k, ok, pass.admin, pass.todo)
  BY Zenon DEF Moves, Pass, Declared
<1>5. pass' = [pass EXCEPT !.i = i, !.todo = todo] => Moves(i, pass.k, pass.ok, pass.admin, todo)
  BY Zenon DEF Moves, Pass, Declared
<1>6. pass' = [pass EXCEPT !.i = i, !.admin = admin] => Moves(i, pass.k, pass.ok, admin, pass.todo)
  BY Zenon DEF Moves, Pass, Declared
<1>. QED  BY <1>1, <1>2, <1>3, <1>4, <1>5, <1>6

\* The step to the next position in a loop of the pass.
Onward(ok) == Moves(pass.i + 1, pass.k, ok, pass.admin, pass.todo)

LEMMA PassIncrements ==
    ASSUME IInv
    PROVE  /\ pass \in Pass /\ pass.i + 1 \in Nat \ {0} /\ pass.k + 1 \in Nat \ {0} /\ 1 \in Nat \ {0}
           /\ pass.ok \in BOOLEAN /\ TRUE \in BOOLEAN /\ FALSE \in BOOLEAN
<1>1. pass.ok \in BOOLEAN
  BY PassFields, Zenon DEF Pass
<1>. QED  BY <1>1, PassFields

LEMMA StartPassIs ==
    ASSUME IInv, StartPass
    PROVE  /\ pass.at = "idle" /\ pass' \in Pass /\ pass'.at = "generate"
           /\ pass'.spec = spec /\ pass'.todo = <<>> /\ pass'.admin = None
           /\ Declared' = spec.orgs
<1>1. spec \in ChannelSpec
  BY DEF IInv, SpecShape
<1>2. pass' = [at |-> "generate", spec |-> spec, i |-> 1, k |-> 1, ok |-> TRUE,
               admin |-> None, todo |-> <<>>]
  BY Zenon DEF StartPass, Idle
<1>3. pass' \in Pass
  <2>1. <<>> \in Seq(Org)
    OBVIOUS
  <2>2. 1 \in Nat \ {0}
    OBVIOUS
  <2>. QED  BY <1>1, <1>2, <2>1, <2>2, Zenon DEF Pass
<1>4. pass'.at = "generate" /\ pass'.spec = spec /\ pass'.todo = <<>> /\ pass'.admin = None
  BY <1>2, Zenon
<1>5. pass.at = "idle"
  BY DEF StartPass, At
<1>. QED  BY <1>3, <1>4, <1>5, Zenon DEF Declared

LEMMA GenerationIs ==
    ASSUME IInv, reconcileChannelBlockGeneration
    PROVE  pass.at = "generate" /\ Goes("block")
BY PassIncrements, GoToIs DEF reconcileChannelBlockGeneration, At

LEMMA channelBlockReadinessIs ==
    ASSUME IInv, channelBlockReadiness
    PROVE  /\ pass.at = "block"
           /\ Reports(FALSE) \/ (block # None /\ Goes("orderers"))
BY PassIncrements, GoToIs, ReportIs, Zenon DEF channelBlockReadiness, At

LEMMA reconcileOrdererJoinsIs ==
    ASSUME IInv, reconcileOrdererJoins
    PROVE  /\ pass.at = "orderers"
           /\ \/ pass.i > Len(Orderer) /\ pass.ok /\ Goes("receipts")
              \/ Reports(FALSE)
              \/ /\ pass.i \in DOMAIN Orderer
                 /\ Orderer[pass.i] \in ordererResult /\ Onward(pass.ok)
              \/ pass.i \in DOMAIN Orderer /\ Onward(FALSE)
<1>1. pass.at = "orderers"
  BY DEF reconcileOrdererJoins, At
<1>2. CASE pass.i > Len(Orderer)
  <2>1. pass' = IF pass.ok THEN GoTo("receipts") ELSE Report(FALSE)
    BY <1>2, ZenonT(20) DEF reconcileOrdererJoins
  <2>. QED  BY <1>1, <1>2, <2>1, PassIncrements, GoToIs, ReportIs, Zenon
<1>3. CASE ~(pass.i > Len(Orderer))
  <2>1. pass.i \in DOMAIN Orderer
    BY <1>3, OrdererIs, PassFields
  <2>2. \/ Orderer[pass.i] \in ordererResult /\ pass' = [pass EXCEPT !.i = pass.i + 1]
        \/ pass' = Report(FALSE)
        \/ pass' = [pass EXCEPT !.i = pass.i + 1, !.ok = FALSE]
    BY <1>3, Zenon DEF reconcileOrdererJoins
  <2>. QED  BY <1>1, <2>1, <2>2, PassIncrements, PassFields, MoveIs, ReportIs, Zenon DEF Onward
<1>. QED  BY <1>2, <1>3, Zenon

LEMMA reconcileLocalOrgAdditionsIs ==
    ASSUME IInv, reconcileLocalOrgAdditions
    PROVE  /\ pass.at = "receipts"
           /\ \/ pass.i > Len(Declared) /\ (pass.admin = None \/ pass.todo = <<>>) /\ Goes("peers")
              \/ pass.i > Len(Declared) /\ pass.admin # None /\ pass.todo # <<>> /\ Goes("add")
              \/ /\ pass.i \in DOMAIN Declared /\ Entry.name \in Org /\ ~HasReceipt(Entry)
                 /\ Moves(pass.i + 1, pass.k, pass.ok, pass.admin, Append(pass.todo, Entry.name))
              \/ /\ pass.i \in DOMAIN Declared /\ Entry.name \in Org /\ HasReceipt(Entry)
                 /\ Moves(pass.i + 1, pass.k, pass.ok,
                          IF pass.admin = None THEN Entry.name ELSE pass.admin, pass.todo)
<1>1. pass.at = "receipts"
  BY DEF reconcileLocalOrgAdditions, At
<1>2. CASE pass.i > Len(Declared)
  <2>1. pass' = IF pass.admin = None \/ pass.todo = <<>> THEN GoTo("peers") ELSE GoTo("add")
    BY <1>2 DEF reconcileLocalOrgAdditions
  <2>. QED  BY <1>1, <1>2, <2>1, PassIncrements, GoToIs, Zenon
<1>3. CASE ~(pass.i > Len(Declared))
  <2>1. pass.i \in DOMAIN Declared
    BY <1>1, <1>3, PassFields
  <2>2. Entry.name \in Org
    BY <1>1, <2>1, PassReads, DeclarationIs DEF Entry
  <2>3. PICK todo \in Seq(Org), admin \in Org \cup {None} :
            /\ todo = Append(pass.todo, Entry.name)
            /\ admin = IF pass.admin = None THEN Entry.name ELSE pass.admin
    <3>1. pass.admin \in Org \cup {None}
      BY PassFields, Zenon DEF Pass
    <3>2. Append(pass.todo, Entry.name) \in Seq(Org)
      BY <2>2, PassFields
    <3>. QED  BY <2>2, <3>1, <3>2, Zenon
  <2>4. \/ ~HasReceipt(Entry) /\ pass' = [pass EXCEPT !.i = pass.i + 1, !.todo = todo]
        \/ HasReceipt(Entry) /\ pass' = [pass EXCEPT !.i = pass.i + 1, !.admin = admin]
    BY <1>3, <2>3 DEF reconcileLocalOrgAdditions
  <2>. QED  BY <1>1, <2>1, <2>2, <2>3, <2>4, PassIncrements, MoveIs, ZenonT(20)
<1>. QED  BY <1>2, <1>3, Zenon

LEMMA reconcileLocalOrgAddIs ==
    ASSUME IInv, reconcileLocalOrgAdd
    PROVE  /\ pass.at = "add"
           /\ \/ pass.i > Len(pass.todo) /\ Goes("peers")
              \/ Reports(FALSE)
              \/ /\ pass.i \in DOMAIN pass.todo
                 /\ Admitted(<<pass.admin, pass.todo[pass.i]>>, pass.spec.signed[pass.todo[pass.i]])
                 /\ Onward(pass.ok)
<1>1. pass.at = "add"
  BY DEF reconcileLocalOrgAdd, At
<1>2. CASE pass.i > Len(pass.todo)
  BY <1>1, <1>2, PassIncrements, GoToIs, Zenon DEF reconcileLocalOrgAdd
<1>3. CASE ~(pass.i > Len(pass.todo))
  <2>1. pass.i \in DOMAIN pass.todo
    BY <1>3, PassFields
  <2>2. \/ pass' = Report(FALSE)
        \/ /\ Admitted(<<pass.admin, pass.todo[pass.i]>>, pass.spec.signed[pass.todo[pass.i]])
           /\ pass' = [pass EXCEPT !.i = pass.i + 1]
    BY <1>3, Zenon DEF reconcileLocalOrgAdd
  <2>. QED  BY <1>1, <2>1, <2>2, PassIncrements, PassFields, MoveIs, ReportIs, ZenonT(20) DEF Onward
<1>. QED  BY <1>2, <1>3, Zenon

\* From a peer to the one after it.
ToNextPeer(ok) ==
    \/ pass.k < Len(Entry.peers) /\ Moves(pass.i, pass.k + 1, ok, pass.admin, pass.todo)
    \/ ~(pass.k < Len(Entry.peers)) /\ Moves(pass.i + 1, 1, ok, pass.admin, pass.todo)

LEMMA reconcilePeerJoinsIs ==
    ASSUME IInv, reconcilePeerJoins
    PROVE  /\ pass.at = "peers"
           /\ \/ pass.i > Len(Declared) /\ pass.ok /\ Goes("anchors")
              \/ Reports(FALSE)
              \/ /\ pass.i \in DOMAIN Declared
                 /\ \/ <<Entry.name, Entry.peers[pass.k]>> \in peerResult /\ ToNextPeer(pass.ok)
                    \/ ToNextPeer(FALSE)
<1>1. pass.at = "peers"
  BY DEF reconcilePeerJoins, At
<1>2. CASE pass.i > Len(Declared)
  <2>1. pass' = IF pass.ok THEN GoTo("anchors") ELSE Report(FALSE)
    BY <1>2, Zenon DEF reconcilePeerJoins
  <2>. QED  BY <1>1, <1>2, <2>1, PassIncrements, GoToIs, ReportIs, Zenon
<1>3. CASE ~(pass.i > Len(Declared))
  <2>1. pass.i \in DOMAIN Declared
    BY <1>1, <1>3, PassFields
  <2>2. \/ <<Entry.name, Entry.peers[pass.k]>> \in peerResult /\ pass' = NextPeer(pass.ok)
        \/ pass' = Report(FALSE)
        \/ pass' = NextPeer(FALSE)
    BY <1>3, Zenon DEF reconcilePeerJoins, peerJoinResultReadiness
  <2>3. ASSUME NEW ok \in BOOLEAN, pass' = NextPeer(ok)
        PROVE  ToNextPeer(ok)
    <3>1. CASE pass.k < Len(Entry.peers)
      <4>1. pass' = [pass EXCEPT !.k = pass.k + 1, !.ok = ok]
        BY <2>3, <3>1 DEF NextPeer
      <4>. QED  BY <3>1, <4>1, PassIncrements, PassFields, MoveIs, ZenonT(20) DEF ToNextPeer
    <3>2. CASE ~(pass.k < Len(Entry.peers))
      <4>1. pass' = [pass EXCEPT !.i = pass.i + 1, !.k = 1, !.ok = ok]
        BY <2>3, <3>2 DEF NextPeer
      <4>. QED  BY <3>2, <4>1, PassIncrements, PassFields, MoveIs, Zenon DEF ToNextPeer
    <3>. QED  BY <3>1, <3>2
  <2>. QED  BY <1>1, <2>1, <2>2, <2>3, PassIncrements, ReportIs, Zenon
<1>. QED  BY <1>2, <1>3, Zenon

LEMMA reconcileAnchorPeerUpdatesIs ==
    ASSUME IInv, reconcileAnchorPeerUpdates
    PROVE  /\ pass.at = "anchors"
           /\ \/ pass.i > Len(Declared) /\ Reports(TRUE)
              \/ Reports(FALSE)
              \/ /\ pass.i \in DOMAIN Declared
                 /\ anchorPeerUpdateResultMatches(Entry) /\ Onward(pass.ok)
<1>1. pass.at = "anchors"
  BY DEF reconcileAnchorPeerUpdates, At
<1>2. CASE pass.i > Len(Declared)
  BY <1>1, <1>2, PassIncrements, ReportIs, ZenonT(20) DEF reconcileAnchorPeerUpdates
<1>3. CASE ~(pass.i > Len(Declared))
  <2>1. pass.i \in DOMAIN Declared
    BY <1>1, <1>3, PassFields
  <2>2. \/ pass' = Report(FALSE)
        \/ anchorPeerUpdateResultMatches(Entry) /\ pass' = [pass EXCEPT !.i = pass.i + 1]
    BY <1>3, Zenon DEF reconcileAnchorPeerUpdates
  <2>. QED  BY <1>1, <2>1, <2>2, PassIncrements, PassFields, MoveIs, ReportIs, ZenonT(20) DEF Onward
<1>. QED  BY <1>2, <1>3, Zenon

LEMMA IdleIs ==
    ASSUME pass' = Idle
    PROVE  pass' \in Pass /\ pass'.at = "idle"
BY DEF Idle, Pass

\* The steps that end a pass early.
LEMMA FaultPasses ==
    ASSUME IInv, Fault
    PROVE  \/ UNCHANGED pass
           \/ pass.at = "generate" /\ Reports(FALSE)
           \/ pass' \in Pass /\ pass'.at = "idle"
<1>1. AwaitComponents => pass.at = "generate" /\ Reports(FALSE)
  BY PassIncrements, ReportIs, ZenonT(20) DEF AwaitComponents, At
<1>2. AbandonPass => pass' \in Pass /\ pass'.at = "idle"
  BY IdleIs DEF AbandonPass
<1>. QED  BY <1>1, <1>2, FaultWrites, Zenon

\* The positions of a pass, and what it has read: kept by any step.
LEMMA PassStep ==
    ASSUME IInv, Next
    PROVE  PassShape'
<1>1. PassShape /\ (block # None => block' # None)
  BY KubernetesStep DEF IInv
<1>2. CASE UNCHANGED pass
  BY <1>1, <1>2, Zenon DEF PassShape, Declared, Entry, Signs
<1>3. CASE pass' \in Pass /\ pass'.at = "idle"
  BY <1>3 DEF PassShape
<1>4. ASSUME Reports(TRUE) \/ Reports(FALSE), pass.at # "idle"
      PROVE  PassShape'
  BY <1>1, <1>4 DEF PassShape, Reports, Signs
<1>5. ASSUME NEW step, Goes(step), pass.at # "idle",
             \/ pass.at = "generate" /\ step = "block"
             \/ pass.at = "block" /\ step = "orderers" /\ block # None
             \/ pass.at \in {"orderers", "receipts", "add", "peers"} /\ step \in {"receipts", "add", "anchors"}
      PROVE  PassShape'
  BY <1>1, <1>5 DEF PassShape, Goes, Signs
<1>6. ASSUME Goes("peers"), pass.at \in {"receipts", "add"}
      PROVE  PassShape'
  <2>1. Declared \in Declaration
    BY <1>6, PassReads
  <2>2. pass'.i <= Len(Declared') => pass'.k <= Len(Entry'.peers)
    BY <1>6, <2>1, DeclarationIs DEF Goes, Entry
  <2>. QED  BY <1>1, <1>6, <2>2 DEF PassShape, Goes, Signs
<1>7. ASSUME NEW i, NEW k, NEW ok, NEW admin, NEW todo, Moves(i, k, ok, admin, todo),
             pass.at \in {"receipts", "add", "anchors"}
      PROVE  PassShape'
  BY <1>1, <1>7 DEF PassShape, Moves, Signs
<1>8. ASSUME Onward(TRUE) \/ Onward(FALSE), pass.at = "orderers"
      PROVE  PassShape'
  BY <1>1, <1>8 DEF PassShape, Onward, Moves, Signs
<1>9. ASSUME ToNextPeer(TRUE) \/ ToNextPeer(FALSE), pass.at = "peers", pass.i \in DOMAIN Declared
      PROVE  PassShape'
  <2>1. Declared \in Declaration
    BY <1>9, PassReads
  <2>2. /\ pass' \in Pass /\ pass'.spec = pass.spec /\ Declared' = Declared /\ pass'.at = "peers"
        /\ \/ pass.k < Len(Entry.peers) /\ pass'.i = pass.i /\ pass'.k = pass.k + 1
           \/ pass'.i = pass.i + 1 /\ pass'.k = 1
    BY <1>9 DEF ToNextPeer, Moves
  <2>3. pass'.i <= Len(Declared') => pass'.k <= Len(Entry'.peers)
    <3>1. CASE pass.k < Len(Entry.peers) /\ pass'.i = pass.i /\ pass'.k = pass.k + 1
      <4>1. Len(Entry.peers) \in Nat /\ Entry' = Entry
        BY <1>9, <2>1, <2>2, <3>1, DeclarationIs DEF Entry
      <4>. QED  BY <3>1, <4>1, PassFields
    <3>2. CASE pass'.i = pass.i + 1 /\ pass'.k = 1
      BY <2>1, <2>2, <3>2, DeclarationIs, PassFields DEF Entry
    <3>. QED  BY <2>2, <3>1, <3>2
  <2>. QED  BY <1>1, <1>9, <2>2, <2>3 DEF PassShape, Signs
<1>10. StartPass => PassShape'
  BY <1>1, StartPassIs DEF PassShape, Signs, IInv, SpecShape
<1>11. reconcileChannelBlockGeneration => PassShape'
  BY <1>5, GenerationIs
<1>12. channelBlockReadiness => PassShape'
  BY <1>4, <1>5, channelBlockReadinessIs, Zenon
<1>13. reconcileOrdererJoins => PassShape'
  BY <1>4, <1>5, <1>8, reconcileOrdererJoinsIs, PassIncrements, ZenonT(20)
<1>14. reconcileLocalOrgAdditions => PassShape'
  BY <1>5, <1>6, <1>7, reconcileLocalOrgAdditionsIs
<1>15. reconcileLocalOrgAdd => PassShape'
  BY <1>4, <1>6, <1>7, reconcileLocalOrgAddIs, Zenon DEF Onward
<1>16. reconcilePeerJoins => PassShape'
  BY <1>4, <1>5, <1>9, reconcilePeerJoinsIs, PassIncrements, Zenon
<1>17. reconcileAnchorPeerUpdates => PassShape'
  BY <1>4, <1>7, reconcileAnchorPeerUpdatesIs, Zenon DEF Onward
<1>18. ReportStatus => PassShape'
  BY <1>3, IdleIs DEF ReportStatus
<1>19. Fault => PassShape'
  BY <1>2, <1>3, <1>4, FaultPasses, ZenonT(20)
<1>20. ReconcileStep => PassShape'
  BY <1>10, <1>11, <1>12, <1>13, <1>14, <1>15, <1>16, <1>17, <1>18 DEF ReconcileStep
<1>. QED  BY <1>2, <1>19, <1>20, JobFrame, OthersFrame DEF Next

LEMMA SortsStep ==
    ASSUME IInv, Next
    PROVE  PassSorts'
<1>1. PassSorts /\ pass.admin \in Org \cup {None}
  BY PassFields DEF IInv, Pass
<1>2. CASE UNCHANGED pass
  BY <1>1, <1>2 DEF PassSorts, Seen, Declared
<1>3. CASE pass'.at \notin {"receipts", "add"}
  BY <1>3 DEF PassSorts
<1>4. ASSUME NEW step, Goes(step), step \notin {"receipts", "add"}
      PROVE  PassSorts'
  BY <1>3, <1>4 DEF Goes
<1>5. ASSUME Reports(TRUE) \/ Reports(FALSE)
      PROVE  PassSorts'
  BY <1>3, <1>5 DEF Reports
<1>6. ASSUME NEW i, NEW k, NEW ok, NEW admin, NEW todo, Moves(i, k, ok, admin, todo),
             pass.at \notin {"receipts", "add"}
      PROVE  PassSorts'
  BY <1>3, <1>6 DEF Moves
<1>7. StartPass \/ reconcileChannelBlockGeneration \/ channelBlockReadiness \/ reconcilePeerJoins
         \/ reconcileAnchorPeerUpdates \/ ReportStatus => PassSorts'
  <2>1. StartPass => PassSorts'
    BY <1>3, StartPassIs
  <2>2. reconcileChannelBlockGeneration => PassSorts'
    BY <1>4, GenerationIs
  <2>3. channelBlockReadiness => PassSorts'
    BY <1>4, <1>5, channelBlockReadinessIs, Zenon
  <2>4. reconcilePeerJoins => PassSorts'
    BY <1>4, <1>5, <1>6, reconcilePeerJoinsIs, Zenon DEF ToNextPeer
  <2>5. reconcileAnchorPeerUpdates => PassSorts'
    BY <1>5, <1>6, reconcileAnchorPeerUpdatesIs, Zenon DEF Onward
  <2>6. ReportStatus => PassSorts'
    BY <1>3, IdleIs DEF ReportStatus
  <2>. QED  BY <2>1, <2>2, <2>3, <2>4, <2>5, <2>6
<1>8. reconcileOrdererJoins => PassSorts'
  <2>1. ASSUME Goes("receipts"), pass.at = "orderers"
        PROVE  PassSorts'
    <3>1. pass'.at = "receipts" /\ pass'.todo = <<>> /\ pass'.admin = None
      BY <2>1 DEF Goes, IInv, PassShape
    <3>. QED  BY <3>1 DEF PassSorts
  <2>. QED  BY <1>5, <1>6, <2>1, reconcileOrdererJoinsIs, ZenonT(20) DEF Onward
<1>9. ASSUME reconcileLocalOrgAdditions
      PROVE  PassSorts'
  <2>1. pass.at = "receipts" /\ Declared \in Declaration
    BY <1>9, reconcileLocalOrgAdditionsIs, PassReads, ZenonT(20)
  <2>2. /\ \A n \in DOMAIN pass.todo : Seen(pass.todo[n]) /\ pass.todo[n] # pass.admin
        /\ pass.admin # None => Seen(pass.admin)
    BY <1>1, <2>1 DEF PassSorts
  <2>3. CASE pass.i > Len(Declared) /\ pass.admin # None /\ Goes("add")
    BY <1>1, <2>2, <2>3 DEF PassSorts, Goes
  <2>4. ASSUME pass.i \in DOMAIN Declared
        PROVE  ~Seen(Entry.name) /\ \A g : Seen(g) => g # Entry.name
    <3>1. \A m \in DOMAIN Declared : m < pass.i => Declared[m].name # Declared[pass.i].name
      BY <2>1, <2>4, DeclarationIs, PassFields
    <3>. QED  BY <3>1 DEF Seen, Entry
  <2>5. ASSUME pass.i \in DOMAIN Declared, pass'.i = pass.i + 1, Declared' = Declared
        PROVE  \A g : Seen(g) \/ g = Entry.name => Seen(g)'
    <3>1. \A m \in DOMAIN Declared : m < pass.i \/ m = pass.i => m < pass.i + 1
      BY <2>1, PassFields
    <3>. QED  BY <2>5, <3>1 DEF Seen, Entry
  <2>6. CASE /\ pass.i \in DOMAIN Declared /\ Entry.name \in Org
             /\ Moves(pass.i + 1, pass.k, pass.ok, pass.admin, Append(pass.todo, Entry.name))
    <3>1. /\ pass'.at = "receipts" /\ pass'.i = pass.i + 1 /\ Declared' = Declared
          /\ pass'.admin = pass.admin /\ pass'.todo = Append(pass.todo, Entry.name)
      BY <2>1, <2>6 DEF Moves
    <3>2. \A n \in DOMAIN pass'.todo :
              \/ n \in DOMAIN pass.todo /\ pass'.todo[n] = pass.todo[n]
              \/ pass'.todo[n] = Entry.name
      BY <2>6, <3>1, PassFields
    <3>3. Entry.name # pass.admin
      BY <1>1, <2>2, <2>4, <2>6, NoneIsNoValue
    <3>4. /\ \A n \in DOMAIN pass'.todo : Seen(pass.todo[n])' /\ pass'.todo[n] # pass'.admin
          /\ pass'.admin # None => Seen(pass.admin)'
      BY <2>2, <2>5, <2>6, <3>1, <3>2, <3>3
    <3>. QED  BY <3>1, <3>4 DEF PassSorts
  <2>7. CASE /\ pass.i \in DOMAIN Declared /\ Entry.name \in Org
             /\ Moves(pass.i + 1, pass.k, pass.ok,
                      IF pass.admin = None THEN Entry.name ELSE pass.admin, pass.todo)
    <3>1. /\ pass'.at = "receipts" /\ pass'.i = pass.i + 1 /\ Declared' = Declared
          /\ pass'.todo = pass.todo
          /\ pass'.admin = Entry.name \/ (pass.admin # None /\ pass'.admin = pass.admin)
      BY <2>1, <2>7 DEF Moves
    <3>2. \A n \in DOMAIN pass'.todo : Seen(pass.todo[n])' /\ pass'.todo[n] # pass'.admin
      BY <2>2, <2>4, <2>5, <2>7, <3>1, ZenonT(20)
    <3>3. Seen(pass.admin)'
      BY <2>2, <2>5, <2>7, <3>1
    <3>. QED  BY <3>1, <3>2, <3>3 DEF PassSorts
  <2>. QED  BY <1>4, <1>9, <2>3, <2>6, <2>7, reconcileLocalOrgAdditionsIs
<1>10. reconcileLocalOrgAdd => PassSorts'
  <2>1. ASSUME Onward(pass.ok), pass.at = "add"
        PROVE  PassSorts'
    BY <1>1, <2>1 DEF PassSorts, Onward, Moves
  <2>. QED  BY <1>4, <1>5, <2>1, reconcileLocalOrgAddIs, Zenon
<1>11. Fault => PassSorts'
  BY <1>2, <1>3, <1>5, FaultPasses, Zenon
<1>12. ReconcileStep => PassSorts'
  BY <1>7, <1>8, <1>9, <1>10 DEF ReconcileStep
<1>. QED  BY <1>2, <1>11, <1>12, JobFrame, OthersFrame DEF Next

LEMMA StatusStep ==
    ASSUME IInv, Next
    PROVE  StatusShape'
<1>1. StatusShape
  BY DEF IInv
<1>2. ASSUME ReportStatus
      PROVE  StatusShape'
  BY <1>2, PassReads, PassIncrements DEF ReportStatus, StatusShape, At
<1>. QED  BY <1>1, <1>2, ReconcileWrites, JobFrame, FaultFrame, OthersFrame DEF Next, StatusShape

LEMMA NextIInv == IInv /\ [Next]_vars => IInv'
<1> SUFFICES ASSUME IInv, [Next]_vars
             PROVE  IInv'
  OBVIOUS
<1>1. CASE Next
  BY <1>1, SpecStep, KubernetesStep, JobsStep, ResultStep, FabricStep, StatusStep, PassStep, SortsStep,
     RunsStep, ConfigStep DEF IInv
<1>2. CASE UNCHANGED vars
  <2>1. UNCHANGED <<spec, configtx, block, copy, job, ordererResult, peerResult, anchorResult, addResult,
                    submitResult, ledger, joined, pending, pass, status, spent>>
    BY <1>2 DEF vars, kubernetes, results, fabric
  <2>2. (SpecShape /\ KubernetesShape /\ JobShape /\ ResultShape /\ FabricShape /\ StatusShape)'
    BY <2>1 DEF IInv, SpecShape, Signs, KubernetesShape, JobShape, ResultShape, FabricShape, StatusShape
  <2>3. (PassShape /\ PassSorts)'
    BY <2>1, ZenonT(20) DEF IInv, PassShape, PassSorts, Declared, Entry, Seen, Signs
  <2>4. (Jobs /\ RunsBound)'
    BY <2>1, ZenonT(20) DEF IInv, Jobs, Shaped, Stands, RunsBound
  <2>5. (ConfigBound /\ EvidenceIsMembership)'
    BY <2>1, Zenon DEF IInv, ConfigBound, EvidenceIsMembership
  <2>. QED  BY <2>2, <2>3, <2>4, <2>5 DEF IInv
<1>. QED  BY <1>1, <1>2
=============================================================================
