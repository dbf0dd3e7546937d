----------------------- MODULE ChannelBootstrapSafety -----------------------
(***************************************************************************)
(* What a channel that is reported ready has, and what the Jobs of a ready *)
(* channel wait for, for any organizations, peers, orderers, declarations  *)
(* and edits.                                                              *)
(***************************************************************************)
EXTENDS ChannelBootstrapProofs

\* How long the provers may take over a step, in seconds.
USE SMTT(20), ZenonT(20)

PeersDone(orgs) == PeerNames(orgs) \subseteq peerResult

\* Every organization of the declaration before position i has an anchor receipt.
AnchorsDone(orgs, i) ==
    \A n \in DOMAIN orgs : n < i => anchorResult[orgs[n].name] # None

Done(orgs) ==
    /\ block # None
    /\ OrdererSet \subseteq ordererResult
    /\ PeersDone(orgs)
    /\ AnchorsDone(orgs, Len(orgs) + 1)

JobsJoin(j, r) ==
    /\ j[1] = "orderer" /\ r.step = "ran" => joined[j[2]] # None
    /\ j[1] = "peer" => copy[j[2][1]] # None /\ (r.step = "ran" => joined[j[2]] # None)

\* A node joins before its result is published.
Joins ==
    /\ \A n \in ordererResult \cup peerResult : joined[n] # None
    /\ \A j \in DOMAIN job : JobsJoin(j, job[j])

\* What a pass has passed is done.
OrderersPassed ==
    /\ pass.at = "orderers" /\ pass.ok =>
          \A n \in DOMAIN Orderer : n < pass.i => Orderer[n] \in ordererResult
    /\ pass.at \in {"receipts", "add", "peers", "anchors"} => OrdererSet \subseteq ordererResult
PeersPassed ==
    pass.at = "peers" =>
       /\ pass.k > 1 => copy[Entry.name] # None
       /\ pass.ok => \A n \in DOMAIN Declared : \A m \in DOMAIN Declared[n].peers :
                         n < pass.i \/ (n = pass.i /\ m < pass.k)
                         => <<Declared[n].name, Declared[n].peers[m]>> \in peerResult
AnchorsPassed ==
    /\ pass.at = "anchors" => PeersDone(Declared) /\ AnchorsDone(Declared, pass.i)
    /\ pass.at = "report" /\ pass.ok => Done(Declared)
    /\ status.ready => Done(status.orgs)

RInv == Joins /\ OrderersPassed /\ PeersPassed /\ AnchorsPassed
-----------------------------------------------------------------------------
LEMMA CopyStays ==
    ASSUME IInv, Next, NEW g \in Org, copy[g] # None
    PROVE  copy'[g] # None
<1>1. ASSUME reconcilePeerJoins
      PROVE  copy'[g] # None
  <2>1. block # None
    BY <1>1 DEF reconcilePeerJoins, At, IInv, PassShape
  <2>2. copy \in [Org -> Genesis \cup {None}]
    BY DEF IInv, KubernetesShape
  <2>3. copy' = copy \/ copy' = [copy EXCEPT ![Entry.name] = block]
    BY <1>1, Zenon DEF reconcilePeerJoins
  <2>. QED  BY <2>1, <2>2, <2>3
<1>. QED  BY <1>1, ReconcileWrites, JobFrame, FaultFrame, OthersFrame DEF Next

\* What is done is not undone.
LEMMA DoneStays ==
    ASSUME IInv, Next
    PROVE  /\ \A orgs : PeersDone(orgs) => PeersDone(orgs)'
           /\ \A orgs \in Declaration \cup {<<>>} : \A i : AnchorsDone(orgs, i) => AnchorsDone(orgs, i)'
           /\ \A orgs \in Declaration \cup {<<>>} : Done(orgs) => Done(orgs)'
<1>1. \A orgs : PeersDone(orgs) => PeersDone(orgs)'
  BY ResultStep DEF PeersDone
<1>2. ASSUME NEW orgs \in Declaration \cup {<<>>}, NEW i, AnchorsDone(orgs, i)
      PROVE  AnchorsDone(orgs, i)'
  <2>1. \A n \in DOMAIN orgs : orgs[n].name \in Org
    BY DeclarationIs
  <2>. QED  BY <1>2, <2>1, ResultStep DEF AnchorsDone
<1>3. OrdererSet \subseteq ordererResult => OrdererSet \subseteq ordererResult'
  BY ResultStep
<1>. QED  BY <1>1, <1>2, <1>3, KubernetesStep DEF Done

\* A Job that starts a peer's join has a copy of the block.
LEMMA PeerJobHasCopy ==
    ASSUME IInv, PeersPassed, reconcilePeerJoins, NEW j \in DOMAIN job' \ DOMAIN job
    PROVE  copy'[j[2][1]] # None
<1>1. At("peers") /\ pass.at = "peers" /\ block # None /\ Declared \in Declaration
  BY PassReads DEF reconcilePeerJoins, At, IInv, PassShape
<1>2. ~(pass.i > Len(Declared)) /\ job' = ensureJob(PeerJob(<<Entry.name, Entry.peers[pass.k]>>), None)
  BY Zenon DEF reconcilePeerJoins
<1>3. j = PeerJob(<<Entry.name, Entry.peers[pass.k]>>)
  BY <1>2 DEF ensureJob
<1>4. j[2][1] = Entry.name
  BY <1>3, JobNameIs
<1>5. Entry.name \in Org
  <2>1. pass.i \in DOMAIN Declared
    BY <1>1, <1>2, PassFields
  <2>. QED  BY <1>1, <2>1, DeclarationIs DEF Entry
<1>6. copy \in [Org -> Genesis \cup {None}] /\ copy' = IF pass.k = 1 THEN [copy EXCEPT ![Entry.name] = block] ELSE copy
  BY <1>2, Zenon DEF reconcilePeerJoins, IInv, KubernetesShape
<1>7. pass.k # 1 => copy[Entry.name] # None
  BY <1>1, PassFields DEF PeersPassed
<1>. QED  BY <1>1, <1>4, <1>5, <1>6, <1>7

LEMMA JoinsStep ==
    ASSUME IInv, RInv, Next
    PROVE  Joins'
<1>1. /\ Joins /\ PeersPassed /\ Continues /\ JobShape /\ JobShape'
      /\ joined \in [Node -> Genesis \cup {None}]
      /\ \A n \in Node : joined[n] # None => joined'[n] # None
      /\ ordererResult \subseteq Node /\ peerResult \subseteq Node
      /\ OrdererSet \subseteq Node /\ OrgPeer \subseteq Node
  BY JobsStep, FabricStep DEF RInv, IInv, FabricShape, ResultShape, Node
<1>2. ASSUME NEW n \in ordererResult'
      PROVE  joined'[n] # None
  <2>1. ASSUME NEW o \in OrdererSet, publishOrdererJoinResult(o), n = o
        PROVE  joined[n] # None
    BY <1>1, <2>1, JobNameIs DEF publishOrdererJoinResult, Running, Joins, JobsJoin
  <2>2. n \in ordererResult \/ \E o \in OrdererSet : publishOrdererJoinResult(o) /\ n = o
    BY JobWrites, ReconcileFrame, FaultFrame, OthersFrame DEF Next, results, publishOrdererJoinResult
  <2>. QED  BY <1>1, <2>1, <2>2 DEF Joins
<1>3. ASSUME NEW n \in peerResult'
      PROVE  joined'[n] # None
  <2>1. ASSUME NEW p \in OrgPeer, publishPeerJoinResult(p), n = p
        PROVE  joined[n] # None
    BY <1>1, <2>1, JobNameIs DEF publishPeerJoinResult, Running, Joins, JobsJoin
  <2>2. n \in peerResult \/ \E p \in OrgPeer : publishPeerJoinResult(p) /\ n = p
    BY JobWrites, ReconcileFrame, FaultFrame, OthersFrame DEF Next, results, publishPeerJoinResult
  <2>. QED  BY <1>1, <2>1, <2>2 DEF Joins
<1>4. ASSUME NEW j \in DOMAIN job'
      PROVE  JobsJoin(j, job[j])'
  <2>1. /\ j[1] = "orderer" => j[2] \in OrdererSet
        /\ j[1] = "peer" => j[2] \in OrgPeer /\ j[2][1] \in Org
    BY <1>1, JobNameCases DEF JobShape, OrgPeer
  <2>2. CASE j \notin DOMAIN job
    <3>1. job'[j].step = "start" /\ Begins(j)
      BY <1>1, <2>2 DEF Continues
    <3>. QED  BY <1>1, <2>2, <3>1, PeerJobHasCopy DEF Begins, JobsJoin
  <2>3. CASE j \in DOMAIN job
    <3>1. JobsJoin(j, job[j]) /\ (job'[j].step = "ran" => job'[j] = job[j] \/ Runs(j))
      BY <1>1, <2>3 DEF Joins, Continues
    <3>2. j[1] = "peer" => copy[j[2][1]] # None /\ copy'[j[2][1]] # None
      BY <2>1, <3>1, CopyStays DEF JobsJoin
    <3>3. ASSUME j[1] = "orderer", job'[j].step = "ran"
          PROVE  joined'[j[2]] # None
      <4>1. CASE job'[j] = job[j]
        BY <1>1, <2>1, <3>1, <3>3, <4>1 DEF JobsJoin
      <4>2. CASE Runs(j)
        BY <2>1, <3>3, <4>2, joinOrdererIs, Zenon DEF Runs
      <4>. QED  BY <3>1, <3>3, <4>1, <4>2
    <3>4. ASSUME j[1] = "peer", job'[j].step = "ran"
          PROVE  joined'[j[2]] # None
      <4>1. CASE job'[j] = job[j]
        BY <1>1, <2>1, <3>1, <3>4, <4>1 DEF JobsJoin
      <4>2. CASE Runs(j)
        BY <1>1, <2>1, <3>2, <3>4, <4>2 DEF Runs, joinPeer
      <4>. QED  BY <3>1, <3>4, <4>1, <4>2
    <3>. QED  BY <3>2, <3>3, <3>4 DEF JobsJoin
  <2>. QED  BY <2>2, <2>3
<1>. QED  BY <1>2, <1>3, <1>4 DEF Joins

LEMMA OrderersStep ==
    ASSUME IInv, RInv, Next
    PROVE  OrderersPassed'
<1>1. OrderersPassed /\ ordererResult \subseteq ordererResult'
  BY ResultStep DEF RInv
<1>2. CASE UNCHANGED pass
  BY <1>1, <1>2 DEF OrderersPassed
<1>3. CASE pass'.at \notin {"orderers", "receipts", "add", "peers", "anchors"}
  BY <1>3 DEF OrderersPassed
<1>4. ASSUME pass'.at \in {"receipts", "add", "peers", "anchors"}, pass.at \in {"receipts", "add", "peers", "anchors"}
      PROVE  OrderersPassed'
  BY <1>1, <1>4 DEF OrderersPassed
<1>5. Reports(TRUE) \/ Reports(FALSE) => OrderersPassed'
  BY <1>3 DEF Reports
<1>6. channelBlockReadiness => OrderersPassed'
  <2>1. Goes("orderers") => OrderersPassed'
    BY OrdererIs DEF Goes, OrderersPassed
  <2>. QED  BY <1>5, <2>1, channelBlockReadinessIs, Zenon
<1>7. reconcileOrdererJoins => OrderersPassed'
  <2>1. ASSUME pass.at = "orderers", pass.i > Len(Orderer), pass.ok, Goes("receipts")
        PROVE  OrderersPassed'
    <3>1. \A n \in DOMAIN Orderer : Orderer[n] \in ordererResult
      BY <1>1, <2>1, OrdererIs, PassFields DEF OrderersPassed
    <3>2. OrdererSet \subseteq ordererResult'
      BY <1>1, <3>1, OrdererIs
    <3>. QED  BY <2>1, <3>2 DEF OrderersPassed, Goes
  <2>2. ASSUME pass.at = "orderers", pass.i \in DOMAIN Orderer,
               Orderer[pass.i] \in ordererResult, Onward(pass.ok)
        PROVE  OrderersPassed'
    <3>1. \A n \in DOMAIN Orderer : n < pass.i + 1 => n < pass.i \/ n = pass.i
      BY OrdererIs, PassFields
    <3>. QED  BY <1>1, <2>2, <3>1 DEF OrderersPassed, Onward, Moves
  <2>3. ASSUME pass.at = "orderers", Onward(FALSE)
        PROVE  OrderersPassed'
    BY <2>3 DEF OrderersPassed, Onward, Moves
  <2>. QED  BY <1>5, <2>1, <2>2, <2>3, reconcileOrdererJoinsIs, Zenon
<1>8. StartPass \/ reconcileChannelBlockGeneration \/ ReportStatus => OrderersPassed'
  BY <1>3, StartPassIs, GenerationIs, IdleIs, Zenon DEF Goes, ReportStatus
<1>9. reconcileLocalOrgAdditions => OrderersPassed'
  BY <1>4, reconcileLocalOrgAdditionsIs, Zenon DEF Goes, Moves
<1>10. reconcileLocalOrgAdd => OrderersPassed'
  BY <1>4, <1>5, reconcileLocalOrgAddIs, Zenon DEF Goes, Onward, Moves
<1>11. reconcilePeerJoins => OrderersPassed'
  BY <1>4, <1>5, reconcilePeerJoinsIs, Zenon DEF Goes, ToNextPeer, Moves
<1>12. reconcileAnchorPeerUpdates => OrderersPassed'
  BY <1>4, <1>5, reconcileAnchorPeerUpdatesIs, Zenon DEF Onward, Moves
<1>13. Fault => OrderersPassed'
  BY <1>2, <1>3, <1>5, FaultPasses, Zenon
<1>14. ReconcileStep => OrderersPassed'
  BY <1>6, <1>7, <1>8, <1>9, <1>10, <1>11, <1>12 DEF ReconcileStep
<1>. QED  BY <1>2, <1>13, <1>14, JobFrame, OthersFrame DEF Next

LEMMA PeersStep ==
    ASSUME IInv, RInv, Next
    PROVE  PeersPassed'
<1>1. PeersPassed /\ peerResult \subseteq peerResult'
  BY ResultStep DEF RInv
<1>2. CASE UNCHANGED pass
  <2>1. ~reconcilePeerJoins
    <3>1. pass.i + 1 # pass.i /\ pass.k + 1 # pass.k
      BY PassFields
    <3>. QED  BY <1>2, <3>1, reconcilePeerJoinsIs, Zenon DEF Goes, Reports, ToNextPeer, Moves
  <2>2. UNCHANGED copy
    BY <2>1, ReconcileWrites, JobFrame, FaultFrame, OthersFrame DEF Next
  <2>. QED  BY <1>1, <1>2, <2>2 DEF PeersPassed, Declared, Entry
<1>3. CASE pass'.at # "peers"
  BY <1>3 DEF PeersPassed
<1>4. Reports(TRUE) \/ Reports(FALSE) => PeersPassed'
  BY <1>3 DEF Reports
<1>5. ASSUME Goes("peers"), pass.at \in {"receipts", "add"}
      PROVE  PeersPassed'
  <2>1. Declared \in Declaration
    BY <1>5, PassReads
  <2>2. \A n \in DOMAIN Declared : \A m \in DOMAIN Declared[n].peers : ~(n < 1) /\ ~(m < 1)
    BY <2>1, DeclarationIs
  <2>. QED  BY <1>5, <2>2 DEF PeersPassed, Goes
<1>6. ASSUME reconcilePeerJoins
      PROVE  PeersPassed'
  <2>1. CASE ToNextPeer(pass.ok) \/ ToNextPeer(FALSE)
    <3>1. pass.at = "peers" /\ Declared \in Declaration
      BY <1>6, reconcilePeerJoinsIs, PassReads
    <3>2. CASE pass.i \notin DOMAIN Declared
      <4>1. Goes("anchors") \/ Reports(FALSE)
        BY <1>6, <3>2, reconcilePeerJoinsIs, Zenon
      <4>. QED  BY <1>3, <4>1 DEF Goes, Reports
    <3>3. CASE pass.i \in DOMAIN Declared
      <4>1. /\ Entry.name \in Org /\ Len(Entry.peers) \in Nat /\ DOMAIN Entry.peers = 1..Len(Entry.peers)
            /\ \A n \in DOMAIN Declared : /\ Len(Declared[n].peers) \in Nat
                                          /\ DOMAIN Declared[n].peers = 1..Len(Declared[n].peers)
            /\ pass.k <= Len(Entry.peers)
        BY <3>1, <3>3, DeclarationIs, PassFields DEF Entry, IInv, PassShape
      <4>2. copy'[Entry.name] # None
        <5>1. block # None /\ copy \in [Org -> Genesis \cup {None}] /\ ~(pass.i > Len(Declared))
          BY <3>1, <3>3, PassFields DEF IInv, PassShape, KubernetesShape
        <5>2. copy' = IF pass.k = 1 THEN [copy EXCEPT ![Entry.name] = block] ELSE copy
          BY <1>6, <5>1, Zenon DEF reconcilePeerJoins
        <5>3. pass.k # 1 => copy[Entry.name] # None
          BY <1>1, <3>1, PassFields DEF PeersPassed
        <5>. QED  BY <4>1, <5>1, <5>2, <5>3
      <4>3. /\ pass'.at = "peers" /\ Declared' = Declared /\ UNCHANGED peerResult
            /\ \/ pass'.i = pass.i /\ pass'.k = pass.k + 1
               \/ ~(pass.k < Len(Entry.peers)) /\ pass'.i = pass.i + 1 /\ pass'.k = 1
        BY <1>6, <2>1, <3>1 DEF ToNextPeer, Moves, reconcilePeerJoins, results
      <4>4. pass'.k > 1 => copy'[Entry'.name] # None
        <5>1. pass'.i = pass.i => Entry' = Entry
          BY <4>3 DEF Entry
        <5>. QED  BY <4>2, <4>3, <5>1
      <4>5. ASSUME pass'.ok, NEW n \in DOMAIN Declared, NEW m \in DOMAIN Declared[n].peers,
                   n < pass'.i \/ (n = pass'.i /\ m < pass'.k)
            PROVE  <<Declared[n].name, Declared[n].peers[m]>> \in peerResult
        <5>1. pass.ok /\ <<Entry.name, Entry.peers[pass.k]>> \in peerResult
          BY <1>6, <3>1, <4>3, <4>5, reconcilePeerJoinsIs, Zenon DEF ToNextPeer, Moves, Goes, Reports
        <5>2. n < pass.i \/ (n = pass.i /\ m < pass.k) \/ (n = pass.i /\ m = pass.k)
          <6>1. n \in Nat /\ m \in Nat /\ (n = pass.i => m <= Len(Entry.peers))
            BY <3>1, <4>1, <4>5, DeclarationIs DEF Entry
          <6>. QED  BY <4>1, <4>3, <4>5, <6>1, PassFields
        <5>. QED  BY <1>1, <3>1, <4>5, <5>1, <5>2 DEF PeersPassed, Entry
      <4>. QED  BY <4>3, <4>4, <4>5 DEF PeersPassed
    <3>. QED  BY <3>2, <3>3
  <2>. QED  BY <1>3, <1>4, <1>6, <2>1, reconcilePeerJoinsIs, Zenon DEF Goes
<1>7. StartPass \/ reconcileChannelBlockGeneration \/ channelBlockReadiness \/ ReportStatus => PeersPassed'
  BY <1>3, <1>4, StartPassIs, GenerationIs, channelBlockReadinessIs, IdleIs, Zenon DEF Goes, ReportStatus
<1>8. reconcileOrdererJoins => PeersPassed'
  BY <1>3, <1>4, reconcileOrdererJoinsIs, Zenon DEF Goes, Onward, Moves
<1>9. reconcileLocalOrgAdditions => PeersPassed'
  BY <1>3, <1>5, reconcileLocalOrgAdditionsIs, Zenon DEF Goes, Moves
<1>10. reconcileLocalOrgAdd => PeersPassed'
  BY <1>3, <1>4, <1>5, reconcileLocalOrgAddIs, Zenon DEF Onward, Moves
<1>11. reconcileAnchorPeerUpdates => PeersPassed'
  BY <1>3, <1>4, reconcileAnchorPeerUpdatesIs, Zenon DEF Onward, Moves
<1>12. Fault => PeersPassed'
  BY <1>2, <1>3, <1>4, FaultPasses, Zenon
<1>13. ReconcileStep => PeersPassed'
  BY <1>6, <1>7, <1>8, <1>9, <1>10, <1>11 DEF ReconcileStep
<1>. QED  BY <1>2, <1>12, <1>13, JobFrame, OthersFrame DEF Next

LEMMA AnchorsStep ==
    ASSUME IInv, RInv, Next
    PROVE  AnchorsPassed'
<1>1. /\ AnchorsPassed /\ OrderersPassed /\ PeersPassed
      /\ status.orgs \in Declaration \cup {<<>>}
  BY DEF RInv, IInv, StatusShape
<1>2. (status.ready => Done(status.orgs))'
  <2>1. CASE UNCHANGED status
    <3>1. PICK d \in Declaration \cup {<<>>} : d = status.orgs
      BY <1>1
    <3>. QED  BY <1>1, <2>1, <3>1, DoneStays DEF AnchorsPassed
  <2>2. CASE ReportStatus
    <3>1. /\ pass.at = "report" /\ Declared \in Declaration
          /\ status' = [ready |-> pass.ok, orgs |-> Declared]
      BY <2>2, PassReads DEF ReportStatus, At
    <3>2. PICK d \in Declaration : d = Declared
      BY <3>1
    <3>3. status'.ready = pass.ok /\ status'.orgs = d
      BY <3>1, <3>2
    <3>. QED  BY <1>1, <3>1, <3>2, <3>3, DoneStays DEF AnchorsPassed
  <2>. QED  BY <2>1, <2>2, ReconcileWrites, JobFrame, FaultFrame, OthersFrame DEF Next
<1>3. CASE UNCHANGED pass
  <2>1. CASE pass.at \notin {"anchors", "report"}
    BY <1>2, <1>3, <2>1 DEF AnchorsPassed
  <2>2. CASE pass.at \in {"anchors", "report"}
    <3>1. Declared \in Declaration
      BY <2>2, PassReads
    <3>2. PICK d, i : d \in Declaration /\ d = Declared /\ i = pass.i
      BY <3>1
    <3>3. Declared' = d /\ pass'.i = i /\ pass'.at = pass.at /\ pass'.ok = pass.ok
      BY <1>3, <3>2 DEF Declared
    <3>. QED  BY <1>1, <1>2, <3>2, <3>3, DoneStays DEF AnchorsPassed
  <2>. QED  BY <2>1, <2>2
<1>4. CASE pass'.at \notin {"anchors", "report"}
  BY <1>2, <1>4 DEF AnchorsPassed
<1>5. ASSUME Reports(FALSE)
      PROVE  AnchorsPassed'
  BY <1>2, <1>5 DEF AnchorsPassed, Reports
<1>6. ASSUME reconcilePeerJoins, pass.i > Len(Declared), pass.ok, Goes("anchors")
      PROVE  AnchorsPassed'
  <2>1. pass.at = "peers" /\ UNCHANGED peerResult /\ Declared \in Declaration
    BY <1>6, reconcilePeerJoinsIs, PassReads, Zenon DEF reconcilePeerJoins, results
  <2>2. \A n \in DOMAIN Declared : n < pass.i
    BY <1>6, <2>1, PassFields
  <2>3. \A n \in DOMAIN Declared : \A m \in DOMAIN Declared[n].peers :
            <<Declared[n].name, Declared[n].peers[m]>> \in peerResult
    BY <1>1, <1>6, <2>1, <2>2 DEF PeersPassed
  <2>4. PeersDone(Declared)
    BY <2>3 DEF PeersDone, PeerNames, OrgPeer, Range
  <2>5. \A n \in DOMAIN Declared : ~(n < 1)
    BY <2>1, PassFields
  <2>6. pass'.at = "anchors" /\ pass'.i = 1 /\ Declared' = Declared
    BY <1>6 DEF Goes
  <2>. QED  BY <1>2, <2>1, <2>4, <2>5, <2>6 DEF AnchorsPassed, PeersDone, AnchorsDone
<1>7. ASSUME reconcileAnchorPeerUpdates
      PROVE  AnchorsPassed'
  <2>1. /\ pass.at = "anchors" /\ Declared \in Declaration
        /\ PeersDone(Declared) /\ AnchorsDone(Declared, pass.i)
        /\ UNCHANGED <<block, ordererResult, peerResult, anchorResult>>
    BY <1>1, <1>7, reconcileAnchorPeerUpdatesIs, PassReads, ZenonT(20) DEF AnchorsPassed, reconcileAnchorPeerUpdates, results
  <2>2. ASSUME pass.i > Len(Declared), Reports(TRUE)
        PROVE  AnchorsPassed'
    <3>1. block # None /\ OrdererSet \subseteq ordererResult
      BY <1>1, <2>1 DEF OrderersPassed, IInv, PassShape
    <3>2. \A n \in DOMAIN Declared : n < pass.i
      BY <2>1, <2>2, PassFields
    <3>3. Done(Declared)
      BY <2>1, <3>1, <3>2 DEF Done, AnchorsDone
    <3>. QED  BY <1>2, <2>1, <2>2, <3>3 DEF AnchorsPassed, Reports, Done, PeersDone, AnchorsDone
  <2>3. ASSUME pass.i \in DOMAIN Declared, anchorPeerUpdateResultMatches(Entry), Onward(pass.ok)
        PROVE  AnchorsPassed'
    <3>1. anchorResult[Declared[pass.i].name] # None
      <4>1. Declared[pass.i].peers[1] \in Peer
        BY <2>1, <2>3, DeclarationIs
      <4>. QED  BY <2>3, <4>1, NoneIsNoValue DEF anchorPeerUpdateResultMatches, channelAnchorPeerForOrg, Entry
    <3>2. \A n \in DOMAIN Declared : n < pass.i + 1 => n < pass.i \/ n = pass.i
      BY <2>1, PassFields
    <3>. QED  BY <1>2, <2>1, <2>3, <3>1, <3>2 DEF AnchorsPassed, Onward, Moves, PeersDone, AnchorsDone
  <2>. QED  BY <1>5, <1>7, <2>2, <2>3, reconcileAnchorPeerUpdatesIs, Zenon
<1>8. StartPass \/ reconcileChannelBlockGeneration \/ channelBlockReadiness \/ ReportStatus => AnchorsPassed'
  BY <1>4, <1>5, StartPassIs, GenerationIs, channelBlockReadinessIs, IdleIs, Zenon DEF Goes, ReportStatus
<1>9. reconcileOrdererJoins => AnchorsPassed'
  BY <1>4, <1>5, reconcileOrdererJoinsIs, Zenon DEF Goes, Onward, Moves
<1>10. reconcileLocalOrgAdditions => AnchorsPassed'
  BY <1>4, reconcileLocalOrgAdditionsIs, Zenon DEF Goes, Moves
<1>11. reconcileLocalOrgAdd => AnchorsPassed'
  BY <1>4, <1>5, reconcileLocalOrgAddIs, Zenon DEF Goes, Onward, Moves
<1>12. reconcilePeerJoins => AnchorsPassed'
  BY <1>4, <1>5, <1>6, reconcilePeerJoinsIs, Zenon DEF ToNextPeer, Moves
<1>13. Fault => AnchorsPassed'
  BY <1>3, <1>4, <1>5, FaultPasses, Zenon
<1>14. ReconcileStep => AnchorsPassed'
  BY <1>7, <1>8, <1>9, <1>10, <1>11, <1>12 DEF ReconcileStep
<1>. QED  BY <1>3, <1>13, <1>14, JobFrame, OthersFrame DEF Next

LEMMA RInvInductive ==
    /\ Init => RInv
    /\ IInv /\ RInv /\ [Next]_vars => RInv'
<1>1. Init => RInv
  <2>1. ASSUME Init
        PROVE  Joins
    BY <2>1 DEF Init, Joins
  <2>2. ASSUME Init
        PROVE  pass.at = "idle" /\ ~status.ready
    BY <2>2, Zenon DEF Init, Idle
  <2>. QED  BY <2>1, <2>2 DEF RInv, OrderersPassed, PeersPassed, AnchorsPassed
<1>2. ASSUME IInv, RInv, Next
      PROVE  RInv'
  BY <1>2, JoinsStep, OrderersStep, PeersStep, AnchorsStep DEF RInv
<1>3. ASSUME RInv, UNCHANGED vars
      PROVE  RInv'
  <2>1. UNCHANGED <<block, copy, job, ordererResult, peerResult, anchorResult, joined, pass, status>>
    BY <1>3 DEF vars, kubernetes, results, fabric
  <2>2. Joins' /\ OrderersPassed' /\ PeersPassed'
    BY <1>3, <2>1 DEF RInv, Joins, JobsJoin, OrderersPassed, PeersPassed, Declared, Entry
  <2>3. AnchorsPassed'
    BY <1>3, <2>1 DEF RInv, AnchorsPassed, Done, PeersDone, AnchorsDone, Declared
  <2>. QED  BY <2>2, <2>3 DEF RInv
<1>. QED  BY <1>1, <1>2, <1>3
-----------------------------------------------------------------------------
\* The variables hold what the API objects of the program can hold.
THEOREM BootstrapTypes == Spec => []TypeOK
<1>. QED  BY InitIInv, NextIInv, IInvTypes, PTL DEF Spec

\* The ConfigMaps that reconcileLocalOrgAdditions and reconcileLocalOrgAdd read
\* name members of the channel only.
THEOREM EvidenceNamesMembers == Spec => []EvidenceIsMembership
<1>1. IInv => EvidenceIsMembership
  BY DEF IInv
<1>. QED  BY <1>1, InitIInv, NextIInv, PTL DEF Spec

\* reconcileChannels reports a channel ready only when every organization it
\* was asked for is a member and each of its peers and every orderer has joined,
\* however the declaration is edited meanwhile.
THEOREM ReadyIsAdmitted == Spec => []ReadyMeansAdmitted
<1>1. ASSUME IInv, RInv
      PROVE  ReadyMeansAdmitted
  <2>1. SUFFICES ASSUME status.ready
                 PROVE  /\ Names(status.orgs) \subseteq ledger.members
                        /\ \A p \in PeerNames(status.orgs) : joined[p] # None
                        /\ \A o \in OrdererSet : joined[o] # None
    BY DEF ReadyMeansAdmitted
  <2>2. Done(status.orgs) /\ Joins /\ status.orgs \in Declaration \cup {<<>>}
    BY <1>1, <2>1 DEF RInv, AnchorsPassed, IInv, StatusShape
  <2>3. \A n \in DOMAIN status.orgs : n < Len(status.orgs) + 1 /\ status.orgs[n].name \in Org
    BY <2>2, DeclarationIs
  <2>4. \A n \in DOMAIN status.orgs : status.orgs[n].name \in ledger.members
    BY <1>1, <2>2, <2>3 DEF Done, AnchorsDone, IInv, EvidenceIsMembership
  <2>. QED  BY <2>2, <2>4 DEF Done, PeersDone, Joins, Names
<1>. QED  BY <1>1, InitIInv, NextIInv, RInvInductive, PTL DEF Spec
-----------------------------------------------------------------------------
(* Users who edit only a channel that is ready. *)

\* The declaration that is being worked on.
Now == IF pass.at = "idle" THEN spec.orgs ELSE Declared

IsAnchor(orgs, g, a) == \E n \in DOMAIN orgs : orgs[n].name = g /\ orgs[n].peers[1] = a

\* The anchor peers of the organizations before position i are the declared ones.
Settled(orgs, i) ==
    \A n \in DOMAIN orgs : n < i => anchorResult[orgs[n].name] = orgs[n].peers[1]

AnchorJobsAgree ==
    \A g \in Org : AnchorJob(g) \in DOMAIN job =>
       \/ job[AnchorJob(g)].anchor = anchorResult[g]
       \/ IsAnchor(Now, g, job[AnchorJob(g)].anchor)
EditsWait ==
    pass.at # "idle" /\ Declared # spec.orgs => status = [ready |-> TRUE, orgs |-> Declared]
AnchorsSettled ==
    /\ pass.at = "anchors" => Settled(Declared, pass.i)
    /\ pass.at = "report" /\ pass.ok => Settled(Declared, Len(Declared) + 1)
ReadySettled ==
    status.ready /\ status.orgs = Now =>
       /\ Settled(Now, Len(Now) + 1)
       /\ pass.at = "receipts" => pass.todo = <<>>
       /\ pass.at # "add"

NInv == AnchorJobsAgree /\ EditsWait /\ AnchorsSettled /\ ReadySettled

LEMMA NowIs == IInv => Now \in Declaration
BY PassReads DEF IInv, SpecShape, ChannelSpec, Now

LEMMA AnchorResultStep ==
    ASSUME IInv, Next
    PROVE  \/ UNCHANGED anchorResult
           \/ \E g \in Org : /\ AnchorJob(g) \in DOMAIN job
                             /\ anchorResult' = [anchorResult EXCEPT ![g] = job[AnchorJob(g)].anchor]
BY JobWrites, ReconcileFrame, FaultFrame, OthersFrame
   DEF Next, results, publishAnchorPeerUpdateResult, Running

LEMMA SettledStays ==
    ASSUME IInv, NInv, Next, NEW d \in Declaration, d = Now, NEW i, Settled(d, i)
    PROVE  Settled(d, i)'
<1>1. CASE UNCHANGED anchorResult
  BY <1>1 DEF Settled
<1>2. ASSUME NEW g \in Org, AnchorJob(g) \in DOMAIN job,
             anchorResult' = [anchorResult EXCEPT ![g] = job[AnchorJob(g)].anchor]
      PROVE  Settled(d, i)'
  <2>1. /\ anchorResult \in AnchorMap
        /\ \/ job[AnchorJob(g)].anchor = anchorResult[g]
           \/ IsAnchor(d, g, job[AnchorJob(g)].anchor)
    BY <1>2 DEF IInv, ResultShape, NInv, AnchorJobsAgree
  <2>2. ASSUME NEW n \in DOMAIN d, n < i
        PROVE  anchorResult'[d[n].name] = d[n].peers[1]
    <3>1. d[n].name \in Org /\ anchorResult[d[n].name] = d[n].peers[1]
      BY <2>2, DeclarationIs DEF Settled
    <3>2. IsAnchor(d, d[n].name, job[AnchorJob(g)].anchor) => job[AnchorJob(g)].anchor = d[n].peers[1]
      BY DeclarationIs DEF IsAnchor
    <3>. QED  BY <1>2, <2>1, <3>1, <3>2 DEF AnchorMap
  <2>. QED  BY <2>2 DEF Settled
<1>. QED  BY <1>1, <1>2, AnchorResultStep

\* A pass keeps the declaration that it read.
LEMMA PassKeeps ==
    ASSUME IInv, Next
    PROVE  \/ UNCHANGED pass \/ StartPass \/ pass'.at = "idle"
           \/ pass.at # "idle" /\ pass'.at # "idle" /\ Declared' = Declared
<1>. DEFINE Keeps == pass.at # "idle" /\ pass'.at # "idle" /\ Declared' = Declared
<1>1. reconcileChannelBlockGeneration \/ channelBlockReadiness \/ reconcileOrdererJoins => Keeps
  BY GenerationIs, channelBlockReadinessIs, reconcileOrdererJoinsIs, Zenon DEF Goes, Reports, Onward, Moves
<1>2. reconcileLocalOrgAdditions \/ reconcileLocalOrgAdd => Keeps
  BY reconcileLocalOrgAdditionsIs, reconcileLocalOrgAddIs, ZenonT(20) DEF Goes, Reports, Onward, Moves
<1>3. reconcilePeerJoins \/ reconcileAnchorPeerUpdates => Keeps
  BY reconcilePeerJoinsIs, reconcileAnchorPeerUpdatesIs, Zenon DEF Goes, Reports, Onward, ToNextPeer, Moves
<1>4. ReportStatus => pass'.at = "idle"
  BY IdleIs DEF ReportStatus
<1>5. Fault => UNCHANGED pass \/ pass'.at = "idle" \/ Keeps
  BY FaultPasses, Zenon DEF Reports
<1>. HIDE DEF Keeps
<1>6. UNCHANGED pass \/ StartPass \/ pass'.at = "idle" \/ Keeps
  BY <1>1, <1>2, <1>3, <1>4, <1>5, JobFrame, OthersFrame DEF Next, ReconcileStep
<1>. QED  BY <1>6 DEF Keeps

LEMMA OrgsStep ==
    ASSUME IInv, Next, EditWhenReady
    PROVE  \/ spec'.orgs = spec.orgs
           \/ /\ status = [ready |-> TRUE, orgs |-> spec.orgs]
              /\ UNCHANGED <<pass, status>>
<1>1. spec \in ChannelSpec
  BY DEF IInv, SpecShape
<1>2. ASSUME NEW g, NEW e, SetSignedUpdateRef(g, e)
      PROVE  spec'.orgs = spec.orgs
  BY <1>1, <1>2, Zenon DEF SetSignedUpdateRef, ChannelSpec
<1>3. ASSUME NEW orgs, EditOrgs(orgs)
      PROVE  status = [ready |-> TRUE, orgs |-> spec.orgs] /\ UNCHANGED <<pass, status>>
  BY <1>3 DEF EditOrgs
<1>. QED  BY <1>2, <1>3, OthersWrite, ReconcileFrame, JobFrame, FaultFrame, Zenon DEF Next

\* The declaration that is worked on changes only when the channel is ready.
LEMMA NowStep ==
    ASSUME IInv, NInv, Next, EditWhenReady
    PROVE  Now' = Now \/ status = [ready |-> TRUE, orgs |-> Now]
<1>1. StartPass => Now' = Now
  BY StartPassIs, ReconcileFrame DEF Now
<1>2. CASE spec'.orgs = spec.orgs
  <2>1. pass'.at = "idle" => Now' = Now \/ status = [ready |-> TRUE, orgs |-> Now]
    BY <1>2 DEF Now, NInv, EditsWait
  <2>2. UNCHANGED pass => Now' = Now
    BY <1>2 DEF Now, Declared
  <2>3. pass.at # "idle" /\ pass'.at # "idle" /\ Declared' = Declared => Now' = Now
    BY DEF Now
  <2>. QED  BY <1>1, <2>1, <2>2, <2>3, PassKeeps
<1>3. CASE status = [ready |-> TRUE, orgs |-> spec.orgs] /\ UNCHANGED pass
  BY <1>3, Zenon DEF Now, Declared
<1>. QED  BY <1>2, <1>3, OrgsStep

\* When the channel is ready, every anchor Job that is left agrees with the receipt.
LEMMA ReadyAgrees ==
    ASSUME IInv, NInv, status.ready, status.orgs = Now, NEW g \in Org, AnchorJob(g) \in DOMAIN job
    PROVE  job[AnchorJob(g)].anchor = anchorResult[g]
<1>1. Now \in Declaration /\ Settled(Now, Len(Now) + 1)
  BY NowIs DEF NInv, ReadySettled
<1>2. \A n \in DOMAIN Now : n < Len(Now) + 1
  BY <1>1, DeclarationIs
<1>. QED  BY <1>1, <1>2 DEF NInv, AnchorJobsAgree, IsAnchor, Settled

LEMMA NewAnchorJob ==
    ASSUME IInv, reconcileAnchorPeerUpdates, NEW g \in Org, AnchorJob(g) \in DOMAIN job' \ DOMAIN job
    PROVE  IsAnchor(Now, g, job[AnchorJob(g)].anchor)'
<1>1. pass.at = "anchors" /\ Declared \in Declaration /\ ~(pass.i > Len(Declared))
  BY PassReads, Zenon DEF reconcileAnchorPeerUpdates, At
<1>2. pass.i \in DOMAIN Declared
  BY <1>1, PassFields
<1>3. PICK a \in Peer : a = Entry.peers[1]
  BY <1>1, <1>2, DeclarationIs DEF Entry
<1>4. job' = ensureJob(AnchorJob(Entry.name), a) /\ pass' = Report(FALSE)
  BY <1>1, <1>3, Zenon DEF reconcileAnchorPeerUpdates, channelAnchorPeerForOrg
<1>5. AnchorJob(g) = AnchorJob(Entry.name)
  BY <1>4 DEF ensureJob
<1>6. g = Entry.name
  BY <1>5, JobNameIs
<1>7. job'[AnchorJob(g)].anchor = a
  BY <1>4, <1>5, NewJobIs DEF ensureJob
<1>8. Now' = Declared
  <2>1. Reports(FALSE)
    BY <1>4, PassIncrements, ReportIs, ZenonT(20)
  <2>. QED  BY <2>1 DEF Now, Reports
<1>. QED  BY <1>2, <1>3, <1>6, <1>7, <1>8 DEF IsAnchor, Entry

LEMMA AgreeStep ==
    ASSUME IInv, NInv, Next, EditWhenReady
    PROVE  AnchorJobsAgree'
<1> SUFFICES ASSUME NEW g \in Org, AnchorJob(g) \in DOMAIN job'
             PROVE  \/ job'[AnchorJob(g)].anchor = anchorResult'[g]
                    \/ IsAnchor(Now, g, job[AnchorJob(g)].anchor)'
  BY DEF AnchorJobsAgree
<1>1. CASE AnchorJob(g) \notin DOMAIN job
  <2>1. reconcileAnchorPeerUpdates
    BY <1>1, JobsStep, JobNameIs DEF Continues, Begins
  <2>. QED  BY <1>1, <2>1, NewAnchorJob
<1>2. CASE AnchorJob(g) \in DOMAIN job
  <2>1. job'[AnchorJob(g)].anchor = job[AnchorJob(g)].anchor
    BY <1>2, JobsStep DEF Continues
  <2>2. ASSUME job[AnchorJob(g)].anchor = anchorResult[g]
        PROVE  job'[AnchorJob(g)].anchor = anchorResult'[g]
    <3>1. anchorResult \in AnchorMap
      BY DEF IInv, ResultShape
    <3>2. anchorResult'[g] = anchorResult[g] \/ anchorResult'[g] = job[AnchorJob(g)].anchor
      BY <3>1, AnchorResultStep DEF AnchorMap
    <3>. QED  BY <2>1, <2>2, <3>2
  <2>3. CASE Now' = Now
    <3>1. IsAnchor(Now, g, job[AnchorJob(g)].anchor) => IsAnchor(Now, g, job[AnchorJob(g)].anchor)'
      BY <2>1, <2>3 DEF IsAnchor
    <3>. QED  BY <1>2, <2>2, <3>1 DEF NInv, AnchorJobsAgree
  <2>4. CASE status = [ready |-> TRUE, orgs |-> Now]
    BY <1>2, <2>2, <2>4, ReadyAgrees
  <2>. QED  BY <2>3, <2>4, NowStep
<1>. QED  BY <1>1, <1>2

LEMMA EditsStep ==
    ASSUME IInv, NInv, Next, EditWhenReady
    PROVE  EditsWait'
<1> SUFFICES ASSUME pass'.at # "idle", Declared' # spec'.orgs
             PROVE  status' = [ready |-> TRUE, orgs |-> Declared']
  BY DEF EditsWait
<1>2. ~ReportStatus
  BY IdleIs DEF ReportStatus
<1>3. UNCHANGED status
  BY <1>2, ReconcileWrites, JobFrame, FaultFrame, OthersFrame DEF Next
<1>4. StartPass => Declared' = spec'.orgs
  BY StartPassIs, ReconcileFrame DEF StartPass
<1>5. pass.at # "idle" /\ Declared' = Declared
  BY <1>4, PassKeeps DEF Declared
<1>6. Declared # spec.orgs => status = [ready |-> TRUE, orgs |-> Declared]
  BY <1>5 DEF NInv, EditsWait
<1>. QED  BY <1>3, <1>5, <1>6, OrgsStep

LEMMA AnchorsSettledStep ==
    ASSUME IInv, NInv, Next
    PROVE  AnchorsSettled'
<1>1. AnchorsSettled
  BY DEF NInv
<1>2. CASE UNCHANGED pass
  <2>1. CASE pass.at \notin {"anchors", "report"}
    BY <1>2, <2>1 DEF AnchorsSettled
  <2>2. CASE pass.at \in {"anchors", "report"}
    <3>1. Declared \in Declaration /\ Now = Declared
      BY <2>2, PassReads DEF Now
    <3>2. PICK d, i : d \in Declaration /\ d = Declared /\ i = pass.i
      BY <3>1
    <3>3. Declared' = d /\ pass'.i = i /\ pass'.at = pass.at /\ pass'.ok = pass.ok
      BY <1>2, <3>2 DEF Declared
    <3>4. \A n : Settled(d, n) => Settled(d, n)'
      BY <3>1, <3>2, SettledStays
    <3>. QED  BY <1>1, <3>2, <3>3, <3>4 DEF AnchorsSettled
  <2>. QED  BY <2>1, <2>2
<1>3. CASE pass'.at \notin {"anchors", "report"}
  BY <1>3 DEF AnchorsSettled
<1>4. Reports(FALSE) => AnchorsSettled'
  BY DEF AnchorsSettled, Reports
<1>5. ASSUME Goes("anchors"), pass.at = "peers"
      PROVE  AnchorsSettled'
  <2>1. \A n \in DOMAIN Declared : ~(n < 1)
    BY <1>5, PassFields
  <2>. QED  BY <1>5, <2>1 DEF AnchorsSettled, Goes, Settled
<1>6. ASSUME reconcileAnchorPeerUpdates
      PROVE  AnchorsSettled'
  <2>1. pass.at = "anchors" /\ Settled(Declared, pass.i) /\ UNCHANGED anchorResult
    BY <1>1, <1>6, reconcileAnchorPeerUpdatesIs, Zenon DEF AnchorsSettled, reconcileAnchorPeerUpdates, results
  <2>2. ASSUME pass.i > Len(Declared), Reports(TRUE)
        PROVE  AnchorsSettled'
    <3>1. \A n \in DOMAIN Declared : n < pass.i
      BY <2>1, <2>2, PassFields
    <3>. QED  BY <2>1, <2>2, <3>1 DEF AnchorsSettled, Reports, Settled
  <2>3. ASSUME pass.i \in DOMAIN Declared, anchorPeerUpdateResultMatches(Entry), Onward(pass.ok)
        PROVE  AnchorsSettled'
    <3>1. anchorResult[Declared[pass.i].name] = Declared[pass.i].peers[1]
      BY <2>3 DEF anchorPeerUpdateResultMatches, channelAnchorPeerForOrg, Entry
    <3>2. \A n \in DOMAIN Declared : n < pass.i + 1 => n < pass.i \/ n = pass.i
      BY <2>1, PassFields
    <3>. QED  BY <2>1, <2>3, <3>1, <3>2 DEF AnchorsSettled, Onward, Moves, Settled
  <2>. QED  BY <1>4, <1>6, <2>2, <2>3, reconcileAnchorPeerUpdatesIs, Zenon
<1>7. StartPass \/ reconcileChannelBlockGeneration \/ channelBlockReadiness \/ ReportStatus => AnchorsSettled'
  BY <1>3, <1>4, StartPassIs, GenerationIs, channelBlockReadinessIs, IdleIs, Zenon DEF Goes, ReportStatus
<1>8. reconcileOrdererJoins => AnchorsSettled'
  BY <1>3, <1>4, reconcileOrdererJoinsIs, Zenon DEF Goes, Onward, Moves
<1>9. reconcileLocalOrgAdditions => AnchorsSettled'
  BY <1>3, reconcileLocalOrgAdditionsIs, ZenonT(20) DEF Goes, Moves
<1>10. reconcileLocalOrgAdd => AnchorsSettled'
  BY <1>3, <1>4, reconcileLocalOrgAddIs, Zenon DEF Goes, Onward, Moves
<1>11. reconcilePeerJoins => AnchorsSettled'
  BY <1>3, <1>4, <1>5, reconcilePeerJoinsIs, Zenon DEF ToNextPeer, Moves
<1>12. Fault => AnchorsSettled'
  BY <1>2, <1>3, <1>4, FaultPasses, Zenon
<1>13. ReconcileStep => AnchorsSettled'
  BY <1>6, <1>7, <1>8, <1>9, <1>10, <1>11 DEF ReconcileStep
<1>. QED  BY <1>2, <1>12, <1>13, JobFrame, OthersFrame DEF Next

\* A pass over a declaration that is ready finds no organization to admit.
LEMMA NothingToAdmit ==
    ASSUME IInv, NInv, Next, status.ready, status.orgs = Now
    PROVE  /\ pass'.at = "receipts" => pass'.todo = <<>>
           /\ pass'.at # "add"
<1>. DEFINE Goal == (pass'.at = "receipts" => pass'.todo = <<>>) /\ pass'.at # "add"
<1>1. /\ Settled(Now, Len(Now) + 1) /\ (pass.at = "receipts" => pass.todo = <<>>) /\ pass.at # "add"
  BY DEF NInv, ReadySettled
<1>2. UNCHANGED pass \/ pass'.at \notin {"receipts", "add"} => Goal
  BY <1>1
<1>3. Reports(TRUE) \/ Reports(FALSE) => Goal
  BY DEF Reports
<1>4. reconcileOrdererJoins => Goal
  <2>1. pass.at = "orderers" => pass.todo = <<>>
    BY DEF IInv, PassShape
  <2>. QED  BY <1>3, <2>1, reconcileOrdererJoinsIs, Zenon DEF Goes, Onward, Moves
<1>5. ASSUME reconcileLocalOrgAdditions
      PROVE  Goal
  <2>1. pass.at = "receipts" /\ Declared \in Declaration /\ Now = Declared
    BY <1>5, reconcileLocalOrgAdditionsIs, PassReads DEF Now
  <2>2. ASSUME pass.i \in DOMAIN Declared
        PROVE  HasReceipt(Entry)
    <3>1. anchorResult[Entry.name] = Entry.peers[1]
      <4>1. pass.i < Len(Declared) + 1
        BY <2>1, <2>2, PassFields
      <4>. QED  BY <1>1, <2>1, <2>2, <4>1 DEF Settled, Entry
    <3>2. 1 \in DOMAIN Entry.peers
      BY <2>1, <2>2, DeclarationIs DEF Entry
    <3>. QED  BY <3>1, <3>2 DEF HasReceipt, Range
  <2>. QED  BY <1>1, <1>5, <2>1, <2>2, reconcileLocalOrgAdditionsIs, Zenon DEF Goes, Moves
<1>6. reconcileLocalOrgAdd => Goal
  BY <1>1, reconcileLocalOrgAddIs
<1>7. StartPass \/ reconcileChannelBlockGeneration \/ channelBlockReadiness \/ ReportStatus => Goal
  BY <1>3, StartPassIs, GenerationIs, channelBlockReadinessIs, IdleIs, Zenon DEF Goes, ReportStatus
<1>8. reconcilePeerJoins => Goal
  BY <1>3, reconcilePeerJoinsIs, Zenon DEF Goes, ToNextPeer, Moves
<1>9. reconcileAnchorPeerUpdates => Goal
  BY <1>3, reconcileAnchorPeerUpdatesIs, Zenon DEF Onward, Moves
<1>10. Fault => Goal
  BY <1>2, <1>3, FaultPasses, Zenon
<1>. HIDE DEF Goal
<1>11. ReconcileStep => Goal
  BY <1>4, <1>5, <1>6, <1>7, <1>8, <1>9 DEF ReconcileStep
<1>12. Goal
  BY <1>2, <1>10, <1>11, JobFrame, OthersFrame DEF Next
<1>. QED  BY <1>12 DEF Goal

LEMMA ReadySettledStep ==
    ASSUME IInv, NInv, Next, EditWhenReady
    PROVE  ReadySettled'
<1> SUFFICES ASSUME status'.ready, status'.orgs = Now'
             PROVE  /\ Settled(Now, Len(Now) + 1)'
                    /\ pass'.at = "receipts" => pass'.todo = <<>>
                    /\ pass'.at # "add"
  BY DEF ReadySettled
<1>1. CASE ReportStatus
  <2>1. /\ pass.at = "report" /\ pass'.at = "idle" /\ UNCHANGED anchorResult
        /\ status' = [ready |-> pass.ok, orgs |-> Declared]
    BY <1>1, IdleIs DEF ReportStatus, At, results
  <2>2. pass.ok /\ Now' = Declared
    BY <2>1
  <2>3. Settled(Declared, Len(Declared) + 1)
    BY <2>1, <2>2 DEF NInv, AnchorsSettled
  <2>. QED  BY <2>1, <2>2, <2>3 DEF Settled
<1>2. CASE UNCHANGED status /\ Now' = Now
  <2>1. Settled(Now, Len(Now) + 1) /\ Now \in Declaration
    BY <1>2, NowIs DEF NInv, ReadySettled
  <2>2. PICK d \in Declaration : d = Now
    BY <2>1
  <2>3. Settled(d, Len(d) + 1)'
    BY <2>1, <2>2, SettledStays
  <2>4. Settled(Now, Len(Now) + 1)'
    BY <1>2, <2>2, <2>3 DEF Settled
  <2>. QED  BY <1>2, <2>4, NothingToAdmit
<1>3. CASE UNCHANGED status /\ Now' # Now
  <2>1. status = [ready |-> TRUE, orgs |-> Now]
    BY <1>3, NowStep
  <2>. QED  BY <1>3, <2>1
<1>. QED  BY <1>1, <1>2, <1>3, ReconcileWrites, JobFrame, FaultFrame, OthersFrame DEF Next

LEMMA NInvInductive ==
    ASSUME EditWhenReady
    PROVE  /\ Init => NInv
           /\ IInv /\ NInv /\ [Next]_vars => NInv'
<1>1. Init => NInv
  BY DEF Init, NInv, AnchorJobsAgree, EditsWait, AnchorsSettled, ReadySettled, Idle
<1>2. ASSUME IInv, NInv, Next
      PROVE  NInv'
  BY <1>2, AgreeStep, EditsStep, AnchorsSettledStep, ReadySettledStep DEF NInv
<1>3. ASSUME NInv, UNCHANGED vars
      PROVE  NInv'
  <2>1. UNCHANGED <<job, anchorResult, pass, status, spec>>
    BY <1>3 DEF vars, kubernetes, results
  <2>2. AnchorJobsAgree' /\ EditsWait'
    BY <1>3, <2>1 DEF NInv, AnchorJobsAgree, EditsWait, IsAnchor, Now, Declared
  <2>3. AnchorsSettled' /\ ReadySettled'
    BY <1>3, <2>1, ZenonT(20) DEF NInv, AnchorsSettled, ReadySettled, Settled, Now, Declared
  <2>. QED  BY <2>2, <2>3 DEF NInv
<1>. QED  BY <1>1, <1>2, <1>3

\* Nothing is left to be done for the declaration that is ready.
LEMMA NothingBegins ==
    ASSUME IInv, RInv, NInv, Next, status.ready, pass.at # "idle", status.orgs = Declared
    PROVE  DOMAIN job' \subseteq DOMAIN job
<1>1. /\ Declared \in Declaration /\ Now = Declared
  BY PassReads, ZenonT(20) DEF Now
<1>2. Done(Declared) /\ Settled(Declared, Len(Declared) + 1) /\ pass.at # "add"
  BY <1>1, ZenonT(20) DEF RInv, AnchorsPassed, NInv, ReadySettled
<1> SUFFICES ASSUME NEW j \in DOMAIN job', j \notin DOMAIN job
             PROVE  FALSE
  OBVIOUS
<1>3. j \in JobName /\ Begins(j)
  BY JobsStep DEF Continues, JobShape
<1>4. ~reconcileChannelBlockGeneration
  BY <1>2 DEF reconcileChannelBlockGeneration, Done
<1>5. ~reconcileOrdererJoins
  <2> SUFFICES ASSUME reconcileOrdererJoins
               PROVE  FALSE
    OBVIOUS
  <2>1. pass.i \in DOMAIN Orderer => Orderer[pass.i] \in ordererResult
    BY <1>2 DEF Done, OrdererSet, Range
  <2>2. pass.i > Len(Orderer) \/ pass.i \in DOMAIN Orderer
    BY reconcileOrdererJoinsIs, PassFields DEF reconcileOrdererJoins
  <2>3. UNCHANGED job
    BY <2>1, <2>2, Zenon DEF reconcileOrdererJoins
  <2>. QED  BY <2>3
<1>6. ~reconcileLocalOrgAdd
  BY <1>2, ZenonT(20) DEF reconcileLocalOrgAdd, At
<1>7. ~reconcilePeerJoins
  <2> SUFFICES ASSUME reconcilePeerJoins
               PROVE  FALSE
    OBVIOUS
  <2>1. pass.i > Len(Declared) \/ (pass.i \in DOMAIN Declared /\ pass.k \in DOMAIN Entry.peers)
    <3>1. pass.at = "peers" /\ (pass.i <= Len(Declared) => pass.k <= Len(Entry.peers))
      BY ZenonT(20) DEF reconcilePeerJoins, At, IInv, PassShape
    <3>2. pass.i > Len(Declared) \/ (pass.i <= Len(Declared) /\ pass.i \in DOMAIN Declared)
      BY <3>1, PassFields
    <3>3. pass.i \in DOMAIN Declared => DOMAIN Entry.peers = 1..Len(Entry.peers) /\ Len(Entry.peers) \in Nat
      BY <1>1, DeclarationIs DEF Entry
    <3>. QED  BY <3>1, <3>2, <3>3, PassFields
  <2>2. pass.i \in DOMAIN Declared /\ pass.k \in DOMAIN Entry.peers
          => <<Entry.name, Entry.peers[pass.k]>> \in peerResult
    <3>1. PeersDone(Declared)
      BY <1>2 DEF Done
    <3>. QED  BY <1>1, <3>1, DeclarationIs DEF PeersDone, PeerNames, OrgPeer, Entry, Range
  <2>3. UNCHANGED job
    BY <2>1, <2>2, Zenon DEF reconcilePeerJoins, peerJoinResultReadiness
  <2>. QED  BY <2>3
<1>8. ~reconcileAnchorPeerUpdates
  <2> SUFFICES ASSUME reconcileAnchorPeerUpdates
               PROVE  FALSE
    OBVIOUS
  <2>1. pass.i > Len(Declared) \/ (pass.i \in DOMAIN Declared /\ pass.i < Len(Declared) + 1)
    BY <1>1, PassFields DEF reconcileAnchorPeerUpdates, At
  <2>2. pass.i \in DOMAIN Declared /\ pass.i < Len(Declared) + 1 => anchorPeerUpdateResultMatches(Entry)
    BY <1>2 DEF Settled, anchorPeerUpdateResultMatches, channelAnchorPeerForOrg, Entry
  <2>3. UNCHANGED job
    BY <2>1, <2>2, Zenon DEF reconcileAnchorPeerUpdates
  <2>. QED  BY <2>3
<1>. QED  BY <1>3, <1>4, <1>5, <1>6, <1>7, <1>8, JobNameIs DEF Begins, JobName

\* Provided that users edit only a channel that is ready, a pass over a
\* declaration whose status is ready creates no Job, although
\* cleanupSucceededJobs has deleted the Jobs that did the work.
THEOREM ReadyIsNotRedone ==
    ASSUME EditWhenReady
    PROVE  Spec => NoRework
<1>1. ASSUME IInv, RInv, NInv, [Next]_vars
      PROVE  [status.ready /\ ~At("idle") /\ status.orgs = Declared => DOMAIN job' \subseteq DOMAIN job]_vars
  BY <1>1, NothingBegins DEF At
<1>. QED  BY <1>1, InitIInv, NextIInv, RInvInductive, NInvInductive, PTL DEF Spec, NoRework
-----------------------------------------------------------------------------
\* What users keep to when they edit a channel: the new declaration keeps an
\* organization together with the peer that was its anchor.
AdministratorStays ==
    \A d, e \in Declaration : <<d, e>> \in Edit =>
        \E n \in DOMAIN d, m \in DOMAIN e : d[n].name = e[m].name /\ d[n].peers[1] \in Range(e[m].peers)

Covers(m) == \A g \in Names(initial) : m[g] # None

\* From position i on, the declaration has an organization that the receipts
\* show to be a member that can administer.
Administers(orgs, i) == \E n \in DOMAIN orgs : n >= i /\ anchorResult[orgs[n].name] \in Range(orgs[n].peers)

\* Before the channel exists nothing but the initial declaration is worked on;
\* the channel starts with its organizations.
Founding ==
    joined[First] = None =>
       /\ spec.orgs = initial /\ Now = initial
       /\ BlockJob \in DOMAIN job =>
             /\ Covers(configtx)
             /\ job[BlockJob].step = "ran" => Covers(job[BlockJob].got.anchors)
       /\ block # None => Covers(block.anchors)

Founded == joined[First] # None => Names(initial) \subseteq ledger.members

\* Whenever the declaration is not the initial one, it has an administrator.
Administered ==
    /\ spec.orgs = initial \/ Administers(spec.orgs, 1)
    /\ Now = initial \/ Administers(Now, 1)

ReceiptsSorted ==
    pass.at = "receipts" =>
       /\ Declared = initial \/ pass.admin # None \/ Administers(Declared, pass.i)
       /\ \A n \in DOMAIN Declared : n < pass.i =>
             anchorResult[Declared[n].name] # None \/ Declared[n].name \in Range(pass.todo)

AdditionsLeft ==
    pass.at = "add" =>
       \A g \in Names(Declared) :
          g \in ledger.members \/ \E n \in DOMAIN pass.todo : n >= pass.i /\ pass.todo[n] = g

GatePassed == pass.at \in {"peers", "anchors"} => Names(Declared) \subseteq ledger.members

GInv == /\ Founding /\ Founded /\ Administered /\ ReceiptsSorted /\ AdditionsLeft /\ GatePassed
        /\ AdmissionGate

LEMMA OrderersHaveJoined ==
    ASSUME RInv, OrdererSet \subseteq ordererResult
    PROVE  joined[First] # None
BY OrdererIs DEF RInv, Joins, First

LEMMA FirstStays ==
    ASSUME IInv, Next, joined[First] # None
    PROVE  joined'[First] # None
BY OrdererIs, FabricStep DEF Node

\* The anchor receipts of a declaration that is ready no longer change.
LEMMA ReadyKeepsReceipts ==
    ASSUME IInv, NInv, Next, status.ready, status.orgs = Now
    PROVE  UNCHANGED anchorResult
<1>1. ASSUME NEW g \in Org, AnchorJob(g) \in DOMAIN job,
             anchorResult' = [anchorResult EXCEPT ![g] = job[AnchorJob(g)].anchor]
      PROVE  UNCHANGED anchorResult
  <2>1. job[AnchorJob(g)].anchor = anchorResult[g] /\ anchorResult \in AnchorMap
    BY <1>1, ReadyAgrees DEF IInv, ResultShape
  <2>. QED  BY <1>1, <2>1 DEF AnchorMap
<1>. QED  BY <1>1, AnchorResultStep

LEMMA AdministersStays ==
    ASSUME IInv, NInv, Next, NEW d \in Declaration, d = Now, NEW i, Administers(d, i)
    PROVE  Administers(d, i)'
<1>1. PICK n \in DOMAIN d : n >= i /\ anchorResult[d[n].name] \in Range(d[n].peers)
  BY DEF Administers
<1>2. d[n].name \in Org /\ 1 \in DOMAIN d[n].peers
  BY DeclarationIs
<1>3. ASSUME NEW g \in Org, AnchorJob(g) \in DOMAIN job,
             anchorResult' = [anchorResult EXCEPT ![g] = job[AnchorJob(g)].anchor]
      PROVE  anchorResult'[d[n].name] \in Range(d[n].peers)
  <2>1. /\ anchorResult \in AnchorMap
        /\ \/ job[AnchorJob(g)].anchor = anchorResult[g]
           \/ IsAnchor(d, g, job[AnchorJob(g)].anchor)
    BY <1>3 DEF IInv, ResultShape, NInv, AnchorJobsAgree
  <2>2. IsAnchor(d, d[n].name, job[AnchorJob(g)].anchor) => job[AnchorJob(g)].anchor \in Range(d[n].peers)
    BY <1>2, DeclarationIs DEF IsAnchor, Range
  <2>. QED  BY <1>1, <1>2, <1>3, <2>1, <2>2 DEF AnchorMap
<1>4. anchorResult'[d[n].name] \in Range(d[n].peers)
  BY <1>1, <1>3, AnchorResultStep
<1>. QED  BY <1>1, <1>4 DEF Administers

LEMMA GenerationCovers ==
    ASSUME IInv, reconcileChannelBlockGeneration, Now = initial
    PROVE  Covers(configtx)'
<1>1. configtx' = buildConfigtxYAML(initial) /\ initial \in Declaration
  BY DeclarationsAreWellFormed DEF reconcileChannelBlockGeneration, At, Now
<1>. QED  BY <1>1, buildConfigtxYAMLIs, NoneIsNoValue DEF Covers

LEMMA FoundingStep ==
    ASSUME IInv, RInv, NInv, GInv, Next, EditWhenReady
    PROVE  Founding'
<1> SUFFICES ASSUME joined'[First] = None
             PROVE  /\ spec'.orgs = initial /\ Now' = initial
                    /\ BlockJob \in DOMAIN job' =>
                          /\ Covers(configtx)'
                          /\ job'[BlockJob].step = "ran" => Covers(job[BlockJob].got.anchors)'
                    /\ block' # None => Covers(block.anchors)'
  BY DEF Founding
<1>1. joined[First] = None
  BY FirstStays
<1>2. /\ spec.orgs = initial /\ Now = initial
      /\ BlockJob \in DOMAIN job =>
            /\ Covers(configtx)
            /\ job[BlockJob].step = "ran" => Covers(job[BlockJob].got.anchors)
      /\ block # None => Covers(block.anchors)
  BY <1>1 DEF GInv, Founding
<1>3. ~status.ready
  BY <1>1, OrderersHaveJoined DEF RInv, AnchorsPassed, Done
<1>4. spec'.orgs = initial /\ Now' = initial
  BY <1>2, <1>3, OrgsStep, NowStep
<1>5. configtx' = configtx \/ Covers(configtx)'
  BY <1>2, GenerationCovers, ReconcileWrites, JobFrame, FaultFrame, OthersFrame DEF Next
<1>6. ASSUME BlockJob \in DOMAIN job'
      PROVE  Covers(configtx)'
  <2>1. BlockJob \in DOMAIN job \/ reconcileChannelBlockGeneration
    BY <1>6, JobsStep, JobNameIs DEF Continues, Begins
  <2>. QED  BY <1>2, <1>5, <2>1, GenerationCovers DEF Covers
<1>7. ASSUME BlockJob \in DOMAIN job', job'[BlockJob].step = "ran"
      PROVE  Covers(job[BlockJob].got.anchors)'
  <2>1. BlockJob \in DOMAIN job /\ (job'[BlockJob] = job[BlockJob] \/ generateChannelBlock)
    BY <1>7, JobsStep, JobNameIs DEF Continues, Runs
  <2>2. CASE job'[BlockJob] = job[BlockJob]
    BY <1>2, <1>7, <2>1, <2>2 DEF Covers
  <2>3. CASE generateChannelBlock
    <3>1. PICK got : got = [id |-> spent.runs + 1, anchors |-> configtx]
      BY ZenonT(20)
    <3>2. /\ job' = [job EXCEPT ![BlockJob].step = "ran", ![BlockJob].got = got]
          /\ job[BlockJob] \in JobRecord /\ job \in [DOMAIN job -> JobRecord]
      BY <2>1, <2>3, <3>1 DEF generateChannelBlock, Advance, IInv, JobShape
    <3>3. job'[BlockJob].got = got
      BY <2>1, <3>2, Zenon DEF JobRecord
    <3>. QED  BY <1>2, <2>1, <3>1, <3>3 DEF Covers
  <2>. QED  BY <2>1, <2>2, <2>3
<1>8. ASSUME block' # None
      PROVE  Covers(block.anchors)'
  <2>1. CASE publishChannelBlock
    <3>1. BlockJob \in DOMAIN job /\ job[BlockJob].step = "ran" /\ block' = job[BlockJob].got
      BY <2>1 DEF publishChannelBlock, Running
    <3>. QED  BY <1>2, <3>1 DEF Covers
  <2>2. CASE UNCHANGED block
    BY <1>2, <1>8, <2>2 DEF Covers
  <2>. QED  BY <2>1, <2>2, ReconcileFrame, JobWrites, FaultFrame, OthersFrame DEF Next
<1>. QED  BY <1>4, <1>6, <1>7, <1>8

LEMMA FoundedStep ==
    ASSUME IInv, GInv, Next
    PROVE  Founded'
<1> SUFFICES ASSUME joined'[First] # None
             PROVE  Names(initial) \subseteq ledger'.members
  BY DEF Founded
<1>1. CASE joined[First] # None
  BY <1>1, FabricStep DEF GInv, Founded
<1>2. CASE joined[First] = None
  <2>1. PICK o \in OrdererSet : joinOrderer(o)
    <3>1. ~UNCHANGED joined /\ ~\E p \in OrgPeer : joinPeer(p)
      BY <1>2, OrdererIs, joinPeerIs
    <3>. QED  BY <3>1, JobWrites, ReconcileFrame, FaultFrame, OthersFrame DEF Next, fabric
  <2>2. /\ block \in Genesis
        /\ ledger' = [ledger EXCEPT !.members = {g \in Org : block.anchors[g] # None},
                                    !.anchors = block.anchors]
    BY <1>2, <2>1, joinOrdererIs, ZenonT(20)
  <2>3. ledger'.members = {g \in Org : block.anchors[g] # None}
    BY <2>2 DEF IInv, FabricShape, Ledger
  <2>4. Covers(block.anchors) /\ Names(initial) \subseteq Org
    BY <1>2, <2>2, NoneIsNoValue, DeclarationsAreWellFormed, DeclarationIs DEF GInv, Founding, Names
  <2>. QED  BY <2>3, <2>4 DEF Covers
<1>. QED  BY <1>1, <1>2

LEMMA AdministeredStep ==
    ASSUME IInv, NInv, GInv, Next, EditWhenReady, AdministratorStays
    PROVE  Administered'
<1>1. /\ spec.orgs = initial \/ Administers(spec.orgs, 1)
      /\ Now = initial \/ Administers(Now, 1)
      /\ spec.orgs \in Declaration /\ Now \in Declaration
  BY NowIs DEF GInv, Administered, IInv, SpecShape, ChannelSpec
<1>2. PICK d \in Declaration, w \in Declaration : d = spec.orgs /\ w = Now
  BY <1>1
<1>3. d = w \/ (status.ready /\ status.orgs = w)
  BY <1>2 DEF NInv, EditsWait, Now
<1>4. (d = initial \/ Administers(d, 1)') /\ (w = initial \/ Administers(w, 1)')
  <2>1. w = initial \/ Administers(w, 1)'
    BY <1>1, <1>2, AdministersStays
  <2>2. CASE status.ready /\ status.orgs = w
    <3>1. UNCHANGED anchorResult
      BY <1>2, <2>2, ReadyKeepsReceipts
    <3>. QED  BY <1>1, <1>2, <2>1, <3>1 DEF Administers
  <2>. QED  BY <1>3, <2>1, <2>2
<1>5. spec'.orgs = initial \/ Administers(spec.orgs, 1)'
  <2>1. CASE spec'.orgs = spec.orgs
    BY <1>2, <1>4, <2>1 DEF Administers
  <2>2. ASSUME NEW e \in Declaration, EditOrgs(e)
        PROVE  Administers(spec.orgs, 1)'
    <3>1. /\ <<d, e>> \in Edit /\ status.ready /\ status.orgs = d /\ spec'.orgs = e
          /\ UNCHANGED anchorResult
      BY <1>2, <2>2 DEF EditOrgs, IInv, SpecShape, ChannelSpec, results
    <3>2. d = w
      BY <1>2, <1>3, <3>1
    <3>3. Settled(d, Len(d) + 1)
      BY <1>2, <3>1, <3>2 DEF NInv, ReadySettled
    <3>4. PICK n \in DOMAIN d, m \in DOMAIN e : d[n].name = e[m].name /\ d[n].peers[1] \in Range(e[m].peers)
      BY <3>1 DEF AdministratorStays
    <3>5. n < Len(d) + 1 /\ m >= 1
      BY DeclarationIs
    <3>6. anchorResult[e[m].name] \in Range(e[m].peers)
      BY <3>3, <3>4, <3>5 DEF Settled
    <3>. QED  BY <3>1, <3>5, <3>6 DEF Administers
  <2>3. ASSUME NEW g, NEW e, SetSignedUpdateRef(g, e)
        PROVE  spec'.orgs = spec.orgs
    BY <2>3, Zenon DEF SetSignedUpdateRef, ChannelSpec, IInv, SpecShape
  <2>. QED  BY <2>1, <2>2, <2>3, OthersWrite, ReconcileFrame, JobFrame, FaultFrame, Zenon DEF Next
<1>6. Now' = Now \/ Now' = spec'.orgs
  BY StartPassIs, ReconcileFrame, PassKeeps DEF Now, Declared
<1>7. Now' = initial \/ Administers(Now, 1)'
  BY <1>2, <1>4, <1>5, <1>6 DEF Administers
<1>. QED  BY <1>5, <1>7 DEF Administered

LEMMA RangeAppend ==
    ASSUME NEW s \in Seq(Org), NEW g \in Org
    PROVE  g \in Range(Append(s, g)) /\ Range(s) \subseteq Range(Append(s, g))
<1>1. /\ DOMAIN Append(s, g) = 1..(Len(s) + 1) /\ DOMAIN s = 1..Len(s) /\ Len(s) \in Nat
      /\ Append(s, g)[Len(s) + 1] = g /\ \A n \in 1..Len(s) : Append(s, g)[n] = s[n]
  OBVIOUS
<1>2. g \in Range(Append(s, g))
  BY <1>1 DEF Range
<1>3. \A n \in DOMAIN s : n \in DOMAIN Append(s, g) /\ s[n] = Append(s, g)[n]
  BY <1>1
<1>. QED  BY <1>2, <1>3 DEF Range

LEMMA ReceiptsSortedStep ==
    ASSUME IInv, NInv, GInv, Next
    PROVE  ReceiptsSorted'
<1>1. ReceiptsSorted
  BY DEF GInv
<1>2. CASE pass'.at # "receipts"
  BY <1>2 DEF ReceiptsSorted
<1>3. ASSUME pass.at # "idle"
      PROVE  /\ Declared \in Declaration /\ Now = Declared
             /\ Declared = initial \/ Administers(Declared, 1)
             /\ \A n \in DOMAIN Declared : Declared[n].name \in Org
  BY <1>3, PassReads, DeclarationIs DEF Now, GInv, Administered
<1>4. CASE UNCHANGED pass /\ pass.at = "receipts"
  <2>1. PICK d, i : d \in Declaration /\ d = Declared /\ i = pass.i
    BY <1>3, <1>4
  <2>2. Declared' = d /\ pass'.i = i /\ pass'.admin = pass.admin /\ pass'.todo = pass.todo
    BY <1>4, <2>1 DEF Declared
  <2>3. Administers(d, i) => Administers(d, i)'
    BY <1>3, <1>4, <2>1, AdministersStays
  <2>4. \A n \in DOMAIN d : anchorResult[d[n].name] # None => anchorResult'[d[n].name] # None
    BY <1>3, <1>4, <2>1, ResultStep
  <2>5. d = initial \/ pass.admin # None \/ Administers(d, i)
    BY <1>1, <1>4, <2>1 DEF ReceiptsSorted
  <2>6. \A n \in DOMAIN d : n < i => anchorResult[d[n].name] # None \/ d[n].name \in Range(pass.todo)
    BY <1>1, <1>4, <2>1 DEF ReceiptsSorted
  <2>7. (Declared = initial \/ pass.admin # None \/ Administers(Declared, pass.i))'
    BY <2>2, <2>3, <2>5 DEF Administers
  <2>8. \A n \in DOMAIN Declared' : n < pass'.i =>
             anchorResult'[Declared'[n].name] # None \/ Declared'[n].name \in Range(pass'.todo)
    BY <2>2, <2>4, <2>6
  <2>. QED  BY <2>7, <2>8 DEF ReceiptsSorted
<1>5. ASSUME reconcileOrdererJoins, Goes("receipts")
      PROVE  ReceiptsSorted'
  <2>1. /\ Declared' = Declared /\ pass'.i = 1 /\ UNCHANGED anchorResult
        /\ Declared = initial \/ Administers(Declared, 1)
    BY <1>3, <1>5, reconcileOrdererJoinsIs, Zenon DEF Goes, reconcileOrdererJoins, results
  <2>2. \A n \in DOMAIN Declared : ~(n < 1)
    BY <1>5, reconcileOrdererJoinsIs, PassFields
  <2>. QED  BY <2>1, <2>2 DEF ReceiptsSorted, Administers
<1>6. ASSUME reconcileLocalOrgAdditions, pass'.at = "receipts"
      PROVE  ReceiptsSorted'
  <2>1. pass.at = "receipts" /\ UNCHANGED anchorResult
    BY <1>6, reconcileLocalOrgAdditionsIs DEF reconcileLocalOrgAdditions, results
  <2>2. /\ Declared = initial \/ pass.admin # None \/ Administers(Declared, pass.i)
        /\ \A n \in DOMAIN Declared : n < pass.i =>
              anchorResult[Declared[n].name] # None \/ Declared[n].name \in Range(pass.todo)
    BY <1>1, <2>1 DEF ReceiptsSorted
  <2>3. \A n \in DOMAIN Declared : /\ n < pass.i + 1 => n < pass.i \/ n = pass.i
                                   /\ n >= pass.i => n >= pass.i + 1 \/ n = pass.i
    BY <2>1, PassFields
  <2>4. ASSUME pass.i \in DOMAIN Declared, ~HasReceipt(Entry),
               Moves(pass.i + 1, pass.k, pass.ok, pass.admin, Append(pass.todo, Entry.name))
        PROVE  ReceiptsSorted'
    <3>1. Administers(Declared, pass.i) => Administers(Declared, pass.i + 1)
      BY <2>3, <2>4 DEF Administers, HasReceipt, Entry
    <3>2. Entry.name \in Range(Append(pass.todo, Entry.name))
            /\ Range(pass.todo) \subseteq Range(Append(pass.todo, Entry.name))
      <4>1. pass.todo \in Seq(Org) /\ Entry.name \in Org
        BY <1>3, <2>1, <2>4, PassFields DEF Entry
      <4>. QED  BY <4>1, RangeAppend
    <3>3. /\ Declared' = Declared /\ pass'.i = pass.i + 1 /\ pass'.admin = pass.admin
          /\ pass'.todo = Append(pass.todo, Entry.name)
      BY <2>4 DEF Moves
    <3>4. (Declared = initial \/ pass.admin # None \/ Administers(Declared, pass.i))'
      BY <2>1, <2>2, <3>1, <3>3 DEF Administers
    <3>5. \A n \in DOMAIN Declared' : n < pass'.i =>
             anchorResult'[Declared'[n].name] # None \/ Declared'[n].name \in Range(pass'.todo)
      BY <2>1, <2>2, <2>3, <3>2, <3>3 DEF Entry
    <3>. QED  BY <3>4, <3>5 DEF ReceiptsSorted
  <2>5. ASSUME pass.i \in DOMAIN Declared, HasReceipt(Entry), NEW admin, admin # None,
               Moves(pass.i + 1, pass.k, pass.ok, admin, pass.todo)
        PROVE  ReceiptsSorted'
    <3>1. anchorResult[Declared[pass.i].name] # None
      <4>1. \A a \in Range(Declared[pass.i].peers) : a \in Peer
        BY <1>3, <2>1, <2>5, DeclarationIs DEF Range
      <4>. QED  BY <2>5, <4>1, NoneIsNoValue DEF HasReceipt, Entry
    <3>2. Declared' = Declared /\ pass'.i = pass.i + 1 /\ pass'.admin = admin /\ pass'.todo = pass.todo
      BY <2>5 DEF Moves
    <3>3. \A n \in DOMAIN Declared' : n < pass'.i =>
             anchorResult'[Declared'[n].name] # None \/ Declared'[n].name \in Range(pass'.todo)
      BY <2>1, <2>2, <2>3, <3>1, <3>2
    <3>. QED  BY <2>5, <3>2, <3>3 DEF ReceiptsSorted
  <2>. QED  BY <1>3, <1>6, <2>1, <2>4, <2>5, reconcileLocalOrgAdditionsIs, NoneIsNoValue DEF Goes, Entry
<1>7. StartPass \/ reconcileChannelBlockGeneration \/ channelBlockReadiness \/ ReportStatus => pass'.at # "receipts"
  BY StartPassIs, GenerationIs, channelBlockReadinessIs, IdleIs, Zenon DEF Goes, Reports, ReportStatus
<1>8. reconcileOrdererJoins => ReceiptsSorted'
  BY <1>2, <1>5, reconcileOrdererJoinsIs, Zenon DEF Reports, Onward, Moves
<1>9. reconcileLocalOrgAdd \/ reconcilePeerJoins \/ reconcileAnchorPeerUpdates => pass'.at # "receipts"
  BY reconcileLocalOrgAddIs, reconcilePeerJoinsIs, reconcileAnchorPeerUpdatesIs, Zenon
     DEF Goes, Reports, Onward, ToNextPeer, Moves
<1>10. Fault => UNCHANGED pass \/ pass'.at # "receipts"
  BY FaultPasses, ZenonT(20) DEF Reports
<1>11. UNCHANGED pass => ReceiptsSorted'
  BY <1>2, <1>4
<1>12. ReconcileStep => ReceiptsSorted'
  BY <1>2, <1>6, <1>7, <1>8, <1>9 DEF ReconcileStep
<1>. QED  BY <1>2, <1>10, <1>11, <1>12, JobFrame, OthersFrame DEF Next

\* What reconcileLocalOrgAdd takes for an admission is one.
LEMMA AdmittedIsMember ==
    ASSUME IInv, pass.at = "add", pass.i \in DOMAIN pass.todo,
           Admitted(<<pass.admin, pass.todo[pass.i]>>, pass.spec.signed[pass.todo[pass.i]])
    PROVE  pass.todo[pass.i] \in ledger.members
<1>1. PICK a, g, e : a \in Org /\ g \in Org /\ a = pass.admin /\ g = pass.todo[pass.i] /\ e = pass.spec.signed[g]
  BY PassFields DEF IInv, PassSorts
<1>2. <<a, g>> \in AddKey
  BY <1>1 DEF IInv, PassSorts, AddKey
<1>3. PICK r \in Evidence : r = addResult[<<a, g>>]
  BY <1>1, <1>2 DEF Admitted, IInv, ResultShape
<1>4. r.outcome = "alreadyApplied" \/ <<a, g, r.version, e>> \in submitResult
  BY <1>1, <1>3 DEF Admitted, Evidence
<1>5. r.outcome = "alreadyApplied" => g \in ledger.members
  BY <1>1, <1>2, <1>3 DEF Admitted, IInv, EvidenceIsMembership
<1>6. <<a, g, r.version, e>> \in submitResult => g \in ledger.members
  BY DEF IInv, EvidenceIsMembership
<1>. QED  BY <1>1, <1>4, <1>5, <1>6

\* Once every organization of the declaration has been sorted, the ones with no
\* receipt are those to admit.
LEMMA SortedAll ==
    ASSUME IInv, GInv, pass.at = "receipts", pass.i > Len(Declared)
    PROVE  /\ \A g \in Names(Declared) : g \in ledger.members \/ g \in Range(pass.todo)
           /\ Declared = initial \/ pass.admin # None
<1>1. Declared \in Declaration /\ ReceiptsSorted
  BY PassReads DEF GInv
<1>2. \A n \in DOMAIN Declared : n < pass.i /\ ~(n >= pass.i) /\ Declared[n].name \in Org
  BY <1>1, PassFields, DeclarationIs
<1>3. ~Administers(Declared, pass.i)
  BY <1>2 DEF Administers
<1>4. \A n \in DOMAIN Declared : Declared[n].name \in ledger.members \/ Declared[n].name \in Range(pass.todo)
  BY <1>1, <1>2 DEF ReceiptsSorted, IInv, EvidenceIsMembership
<1>. QED  BY <1>1, <1>3, <1>4 DEF ReceiptsSorted, Names

LEMMA AdditionsLeftStep ==
    ASSUME IInv, GInv, Next
    PROVE  AdditionsLeft'
<1>1. AdditionsLeft /\ ledger.members \subseteq ledger'.members
  BY FabricStep DEF GInv
<1>2. CASE pass'.at # "add"
  BY <1>2 DEF AdditionsLeft
<1>3. CASE UNCHANGED pass
  BY <1>1, <1>3 DEF AdditionsLeft, Names, Declared
<1>4. ASSUME reconcileLocalOrgAdditions, pass.i > Len(Declared), Goes("add")
      PROVE  AdditionsLeft'
  <2>1. \A g \in Names(Declared) : g \in ledger.members \/ g \in Range(pass.todo)
    BY <1>4, SortedAll, reconcileLocalOrgAdditionsIs
  <2>2. Declared' = Declared /\ pass'.i = 1 /\ pass'.todo = pass.todo
    BY <1>4 DEF Goes
  <2>3. \A g \in Range(pass.todo) : \E n \in DOMAIN pass.todo : n >= 1 /\ pass.todo[n] = g
    BY PassFields DEF Range
  <2>. QED  BY <1>1, <2>1, <2>2, <2>3 DEF AdditionsLeft, Names
<1>5. ASSUME reconcileLocalOrgAdd, pass.i \in DOMAIN pass.todo, Onward(pass.ok),
             Admitted(<<pass.admin, pass.todo[pass.i]>>, pass.spec.signed[pass.todo[pass.i]])
      PROVE  AdditionsLeft'
  <2>1. pass.at = "add" /\ pass.todo[pass.i] \in ledger.members
    BY <1>5, reconcileLocalOrgAddIs, AdmittedIsMember
  <2>2. Declared' = Declared /\ pass'.i = pass.i + 1 /\ pass'.todo = pass.todo
    BY <1>5 DEF Onward, Moves
  <2>3. \A n \in DOMAIN pass.todo : n >= pass.i => n >= pass.i + 1 \/ n = pass.i
    BY PassFields
  <2>. QED  BY <1>1, <2>1, <2>2, <2>3 DEF AdditionsLeft, Names
<1>6. StartPass \/ reconcileChannelBlockGeneration \/ channelBlockReadiness \/ ReportStatus => pass'.at # "add"
  BY StartPassIs, GenerationIs, channelBlockReadinessIs, IdleIs, Zenon DEF Goes, Reports, ReportStatus
<1>7. reconcileOrdererJoins \/ reconcilePeerJoins \/ reconcileAnchorPeerUpdates => pass'.at # "add"
  BY reconcileOrdererJoinsIs, reconcilePeerJoinsIs, reconcileAnchorPeerUpdatesIs, Zenon
     DEF Goes, Reports, Onward, ToNextPeer, Moves
<1>8. reconcileLocalOrgAdditions => AdditionsLeft'
  BY <1>2, <1>4, reconcileLocalOrgAdditionsIs, Zenon DEF Goes, Moves
<1>9. reconcileLocalOrgAdd => AdditionsLeft'
  BY <1>2, <1>5, reconcileLocalOrgAddIs, Zenon DEF Goes, Reports
<1>10. Fault => UNCHANGED pass \/ pass'.at # "add"
  BY FaultPasses, Zenon DEF Reports
<1>11. ReconcileStep => AdditionsLeft'
  BY <1>2, <1>6, <1>7, <1>8, <1>9 DEF ReconcileStep
<1>. QED  BY <1>2, <1>3, <1>10, <1>11, JobFrame, OthersFrame DEF Next

LEMMA GatePassedStep ==
    ASSUME IInv, RInv, GInv, Next
    PROVE  GatePassed'
<1>1. GatePassed /\ AdditionsLeft /\ ledger.members \subseteq ledger'.members
  BY FabricStep DEF GInv
<1>2. CASE pass'.at \notin {"peers", "anchors"}
  BY <1>2 DEF GatePassed
<1>3. ASSUME Declared' = Declared, Names(Declared) \subseteq ledger.members
      PROVE  GatePassed'
  BY <1>1, <1>3 DEF GatePassed, Names
<1>4. UNCHANGED pass => GatePassed'
  BY <1>1, <1>3 DEF GatePassed, Names, Declared
<1>5. ASSUME pass.at = "receipts", pass.i > Len(Declared), Goes("peers"), pass.admin = None \/ pass.todo = <<>>
      PROVE  GatePassed'
  <2>1. pass.todo = <<>> => Names(Declared) \subseteq ledger.members
    BY <1>5, SortedAll DEF Range
  <2>2. joined[First] # None
    BY <1>5, OrderersHaveJoined DEF RInv, OrderersPassed
  <2>3. pass.admin = None => Names(Declared) \subseteq ledger.members
    BY <1>5, <2>2, SortedAll DEF GInv, Founded
  <2>. QED  BY <1>3, <1>5, <2>1, <2>3 DEF Goes
<1>6. ASSUME pass.at = "add", pass.i > Len(pass.todo), Goes("peers")
      PROVE  GatePassed'
  <2>1. \A n \in DOMAIN pass.todo : ~(n >= pass.i)
    BY <1>6, PassFields
  <2>. QED  BY <1>1, <1>3, <1>6, <2>1 DEF AdditionsLeft, Goes
<1>7. reconcilePeerJoins => GatePassed'
  BY <1>1, <1>2, <1>3, reconcilePeerJoinsIs, ZenonT(20) DEF GatePassed, Goes, Reports, ToNextPeer, Moves
<1>8. reconcileAnchorPeerUpdates => GatePassed'
  BY <1>1, <1>2, <1>3, reconcileAnchorPeerUpdatesIs, Zenon DEF GatePassed, Reports, Onward, Moves
<1>9. reconcileLocalOrgAdditions => GatePassed'
  BY <1>2, <1>5, reconcileLocalOrgAdditionsIs, ZenonT(20) DEF Goes, Moves
<1>10. reconcileLocalOrgAdd => GatePassed'
  BY <1>2, <1>6, reconcileLocalOrgAddIs, Zenon DEF Reports, Onward, Moves
<1>11. StartPass \/ reconcileChannelBlockGeneration \/ channelBlockReadiness \/ ReportStatus => GatePassed'
  BY <1>2, StartPassIs, GenerationIs, channelBlockReadinessIs, IdleIs, ZenonT(20) DEF Goes, Reports, ReportStatus
<1>12. reconcileOrdererJoins => GatePassed'
  BY <1>2, reconcileOrdererJoinsIs, ZenonT(20) DEF Goes, Reports, Onward, Moves
<1>13. Fault => GatePassed'
  BY <1>2, <1>4, FaultPasses, Zenon DEF Reports
<1>14. ReconcileStep => GatePassed'
  BY <1>7, <1>8, <1>9, <1>10, <1>11, <1>12 DEF ReconcileStep
<1>. QED  BY <1>4, <1>13, <1>14, JobFrame, OthersFrame DEF Next

LEMMA AdmissionGateStep ==
    ASSUME IInv, GInv, Next
    PROVE  AdmissionGate'
<1>1. AdmissionGate /\ GatePassed /\ ledger.members \subseteq ledger'.members
  BY FabricStep, Zenon DEF GInv
<1>2. ASSUME pass.at \in {"peers", "anchors"}, pass.i \in DOMAIN Declared
      PROVE  Entry.name \in ledger.members
  BY <1>1, <1>2 DEF GatePassed, Names, Entry
<1>3. ASSUME NEW g \in Org, AnchorJob(g) \in DOMAIN job'
      PROVE  g \in ledger'.members
  <2>1. CASE AnchorJob(g) \in DOMAIN job
    BY <1>1, <2>1, ZenonT(20) DEF AdmissionGate
  <2>2. CASE AnchorJob(g) \notin DOMAIN job
    <3>1. reconcileAnchorPeerUpdates
      BY <1>3, <2>2, JobsStep, JobNameIs DEF Continues, Begins
    <3>2. pass.at = "anchors" /\ ~(pass.i > Len(Declared))
      BY <2>2, <1>3, <3>1, Zenon DEF reconcileAnchorPeerUpdates, At
    <3>3. AnchorJob(g) = AnchorJob(Entry.name)
      BY <1>3, <2>2, <3>1, Zenon DEF reconcileAnchorPeerUpdates, ensureJob
    <3>4. g = Entry.name /\ pass.i \in DOMAIN Declared
      <4>1. pass.i \in DOMAIN Declared
        BY <3>2, PassFields
      <4>2. PICK e : e = Entry.name
        OBVIOUS
      <4>3. AnchorJob(g) = AnchorJob(e)
        BY <3>3, <4>2
      <4>. QED  BY <4>1, <4>2, <4>3 DEF AnchorJob
    <3>. QED  BY <1>1, <1>2, <3>2, <3>4
  <2>. QED  BY <2>1, <2>2, ZenonT(20)
<1>4. ASSUME NEW g \in Org, NEW n \in Peer, PeerJob(<<g, n>>) \in DOMAIN job'
      PROVE  g \in ledger'.members
  <2>1. CASE PeerJob(<<g, n>>) \in DOMAIN job
    BY <1>1, <2>1 DEF AdmissionGate
  <2>2. CASE PeerJob(<<g, n>>) \notin DOMAIN job
    <3>1. reconcilePeerJoins
      BY <1>4, <2>2, JobsStep, JobNameIs DEF Continues, Begins
    <3>2. pass.at = "peers" /\ ~(pass.i > Len(Declared))
      BY <2>2, <1>4, <3>1, Zenon DEF reconcilePeerJoins, At
    <3>3. PeerJob(<<g, n>>) = PeerJob(<<Entry.name, Entry.peers[pass.k]>>)
      <4>1. job' # job
        BY <1>4, <2>2
      <4>2. PICK j, r : /\ j = PeerJob(<<Entry.name, Entry.peers[pass.k]>>)
                        /\ r = PeerJob(<<g, n>>)
                        /\ job' = ensureJob(j, None)
        BY <3>1, <3>2, <4>1, Zenon DEF reconcilePeerJoins
      <4>3. DOMAIN job' = DOMAIN job \cup {j}
        BY <4>2 DEF ensureJob
      <4>4. r \in DOMAIN job' /\ r \notin DOMAIN job
        BY <1>4, <2>2, <4>2, Zenon
      <4>5. r = j
        BY <4>3, <4>4
      <4>. QED  BY <4>2, <4>5, Zenon
    <3>4. <<g, n>> = <<Entry.name, Entry.peers[pass.k]>>
      BY <3>3, JobNameIs
    <3>5. g = Entry.name /\ pass.i \in DOMAIN Declared
      BY <3>2, <3>4, PassFields
    <3>. QED  BY <1>1, <1>2, <3>2, <3>5
  <2>. QED  BY <2>1, <2>2
<1>. QED  BY <1>3, <1>4, Zenon DEF AdmissionGate

LEMMA GInvInductive ==
    ASSUME EditWhenReady, AdministratorStays
    PROVE  /\ Init => GInv
           /\ IInv /\ RInv /\ NInv /\ GInv /\ [Next]_vars => GInv'
<1>1. ASSUME Init
      PROVE  GInv
  <2>1. /\ spec.orgs = initial /\ pass.at = "idle" /\ job = <<>> /\ block = None
        /\ joined[First] = None
    BY <1>1, OrdererIs, Zenon DEF Init, Idle, Node
  <2>2. DOMAIN job = {}
    BY <2>1
  <2>3. Founding /\ Founded /\ Administered
    BY <2>1, <2>2 DEF Founding, Founded, Administered, Now
  <2>4. ReceiptsSorted /\ AdditionsLeft /\ GatePassed /\ AdmissionGate
    BY <2>1, <2>2, ZenonT(20) DEF ReceiptsSorted, AdditionsLeft, GatePassed, AdmissionGate
  <2>. QED  BY <2>3, <2>4 DEF GInv
<1>2. ASSUME IInv, RInv, NInv, GInv, Next
      PROVE  GInv'
  BY <1>2, FoundingStep, FoundedStep, AdministeredStep, ReceiptsSortedStep, AdditionsLeftStep,
     GatePassedStep, AdmissionGateStep DEF GInv
<1>3. ASSUME GInv, UNCHANGED vars
      PROVE  GInv'
  <2>1. UNCHANGED <<job, anchorResult, pass, status, spec, joined, ledger, block, configtx>>
    BY <1>3 DEF vars, kubernetes, results, fabric
  <2>2. Founding' /\ Founded'
    BY <1>3, <2>1, ZenonT(20) DEF GInv, Founding, Founded, Covers, Now, Declared
  <2>3. Administered' /\ ReceiptsSorted'
    BY <1>3, <2>1, ZenonT(20) DEF GInv, Administered, ReceiptsSorted, Administers, Now, Declared
  <2>4. AdditionsLeft' /\ GatePassed' /\ AdmissionGate'
    BY <1>3, <2>1, ZenonT(20) DEF GInv, AdditionsLeft, GatePassed, AdmissionGate, Names, Declared
  <2>. QED  BY <2>2, <2>3, <2>4 DEF GInv
<1>. QED  BY <1>1, <1>2, <1>3

\* Provided that users edit only a channel that is ready, and keep an
\* organization with its anchor peer, reconcilePeerJoins and
\* reconcileAnchorPeerUpdates create Jobs for members of the channel only:
\* reconcileLocalOrgAdditions holds the others back.
THEOREM JobsWaitForAdmission ==
    ASSUME EditWhenReady, AdministratorStays
    PROVE  Spec => []AdmissionGate
<1>1. GInv => AdmissionGate
  BY DEF GInv
<1>. QED  BY <1>1, InitIInv, NextIInv, RInvInductive, NInvInductive, GInvInductive, PTL DEF Spec
=============================================================================
