-------------------------- MODULE RaftUpdateProofs --------------------------
(***************************************************************************)
(* Proofs about RaftUpdate, for every set of orderers, requests and        *)
(* envelopes, every history of the channel and every bound: its types, how *)
(* the channel grows, what the scripts of the Jobs know at each point, and *)
(* what follows: receipts and the ready status are earned, what is ordered *)
(* is what was reviewed, and RaftUpdate implements ConsenterChange.        *)
(***************************************************************************)
EXTENDS RaftUpdate, SequenceTheorems, TLAPS

\* How long the provers may take over a step, in seconds.
USE SMTT(20), ZenonT(20)

(* The planner. *)

\* Removing an entry keeps the others in their order.
LEMMA WithoutEntryProperties ==
    ASSUME NEW S, NEW entries \in Seq(S), NEW i \in 1 .. Len(entries)
    PROVE  /\ WithoutEntry(entries, i) \in Seq(S)
           /\ Len(WithoutEntry(entries, i)) = Len(entries) - 1
           /\ \A j \in 1 .. Len(entries) - 1 :
                  WithoutEntry(entries, i)[j] = IF j < i THEN entries[j] ELSE entries[j + 1]
<1>. DEFINE n == Len(entries)
            front == SubSeq(entries, 1, i - 1)
            back  == SubSeq(entries, i + 1, n)
<1>1. /\ front \in Seq(S) /\ Len(front) = i - 1
      /\ \A j \in 1 .. i - 1 : front[j] = entries[j]
  OBVIOUS
<1>2. /\ back \in Seq(S) /\ Len(back) = n - i
      /\ \A j \in 1 .. n - i : back[j] = entries[i + j]
  OBVIOUS
<1>3. n \in Nat
  OBVIOUS
<1>. HIDE DEF front, back, n
<1>4. front \o back \in Seq(S) /\ Len(front \o back) = n - 1
  <2>1. front \o back \in Seq(S) /\ Len(front \o back) = Len(front) + Len(back)
    BY <1>1, <1>2, ConcatProperties, Zenon
  <2>. QED  BY <1>1, <1>2, <1>3, <2>1
<1>5. ASSUME NEW j \in 1 .. n - 1
      PROVE  (front \o back)[j] = IF j < i THEN entries[j] ELSE entries[j + 1]
  <2>1. CASE j < i
    BY <1>1, <1>2, <1>3, <2>1
  <2>2. CASE ~(j < i)
    <3>1. (front \o back)[j] = back[j - (i - 1)]
      BY <1>1, <1>2, <1>3, <2>2
    <3>2. j - (i - 1) \in 1 .. n - i
      BY <1>3, <2>2
    <3>3. back[j - (i - 1)] = entries[j + 1]
      BY <1>2, <1>3, <3>2, <2>2
    <3>. QED  BY <2>2, <3>1, <3>3
  <2>. QED  BY <2>1, <2>2, Zenon
<1>. QED  BY <1>4, <1>5, Zenon DEF WithoutEntry, front, back, n

\* In a plan the controller accepts, the new consenters are the old ones with
\* one added or one removed.
LEMMA AcceptedUpdate ==
    ASSUME NEW supplied, ValidateRaftPlan(supplied),
           NEW old, old = supplied.originalConfig.consenters, old \in Seq(RaftConsenter),
           NEW new, new = supplied.updatedConfig.consenters, new \in Seq(RaftConsenter),
           "consenters" \in DOMAIN supplied.originalConfig
    PROVE  \/ new = old
           \/ \E c \in RaftConsenter : new = Append(old, c)
           \/ \E i \in DOMAIN old : new = WithoutEntry(old, i)
<1>1. supplied.updatedConfig = planRaftConfig(supplied.originalConfig, new).updatedConfig
  BY DEF ValidateRaftPlan
<1>2. new = UpdatedConsenters(old, new)
  BY <1>1 DEF planRaftConfig
<1>3. CASE Added(old, new) # {}
  <2>. DEFINE i == CHOOSE i \in Added(old, new) : TRUE
  <2>1. i \in DOMAIN new
    BY <1>3 DEF Added
  <2>2. new = Append(old, new[i])
    BY <1>2, <1>3 DEF UpdatedConsenters
  <2>. QED  BY <2>1, <2>2
<1>4. CASE Added(old, new) = {} /\ Removed(old, new) # {}
  <2>. DEFINE i == CHOOSE i \in Removed(old, new) : TRUE
  <2>1. i \in DOMAIN old
    BY <1>4 DEF Removed
  <2>2. new = WithoutEntry(old, i)
    BY <1>2, <1>4 DEF UpdatedConsenters
  <2>. QED  BY <2>1, <2>2
<1>5. CASE Added(old, new) = {} /\ Removed(old, new) = {}
  BY <1>2, <1>5 DEF UpdatedConsenters
<1>. QED  BY <1>3, <1>4, <1>5
-----------------------------------------------------------------------------

\* A request the controller has accepted, whose consenters it all manages
WellPlaced(r) ==
    /\ r \in ValidRequest
    /\ \A i \in DOMAIN Original[r].consenters : Original[r].consenters[i] \in Orderer
    /\ \A i \in DOMAIN Desired[r] : Desired[r][i] \in Orderer

\* Jobs exist for accepted requests only.
Placement ==
    /\ spec.envelope # NoEnvelope => <<spec.request, spec.envelope>> \in Operation
    /\ pass.pc = "staging" => pass.request \in ValidRequest
    /\ pass.pc = "submitting" => /\ <<pass.request, pass.envelope>> \in Operation
                                 /\ WellPlaced(pass.request)
    /\ \A r \in Request : stagingJob[r] # "absent" => r \in ValidRequest
    /\ \A k \in Operation : submission[k].pc # "absent" => WellPlaced(k[1])

\* No orderer is ahead of the channel, and the channel is well formed.
ChainOK ==
    /\ WellFormed(chain)
    /\ \A o \in Orderer : height[o] <= Len(chain)

Base == TypeOK /\ Placement /\ ChainOK

-----------------------------------------------------------------------------

LEMMA OperationPair ==
    ASSUME NEW k \in Operation
    PROVE  k = <<k[1], k[2]>> /\ k[1] \in Request /\ k[2] \in Envelope
BY RequestConstants

LEMMA InitBase == Init => Base
<1>. SUFFICES ASSUME Init PROVE Base
  OBVIOUS
<1>1. TypeOK
  BY ChannelConstants DEF Init, TypeOK, NoStatus, Phases, Idle, NoJob, NoReceipt, SubmissionJob, JobStates, Outcomes, Done
<1>2. Placement
  BY DEF Init, Placement, Idle, NoJob
<1>3. ChainOK
  BY ChannelConstants DEF Init, ChainOK
<1>. QED  BY <1>1, <1>2, <1>3 DEF Base

\* A step of the user keeps Base.
LEMMA UserBase == Base /\ UserNext => Base'
<1>. SUFFICES ASSUME Base, UserNext PROVE Base'
  OBVIOUS
<1>. USE DEF controllerVars, stagingVars, submissionVars, ordererVars
<1>1. ASSUME NEW r \in Request \cup {NoRequest}, SetRequest(r) PROVE Base'
  BY <1>1, RequestConstants DEF SetRequest, Base, TypeOK, Placement, ChainOK
<1>2. ASSUME NEW e \in Envelope, SetSignedUpdateRef(e) PROVE Base'
  <2>1. spec'.request = spec.request /\ spec'.envelope = e
    BY <1>2 DEF SetSignedUpdateRef, Base, TypeOK
  <2>2. <<spec'.request, spec'.envelope>> \in Operation
    BY <2>1, <1>2 DEF SetSignedUpdateRef
  <2>3. spec' \in [request : Request \cup {NoRequest}, envelope : Envelope \cup {NoEnvelope}]
    BY <1>2, Zenon DEF SetSignedUpdateRef, Base, TypeOK
  <2>. QED  BY <1>2, <2>2, <2>3 DEF SetSignedUpdateRef, Base, TypeOK, Placement, ChainOK
<1>3. ASSUME NEW r \in Request, DeleteStagingJob(r) PROVE Base'
  BY <1>3 DEF DeleteStagingJob, Base, TypeOK, Placement, ChainOK
<1>4. ASSUME NEW k \in Operation, DeleteSubmissionJob(k) PROVE Base'
  BY <1>4 DEF DeleteSubmissionJob, Base, TypeOK, Placement, ChainOK, NoJob, SubmissionJob, JobStates, Outcomes
<1>5. ASSUME NEW o \in Orderer, RenewCertificate(o) PROVE Base'
  BY <1>5 DEF RenewCertificate, Base, TypeOK, Placement, ChainOK
<1>. QED  BY <1>1, <1>2, <1>3, <1>4, <1>5 DEF UserNext

LEMMA ReportIsTyped ==
    \A r \in Request \cup {NoRequest}, phase \in Phases \ {"none"}, ready \in BOOLEAN :
        Report(r, phase, ready) =>
            status' \in [request : Request \cup {NoRequest}, phase : Phases, ready : BOOLEAN]
BY DEF Report

\* What Submittable has checked is enough for WellPlaced.
LEMMA SubmittableIsPlaced ==
    ASSUME managed \subseteq Orderer, NEW r \in ValidRequest, Submittable(r)
    PROVE  WellPlaced(r)
BY DEF Submittable, WellPlaced

LEMMA ControllerBase == Base /\ (ControllerStep \/ AwaitArtifact \/ ControllerRestart) => Base'
<1>. SUFFICES ASSUME Base, ControllerStep \/ AwaitArtifact \/ ControllerRestart PROVE Base'
  OBVIOUS
<1>. USE DEF controllerVars, stagingVars, submissionVars, ordererVars
<1>1. CASE StartPass
  <2>. DEFINE r == spec.request
              e == spec.envelope
  <2>1. r \in Request \cup {NoRequest} /\ e \in Envelope \cup {NoEnvelope}
    BY DEF Base, TypeOK
  <2>2. /\ pass' \in [pc : {"idle", "staging", "submitting"},
                      request : Request \cup {NoRequest}, envelope : Envelope \cup {NoEnvelope}]
        /\ pass'.pc = "staging" => pass'.request \in ValidRequest
        /\ pass'.pc = "submitting" => /\ <<pass'.request, pass'.envelope>> \in Operation
                                      /\ WellPlaced(pass'.request)
    <3>1. CASE UNCHANGED pass
      BY <3>1, <1>1 DEF StartPass, Base, TypeOK, Placement
    <3>2. CASE r \in ValidRequest /\ pass' = [pc |-> "staging", request |-> r, envelope |-> e]
      BY <3>2, <2>1 DEF ValidRequest
    <3>3. CASE /\ r \in ValidRequest /\ e # NoEnvelope /\ Submittable(r)
               /\ pass' = [pc |-> "submitting", request |-> r, envelope |-> e]
      <4>1. WellPlaced(r)
        BY <3>3, SubmittableIsPlaced DEF Base, TypeOK
      <4>. QED  BY <3>3, <4>1, <2>1 DEF Base, Placement, ValidRequest
    <3>. QED  BY <1>1, <3>1, <3>2, <3>3, Zenon DEF StartPass, ReadReceipt
  <2>3. status' \in [request : Request \cup {NoRequest}, phase : Phases, ready : BOOLEAN]
    <3>1. \/ UNCHANGED status \/ status' = NoStatus
          \/ Report(r, "Failed", FALSE) \/ Report(r, "PendingSignatures", FALSE)
          \/ Report(r, "AlreadyApplied", TRUE) \/ Report(r, "Submitted", TRUE)
      BY <1>1, Zenon DEF StartPass, ReadReceipt
    <3>2. CASE UNCHANGED status
      BY <3>2 DEF Base, TypeOK
    <3>3. CASE status' = NoStatus
      BY <3>3 DEF NoStatus, Phases
    <3>. QED  BY <3>1, <3>2, <3>3, <2>1, ReportIsTyped, Zenon DEF Phases
  <2>. QED  BY <1>1, <2>2, <2>3 DEF StartPass, Base, TypeOK, Placement, ChainOK
<1>2. CASE EnsureStagingJob
  <2>1. pass.request \in ValidRequest /\ pass.request \in Request
    BY <1>2 DEF EnsureStagingJob, Base, Placement, ValidRequest
  <2>. QED  BY <1>2, <2>1 DEF EnsureStagingJob, Report, Phases, Idle, Done, Base, TypeOK, Placement, ChainOK
<1>3. CASE EnsureSubmissionJob
  <2>. DEFINE k == <<pass.request, pass.envelope>>
  <2>1. k \in Operation /\ WellPlaced(k[1])
    BY <1>3 DEF EnsureSubmissionJob, Base, Placement
  <2>2. submission' \in [Operation -> SubmissionJob]
    BY <1>3, <2>1, ZenonT(30) DEF EnsureSubmissionJob, NoJob, SubmissionJob, JobStates, Outcomes, Base, TypeOK
  <2>3. \A j \in Operation : submission'[j].pc # "absent" => WellPlaced(j[1])
    BY <1>3, <2>1 DEF EnsureSubmissionJob, Base, TypeOK, Placement
  <2>4. k[1] \in Request
    BY <2>1, OperationPair
  <2>5. status' \in [request : Request \cup {NoRequest}, phase : Phases, ready : BOOLEAN]
    BY <1>3, <2>4 DEF EnsureSubmissionJob, Report, Phases
  <2>. QED  BY <1>3, <2>2, <2>3, <2>5, Zenon DEF EnsureSubmissionJob, Idle, Base, TypeOK, Placement, ChainOK
<1>4. CASE AwaitArtifact
  <2>1. \E phase \in Phases, ready \in BOOLEAN : Report(spec.request, phase, ready)
    BY <1>4, Zenon DEF AwaitArtifact, Phases
  <2>2. status' \in [request : Request \cup {NoRequest}, phase : Phases, ready : BOOLEAN]
    BY <2>1 DEF Report, Base, TypeOK
  <2>. QED  BY <1>4, <2>2 DEF AwaitArtifact, Base, TypeOK, Placement, ChainOK
<1>5. CASE ControllerRestart
  BY <1>5 DEF ControllerRestart, Idle, Base, TypeOK, Placement, ChainOK
<1>. QED  BY <1>1, <1>2, <1>3, <1>4, <1>5 DEF ControllerStep

LEMMA StagingBase ==
    ASSUME Base, NEW r \in Request, StagingStep(r) \/ StagingPodLost(r) PROVE Base'
<1>. USE DEF controllerVars, stagingVars, submissionVars, ordererVars
<1>1. CASE StageUpdate(r)
  BY <1>1 DEF StageUpdate, StagingGoes, Done, Base, TypeOK, Placement, ChainOK
<1>2. CASE PublishStaging(r)
  BY <1>2 DEF PublishStaging, StagingGoes, Done, Base, TypeOK, Placement, ChainOK
<1>3. CASE FinishStaging(r)
  BY <1>3 DEF FinishStaging, StagingGoes, Done, Base, TypeOK, Placement, ChainOK
<1>4. CASE StagingPodLost(r)
  BY <1>4 DEF StagingPodLost, StagingGoes, Done, Base, TypeOK, Placement, ChainOK
<1>. QED  BY <1>1, <1>2, <1>3, <1>4 DEF StagingStep

\* A Job that exists and changes its own record only keeps Base.
LEMMA JobBase ==
    ASSUME Base, NEW k \in Operation, submission[k].pc # "absent",
           NEW job \in SubmissionJob, Becomes(k, job),
           UNCHANGED <<controllerVars, stagingVars, ordererVars, managed>>,
           receipt' \in [Operation -> [outcome : Outcomes, block : Nat]],
           failures' \in Nat
    PROVE  Base'
<1>. USE DEF controllerVars, stagingVars, ordererVars
<1>1. submission' \in [Operation -> SubmissionJob]
  BY DEF Becomes, Base, TypeOK
<1>2. \A j \in Operation : submission'[j].pc # "absent" => WellPlaced(j[1])
  BY DEF Becomes, Base, TypeOK, Placement
<1>. QED  BY <1>1, <1>2 DEF Base, TypeOK, Placement, ChainOK

LEMMA SubmissionBase ==
    ASSUME Base, NEW k \in Operation, SubmissionStep(k) \/ SubmissionPodLost(k) PROVE Base'
<1>. DEFINE s == source[k[1]]
<1>0. /\ submission[k] \in SubmissionJob
      /\ submission[k].pc # "absent"
      /\ s \in Orderer /\ height[s] \in Nat
      /\ height[s] > 0 => chain[height[s]] \in Block
  <2>1. submission[k] \in SubmissionJob
    BY DEF Base, TypeOK
  <2>2. submission[k].pc # "absent"
    BY DEF SubmissionStep, VerifyAndFetch, ReadTip, CheckNodeBefore, Refetch, Submit, ObserveCommit,
           CheckNodeAfter, GiveUp, PublishReceipt, FinishSubmission, SubmissionPodLost, Done
  <2>3. s \in Orderer
    BY <2>2 DEF Base, Placement, WellPlaced, ValidRequest
  <2>4. height[s] \in Nat /\ height[s] <= Len(chain)
    BY <2>3 DEF Base, TypeOK, ChainOK
  <2>5. height[s] > 0 => chain[height[s]] \in Block
    BY <2>4 DEF Base, TypeOK
  <2>. QED  BY <2>1, <2>2, <2>3, <2>4, <2>5
<1>1. ASSUME NEW job \in SubmissionJob, Continues(k, job) PROVE Base'
  BY <1>0, <1>1, JobBase DEF Continues, Base, TypeOK
<1>2. Failed(k) \in SubmissionJob
  BY <1>0 DEF Failed, SubmissionJob, JobStates, Done
<1>3. CASE VerifyAndFetch(k)
  <2>1. /\ [NoJob EXCEPT !.pc = "poll", !.outcome = "alreadyApplied"] \in SubmissionJob
        /\ [NoJob EXCEPT !.pc = "tip"] \in SubmissionJob
    BY Zenon DEF NoJob, SubmissionJob, JobStates, Outcomes
  <2>. QED  BY <1>1, <1>2, <1>3, <2>1 DEF VerifyAndFetch
<1>4. CASE ReadTip(k)
  BY <1>0, <1>1, <1>4, Zenon DEF ReadTip, SubmissionJob, JobStates
<1>5. CASE CheckNodeBefore(k)
  <2>1. /\ [submission[k] EXCEPT !.at = @ + 1] \in SubmissionJob
        /\ [submission[k] EXCEPT !.pc = "refetch", !.at = 1] \in SubmissionJob
    <3>. DEFINE job == submission[k]
    <3>1. job \in SubmissionJob
      BY <1>0
    <3>. HIDE DEF job
    <3>2. job.at + 1 \in Nat
      BY <3>1 DEF SubmissionJob
    <3>3. [job EXCEPT !.at = @ + 1] \in SubmissionJob
      BY <3>1, <3>2 DEF SubmissionJob
    <3>4. [job EXCEPT !.pc = "refetch", !.at = 1] \in SubmissionJob
      BY <3>1, Zenon DEF SubmissionJob, JobStates
    <3>. QED  BY <3>3, <3>4 DEF job
  <2>2. \/ Continues(k, Failed(k)) \/ Continues(k, [submission[k] EXCEPT !.at = @ + 1])
        \/ Continues(k, [submission[k] EXCEPT !.pc = "refetch", !.at = 1])
    BY <1>5, Zenon DEF CheckNodeBefore
  <2>. QED  BY <1>1, <1>2, <2>1, <2>2
<1>6. CASE Refetch(k)
  BY <1>0, <1>1, <1>2, <1>6 DEF Refetch, SubmissionJob, JobStates
<1>8. CASE ObserveCommit(k)
  BY <1>0, <1>1, <1>8, Zenon DEF ObserveCommit, membership_matches, Block, SubmissionJob, JobStates
<1>9. CASE CheckNodeAfter(k)
  BY <1>0, <1>1, <1>9 DEF CheckNodeAfter, SubmissionJob, JobStates
<1>10. CASE GiveUp(k)
  BY <1>1, <1>2, <1>10 DEF GiveUp
<1>12. CASE FinishSubmission(k)
  BY <1>0, <1>1, <1>12 DEF FinishSubmission, SubmissionJob, JobStates, Done
<1>13. CASE PublishReceipt(k)
  <2>1. [submission[k] EXCEPT !.pc = "published"] \in SubmissionJob
    BY <1>0 DEF SubmissionJob, JobStates
  <2>2. receipt' \in [Operation -> [outcome : Outcomes, block : Nat]]
    BY <1>0, <1>13 DEF PublishReceipt, SubmissionJob, Base, TypeOK
  <2>. QED  BY <1>0, <1>13, <2>1, <2>2, JobBase, Zenon DEF PublishReceipt, Base, TypeOK
<1>14. CASE SubmissionPodLost(k)
  <2>1. failures' \in Nat /\ receipt' \in [Operation -> [outcome : Outcomes, block : Nat]]
    BY <1>14 DEF SubmissionPodLost, Base, TypeOK
  <2>2. Becomes(k, Failed(k)) /\ UNCHANGED <<controllerVars, stagingVars, ordererVars, managed>>
    BY <1>14 DEF SubmissionPodLost
  <2>. QED  BY <1>0, <1>2, <2>1, <2>2, JobBase
<1>7. CASE Submit(k)
  <2>. USE DEF controllerVars, stagingVars, ordererVars
  <2>1. PICK job \in SubmissionJob : Becomes(k, job) /\ job.pc # "absent"
    <3>1. /\ [submission[k] EXCEPT !.pc = "poll", !.outcome = "submitted"] \in SubmissionJob
          /\ [submission[k] EXCEPT !.pc = "poll", !.outcome = "submitted"].pc = "poll"
          /\ Failed(k).pc = "failed"
      BY <1>0, Zenon DEF Failed, SubmissionJob, JobStates, Outcomes
    <3>. QED  BY <1>2, <1>7, <3>1, Zenon DEF Submit
  <2>2. submission' \in [Operation -> SubmissionJob]
    BY <2>1 DEF Becomes, Base, TypeOK
  <2>3. \A j \in Operation : submission'[j].pc # "absent" => WellPlaced(j[1])
    BY <1>0, <2>1 DEF Becomes, Base, TypeOK, Placement
  <2>4. failures' \in Nat
    BY <1>7 DEF Submit, Base, TypeOK
  <2>5. pending' \in Seq(PendingUpdate)
    <3>1. [update |-> Sent(k), by |-> k] \in PendingUpdate
      <4>1. update[k[2]] \in ConfigUpdate
        BY OperationPair, RequestConstants
      <4>. QED  BY <4>1 DEF Sent, PendingUpdate
    <3>2. pending' = pending \/ pending' = Append(pending, [update |-> Sent(k), by |-> k])
      BY <1>7 DEF Submit
    <3>3. pending \in Seq(PendingUpdate)
      BY DEF Base, TypeOK
    <3>. QED  BY <3>1, <3>2, <3>3
  <2>. QED  BY <1>7, <2>2, <2>3, <2>4, <2>5 DEF Submit, Base, TypeOK, Placement, ChainOK
<1>. QED  BY <1>3, <1>4, <1>5, <1>6, <1>7, <1>8, <1>9, <1>10, <1>12, <1>13, <1>14 DEF SubmissionStep

\* Adding a block keeps a channel well formed, if the new config's
\* ConsensusType is the old one or has a higher version.
LEMMA ExtendWellFormed ==
    ASSUME NEW blocks \in Seq(Block), Len(blocks) > 0, WellFormed(blocks),
           NEW b \in Block,
           \/ b = blocks[Len(blocks)]
           \/ /\ b.lastConfig = Len(blocks) + 1
              /\ \/ b.config.version > blocks[Len(blocks)].config.version
                 \/ /\ b.config.version = blocks[Len(blocks)].config.version
                    /\ b.config.consenters = blocks[Len(blocks)].config.consenters
                    /\ b.config.mode = blocks[Len(blocks)].config.mode
    PROVE  /\ Append(blocks, b) \in Seq(Block)
           /\ Len(Append(blocks, b)) > 0
           /\ WellFormed(Append(blocks, b))
<1>. DEFINE n == Len(blocks)
            new == Append(blocks, b)
<1>1. /\ n \in Nat /\ n > 0 /\ new \in Seq(Block) /\ Len(new) = n + 1
      /\ DOMAIN blocks = 1 .. n /\ DOMAIN new = 1 .. (n + 1)
      /\ \A h \in 1 .. n : new[h] = blocks[h] /\ blocks[h] \in Block
      /\ new[n + 1] = b
  OBVIOUS
<1>2. \A h \in 1 .. n : /\ blocks[h].config.version \in Nat
                        /\ blocks[h].config.version <= blocks[n].config.version
  <2>1. \A h \in 1 .. n : blocks[h].config.version \in Nat
    BY <1>1 DEF Block, RaftConfig
  <2>2. \A h \in 1 .. n : blocks[h].config.version <= blocks[n].config.version
    BY <1>1 DEF WellFormed
  <2>. QED  BY <2>1, <2>2
<1>3. b.config.version \in Nat
  BY DEF Block, RaftConfig
<1>. HIDE DEF n, new
<1>4. ASSUME NEW h \in DOMAIN new
      PROVE  new[h].lastConfig \in 1 .. h /\ new[new[h].lastConfig].config = new[h].config
  <2>1. CASE h \in 1 .. n
    <3>1. blocks[h].lastConfig \in 1 .. h /\ blocks[blocks[h].lastConfig].config = blocks[h].config
      BY <1>1, <2>1 DEF WellFormed
    <3>2. blocks[h].lastConfig \in 1 .. n
      BY <1>1, <2>1, <3>1
    <3>. QED  BY <1>1, <2>1, <3>1, <3>2
  <2>2. CASE h = n + 1 /\ b = blocks[Len(blocks)]
    <3>1. blocks[n].lastConfig \in 1 .. n /\ blocks[blocks[n].lastConfig].config = blocks[n].config
      BY <1>1 DEF WellFormed
    <3>. QED  BY <1>1, <2>2, <3>1 DEF n
  <2>3. CASE h = n + 1 /\ b.lastConfig = Len(blocks) + 1
    BY <1>1, <2>3 DEF n
  <2>. QED  BY <1>1, <2>1, <2>2, <2>3
<1>5. ASSUME NEW g \in DOMAIN new, NEW h \in DOMAIN new
      PROVE  /\ g <= h => new[g].config.version <= new[h].config.version
             /\ new[g].config.version = new[h].config.version =>
                    /\ new[g].config.consenters = new[h].config.consenters
                    /\ new[g].config.mode = new[h].config.mode
  <2>1. CASE g \in 1 .. n /\ h \in 1 .. n
    BY <1>1, <2>1 DEF WellFormed
  <2>2. \A i \in 1 .. n :
            /\ blocks[i].config.version <= b.config.version
            /\ blocks[i].config.version = b.config.version =>
                    /\ blocks[i].config.consenters = b.config.consenters
                    /\ blocks[i].config.mode = b.config.mode
    <3>1. \A i \in 1 .. n : blocks[i].config.version = blocks[n].config.version =>
                    /\ blocks[i].config.consenters = blocks[n].config.consenters
                    /\ blocks[i].config.mode = blocks[n].config.mode
      BY <1>1 DEF WellFormed
    <3>. QED  BY <1>1, <1>2, <1>3, <3>1 DEF n
  <2>. QED  BY <1>1, <1>2, <1>3, <2>1, <2>2
<1>6. WellFormed(new)
  BY <1>4, <1>5 DEF WellFormed
<1>7. Append(blocks, b) = new
  BY DEF new
<1>. QED  BY <1>1, <1>6, <1>7

\* What an edited config is
LEMMA EditedConfig ==
    ASSUME NEW c \in RaftConfig
    PROVE  /\ c.version \in Nat
           /\ \A l \in Seq(RaftConsenter) :
                  LET d == [c EXCEPT !.version = @ + 1, !.consenters = l]
                  IN  d \in RaftConfig /\ d.version = c.version + 1 /\ d.consenters = l
           /\ \A m \in {"normal", "maintenance"} :
                  LET d == [c EXCEPT !.version = @ + 1, !.mode = m]
                  IN  d \in RaftConfig /\ d.version = c.version + 1
           /\ \A x \in {"reviewed", "other"} :
                  LET d == [c EXCEPT !.rest = x]
                  IN  /\ d \in RaftConfig /\ d.version = c.version
                      /\ d.consenters = c.consenters /\ d.mode = c.mode
           /\ LET d == [c EXCEPT !.sequence = @ + 1]
              IN  /\ d \in RaftConfig /\ d.version = c.version
                  /\ d.consenters = c.consenters /\ d.mode = c.mode
           /\ \A delta : delta.consenters \in Seq(RaftConsenter) =>
                  LET d == Installed(c, delta)
                  IN  /\ d \in RaftConfig /\ d.version = c.version + 1
                      /\ d.consenters = delta.consenters
<1>1. c.version \in Nat /\ c.version + 1 \in Nat /\ c.sequence + 1 \in Nat
  BY DEF RaftConfig
<1>2. ASSUME NEW l \in Seq(RaftConsenter)
      PROVE  LET d == [c EXCEPT !.version = @ + 1, !.consenters = l]
             IN  d \in RaftConfig /\ d.version = c.version + 1 /\ d.consenters = l
  BY <1>1, Zenon DEF RaftConfig
<1>3. ASSUME NEW m \in {"normal", "maintenance"}
      PROVE  LET d == [c EXCEPT !.version = @ + 1, !.mode = m]
             IN  d \in RaftConfig /\ d.version = c.version + 1
  BY <1>1, Zenon DEF RaftConfig
<1>4. ASSUME NEW x \in {"reviewed", "other"}
      PROVE  LET d == [c EXCEPT !.rest = x]
             IN  /\ d \in RaftConfig /\ d.version = c.version
                 /\ d.consenters = c.consenters /\ d.mode = c.mode
  BY DEF RaftConfig
<1>5. LET d == [c EXCEPT !.sequence = @ + 1]
      IN  /\ d \in RaftConfig /\ d.version = c.version
          /\ d.consenters = c.consenters /\ d.mode = c.mode
  BY <1>1 DEF RaftConfig
<1>6. ASSUME NEW delta, delta.consenters \in Seq(RaftConsenter)
      PROVE  LET d == Installed(c, delta)
             IN  d \in RaftConfig /\ d.version = c.version + 1 /\ d.consenters = delta.consenters
  BY <1>1, <1>6, ZenonT(30) DEF Installed, RaftConfig
<1>. QED  BY <1>1, <1>2, <1>3, <1>4, <1>5, <1>6, Zenon

LEMMA NewConfigBlock ==
    ASSUME chain \in Seq(Block), NEW c \in RaftConfig
    PROVE  /\ ConfigBlock(c) \in Block /\ ConfigBlock(c).lastConfig = Len(chain) + 1
           /\ ConfigBlock(c).config = c
BY DEF ConfigBlock, Block

LEMMA OrdererBase == Base /\ OrdererNext => Base'
<1>. SUFFICES ASSUME Base, OrdererNext PROVE Base'
  OBVIOUS
<1>. USE DEF controllerVars, stagingVars, submissionVars
<1>1. /\ chain \in Seq(Block) /\ Len(chain) > 0 /\ WellFormed(chain)
      /\ chain[Len(chain)] \in Block /\ Tip \in RaftConfig
  <2>1. chain \in Seq(Block) /\ Len(chain) > 0 /\ WellFormed(chain)
    BY DEF Base, TypeOK, ChainOK
  <2>2. chain[Len(chain)] \in Block
    BY <2>1
  <2>. QED  BY <2>1, <2>2 DEF Tip, Block
<1>2. ASSUME NEW b \in Block, chain' = Append(chain, b),
             \/ b = chain[Len(chain)]
             \/ /\ b.lastConfig = Len(chain) + 1
                /\ \/ b.config.version > Tip.version
                   \/ /\ b.config.version = Tip.version
                      /\ b.config.consenters = Tip.consenters
                      /\ b.config.mode = Tip.mode,
             UNCHANGED <<controllerVars, stagingVars, submissionVars, height, managed, failures>>,
             pending' \in Seq(PendingUpdate)
      PROVE  Base'
  <2>1. chain' \in Seq(Block) /\ Len(chain') > 0 /\ WellFormed(chain')
    BY <1>1, <1>2, ExtendWellFormed DEF Tip
  <2>2. \A o \in Orderer : height[o] <= Len(chain')
    BY <1>1, <1>2 DEF Base, TypeOK, ChainOK
  <2>. QED  BY <1>2, <2>1, <2>2 DEF Base, TypeOK, Placement, ChainOK
<1>3. pending # <<>> => /\ Head(pending) \in PendingUpdate
                        /\ Tail(pending) \in Seq(PendingUpdate)
  BY DEF Base, TypeOK
<1>4. CASE OrderUpdate
  <2>. DEFINE c == Installed(Tip, Head(pending).update)
              b == ConfigBlock(c)
  <2>1. CASE chain' = chain
    BY <1>3, <1>4, <2>1 DEF OrderUpdate, Base, TypeOK, Placement, ChainOK
  <2>2. CASE chain' = Append(chain, b)
    <3>1. b \in Block /\ b.lastConfig = Len(chain) + 1 /\ b.config.version > Tip.version
      <4>1. Head(pending).update \in ConfigUpdate
        BY <1>3, <1>4 DEF OrderUpdate, PendingUpdate
      <4>2. Head(pending).update.consenters \in Seq(RaftConsenter)
        BY <4>1 DEF ConfigUpdate
      <4>3. c \in RaftConfig /\ c.version = Tip.version + 1 /\ Tip.version \in Nat
        BY <1>1, <4>2, EditedConfig, ZenonT(30)
      <4>. HIDE DEF c
      <4>. QED  BY <1>1, <4>3, NewConfigBlock
    <3>. QED  BY <1>2, <1>3, <1>4, <2>2, <3>1 DEF OrderUpdate
  <2>. QED  BY <1>4, <2>1, <2>2 DEF OrderUpdate
<1>5. CASE LoseUpdate
  BY <1>3, <1>5 DEF LoseUpdate, Base, TypeOK, Placement, ChainOK
<1>6. CASE OtherUpdate
  <2>1. PICK config :
           /\ config \in {[Tip EXCEPT !.version = @ + 1, !.consenters = l] : l \in OtherLists}
                    \cup {[Tip EXCEPT !.version = @ + 1, !.mode = m] : m \in OtherModes}
                    \cup {[Tip EXCEPT !.rest = x] : x \in OtherRests}
           /\ chain' = Append(chain, ConfigBlock([config EXCEPT !.sequence = @ + 1]))
    BY <1>6, Zenon DEF OtherUpdate
  <2>. DEFINE c == [config EXCEPT !.sequence = @ + 1]
              b == ConfigBlock(c)
  <2>2. /\ config \in RaftConfig
        /\ \/ config.version > Tip.version
           \/ /\ config.version = Tip.version /\ config.consenters = Tip.consenters
              /\ config.mode = Tip.mode
    <3>1. CASE config \in {[Tip EXCEPT !.version = @ + 1, !.consenters = l] : l \in OtherLists}
      <4>1. PICK l \in OtherLists : config = [Tip EXCEPT !.version = @ + 1, !.consenters = l]
        BY <3>1, Zenon
      <4>2. l \in Seq(RaftConsenter)
        BY ChannelConstants
      <4>3. config \in RaftConfig /\ config.version = Tip.version + 1 /\ Tip.version \in Nat
        BY <1>1, <4>1, <4>2, EditedConfig, ZenonT(30)
      <4>. QED  BY <4>3
    <3>2. CASE config \in {[Tip EXCEPT !.version = @ + 1, !.mode = m] : m \in OtherModes}
      <4>1. PICK m \in OtherModes : config = [Tip EXCEPT !.version = @ + 1, !.mode = m]
        BY <3>2, Zenon
      <4>2. m \in {"normal", "maintenance"}
        BY ChannelConstants
      <4>3. config \in RaftConfig /\ config.version = Tip.version + 1 /\ Tip.version \in Nat
        BY <1>1, <4>1, <4>2, EditedConfig, ZenonT(30)
      <4>. QED  BY <4>3
    <3>3. CASE config \in {[Tip EXCEPT !.rest = x] : x \in OtherRests}
      <4>1. PICK x \in OtherRests : config = [Tip EXCEPT !.rest = x]
        BY <3>3
      <4>2. x \in {"reviewed", "other"}
        BY ChannelConstants
      <4>3. /\ config \in RaftConfig /\ config.version = Tip.version
            /\ config.consenters = Tip.consenters /\ config.mode = Tip.mode
        BY <1>1, <4>1, <4>2, EditedConfig, ZenonT(30)
      <4>. QED  BY <4>3
    <3>. QED  BY <2>1, <3>1, <3>2, <3>3, Zenon
  <2>3. /\ b \in Block /\ b.lastConfig = Len(chain) + 1
        /\ \/ b.config.version > Tip.version
           \/ /\ b.config.version = Tip.version /\ b.config.consenters = Tip.consenters
              /\ b.config.mode = Tip.mode
    <3>1. /\ c \in RaftConfig /\ c.version = config.version
          /\ c.consenters = config.consenters /\ c.mode = config.mode
      BY <2>2, EditedConfig, ZenonT(30)
    <3>. HIDE DEF c
    <3>. QED  BY <1>1, <2>2, <3>1, NewConfigBlock
  <2>. QED  BY <1>2, <1>6, <2>1, <2>3, Zenon DEF OtherUpdate, Base, TypeOK
<1>7. CASE DataBlock
  BY <1>1, <1>2, <1>7, Zenon DEF DataBlock, Base, TypeOK
<1>8. ASSUME NEW o \in Orderer, Replicate(o) PROVE Base'
  BY <1>8, SMTT(30) DEF Replicate, Base, TypeOK, Placement, ChainOK
<1>. QED  BY <1>4, <1>5, <1>6, <1>7, <1>8 DEF OrdererNext

LEMMA NextBase == Base /\ [Next]_vars => Base'
<1>. SUFFICES ASSUME Base, [Next]_vars PROVE Base'
  OBVIOUS
<1>1. CASE UNCHANGED vars
  BY <1>1 DEF vars, controllerVars, stagingVars, submissionVars, ordererVars,
              Base, TypeOK, Placement, ChainOK
<1>. QED  BY <1>1, UserBase, ControllerBase, StagingBase, SubmissionBase, OrdererBase DEF Next

\* Every reachable state of the controller, its Jobs and the ordering service
\* has its shape (TypeOK).
THEOREM TypeCorrect == Spec => []TypeOK
<1>1. Base => TypeOK
  BY DEF Base
<1>. QED  BY <1>1, InitBase, NextBase, PTL DEF Spec

-----------------------------------------------------------------------------
(* The channel and the orderers' copies of it only grow. *)

\* Blocks are only added, and no orderer forgets one.
Grows ==
    /\ Len(chain') >= Len(chain)
    /\ \A h \in DOMAIN chain : h \in DOMAIN chain' /\ chain'[h] = chain[h]
    /\ \A o \in Orderer : height'[o] >= height[o]

LEMMA ChainMoves ==
    ASSUME [Next]_vars
    PROVE  \/ UNCHANGED <<chain, height>>
           \/ UNCHANGED <<height, receipt>> /\ \E b : chain' = Append(chain, b)
           \/ \E o \in Orderer : Replicate(o)
<1>1. ASSUME OrdererNext
      PROVE  \/ UNCHANGED <<chain, height>>
             \/ UNCHANGED <<height, receipt>> /\ \E b : chain' = Append(chain, b)
             \/ \E o \in Orderer : Replicate(o)
  BY <1>1, Zenon DEF OrdererNext, OrderUpdate, LoseUpdate, OtherUpdate, DataBlock, submissionVars
<1>2. ASSUME UserNext PROVE UNCHANGED <<chain, height>>
  BY <1>2, Zenon DEF UserNext, SetRequest, SetSignedUpdateRef, DeleteStagingJob, DeleteSubmissionJob,
              RenewCertificate, ordererVars
<1>3. ASSUME ControllerStep \/ AwaitArtifact \/ ControllerRestart PROVE UNCHANGED <<chain, height>>
  BY <1>3, ZenonT(30) DEF ControllerStep, StartPass, EnsureStagingJob, EnsureSubmissionJob, AwaitArtifact,
              ControllerRestart, ordererVars
<1>4. ASSUME NEW r \in Request, StagingStep(r) \/ StagingPodLost(r) PROVE UNCHANGED <<chain, height>>
  BY <1>4 DEF StagingStep, StageUpdate, PublishStaging, FinishStaging, StagingPodLost, ordererVars
<1>5. ASSUME NEW k \in Operation, SubmissionStep(k) \/ SubmissionPodLost(k) PROVE UNCHANGED <<chain, height>>
  BY <1>5 DEF SubmissionStep, VerifyAndFetch, ReadTip, CheckNodeBefore, Refetch, Submit,
              ObserveCommit, CheckNodeAfter, GiveUp, PublishReceipt, FinishSubmission,
              SubmissionPodLost, Continues, ordererVars
<1>6. ASSUME UNCHANGED vars PROVE UNCHANGED <<chain, height>>
  BY <1>6 DEF vars, ordererVars
<1>. QED  BY <1>1, <1>2, <1>3, <1>4, <1>5, <1>6 DEF Next

LEMMA StepGrows == Base /\ [Next]_vars => Grows
<1>. SUFFICES ASSUME Base, [Next]_vars PROVE Grows
  OBVIOUS
<1>1. chain \in Seq(Block) /\ height \in [Orderer -> Nat]
  BY DEF Base, TypeOK
<1>2. CASE UNCHANGED <<chain, height>>
  BY <1>1, <1>2 DEF Grows
<1>3. ASSUME NEW b, chain' = Append(chain, b), UNCHANGED height PROVE Grows
  BY <1>1, <1>3 DEF Grows
<1>4. ASSUME NEW o \in Orderer, Replicate(o) PROVE Grows
  BY <1>1, <1>4 DEF Replicate, Grows
<1>. QED  BY <1>2, <1>3, <1>4, ChainMoves

\* In an accepted request, every desired consenter is a node the Job checks.
LEMMA DesiredIsChecked ==
    ASSUME NEW r \in ValidRequest, NEW i \in DOMAIN Desired[r]
    PROVE  \E j \in DOMAIN Nodes[r] : Nodes[r][j] = Desired[r][i]
<1>. DEFINE old == Original[r].consenters
            new == Desired[r]
<1>1. r \in Request /\ ValidateRaftPlan(plan[r])
  BY DEF ValidRequest
<1>2. /\ plan[r].originalConfig \in RaftConfig /\ plan[r].updatedConfig \in RaftConfig
      /\ old = plan[r].originalConfig.consenters /\ new = plan[r].updatedConfig.consenters
      /\ Nodes[r] = IF Len(new) > Len(old) THEN new ELSE old
  BY <1>1, RequestConstants DEF Original, Desired, Nodes
<1>3. /\ old \in Seq(RaftConsenter) /\ new \in Seq(RaftConsenter)
      /\ "consenters" \in DOMAIN plan[r].originalConfig
  BY <1>2 DEF RaftConfig
<1>. HIDE DEF old, new
<1>4. \/ new = old
      \/ \E c \in RaftConsenter : new = Append(old, c)
      \/ \E j \in DOMAIN old : new = WithoutEntry(old, j)
  BY <1>1, <1>2, <1>3, AcceptedUpdate
<1>5. CASE new = old
  BY <1>2, <1>5 DEF new
<1>6. CASE \E c \in RaftConsenter : new = Append(old, c)
  <2>1. Len(new) > Len(old)
    BY <1>3, <1>6
  <2>. QED  BY <1>2, <2>1 DEF new
<1>7. CASE \E j \in DOMAIN old : new = WithoutEntry(old, j)
  <2>1. PICK j \in 1 .. Len(old) : new = WithoutEntry(old, j)
    BY <1>3, <1>7
  <2>2. /\ Len(new) = Len(old) - 1
        /\ \A n \in 1 .. Len(old) - 1 : new[n] = IF n < j THEN old[n] ELSE old[n + 1]
    BY <1>3, <2>1, WithoutEntryProperties, Zenon
  <2>3. i \in 1 .. Len(old) - 1
    BY <1>3, <2>2 DEF new
  <2>4. new[i] = old[i] \/ new[i] = old[i + 1]
    BY <2>2, <2>3
  <2>5. i \in DOMAIN old /\ i + 1 \in DOMAIN old /\ Nodes[r] = old
    BY <1>2, <1>3, <2>2, <2>3
  <2>. QED  BY <2>4, <2>5 DEF new
<1>. QED  BY <1>4, <1>5, <1>6, <1>7

-----------------------------------------------------------------------------
(* The inductive invariant: what a submission Job knows at each point of   *)
(* its script, what stands behind a receipt, a pending update and a status *)

\* Some block up to h carries the config the request was reviewed against.
ReviewedBy(r, h) == \E g \in 1 .. h : g \in DOMAIN chain /\ chain[g].config = Original[r]

\* The nodes before position n have the reference block.
CaughtUp(k, n) ==
    \A i \in DOMAIN Nodes[k[1]] : i < n => height[Nodes[k[1]][i]] >= submission[k].reference

\* The desired consenters before position n have the reference block.
DesiredCaughtUp(k, n) ==
    \A i \in DOMAIN Nodes[k[1]] :
        i < n /\ Among(Nodes[k[1]][i], Desired[k[1]])
            => height[Nodes[k[1]][i]] >= submission[k].reference

EarnedAt(k, h) ==
    /\ ChangeAt(k[1], h)
    /\ \A i \in DOMAIN Desired[k[1]] : height[Desired[k[1]][i]] >= h

\* Up to the submission
Preflight(k) ==
    LET job == submission[k]
    IN  /\ job.pc \in {"tip", "before", "refetch", "submit"} => EnvelopeMatches(k)
        /\ job.pc = "tip" => job.at = 1 /\ ReviewedBy(k[1], height[source[k[1]]])
        /\ job.pc \in {"before", "refetch", "submit"} => ReviewedBy(k[1], job.reference)
        /\ job.pc = "before" => CaughtUp(k, job.at)
        /\ job.pc \in {"refetch", "submit"} => CaughtUp(k, Len(Nodes[k[1]]) + 1)

\* From the observed commit to the receipt
Postflight(k) ==
    LET job == submission[k]
    IN  /\ job.pc \in {"after", "publish"} => ChangeAt(k[1], job.reference)
        /\ job.pc = "after" => DesiredCaughtUp(k, job.at)
        /\ job.pc = "publish" => EarnedAt(k, job.reference)

Receipts == \A k \in Operation : receipt[k] # NoReceipt => WellPlaced(k[1]) /\ EarnedAt(k, receipt[k].block)

\* What waits to be ordered is a reviewed change.
PendingOK ==
    \A i \in DOMAIN pending :
        LET r == pending[i].by[1]
        IN  /\ pending[i].update = Delta[r]
            /\ Original[r].mode = "normal"
            /\ ReviewedBy(r, Len(chain))

\* The config that the staging Job of a request has found is the reviewed one.
Staged ==
    \A r \in Request :
        /\ stagingJob[r] = "publish" => ReviewedBy(r, Len(chain))
        /\ stagingResult[r] = "alreadyApplied" =>
               plan[r].action = "AlreadyApplied" /\ r \in ValidRequest /\ ReviewedBy(r, Len(chain))

Knowledge ==
    /\ \A k \in Operation : Preflight(k) /\ Postflight(k)
    /\ Receipts
    /\ PendingOK
    /\ Staged
    /\ ReadyIsEarned

Safe == Base /\ Knowledge

-----------------------------------------------------------------------------
(* Growth keeps what is known. *)

LEMMA NodePlaced ==
    ASSUME NEW r, WellPlaced(r)
    PROVE  /\ source[r] \in Orderer
           /\ r \in Request
           /\ \A i \in DOMAIN Nodes[r] : Nodes[r][i] \in Orderer
           /\ Nodes[r] \in Seq(RaftConsenter)
<1>1. r \in Request /\ source[r] \in Orderer
  BY DEF WellPlaced, ValidRequest
<1>2. Nodes[r] = IF Len(Desired[r]) > Len(Original[r].consenters) THEN Desired[r] ELSE Original[r].consenters
  BY <1>1 DEF Nodes
<1>3. Desired[r] \in Seq(RaftConsenter) /\ Original[r].consenters \in Seq(RaftConsenter)
  BY <1>1, RequestConstants DEF Desired, Original, RaftConfig
<1>. QED  BY <1>1, <1>2, <1>3 DEF WellPlaced

LEMMA ReviewedKept ==
    ASSUME Base, Grows, NEW r, NEW m \in Nat, NEW n \in Nat, m <= n, ReviewedBy(r, m)
    PROVE  \E g \in 1 .. n : g \in DOMAIN chain' /\ chain'[g].config = Original[r]
<1>1. PICK g \in 1 .. m : g \in DOMAIN chain /\ chain[g].config = Original[r]
  BY DEF ReviewedBy
<1>2. g \in DOMAIN chain' /\ chain'[g] = chain[g]
  BY <1>1 DEF Grows
<1>. QED  BY <1>1, <1>2

LEMMA ReviewedStays ==
    ASSUME Base, Grows, NEW r, NEW h \in Nat, ReviewedBy(r, h)
    PROVE  ReviewedBy(r, h)'
<1>1. \E g \in 1 .. h : g \in DOMAIN chain' /\ chain'[g].config = Original[r]
  <2>1. h <= h
    OBVIOUS
  <2>. QED  BY <2>1, ReviewedKept
<1>. QED  BY <1>1 DEF ReviewedBy

LEMMA ChangeKept ==
    ASSUME Grows, NEW r, NEW h, ChangeAt(r, h)
    PROVE  ChangeAt(r, h)'
BY DEF Grows, ChangeAt

LEMMA EarnedKept ==
    ASSUME Base, Base', Grows, NEW k \in Operation, WellPlaced(k[1]), NEW h \in Nat, EarnedAt(k, h)
    PROVE  EarnedAt(k, h)'
<1>1. ChangeAt(k[1], h)'
  BY ChangeKept DEF EarnedAt
<1>2. ASSUME NEW i \in DOMAIN Desired[k[1]] PROVE height'[Desired[k[1]][i]] >= h
  <2>1. PICK o \in Orderer : o = Desired[k[1]][i]
    BY DEF WellPlaced
  <2>2. height[o] \in Nat /\ height'[o] \in Nat /\ height'[o] >= height[o] /\ height[o] >= h
    BY <2>1 DEF Base, TypeOK, Grows, EarnedAt
  <2>. QED  BY <2>1, <2>2
<1>. QED  BY <1>1, <1>2 DEF EarnedAt

\* A Job that does not move keeps what it knows.
LEMMA JobKept ==
    ASSUME Base, Base', Grows, NEW k \in Operation, submission'[k] = submission[k],
           Preflight(k), Postflight(k)
    PROVE  Preflight(k)' /\ Postflight(k)'
<1>1. PICK job \in SubmissionJob : job = submission[k] /\ job = submission'[k]
  BY DEF Base, TypeOK
<1>2. job.reference \in Nat /\ job.at \in Nat
  BY DEF SubmissionJob
<1>3. CASE job.pc = "absent"
  BY <1>1, <1>3, Zenon DEF Preflight, Postflight
<1>4. CASE job.pc # "absent"
  <2>1. WellPlaced(k[1])
    BY <1>1, <1>4 DEF Base, Placement
  <2>2. height \in [Orderer -> Nat] /\ height' \in [Orderer -> Nat]
        /\ \A o \in Orderer : height'[o] >= height[o]
    BY DEF Base, TypeOK, Grows
  <2>3. /\ source[k[1]] \in Orderer
        /\ \A i \in DOMAIN Nodes[k[1]] : Nodes[k[1]][i] \in Orderer
    BY <2>1, NodePlaced
  <2>4. \A n : CaughtUp(k, n) => CaughtUp(k, n)'
    BY <1>1, <1>2, <2>2, <2>3 DEF CaughtUp
  <2>5. \A n : DesiredCaughtUp(k, n) => DesiredCaughtUp(k, n)'
    BY <1>1, <1>2, <2>2, <2>3 DEF DesiredCaughtUp
  <2>6. ReviewedBy(k[1], job.reference) => ReviewedBy(k[1], job.reference)'
    BY <1>2, ReviewedStays
  <2>7. ReviewedBy(k[1], height[source[k[1]]]) => ReviewedBy(k[1], height[source[k[1]]])'
    <3>1. PICK m \in Nat, n \in Nat : m = height[source[k[1]]] /\ n = height'[source[k[1]]] /\ m <= n
      BY <2>2, <2>3
    <3>2. ReviewedBy(k[1], m) => \E g \in 1 .. n : g \in DOMAIN chain' /\ chain'[g].config = Original[k[1]]
      BY <3>1, ReviewedKept, ZenonT(30)
    <3>. QED  BY <3>1, <3>2 DEF ReviewedBy
  <2>8. EarnedAt(k, job.reference) => EarnedAt(k, job.reference)'
    BY <1>2, <2>1, EarnedKept
  <2>9. ChangeAt(k[1], job.reference) => ChangeAt(k[1], job.reference)'
    BY ChangeKept
  <2>10. Preflight(k)'
    <3>1. EnvelopeMatches(k) => EnvelopeMatches(k)'
      BY DEF EnvelopeMatches
    <3>. QED  BY <1>1, <2>4, <2>6, <2>7, <3>1, ZenonT(20) DEF Preflight
  <2>11. Postflight(k)'
    BY <1>1, <2>5, <2>8, <2>9 DEF Postflight
  <2>. QED  BY <2>10, <2>11
<1>. QED  BY <1>3, <1>4

-----------------------------------------------------------------------------
(* A step moves at most one Job along its script. *)

LEMMA JobMoves ==
    ASSUME Base, [Next]_vars, NEW k \in Operation
    PROVE  \/ submission'[k] = submission[k]
           \/ submission'[k].pc \in {"absent", "verify", "failed"}
           \/ SubmissionStep(k)
<1>1. submission \in [Operation -> SubmissionJob]
  BY DEF Base, TypeOK
<1>2. CASE UNCHANGED submission
  BY <1>2
<1>3. ASSUME NEW j \in Operation, NEW job, submission' = [submission EXCEPT ![j] = job], j # k
      PROVE  submission'[k] = submission[k]
  BY <1>1, <1>3
<1>4. CASE UserNext
  <2>1. ASSUME NEW j \in Operation, DeleteSubmissionJob(j)
        PROVE  submission'[k] = submission[k] \/ submission'[k].pc = "absent"
    BY <1>1, <1>3, <2>1 DEF DeleteSubmissionJob, NoJob
  <2>. QED  BY <1>2, <1>4, <2>1, Zenon DEF UserNext, SetRequest, SetSignedUpdateRef, DeleteStagingJob,
                                    RenewCertificate, submissionVars
<1>5. CASE ControllerStep \/ AwaitArtifact \/ ControllerRestart
  <2>1. CASE EnsureSubmissionJob
    <3>. DEFINE j == <<pass.request, pass.envelope>>
    <3>1. j \in Operation
      BY <2>1 DEF EnsureSubmissionJob, Base, Placement
    <3>2. submission' = [submission EXCEPT ![j] =
                             IF submission[j].pc = "absent" THEN [NoJob EXCEPT !.pc = "verify"] ELSE submission[j]]
      BY <2>1, <3>1, <1>1 DEF EnsureSubmissionJob
    <3>. HIDE DEF j
    <3>3. CASE j = k
      BY <1>1, <3>2, <3>3 DEF NoJob
    <3>. QED  BY <1>3, <3>1, <3>2, <3>3
  <2>. QED  BY <1>2, <1>5, <2>1, ZenonT(30) DEF ControllerStep, StartPass, EnsureStagingJob, AwaitArtifact,
                                    ControllerRestart, submissionVars
<1>6. ASSUME NEW r \in Request, StagingStep(r) \/ StagingPodLost(r) PROVE UNCHANGED submission
  BY <1>6 DEF StagingStep, StageUpdate, PublishStaging, FinishStaging, StagingPodLost, submissionVars
<1>7. ASSUME NEW j \in Operation, SubmissionPodLost(j)
      PROVE  submission'[k] = submission[k] \/ submission'[k].pc = "failed"
  <2>1. submission' = [submission EXCEPT ![j] = Failed(j)]
    BY <1>7 DEF SubmissionPodLost, Becomes
  <2>2. Failed(j).pc = "failed"
    BY <1>1 DEF Failed, SubmissionJob
  <2>. QED  BY <1>1, <1>3, <2>1, <2>2
<1>8. ASSUME NEW j \in Operation, SubmissionStep(j), j # k PROVE submission'[k] = submission[k]
  <2>1. \E job : submission' = [submission EXCEPT ![j] = job]
    BY <1>8, Zenon DEF SubmissionStep, VerifyAndFetch, ReadTip, CheckNodeBefore, Refetch, Submit, ObserveCommit,
                CheckNodeAfter, GiveUp, PublishReceipt, FinishSubmission, Continues, Becomes
  <2>. QED  BY <1>3, <1>8, <2>1
<1>9. CASE OrdererNext
  BY <1>2, <1>9, ZenonT(30) DEF OrdererNext, OrderUpdate, LoseUpdate, OtherUpdate, DataBlock, Replicate, submissionVars
<1>10. CASE UNCHANGED vars
  BY <1>2, <1>10 DEF vars, submissionVars
<1>. QED  BY <1>2, <1>4, <1>5, <1>6, <1>7, <1>8, <1>9, <1>10 DEF Next

LEMMA FetchedIsReviewed ==
    ASSUME Base, NEW r \in ValidRequest, Fetches(source[r], Original[r])
    PROVE  ReviewedBy(r, height[source[r]]) /\ ReviewedBy(r, Len(chain))
<1>1. source[r] \in Orderer
  BY DEF ValidRequest
<1>2. PICK h \in Nat : h = height[source[r]] /\ h > 0 /\ chain[h].config = Original[r] /\ h <= Len(chain)
  BY <1>1 DEF Base, TypeOK, ChainOK, Fetches, View
<1>3. Len(chain) \in Nat /\ h \in DOMAIN chain /\ h \in 1 .. h /\ h \in 1 .. Len(chain)
  BY <1>2 DEF Base, TypeOK
<1>. QED  BY <1>2, <1>3 DEF ReviewedBy

\* The script up to the submission
LEMMA PreflightStep ==
    ASSUME Base, NEW k \in Operation, Preflight(k), SubmissionStep(k)
    PROVE  Preflight(k)'
<1>. DEFINE r == k[1]
            job == submission[k]
<1>1. submission \in [Operation -> SubmissionJob] /\ job \in SubmissionJob
  BY DEF Base, TypeOK
<1>2. job.reference \in Nat /\ job.at \in Nat
  BY <1>1 DEF SubmissionJob
<1>3. job.pc # "absent" => WellPlaced(r)
  BY DEF Base, Placement
<1>4. CASE submission'[k].pc \notin {"tip", "before", "refetch", "submit"}
  BY <1>4, Zenon DEF Preflight
<1>5. \A new : Becomes(k, new) => submission'[k] = new
  BY <1>1 DEF Becomes
<1>6. Failed(k).pc = "failed"
  BY <1>1 DEF Failed, SubmissionJob
<1>7. EnvelopeMatches(k) => EnvelopeMatches(k)'
  BY Zenon DEF EnvelopeMatches
<1>8. CASE VerifyAndFetch(k)
  <2>1. ordererVars' = ordererVars /\ WellPlaced(r)
    BY <1>3, <1>8 DEF VerifyAndFetch, Continues
  <2>2. \/ submission'[k].pc \in {"failed", "poll"}
        \/ /\ EnvelopeMatches(k) /\ Fetches(source[r], Original[r])
           /\ submission'[k] = [NoJob EXCEPT !.pc = "tip"]
    BY <1>5, <1>6, <1>8, ZenonT(30) DEF VerifyAndFetch, Continues, NoJob
  <2>3. CASE /\ EnvelopeMatches(k) /\ Fetches(source[r], Original[r])
             /\ submission'[k] = [NoJob EXCEPT !.pc = "tip"]
    <3>1. ReviewedBy(r, height[source[r]])'
      BY <2>1, <2>3, FetchedIsReviewed DEF WellPlaced, ReviewedBy, ordererVars
    <3>2. submission'[k].pc = "tip" /\ submission'[k].at = 1
      BY <2>3 DEF NoJob
    <3>. QED  BY <1>7, <2>3, <3>1, <3>2 DEF Preflight
  <2>. QED  BY <1>4, <2>2, <2>3
<1>9. CASE ReadTip(k)
  <2>1. submission'[k] = [job EXCEPT !.pc = "before", !.reference = height[source[r]]]
    BY <1>5, <1>9 DEF ReadTip, Continues
  <2>2. /\ submission'[k].pc = "before" /\ submission'[k].at = job.at
        /\ submission'[k].reference = height[source[r]]
    BY <1>1, <2>1 DEF SubmissionJob
  <2>3. /\ job.pc = "tip" /\ UNCHANGED ordererVars
        /\ EnvelopeMatches(k) /\ job.at = 1 /\ ReviewedBy(r, height[source[r]])
    BY <1>9 DEF ReadTip, Continues, Preflight
  <2>4. ReviewedBy(r, submission[k].reference)'
    BY <2>2, <2>3, Zenon DEF ReviewedBy, ordererVars
  <2>5. Nodes[r] \in Seq(RaftConsenter)
    BY <1>3, <2>3, NodePlaced
  <2>6. CaughtUp(k, 1)'
    BY <2>5 DEF CaughtUp
  <2>. QED  BY <1>7, <2>2, <2>3, <2>4, <2>6, Zenon DEF Preflight
<1>10. CASE CheckNodeBefore(k)
  <2>. DEFINE node == Nodes[r][job.at]
  <2>1. /\ job.pc = "before" /\ UNCHANGED ordererVars /\ WellPlaced(r)
        /\ EnvelopeMatches(k) /\ ReviewedBy(r, job.reference) /\ CaughtUp(k, job.at)
    BY <1>3, <1>10 DEF CheckNodeBefore, Continues, Preflight
  <2>2. Nodes[r] \in Seq(RaftConsenter)
    BY <2>1, NodePlaced
  <2>3. \/ submission'[k].pc = "failed"
        \/ /\ height[node] >= job.reference
           /\ job.at < Len(Nodes[r])
           /\ submission'[k] = [job EXCEPT !.at = @ + 1]
        \/ /\ height[node] >= job.reference
           /\ ~(job.at < Len(Nodes[r]))
           /\ submission'[k] = [job EXCEPT !.pc = "refetch", !.at = 1]
    BY <1>5, <1>6, <1>10, ZenonT(30) DEF CheckNodeBefore, Continues, NodeIsFit
  <2>4. submission'[k].reference = job.reference /\ ReviewedBy(r, job.reference)
            => ReviewedBy(r, submission[k].reference)'
    BY <2>1 DEF ReviewedBy, ordererVars
  <2>5. CASE /\ height[node] >= job.reference
             /\ job.at < Len(Nodes[r])
             /\ submission'[k] = [job EXCEPT !.at = @ + 1]
    <3>1. submission'[k].pc = "before" /\ submission'[k].at = job.at + 1 /\ submission'[k].reference = job.reference
      BY <1>1, <2>1, <2>5 DEF SubmissionJob
    <3>2. \A i \in DOMAIN Nodes[r] : i < job.at + 1 => height[Nodes[r][i]] >= job.reference
      BY <1>2, <2>1, <2>2, <2>5 DEF CaughtUp
    <3>3. CaughtUp(k, submission[k].at)'
      BY <2>1, <3>1, <3>2, ZenonT(20) DEF CaughtUp, ordererVars
    <3>. QED  BY <1>7, <2>1, <2>4, <3>1, <3>3, Zenon DEF Preflight
  <2>6. CASE /\ height[node] >= job.reference
             /\ ~(job.at < Len(Nodes[r]))
             /\ submission'[k] = [job EXCEPT !.pc = "refetch", !.at = 1]
    <3>1. submission'[k].pc = "refetch" /\ submission'[k].reference = job.reference
      BY <1>1, <2>6 DEF SubmissionJob
    <3>2. CaughtUp(k, Len(Nodes[r]) + 1)'
      BY <1>2, <2>1, <2>2, <2>6, <3>1 DEF CaughtUp, ordererVars
    <3>. QED  BY <1>7, <2>1, <2>4, <3>1, <3>2, Zenon DEF Preflight
  <2>. QED  BY <1>4, <2>3, <2>5, <2>6
<1>11. CASE Refetch(k)
  <2>1. job.pc = "refetch" /\ UNCHANGED ordererVars
    BY <1>11 DEF Refetch, Continues
  <2>2. submission'[k].pc = "failed" \/ submission'[k] = [job EXCEPT !.pc = "submit"]
    BY <1>5, <1>6, <1>11 DEF Refetch, Continues
  <2>3. CASE submission'[k] = [job EXCEPT !.pc = "submit"]
    <3>1. submission'[k].pc = "submit" /\ submission'[k].reference = job.reference
      BY <1>1, <2>3 DEF SubmissionJob
    <3>2. EnvelopeMatches(k) /\ ReviewedBy(r, job.reference) /\ CaughtUp(k, Len(Nodes[r]) + 1)
      BY <2>1 DEF Preflight
    <3>3. ReviewedBy(r, submission[k].reference)' /\ CaughtUp(k, Len(Nodes[r]) + 1)'
      BY <2>1, <3>1, <3>2 DEF ReviewedBy, CaughtUp, ordererVars
    <3>. QED  BY <1>7, <3>1, <3>2, <3>3, Zenon DEF Preflight
  <2>. QED  BY <1>4, <2>2, <2>3
<1>12. CASE \/ Submit(k) \/ ObserveCommit(k) \/ CheckNodeAfter(k) \/ GiveUp(k)
            \/ PublishReceipt(k) \/ FinishSubmission(k)
  <2>1. submission'[k].pc \in {"failed", "poll", "after", "publish", "published", "succeeded"}
    <3>1. \A p : [job EXCEPT !.pc = p].pc = p
      BY <1>1 DEF SubmissionJob
    <3>2. CASE Submit(k)
      <4>1. [job EXCEPT !.pc = "poll", !.outcome = "submitted"].pc = "poll"
        BY <1>1 DEF SubmissionJob
      <4>. QED  BY <1>5, <1>6, <3>2, <4>1, Zenon DEF Submit
    <3>3. CASE ObserveCommit(k)
      <4>1. \A g : [job EXCEPT !.pc = "after", !.at = 1, !.reference = g].pc = "after"
        BY <1>1 DEF SubmissionJob
      <4>. QED  BY <1>5, <3>3, <4>1, Zenon DEF ObserveCommit, Continues
    <3>4. CASE CheckNodeAfter(k)
      <4>1. job.pc = "after" /\ \A n : [job EXCEPT !.at = n].pc = job.pc
        BY <1>1, <3>4 DEF SubmissionJob, CheckNodeAfter
      <4>. QED  BY <1>5, <3>1, <3>4, <4>1, ZenonT(30) DEF CheckNodeAfter, Continues
    <3>5. CASE GiveUp(k) \/ PublishReceipt(k) \/ FinishSubmission(k)
      BY <1>5, <1>6, <3>1, <3>5, ZenonT(30) DEF GiveUp, PublishReceipt, FinishSubmission, Continues
    <3>. QED  BY <1>12, <3>2, <3>3, <3>4, <3>5
  <2>. QED  BY <1>4, <2>1
<1>. QED  BY <1>8, <1>9, <1>10, <1>11, <1>12 DEF SubmissionStep

\* The commit a Job observes is in the block its config came from.
LEMMA ObservedIsChange ==
    ASSUME Base, NEW r \in ValidRequest, membership_matches(source[r], r)
    PROVE  /\ chain[height[source[r]]].lastConfig \in Nat
           /\ ChangeAt(r, chain[height[source[r]]].lastConfig)
<1>1. source[r] \in Orderer
  BY DEF ValidRequest
<1>2. PICK h \in DOMAIN chain : h = height[source[r]]
  BY <1>1 DEF Base, TypeOK, ChainOK, membership_matches
<1>3. /\ chain[h].config.mode = "normal"
      /\ chain[h].config.consenters = Desired[r]
      /\ chain[h].config.sequence > plan[r].configSequence
  BY <1>2 DEF membership_matches, View
<1>4. /\ chain[h].lastConfig \in 1 .. h
      /\ chain[chain[h].lastConfig].config = chain[h].config
  BY DEF Base, ChainOK, WellFormed
<1>5. chain[h].lastConfig \in DOMAIN chain /\ chain[h].lastConfig \in Nat
  BY <1>4 DEF Base, TypeOK
<1>. QED  BY <1>2, <1>3, <1>4, <1>5 DEF ChangeAt
-----------------------------------------------------------------------------
(* What the scripts know, step by step. *)

\* The script from the observed commit to the receipt
LEMMA PostflightStep ==
    ASSUME Base, NEW k \in Operation, Postflight(k), SubmissionStep(k)
    PROVE  Postflight(k)'
<1>. DEFINE r == k[1]
            job == submission[k]
<1>1. submission \in [Operation -> SubmissionJob] /\ job \in SubmissionJob
  BY DEF Base, TypeOK
<1>2. job.reference \in Nat /\ job.at \in Nat
  BY <1>1 DEF SubmissionJob
<1>3. job.pc # "absent" => WellPlaced(r)
  BY DEF Base, Placement
<1>4. CASE submission'[k].pc \notin {"after", "publish"}
  BY <1>4 DEF Postflight
<1>5. \A new : Becomes(k, new) => submission'[k] = new
  BY <1>1 DEF Becomes
<1>6. Failed(k).pc = "failed"
  BY <1>1 DEF Failed, SubmissionJob
<1>7. \A p : [job EXCEPT !.pc = p].pc = p
  BY <1>1 DEF SubmissionJob
<1>8. CASE ObserveCommit(k)
  <2>. DEFINE ref == chain[height[source[r]]].lastConfig
  <2>1. job.pc = "poll" /\ UNCHANGED ordererVars /\ membership_matches(source[r], r)
        /\ submission'[k] = [job EXCEPT !.pc = "after", !.at = 1, !.reference = ref]
    BY <1>5, <1>8 DEF ObserveCommit, Continues
  <2>2. WellPlaced(r)
    BY <1>3, <2>1
  <2>3. ref \in Nat /\ ChangeAt(r, ref) /\ Nodes[r] \in Seq(RaftConsenter)
    BY <2>1, <2>2, ObservedIsChange, NodePlaced DEF WellPlaced
  <2>4. submission'[k].pc = "after" /\ submission'[k].at = 1 /\ submission'[k].reference = ref
    BY <1>1, <2>1 DEF SubmissionJob
  <2>5. ChangeAt(r, submission[k].reference)'
    BY <2>1, <2>3, <2>4, ZenonT(30) DEF ChangeAt, ordererVars
  <2>6. DesiredCaughtUp(k, submission[k].at)'
    <3>1. \A i \in DOMAIN Nodes[r] : ~(i < 1)
      BY <2>3
    <3>2. \A i \in DOMAIN Nodes[r] : ~(i < submission'[k].at)
      BY <2>4, <3>1, Zenon
    <3>. QED  BY <3>2, Zenon DEF DesiredCaughtUp
  <2>. QED  BY <2>4, <2>5, <2>6, Zenon DEF Postflight
<1>9. CASE CheckNodeAfter(k)
  <2>. DEFINE node == Nodes[r][job.at]
              checked == Among(node, Desired[r]) => height[node] >= job.reference
  <2>1. /\ job.pc = "after" /\ UNCHANGED ordererVars /\ WellPlaced(r)
        /\ ChangeAt(r, job.reference) /\ DesiredCaughtUp(k, job.at)
    BY <1>3, <1>9 DEF CheckNodeAfter, Continues, Postflight
  <2>2. Nodes[r] \in Seq(RaftConsenter)
    BY <2>1, NodePlaced, ZenonT(20)
  <2>3. FitAfter(k) => checked
    BY Zenon DEF FitAfter, NodeIsFit
  <2>4. \/ submission'[k] = [job EXCEPT !.at = 1]
        \/ checked /\ job.at < Len(Nodes[r]) /\ submission'[k] = [job EXCEPT !.at = @ + 1]
        \/ checked /\ ~(job.at < Len(Nodes[r])) /\ submission'[k] = [job EXCEPT !.pc = "publish"]
    BY <1>5, <1>9, <2>3 DEF CheckNodeAfter, Continues
  <2>5. submission'[k].reference = job.reference
    BY <1>1, <2>4 DEF SubmissionJob
  <2>6. ChangeAt(r, submission[k].reference)'
    BY <2>1, <2>5, Zenon DEF ChangeAt, ordererVars
  <2>7. CASE submission'[k] = [job EXCEPT !.at = 1]
    <3>1. submission'[k].pc = "after" /\ submission'[k].at = 1
      BY <1>1, <2>1, <2>7 DEF SubmissionJob
    <3>2. DesiredCaughtUp(k, submission[k].at)'
      BY <2>2, <3>1 DEF DesiredCaughtUp
    <3>. QED  BY <2>6, <3>1, <3>2 DEF Postflight
  <2>8. CASE checked /\ job.at < Len(Nodes[r]) /\ submission'[k] = [job EXCEPT !.at = @ + 1]
    <3>1. submission'[k].pc = "after" /\ submission'[k].at = job.at + 1
      BY <1>1, <2>1, <2>8 DEF SubmissionJob
    <3>2. DesiredCaughtUp(k, submission[k].at)'
      BY <1>2, <2>1, <2>2, <2>5, <2>8, <3>1 DEF DesiredCaughtUp, ordererVars
    <3>. QED  BY <2>6, <3>1, <3>2 DEF Postflight
  <2>9. CASE checked /\ ~(job.at < Len(Nodes[r])) /\ submission'[k] = [job EXCEPT !.pc = "publish"]
    <3>1. submission'[k].pc = "publish"
      BY <1>1, <2>9 DEF SubmissionJob
    <3>2. \A i \in DOMAIN Nodes[r] : Among(Nodes[r][i], Desired[r]) => height[Nodes[r][i]] >= job.reference
      BY <1>2, <2>1, <2>2, <2>9 DEF DesiredCaughtUp
    <3>3. ASSUME NEW i \in DOMAIN Desired[r] PROVE height[Desired[r][i]] >= job.reference
      <4>1. PICK j \in DOMAIN Nodes[r] : Nodes[r][j] = Desired[r][i]
        BY <2>1, DesiredIsChecked DEF WellPlaced
      <4>. QED  BY <3>2, <4>1 DEF Among
    <3>4. EarnedAt(k, submission[k].reference)'
      BY <2>1, <2>5, <2>6, <3>3 DEF EarnedAt, ordererVars
    <3>. QED  BY <2>6, <3>1, <3>4 DEF Postflight
  <2>. QED  BY <2>4, <2>7, <2>8, <2>9
<1>10. CASE VerifyAndFetch(k)
  BY <1>4, <1>5, <1>6, <1>10, Zenon DEF VerifyAndFetch, Continues, NoJob
<1>11. CASE ReadTip(k)
  <2>1. \A h : [job EXCEPT !.pc = "before", !.reference = h].pc = "before"
    BY <1>1 DEF SubmissionJob
  <2>. QED  BY <1>4, <1>5, <1>11, <2>1, Zenon DEF ReadTip, Continues
<1>12. CASE CheckNodeBefore(k)
  <2>1. [job EXCEPT !.pc = "refetch", !.at = 1].pc = "refetch"
    BY <1>1 DEF SubmissionJob
  <2>2. job.pc = "before" /\ [job EXCEPT !.at = @ + 1].pc = job.pc
    BY <1>1, <1>12 DEF SubmissionJob, CheckNodeBefore
  <2>. QED  BY <1>4, <1>5, <1>6, <1>12, <2>1, <2>2, Zenon DEF CheckNodeBefore, Continues
<1>13. CASE Submit(k)
  <2>1. [job EXCEPT !.pc = "poll", !.outcome = "submitted"].pc = "poll"
    BY <1>1 DEF SubmissionJob
  <2>. QED  BY <1>4, <1>5, <1>6, <1>13, <2>1, Zenon DEF Submit
<1>14. CASE Refetch(k) \/ GiveUp(k) \/ PublishReceipt(k) \/ FinishSubmission(k)
  BY <1>4, <1>5, <1>6, <1>7, <1>14, ZenonT(30) DEF Refetch, GiveUp, PublishReceipt, FinishSubmission, Continues
<1>. QED  BY <1>8, <1>9, <1>10, <1>11, <1>12, <1>13, <1>14 DEF SubmissionStep

-----------------------------------------------------------------------------
(* Receipts, pending updates, staging and the status. *)

LEMMA ReceiptMoves ==
    ASSUME Base, [Next]_vars, NEW k \in Operation
    PROVE  receipt'[k] = receipt[k] \/ PublishReceipt(k)
<1>1. receipt \in [Operation -> [outcome : Outcomes, block : Nat]]
  BY DEF Base, TypeOK
<1>2. ASSUME NEW j \in Operation, PublishReceipt(j), j # k PROVE receipt'[k] = receipt[k]
  BY <1>1, <1>2 DEF PublishReceipt
<1>3. ASSUME NEW j \in Operation, SubmissionStep(j), ~PublishReceipt(j) PROVE UNCHANGED receipt
  BY <1>3 DEF SubmissionStep, VerifyAndFetch, ReadTip, CheckNodeBefore, Refetch, Submit, ObserveCommit,
              CheckNodeAfter, GiveUp, FinishSubmission, Continues
<1>4. ASSUME UserNext \/ ControllerStep \/ AwaitArtifact \/ ControllerRestart PROVE UNCHANGED receipt
  BY <1>4, ZenonT(30) DEF UserNext, SetRequest, SetSignedUpdateRef, DeleteStagingJob, DeleteSubmissionJob, RenewCertificate,
              ControllerStep, StartPass, EnsureStagingJob, EnsureSubmissionJob, AwaitArtifact, ControllerRestart,
              submissionVars
<1>5. ASSUME NEW r \in Request, StagingStep(r) \/ StagingPodLost(r) PROVE UNCHANGED receipt
  BY <1>5 DEF StagingStep, StageUpdate, PublishStaging, FinishStaging, StagingPodLost, submissionVars
<1>6. ASSUME NEW j \in Operation, SubmissionPodLost(j) PROVE UNCHANGED receipt
  BY <1>6 DEF SubmissionPodLost
<1>7. ASSUME OrdererNext \/ UNCHANGED vars PROVE UNCHANGED receipt
  BY <1>7, Zenon DEF OrdererNext, OrderUpdate, LoseUpdate, OtherUpdate, DataBlock, Replicate, vars, submissionVars
<1>. QED  BY <1>2, <1>3, <1>4, <1>5, <1>6, <1>7 DEF Next

LEMMA ReceiptsStep ==
    ASSUME Base, Base', Knowledge, Grows, [Next]_vars
    PROVE  Receipts'
<1>. SUFFICES ASSUME NEW k \in Operation, receipt'[k] # NoReceipt
              PROVE  WellPlaced(k[1]) /\ EarnedAt(k, receipt[k].block)'
  BY DEF Receipts, WellPlaced, NoReceipt, ValidRequest
<1>1. receipt \in [Operation -> [outcome : Outcomes, block : Nat]]
  BY DEF Base, TypeOK
<1>2. CASE receipt'[k] = receipt[k]
  <2>1. PICK h \in Nat : h = receipt[k].block /\ h = receipt'[k].block
    BY <1>1, <1>2
  <2>2. WellPlaced(k[1]) /\ EarnedAt(k, h)
    BY <1>2, <2>1 DEF Knowledge, Receipts
  <2>3. EarnedAt(k, h)'
    BY <2>2, EarnedKept
  <2>. QED  BY <2>1, <2>2, <2>3
<1>3. CASE PublishReceipt(k)
  <2>1. submission[k] \in SubmissionJob /\ submission[k].pc = "publish"
    BY <1>3 DEF PublishReceipt, Base, TypeOK
  <2>2. PICK h \in Nat : h = submission[k].reference /\ h = receipt'[k].block
    BY <1>1, <1>3, <2>1 DEF PublishReceipt, SubmissionJob
  <2>3. WellPlaced(k[1]) /\ EarnedAt(k, h)
    BY <2>1, <2>2, ZenonT(30) DEF Base, Placement, Knowledge, Postflight
  <2>4. EarnedAt(k, h)'
    BY <2>3, EarnedKept
  <2>. QED  BY <2>2, <2>3, <2>4
<1>. QED  BY <1>2, <1>3, ReceiptMoves

\* A reviewed request stays reviewed.
LEMMA ReviewKept ==
    ASSUME Base, Base', Grows, NEW r, ReviewedBy(r, Len(chain))
    PROVE  ReviewedBy(r, Len(chain))'
<1>1. PICK m \in Nat, n \in Nat : m = Len(chain) /\ n = Len(chain') /\ m <= n
  BY DEF Base, TypeOK, Grows
<1>2. \E g \in 1 .. n : g \in DOMAIN chain' /\ chain'[g].config = Original[r]
  BY <1>1, ReviewedKept
<1>. QED  BY <1>1, <1>2 DEF ReviewedBy

\* The queue of accepted updates loses its head or gains one update a Job sends.
LEMMA PendingMoves ==
    ASSUME Base, [Next]_vars
    PROVE  \/ UNCHANGED pending
           \/ pending # <<>> /\ pending' = Tail(pending)
           \/ \E k \in Operation : /\ submission[k].pc = "submit"
                                   /\ pending' = Append(pending, [update |-> Sent(k), by |-> k])
<1>1. ASSUME UserNext \/ ControllerStep \/ AwaitArtifact \/ ControllerRestart PROVE UNCHANGED pending
  BY <1>1, ZenonT(30) DEF UserNext, SetRequest, SetSignedUpdateRef, DeleteStagingJob, DeleteSubmissionJob, RenewCertificate,
              ControllerStep, StartPass, EnsureStagingJob, EnsureSubmissionJob, AwaitArtifact, ControllerRestart,
              ordererVars
<1>2. ASSUME NEW r \in Request, StagingStep(r) \/ StagingPodLost(r) PROVE UNCHANGED pending
  BY <1>2 DEF StagingStep, StageUpdate, PublishStaging, FinishStaging, StagingPodLost, ordererVars
<1>3. ASSUME NEW k \in Operation, SubmissionPodLost(k) PROVE UNCHANGED pending
  BY <1>3 DEF SubmissionPodLost, ordererVars
<1>4. ASSUME NEW k \in Operation, SubmissionStep(k), ~Submit(k) PROVE UNCHANGED pending
  BY <1>4 DEF SubmissionStep, VerifyAndFetch, ReadTip, CheckNodeBefore, Refetch, ObserveCommit,
              CheckNodeAfter, GiveUp, PublishReceipt, FinishSubmission, Continues, ordererVars
<1>5. ASSUME NEW k \in Operation, Submit(k)
      PROVE  \/ UNCHANGED pending
             \/ submission[k].pc = "submit" /\ pending' = Append(pending, [update |-> Sent(k), by |-> k])
  BY <1>5 DEF Submit
<1>6. ASSUME OrdererNext \/ UNCHANGED vars
      PROVE  UNCHANGED pending \/ (pending # <<>> /\ pending' = Tail(pending))
  BY <1>6, Zenon DEF OrdererNext, OrderUpdate, LoseUpdate, OtherUpdate, DataBlock, Replicate, vars, ordererVars
<1>. QED  BY <1>1, <1>2, <1>3, <1>4, <1>5, <1>6 DEF Next

LEMMA ValidIsNormal ==
    ASSUME NEW r \in ValidRequest
    PROVE  Original[r].mode = "normal"
BY DEF ValidRequest, ValidateRaftPlan, Plannable, Original

LEMMA PendingStep ==
    ASSUME Base, Base', Knowledge, Grows, [Next]_vars
    PROVE  PendingOK'
<1>. DEFINE OK(p) == /\ p.update = Delta[p.by[1]]
                     /\ Original[p.by[1]].mode = "normal"
                     /\ ReviewedBy(p.by[1], Len(chain))
<1>1. \A i \in DOMAIN pending : OK(pending[i])
  BY Zenon DEF Knowledge, PendingOK
<1>2. ASSUME NEW p, OK(p) PROVE OK(p)'
  BY <1>2, ReviewKept
<1>3. pending \in Seq(PendingUpdate)
  BY DEF Base, TypeOK
<1>4. CASE UNCHANGED pending
  BY <1>1, <1>2, <1>4 DEF PendingOK
<1>5. CASE pending # <<>> /\ pending' = Tail(pending)
  <2>1. \A i \in DOMAIN pending' : \E j \in DOMAIN pending : pending'[i] = pending[j]
    BY <1>3, <1>5
  <2>. QED  BY <1>1, <1>2, <2>1 DEF PendingOK
<1>6. ASSUME NEW k \in Operation, submission[k].pc = "submit",
             pending' = Append(pending, [update |-> Sent(k), by |-> k])
      PROVE  PendingOK'
  <2>. DEFINE p == [update |-> Sent(k), by |-> k]
  <2>1. WellPlaced(k[1]) /\ EnvelopeMatches(k) /\ ReviewedBy(k[1], submission[k].reference)
    BY <1>6, Zenon DEF Base, Placement, Knowledge, Preflight
  <2>2. ReviewedBy(k[1], Len(chain))
    <3>1. chain \in Seq(Block)
      BY DEF Base, TypeOK
    <3>. QED  BY <2>1, <3>1 DEF ReviewedBy
  <2>3. p.by = k /\ p.update = update[k[2]]
    BY DEF Sent
  <2>4. OK(p)
    BY <2>1, <2>2, <2>3, ValidIsNormal, ZenonT(20) DEF EnvelopeMatches, WellPlaced
  <2>. HIDE DEF p
  <2>5. \A i \in DOMAIN pending' : pending'[i] = p \/ \E j \in DOMAIN pending : pending'[i] = pending[j]
    <3>1. PICK q, s : q = pending /\ s = pending' /\ q \in Seq(PendingUpdate) /\ s = Append(q, p)
      BY <1>3, <1>6, Zenon DEF p
    <3>2. \A i \in DOMAIN s : s[i] = p \/ (i \in DOMAIN q /\ s[i] = q[i])
      BY <3>1
    <3>. QED  BY <3>1, <3>2, Zenon
  <2>6. p' = p
    BY DEF p, Sent
  <2>7. \A q : OK(q) => /\ q.update = Delta[q.by[1]]
                        /\ Original[q.by[1]].mode = "normal"
                        /\ ReviewedBy(q.by[1], Len(chain))'
    BY ReviewKept
  <2>. HIDE DEF OK
  <2>. QED  BY <1>1, <2>4, <2>5, <2>7 DEF PendingOK
<1>. QED  BY <1>4, <1>5, <1>6, PendingMoves, ZenonT(30)

LEMMA StagingMoves ==
    ASSUME Base, [Next]_vars, NEW r \in Request
    PROVE  /\ stagingJob'[r] = stagingJob[r] \/ stagingJob'[r] # "publish" \/ StageUpdate(r)
           /\ stagingResult'[r] = stagingResult[r] \/ PublishStaging(r)
<1>. USE DEF StagingGoes
<1>1. /\ stagingJob \in [Request -> {"absent", "staging", "publish", "published"} \cup Done]
      /\ stagingResult \in [Request -> {"none", "staged", "alreadyApplied"}]
  BY DEF Base, TypeOK
<1>2. CASE UNCHANGED stagingVars
  BY <1>2 DEF stagingVars
<1>3. ASSUME NEW s \in Request, DeleteStagingJob(s)
      PROVE  stagingResult' = stagingResult /\ (stagingJob'[r] = stagingJob[r] \/ stagingJob'[r] # "publish")
  BY <1>1, <1>3 DEF DeleteStagingJob
<1>4. ASSUME EnsureStagingJob
      PROVE  stagingResult' = stagingResult /\ (stagingJob'[r] = stagingJob[r] \/ stagingJob'[r] # "publish")
  BY <1>1, <1>4 DEF EnsureStagingJob
<1>5. ASSUME NEW s \in Request, StagingStep(s) \/ StagingPodLost(s)
      PROVE  /\ stagingJob'[r] = stagingJob[r] \/ stagingJob'[r] # "publish" \/ StageUpdate(r)
             /\ stagingResult'[r] = stagingResult[r] \/ PublishStaging(r)
  <2>1. CASE s = r
    BY <1>1, <1>5, <2>1, ZenonT(20) DEF StagingStep, StageUpdate, PublishStaging, FinishStaging, StagingPodLost
  <2>2. CASE s # r
    BY <1>1, <1>5, <2>2 DEF StagingStep, StageUpdate, PublishStaging, FinishStaging, StagingPodLost
  <2>. QED  BY <2>1, <2>2
<1>6. ASSUME NEW k \in Operation, SubmissionStep(k) \/ SubmissionPodLost(k) PROVE UNCHANGED stagingVars
  BY <1>6 DEF SubmissionStep, VerifyAndFetch, ReadTip, CheckNodeBefore, Refetch, Submit, ObserveCommit,
              CheckNodeAfter, GiveUp, PublishReceipt, FinishSubmission, SubmissionPodLost, Continues
<1>7. CASE OrdererNext \/ UNCHANGED vars
  BY <1>2, <1>7, ZenonT(30) DEF OrdererNext, OrderUpdate, LoseUpdate, OtherUpdate, DataBlock, Replicate, vars
<1>8. CASE UserNext
  BY <1>2, <1>3, <1>8, Zenon DEF UserNext, SetRequest, SetSignedUpdateRef, DeleteSubmissionJob, RenewCertificate
<1>9. CASE ControllerStep \/ AwaitArtifact \/ ControllerRestart
  BY <1>2, <1>4, <1>9, ZenonT(30) DEF ControllerStep, StartPass, EnsureSubmissionJob, AwaitArtifact, ControllerRestart
<1>. QED  BY <1>2, <1>5, <1>6, <1>7, <1>8, <1>9 DEF Next

LEMMA StagedStep ==
    ASSUME Base, Base', Knowledge, Grows, [Next]_vars
    PROVE  Staged'
<1>. SUFFICES ASSUME NEW r \in Request
              PROVE  /\ stagingJob'[r] = "publish" => ReviewedBy(r, Len(chain))'
                     /\ stagingResult'[r] = "alreadyApplied" =>
                            plan[r].action = "AlreadyApplied" /\ r \in ValidRequest /\ ReviewedBy(r, Len(chain))'
  BY DEF Staged, ValidRequest
<1>1. ReviewedBy(r, Len(chain)) => ReviewedBy(r, Len(chain))'
  BY ReviewKept
<1>2. stagingJob[r] # "absent" => r \in ValidRequest
  BY DEF Base, Placement
<1>3. ASSUME stagingJob'[r] = "publish" PROVE ReviewedBy(r, Len(chain))'
  <2>1. CASE stagingJob'[r] = stagingJob[r]
    BY <1>1, <1>3, <2>1 DEF Knowledge, Staged
  <2>2. CASE StageUpdate(r)
    <3>1. stagingJob[r] = "staging" /\ Fetches(source[r], Original[r])
      BY <1>3, <2>2, ZenonT(20) DEF StageUpdate, StagingGoes, Base, TypeOK
    <3>. QED  BY <1>1, <1>2, <3>1, FetchedIsReviewed
  <2>. QED  BY <1>3, <2>1, <2>2, StagingMoves
<1>4. ASSUME stagingResult'[r] = "alreadyApplied"
      PROVE  plan[r].action = "AlreadyApplied" /\ r \in ValidRequest /\ ReviewedBy(r, Len(chain))'
  <2>1. CASE stagingResult'[r] = stagingResult[r]
    BY <1>1, <1>4, <2>1 DEF Knowledge, Staged
  <2>2. CASE PublishStaging(r)
    <3>1. stagingJob[r] = "publish" /\ plan[r].action = "AlreadyApplied"
      BY <1>4, <2>2, Zenon DEF PublishStaging, Base, TypeOK
    <3>. QED  BY <1>1, <1>2, <3>1 DEF Knowledge, Staged
  <2>. QED  BY <2>1, <2>2, StagingMoves, Zenon
<1>. QED  BY <1>3, <1>4

\* A plan that is already applied asks for the consenters it starts from.
LEMMA AppliedIsDesired ==
    ASSUME NEW r \in ValidRequest, plan[r].action = "AlreadyApplied"
    PROVE  /\ Desired[r] = Original[r].consenters
           /\ Original[r].sequence = plan[r].configSequence
<1>. DEFINE old == plan[r].originalConfig
            new == plan[r].updatedConfig.consenters
<1>1. r \in Request /\ ValidateRaftPlan(plan[r])
  BY DEF ValidRequest
<1>2. old \in RaftConfig
  BY <1>1, RequestConstants
<1>3. /\ plan[r].configSequence = old.sequence
      /\ PlanAction(old.consenters, new) = "AlreadyApplied"
      /\ plan[r].updatedConfig = [old EXCEPT !.consenters = UpdatedConsenters(old.consenters, new)]
  BY <1>1 DEF ValidateRaftPlan, planRaftConfig
<1>4. UpdatedConsenters(old.consenters, new) = old.consenters
  BY <1>3 DEF PlanAction, UpdatedConsenters
<1>5. new = old.consenters
  BY <1>2, <1>3, <1>4 DEF RaftConfig
<1>. QED  BY <1>1, <1>3, <1>5 DEF Desired, Original

\* The status becomes ready only on the evidence of the request it names.
LEMMA StatusMoves ==
    ASSUME Base, [Next]_vars, status'.ready
    PROVE  \/ status' = status
           \/ \E r \in ValidRequest :
                  /\ status'.request = r
                  /\ \/ stagingResult[r] = "alreadyApplied"
                     \/ \E e : <<r, e>> \in Operation /\ receipt[<<r, e>>] # NoReceipt
<1>1. ASSUME NEW r, NEW phase, Report(r, phase, FALSE) PROVE FALSE
  BY <1>1 DEF Report
<1>2. ASSUME NEW r, NEW phase, Report(r, phase, TRUE) PROVE status'.request = r
  BY <1>2 DEF Report
<1>3. CASE StartPass
  <2>. DEFINE r == spec.request
              e == spec.envelope
  <2>1. status' # NoStatus
    BY DEF NoStatus
  <2>2. CASE UNCHANGED status
    BY <2>2
  <2>3. CASE /\ r \in ValidRequest /\ stagingResult[r] = "alreadyApplied"
             /\ Report(r, "AlreadyApplied", TRUE)
    BY <1>2, <2>3, Zenon
  <2>4. CASE r \in ValidRequest /\ e # NoEnvelope /\ ReadReceipt(r, e)
    <3>1. <<r, e>> \in Operation
      BY <2>4 DEF Base, Placement
    <3>2. CASE UNCHANGED status
      BY <3>2
    <3>3. CASE /\ \/ receipt[<<r, e>>].outcome = "submitted" /\ Report(r, "Submitted", TRUE)
                  \/ receipt[<<r, e>>].outcome = "alreadyApplied" /\ Report(r, "AlreadyApplied", TRUE)
      <4>1. receipt[<<r, e>>] # NoReceipt
        <5>1. NoReceipt.outcome = "none"
          BY DEF NoReceipt
        <5>. QED  BY <3>3, <5>1, Zenon
      <4>. QED  BY <1>2, <2>4, <3>1, <3>3, <4>1, Zenon
    <3>. QED  BY <1>1, <2>4, <3>2, <3>3, ZenonT(30) DEF ReadReceipt
  <2>5. \/ status' = NoStatus
        \/ UNCHANGED status
        \/ Report(r, "Failed", FALSE)
        \/ Report(r, "PendingSignatures", FALSE)
        \/ r \in ValidRequest /\ stagingResult[r] = "alreadyApplied" /\ Report(r, "AlreadyApplied", TRUE)
        \/ r \in ValidRequest /\ e # NoEnvelope /\ ReadReceipt(r, e)
    BY <1>3, Zenon DEF StartPass
  <2>. QED  BY <1>1, <2>1, <2>2, <2>3, <2>4, <2>5, Zenon
<1>4. CASE EnsureStagingJob \/ EnsureSubmissionJob \/ AwaitArtifact
  BY <1>1, <1>4, ZenonT(30) DEF EnsureStagingJob, EnsureSubmissionJob, AwaitArtifact
<1>5. CASE UserNext \/ ControllerRestart \/ OrdererNext \/ UNCHANGED vars
  BY <1>5, Zenon DEF UserNext, SetRequest, SetSignedUpdateRef, DeleteStagingJob, DeleteSubmissionJob, RenewCertificate,
              ControllerRestart, OrdererNext, OrderUpdate, LoseUpdate, OtherUpdate, DataBlock, Replicate,
              vars, controllerVars
<1>6. ASSUME NEW r \in Request, StagingStep(r) \/ StagingPodLost(r) PROVE UNCHANGED status
  BY <1>6 DEF StagingStep, StageUpdate, PublishStaging, FinishStaging, StagingPodLost, controllerVars
<1>7. ASSUME NEW k \in Operation, SubmissionStep(k) \/ SubmissionPodLost(k) PROVE UNCHANGED status
  BY <1>7 DEF SubmissionStep, VerifyAndFetch, ReadTip, CheckNodeBefore, Refetch, Submit, ObserveCommit,
              CheckNodeAfter, GiveUp, PublishReceipt, FinishSubmission, SubmissionPodLost, Continues, controllerVars
<1>. QED  BY <1>3, <1>4, <1>5, <1>6, <1>7, Zenon DEF Next, ControllerStep

LEMMA ReadyStep ==
    ASSUME Base, Base', Knowledge, Grows, [Next]_vars
    PROVE  ReadyIsEarned'
<1>. DEFINE Shown(r) == \E h \in DOMAIN chain : /\ chain[h].config.consenters = Desired[r]
                                               /\ chain[h].config.sequence >= plan[r].configSequence
<1>. SUFFICES ASSUME status'.ready
              PROVE  status'.request \in Request /\ Shown(status.request)'
  BY DEF ReadyIsEarned
<1>1. ASSUME NEW r, Shown(r) PROVE Shown(r)'
  BY <1>1 DEF Grows
<1>2. CASE status' = status
  <2>1. PICK r : r = status.request /\ r = status'.request
    BY <1>2
  <2>2. r \in Request /\ Shown(r)
    BY <1>2, <2>1 DEF Knowledge, ReadyIsEarned
  <2>3. Shown(r)'
    BY <1>1, <2>2
  <2>. HIDE DEF Shown
  <2>. QED  BY <2>1, <2>2, <2>3 DEF Shown
<1>3. ASSUME NEW r \in ValidRequest, status'.request = r, stagingResult[r] = "alreadyApplied"
      PROVE  r \in Request /\ Shown(r)'
  <2>1. r \in Request
    BY DEF ValidRequest
  <2>2. plan[r].action = "AlreadyApplied" /\ ReviewedBy(r, Len(chain))
    BY <1>3, <2>1 DEF Knowledge, Staged
  <2>3. PICK h \in DOMAIN chain : chain[h].config = Original[r]
    BY <2>2 DEF ReviewedBy
  <2>4. chain[h].config.consenters = Desired[r] /\ chain[h].config.sequence = plan[r].configSequence
    BY <2>2, <2>3, AppliedIsDesired
  <2>5. plan[r].configSequence \in Nat
    BY <2>1, RequestConstants
  <2>6. Shown(r)
    BY <2>4, <2>5
  <2>. QED  BY <1>1, <2>1, <2>6
<1>4. ASSUME NEW r \in ValidRequest, status'.request = r,
             NEW e, <<r, e>> \in Operation, receipt[<<r, e>>] # NoReceipt
      PROVE  r \in Request /\ Shown(r)'
  <2>. DEFINE k == <<r, e>>
  <2>1. r \in Request
    BY DEF ValidRequest
  <2>2. ChangeAt(r, receipt[k].block)
    BY <1>4 DEF Knowledge, Receipts, EarnedAt
  <2>3. PICK h \in DOMAIN chain : /\ chain[h].config.consenters = Desired[r]
                                  /\ chain[h].config.sequence > plan[r].configSequence
    BY <2>2 DEF ChangeAt
  <2>4. chain[h].config.sequence \in Nat /\ plan[r].configSequence \in Nat
    <3>1. chain[h] \in Block
      BY DEF Base, TypeOK
    <3>. QED  BY <2>1, <3>1, RequestConstants DEF Block, RaftConfig
  <2>5. Shown(r)
    BY <2>3, <2>4
  <2>. QED  BY <1>1, <2>1, <2>5
<1>5. CASE status' # status
  <2>1. PICK r \in ValidRequest : /\ status'.request = r
                                 /\ \/ stagingResult[r] = "alreadyApplied"
                                    \/ \E e : <<r, e>> \in Operation /\ receipt[<<r, e>>] # NoReceipt
    BY <1>5, StatusMoves
  <2>2. r \in Request /\ Shown(r)'
    BY <1>3, <1>4, <2>1, ZenonT(30)
  <2>. QED  BY <2>1, <2>2
<1>. QED  BY <1>2, <1>5

LEMMA NextSafe == Safe /\ [Next]_vars => Safe'
<1>. SUFFICES ASSUME Base, Knowledge, [Next]_vars PROVE Safe'
  BY DEF Safe
<1>1. Base'
  BY NextBase
<1>2. Grows
  BY StepGrows
<1>3. ASSUME NEW k \in Operation PROVE Preflight(k)' /\ Postflight(k)'
  <2>1. Preflight(k) /\ Postflight(k)
    BY DEF Knowledge
  <2>2. CASE submission'[k] = submission[k]
    BY <1>1, <1>2, <2>1, <2>2, JobKept
  <2>3. CASE submission'[k].pc \in {"absent", "verify", "failed"}
    BY <2>3, Zenon DEF Preflight, Postflight
  <2>4. CASE SubmissionStep(k)
    BY <2>1, <2>4, PreflightStep, PostflightStep
  <2>. QED  BY <2>2, <2>3, <2>4, JobMoves
<1>4. Receipts' /\ PendingOK' /\ Staged' /\ ReadyIsEarned'
  BY <1>1, <1>2, ReceiptsStep, PendingStep, StagedStep, ReadyStep
<1>. QED  BY <1>1, <1>3, <1>4 DEF Safe, Knowledge

LEMMA InitSafe == Init => Safe
<1>. SUFFICES ASSUME Init PROVE Safe
  OBVIOUS
<1>1. Base
  BY InitBase
<1>2. \A k \in Operation : Preflight(k) /\ Postflight(k)
  BY ZenonT(30) DEF Init, NoJob, Preflight, Postflight
<1>3. Receipts /\ Staged
  BY ZenonT(30) DEF Init, Receipts, Staged
<1>4. PendingOK
  <2>1. pending = <<>>
    BY DEF Init
  <2>. QED  BY <2>1 DEF PendingOK
<1>5. ReadyIsEarned
  BY Zenon DEF Init, ReadyIsEarned, NoStatus
<1>. QED  BY <1>1, <1>2, <1>3, <1>4, <1>5 DEF Safe, Knowledge

\* The invariant behind the theorems below: at every moment the Jobs, the
\* receipts, the queue of the orderer and the status are backed by the channel.
THEOREM Safety == Spec => []Safe
<1>1. Init => Safe
  BY InitSafe
<1>2. Safe /\ [Next]_vars => Safe'
  BY NextSafe
<1>. QED  BY <1>1, <1>2, PTL DEF Spec

\* A receipt stands for a committed change that every desired consenter has
\* (raftSubmissionScript), whatever fails, is repeated or changes meanwhile.
THEOREM ReceiptsAreEarned == Spec => []ReceiptIsEarned
<1>1. Safe => ReceiptIsEarned
  BY Zenon DEF Safe, Knowledge, Receipts, EarnedAt, ReceiptIsEarned
<1>. QED  BY <1>1, Safety, PTL

\* The controller reports a request ready only when the channel has had the
\* consenters it asks for (reconcileRaftUpdate, reconcileRaftSubmission).
THEOREM ReadinessIsEarned == Spec => []ReadyIsEarned
<1>1. Safe => ReadyIsEarned
  BY DEF Safe, Knowledge
<1>. QED  BY <1>1, Safety, PTL

-----------------------------------------------------------------------------
(* Action properties and the refinement. *)

LEMMA OrderedIsReviewed ==
    ASSUME Safe, Safe', [Next]_vars, chain' # chain, pending' # pending,
           NEW r, r = Head(pending).by[1]
    PROVE  /\ Tip.consenters = Original[r].consenters
           /\ Tip.mode = "normal"
           /\ Tip'.consenters = Desired[r]
<1>1. OrderUpdate
  <2>1. ASSUME OrdererNext PROVE OrderUpdate
    BY <2>1, Zenon DEF OrdererNext, LoseUpdate, OtherUpdate, DataBlock, Replicate
  <2>2. ASSUME UserNext PROVE UNCHANGED chain
    BY <2>2, Zenon DEF UserNext, SetRequest, SetSignedUpdateRef, DeleteStagingJob, DeleteSubmissionJob,
                RenewCertificate, ordererVars
  <2>3. ASSUME ControllerStep \/ AwaitArtifact \/ ControllerRestart PROVE UNCHANGED chain
    BY <2>3, ZenonT(30) DEF ControllerStep, StartPass, EnsureStagingJob, EnsureSubmissionJob, AwaitArtifact,
                ControllerRestart, ordererVars
  <2>4. ASSUME NEW s \in Request, StagingStep(s) \/ StagingPodLost(s) PROVE UNCHANGED chain
    BY <2>4, Zenon DEF StagingStep, StageUpdate, PublishStaging, FinishStaging, StagingPodLost, ordererVars
  <2>5. ASSUME NEW k \in Operation, SubmissionStep(k) \/ SubmissionPodLost(k) PROVE UNCHANGED chain
    BY <2>5 DEF SubmissionStep, VerifyAndFetch, ReadTip, CheckNodeBefore, Refetch, Submit,
                ObserveCommit, CheckNodeAfter, GiveUp, PublishReceipt, FinishSubmission,
                SubmissionPodLost, Continues, ordererVars
  <2>. QED  BY <2>1, <2>2, <2>3, <2>4, <2>5, Zenon DEF Next, vars, ordererVars
<1>2. /\ chain \in Seq(Block) /\ Len(chain) > 0 /\ WellFormed(chain)
      /\ pending \in Seq(PendingUpdate) /\ PendingOK
  BY Zenon DEF Safe, Base, TypeOK, ChainOK, Knowledge
<1>3. PICK head : head = Head(pending) /\ head = pending[1]
  BY <1>1, <1>2 DEF OrderUpdate
<1>4. 1 \in DOMAIN pending
  BY <1>1, <1>2 DEF OrderUpdate
<1>5. head.update = Delta[r] /\ Original[r].mode = "normal" /\ ReviewedBy(r, Len(chain))
  BY <1>2, <1>3, <1>4 DEF PendingOK
<1>6. head.by \in Operation /\ r \in Request
  <2>1. head \in PendingUpdate
    BY <1>2, <1>3, <1>4
  <2>2. head.by \in Operation
    BY <2>1 DEF PendingUpdate
  <2>. QED  BY <1>3, <2>2, OperationPair
<1>7. /\ Delta[r].version = Original[r].version
      /\ Delta[r].consenters = Desired[r]
  BY <1>6 DEF Delta, Original, Desired
<1>8. /\ head.update.version = Tip.version
      /\ chain' = Append(chain, ConfigBlock(Installed(Tip, head.update)))
  BY <1>1, <1>3 DEF OrderUpdate
<1>9. PICK h \in DOMAIN chain : chain[h].config = Original[r]
  BY <1>5 DEF ReviewedBy
<1>10. Tip.consenters = Original[r].consenters /\ Tip.mode = Original[r].mode
  <2>1. Len(chain) \in DOMAIN chain /\ chain[h].config.version = chain[Len(chain)].config.version
    BY <1>2, <1>5, <1>7, <1>8, <1>9 DEF Tip
  <2>. QED  BY <1>2, <1>9, <2>1 DEF WellFormed, Tip
<1>11. Tip'.consenters = Desired[r]
  <2>1. Tip \in RaftConfig
    <3>1. chain[Len(chain)] \in Block
      BY <1>2
    <3>. QED  BY <3>1 DEF Tip, Block
  <2>2. Installed(Tip, head.update).consenters = head.update.consenters
    BY <2>1 DEF Installed, RaftConfig
  <2>3. Tip' = Installed(Tip, head.update)
    <3>. DEFINE b == ConfigBlock(Installed(Tip, head.update))
    <3>1. b.config = Installed(Tip, head.update)
      BY DEF ConfigBlock
    <3>2. chain' = Append(chain, b)
      BY <1>8
    <3>. HIDE DEF b
    <3>3. chain'[Len(chain')] = b
      BY <1>2, <3>2
    <3>. QED  BY <3>1, <3>3 DEF Tip
  <2>. QED  BY <1>5, <1>7, <2>2, <2>3
<1>. QED  BY <1>5, <1>10, <1>11, ZenonT(20)

\* An update of this operator that is ordered turns exactly the reviewed list
\* into exactly the desired one, however many administrators, requests and
\* retries there are (raftSubmissionScript: the bytes sent are the reviewed
\* ones, and their read set carries the reviewed version).
THEOREM OnlyReviewedIsOrdered == Spec => OrdersOnlyReviewedChange
<1>1. Safe /\ Safe' /\ [Next]_vars =>
          [ (chain' # chain /\ pending' # pending) =>
                LET r == Head(pending).by[1]
                IN  /\ Tip.consenters = Original[r].consenters
                    /\ Tip.mode = "normal"
                    /\ Tip'.consenters = Desired[r] ]_vars
  BY OrderedIsReviewed
<1>. QED  BY <1>1, Safety, PTL DEF Spec, OrdersOnlyReviewedChange

LEMMA SentWhenCaughtUp ==
    ASSUME Safe, [Next]_vars, Len(pending') > Len(pending),
           NEW r, r = pending'[Len(pending')].by[1],
           NEW i \in DOMAIN Nodes[r]
    PROVE  \E h \in 1 .. height[Nodes[r][i]] : chain[h].config = Original[r]
<1>1. pending \in Seq(PendingUpdate) /\ Base
  BY DEF Safe, Base, TypeOK
<1>2. PICK k \in Operation : /\ submission[k].pc = "submit"
                             /\ pending' = Append(pending, [update |-> Sent(k), by |-> k])
  <2>1. pending # <<>> => Len(Tail(pending)) = Len(pending) - 1
    BY <1>1
  <2>2. Len(pending) \in Nat
    BY <1>1
  <2>3. PICK q, s : q = pending /\ s = pending' /\ Len(s) > Len(q) /\ Len(q) \in Nat
                    /\ (q # <<>> => Len(Tail(q)) = Len(q) - 1)
    BY <2>1, <2>2, Zenon
  <2>4. s # q /\ ~(q # <<>> /\ s = Tail(q))
    BY <2>3
  <2>. QED  BY <1>1, <2>3, <2>4, PendingMoves, Zenon
<1>3. r = k[1]
  <2>. DEFINE p == [update |-> Sent(k), by |-> k]
  <2>1. p.by = k
    OBVIOUS
  <2>. HIDE DEF p
  <2>2. pending'[Len(pending')] = p
    BY <1>1, <1>2 DEF p
  <2>. QED  BY <2>1, <2>2
<1>4. WellPlaced(r) /\ ReviewedBy(r, submission[k].reference) /\ CaughtUp(k, Len(Nodes[r]) + 1)
  BY <1>2, <1>3, ZenonT(30) DEF Safe, Base, Placement, Knowledge, Preflight
<1>5. Nodes[r][i] \in Orderer /\ Nodes[r] \in Seq(RaftConsenter)
  BY <1>4, NodePlaced, ZenonT(30)
<1>6. height[Nodes[r][i]] \in Nat /\ submission[k].reference \in Nat
  BY <1>1, <1>5, ZenonT(30) DEF Base, TypeOK, SubmissionJob
<1>7. height[Nodes[r][i]] >= submission[k].reference
  BY <1>3, <1>4, <1>5 DEF CaughtUp
<1>8. PICK g \in 1 .. submission[k].reference : chain[g].config = Original[r]
  BY <1>4 DEF ReviewedBy
<1>9. PICK h, m : h = height[Nodes[r][i]] /\ m = submission[k].reference
  OBVIOUS
<1>10. h \in Nat /\ m \in Nat /\ h >= m /\ g \in 1 .. m
  BY <1>6, <1>7, <1>9
<1>11. g \in 1 .. h
  BY <1>10
<1>. QED  BY <1>8, <1>9, <1>11, Zenon

\* When an update is sent, every node it concerns has replicated the reviewed
\* config (check_nodes before in raftSubmissionScript).
THEOREM OnlyCaughtUpIsSubmitted == Spec => SubmitsOnlyCaughtUp
<1>1. Safe /\ [Next]_vars =>
          [ Len(pending') > Len(pending) =>
                LET r == pending'[Len(pending')].by[1]
                IN  \A i \in DOMAIN Nodes[r] : \E h \in 1 .. height[Nodes[r][i]] :
                        chain[h].config = Original[r] ]_vars
  BY SentWhenCaughtUp
<1>. QED  BY <1>1, Safety, PTL DEF Spec, SubmitsOnlyCaughtUp

LEMMA InitRefines == Init => Evidence!Init
BY DEF Init, Evidence!Init, NoReceipt

LEMMA StepRefines == Safe /\ Safe' /\ [Next]_vars => [Evidence!Next]_(Evidence!vars)
<1>. SUFFICES ASSUME Safe, Safe', [Next]_vars PROVE [Evidence!Next]_(Evidence!vars)
  OBVIOUS
<1>. DEFINE announced == [k \in Operation |-> receipt[k].block]
<1>1. /\ Base /\ chain \in Seq(Block) /\ height \in [Orderer -> Nat]
      /\ receipt \in [Operation -> [outcome : Outcomes, block : Nat]]
  BY DEF Safe, Base, TypeOK
<1>2. ASSUME NEW b, chain' = Append(chain, b), UNCHANGED <<height, receipt>>
      PROVE  Evidence!Extend
  BY <1>1, <1>2 DEF Evidence!Extend
<1>3. ASSUME NEW o \in Orderer, Replicate(o) PROVE Evidence!Replicate
  BY <1>1, <1>3, ZenonT(30) DEF Replicate, submissionVars, Evidence!Replicate
<1>4. ASSUME UNCHANGED <<chain, height>>, NEW k \in Operation, receipt'[k] # receipt[k]
      PROVE  Evidence!Announce
  <2>1. PublishReceipt(k)
    BY <1>1, <1>4, ReceiptMoves
  <2>2. submission[k].pc = "publish" /\ submission[k] \in SubmissionJob
    BY <2>1 DEF PublishReceipt, Safe, Base, TypeOK
  <2>3. PICK h : h = submission[k].reference
    OBVIOUS
  <2>4. EarnedAt(k, h)
    BY <2>2, <2>3, ZenonT(30) DEF Safe, Knowledge, Postflight
  <2>5. h \in DOMAIN chain /\ Evidence!Earned(k, h)
    BY <2>4, ZenonT(30) DEF EarnedAt, ChangeAt, Evidence!Earned, Evidence!Carries
  <2>6. announced' = [announced EXCEPT ![k] = h]
    BY <1>1, <2>1, <2>3, Zenon DEF PublishReceipt
  <2>. QED  BY <1>4, <2>5, <2>6, Zenon DEF Evidence!Announce
<1>5. ASSUME UNCHANGED <<chain, height>>, \A k \in Operation : receipt'[k] = receipt[k]
      PROVE  UNCHANGED Evidence!vars
  BY <1>5 DEF Evidence!vars
<1>. QED  BY <1>2, <1>3, <1>4, <1>5, ChainMoves DEF Evidence!Next

\* RaftUpdate implements ConsenterChange: every receipt is published for a
\* block that carries the change and that the desired consenters have then.
THEOREM ImplementsConsenterChange == Spec => AnnouncesOnlyEarned
<1>1. Init => Evidence!Init
  BY InitRefines
<1>2. Safe /\ Safe' /\ [Next]_vars => [Evidence!Next]_(Evidence!vars)
  BY StepRefines
<1>. QED  BY <1>1, <1>2, Safety, PTL DEF Spec, AnnouncesOnlyEarned, Evidence!Spec
=============================================================================
