----------------------------- MODULE RaftUpdate -----------------------------
(***************************************************************************)
(* A reviewed Raft consenter change, from the request in                   *)
(* spec.channels[].raftUpdate to its receipt: reconcileRaftUpdate and      *)
(* reconcileRaftSubmission, the staging Job and the submission Job they    *)
(* create, and the ordering service those Jobs talk to.                    *)
(*                                                                         *)
(* The ordering service is modelled from how the scripts use it.  Of a     *)
(* block h, chain[h] keeps the channel config in force and the number of   *)
(* the block that installed it; an orderer has replicated the first        *)
(* height[o] blocks (0: it has not joined the channel) and answers from    *)
(* them, so what a Job fetches may be older than the tip.                  *)
(*                                                                         *)
(* Jobs, input ConfigMaps and result ConfigMaps are named by a digest of   *)
(* the request (and, for a submission, of the signed bytes), so they are   *)
(* functions of the request and the envelope here.                         *)
(***************************************************************************)
EXTENDS RaftPlan

CONSTANTS
    Orderer,        \* consenter entries of the orderers there are
    Request,        \* raftUpdate requests a user may declare
    plan,           \* the content of a request's planRef
    source,         \* the orderer a request names to fetch from
    Envelope,       \* envelopes a user may store behind signedUpdateRef
    update,         \* the config update an envelope carries
    signatures,     \* whether its signatures are "none", "some" or "enough"
    Operation,      \* which envelopes a user may attach to which request
    NoRequest, NoEnvelope,
    History,        \* the blocks of the channel when the story begins
    Replicated,     \* how many of them each orderer has
    Withdrawable,   \* whether the user may withdraw a request
    OtherLists,     \* consenter lists other administrators may install
    OtherModes,     \* states of ConsensusType they may install
    OtherRests,     \* contents they may install elsewhere in the config
    Renewable,      \* orderers whose TLS certificate may be renewed meanwhile
    MaxHeight,      \* bound on the blocks of the channel that are not the operator's
    MaxPending,     \* bound on the updates accepted and not yet ordered
    MaxEdits,       \* bound on the edits of the request by the user
    MaxFailures     \* bound on the pods that are lost, evicted or cut off

RaftConfig == [sequence : Nat, version : Nat, mode : {"normal", "maintenance"},
               consenters : Seq(RaftConsenter), rest : {"reviewed", "other"}]

ConfigUpdate == [version : Nat, consenters : Seq(RaftConsenter)]

ASSUME RequestConstants ==
    /\ NoRequest \notin Request
    /\ \A r \in Request : /\ plan[r].originalConfig \in RaftConfig
                          /\ plan[r].updatedConfig \in RaftConfig
                          /\ plan[r].configSequence \in Nat
    /\ NoEnvelope \notin Envelope
    /\ \A e \in Envelope : update[e] \in ConfigUpdate
    /\ Operation \subseteq Request \X Envelope

Block == [config : RaftConfig, lastConfig : Nat]

\* What every channel has: lastConfig points at the block that installed the
\* config, and a change of ConsensusType raises its version.
WellFormed(blocks) ==
    /\ \A h \in DOMAIN blocks :
           /\ blocks[h].lastConfig \in 1 .. h
           /\ blocks[blocks[h].lastConfig].config = blocks[h].config
    /\ \A g, h \in DOMAIN blocks :
           /\ g <= h => blocks[g].config.version <= blocks[h].config.version
           /\ blocks[g].config.version = blocks[h].config.version =>
                  /\ blocks[g].config.consenters = blocks[h].config.consenters
                  /\ blocks[g].config.mode = blocks[h].config.mode

ASSUME ChannelConstants ==
    /\ History \in Seq(Block) /\ Len(History) > 0 /\ WellFormed(History)
    /\ Replicated \in [Orderer -> 0 .. Len(History)]
    /\ OtherLists \subseteq Seq(RaftConsenter)
    /\ OtherModes \subseteq {"normal", "maintenance"}
    /\ OtherRests \subseteq {"reviewed", "other"}

\* compute_update of the plan's two configs: the version of ConsensusType it
\* was read at, and the consenters it writes.
Delta == [r \in Request |-> [version    |-> plan[r].originalConfig.version,
                              consenters |-> plan[r].updatedConfig.consenters]]

Original == [r \in Request |-> plan[r].originalConfig]
Desired  == [r \in Request |-> plan[r].updatedConfig.consenters]

\* validateChannelRaftUpdate and ValidateRaftPlan find nothing wrong.
ValidRequest == {r \in Request : source[r] \in Orderer /\ ValidateRaftPlan(plan[r])}

VARIABLES
    spec,           \* the request and the signed envelope it refers to
    pass,           \* where the controller is in reconcileRaftUpdate, and for what
    status,         \* .status.channelStatus[].raftUpdate
    stagingJob,     \* staging Jobs, by request
    stagingResult,  \* their result ConfigMaps
    submission,     \* submission Jobs, by request and envelope
    receipt,        \* their result ConfigMaps
    managed,        \* orderers whose TLS Secret still holds their consenter certificate
    chain, height, pending,   \* the ordering service
    edits,          \* edits of the request so far
    failures        \* pods lost so far

controllerVars == <<spec, edits, pass, status>>
stagingVars    == <<stagingJob, stagingResult>>
submissionVars == <<submission, receipt>>
ordererVars    == <<chain, height, pending>>
vars == <<controllerVars, stagingVars, submissionVars, ordererVars, managed, failures>>

Tip == chain[Len(chain)].config
View(o) == chain[height[o]].config

NoJob == [pc |-> "absent", outcome |-> "none", reference |-> 0, at |-> 1]
NoReceipt == [outcome |-> "none", block |-> 0]
NoStatus == [request |-> NoRequest, phase |-> "none", ready |-> FALSE]
Idle == [pc |-> "idle", request |-> NoRequest, envelope |-> NoEnvelope]

Init ==
    /\ spec = [request |-> NoRequest, envelope |-> NoEnvelope]
    /\ pass = Idle
    /\ status = NoStatus
    /\ stagingJob = [r \in Request |-> "absent"]
    /\ stagingResult = [r \in Request |-> "none"]
    /\ submission = [k \in Operation |-> NoJob]
    /\ receipt = [k \in Operation |-> NoReceipt]
    /\ managed = Orderer
    /\ chain = History
    /\ height = Replicated
    /\ pending = <<>>
    /\ edits = 0
    /\ failures = 0

-----------------------------------------------------------------------------
(* The user edits the FabricNetwork and deletes Jobs. *)

SetRequest(r) ==
    /\ spec.request # r
    /\ edits < MaxEdits
    /\ edits' = edits + 1
    /\ spec' = [request |-> r, envelope |-> NoEnvelope]
    /\ UNCHANGED <<pass, status, stagingVars, submissionVars, ordererVars, managed, failures>>

\* An envelope is written after the request has been staged for signatures.
SetSignedUpdateRef(e) ==
    /\ spec.request \in Request
    /\ <<spec.request, e>> \in Operation
    /\ stagingResult[spec.request] = "staged"
    /\ spec.envelope # e
    /\ edits < MaxEdits
    /\ edits' = edits + 1
    /\ spec' = [spec EXCEPT !.envelope = e]
    /\ UNCHANGED <<pass, status, stagingVars, submissionVars, ordererVars, managed, failures>>

Done == {"succeeded", "failed"}

\* A failed Job is deleted to retry the same operation; a succeeded one is
\* removed by cleanupSucceededJobs once its TTL has passed.
DeleteStagingJob(r) ==
    /\ stagingJob[r] \in Done
    /\ stagingJob' = [stagingJob EXCEPT ![r] = "absent"]
    /\ UNCHANGED <<controllerVars, stagingResult, submissionVars, ordererVars, managed, failures>>

DeleteSubmissionJob(k) ==
    /\ submission[k].pc \in Done
    /\ submission' = [submission EXCEPT ![k] = NoJob]
    /\ UNCHANGED <<controllerVars, stagingVars, receipt, ordererVars, managed, failures>>

\* The certificate lifecycle renews an orderer's TLS certificate.
RenewCertificate(o) ==
    /\ o \in managed \cap Renewable
    /\ managed' = managed \ {o}
    /\ UNCHANGED <<controllerVars, stagingVars, submissionVars, ordererVars, failures>>

-----------------------------------------------------------------------------
(* The controller.  A pass reads the result ConfigMap first and the Job    *)
(* afterwards; Jobs go on running in between.                              *)

Report_networkPhase(r, phase, ready) ==
    status' = [request |-> r, phase |-> IF ready THEN "Ready" ELSE phase, ready |-> ready]

Report(r, phase, ready) ==
    status' = [request |-> r, phase |-> phase, ready |-> ready]

\* raftSubmissionNodes returns no error: every current and desired consenter
\* is managed with the certificate of the config, and the source stays.
Submittable(r) ==
    /\ {Original[r].consenters[i] : i \in DOMAIN Original[r].consenters} \subseteq managed
    /\ {Desired[r][i] : i \in DOMAIN Desired[r]} \subseteq managed
    /\ \E i \in DOMAIN Original[r].consenters : Original[r].consenters[i] = source[r]
    /\ \E i \in DOMAIN Desired[r] : Desired[r][i] = source[r]

ReadReceipt_onlyApplied(r, e) ==
    \/ /\ receipt[<<r, e>>] # NoReceipt
       /\ Report(r, IF receipt[<<r, e>>].outcome = "submitted" THEN "Submitted" ELSE "AlreadyApplied",
                 receipt[<<r, e>>].outcome = "alreadyApplied")
       /\ UNCHANGED pass
    \/ /\ receipt[<<r, e>>] = NoReceipt
       /\ pass' = [pc |-> "submitting", request |-> r, envelope |-> e]
       /\ UNCHANGED status

ReadReceipt_anyOperation(r, e) ==
    \/ /\ \E k \in Operation : receipt[k] # NoReceipt
       /\ Report(r, "Submitted", TRUE)
       /\ UNCHANGED pass
    \/ /\ \A k \in Operation : receipt[k] = NoReceipt
       /\ pass' = [pc |-> "submitting", request |-> r, envelope |-> e]
       /\ UNCHANGED status

\* The signed envelope of a staged request has been read: report its receipt,
\* or go on to the submission Job.
ReadReceipt(r, e) ==
    \/ /\ receipt[<<r, e>>].outcome = "submitted"
       /\ Report(r, "Submitted", TRUE)
       /\ UNCHANGED pass
    \/ /\ receipt[<<r, e>>].outcome = "alreadyApplied"
       /\ Report(r, "AlreadyApplied", TRUE)
       /\ UNCHANGED pass
    \/ /\ receipt[<<r, e>>] = NoReceipt
       /\ ~Submittable(r)
       /\ Report(r, "Failed", FALSE)
       /\ UNCHANGED pass
    \/ /\ receipt[<<r, e>>] = NoReceipt
       /\ Submittable(r)
       /\ pass' = [pc |-> "submitting", request |-> r, envelope |-> e]
       /\ UNCHANGED status

\* reconcileRaftUpdate up to the point where it knows whether a Job is needed
StartPass ==
    /\ pass.pc = "idle"
    /\ LET r == spec.request
           e == spec.envelope
       IN  \/ /\ r = NoRequest
              /\ status' = NoStatus
              /\ UNCHANGED pass
           \/ /\ r # NoRequest
              /\ r \notin ValidRequest
              /\ Report(r, "Failed", FALSE)
              /\ UNCHANGED pass
           \/ /\ r # NoRequest
              /\ r \in ValidRequest
              /\ \/ /\ stagingResult[r] = "none"
                    /\ pass' = [pc |-> "staging", request |-> r, envelope |-> e]
                    /\ UNCHANGED status
                 \/ /\ stagingResult[r] = "alreadyApplied"
                    /\ Report(r, "AlreadyApplied", TRUE)
                    /\ UNCHANGED pass
                 \/ /\ stagingResult[r] = "staged"
                    /\ e = NoEnvelope
                    /\ Report(r, "PendingSignatures", FALSE)
                    /\ UNCHANGED pass
                 \/ /\ stagingResult[r] = "staged"
                    /\ e # NoEnvelope
                    /\ ReadReceipt(r, e)
    /\ UNCHANGED <<spec, edits, stagingVars, submissionVars, ordererVars, managed, failures>>

\* A ConfigMap or Secret that planRef or signedUpdateRef names is missing, or
\* misses its key, when the pass reads it.
AwaitArtifact ==
    /\ pass.pc = "idle"
    /\ spec.request # NoRequest
    /\ \/ Report(spec.request, "Pending", FALSE)
       \/ /\ spec.request \in ValidRequest
          /\ stagingResult[spec.request] = "staged"
          /\ spec.envelope # NoEnvelope
          /\ Report(spec.request, "PendingSignatures", FALSE)
    /\ UNCHANGED <<spec, edits, pass, stagingVars, submissionVars, ordererVars, managed, failures>>

\* The input snapshot and the Job are created unless the Job exists; then the
\* Job is read.  A Job that is over is reported as Failed, because the result
\* was not there when this pass looked for it.
EnsureStagingJob ==
    /\ pass.pc = "staging"
    /\ LET r == pass.request
       IN  /\ stagingJob' = [stagingJob EXCEPT ![r] = IF @ = "absent" THEN "staging" ELSE @]
           /\ Report(r, IF stagingJob[r] \in Done THEN "Failed" ELSE "Pending", FALSE)
    /\ pass' = Idle
    /\ UNCHANGED <<spec, edits, stagingResult, submissionVars, ordererVars, managed, failures>>

EnsureSubmissionJob ==
    /\ pass.pc = "submitting"
    /\ LET k == <<pass.request, pass.envelope>>
       IN  /\ submission' = [submission EXCEPT ![k] =
                                IF @.pc = "absent" THEN [NoJob EXCEPT !.pc = "verify"] ELSE @]
           /\ Report(k[1], IF submission[k].pc \in Done THEN "Failed" ELSE "PendingSignatures", FALSE)
    /\ pass' = Idle
    /\ UNCHANGED <<spec, edits, stagingVars, receipt, ordererVars, managed, failures>>

\* The manager process dies and starts again: an unfinished pass is forgotten.
ControllerRestart ==
    /\ pass # Idle
    /\ failures < MaxFailures
    /\ failures' = failures + 1
    /\ pass' = Idle
    /\ UNCHANGED <<spec, edits, status, stagingVars, submissionVars, ordererVars, managed>>

-----------------------------------------------------------------------------
(* The staging Job: one pod, never retried. *)

\* peer channel fetch config from orderer o succeeds and returns c
Fetches(o, c) == height[o] > 0 /\ View(o) = c

StagingGoes(r, pc) == stagingJob' = [stagingJob EXCEPT ![r] = pc]

\* raftStagingScript: the live config must be the reviewed one, in full.
StageUpdate(r) ==
    /\ stagingJob[r] = "staging"
    /\ StagingGoes(r, IF Fetches(source[r], Original[r]) THEN "publish" ELSE "failed")
    /\ UNCHANGED <<controllerVars, stagingResult, submissionVars, ordererVars, managed, failures>>

PublishStaging(r) ==
    /\ stagingJob[r] = "publish"
    /\ stagingResult' = [stagingResult EXCEPT ![r] =
                            IF plan[r].action = "AlreadyApplied" THEN "alreadyApplied" ELSE "staged"]
    /\ StagingGoes(r, "published")
    /\ UNCHANGED <<controllerVars, submissionVars, ordererVars, managed, failures>>

FinishStaging(r) ==
    /\ stagingJob[r] = "published"
    /\ StagingGoes(r, "succeeded")
    /\ UNCHANGED <<controllerVars, stagingResult, submissionVars, ordererVars, managed, failures>>

StagingPodLost(r) ==
    /\ stagingJob[r] \in {"staging", "publish", "published"}
    /\ failures < MaxFailures
    /\ failures' = failures + 1
    /\ StagingGoes(r, "failed")
    /\ UNCHANGED <<controllerVars, stagingResult, submissionVars, ordererVars, managed>>

-----------------------------------------------------------------------------
(* The submission Job (raftSubmissionScript), one action per exchange with *)
(* an orderer.                                                             *)

Becomes(k, job) == submission' = [submission EXCEPT ![k] = job]

\* The Job goes on and nothing else changes.
Continues(k, job) ==
    /\ Becomes(k, job)
    /\ UNCHANGED <<controllerVars, stagingVars, receipt, ordererVars, managed, failures>>

Failed(k) == [submission[k] EXCEPT !.pc = "failed"]

\* The signed update has signatures and is both the staged one and the one
\* computed afresh from the plan.
EnvelopeMatches(k) ==
    /\ signatures[k[2]] # "none"
    /\ update[k[2]] = Delta[k[1]]

membership_matches_wholeConfig(o, r) == height[o] > 0 /\ View(o) = plan[r].updatedConfig

\* The committed config an orderer shows is newer than the plan and has the
\* desired consenters, in order.
membership_matches(o, r) ==
    /\ height[o] > 0
    /\ View(o).mode = "normal"
    /\ View(o).consenters = Desired[r]
    /\ View(o).sequence > plan[r].configSequence

\* nodes.json: the current consenters, and the added one after them
Nodes == [r \in Request |-> IF Len(Desired[r]) > Len(Original[r].consenters)
                            THEN Desired[r] ELSE Original[r].consenters]

Among(o, consenters) == \E i \in DOMAIN consenters : consenters[i] = o

\* What the participation API of orderer o must say: active, in the given
\* role, and not behind the reference height.
NodeIsFit(o, consenter, reference) ==
    /\ height[o] > 0
    /\ height[o] >= reference
    /\ Among(o, View(o).consenters) <=> consenter

VerifyAndFetch(k) ==
    /\ submission[k].pc = "verify"
    /\ Continues(k,
           IF ~EnvelopeMatches(k) THEN Failed(k)
           ELSE IF membership_matches(source[k[1]], k[1])
           THEN [NoJob EXCEPT !.pc = "poll", !.outcome = "alreadyApplied"]
           ELSE IF Fetches(source[k[1]], Original[k[1]]) THEN [NoJob EXCEPT !.pc = "tip"]
           ELSE Failed(k))

ReadTip_noReference(k) ==
    /\ submission[k].pc = "tip"
    /\ Continues(k, [submission[k] EXCEPT !.pc = "before"])

\* peer channel fetch newest: the height of the source is the reference
ReadTip(k) ==
    /\ submission[k].pc = "tip"
    /\ Continues(k, [submission[k] EXCEPT !.pc = "before", !.reference = height[source[k[1]]]])

\* check_nodes before, one node: a current consenter or a follower to add
CheckNodeBefore(k) ==
    /\ submission[k].pc = "before"
    /\ LET job  == submission[k]
           node == Nodes[k[1]][job.at]
       IN  Continues(k,
               IF ~NodeIsFit(node, Among(node, Original[k[1]].consenters), job.reference)
               THEN Failed(k)
               ELSE IF job.at < Len(Nodes[k[1]]) THEN [job EXCEPT !.at = @ + 1]
               ELSE [job EXCEPT !.pc = "refetch", !.at = 1])

Refetch(k) ==
    /\ submission[k].pc = "refetch"
    /\ Continues(k, IF Fetches(source[k[1]], Original[k[1]])
                    THEN [submission[k] EXCEPT !.pc = "submit"]
                    ELSE Failed(k))

Sent_rebased(k) == [update[k[2]] EXCEPT !.version = View(source[k[1]]).version]

\* The bytes the Job sends are the ones that were signed.
Sent(k) == update[k[2]]

\* The source orderer checks an update against its own config and the
\* signatures against the policy.
Accepts(k) ==
    /\ signatures[k[2]] = "enough"
    /\ View(source[k[1]]).version = Sent(k).version

\* peer channel update.  An update that is accepted may be followed by an
\* error on the way back to the Job.
Submit(k) ==
    /\ submission[k].pc = "submit"
    /\ \/ /\ Accepts(k)
          /\ Len(pending) < MaxPending
          /\ pending' = Append(pending, [update |-> Sent(k), by |-> k])
          /\ \/ /\ Becomes(k, [submission[k] EXCEPT !.pc = "poll", !.outcome = "submitted"])
                /\ UNCHANGED failures
             \/ /\ failures < MaxFailures
                /\ failures' = failures + 1
                /\ Becomes(k, Failed(k))
       \/ /\ ~Accepts(k)
          /\ Becomes(k, Failed(k))
          /\ UNCHANGED <<pending, failures>>
    /\ UNCHANGED <<controllerVars, stagingVars, receipt, chain, height, managed>>

\* The loop that fetches until the membership matches
ObserveCommit(k) ==
    /\ submission[k].pc = "poll"
    /\ membership_matches(source[k[1]], k[1])
    /\ Continues(k, [submission[k] EXCEPT !.pc = "after", !.at = 1,
                                          !.reference = chain[height[source[k[1]]]].lastConfig])

FitAfter_current(k) ==
    LET node == Nodes[k[1]][submission[k].at]
    IN  Among(node, Original[k[1]].consenters) => NodeIsFit(node, TRUE, submission[k].reference)

\* check_nodes after looks at the desired consenters only.
FitAfter(k) ==
    LET node == Nodes[k[1]][submission[k].at]
    IN  Among(node, Desired[k[1]]) => NodeIsFit(node, TRUE, submission[k].reference)

\* check_nodes after, one node: a desired consenter is a consenter now and has
\* the config block.  A node that is not fit starts the sweep again.
CheckNodeAfter(k) ==
    /\ submission[k].pc = "after"
    /\ Continues(k,
           IF ~FitAfter(k) THEN [submission[k] EXCEPT !.at = 1]
           ELSE IF submission[k].at < Len(Nodes[k[1]]) THEN [submission[k] EXCEPT !.at = @ + 1]
           ELSE [submission[k] EXCEPT !.pc = "publish"])

GiveUp_onSweep(k) ==
    /\ submission[k].pc = "after"
    /\ ~FitAfter(k)
    /\ Continues(k, Failed(k))

\* Each of the two loops exits with an error after 30 tries.
GiveUp(k) ==
    /\ \/ submission[k].pc = "poll" /\ ~membership_matches(source[k[1]], k[1])
       \/ submission[k].pc = "after" /\ ~FitAfter(k)
    /\ Continues(k, Failed(k))

PublishReceipt(k) ==
    /\ submission[k].pc = "publish"
    /\ receipt' = [receipt EXCEPT ![k] = [outcome |-> submission[k].outcome,
                                           block   |-> submission[k].reference]]
    /\ Becomes(k, [submission[k] EXCEPT !.pc = "published"])
    /\ UNCHANGED <<controllerVars, stagingVars, ordererVars, managed, failures>>

FinishSubmission(k) ==
    /\ submission[k].pc = "published"
    /\ Continues(k, [submission[k] EXCEPT !.pc = "succeeded"])

\* The pod is lost, or an orderer or its health endpoint cannot be reached.
SubmissionPodLost(k) ==
    /\ submission[k].pc \notin {"absent"} \cup Done
    /\ failures < MaxFailures
    /\ failures' = failures + 1
    /\ Becomes(k, Failed(k))
    /\ UNCHANGED <<controllerVars, stagingVars, receipt, ordererVars, managed>>

-----------------------------------------------------------------------------
(* The ordering service. *)

Installed(config, delta) ==
    [config EXCEPT !.sequence = @ + 1, !.version = @ + 1, !.consenters = delta.consenters]

ConfigBlock(config) == [config |-> config, lastConfig |-> Len(chain) + 1]

\* The oldest accepted update is ordered.  It is checked again, against the
\* tip, and dropped when ConsensusType has changed since it was computed.
OrderUpdate ==
    /\ pending # <<>>
    /\ chain' = IF Head(pending).update.version = Tip.version
                THEN Append(chain, ConfigBlock(Installed(Tip, Head(pending).update)))
                ELSE chain
    /\ pending' = Tail(pending)
    /\ UNCHANGED <<controllerVars, stagingVars, submissionVars, height, managed, failures>>

\* An accepted update is lost with the leader that held it.
LoseUpdate ==
    /\ pending # <<>>
    /\ failures < MaxFailures
    /\ failures' = failures + 1
    /\ pending' = Tail(pending)
    /\ UNCHANGED <<controllerVars, stagingVars, submissionVars, chain, height, managed>>

\* Another administrator's config update is ordered: other consenters,
\* another state of ConsensusType, or a change elsewhere in the config.
OtherUpdate ==
    /\ Len(chain) < MaxHeight
    /\ \E config \in
              {[Tip EXCEPT !.version = @ + 1, !.consenters = l] : l \in OtherLists}
         \cup {[Tip EXCEPT !.version = @ + 1, !.mode = m] : m \in OtherModes}
         \cup {[Tip EXCEPT !.rest = x] : x \in OtherRests} :
           chain' = Append(chain, ConfigBlock([config EXCEPT !.sequence = @ + 1]))
    /\ UNCHANGED <<controllerVars, stagingVars, submissionVars, height, pending, managed, failures>>

\* A block of ordinary transactions
DataBlock ==
    /\ Len(chain) < MaxHeight
    /\ chain' = Append(chain, chain[Len(chain)])
    /\ UNCHANGED <<controllerVars, stagingVars, submissionVars, height, pending, managed, failures>>

\* An orderer joins with the genesis block, or replicates one more block.
Replicate(o) ==
    /\ height[o] < Len(chain)
    /\ height' = [height EXCEPT ![o] = @ + 1]
    /\ UNCHANGED <<controllerVars, stagingVars, submissionVars, chain, pending, managed, failures>>

-----------------------------------------------------------------------------

UserNext ==
    \/ \E r \in Request : SetRequest(r)
    \/ Withdrawable /\ SetRequest(NoRequest)
    \/ \E e \in Envelope : SetSignedUpdateRef(e)
    \/ \E r \in Request : DeleteStagingJob(r)
    \/ \E k \in Operation : DeleteSubmissionJob(k)
    \/ \E o \in Orderer : RenewCertificate(o)

ControllerStep == StartPass \/ EnsureStagingJob \/ EnsureSubmissionJob

StagingStep(r) == StageUpdate(r) \/ PublishStaging(r) \/ FinishStaging(r)

SubmissionStep(k) ==
    \/ VerifyAndFetch(k)
    \/ ReadTip(k)
    \/ CheckNodeBefore(k)
    \/ Refetch(k)
    \/ Submit(k)
    \/ ObserveCommit(k)
    \/ CheckNodeAfter(k)
    \/ GiveUp(k)
    \/ PublishReceipt(k)
    \/ FinishSubmission(k)

OrdererNext ==
    \/ OrderUpdate
    \/ LoseUpdate
    \/ OtherUpdate
    \/ DataBlock
    \/ \E o \in Orderer : Replicate(o)

Next ==
    \/ UserNext
    \/ ControllerStep
    \/ AwaitArtifact
    \/ ControllerRestart
    \/ \E r \in Request : StagingStep(r) \/ StagingPodLost(r)
    \/ \E k \in Operation : SubmissionStep(k) \/ SubmissionPodLost(k)
    \/ OrdererNext

Spec == Init /\ [][Next]_vars

\* The controller requeues every 10 seconds until the channel is ready, pods
\* run until their script exits, and the ordering service makes progress.
\* Giving up is strongly fair: a loop that finds its condition false again and
\* again runs out of tries.
Fairness ==
    /\ WF_vars(ControllerStep)
    /\ \A r \in Request : WF_vars(StagingStep(r))
    /\ \A k \in Operation : WF_vars(SubmissionStep(k)) /\ SF_vars(GiveUp(k))
    /\ WF_vars(OrderUpdate)
    /\ \A o \in Orderer : WF_vars(Replicate(o))

FairSpec == Spec /\ Fairness

\* An operator who deletes failed Jobs, as the documentation asks for.
AttentiveSpec ==
    /\ FairSpec
    /\ \A r \in Request : WF_vars(stagingJob[r] = "failed" /\ DeleteStagingJob(r))
    /\ \A k \in Operation : WF_vars(submission[k].pc = "failed" /\ DeleteSubmissionJob(k))

-----------------------------------------------------------------------------
(* Properties *)

JobStates == {"absent", "verify", "tip", "before", "refetch", "submit", "poll", "after",
              "publish", "published"} \cup Done
Outcomes == {"none", "submitted", "alreadyApplied"}
SubmissionJob == [pc : JobStates, outcome : Outcomes, reference : Nat, at : Nat]
PendingUpdate == [update : ConfigUpdate, by : Operation]
Phases == {"none", "Pending", "PendingSignatures", "Submitted", "AlreadyApplied", "Failed"}

\* Every part of the state has its shape; .status never carries a phase that
\* the API does not define (ChannelConfigUpdatePhase).
TypeOK ==
    /\ spec \in [request : Request \cup {NoRequest}, envelope : Envelope \cup {NoEnvelope}]
    /\ pass \in [pc : {"idle", "staging", "submitting"},
                 request : Request \cup {NoRequest}, envelope : Envelope \cup {NoEnvelope}]
    /\ status \in [request : Request \cup {NoRequest}, phase : Phases, ready : BOOLEAN]
    /\ stagingJob \in [Request -> {"absent", "staging", "publish", "published"} \cup Done]
    /\ stagingResult \in [Request -> {"none", "staged", "alreadyApplied"}]
    /\ submission \in [Operation -> SubmissionJob]
    /\ receipt \in [Operation -> [outcome : Outcomes, block : Nat]]
    /\ managed \in SUBSET Orderer
    /\ chain \in Seq(Block)
    /\ Len(chain) > 0
    /\ height \in [Orderer -> Nat]
    /\ pending \in Seq(PendingUpdate)
    /\ edits \in Nat
    /\ failures \in Nat

\* Block h carries a config newer than the one request r was planned against,
\* in the normal state, with the consenters r asks for.
ChangeAt(r, h) ==
    /\ h \in DOMAIN chain
    /\ chain[h].config.mode = "normal"
    /\ chain[h].config.consenters = Desired[r]
    /\ chain[h].config.sequence > plan[r].configSequence

\* Evidence is published only for a change that is committed, and only when
\* every desired consenter has the block that carries it: acceptance by the
\* orderer, a lost Job or a change of somebody else never earns a receipt
\* (raftSubmissionScript, from the poll loop to the receipt).
ReceiptIsEarned ==
    \A k \in Operation : receipt[k] # NoReceipt =>
        /\ ChangeAt(k[1], receipt[k].block)
        /\ \A i \in DOMAIN Desired[k[1]] : height[Desired[k[1]][i]] >= receipt[k].block

\* Seen through its receipts the operator is an implementation of
\* ConsenterChange: a receipt is published for a block that carries the change
\* and that the desired consenters have at that moment, and the channel only
\* ever grows (raftSubmissionScript and publishRaftStagingScript).
Evidence == INSTANCE ConsenterChange WITH
    Operation <- Operation,
    wanted    <- [k \in Operation |-> Desired[k[1]]],
    since     <- [k \in Operation |-> plan[k[1]].configSequence],
    Start     <- History,
    Joined    <- Replicated,
    announced <- [k \in Operation |-> receipt[k].block]

\* RaftUpdate implements ConsenterChange.
AnnouncesOnlyEarned == Evidence!Spec

\* The controller reports a request ready only if the channel has had the
\* consenters it asks for at the reviewed sequence or later, whatever the
\* user has changed and whatever has failed meanwhile (reconcileRaftUpdate,
\* reconcileRaftSubmission).
ReadyIsEarned ==
    status.ready =>
        /\ status.request \in Request
        /\ \E h \in DOMAIN chain :
               /\ chain[h].config.consenters = Desired[status.request]
               /\ chain[h].config.sequence >= plan[status.request].configSequence

\* An update of this operator that is ordered turns exactly the reviewed
\* consenter list into exactly the desired one, although other administrators
\* and a second request change the channel concurrently, and although the
\* config was compared two exchanges before the update was sent.
OrdersOnlyReviewedChange ==
    [][ (chain' # chain /\ pending' # pending) =>
            LET r == Head(pending).by[1]
            IN  /\ Tip.consenters = Original[r].consenters
                /\ Tip.mode = "normal"
                /\ Tip'.consenters = Desired[r] ]_vars

\* When an update is sent, every node it concerns, the follower to be added
\* included, has replicated the reviewed config (check_nodes before).
SubmitsOnlyCaughtUp ==
    [][ Len(pending') > Len(pending) =>
            LET r == pending'[Len(pending')].by[1]
            IN  \A i \in DOMAIN Nodes[r] : \E h \in 1 .. height[Nodes[r][i]] :
                    chain[h].config = Original[r] ]_vars

\* Every submission Job ends, even when its update is never ordered (the two
\* loops of raftSubmissionScript give up after 30 tries).
SubmissionEnds ==
    \A k \in Operation : submission[k].pc = "verify" ~> submission[k].pc \in {"absent"} \cup Done

\* Once there is a receipt the controller reports it, also after a pass that
\* looked for it too early and reported the finished Job as Failed.
ReceiptIsReported ==
    \A k \in Operation :
        LET Declared == spec = [request |-> k[1], envelope |-> k[2]]
        IN  (Declared /\ receipt[k] # NoReceipt)
                ~> (~Declared \/ (status.ready /\ status.request = k[1]))

\* A change that has been committed is reported in the end, although the Job
\* that sent it was lost before it saw the commit: the operator deletes the
\* failed Job, and the new one finds the desired consenters in the channel.
CommittedIsReported ==
    \A k \in Operation :
        LET Stands == /\ spec = [request |-> k[1], envelope |-> k[2]]
                      /\ Tip = Installed(Original[k[1]], Delta[k[1]])
                      /\ stagingResult[k[1]] = "staged"
                      /\ Submittable(k[1])
                      /\ EnvelopeMatches(k)
        IN  Stands ~> (~Stands \/ (status.ready /\ status.request = k[1]))
=============================================================================
