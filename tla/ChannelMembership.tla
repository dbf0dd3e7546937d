------------------------- MODULE ChannelMembership -------------------------
(***************************************************************************)
(* Membership of external organizations in a channel: an entry of          *)
(* externalOrgs declares that an organization managed elsewhere is to be   *)
(* Present or Absent.  reconcileExternalOrgUpdates visits the entries in   *)
(* their order; a Job computes the config update and sends it, or stages   *)
(* it for the administrators to sign.  What they signed is submitted by a  *)
(* second Job, named after the bytes it submits.  The outcome of a         *)
(* transition is kept as evidence under a name made of the organization,   *)
(* the desired state and the operation ID.                                 *)
(***************************************************************************)
EXTENDS Jobs, FiniteSets, Sequences

CONSTANTS
    Externals,        \* the external organizations, in the order of the entries
    App,              \* Application org definitions; each stands for its anchor peers
    Initial,          \* scenarios: entries, channel policy, bounds on edits, faults and others
    MaxOp             \* bound: largest operation ID; 0 stands for an ID that is left out

VARIABLES
    spec,             \* the entry of every external organization, None without one
    artifact,         \* what applicationOrgRef points at
    signed,           \* what signedUpdateRef points at
    application,      \* the application-org ConfigMap, one per organization
    evidence,         \* the result ConfigMaps that exist, by the name of their Job
    job,
    member,           \* the Application group: definition of each member, None for the rest
    version,          \* version of the Application group
    pending,          \* config updates the orderer accepted and has not ordered
    policy,           \* whose signatures the channel wants: "admin" or "many"
    pass, status,
    since,            \* what happened since the current transition was declared
    left              \* edits, faults and changes by others that may still happen

declared == <<spec, artifact, signed>>
channel == <<member, version, pending, policy>>
controller == <<application, pass, status>>
vars == <<declared, evidence, job, channel, controller, since, left>>
-----------------------------------------------------------------------------
External == {Externals[i] : i \in DOMAIN Externals}
Declared(s) == {m \in External : s[m] # None}
State == {"Present", "Absent"}
Op == 0..MaxOp

\* An entry: anchor peers are compared when they are declared.
Entry == [state : State, op : Op, manual : BOOLEAN, ref : BOOLEAN, anchors : App \cup {None}]

\* A config update and the envelope that carries it: app is the new definition of the
\* organization (None removes it), base the version of the Application group it was computed from.
UpdateRecord == [msp : External, app : App \cup {None}, base : Nat]
EnvelopeRecord == [update : UpdateRecord, signatures : {"none", "few", "enough"}]

ASSUME NoneIsAbsent == None \notin App \cup Entry \cup EnvelopeRecord
ASSUME BoundsAreNatural == MaxOp \in Nat /\ BackoffLimit \in Nat
ASSUME InitialIsDeclared ==
    \A i \in Initial : /\ i.spec \in [External -> Entry \cup {None}]
                       /\ i.app \in App /\ i.policy \in {"admin", "many"}

Membership(m) == IF member[m] = None THEN "Absent" ELSE "Present"

channelExternalOrgUpdateJobName(m, e) == <<"update", m, e.state, e.op>>
SubmitJob(base, staged, raw) == <<"submit", base[2], base, staged, raw>>

Update(m, app) == [msp |-> m, app |-> app, base |-> version]
Unsigned(update) == [update |-> update, signatures |-> "none"]

\* What write_external_org_result records; a Job publishes it with the envelope, if any.
Result(e, outcome, anchors, envelope) ==
    [state |-> e.state, op |-> e.op, outcome |-> outcome, anchors |-> anchors, envelope |-> envelope]

Idle == [at |-> "idle", spec |-> None, out |-> <<>>]
Nothing == [seen |-> {}, accepted |-> FALSE]

Init ==
    /\ \E i \in Initial : /\ spec = i.spec
                         /\ artifact = [m \in External |-> i.app]
                         /\ policy = i.policy
                         /\ left = i.left
    /\ signed = [m \in External |-> None]
    /\ application = [m \in External |-> None]
    /\ evidence = <<>>
    /\ job = <<>>
    /\ member = [m \in External |-> None]
    /\ version = 0
    /\ pending = {}
    /\ pass = Idle
    /\ status = <<>>
    /\ since = [m \in External |-> [Nothing EXCEPT !.seen = {"Absent"}]]
-----------------------------------------------------------------------------
(* The users: founder, participants and the other administrators. *)

IsReady(m) == m \in DOMAIN status /\ status[m].ready /\ status[m].entry = spec[m]
Spend(what) == left[what] > 0 /\ left' = [left EXCEPT ![what] = @ - 1]

Redeclare(m, e) ==
    /\ spec' = [spec EXCEPT ![m] = e]
    /\ since' = [since EXCEPT ![m] = [Nothing EXCEPT !.seen = {Membership(m)}]]
    /\ UNCHANGED <<artifact, signed, evidence, job, channel, controller>>

Opposite(s) == IF s = "Present" THEN "Absent" ELSE "Present"

\* The first removal may leave the operation ID out; everything later has a
\* new one.  Where signatures are collected, the user waits for the status.
EditEntry(m) ==
    LET e == spec[m]
    IN  /\ Spend("edits")
        /\ e.manual => IsReady(m)
        /\ \E op \in {e.op + 1} \cup (IF e.op = 0 /\ e.state = "Present" THEN {0} ELSE {}) :
              /\ op \in Op
              /\ Redeclare(m, [e EXCEPT !.state = Opposite(e.state), !.op = op, !.anchors = None])

\* The participant publishes another definition of its organization.
ReplaceArtifact(m) ==
    /\ Spend("others")
    /\ \E app \in App \ {artifact[m]} : artifact' = [artifact EXCEPT ![m] = app]
    /\ UNCHANGED <<spec, signed, evidence, job, channel, controller, since>>

Staged(m) ==
    LET k == channelExternalOrgUpdateJobName(m, spec[m])
    IN  k \in DOMAIN evidence /\ evidence[k].outcome = "staged"
StagedUpdate(m) == evidence[channelExternalOrgUpdateJobName(m, spec[m])].envelope.update

\* The administrators sign what is staged; too few of them is a fault.
Sign(m) ==
    /\ Staged(m)
    /\ signed' = [signed EXCEPT ![m] = [update |-> StagedUpdate(m), signatures |-> "enough"]]
    /\ spec' = [spec EXCEPT ![m].ref = TRUE]
    /\ UNCHANGED <<artifact, evidence, job, channel, controller, since, left>>

SignByFew(m) ==
    /\ Spend("faults")
    /\ Staged(m)
    /\ \E n \in {"none", "few"} :
          signed' = [signed EXCEPT ![m] = [update |-> StagedUpdate(m), signatures |-> n]]
    /\ spec' = [spec EXCEPT ![m].ref = TRUE]
    /\ UNCHANGED <<artifact, evidence, job, channel, controller, since>>

\* A staged update that another change made stale: a new operation.
Regenerate(m) ==
    /\ Staged(m) /\ ~IsReady(m)
    /\ StagedUpdate(m).base # version
    /\ spec[m].op + 1 \in Op
    /\ Redeclare(m, [spec[m] EXCEPT !.op = @ + 1])
    /\ UNCHANGED left

DeleteFailedJob(j) ==
    /\ jobFailed(job, j)
    /\ job' = Without(job, {j})
    /\ UNCHANGED <<declared, evidence, channel, controller, since, left>>
-----------------------------------------------------------------------------
(* The controller. *)

StartPass ==
    /\ pass.at = "idle"
    /\ pass' = [Idle EXCEPT !.at = "entries", !.spec = spec]
    /\ UNCHANGED <<declared, evidence, job, channel, application, status, since, left>>

\* Mutant of externalOrgUpdateEvidence: names and evidence leave the operation ID out.
externalOrgUpdateEvidence_anyOp(m, e) ==
    LET ks == {k \in DOMAIN evidence : k[1] = "update" /\ k[2] = m /\ k[3] = e.state}
    IN  IF ks = {} THEN None ELSE [evidence[CHOOSE k \in ks : TRUE] EXCEPT !.op = e.op]

externalOrgUpdateEvidenceNamed(k) == IF k \in DOMAIN evidence THEN evidence[k] ELSE None
externalOrgUpdateEvidence(m, e) ==
    externalOrgUpdateEvidenceNamed(channelExternalOrgUpdateJobName(m, e))

EvidenceMatches(e, ev) ==
    /\ ev.state = e.state /\ ev.op = e.op
    /\ e.state = "Present" /\ e.anchors # None => ev.anchors = e.anchors

\* The definition must be the one whose anchor peers are declared.
externalOrgApplicationOrgJSON(m, e) ==
    e.state = "Present" /\ e.anchors # None => artifact[m] = e.anchors

ensureExternalOrgUpdateInputs(m, e) ==
    [application EXCEPT ![m] = IF e.state = "Present" THEN artifact[m] ELSE @]

externalOrgUpdateReadiness(j, submit) ==
    IF jobFailed(job, j) THEN "Failed" ELSE IF submit THEN "Pending" ELSE "Staged"

\* The declared entries that the pass has not visited yet
Entries == Declared(pass.spec) \ DOMAIN pass.out
Out(e, phase) == [entry |-> e, phase |-> phase, ready |-> phase \in {"Submitted", "AlreadyApplied"}]

\* An entry has been visited; after the last one the status is written and
\* succeeded Jobs are cleaned up.
Visited(m, s, jobs) ==
    LET out == [n \in DOMAIN pass.out \cup {m} |-> IF n = m THEN s ELSE pass.out[n]]
    IN  IF Entries # {m}
        THEN pass' = [pass EXCEPT !.out = out] /\ job' = jobs /\ UNCHANGED status
        ELSE /\ pass' = Idle
             /\ status' = out
             /\ job' = Without(jobs, {j \in DOMAIN jobs : jobSucceeded(jobs, j)})

\* The submission Job of what was signed for a staged update, and its receipt.
reconcileSignedChannelUpdate(m, e, ev) ==
    LET j == SubmitJob(channelExternalOrgUpdateJobName(m, e), ev.envelope, signed[m])
        receipt == externalOrgUpdateEvidenceNamed(j)
        phase == IF receipt # None /\ EvidenceMatches(e, receipt) THEN "Submitted"
                 ELSE IF jobFailed(job, j) THEN "Failed" ELSE "PendingSignatures"
    IN  IF signed[m] = None \/ ev.envelope = None THEN Visited(m, Out(e, "PendingSignatures"), job)
        ELSE Visited(m, Out(e, phase),
                     IF receipt # None THEN job ELSE ensureJob(job, j, [entry |-> e, result |-> ev]))

reconcileExternalOrgUpdate(m, e) ==
    LET ev == externalOrgUpdateEvidence(m, e)
        j == channelExternalOrgUpdateJobName(m, e)
    IN  IF ev # None
        THEN /\ UNCHANGED application
             /\ IF ~EvidenceMatches(e, ev) THEN Visited(m, Out(e, "Pending"), job)
                ELSE IF ev.outcome = "alreadyApplied" THEN Visited(m, Out(e, "AlreadyApplied"), job)
                ELSE IF ev.outcome = "submitted" THEN Visited(m, Out(e, "Submitted"), job)
                ELSE IF e.ref THEN reconcileSignedChannelUpdate(m, e, ev)
                ELSE Visited(m, Out(e, "PendingSignatures"), job)
        ELSE IF ~externalOrgApplicationOrgJSON(m, e)
        THEN Visited(m, Out(e, "Pending"), job) /\ UNCHANGED application
        ELSE /\ application' = ensureExternalOrgUpdateInputs(m, e)
             /\ Visited(m, Out(e, externalOrgUpdateReadiness(j, ~e.manual)),
                        ensureJob(job, j, [entry |-> e, submit |-> ~e.manual]))

VisitEntry ==
    /\ pass.at = "entries"
    /\ \E i \in DOMAIN Externals :
          /\ Externals[i] \in Entries /\ \A h \in 1..(i - 1) : Externals[h] \notin Entries
          /\ reconcileExternalOrgUpdate(Externals[i], pass.spec[Externals[i]])
    /\ UNCHANGED <<declared, evidence, channel, since, left>>

-----------------------------------------------------------------------------
(* The channel.  An update is made against a version of the Application     *)
(* group; the orderer checks it when it arrives and again when it orders it. *)

Accepts(envelope) ==
    /\ envelope.update.base = version
    /\ policy = "many" => envelope.signatures = "enough"

Order(u) ==
    /\ u \in pending
    /\ pending' = pending \ {u}
    /\ IF u.base = version
       THEN /\ member' = [member EXCEPT ![u.msp] = u.app]
            /\ version' = version + 1
            /\ since' = [since EXCEPT ![u.msp].seen = @ \cup {IF u.app = None THEN "Absent" ELSE "Present"}]
       ELSE UNCHANGED <<member, version, since>>
    /\ UNCHANGED <<declared, evidence, job, policy, controller, left>>

Lose(u) ==
    /\ Spend("faults")
    /\ u \in pending
    /\ pending' = pending \ {u}
    /\ UNCHANGED <<declared, evidence, job, member, version, policy, controller, since>>

\* A local organization is admitted, or an administrator changes the group.
OtherChange ==
    /\ Spend("others")
    /\ version' = version + 1
    /\ UNCHANGED <<declared, evidence, job, member, pending, policy, controller, since>>
-----------------------------------------------------------------------------
(* The Jobs. *)

\* The update of a transition: the definition is the one mounted in the Pod.
Transition(j) ==
    IF job[j].arg.entry.state = "Present" THEN Update(j[2], application[j[2]]) ELSE Update(j[2], None)
MountedAnchors(j) == IF job[j].arg.entry.state = "Present" THEN application[j[2]] ELSE None

\* Mutant of addExternalOrgScript: the update is computed whatever the channel
\* says; without a difference there is none and the script fails.
addExternalOrgScript_always(j) ==
    /\ Running(job, j, "start")
    /\ job' = IF member[j[2]] = Transition(j).app THEN AfterPod(job, j)
              ELSE Advanced(job, j, IF job[j].arg.submit THEN "submit" ELSE "publish",
                       Result(job[j].arg.entry, IF job[j].arg.submit THEN "submitted" ELSE "staged",
                              MountedAnchors(j), Unsigned(Transition(j))))

\* Fetch the config; nothing to do, or an update to submit or to stage.
addExternalOrgScript(j) ==
    LET arg == job[j].arg
        R(outcome, envelope) == Result(arg.entry, outcome, MountedAnchors(j), envelope)
    IN  /\ Running(job, j, "start")
        /\ job' = IF Membership(j[2]) = arg.entry.state
                  THEN Advanced(job, j, "publish", R("alreadyApplied", None))
                  ELSE IF arg.submit THEN Advanced(job, j, "submit", R("submitted", Unsigned(Transition(j))))
                  ELSE Advanced(job, j, "publish", R("staged", Unsigned(Transition(j))))

Broadcast(u, entry) ==
    /\ pending' = pending \cup {u}
    /\ since' = [since EXCEPT ![u.msp].accepted =
                    @ \/ (spec[u.msp].state = entry.state /\ spec[u.msp].op = entry.op)]

\* peer channel update: the orderer has accepted the update, or the Pod gives up.
SubmitUpdate(j) ==
    /\ Running(job, j, "submit")
    /\ IF Accepts(job[j].got.envelope)
       THEN /\ Broadcast(job[j].got.envelope.update, job[j].arg.entry)
            /\ job' = Advanced(job, j, "publish", job[j].got)
       ELSE job' = AfterPod(job, j) /\ UNCHANGED <<pending, since>>

UpdateJob(j) ==
    /\ j[1] = "update"
    /\ \/ addExternalOrgScript(j) /\ UNCHANGED <<pending, since>>
       \/ SubmitUpdate(j)
    /\ UNCHANGED <<declared, evidence, member, version, policy, controller, left>>

\* The signed envelope must hold the staged update and signatures.
SameAndSigned(staged, raw) == raw.update = staged.update /\ raw.signatures # "none"

\* Mutant of SignedEnvelope: the update is computed again for the channel as it is now.
SignedEnvelope_rebased(j) == [j[5] EXCEPT !.update.base = version]
SignedEnvelope(j) == j[5]

\* Check, fetch the config, submit, and wait until the membership is there; a
\* Pod that waited in vain fails.
signedChannelUpdateScript(j) ==
    LET arg == job[j].arg
        raw == SignedEnvelope(j)
        R(outcome) == [arg.result EXCEPT !.outcome = outcome, !.envelope = raw]
        matches == Membership(j[2]) = arg.entry.state
    IN  \/ /\ Running(job, j, "start")
           /\ IF ~SameAndSigned(j[4], j[5]) THEN job' = AfterPod(job, j) /\ UNCHANGED <<pending, since>>
              ELSE IF matches THEN job' = Advanced(job, j, "publish", R("alreadyApplied")) /\ UNCHANGED <<pending, since>>
              ELSE IF Accepts(raw)
              THEN Broadcast(raw.update, arg.entry) /\ job' = Advanced(job, j, "await", R("submitted"))
              ELSE job' = AfterPod(job, j) /\ UNCHANGED <<pending, since>>
        \/ /\ Running(job, j, "await")
           /\ matches \/ raw.update \notin pending
           /\ job' = IF matches THEN Advanced(job, j, "publish", job[j].got) ELSE AfterPod(job, j)
           /\ UNCHANGED <<pending, since>>

SubmissionJob(j) ==
    /\ j[1] = "submit"
    /\ signedChannelUpdateScript(j)
    /\ UNCHANGED <<declared, evidence, member, version, policy, controller, left>>

\* The publishing container replaces the result ConfigMap, and the Pod ends,
\* or is lost before the Job has noted it.
publishExternalOrgUpdateResultScript(j) ==
    /\ Running(job, j, "publish")
    /\ evidence' = [k \in DOMAIN evidence \cup {j} |-> IF k = j THEN job[j].got ELSE evidence[k]]
    /\ \/ job' = Succeeded(job, j) /\ UNCHANGED left
       \/ job' = AfterPod(job, j) /\ Spend("faults")
    /\ UNCHANGED <<declared, channel, controller, since>>

\* A Pod is lost at any point, or waits too long for the orderer.
LosePod(j) ==
    /\ Spend("faults")
    /\ j \in DOMAIN job /\ job[j].state = "active"
    /\ job' = AfterPod(job, j)
    /\ UNCHANGED <<declared, evidence, channel, controller, since>>
-----------------------------------------------------------------------------
Step(j) == UpdateJob(j) \/ SubmissionJob(j) \/ publishExternalOrgUpdateResultScript(j)

Next ==
    \/ StartPass \/ VisitEntry
    \/ \E j \in DOMAIN job : Step(j) \/ LosePod(j) \/ DeleteFailedJob(j)
    \/ \E u \in pending : Order(u) \/ Lose(u)
    \/ \E m \in Declared(spec) : \/ EditEntry(m) \/ ReplaceArtifact(m)
                                \/ Sign(m) \/ SignByFew(m) \/ Regenerate(m)
    \/ OtherChange

Spec == Init /\ [][Next]_vars

\* The controller requeues, Pods run, the orderer orders, administrators sign
\* what is staged, and users replace failed Jobs and stale proposals.
FairSpec ==
    /\ Spec
    /\ WF_vars(StartPass) /\ WF_vars(VisitEntry)
    /\ WF_vars(\E u \in pending : Order(u))
    /\ \A m \in External :
          /\ WF_vars(m \in Declared(spec) /\ Sign(m)) /\ WF_vars(m \in Declared(spec) /\ Regenerate(m))
          /\ \A kind \in {"update", "submit"} :
                WF_vars(\E j \in DOMAIN job : j[1] = kind /\ j[2] = m /\ (Step(j) \/ DeleteFailedJob(j)))
-----------------------------------------------------------------------------
Updates == [msp : External, app : App \cup {None}, base : 0..version]
Envelopes == [update : Updates, signatures : {"none", "few", "enough"}]
Results == [state : State, op : Op, outcome : {"alreadyApplied", "submitted", "staged"},
            anchors : App \cup {None}, envelope : Envelopes \cup {None}]

\* Every part of the state has its shape: declarations, ConfigMaps, Jobs with no more
\* Pods than their backoffLimit allows, and the channel.
TypeOK ==
    /\ spec \in [External -> Entry \cup {None}]
    /\ artifact \in [External -> App]
    /\ signed \in [External -> Envelopes \cup {None}]
    /\ application \in [External -> App \cup {None}]
    /\ \A k \in DOMAIN evidence : k[1] \in {"update", "submit"} /\ evidence[k] \in Results
    /\ \A j \in DOMAIN job : /\ job[j].state \in {"active", "succeeded", "failed"}
                             /\ job[j].step \in {"start", "submit", "await", "publish"}
                             /\ job[j].tries \in 0..BackoffLimit
                             /\ job[j].got \in Results \cup {None}
    /\ member \in [External -> App \cup {None}]
    /\ pending \subseteq Updates
    /\ policy \in {"admin", "many"}
    /\ DOMAIN status \subseteq External
    /\ \A m \in DOMAIN status : status[m] \in [entry : Entry, ready : BOOLEAN,
          phase : {"Pending", "Staged", "PendingSignatures", "Submitted", "AlreadyApplied", "Failed"}]
    /\ since \in [External -> [seen : SUBSET State, accepted : BOOLEAN]]

\* An entry that status calls ready was carried out: since the transition was
\* declared, the channel has had the declared membership, or (where no other
\* signatures are needed) the orderer accepted an update towards it.  Evidence
\* of an earlier transition in the same direction never counts (operationID).
ReadyIsEarned ==
    \A m \in Declared(spec) : IsReady(m) =>
        spec[m].state \in since[m].seen \/ (~spec[m].manual /\ since[m].accepted)

\* Where signatures are collected and users wait for the status before they
\* declare the next transition, ready means that the channel has the declared
\* membership now: no Pod of an earlier transition, restarted late, undoes it.
ReadyIsCurrent ==
    \A m \in Declared(spec) : IsReady(m) /\ spec[m].manual => Membership(m) = spec[m].state

\* Once the entries rest, every entry becomes ready, whatever signatures
\* were missing, updates lost or stale and Jobs deleted on the way.
MembershipCompletes ==
    (<>[][UNCHANGED <<spec, artifact>>]_vars /\ <>[](\A m \in Declared(spec) : externalOrgApplicationOrgJSON(m, spec[m])))
    => <>(\A m \in Declared(spec) : IsReady(m))
=============================================================================
