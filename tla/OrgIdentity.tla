----------------------------- MODULE OrgIdentity -----------------------------
(***************************************************************************)
(* Identities and workloads of one organization: reconcileOrg keeps the    *)
(* credentials, runs the Fabric CA, rotates its bootstrap registrar on     *)
(* request, enrolls the administrator and every orderer and peer, renews   *)
(* certificates that come due, and keeps a Deployment per workload that is *)
(* rolled whenever the identity material it mounts has changed.            *)
(* Enrollment, renewal and rotation are Jobs that talk to the CA with the  *)
(* active bootstrap credential; they publish an MSP and a TLS Secret, one  *)
(* after the other, while the controller goes on with its passes.          *)
(***************************************************************************)
EXTENDS Jobs, FiniteSets

CONSTANTS
    Admin,            \* the organization's administrator
    Orderer, Peer,    \* orderers and peers that may be declared
    Request,          \* request IDs of registrar rotations
    Initial           \* scenarios: declaration and bounds on what may still happen

VARIABLES
    spec,             \* [workloads, couchDB, request, cleanup]: the declaration
    active,           \* the <org>-ca-bootstrap Secret: credential and request annotation
    previous, staged, \* the Secrets of a rotation
    ca,               \* the CA Deployment: "none", "down" or "up"
    registered,       \* the CA's database: the credentials it accepts
    issued,           \* certificates the CA issued to an identity
    material,         \* the MSP and TLS Secret of every identity
    deployment,       \* per workload: the Pod template, and what the Pod in place runs with
    database,         \* the CouchDB Deployment of a peer: "none", "down" or "up"
    job, pass, status,
    left              \* edits, faults and expiries that may still happen

secrets == <<active, previous, staged>>
authority == <<ca, registered, issued>>
workloads == <<deployment, database>>
vars == <<spec, secrets, authority, material, workloads, job, pass, status, left>>
-----------------------------------------------------------------------------
Workload == Orderer \cup Peer
Identity == {Admin} \cup Workload
identities(s) == {Admin} \cup s.workloads

\* The Secrets of an identity, in a network that uses TLS (global.tls).
Kind == {"msp", "tls"}

Declaration ==
    [workloads : SUBSET Workload, couchDB : BOOLEAN, request : Request \cup {None}, cleanup : BOOLEAN]

SecretRecord == [user : {"admin"} \cup Request, request : Request \cup {None}]
CertificateRecord == [serial : Nat \ {0}, validity : {"valid", "due", "expired"}, labelled : BOOLEAN]

\* A Deployment: its Pod template, whether that has rolled out, and with what its Pod runs.
TemplateRecord == [identity : [Kind -> Nat], couchDB : BOOLEAN]
DeploymentRecord == [wants : TemplateRecord, rolled : BOOLEAN, runs : TemplateRecord \cup {None}]

ASSUME NoneIsAbsent == None \notin Request \cup SecretRecord \cup CertificateRecord \cup DeploymentRecord
ASSUME InitialIsDeclared == \A i \in Initial : i.spec \in Declaration

\* A credential Secret: the user it is for (its password is random and never changes)
\* and the rotation request it is annotated with.
Credential(user, r) == [user |-> user, request |-> r]
caBootstrapSecret == Credential("admin", None)
caRegistrarStagedSecret(r) == Credential(r, r)

\* Mutant of Certificate: the Secret holds the certificate of the next enrollment.
Certificate_ahead(n, labelled) == [serial |-> n + 1, validity |-> "valid", labelled |-> labelled]

\* An identity Secret: serial number and validity of its leaf certificate, and
\* whether it carries the labels of material that came from the Fabric CA.
Certificate(n, labelled) == [serial |-> n, validity |-> "valid", labelled |-> labelled]
certificateStateNeedsRenewal(c) == c.validity \in {"due", "expired"}
fromCA(c) == c # None /\ c.labelled

fabricCAIdentityEnrolled(i) == \A k \in Kind : fromCA(material[i][k])
identityMaterialStatus(s) == \A i \in identities(s), k \in Kind : material[i][k] # None
identityMaterialRevision(w) == [k \in Kind |-> material[w][k].serial]

\* Mutant of RenewalSeed: the name of the renewal Job leaves the certificates out.
RenewalSeed_unnamed(i) ==
    {<<k, 0>> :
        k \in {k \in Kind : fromCA(material[i][k]) /\ certificateStateNeedsRenewal(material[i][k])}}

\* The leaf certificates of an identity that are due; their digest names the Job.
RenewalSeed(i) ==
    {<<k, material[i][k].serial>> :
        k \in {k \in Kind : fromCA(material[i][k]) /\ certificateStateNeedsRenewal(material[i][k])}}

\* The leaf certificates decide; the roots of the CA, which nothing renews, are left out.
certificateLifecycleReady(s) ==
    \A i \in identities(s), k \in Kind : fromCA(material[i][k]) /\ material[i][k].validity = "valid"

EnrollmentJobs(s) == {<<"enroll", i>> : i \in {i \in identities(s) : ~fabricCAIdentityEnrolled(i)}}
certificateRenewalRequests(s) ==
    {<<"renew", i, RenewalSeed(i)>> : i \in {i \in identities(s) : RenewalSeed(i) # {}}}
caRegistrarRotationJob(r) == <<"rotate", r>>

caRegistrarRotationPromoted(act, stg, r) == act.request = r /\ act.user = stg.user

Pass(stage, s, caReady, done) ==
    [at |-> stage, spec |-> s, caReady |-> caReady, done |-> done, rotation |-> "Idle",
     active |-> None, identity |-> FALSE, certificates |-> FALSE,
     todo |-> {}, on |-> None, read |-> [k \in Kind |-> 0],
     rolled |-> FALSE, changed |-> {}, ready |-> TRUE]
Idle == Pass("idle", None, FALSE, {})
NotReady == [ready |-> FALSE, rotation |-> "Idle"]

Init ==
    /\ \E i \in Initial : spec = i.spec /\ left = i.left
    /\ active = None /\ previous = None
    /\ staged = [r \in Request |-> None]
    /\ ca = "none" /\ registered = {}
    /\ issued = [i \in Identity |-> 0]
    /\ material = [i \in Identity |-> [k \in Kind |-> None]]
    /\ deployment = [w \in Workload |-> None]
    /\ database = [p \in Peer |-> "none"]
    /\ job = <<>>
    /\ pass = Idle
    /\ status = NotReady
-----------------------------------------------------------------------------
(* One pass of reconcileOrg. *)

At(stage) == pass.at = stage

\* ensureNamespace, reconcileIdentityMaterial and reconcileCA: what is missing is
\* created; enrollment credentials are generated once and stay.
StartPass ==
    /\ At("idle")
    /\ active' = IF active = None THEN caBootstrapSecret ELSE active
    /\ ca' = IF ca = "none" THEN "down" ELSE ca
    /\ pass' = Pass("rotate", spec, ca = "up", {j \in DOMAIN job : jobSucceeded(job, j)})
    /\ UNCHANGED <<spec, previous, staged, registered, issued, material, workloads, job, status, left>>

\* Mutant of caRegistrarRotationJobState: a Job that has not failed will do.
caRegistrarRotationJobState_eager(jobs, r) ==
    IF jobFailed(jobs, caRegistrarRotationJob(r)) THEN "Failed" ELSE "Ready"

caRegistrarRotationJobState(jobs, r) ==
    IF jobFailed(jobs, caRegistrarRotationJob(r)) THEN "Failed"
    ELSE IF jobSucceeded(jobs, caRegistrarRotationJob(r)) THEN "Ready" ELSE "Rotating"

Rotation(phase) == pass' = [pass EXCEPT !.rotation = phase, !.at = "enroll"]

\* reconcileCARegistrarRotation up to the promotion of the staged credential.
reconcileCARegistrarRotation ==
    LET r == pass.spec.request
        promoted == caRegistrarRotationPromoted(active, caRegistrarStagedSecret(r), r)
        jobs == ensureJob(job, caRegistrarRotationJob(r), None)
        phase == caRegistrarRotationJobState(jobs, r)
    IN  /\ At("rotate")
        /\ staged' = IF r = None THEN staged ELSE [staged EXCEPT ![r] = caRegistrarStagedSecret(r)]
        /\ \/ r = None /\ Rotation("Idle") /\ UNCHANGED job
           \/ r # None /\ promoted /\ Rotation("Ready") /\ UNCHANGED job
           \/ r # None /\ ~promoted /\ ~pass.caReady /\ Rotation("WaitingForCA") /\ UNCHANGED job
           \/ /\ r # None /\ ~promoted /\ pass.caReady
              /\ job' = jobs
              /\ \/ phase # "Ready" /\ Rotation(phase)
                 \/ phase = "Ready" /\ pass' = [pass EXCEPT !.at = "keep", !.active = active]
        /\ UNCHANGED <<spec, active, previous, authority, material, workloads, status, left>>

\* Mutant of KeepPrevious: the new credential is written before the old one is kept.
KeepPrevious_late ==
    /\ At("keep")
    /\ active' = staged[pass.spec.request]
    /\ pass' = [pass EXCEPT !.at = "promote"]
    /\ UNCHANGED <<spec, previous, staged, authority, material, workloads, job, status, left>>

\* promoteCARegistrarSecret: two Secrets are written one after the other.
KeepPrevious ==
    /\ At("keep")
    /\ previous' = pass.active
    /\ pass' = [pass EXCEPT !.at = "promote"]
    /\ UNCHANGED <<spec, active, staged, authority, material, workloads, job, status, left>>

Promote ==
    /\ At("promote")
    /\ active' = staged[pass.spec.request]
    /\ Rotation("Ready")
    /\ UNCHANGED <<spec, previous, staged, authority, material, workloads, job, status, left>>

\* Mutant of caRegistrarRotationBlocksWork: only waiting for the CA blocks.
caRegistrarRotationBlocksWork_waiting(phase) == phase = "WaitingForCA"

caRegistrarRotationBlocksWork(phase) == phase \in {"WaitingForCA", "Staging", "Rotating"}
MayEnroll == pass.caReady /\ ~caRegistrarRotationBlocksWork(pass.rotation)

\* reconcileAdminEnrollment, reconcileWorkloadEnrollments, identityMaterialStatus.
reconcileEnrollments ==
    /\ At("enroll")
    /\ job' = IF MayEnroll THEN ensureJobs(job, EnrollmentJobs(pass.spec), None) ELSE job
    /\ pass' = [pass EXCEPT !.at = "renew", !.identity = identityMaterialStatus(pass.spec)]
    /\ UNCHANGED <<spec, secrets, authority, material, workloads, status, left>>

\* A certificate whose renewal was started, failed or completed is still not Valid.
reconcileCertificateLifecycle ==
    /\ At("renew")
    /\ job' = IF pass.identity /\ MayEnroll
              THEN ensureJobs(job, certificateRenewalRequests(pass.spec), None) ELSE job
    /\ pass' = [pass EXCEPT !.certificates = certificateLifecycleReady(pass.spec),
                            !.at = IF pass.identity THEN "workloads" ELSE "status",
                            !.todo = pass.spec.workloads]
    /\ UNCHANGED <<spec, secrets, authority, material, workloads, status, left>>

peerUsesCouchDB(s, w) == w \in Peer /\ s.couchDB
Template(s, w, revision) == [identity |-> revision, couchDB |-> peerUsesCouchDB(s, w)]
Current(s, w) == Template(s, w, identityMaterialRevision(w))

\* identityMaterialRevision reads the two Secrets of a workload one after the other;
\* the orderers come before the peers.
ReadMSP(w) ==
    /\ At("workloads") /\ w \in pass.todo
    /\ w \in Peer => pass.todo \cap Orderer = {}
    /\ pass' = [pass EXCEPT !.at = "revision", !.on = w, !.todo = @ \ {w},
                            !.read["msp"] = material[w]["msp"].serial]
    /\ UNCHANGED <<spec, secrets, authority, material, workloads, job, status, left>>

ReadTLS ==
    /\ At("revision")
    /\ pass' = [pass EXCEPT !.at = "deployment", !.read["tls"] = material[pass.on]["tls"].serial]
    /\ UNCHANGED <<spec, secrets, authority, material, workloads, job, status, left>>

\* Mutant of ensureDeployment: the revision is put where it starts no rollout.
ensureDeployment_quiet(d, t) ==
    IF d = None THEN [wants |-> t, rolled |-> FALSE, runs |-> None] ELSE [d EXCEPT !.wants = t]

\* A template that changed is a new generation the Deployment has to roll out.
ensureDeployment(d, t) ==
    IF d = None THEN [wants |-> t, rolled |-> FALSE, runs |-> None]
    ELSE IF d.wants = t THEN d ELSE [d EXCEPT !.wants = t, !.rolled = FALSE]

\* The database of a peer and the Deployment of a workload are put in place.
EnsureWorkload ==
    LET w == pass.on
        d == ensureDeployment(deployment[w], Template(pass.spec, w, pass.read))
        couch == peerUsesCouchDB(pass.spec, w)
    IN  /\ At("deployment")
        /\ deployment' = [deployment EXCEPT ![w] = d]
        /\ database' = [p \in Peer |->
               IF p = w /\ couch /\ database[p] = "none" THEN "down" ELSE database[p]]
        /\ pass' = [pass EXCEPT !.at = "count",
                                !.rolled = deployment[w] # None /\ deployment[w].rolled,
                                !.changed = IF d = deployment[w] THEN @ ELSE @ \cup {w},
                                !.ready = @ /\ (couch => database[w] = "up")]
        /\ UNCHANGED <<spec, secrets, authority, material, job, status, left>>

\* deploymentWorkloadStatus reads the Deployment from the cache, which may still show
\* it as it was before this pass wrote it.
deploymentWorkloadStatus ==
    /\ At("count")
    /\ \E rolled \in {pass.rolled, deployment[pass.on].rolled} :
           pass' = [pass EXCEPT !.at = "workloads", !.on = None, !.read = Idle.read,
                                !.rolled = FALSE, !.ready = @ /\ rolled]
    /\ UNCHANGED <<spec, secrets, authority, material, workloads, job, status, left>>

\* Only peers and their databases are cleaned up when scaled down.
cleanupScaledDownPeerWorkloads ==
    LET s == pass.spec
    IN  /\ At("workloads") /\ pass.todo = {}
        /\ deployment' = [w \in Workload |-> IF w \in Peer \ s.workloads THEN None ELSE deployment[w]]
        /\ database' = [p \in Peer |-> IF p \in s.workloads /\ s.couchDB THEN database[p] ELSE "none"]
        /\ pass' = [pass EXCEPT !.at = "status"]
        /\ UNCHANGED <<spec, secrets, authority, material, job, status, left>>

\* cleanupSucceededJobs, with a TTL that is longer than a pass
ExpiredJobs(s) == {j \in DOMAIN job \cap pass.done : s.cleanup}

\* The end of Reconcile: the status of what the pass has read, and the cleanup of
\* succeeded Jobs.
FinishPass ==
    LET calm == pass.rotation \in {"Idle", "Ready"}
    IN  /\ At("status")
        /\ status' = [ready |-> pass.identity /\ pass.caReady /\ pass.certificates /\ calm /\ pass.ready,
                      rotation |-> pass.rotation]
        /\ job' = Without(job, ExpiredJobs(pass.spec))
        /\ pass' = Idle
        /\ UNCHANGED <<spec, secrets, authority, material, workloads, left>>
-----------------------------------------------------------------------------
(* The scripts of the Jobs, run by their Pods. *)

Spend(what) == left[what] > 0 /\ left' = [left EXCEPT ![what] = @ - 1]

\* A Pod starts with the credentials in its environment.
StartPod(j) ==
    /\ Running(job, j, "start")
    /\ job' = Advanced(job, j, "ca", [cred |-> active.user])
    /\ UNCHANGED <<spec, secrets, authority, material, workloads, pass, status, left>>

\* The scripts enroll the registrar, register the identity (it may already be) and
\* enroll it; they end at the first failure, which may follow the registration.
Accepted(j) == ca = "up" /\ job[j].got.cred \in registered

CAFails(j) ==
    /\ Running(job, j, "ca")
    /\ \/ ~Accepted(j) /\ UNCHANGED <<registered, left>>
       \/ Accepted(j) /\ registered' = registered \cup {j[2]} /\ Spend("faults")
    /\ job' = AfterPod(job, j)
    /\ UNCHANGED <<spec, secrets, ca, issued, material, workloads, pass, status>>

caRegistrarRotationScript(j) ==
    /\ j[1] = "rotate" /\ Running(job, j, "ca") /\ Accepted(j)
    /\ registered' = registered \cup {j[2]}
    /\ job' = Succeeded(job, j)
    /\ UNCHANGED <<spec, secrets, ca, issued, material, workloads, pass, status, left>>

enrollmentScript(j) ==
    /\ j[1] # "rotate" /\ Running(job, j, "ca") /\ Accepted(j)
    /\ registered' = registered \cup {j[2]}
    /\ issued' = [issued EXCEPT ![j[2]] = @ + 1]
    /\ job' = Advanced(job, j, "msp", [serial |-> issued'[j[2]]])
    /\ UNCHANGED <<spec, secrets, ca, material, workloads, pass, status, left>>

\* kubectl apply and kubectl label; applying leaves labels that are there.
Published(i, k, serial, labelled) ==
    material' = [material EXCEPT ![i][k] = Certificate(serial, labelled \/ fromCA(material[i][k]))]

\* The publishing container writes the MSP Secret, then the TLS Secret; the Pod can
\* be lost before the label is set or before the Job sees that it is done.
Publish(j) ==
    \E k \in Kind :
        /\ Running(job, j, k)
        /\ \/ /\ Published(j[2], k, job[j].got.serial, TRUE)
              /\ job' = IF k = "msp" THEN Advanced(job, j, "tls", job[j].got) ELSE Succeeded(job, j)
              /\ UNCHANGED left
           \/ /\ Spend("faults")
              /\ \E labelled \in BOOLEAN : Published(j[2], k, job[j].got.serial, labelled)
              /\ job' = AfterPod(job, j)
        /\ UNCHANGED <<spec, secrets, authority, workloads, pass, status>>

Step(j) ==
    StartPod(j) \/ CAFails(j) \/ caRegistrarRotationScript(j) \/ enrollmentScript(j) \/ Publish(j)

LosePod(j) ==
    /\ job[j].state = "active" /\ job[j].step # "start"
    /\ Spend("faults")
    /\ job' = AfterPod(job, j)
    /\ UNCHANGED <<spec, secrets, authority, material, workloads, pass, status>>

\* A failed Job is deleted so that it runs again: documented for renewals; for a
\* rotation the documentation asks for a new request ID instead, which is an Edit.
DeleteFailedJob(j) ==
    /\ jobFailed(job, j)
    /\ job' = Without(job, {j})
    /\ UNCHANGED <<spec, secrets, authority, material, workloads, pass, status, left>>
-----------------------------------------------------------------------------
(* The cluster, the users and time. *)

\* The first start of the CA initializes its database with the bootstrap credential.
StartCA ==
    /\ ca = "down"
    /\ ca' = "up"
    /\ registered' = IF registered = {} THEN {active.user} ELSE registered
    /\ UNCHANGED <<spec, secrets, issued, material, workloads, job, pass, status, left>>

StopCA ==
    /\ ca = "up" /\ Spend("faults")
    /\ ca' = "down"
    /\ UNCHANGED <<spec, secrets, registered, issued, material, workloads, job, pass, status>>

\* A Pod of the current template mounts the Secrets as they are when it starts.
RollOut(w) ==
    /\ deployment[w] # None /\ ~deployment[w].rolled
    /\ deployment' = [deployment EXCEPT ![w].rolled = TRUE,
           ![w].runs = [deployment[w].wants EXCEPT !.identity = identityMaterialRevision(w)]]
    /\ UNCHANGED <<spec, secrets, authority, material, database, job, pass, status, left>>

StartDatabase(p) ==
    /\ database[p] = "down"
    /\ database' = [database EXCEPT ![p] = "up"]
    /\ UNCHANGED <<spec, secrets, authority, material, deployment, job, pass, status, left>>

\* A certificate enters the renewal window, or expires.
Expire(i, k) ==
    /\ material[i][k] # None /\ material[i][k].validity # "expired"
    /\ Spend("expiries")
    /\ material' = [material EXCEPT ![i][k].validity = IF @ = "valid" THEN "due" ELSE "expired"]
    /\ UNCHANGED <<spec, secrets, authority, workloads, job, pass, status>>

\* The process dies, or a call to the API server fails and the pass reports it.
Interrupt ==
    /\ pass.at # "idle" /\ Spend("faults")
    /\ pass' = Idle
    /\ status' \in {status, NotReady}
    /\ UNCHANGED <<spec, secrets, authority, material, workloads, job>>

Edit ==
    /\ Spend("edits")
    /\ \/ \E r \in Request : spec' = [spec EXCEPT !.request = r]
       \/ \E ws \in SUBSET (spec.workloads \cap Peer) : spec' = [spec EXCEPT !.workloads = @ \ ws]
       \/ spec' = [spec EXCEPT !.couchDB = ~@]
    /\ spec' # spec
    /\ UNCHANGED <<secrets, authority, material, workloads, job, pass, status>>

Controller ==
    \/ StartPass \/ reconcileCARegistrarRotation \/ KeepPrevious \/ Promote
    \/ reconcileEnrollments \/ reconcileCertificateLifecycle
    \/ (\E w \in Workload : ReadMSP(w)) \/ ReadTLS \/ EnsureWorkload \/ deploymentWorkloadStatus
    \/ cleanupScaledDownPeerWorkloads \/ FinishPass

Next ==
    \/ Controller
    \/ \E j \in DOMAIN job : Step(j) \/ LosePod(j) \/ DeleteFailedJob(j)
    \/ StartCA \/ StopCA
    \/ \E w \in Workload : RollOut(w)
    \/ \E p \in Peer : StartDatabase(p)
    \/ \E i \in Identity, k \in Kind : Expire(i, k)
    \/ Interrupt \/ Edit

Spec == Init /\ [][Next]_vars

JobsOf(x) == \E j \in DOMAIN job : j[2] = x /\ (Step(j) \/ DeleteFailedJob(j))

\* The controller is requeued after every pass that is not Ready and resynchronized
\* later; Pods, Deployments and the CA make progress; failed Jobs are deleted.
FairSpec ==
    /\ Spec
    /\ WF_vars(Controller) /\ WF_vars(StartCA)
    /\ \A x \in Identity \cup Request : WF_vars(JobsOf(x))
    /\ \A w \in Workload : WF_vars(RollOut(w))
    /\ \A p \in Peer : WF_vars(StartDatabase(p))
-----------------------------------------------------------------------------
Secret(c) == c = None \/ c \in SecretRecord

\* Types of the state (Secrets, Deployments and pass of the controller).
TypeOK ==
    /\ Secret(active) /\ Secret(previous) /\ \A r \in Request : Secret(staged[r])
    /\ ca \in {"none", "down", "up"}
    /\ registered \subseteq {"admin"} \cup Request \cup Identity
    /\ material \in [Identity -> [Kind -> CertificateRecord \cup {None}]]
    /\ \A i \in Identity, k \in Kind : material[i][k] # None => material[i][k].serial <= issued[i]
    /\ database \in [Peer -> {"none", "down", "up"}]
    /\ status.ready \in BOOLEAN

\* The CA accepts the credential in the active bootstrap Secret, the one kept as
\* previous, and the one every running Pod was started with, however a rotation,
\* a crash between its two writes and Jobs in flight interleave
\* (promoteCARegistrarSecret; Pods read the Secret when they start).
CredentialsAreAccepted ==
    registered # {} =>
        /\ active.user \in registered
        /\ previous # None => previous.user \in registered
        /\ \A j \in DOMAIN job : job[j].step = "ca" => job[j].got.cred \in registered

\* When a rotation replaces the active bootstrap credential, the replaced one is in
\* the previous Secret, also when the controller stops between the two writes and
\* promotes again (promoteCARegistrarSecret).
PromotionKeepsPrevious ==
    [][active # None /\ active' # active => previous' = active]_vars

\* No enrollment or renewal Job is started for an organization while the Job of the
\* rotation the pass was asked for runs, or has succeeded and is not promoted yet
\* (caRegistrarRotationBlocksWork).
RotationHoldsWork ==
    [][\A j \in DOMAIN job' \ DOMAIN job :
          LET rotate == caRegistrarRotationJob(pass.spec.request)
          IN  j[1] # "rotate" /\ rotate \in DOMAIN job =>
                  jobFailed(job, rotate) \/ active.request = pass.spec.request]_vars

\* When a pass reports Ready, has found the Deployment of a workload as it should be,
\* and no Job has published anything else for that workload since, then its Pod runs
\* with the identity material in the Secrets, both halves of it, although Jobs write
\* the two Secrets one by one, the pass reads them one by one, and Pods mount what
\* they find (setDeploymentIdentityRevision, deploymentWorkloadStatus).
ReadyRunsCurrent ==
    [][FinishPass /\ status'.ready =>
          \A w \in pass.spec.workloads \ pass.changed :
              deployment[w].wants = Current(pass.spec, w) => deployment[w].runs = Current(pass.spec, w)]_vars

Settled ==
    /\ status.ready
    /\ spec.request # None => active.request = spec.request
    /\ \A i \in identities(spec), k \in Kind :
           fromCA(material[i][k]) /\ ~certificateStateNeedsRenewal(material[i][k])
    /\ \A w \in spec.workloads : deployment[w].runs = Current(spec, w)
    /\ \A p \in Peer \ spec.workloads : deployment[p] = None

\* Once edits, faults and expiries stop, the organization settles: the last rotation
\* requested is promoted, every declared identity is enrolled and its due certificates
\* are renewed, also after a Job published only the MSP half, the workloads run with
\* the renewed material, peers no longer declared are gone, and the status is Ready.
OrgCompletes == <>[]Settled
=============================================================================
