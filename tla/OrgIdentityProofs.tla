------------------------- MODULE OrgIdentityProofs -------------------------
(***************************************************************************)
(* The safety of OrgIdentity for any identities, rotation requests and     *)
(* declarations, and however many edits, faults and expiries there are.    *)
(***************************************************************************)
EXTENDS OrgIdentity, TLAPS

\* How long the provers may take over a step, in seconds.
USE SMTT(20), ZenonT(20)

User == {"admin"} \cup Request
Got == {None} \cup [cred : User] \cup [serial : Nat]
JobRecord ==
    [state : {"active", "succeeded", "failed"}, step : {"start", "ca", "msp", "tls"},
     tries : Nat, arg : {None}, got : Got]
PassRecord(done) ==
    [at : {"idle", "rotate", "keep", "promote", "enroll", "renew",
           "workloads", "revision", "deployment", "count", "status"},
     spec : Declaration \cup {None}, caReady : BOOLEAN, done : {done},
     rotation : {"Idle", "Ready", "Failed", "WaitingForCA", "Rotating"},
     active : SecretRecord \cup {None}, identity : BOOLEAN, certificates : BOOLEAN,
     todo : SUBSET Workload, on : Workload \cup {None}, read : [Kind -> Nat],
     rolled : BOOLEAN, changed : SUBSET Workload, ready : BOOLEAN]

JobName(j) ==
    \/ j[1] = "rotate" /\ j[2] \in Request
    \/ j[1] \in {"enroll", "renew"} /\ j[2] \in Identity

\* What every variable holds; a pass that runs has read a declaration and found or
\* made the bootstrap Secret, as has whatever comes after it.
Shape ==
    /\ spec \in Declaration
    /\ active \in SecretRecord \cup {None} /\ previous \in SecretRecord \cup {None}
    /\ staged \in [Request -> SecretRecord \cup {None}]
    /\ ca \in {"none", "down", "up"}
    /\ registered \subseteq {"admin"} \cup Request \cup Identity
    /\ issued \in [Identity -> Nat]
    /\ material \in [Identity -> [Kind -> CertificateRecord \cup {None}]]
    /\ deployment \in [Workload -> DeploymentRecord \cup {None}]
    /\ database \in [Peer -> {"none", "down", "up"}]
    /\ job \in [DOMAIN job -> JobRecord]
    /\ \A j \in DOMAIN job : JobName(j)
    /\ pass \in PassRecord(pass.done)
    /\ status.ready \in BOOLEAN
    /\ pass.at # "idle" => pass.spec \in Declaration
    /\ pass.at # "idle" \/ ca # "none" \/ registered # {} \/ DOMAIN job # {} => active \in SecretRecord

\* The credential a Pod of Job j was started with.
PodCredential(j) == job[j].got.cred

\* The database of the CA is empty, and only the first credential is around, or it
\* has every credential that is in use or about to be promoted.
Registrar ==
    /\ registered = {} =>
           /\ active \in {None, caBootstrapSecret}
           /\ \A j \in DOMAIN job : job[j].step = "ca" => PodCredential(j) = "admin"
    /\ registered # {} =>
           /\ active.user \in registered
           /\ \A j \in DOMAIN job : job[j].step = "ca" => PodCredential(j) \in registered
    /\ \A j \in DOMAIN job : job[j].step = "ca" => job[j].got \in [cred : User]
    /\ previous # None => previous \in SecretRecord /\ previous.user \in registered
    /\ \A j \in DOMAIN job : j[1] = "rotate" /\ job[j].state = "succeeded" => j[2] \in registered
    /\ pass.at \in {"keep", "promote"} =>
           /\ pass.spec.request \in Request \cap registered
           /\ staged[pass.spec.request] = caRegistrarStagedSecret(pass.spec.request)
           /\ pass.active = active
    /\ pass.at = "promote" => previous = active

\* What the phase a pass found says of the rotation while it creates Jobs.
Phase ==
    pass.at \in {"enroll", "renew"} =>
        LET rotate == caRegistrarRotationJob(pass.spec.request)
        IN  /\ pass.rotation = "Idle" => pass.spec.request = None
            /\ pass.rotation = "Ready" => active.request = pass.spec.request
            /\ pass.rotation = "Failed" /\ rotate \in DOMAIN job => jobFailed(job, rotate)

\* Job j still has to write the Secret of kind k.
WillPublish(j, k) == job[j].step = "msp" \/ (job[j].step = "tls" /\ k = "tls")
Holds(j) == job[j].step \in {"msp", "tls"}

\* A serial number is written to a Secret at most once, by the Job that got it, so
\* what a Deployment was templated with never comes back after it was replaced.
Serials ==
    /\ \A j \in DOMAIN job : Holds(j) =>
           /\ j[1] # "rotate" /\ job[j].got \in [serial : Nat]
           /\ job[j].got.serial # 0 /\ job[j].got.serial <= issued[j[2]]
    /\ \A j, n \in DOMAIN job : Holds(j) /\ Holds(n) /\ j # n /\ j[2] = n[2] =>
           job[j].got.serial # job[n].got.serial
    /\ \A i \in Identity, k \in Kind : material[i][k] # None =>
           /\ material[i][k].serial <= issued[i]
           /\ \A j \in DOMAIN job : j[2] = i /\ WillPublish(j, k) => job[j].got.serial # material[i][k].serial
    /\ pass.identity => \A i \in identities(pass.spec), k \in Kind : material[i][k] \in CertificateRecord

Mounted ==
    \A w \in Workload, k \in Kind : deployment[w] # None =>
        /\ material[w][k] \in CertificateRecord
        /\ deployment[w].wants.identity[k] <= issued[w]
        /\ \A j \in DOMAIN job : j[2] = w /\ WillPublish(j, k) =>
               job[j].got.serial # deployment[w].wants.identity[k]
        /\ deployment[w].rolled =>
               /\ deployment[w].runs \in TemplateRecord
               /\ deployment[w].runs.couchDB = deployment[w].wants.couchDB
               /\ \/ deployment[w].runs.identity[k] = deployment[w].wants.identity[k]
                  \/ material[w][k].serial # deployment[w].wants.identity[k]

\* The pass puts workloads in place; it has one of them at hand.
Working == pass.at \in {"workloads", "revision", "deployment", "count"}
AtHand == pass.at \in {"revision", "deployment", "count"}
HasRead(k) == pass.at = "deployment" \/ (pass.at = "revision" /\ k = "msp")

\* A pass that puts workloads in place has seen all material, and what it has read of a
\* workload's Secrets will not be written to them again.
Reading ==
    /\ Working => pass.identity /\ pass.todo \subseteq pass.spec.workloads
    /\ AtHand => pass.on \in pass.spec.workloads
    /\ \A k \in Kind : HasRead(k) =>
           /\ pass.read[k] <= issued[pass.on]
           /\ \A j \in DOMAIN job : j[2] = pass.on /\ WillPublish(j, k) => job[j].got.serial # pass.read[k]

IInv == Shape /\ Registrar /\ Phase /\ Serials /\ Mounted /\ Reading

-----------------------------------------------------------------------------
(* The operations on Jobs. *)

LEMMA NewJobIsActive ==
    /\ NewJob(None) \in JobRecord
    /\ NewJob(None).state = "active" /\ NewJob(None).step = "start"
BY DEF NewJob, JobRecord, Got

LEMMA EnsuredJobs ==
    ASSUME NEW f, f \in [DOMAIN f -> JobRecord], NEW names
    PROVE  LET e == ensureJobs(f, names, None)
           IN  /\ e \in [DOMAIN e -> JobRecord] /\ DOMAIN e = DOMAIN f \cup names
               /\ \A n \in DOMAIN f : e[n] = f[n]
               /\ \A n \in DOMAIN e \ DOMAIN f : e[n] = NewJob(None)
BY NewJobIsActive, Zenon DEF ensureJobs

LEMMA KeptJobs ==
    ASSUME NEW f, f \in [DOMAIN f -> JobRecord], NEW deleted
    PROVE  LET e == Without(f, deleted)
           IN  /\ e \in [DOMAIN e -> JobRecord] /\ DOMAIN e \subseteq DOMAIN f
               /\ \A n \in DOMAIN e : e[n] = f[n]
BY DEF Without

\* Only Job j changes from f to e.
Touches(f, e, j) ==
    /\ e \in [DOMAIN e -> JobRecord] /\ DOMAIN e = DOMAIN f
    /\ \A n \in DOMAIN f \ {j} : e[n] = f[n]

LEMMA AdvancedJob ==
    ASSUME NEW f, f \in [DOMAIN f -> JobRecord], NEW j \in DOMAIN f,
           NEW step \in {"start", "ca", "msp", "tls"}, NEW got \in Got
    PROVE  LET e == Advanced(f, j, step, got)
           IN  /\ Touches(f, e, j)
               /\ e[j].state = f[j].state /\ e[j].step = step /\ e[j].got = got
BY ZenonT(30) DEF Advanced, Touches, JobRecord

LEMMA ChangedState ==
    ASSUME NEW f, f \in [DOMAIN f -> JobRecord], NEW j \in DOMAIN f,
           NEW state \in {"active", "succeeded", "failed"}
    PROVE  LET e == [f EXCEPT ![j].state = state]
           IN  Touches(f, e, j) /\ e[j].state = state
BY DEF Touches, JobRecord

LEMMA ChangedTries ==
    ASSUME NEW f, f \in [DOMAIN f -> JobRecord], NEW j \in DOMAIN f
    PROVE  LET e == [f EXCEPT ![j].tries = f[j].tries + 1]
           IN  Touches(f, e, j) /\ e[j].state = f[j].state
BY DEF Touches, JobRecord

LEMMA SucceededJob ==
    ASSUME NEW f, f \in [DOMAIN f -> JobRecord], NEW j \in DOMAIN f
    PROVE  LET e == Succeeded(f, j)
           IN  Touches(f, e, j) /\ e[j].state = "succeeded" /\ e[j].step = "start"
<1> DEFINE g == [f EXCEPT ![j].state = "succeeded"]
<1>1. Touches(f, g, j) /\ g[j].state = "succeeded"
  BY ChangedState, Zenon
<1>2. Succeeded(f, j) = Advanced(g, j, "start", None)
  BY DEF Succeeded, Advanced
<1> HIDE DEF g
<1>3. Touches(g, Advanced(g, j, "start", None), j)
      /\ Advanced(g, j, "start", None)[j].state = g[j].state
      /\ Advanced(g, j, "start", None)[j].step = "start"
  BY <1>1, AdvancedJob DEF Touches, Got
<1>. QED  BY <1>1, <1>2, <1>3 DEF Touches

LEMMA FailedPod ==
    ASSUME NEW f, f \in [DOMAIN f -> JobRecord], NEW j \in DOMAIN f
    PROVE  LET e == AfterPod(f, j)
           IN  /\ Touches(f, e, j) /\ e[j].step = "start"
               /\ e[j].state = f[j].state \/ e[j].state = "failed"
<1>1. ASSUME NEW g, Touches(f, g, j), g[j].state \in {f[j].state, "failed"}
      PROVE  LET e == Advanced(g, j, "start", None)
             IN  Touches(f, e, j) /\ e[j].step = "start" /\ e[j].state \in {f[j].state, "failed"}
  <2>1. None \in Got
    BY DEF Got
  <2>. QED  BY <1>1, <2>1, AdvancedJob DEF Touches
<1>2. CASE f[j].tries = BackoffLimit
  <2> DEFINE g == [f EXCEPT ![j].state = "failed"]
  <2>1. AfterPod(f, j) = Advanced(g, j, "start", None)
    BY <1>2 DEF AfterPod, Advanced
  <2>2. Touches(f, g, j) /\ g[j].state \in {f[j].state, "failed"}
    BY ChangedState, Zenon
  <2> HIDE DEF g
  <2>. QED  BY <1>1, <2>1, <2>2
<1>3. CASE f[j].tries # BackoffLimit
  <2> DEFINE g == [f EXCEPT ![j].tries = f[j].tries + 1]
  <2>1. AfterPod(f, j) = Advanced(g, j, "start", None)
    BY <1>3 DEF AfterPod, Advanced
  <2>2. Touches(f, g, j) /\ g[j].state \in {f[j].state, "failed"}
    BY ChangedTries
  <2> HIDE DEF g
  <2>. QED  BY <1>1, <2>1, <2>2
<1>. QED  BY <1>2, <1>3

-----------------------------------------------------------------------------
(* What leaves a group of the invariant alone. *)

LEMMA InitIInv == Init => IInv
<1> SUFFICES ASSUME Init
             PROVE  IInv
  OBVIOUS
<1>1. Shape
  BY InitialIsDeclared DEF Init, Shape, PassRecord, Idle, Pass, NotReady
<1>2. DOMAIN job = {} /\ pass.at = "idle" /\ ~pass.identity
  BY DEF Init, Idle, Pass
<1>3. Registrar
  BY <1>2 DEF Init, Registrar
<1>4. Serials /\ Mounted
  BY <1>2 DEF Init, Serials, Mounted, Workload, Identity
<1>5. Reading
  BY <1>2 DEF Reading, Working, AtHand, HasRead
<1>. QED  BY <1>1, <1>2, <1>3, <1>4, <1>5 DEF IInv, Phase

\* Every Job is as it was, or has no certificate to publish.
Quiet ==
    \A n \in DOMAIN job' :
        \/ n \in DOMAIN job /\ job'[n] = job[n]
        \/ job'[n].step \in {"start", "ca"}

LEMMA SerialsFrame ==
    ASSUME Serials, Quiet, UNCHANGED <<material, issued>>,
           pass'.identity => pass.identity /\ pass'.spec = pass.spec
    PROVE  Serials'
BY DEF Serials, Quiet, Holds, WillPublish, identities

LEMMA MountedFrame ==
    ASSUME Mounted, Quiet, UNCHANGED <<material, issued, deployment>>
    PROVE  Mounted'
BY DEF Mounted, Quiet, Holds, WillPublish

LEMMA ReadingFrame ==
    ASSUME Reading, Quiet, UNCHANGED <<issued, pass>>
    PROVE  Reading'
BY DEF Reading, Working, AtHand, HasRead, Quiet, WillPublish

\* Before and after the workloads there is nothing read.
LEMMA NothingRead ==
    ASSUME pass'.at \in {"idle", "rotate", "keep", "promote", "enroll", "renew", "status"}
    PROVE  Reading'
BY DEF Reading, Working, AtHand, HasRead

-----------------------------------------------------------------------------
(* The steps of the controller. *)

LEMMA BootstrapSecret == caBootstrapSecret \in SecretRecord /\ caBootstrapSecret.user = "admin"
BY DEF caBootstrapSecret, Credential, SecretRecord, User

LEMMA StartPassKeeps == IInv /\ StartPass => IInv'
<1> SUFFICES ASSUME IInv, StartPass
             PROVE  IInv'
  OBVIOUS
<1> USE DEF IInv, StartPass, At
<1>1. active' \in SecretRecord
  BY BootstrapSecret DEF Shape
<1>2. /\ pass' \in PassRecord(pass'.done) /\ pass'.spec = spec /\ pass'.at = "rotate"
      /\ ~pass'.identity
  BY DEF PassRecord, Pass, Shape
<1>3. Shape'
  BY <1>1, <1>2 DEF Shape, workloads, JobName
<1>4. Registrar'
  <2>2. registered # {} => active' = active
    BY NoneIsAbsent DEF Shape
  <2>3. registered = {} => active' = caBootstrapSecret
    BY DEF Registrar
  <2>. QED  BY <1>2, <2>2, <2>3 DEF Registrar, PodCredential
<1>5. Serials' /\ Mounted'
  BY <1>2, SerialsFrame, MountedFrame DEF workloads, Quiet
<1>6. Reading'
  BY <1>2, NothingRead
<1>. QED  BY <1>2, <1>3, <1>4, <1>5, <1>6 DEF Phase

\* Jobs that are created do not disturb those that exist.
Grown(names) ==
    /\ job' \in [DOMAIN job' -> JobRecord] /\ DOMAIN job' = DOMAIN job \cup names
    /\ \A n \in DOMAIN job : job'[n] = job[n]
    /\ \A n \in DOMAIN job' \ DOMAIN job : job'[n].state = "active" /\ job'[n].step = "start"

LEMMA GrownJobs ==
    ASSUME Shape, NEW names, job' = ensureJobs(job, names, None)
    PROVE  Grown(names) /\ Quiet
<1>1. job \in [DOMAIN job -> JobRecord]
  BY DEF Shape
<1>2. /\ job' \in [DOMAIN job' -> JobRecord] /\ DOMAIN job' = DOMAIN job \cup names
      /\ \A n \in DOMAIN job : job'[n] = job[n]
      /\ \A n \in DOMAIN job' \ DOMAIN job : job'[n] = NewJob(None)
  BY <1>1, EnsuredJobs, ZenonT(30)
<1>. QED  BY <1>2, NewJobIsActive DEF Grown, Quiet

LEMMA RotationJobName ==
    ASSUME NEW r, NEW n \in {caRegistrarRotationJob(r)}, r \in Request
    PROVE  JobName(n)
BY DEF caRegistrarRotationJob, JobName

LEMMA ReconcileRotationKeeps == IInv /\ reconcileCARegistrarRotation => IInv'
<1> SUFFICES ASSUME IInv, reconcileCARegistrarRotation
             PROVE  IInv'
  OBVIOUS
<1> DEFINE r == pass.spec.request
           rotate == caRegistrarRotationJob(r)
<1>1. /\ Shape /\ pass.at = "rotate" /\ pass.spec \in Declaration /\ r \in Request \cup {None}
      /\ active \in SecretRecord
  BY DEF IInv, Shape, reconcileCARegistrarRotation, At, Declaration
<1>2. /\ UNCHANGED <<spec, active, previous, ca, registered, issued, material, deployment, database, status>>
      /\ staged' = IF r = None THEN staged ELSE [staged EXCEPT ![r] = caRegistrarStagedSecret(r)]
  BY DEF reconcileCARegistrarRotation, authority, workloads
<1>3. /\ pass' \in PassRecord(pass'.done) /\ pass'.spec = pass.spec /\ pass'.identity = pass.identity
      /\ pass'.at \in {"enroll", "keep"}
  BY <1>1, ZenonT(60) DEF reconcileCARegistrarRotation, Rotation, PassRecord, Shape, caRegistrarRotationJobState
<1>4. \/ UNCHANGED job
      \/ r \in Request /\ Grown({rotate}) /\ job' = ensureJob(job, rotate, None)
  BY <1>1, GrownJobs DEF reconcileCARegistrarRotation, ensureJob
<1>5. Quiet
  BY <1>1, <1>4, GrownJobs DEF ensureJob, Quiet
<1>6. Shape'
  <2>1. staged' \in [Request -> SecretRecord \cup {None}]
    BY <1>1, <1>2 DEF Shape, caRegistrarStagedSecret, Credential, SecretRecord
  <2>2. job' \in [DOMAIN job' -> JobRecord] /\ \A n \in DOMAIN job' : JobName(n)
    BY <1>1, <1>4, RotationJobName DEF Shape, Grown
  <2>. QED  BY <1>1, <1>2, <1>3, <2>1, <2>2 DEF Shape
<1>7. Registrar'
  <2>1. \A n \in DOMAIN job' : \/ n \in DOMAIN job /\ job'[n] = job[n]
                               \/ job'[n].step = "start" /\ job'[n].state = "active"
    BY <1>4 DEF Grown
  <2>2. CASE pass'.at = "enroll"
    BY <1>2, <2>1, <2>2 DEF IInv, Registrar, PodCredential
  <2>3. CASE pass'.at = "keep"
    <3>1. r \in Request /\ jobSucceeded(job', rotate) /\ pass'.active = active
      BY <1>1, <2>3, ZenonT(30) DEF reconcileCARegistrarRotation, Rotation, PassRecord, Shape,
                        caRegistrarRotationJobState
    <3>2. r \in registered
      BY <2>1, <3>1 DEF jobSucceeded, caRegistrarRotationJob, IInv, Registrar
    <3>3. staged'[r] = caRegistrarStagedSecret(r)
      BY <1>1, <1>2, <3>1, NoneIsAbsent DEF Shape
    <3>. QED  BY <1>2, <1>3, <2>1, <2>3, <3>1, <3>2, <3>3 DEF IInv, Registrar, PodCredential
  <2>. QED  BY <1>3, <2>2, <2>3
<1>8. Phase'
  <2>1. ASSUME pass'.at = "enroll"
        PROVE  /\ pass'.rotation = "Idle" => r = None
               /\ pass'.rotation = "Ready" => active.request = r
               /\ pass'.rotation = "Failed" => jobFailed(job', rotate)
    BY <1>1, <2>1, ZenonT(30) DEF reconcileCARegistrarRotation, Rotation, PassRecord, Shape,
                      caRegistrarRotationJobState, caRegistrarRotationPromoted
  <2>. QED  BY <1>2, <1>3, <2>1 DEF Phase
<1>9. Serials' /\ Mounted'
  BY <1>2, <1>3, <1>5, SerialsFrame, MountedFrame DEF IInv
<1>10. Reading'
  BY <1>3, NothingRead
<1>. QED  BY <1>6, <1>7, <1>8, <1>9, <1>10 DEF IInv

LEMMA PromotionKeeps == IInv /\ (KeepPrevious \/ Promote) => IInv'
<1> SUFFICES ASSUME IInv, KeepPrevious \/ Promote
             PROVE  IInv'
  OBVIOUS
<1>1. /\ UNCHANGED <<spec, staged, ca, registered, issued, material, deployment, database, job, status>>
      /\ pass.at \in {"keep", "promote"}
  BY DEF KeepPrevious, Promote, At, authority, workloads
<1>2. /\ pass' \in PassRecord(pass'.done) /\ pass'.spec = pass.spec /\ pass'.identity = pass.identity
      /\ pass'.active = pass.active /\ pass'.at \in {"promote", "enroll"}
  BY ZenonT(30) DEF KeepPrevious, Promote, Rotation, PassRecord, IInv, Shape
<1>3. /\ pass.spec.request \in Request /\ pass.spec.request \in registered
      /\ staged[pass.spec.request] = caRegistrarStagedSecret(pass.spec.request)
      /\ pass.active = active /\ active \in SecretRecord /\ active.user \in registered
  BY <1>1 DEF IInv, Shape, Registrar
<1>4. \/ active' = active /\ previous' = active /\ pass'.at = "promote"
      \/ /\ active' = caRegistrarStagedSecret(pass.spec.request) /\ previous' = previous
         /\ pass'.at = "enroll" /\ pass'.rotation = "Ready"
  BY <1>3, Zenon DEF KeepPrevious, Promote, Rotation, PassRecord, IInv, Shape
<1>5. /\ active' \in SecretRecord /\ active'.user \in registered
      /\ pass'.at = "enroll" => active'.request = pass.spec.request
  BY <1>3, <1>4 DEF caRegistrarStagedSecret, Credential, SecretRecord
<1>6. Shape'
  BY <1>1, <1>2, <1>3, <1>4, <1>5 DEF IInv, Shape
<1>7. Registrar'
  BY <1>1, <1>2, <1>3, <1>4, <1>5 DEF IInv, Registrar, PodCredential
<1>8. Phase'
  BY <1>2, <1>4, <1>5 DEF Phase
<1>9. Serials' /\ Mounted'
  BY <1>1, <1>2, SerialsFrame, MountedFrame DEF IInv, Quiet
<1>10. Reading'
  BY <1>2, NothingRead
<1>. QED  BY <1>6, <1>7, <1>8, <1>9, <1>10 DEF IInv

LEMMA CreatingKeeps ==
    ASSUME IInv, NEW names, \A n \in names : JobName(n) /\ n[1] # "rotate",
           UNCHANGED job \/ job' = ensureJobs(job, names, None),
           UNCHANGED <<spec, secrets, authority, material, workloads, status>>,
           pass.at \in {"enroll", "renew"}, pass'.at \in {"renew", "workloads", "status"},
           pass'.at = "workloads" => pass'.identity /\ pass'.todo = pass'.spec.workloads,
           pass' \in PassRecord(pass'.done), pass'.spec = pass.spec, pass'.rotation = pass.rotation,
           pass'.identity => \A i \in identities(pass.spec), k \in Kind : material[i][k] \in CertificateRecord
    PROVE  IInv'
<1>1. UNCHANGED <<spec, active, previous, staged, ca, registered, issued, material, deployment, database, status>>
  BY DEF secrets, authority, workloads
<1>2. UNCHANGED job \/ Grown(names)
  BY GrownJobs DEF IInv
<1>3. Quiet
  BY <1>2, GrownJobs DEF IInv, Quiet
<1>4. pass.spec \in Declaration /\ active \in SecretRecord
  BY DEF IInv, Shape
<1>5. Shape'
  <2>1. job' \in [DOMAIN job' -> JobRecord] /\ \A n \in DOMAIN job' : JobName(n)
    BY <1>2 DEF IInv, Shape, Grown
  <2>. QED  BY <1>1, <1>4, <2>1 DEF IInv, Shape
<1>6. Registrar'
  <2>1. \A n \in DOMAIN job' : \/ n \in DOMAIN job /\ job'[n] = job[n]
                               \/ job'[n].step = "start" /\ job'[n].state = "active"
    BY <1>2 DEF Grown
  <2>. QED  BY <1>1, <2>1 DEF IInv, Registrar, PodCredential
<1>7. Phase'
  <2> DEFINE rotate == caRegistrarRotationJob(pass.spec.request)
  <2>1. rotate \notin names
    BY DEF caRegistrarRotationJob
  <2>2. rotate \in DOMAIN job' => rotate \in DOMAIN job /\ job'[rotate] = job[rotate]
    BY <1>2, <2>1 DEF Grown
  <2> HIDE DEF rotate
  <2>. QED  BY <1>1, <2>2 DEF IInv, Phase, jobFailed, rotate
<1>8. Serials'
  <2>2. identities(pass.spec)' = identities(pass.spec)
    BY DEF identities
  <2>. QED  BY <1>1, <1>3, <2>2 DEF IInv, Serials, Quiet, Holds, WillPublish
<1>9. Mounted'
  BY <1>1, <1>3, MountedFrame DEF IInv
<1>10. Reading'
  BY DEF Reading, Working, AtHand, HasRead
<1>. QED  BY <1>5, <1>6, <1>7, <1>8, <1>9, <1>10 DEF IInv

LEMMA ReconcileEnrollmentsKeeps == IInv /\ reconcileEnrollments => IInv'
<1> SUFFICES ASSUME IInv, reconcileEnrollments
             PROVE  IInv'
  OBVIOUS
<1>1. pass.at = "enroll" /\ pass.spec \in Declaration /\ pass \in PassRecord(pass.done)
  BY DEF IInv, Shape, reconcileEnrollments, At
<1>2. identityMaterialStatus(pass.spec) \in BOOLEAN
  BY Zenon DEF identityMaterialStatus
<1>3. /\ pass' \in PassRecord(pass'.done) /\ pass'.spec = pass.spec /\ pass'.rotation = pass.rotation
      /\ pass'.at = "renew" /\ pass'.identity = identityMaterialStatus(pass.spec)
  BY <1>1, <1>2, Zenon DEF reconcileEnrollments, PassRecord
<1>4. \A n \in EnrollmentJobs(pass.spec) : JobName(n) /\ n[1] # "rotate"
  BY <1>1 DEF EnrollmentJobs, identities, Identity, Declaration, JobName
<1>5. UNCHANGED job \/ job' = ensureJobs(job, EnrollmentJobs(pass.spec), None)
  BY DEF reconcileEnrollments
<1>6. pass'.identity => \A i \in identities(pass.spec), k \in Kind : material[i][k] \in CertificateRecord
  <2> SUFFICES ASSUME pass'.identity, NEW i \in identities(pass.spec), NEW k \in Kind
               PROVE  material[i][k] \in CertificateRecord
    OBVIOUS
  <2>1. material[i][k] # None
    BY <1>3, Zenon DEF identityMaterialStatus
  <2>2. i \in Identity
    BY <1>1 DEF identities, Identity, Declaration
  <2>. QED  BY <2>1, <2>2 DEF IInv, Shape
<1>7. UNCHANGED <<spec, secrets, authority, material, workloads, status>>
  BY DEF reconcileEnrollments
<1>. QED  BY <1>1, <1>3, <1>4, <1>5, <1>6, <1>7, CreatingKeeps

LEMMA ReconcileLifecycleKeeps == IInv /\ reconcileCertificateLifecycle => IInv'
<1> SUFFICES ASSUME IInv, reconcileCertificateLifecycle
             PROVE  IInv'
  OBVIOUS
<1>1. pass.at = "renew" /\ pass.spec \in Declaration /\ pass \in PassRecord(pass.done)
  BY DEF IInv, Shape, reconcileCertificateLifecycle, At
<1>2. certificateLifecycleReady(pass.spec) \in BOOLEAN
  BY Zenon DEF certificateLifecycleReady
<1>3. /\ pass' \in PassRecord(pass'.done) /\ pass'.spec = pass.spec /\ pass'.rotation = pass.rotation
      /\ pass'.at = (IF pass.identity THEN "workloads" ELSE "status")
      /\ pass'.identity = pass.identity /\ pass'.todo = pass.spec.workloads
  BY <1>1, <1>2, Zenon DEF reconcileCertificateLifecycle, PassRecord, Declaration
<1>4. \A n \in certificateRenewalRequests(pass.spec) : JobName(n) /\ n[1] # "rotate"
  <2> SUFFICES ASSUME NEW i \in identities(pass.spec), NEW seed
               PROVE  JobName(<<"renew", i, seed>>) /\ <<"renew", i, seed>>[1] # "rotate"
    BY DEF certificateRenewalRequests
  <2>. QED  BY <1>1 DEF identities, Identity, Declaration, JobName
<1>5. UNCHANGED job \/ job' = ensureJobs(job, certificateRenewalRequests(pass.spec), None)
  BY DEF reconcileCertificateLifecycle
<1>6. pass'.identity => \A i \in identities(pass.spec), k \in Kind : material[i][k] \in CertificateRecord
  BY <1>3 DEF IInv, Serials
<1>7. UNCHANGED <<spec, secrets, authority, material, workloads, status>>
  BY DEF reconcileCertificateLifecycle
<1>. QED  BY <1>1, <1>3, <1>4, <1>5, <1>6, <1>7, CreatingKeeps

LEMMA TemplateType ==
    ASSUME NEW s \in Declaration, NEW w, NEW revision \in [Kind -> Nat]
    PROVE  Template(s, w, revision) \in TemplateRecord /\ Template(s, w, revision).identity = revision
<1>1. peerUsesCouchDB(s, w) \in BOOLEAN
  BY DEF peerUsesCouchDB, Declaration
<1>. QED  BY <1>1 DEF Template, TemplateRecord

LEMMA EnsuredDeployment ==
    ASSUME NEW d \in DeploymentRecord \cup {None}, NEW t \in TemplateRecord
    PROVE  /\ ensureDeployment(d, t) \in DeploymentRecord
           /\ ensureDeployment(d, t).wants = t
           /\ ensureDeployment(d, t) = d \/ ~ensureDeployment(d, t).rolled
BY Zenon DEF ensureDeployment, DeploymentRecord

LEMMA DeclaredMaterial ==
    ASSUME IInv, Working, NEW w \in pass.spec.workloads
    PROVE  /\ pass.spec \in Declaration /\ w \in Workload /\ w \in Identity
           /\ \A k \in Kind : material[w][k] \in CertificateRecord
<1>1. pass.spec \in Declaration /\ w \in Workload
  BY DEF IInv, Shape, Declaration, Working
<1>2. \A k \in Kind : material[w][k] \in CertificateRecord
  BY DEF IInv, Serials, identities, Reading
<1>. QED  BY <1>1, <1>2 DEF Identity

\* Steps of a pass among its workloads that write nothing.
LEMMA WorkingKeeps ==
    ASSUME IInv, Working, pass' \in PassRecord(pass'.done), pass'.spec = pass.spec,
           pass'.identity = pass.identity,
           pass'.at \in {"workloads", "revision", "deployment", "count", "status"},
           UNCHANGED <<spec, active, previous, staged, ca, registered, issued, material, job, status>>,
           deployment' \in [Workload -> DeploymentRecord \cup {None}],
           database' \in [Peer -> {"none", "down", "up"}]
    PROVE  Shape' /\ Registrar' /\ Phase' /\ Serials'
<1>1. pass.spec \in Declaration /\ active \in SecretRecord
  BY DEF IInv, Shape, Working
<1>2. Shape'
  BY <1>1 DEF IInv, Shape
<1>3. Registrar' /\ Phase'
  BY DEF IInv, Registrar, PodCredential, Phase
<1>4. Serials'
  BY SerialsFrame DEF IInv, Quiet
<1>. QED  BY <1>2, <1>3, <1>4

LEMMA ReadsKeep ==
    ASSUME IInv, (\E w \in Workload : ReadMSP(w)) \/ ReadTLS \/ deploymentWorkloadStatus
    PROVE  IInv'
<1>1. /\ UNCHANGED <<spec, active, previous, staged, ca, registered, issued, material,
                     deployment, database, job, status>>
      /\ Working
  BY DEF ReadMSP, ReadTLS, deploymentWorkloadStatus, At, Working, secrets, authority, workloads
<1>2. pass \in PassRecord(pass.done) /\ pass.spec \in Declaration
  BY <1>1 DEF IInv, Shape, Working
<1>3. Mounted'
  BY <1>1, MountedFrame DEF IInv, Quiet
<1>4. deployment' \in [Workload -> DeploymentRecord \cup {None}] /\ database' \in [Peer -> {"none", "down", "up"}]
  BY <1>1 DEF IInv, Shape
<1>5. ASSUME NEW w \in Workload, ReadMSP(w)
      PROVE  IInv'
  <2>1. pass.at = "workloads" /\ w \in pass.todo
    BY <1>5 DEF ReadMSP, At
  <2>2. w \in pass.spec.workloads /\ pass.identity /\ pass.todo \subseteq pass.spec.workloads
    BY <1>1, <2>1 DEF IInv, Reading
  <2>3. material[w]["msp"] \in CertificateRecord /\ material[w]["msp"] # None /\ w \in Identity
    BY <1>1, <2>2, DeclaredMaterial, NoneIsAbsent DEF Kind
  <2>4. material[w]["msp"].serial \in Nat
    BY <2>3 DEF CertificateRecord
  <2>5. /\ pass' \in PassRecord(pass'.done) /\ pass'.spec = pass.spec /\ pass'.identity = pass.identity
        /\ pass'.at = "revision" /\ pass'.on = w /\ pass'.todo = pass.todo \ {w}
        /\ pass'.read["msp"] = material[w]["msp"].serial
    <3> DEFINE read == [pass.read EXCEPT !["msp"] = material[w]["msp"].serial]
    <3>1. read \in [Kind -> Nat] /\ read["msp"] = material[w]["msp"].serial
      BY <1>2, <2>4 DEF PassRecord, Kind
    <3>2. pass' = [pass EXCEPT !.at = "revision", !.on = w, !.todo = pass.todo \ {w}, !.read = read]
      BY <1>5, Zenon DEF ReadMSP
    <3> HIDE DEF read
    <3>3. pass.todo \ {w} \in SUBSET Workload
      BY <1>2 DEF PassRecord
    <3>. QED  BY <1>2, <3>1, <3>2, <3>3, ZenonT(60) DEF PassRecord
  <2>6. Shape' /\ Registrar' /\ Phase' /\ Serials'
    BY <1>1, <1>4, <2>5, WorkingKeeps
  <2>7. /\ material[w]["msp"].serial <= issued[w]
        /\ \A j \in DOMAIN job : j[2] = w /\ WillPublish(j, "msp") => job[j].got.serial # material[w]["msp"].serial
    BY <2>3 DEF IInv, Serials, Kind
  <2>8. Reading'
    BY <1>1, <2>2, <2>5, <2>7 DEF Reading, Working, AtHand, HasRead, WillPublish
  <2>. QED  BY <1>3, <2>6, <2>8 DEF IInv
<1>6. CASE ReadTLS
  <2> DEFINE w == pass.on
  <2>1. pass.at = "revision"
    BY <1>6 DEF ReadTLS, At
  <2>2. w \in pass.spec.workloads /\ pass.identity /\ pass.todo \subseteq pass.spec.workloads
    BY <1>1, <2>1 DEF IInv, Reading, AtHand
  <2>3. material[w]["tls"] \in CertificateRecord /\ material[w]["tls"] # None /\ w \in Identity
    BY <1>1, <2>2, DeclaredMaterial, NoneIsAbsent DEF Kind
  <2>4. material[w]["tls"].serial \in Nat
    BY <2>3 DEF CertificateRecord
  <2>5. /\ pass' \in PassRecord(pass'.done) /\ pass'.spec = pass.spec /\ pass'.identity = pass.identity
        /\ pass'.at = "deployment" /\ pass'.on = w /\ pass'.todo = pass.todo
        /\ pass'.read["tls"] = material[w]["tls"].serial /\ pass'.read["msp"] = pass.read["msp"]
    <3> DEFINE read == [pass.read EXCEPT !["tls"] = material[w]["tls"].serial]
    <3>1. read \in [Kind -> Nat] /\ read["tls"] = material[w]["tls"].serial /\ read["msp"] = pass.read["msp"]
      BY <1>2, <2>4 DEF PassRecord, Kind
    <3>2. pass' = [pass EXCEPT !.at = "deployment", !.read = read]
      BY <1>6, Zenon DEF ReadTLS
    <3> HIDE DEF read
    <3>. QED  BY <1>2, <3>1, <3>2, ZenonT(60) DEF PassRecord
  <2>6. Shape' /\ Registrar' /\ Phase' /\ Serials'
    BY <1>1, <1>4, <2>5, WorkingKeeps
  <2>7. /\ material[w]["tls"].serial <= issued[w]
        /\ \A j \in DOMAIN job : j[2] = w /\ WillPublish(j, "tls") => job[j].got.serial # material[w]["tls"].serial
    BY <2>3 DEF IInv, Serials, Kind
  <2>8. /\ pass.read["msp"] <= issued[w]
        /\ \A j \in DOMAIN job : j[2] = w /\ WillPublish(j, "msp") => job[j].got.serial # pass.read["msp"]
    BY <2>1 DEF IInv, Reading, HasRead, Kind
  <2>9. Reading'
    BY <1>1, <2>2, <2>5, <2>7, <2>8 DEF Reading, Working, AtHand, HasRead, WillPublish, Kind
  <2>. QED  BY <1>3, <2>6, <2>9 DEF IInv
<1>7. CASE deploymentWorkloadStatus
  <2>1. pass.at = "count"
    BY <1>7 DEF deploymentWorkloadStatus, At
  <2>2. pass.identity /\ pass.todo \subseteq pass.spec.workloads
    BY <1>1 DEF IInv, Reading
  <2>3. /\ pass' \in PassRecord(pass'.done) /\ pass'.spec = pass.spec /\ pass'.identity = pass.identity
        /\ pass'.at = "workloads" /\ pass'.todo = pass.todo
    <3>1. PICK rolled : pass' = [pass EXCEPT !.at = "workloads", !.on = None, !.read = Idle.read,
                                            !.rolled = FALSE, !.ready = pass.ready /\ rolled]
      BY <1>7, Zenon DEF deploymentWorkloadStatus
    <3>2. Idle.read \in [Kind -> Nat]
      BY DEF Idle, Pass
    <3>3. (pass.ready /\ rolled) \in BOOLEAN
      BY Zenon
    <3>. QED  BY <1>2, <3>1, <3>2, <3>3, ZenonT(60) DEF PassRecord
  <2>4. Shape' /\ Registrar' /\ Phase' /\ Serials'
    BY <1>1, <1>4, <2>3, WorkingKeeps
  <2>5. Reading'
    BY <2>2, <2>3 DEF Reading, Working, AtHand, HasRead
  <2>. QED  BY <1>3, <2>4, <2>5 DEF IInv
<1>. QED  BY <1>5, <1>6, <1>7

\* What EnsureWorkload writes: the pass, and the Deployment of the workload at hand.
LEMMA Ensured ==
    ASSUME IInv, EnsureWorkload
    PROVE  /\ pass.at = "deployment" /\ Working /\ AtHand /\ pass.on \in pass.spec.workloads
           /\ pass.on \in Workload /\ pass.spec \in Declaration
           /\ UNCHANGED <<spec, active, previous, staged, ca, registered, issued, material, job, status>>
           /\ deployment' \in [Workload -> DeploymentRecord \cup {None}]
           /\ \A w \in Workload \ {pass.on} : deployment'[w] = deployment[w]
           /\ deployment'[pass.on] \in DeploymentRecord
           /\ deployment'[pass.on].wants.identity = pass.read
           /\ \/ deployment'[pass.on] = deployment[pass.on] /\ pass'.changed = pass.changed
              \/ ~deployment'[pass.on].rolled /\ pass'.changed = pass.changed \cup {pass.on}
           /\ pass' \in PassRecord(pass'.done) /\ pass'.spec = pass.spec /\ pass'.identity = pass.identity
           /\ pass'.at = "count" /\ pass'.on = pass.on /\ pass'.todo = pass.todo
           /\ pass'.ready => pass.ready
           /\ pass'.rolled => deployment[pass.on] # None /\ deployment[pass.on].rolled
<1> DEFINE w == pass.on
           t == Template(pass.spec, w, pass.read)
           d == ensureDeployment(deployment[w], t)
           couch == peerUsesCouchDB(pass.spec, w)
           changed == IF d = deployment[w] THEN pass.changed ELSE pass.changed \cup {w}
           rolled == deployment[w] # None /\ deployment[w].rolled
           ready == pass.ready /\ (couch => database[w] = "up")
<1>1. pass.at = "deployment" /\ Working /\ AtHand
  BY DEF EnsureWorkload, At, Working, AtHand
<1>2. w \in pass.spec.workloads /\ pass.spec \in Declaration /\ pass \in PassRecord(pass.done)
  BY <1>1 DEF IInv, Reading, Shape
<1>3. w \in Workload /\ pass.read \in [Kind -> Nat]
  BY <1>2 DEF Declaration, PassRecord
<1>4. t \in TemplateRecord /\ t.identity = pass.read
  BY <1>2, <1>3, TemplateType
<1>5. deployment[w] \in DeploymentRecord \cup {None} /\ deployment \in [Workload -> DeploymentRecord \cup {None}]
  BY <1>3 DEF IInv, Shape
<1> HIDE DEF t
<1>6. d \in DeploymentRecord /\ d.wants = t /\ (d = deployment[w] \/ ~d.rolled)
  BY <1>4, <1>5, EnsuredDeployment
<1>7. /\ deployment' = [deployment EXCEPT ![w] = d]
      /\ pass' = [pass EXCEPT !.at = "count", !.rolled = rolled, !.changed = changed, !.ready = ready]
  BY Zenon DEF EnsureWorkload, t
<1>8. UNCHANGED <<spec, active, previous, staged, ca, registered, issued, material, job, status>>
  BY DEF EnsureWorkload, secrets, authority
<1> HIDE DEF d, couch
<1>9. rolled \in BOOLEAN /\ ready \in BOOLEAN
  BY Zenon
<1>10. changed \in SUBSET Workload
  BY <1>2, <1>3 DEF PassRecord
<1>11. \/ d = deployment[w] /\ changed = pass.changed
       \/ ~d.rolled /\ changed = pass.changed \cup {w}
  BY <1>6
<1>12. (ready => pass.ready) /\ (rolled => deployment[w] # None /\ deployment[w].rolled)
  BY Zenon
<1> HIDE DEF rolled, changed, ready
<1>13. /\ pass' \in PassRecord(pass'.done) /\ pass'.spec = pass.spec /\ pass'.identity = pass.identity
       /\ pass'.at = "count" /\ pass'.on = pass.on /\ pass'.todo = pass.todo
       /\ pass'.ready = ready /\ pass'.rolled = rolled /\ pass'.changed = changed
  BY <1>2, <1>7, <1>9, <1>10, ZenonT(60) DEF PassRecord
<1>14. /\ deployment' \in [Workload -> DeploymentRecord \cup {None}] /\ deployment'[w] = d
       /\ \A x \in Workload \ {w} : deployment'[x] = deployment[x]
  BY <1>3, <1>5, <1>6, <1>7
<1>15. d.wants.identity = pass.read
  BY <1>4, <1>6
<1>. QED  BY <1>1, <1>2, <1>3, <1>6, <1>8, <1>11, <1>12, <1>13, <1>14, <1>15

LEMMA EnsureWorkloadKeeps == IInv /\ EnsureWorkload => IInv'
<1> SUFFICES ASSUME IInv, EnsureWorkload
             PROVE  IInv'
  OBVIOUS
<1>1. database' \in [Peer -> {"none", "down", "up"}]
  BY DEF EnsureWorkload, IInv, Shape
<1>2. Shape' /\ Registrar' /\ Phase' /\ Serials'
  BY <1>1, Ensured, WorkingKeeps
<1>3. Reading'
  <2>1. pass.identity /\ pass.todo \subseteq pass.spec.workloads
    BY Ensured DEF IInv, Reading
  <2>. QED  BY <2>1, Ensured DEF Reading, Working, AtHand, HasRead
<1>4. Mounted'
  <2> SUFFICES ASSUME NEW w \in Workload, NEW k \in Kind, deployment'[w] # None
               PROVE  /\ material[w][k] \in CertificateRecord
                      /\ deployment'[w].wants.identity[k] <= issued[w]
                      /\ \A j \in DOMAIN job : j[2] = w /\ WillPublish(j, k) =>
                             job[j].got.serial # deployment'[w].wants.identity[k]
                      /\ deployment'[w].rolled =>
                             /\ deployment'[w].runs \in TemplateRecord
                             /\ deployment'[w].runs.couchDB = deployment'[w].wants.couchDB
                             /\ \/ deployment'[w].runs.identity[k] = deployment'[w].wants.identity[k]
                                \/ material[w][k].serial # deployment'[w].wants.identity[k]
    BY Ensured DEF Mounted, WillPublish
  <2>1. CASE deployment'[w] = deployment[w]
    BY <2>1 DEF IInv, Mounted
  <2>2. CASE deployment'[w] # deployment[w]
    <3>1. w = pass.on /\ ~deployment'[w].rolled /\ deployment'[w].wants.identity = pass.read
      BY <2>2, Ensured
    <3>2. HasRead(k)
      BY Ensured DEF HasRead
    <3>3. material[w][k] \in CertificateRecord
      BY <3>1, Ensured, DeclaredMaterial
    <3>. QED  BY <3>1, <3>2, <3>3 DEF IInv, Reading
  <2>. QED  BY <2>1, <2>2
<1>. QED  BY <1>2, <1>3, <1>4 DEF IInv

LEMMA CleanupKeeps == IInv /\ cleanupScaledDownPeerWorkloads => IInv'
<1> SUFFICES ASSUME IInv, cleanupScaledDownPeerWorkloads
             PROVE  IInv'
  OBVIOUS
<1>1. /\ UNCHANGED <<spec, active, previous, staged, ca, registered, issued, material, job, status>>
      /\ pass.at = "workloads" /\ Working /\ pass \in PassRecord(pass.done)
  BY DEF cleanupScaledDownPeerWorkloads, secrets, authority, At, Working, IInv, Shape
<1>2. /\ pass' \in PassRecord(pass'.done) /\ pass'.spec = pass.spec /\ pass'.identity = pass.identity
      /\ pass'.at = "status"
  BY <1>1, ZenonT(60) DEF cleanupScaledDownPeerWorkloads, PassRecord
<1>3. /\ deployment' \in [Workload -> DeploymentRecord \cup {None}]
      /\ \A w \in Workload : deployment'[w] \in {None, deployment[w]}
      /\ database' \in [Peer -> {"none", "down", "up"}]
  BY DEF cleanupScaledDownPeerWorkloads, IInv, Shape
<1>4. Shape' /\ Registrar' /\ Phase' /\ Serials'
  BY <1>1, <1>2, <1>3, WorkingKeeps
<1>5. Reading'
  BY <1>2, NothingRead
<1>6. Mounted'
  BY <1>1, <1>3 DEF IInv, Mounted, WillPublish
<1>. QED  BY <1>4, <1>5, <1>6 DEF IInv

LEMMA FinishPassKeeps == IInv /\ FinishPass => IInv'
<1> SUFFICES ASSUME IInv, FinishPass
             PROVE  IInv'
  OBVIOUS
<1>1. /\ UNCHANGED <<spec, active, previous, staged, ca, registered, issued, material, deployment, database>>
      /\ pass' = Idle /\ job' = Without(job, ExpiredJobs(pass.spec))
  BY DEF FinishPass, secrets, authority, workloads
<1>2. active \in SecretRecord
  BY DEF IInv, Shape, FinishPass, At
<1>3. /\ job' \in [DOMAIN job' -> JobRecord] /\ DOMAIN job' \subseteq DOMAIN job
      /\ \A n \in DOMAIN job' : job'[n] = job[n]
  BY <1>1, KeptJobs DEF IInv, Shape
<1>4. pass'.at = "idle" /\ pass' \in PassRecord(pass'.done) /\ ~pass'.identity
  BY <1>1 DEF Idle, Pass, PassRecord
<1>5. status'.ready \in BOOLEAN
  BY Zenon DEF FinishPass
<1>6. Shape'
  BY <1>1, <1>2, <1>3, <1>4, <1>5 DEF IInv, Shape
<1>7. Registrar'
  BY <1>1, <1>3, <1>4 DEF IInv, Registrar, PodCredential
<1>8. Serials' /\ Mounted'
  <2>1. Quiet
    BY <1>3 DEF Quiet
  <2>. QED  BY <1>1, <1>4, <2>1, SerialsFrame, MountedFrame DEF IInv
<1>9. Reading'
  BY <1>4, NothingRead
<1>. QED  BY <1>4, <1>6, <1>7, <1>8, <1>9 DEF IInv, Phase

-----------------------------------------------------------------------------
(* The Pods. *)

LEMMA RegistrarFrame ==
    ASSUME IInv, registered \subseteq registered', registered # {} \/ registered' = {},
           UNCHANGED <<active, previous, staged, pass>>,
           \A n \in DOMAIN job' :
               /\ n \in DOMAIN job
               /\ \/ job'[n] = job[n]
                  \/ /\ job'[n].step = "ca" => job'[n].got = [cred |-> active.user]
                     /\ n[1] = "rotate" /\ job'[n].state = "succeeded" => n[2] \in registered'
    PROVE  Registrar'
<1>1. ASSUME NEW n \in DOMAIN job', job'[n] # job[n], job'[n].step = "ca"
      PROVE  /\ job'[n].got \in [cred : User]
             /\ registered' = {} => job'[n].got.cred = "admin"
             /\ registered' # {} => job'[n].got.cred \in registered'
  <2>1. active \in SecretRecord /\ job'[n].got = [cred |-> active.user]
    BY <1>1 DEF IInv, Shape
  <2>2. active.user \in User
    BY <2>1 DEF SecretRecord, User
  <2>3. registered = {} => active = caBootstrapSecret
    BY <2>1, NoneIsAbsent DEF IInv, Registrar
  <2>4. registered # {} => active.user \in registered
    BY DEF IInv, Registrar
  <2>. QED  BY <2>1, <2>2, <2>3, <2>4, BootstrapSecret
<1>2. ASSUME NEW n \in DOMAIN job', job'[n].step = "ca"
      PROVE  /\ job'[n].got \in [cred : User]
             /\ registered' = {} => job'[n].got.cred = "admin"
             /\ registered' # {} => job'[n].got.cred \in registered'
  BY <1>1, <1>2 DEF IInv, Registrar, PodCredential
<1>3. \A n \in DOMAIN job' : n[1] = "rotate" /\ job'[n].state = "succeeded" => n[2] \in registered'
  BY DEF IInv, Registrar
<1>. QED  BY <1>2, <1>3 DEF IInv, Registrar, PodCredential

LEMMA PhaseFrame ==
    ASSUME Phase, UNCHANGED <<active, pass>>,
           \A n \in DOMAIN job' :
               n \in DOMAIN job /\ (job[n].state = "failed" => job'[n].state = "failed")
    PROVE  Phase'
BY DEF Phase, jobFailed

LEMMA ShapeFrame ==
    ASSUME Shape, UNCHANGED <<spec, active, previous, staged, ca, deployment, database, pass, status>>,
           registered' \subseteq {"admin"} \cup Request \cup Identity,
           registered # {} \/ registered' = {},
           issued' \in [Identity -> Nat],
           material' \in [Identity -> [Kind -> CertificateRecord \cup {None}]],
           job' \in [DOMAIN job' -> JobRecord], DOMAIN job' \subseteq DOMAIN job
    PROVE  Shape'
BY DEF Shape

\* Steps of a Pod that leave it with no certificate to publish.
LEMMA PodKeeps ==
    ASSUME IInv, NEW j \in DOMAIN job, job[j].state # "failed", Touches(job, job', j),
           UNCHANGED <<spec, secrets, ca, issued, material, workloads, pass, status>>,
           registered' \subseteq registered \cup {j[2]}, registered \subseteq registered',
           registered # {} \/ registered' = {},
           job'[j].step \in {"start", "ca"},
           job'[j].step = "ca" => job'[j].got = [cred |-> active.user],
           j[1] = "rotate" /\ job'[j].state = "succeeded" => j[2] \in registered'
    PROVE  IInv'
<1>1. UNCHANGED <<spec, active, previous, staged, ca, issued, material, deployment, database, pass, status>>
  BY DEF secrets, workloads
<1>2. j[2] \in Request \cup Identity
  BY DEF IInv, Shape, JobName
<1>3. /\ job' \in [DOMAIN job' -> JobRecord] /\ DOMAIN job' = DOMAIN job
      /\ \A n \in DOMAIN job \ {j} : job'[n] = job[n]
  BY DEF Touches
<1>4. Shape'
  <2>1. /\ registered' \subseteq {"admin"} \cup Request \cup Identity
        /\ issued' \in [Identity -> Nat]
        /\ material' \in [Identity -> [Kind -> CertificateRecord \cup {None}]]
    BY <1>1, <1>2 DEF IInv, Shape
  <2>. QED  BY <1>1, <1>3, <2>1, ShapeFrame DEF IInv
<1>5. Registrar'
  BY <1>1, <1>3, RegistrarFrame
<1>6. Phase'
  BY <1>1, <1>3, PhaseFrame DEF IInv
<1>7. Quiet
  BY <1>3 DEF Quiet
<1>8. Serials' /\ Mounted'
  BY <1>1, <1>7, SerialsFrame, MountedFrame DEF IInv
<1>9. Reading'
  BY <1>1, <1>7, ReadingFrame DEF IInv
<1>. QED  BY <1>4, <1>5, <1>6, <1>8, <1>9 DEF IInv

LEMMA StartPodKeeps ==
    ASSUME IInv, NEW j \in DOMAIN job, StartPod(j)
    PROVE  IInv'
<1>1. active \in SecretRecord
  BY DEF IInv, Shape
<1>2. [cred |-> active.user] \in Got
  BY <1>1 DEF SecretRecord, User, Got
<1>3. /\ Touches(job, job', j) /\ job'[j].state = job[j].state
      /\ job'[j].step = "ca" /\ job'[j].got = [cred |-> active.user]
  BY <1>2, AdvancedJob DEF IInv, Shape, StartPod
<1>4. job[j].state = "active"
  BY DEF StartPod, Running
<1>5. /\ UNCHANGED <<spec, secrets, ca, issued, material, workloads, pass, status>>
      /\ registered' = registered
  BY DEF StartPod, authority
<1>. QED  BY <1>3, <1>4, <1>5, PodKeeps

LEMMA CAFailsKeeps ==
    ASSUME IInv, NEW j \in DOMAIN job, CAFails(j) \/ LosePod(j)
    PROVE  IInv'
<1>1. job' = AfterPod(job, j) /\ job[j].state = "active"
  BY DEF CAFails, LosePod, Running
<1>2. Touches(job, job', j) /\ job'[j].step = "start" /\ job'[j].state # "succeeded"
  BY <1>1, FailedPod DEF IInv, Shape
<1>3. UNCHANGED <<spec, secrets, ca, issued, material, workloads, pass, status>>
  BY DEF CAFails, LosePod, authority
<1>4. /\ registered' \subseteq registered \cup {j[2]} /\ registered \subseteq registered'
      /\ registered # {} \/ registered' = {}
  BY DEF CAFails, LosePod, authority, Accepted
<1>. QED  BY <1>1, <1>2, <1>3, <1>4, PodKeeps

LEMMA RotationScriptKeeps ==
    ASSUME IInv, NEW j \in DOMAIN job, caRegistrarRotationScript(j)
    PROVE  IInv'
<1>1. job' = Succeeded(job, j) /\ job[j].state = "active"
  BY DEF caRegistrarRotationScript, Running
<1>2. Touches(job, job', j) /\ job'[j].step = "start"
  BY <1>1, SucceededJob DEF IInv, Shape
<1>3. /\ UNCHANGED <<spec, secrets, ca, issued, material, workloads, pass, status>>
      /\ registered' = registered \cup {j[2]} /\ registered # {}
  BY DEF caRegistrarRotationScript, Accepted
<1>. QED  BY <1>1, <1>2, <1>3, PodKeeps

LEMMA DeleteFailedJobKeeps ==
    ASSUME IInv, NEW j \in DOMAIN job, DeleteFailedJob(j)
    PROVE  IInv'
<1>1. UNCHANGED <<spec, active, previous, staged, ca, registered, issued, material,
                  deployment, database, pass, status>>
  BY DEF DeleteFailedJob, secrets, authority, workloads
<1>2. /\ job' \in [DOMAIN job' -> JobRecord] /\ DOMAIN job' \subseteq DOMAIN job
      /\ \A n \in DOMAIN job' : job'[n] = job[n]
  BY KeptJobs DEF DeleteFailedJob, IInv, Shape
<1>3. Shape'
  BY <1>1, <1>2, ShapeFrame DEF IInv, Shape
<1>4. Registrar' /\ Phase'
  BY <1>1, <1>2, RegistrarFrame, PhaseFrame DEF IInv
<1>5. Quiet
  BY <1>2 DEF Quiet
<1>6. Serials' /\ Mounted'
  BY <1>1, <1>5, SerialsFrame, MountedFrame DEF IInv
<1>7. Reading'
  BY <1>1, <1>5, ReadingFrame DEF IInv
<1>. QED  BY <1>3, <1>4, <1>6, <1>7 DEF IInv

\* The serial number that is issued is new to every Job, Secret and Deployment.
LEMMA EnrollmentScriptKeeps ==
    ASSUME IInv, NEW j \in DOMAIN job, enrollmentScript(j)
    PROVE  IInv'
<1> DEFINE i == j[2]
           serial == issued[i] + 1
<1>1. /\ j[1] # "rotate" /\ i \in Identity /\ job[j].state = "active" /\ job[j].step = "ca"
      /\ issued[i] \in Nat
  BY DEF enrollmentScript, Running, IInv, Shape, JobName
<1>2. /\ UNCHANGED <<spec, active, previous, staged, ca, material, deployment, database, pass, status>>
      /\ registered' = registered \cup {i} /\ registered # {}
      /\ issued' = [issued EXCEPT ![i] = serial]
  BY DEF enrollmentScript, Accepted, secrets, workloads
<1>3. /\ issued' \in [Identity -> Nat] /\ issued'[i] = serial
      /\ \A n \in Identity : issued'[n] \in Nat /\ issued[n] \in Nat /\ issued[n] <= issued'[n]
  BY <1>1, <1>2 DEF IInv, Shape
<1>4. /\ job' \in [DOMAIN job' -> JobRecord] /\ DOMAIN job' = DOMAIN job
      /\ \A n \in DOMAIN job \ {j} : job'[n] = job[n]
      /\ job'[j].state = "active" /\ job'[j].step = "msp" /\ job'[j].got = [serial |-> serial]
  <2>1. job' = Advanced(job, j, "msp", [serial |-> serial])
    BY <1>3 DEF enrollmentScript
  <2>2. [serial |-> serial] \in Got
    BY <1>1 DEF Got
  <2>. QED  BY <1>1, <2>1, <2>2, AdvancedJob DEF Touches, IInv, Shape
<1> HIDE DEF serial, i
<1>5. Shape'
  <2>1. registered' \subseteq {"admin"} \cup Request \cup Identity
    BY <1>1, <1>2 DEF IInv, Shape
  <2>2. material' \in [Identity -> [Kind -> CertificateRecord \cup {None}]]
    BY <1>2 DEF IInv, Shape
  <2>. QED  BY <1>2, <1>3, <1>4, <2>1, <2>2, ShapeFrame DEF IInv
<1>6. Registrar'
  BY <1>1, <1>2, <1>4, RegistrarFrame
<1>7. Phase'
  BY <1>1, <1>2, <1>4, PhaseFrame DEF IInv
<1>8. serial \in Nat /\ serial # 0 /\ serial > issued[i] /\ job'[j].got.serial = serial
      /\ job'[j].got \in [serial : Nat]
  BY <1>1, <1>4 DEF serial
<1>9. ASSUME NEW n \in DOMAIN job, n # j, Holds(n)
      PROVE  /\ job'[n] = job[n] /\ n[1] # "rotate" /\ n[2] \in Identity
             /\ job[n].got \in [serial : Nat] /\ job[n].got.serial # 0
             /\ job[n].got.serial <= issued[n[2]]
  BY <1>4, <1>9 DEF IInv, Serials, Shape, JobName
<1>10. Serials'
  <2>1. ASSUME NEW n \in DOMAIN job', Holds(n)'
        PROVE  /\ n[1] # "rotate" /\ job'[n].got \in [serial : Nat]
               /\ job'[n].got.serial # 0 /\ job'[n].got.serial <= issued'[n[2]]
    <3>1. CASE n = j
      BY <1>1, <1>3, <1>8, <3>1 DEF i
    <3>2. CASE n # j
      <4>1. Holds(n) /\ n \in DOMAIN job
        BY <1>4, <2>1, <3>2 DEF Holds
      <4>2. /\ job'[n] = job[n] /\ n[1] # "rotate" /\ n[2] \in Identity
            /\ job[n].got \in [serial : Nat] /\ job[n].got.serial # 0
            /\ job[n].got.serial <= issued[n[2]]
        BY <1>9, <3>2, <4>1
      <4>. QED  BY <1>3, <4>2
    <3>. QED  BY <3>1, <3>2
  <2>2. ASSUME NEW n \in DOMAIN job', NEW m \in DOMAIN job', Holds(n)', Holds(m)', n # m, n[2] = m[2]
        PROVE  job'[n].got.serial # job'[m].got.serial
    <3>1. ASSUME NEW x \in DOMAIN job', x # j, Holds(x)', x[2] = i
          PROVE  job'[x].got.serial # serial
      <4>1. Holds(x) /\ x \in DOMAIN job
        BY <1>4, <3>1 DEF Holds
      <4>. QED  BY <1>1, <1>8, <1>9, <3>1, <4>1
    <3>2. CASE n = j \/ m = j
      BY <1>8, <2>2, <3>1, <3>2 DEF i
    <3>3. CASE n # j /\ m # j
      BY <1>4, <2>2, <3>3 DEF IInv, Serials, Holds
    <3>. QED  BY <3>2, <3>3
  <2>3. ASSUME NEW x \in Identity, NEW k \in Kind, material[x][k] # None
        PROVE  /\ material[x][k].serial <= issued'[x]
               /\ \A n \in DOMAIN job' : n[2] = x /\ WillPublish(n, k)' =>
                      job'[n].got.serial # material[x][k].serial
    <3>1. material[x][k].serial <= issued[x] /\ material[x][k].serial \in Nat
      BY <2>3 DEF IInv, Serials, Shape, CertificateRecord
    <3>2. ASSUME NEW n \in DOMAIN job', n[2] = x, WillPublish(n, k)'
          PROVE  job'[n].got.serial # material[x][k].serial
      <4>1. CASE n = j
        BY <1>1, <1>8, <3>1, <3>2, <4>1 DEF i
      <4>2. CASE n # j
        BY <1>4, <2>3, <3>2, <4>2 DEF IInv, Serials, WillPublish
      <4>. QED  BY <4>1, <4>2
    <3>. QED  BY <1>3, <3>1, <3>2
  <2>4. pass'.identity => \A x \in identities(pass'.spec), k \in Kind : material'[x][k] \in CertificateRecord
    BY <1>2 DEF IInv, Serials
  <2>. QED  BY <1>2, <2>1, <2>2, <2>3, <2>4 DEF Serials, identities
<1>11. Mounted'
  <2> SUFFICES ASSUME NEW w \in Workload, NEW k \in Kind, deployment[w] # None
               PROVE  /\ deployment[w].wants.identity[k] <= issued'[w]
                      /\ \A n \in DOMAIN job' : n[2] = w /\ WillPublish(n, k)' =>
                             job'[n].got.serial # deployment[w].wants.identity[k]
    BY <1>2 DEF IInv, Mounted
  <2>1. /\ deployment[w].wants.identity[k] <= issued[w] /\ w \in Identity
        /\ deployment[w].wants.identity[k] \in Nat
    BY DEF IInv, Mounted, Shape, DeploymentRecord, TemplateRecord, Identity
  <2>2. ASSUME NEW n \in DOMAIN job', n[2] = w, WillPublish(n, k)'
        PROVE  job'[n].got.serial # deployment[w].wants.identity[k]
    <3>1. CASE n = j
      BY <1>1, <1>8, <2>1, <2>2, <3>1 DEF i
    <3>2. CASE n # j
      BY <1>4, <2>2, <3>2 DEF IInv, Mounted, WillPublish
    <3>. QED  BY <3>1, <3>2
  <2>. QED  BY <1>3, <2>1, <2>2
<1>12. Reading'
  <2> SUFFICES ASSUME NEW k \in Kind, HasRead(k)
               PROVE  /\ pass.read[k] <= issued'[pass.on]
                      /\ \A n \in DOMAIN job' : n[2] = pass.on /\ WillPublish(n, k)' =>
                             job'[n].got.serial # pass.read[k]
    BY <1>2 DEF IInv, Reading, Working, AtHand, HasRead
  <2>1. pass.on \in Identity /\ pass.read[k] \in Nat /\ pass.read[k] <= issued[pass.on]
    BY DEF IInv, Reading, AtHand, HasRead, Shape, PassRecord, Declaration, Identity
  <2>2. ASSUME NEW n \in DOMAIN job', n[2] = pass.on, WillPublish(n, k)'
        PROVE  job'[n].got.serial # pass.read[k]
    <3>1. CASE n = j
      BY <1>1, <1>8, <2>1, <2>2, <3>1 DEF i
    <3>2. CASE n # j
      BY <1>4, <2>2, <3>2 DEF IInv, Reading, WillPublish
    <3>. QED  BY <3>1, <3>2
  <2>. QED  BY <1>3, <2>1, <2>2
<1>. QED  BY <1>5, <1>6, <1>7, <1>10, <1>11, <1>12 DEF IInv

\* A Job writes the serial number it holds to one more Secret, for the last time.
LEMMA PublishKeeps ==
    ASSUME IInv, NEW j \in DOMAIN job, Publish(j)
    PROVE  IInv'
<1> DEFINE i == j[2]
           serial == job[j].got.serial
<1>1. PICK k \in Kind :
          /\ Running(job, j, k)
          /\ \E labelled \in BOOLEAN : Published(i, k, serial, labelled)
          /\ \/ job' = IF k = "msp" THEN Advanced(job, j, "tls", job[j].got) ELSE Succeeded(job, j)
             \/ job' = AfterPod(job, j)
          /\ UNCHANGED <<spec, secrets, authority, workloads, pass, status>>
  BY ZenonT(30) DEF Publish
<1>2. UNCHANGED <<spec, active, previous, staged, ca, registered, issued, deployment, database, pass, status>>
  BY <1>1 DEF secrets, authority, workloads
<1>3. /\ job[j].state = "active" /\ job[j].step = k /\ Holds(j) /\ WillPublish(j, k)
      /\ k = "msp" \/ k = "tls"
  BY <1>1 DEF Running, Kind, Holds, WillPublish
<1>4. /\ j[1] # "rotate" /\ i \in Identity /\ job[j].got \in [serial : Nat]
      /\ serial \in Nat \ {0} /\ serial <= issued[i]
  BY <1>3 DEF IInv, Serials, Shape, JobName
<1>5. /\ job' \in [DOMAIN job' -> JobRecord] /\ DOMAIN job' = DOMAIN job
      /\ \A n \in DOMAIN job \ {j} : job'[n] = job[n]
      /\ job'[j].step = "start" \/ (k = "msp" /\ job'[j].step = "tls" /\ job'[j].got = job[j].got)
  <2>1. job[j].got \in Got /\ job \in [DOMAIN job -> JobRecord]
    BY <1>4 DEF Got, IInv, Shape
  <2>2. CASE job' = Advanced(job, j, "tls", job[j].got) /\ k = "msp"
    BY <2>1, <2>2, AdvancedJob DEF Touches
  <2>3. CASE job' = Succeeded(job, j)
    BY <2>1, <2>3, SucceededJob DEF Touches
  <2>4. CASE job' = AfterPod(job, j)
    BY <2>1, <2>4, FailedPod DEF Touches
  <2>. QED  BY <1>1, <2>2, <2>3, <2>4
<1>6. PICK c \in CertificateRecord : c.serial = serial /\ material' = [material EXCEPT ![i][k] = c]
  <2>1. PICK labelled \in BOOLEAN : Published(i, k, serial, labelled)
    BY <1>1
  <2> DEFINE l == labelled \/ fromCA(material[i][k])
  <2>2. l \in BOOLEAN
    BY Zenon
  <2>3. material' = [material EXCEPT ![i][k] = Certificate(serial, l)]
    BY <2>1 DEF Published
  <2>4. Certificate(serial, l) \in CertificateRecord /\ Certificate(serial, l).serial = serial
    BY <1>4, <2>2 DEF Certificate, CertificateRecord
  <2>. QED  BY <2>3, <2>4, ZenonT(30)
<1> HIDE DEF i, serial
<1>7. /\ material' \in [Identity -> [Kind -> CertificateRecord \cup {None}]]
      /\ material'[i][k] = c
      /\ \A x \in Identity, y \in Kind : x # i \/ y # k => material'[x][y] = material[x][y]
  BY <1>4, <1>6 DEF IInv, Shape
<1>8. Shape'
  <2>1. issued' \in [Identity -> Nat] /\ registered' \subseteq {"admin"} \cup Request \cup Identity
    BY <1>2 DEF IInv, Shape
  <2>. QED  BY <1>2, <1>5, <1>7, <2>1, ShapeFrame DEF IInv, Shape
<1>9. Registrar'
  BY <1>2, <1>4, <1>5, RegistrarFrame
<1>10. Phase'
  BY <1>2, <1>3, <1>5, PhaseFrame DEF IInv
<1>11. \A n \in DOMAIN job' : Holds(n)' => Holds(n) /\ job'[n].got = job[n].got
  BY <1>3, <1>5 DEF Holds
<1>12. \A n \in DOMAIN job', y \in Kind :
           WillPublish(n, y)' => /\ WillPublish(n, y) /\ job'[n].got = job[n].got
                                 /\ n # j \/ y # k
  BY <1>3, <1>5 DEF WillPublish
<1>13. Serials'
  <2>1. ASSUME NEW x \in Identity, NEW y \in Kind, material'[x][y] # None
        PROVE  /\ material'[x][y].serial <= issued[x]
               /\ \A n \in DOMAIN job' : n[2] = x /\ WillPublish(n, y)' =>
                      job'[n].got.serial # material'[x][y].serial
    <3>1. CASE x = i /\ y = k
      <4>1. ASSUME NEW n \in DOMAIN job', n[2] = i, WillPublish(n, k)'
            PROVE  job'[n].got.serial # serial
        <5>1. n \in DOMAIN job /\ Holds(n) /\ n # j /\ job'[n].got = job[n].got
          BY <1>5, <1>12, <4>1 DEF WillPublish, Holds
        <5>. QED  BY <1>3, <4>1, <5>1 DEF IInv, Serials, i, serial
      <4>. QED  BY <1>4, <1>6, <1>7, <3>1, <4>1
    <3>2. CASE x # i \/ y # k
      BY <1>5, <1>7, <1>12, <2>1, <3>2 DEF IInv, Serials
    <3>. QED  BY <3>1, <3>2
  <2>2. pass.identity => \A x \in identities(pass.spec), y \in Kind : material'[x][y] \in CertificateRecord
    <3> SUFFICES ASSUME pass.identity, NEW x \in identities(pass.spec), NEW y \in Kind
                 PROVE  material'[x][y] \in CertificateRecord
      OBVIOUS
    <3>1. material[x][y] \in CertificateRecord
      BY DEF IInv, Serials
    <3>2. CASE x = i /\ y = k
      BY <1>7, <3>2
    <3>3. CASE x # i \/ y # k
      BY <1>6, <3>1, <3>3 DEF IInv, Shape
    <3>. QED  BY <3>2, <3>3
  <2>. QED  BY <1>2, <1>5, <1>11, <2>1, <2>2 DEF IInv, Serials, identities
<1>14. Mounted'
  <2> SUFFICES ASSUME NEW w \in Workload, NEW y \in Kind, deployment[w] # None
               PROVE  /\ material'[w][y] \in CertificateRecord
                      /\ \A n \in DOMAIN job' : n[2] = w /\ WillPublish(n, y)' =>
                             job'[n].got.serial # deployment[w].wants.identity[y]
                      /\ deployment[w].rolled =>
                             \/ deployment[w].runs.identity[y] = deployment[w].wants.identity[y]
                             \/ material'[w][y].serial # deployment[w].wants.identity[y]
    BY <1>2 DEF IInv, Mounted
  <2>1. w \in Identity
    BY DEF Identity
  <2>2. \A n \in DOMAIN job' : n[2] = w /\ WillPublish(n, y)' =>
            job'[n].got.serial # deployment[w].wants.identity[y]
    BY <1>5, <1>12 DEF IInv, Mounted
  <2>3. CASE w = i /\ y = k
    <3>1. serial # deployment[w].wants.identity[y]
      BY <1>3, <2>3 DEF IInv, Mounted, i, serial
    <3>. QED  BY <1>6, <1>7, <2>2, <2>3, <3>1
  <2>4. CASE w # i \/ y # k
    BY <1>7, <2>1, <2>2, <2>4 DEF IInv, Mounted
  <2>. QED  BY <2>3, <2>4
<1>15. Reading'
  <2>1. \A y \in Kind : HasRead(y) =>
            \A n \in DOMAIN job' : n[2] = pass.on /\ WillPublish(n, y)' => job'[n].got.serial # pass.read[y]
    BY <1>5, <1>12 DEF IInv, Reading
  <2>. QED  BY <1>2, <2>1 DEF IInv, Reading, Working, AtHand, HasRead
<1>. QED  BY <1>8, <1>9, <1>10, <1>13, <1>14, <1>15 DEF IInv

-----------------------------------------------------------------------------
(* The cluster, the users and time. *)

LEMMA CAKeeps == IInv /\ (StartCA \/ StopCA) => IInv'
<1> SUFFICES ASSUME IInv, StartCA \/ StopCA
             PROVE  IInv'
  OBVIOUS
<1>1. /\ UNCHANGED <<spec, active, previous, staged, issued, material, deployment, database, job, pass, status>>
      /\ ca # "none" /\ ca' \in {"down", "up"}
      /\ registered' = registered \/ (registered = {} /\ registered' = {active.user})
  BY DEF StartCA, StopCA, secrets, workloads
<1>2. active \in SecretRecord
  BY <1>1 DEF IInv, Shape
<1>3. active.user \in {"admin"} \cup Request
  BY <1>2 DEF SecretRecord
<1>4. Shape'
  BY <1>1, <1>2, <1>3 DEF IInv, Shape
<1>5. Registrar'
  <2>1. CASE registered' = registered
    BY <1>1, <2>1 DEF IInv, Registrar, PodCredential
  <2>2. CASE registered = {} /\ registered' = {active.user}
    <3>1. active = caBootstrapSecret
      BY <1>2, <2>2, NoneIsAbsent DEF IInv, Registrar
    <3>2. registered' = {"admin"} /\ active.user = "admin"
      BY <2>2, <3>1, BootstrapSecret
    <3>. QED  BY <1>1, <2>2, <3>2 DEF IInv, Registrar, PodCredential
  <2>. QED  BY <1>1, <2>1, <2>2
<1>6. Phase'
  BY <1>1 DEF IInv, Phase, jobFailed
<1>7. Serials' /\ Mounted'
  BY <1>1, SerialsFrame, MountedFrame DEF IInv, Quiet
<1>8. Reading'
  BY <1>1, ReadingFrame DEF IInv, Quiet
<1>. QED  BY <1>4, <1>5, <1>6, <1>7, <1>8 DEF IInv

LEMMA RollOutKeeps ==
    ASSUME IInv, NEW w \in Workload, RollOut(w)
    PROVE  IInv'
<1>1. /\ UNCHANGED <<spec, active, previous, staged, ca, registered, issued, material, database, job, pass, status>>
      /\ deployment[w] # None
  BY DEF RollOut, secrets, authority
<1>2. deployment[w] \in DeploymentRecord /\ \A k \in Kind : material[w][k] \in CertificateRecord
  BY <1>1 DEF IInv, Shape, Mounted
<1> DEFINE runs == [deployment[w].wants EXCEPT !.identity = identityMaterialRevision(w)]
           d == [deployment[w] EXCEPT !.rolled = TRUE, !.runs = runs]
<1>3. /\ runs \in TemplateRecord /\ runs.couchDB = deployment[w].wants.couchDB
      /\ \A k \in Kind : runs.identity[k] = material[w][k].serial
  BY <1>2 DEF identityMaterialRevision, DeploymentRecord, TemplateRecord, CertificateRecord
<1>4. deployment' = [deployment EXCEPT ![w] = d]
  BY Zenon DEF RollOut
<1> HIDE DEF runs
<1>5. d \in DeploymentRecord /\ d.wants = deployment[w].wants /\ d.runs = runs
  BY <1>2, <1>3, ZenonT(30) DEF DeploymentRecord
<1> HIDE DEF d
<1>6. /\ deployment' \in [Workload -> DeploymentRecord \cup {None}]
      /\ deployment'[w] = d /\ \A x \in Workload \ {w} : deployment'[x] = deployment[x]
  BY <1>4, <1>5 DEF IInv, Shape
<1>7. Shape'
  BY <1>1, <1>6 DEF IInv, Shape
<1>8. Registrar' /\ Phase'
  BY <1>1 DEF IInv, Registrar, PodCredential, Phase, jobFailed
<1>9. Serials'
  BY <1>1, SerialsFrame DEF IInv, Quiet
<1>10. Mounted'
  <2> SUFFICES ASSUME NEW x \in Workload, NEW k \in Kind, deployment'[x] # None
               PROVE  /\ material[x][k] \in CertificateRecord
                      /\ deployment'[x].wants.identity[k] <= issued[x]
                      /\ \A j \in DOMAIN job : j[2] = x /\ WillPublish(j, k) =>
                             job[j].got.serial # deployment'[x].wants.identity[k]
                      /\ deployment'[x].rolled =>
                             /\ deployment'[x].runs \in TemplateRecord
                             /\ deployment'[x].runs.couchDB = deployment'[x].wants.couchDB
                             /\ \/ deployment'[x].runs.identity[k] = deployment'[x].wants.identity[k]
                                \/ material[x][k].serial # deployment'[x].wants.identity[k]
    BY <1>1 DEF Mounted, WillPublish
  <2>1. CASE x = w
    BY <1>1, <1>2, <1>3, <1>5, <1>6, <2>1 DEF IInv, Mounted
  <2>2. CASE x # w
    BY <1>6, <2>2 DEF IInv, Mounted
  <2>. QED  BY <2>1, <2>2
<1>11. Reading'
  BY <1>1, ReadingFrame DEF IInv, Quiet
<1>. QED  BY <1>7, <1>8, <1>9, <1>10, <1>11 DEF IInv

LEMMA ExpireKeeps ==
    ASSUME IInv, NEW i \in Identity, NEW k \in Kind, Expire(i, k)
    PROVE  IInv'
<1>1. UNCHANGED <<spec, active, previous, staged, ca, registered, issued, deployment, database, job, pass, status>>
  BY DEF Expire, secrets, authority, workloads
<1>2. material[i][k] \in CertificateRecord
  BY DEF Expire, IInv, Shape
<1> DEFINE c == [material[i][k] EXCEPT !.validity = IF @ = "valid" THEN "due" ELSE "expired"]
<1>3. c \in CertificateRecord /\ c.serial = material[i][k].serial
  BY <1>2 DEF CertificateRecord
<1>4. material' = [material EXCEPT ![i][k] = c]
  BY DEF Expire
<1> HIDE DEF c
<1>5. /\ material' \in [Identity -> [Kind -> CertificateRecord \cup {None}]]
      /\ \A x \in Identity, y \in Kind :
             \/ material'[x][y] = material[x][y]
             \/ /\ material'[x][y] \in CertificateRecord /\ material[x][y] \in CertificateRecord
                /\ material'[x][y].serial = material[x][y].serial
  BY <1>2, <1>3, <1>4 DEF IInv, Shape
<1>6. Shape'
  BY <1>1, <1>5 DEF IInv, Shape
<1>7. Registrar' /\ Phase'
  BY <1>1 DEF IInv, Registrar, PodCredential, Phase, jobFailed
<1>8. Serials'
  <2>1. ASSUME NEW x \in Identity, NEW y \in Kind, material'[x][y] # None
        PROVE  /\ material'[x][y].serial <= issued[x]
               /\ \A j \in DOMAIN job : j[2] = x /\ WillPublish(j, y) =>
                      job[j].got.serial # material'[x][y].serial
    <3>1. material[x][y] # None /\ material'[x][y].serial = material[x][y].serial
      BY <1>5, <2>1, NoneIsAbsent
    <3>2. /\ material[x][y].serial <= issued[x]
          /\ \A j \in DOMAIN job : j[2] = x /\ WillPublish(j, y) =>
                 job[j].got.serial # material[x][y].serial
      BY <3>1 DEF IInv, Serials
    <3>. QED  BY <3>1, <3>2
  <2>2. pass.identity => \A x \in identities(pass.spec), y \in Kind : material'[x][y] \in CertificateRecord
    <3> SUFFICES ASSUME pass.identity, NEW x \in identities(pass.spec), NEW y \in Kind
                 PROVE  material'[x][y] \in CertificateRecord
      OBVIOUS
    <3>1. material[x][y] \in CertificateRecord
      BY DEF IInv, Serials
    <3>. QED  BY <1>3, <1>4, <3>1 DEF IInv, Shape
  <2>. QED  BY <1>1, <2>1, <2>2 DEF IInv, Serials, Holds, WillPublish, identities
<1>9. Mounted'
  <2>1. \A w \in Workload : w \in Identity
    BY DEF Identity
  <2>. QED  BY <1>1, <1>5, <2>1 DEF IInv, Mounted, WillPublish
<1>10. Reading'
  BY <1>1, ReadingFrame DEF IInv, Quiet
<1>. QED  BY <1>6, <1>7, <1>8, <1>9, <1>10 DEF IInv

LEMMA RestKeeps ==
    ASSUME IInv, Interrupt \/ Edit \/ (\E p \in Peer : StartDatabase(p)) \/ UNCHANGED vars
    PROVE  IInv'
<1>1. UNCHANGED <<active, previous, staged, ca, registered, issued, material, deployment, job>>
  BY DEF Interrupt, Edit, StartDatabase, vars, secrets, authority, workloads
<1>2. UNCHANGED pass \/ (pass' = Idle)
  BY DEF Interrupt, Edit, StartDatabase, vars
<1>3. /\ pass' \in PassRecord(pass'.done)
      /\ UNCHANGED pass \/ (pass'.at = "idle" /\ ~pass'.identity)
  <2>1. Idle \in PassRecord(Idle.done) /\ Idle.at = "idle" /\ ~Idle.identity
    BY DEF Idle, Pass, PassRecord
  <2>2. CASE pass' = pass
    BY <2>2 DEF IInv, Shape
  <2>. QED  BY <1>2, <2>1, <2>2
<1>4. spec' \in Declaration
  <2>1. spec \in Declaration
    BY DEF IInv, Shape
  <2>2. CASE Edit
    <3>1. CASE \E r \in Request : spec' = [spec EXCEPT !.request = r]
      BY <2>1, <3>1 DEF Declaration
    <3>2. CASE \E ws \in SUBSET (spec.workloads \cap Peer) : spec' = [spec EXCEPT !.workloads = spec.workloads \ ws]
      BY <2>1, <3>2 DEF Declaration
    <3>3. CASE spec' = [spec EXCEPT !.couchDB = ~spec.couchDB]
      BY <2>1, <3>3, ZenonT(30) DEF Declaration
    <3>. QED  BY <2>2, <3>1, <3>2, <3>3 DEF Edit
  <2>. QED  BY <2>1, <2>2 DEF Interrupt, StartDatabase, vars
<1>5. database' \in [Peer -> {"none", "down", "up"}]
  BY DEF Interrupt, Edit, StartDatabase, vars, workloads, IInv, Shape
<1>6. status'.ready \in BOOLEAN
  <2>1. status' = status \/ status' = NotReady
    BY DEF Interrupt, Edit, StartDatabase, vars
  <2>2. NotReady.ready \in BOOLEAN
    BY DEF NotReady
  <2>. QED  BY <2>1, <2>2 DEF IInv, Shape
<1>7. Shape'
  BY <1>1, <1>3, <1>4, <1>5, <1>6 DEF IInv, Shape
<1>8. Registrar' /\ Phase'
  BY <1>1, <1>3 DEF IInv, Registrar, PodCredential, Phase, jobFailed
<1>9. Serials' /\ Mounted'
  BY <1>1, <1>3, SerialsFrame, MountedFrame DEF IInv, Quiet
<1>10. Reading'
  BY <1>1, <1>3, ReadingFrame, NothingRead DEF IInv, Quiet
<1>. QED  BY <1>7, <1>8, <1>9, <1>10 DEF IInv

-----------------------------------------------------------------------------
(* The theorems. *)

LEMMA NextKeeps == IInv /\ [Next]_vars => IInv'
<1> SUFFICES ASSUME IInv, [Next]_vars
             PROVE  IInv'
  OBVIOUS
<1>1. CASE Controller
  BY <1>1, StartPassKeeps, ReconcileRotationKeeps, PromotionKeeps, ReconcileEnrollmentsKeeps,
     ReconcileLifecycleKeeps, ReadsKeep, EnsureWorkloadKeeps, CleanupKeeps, FinishPassKeeps DEF Controller
<1>2. ASSUME NEW j \in DOMAIN job, Step(j) \/ LosePod(j) \/ DeleteFailedJob(j)
      PROVE  IInv'
  BY <1>2, StartPodKeeps, CAFailsKeeps, RotationScriptKeeps, EnrollmentScriptKeeps, PublishKeeps,
     DeleteFailedJobKeeps DEF Step
<1>3. CASE StartCA \/ StopCA
  BY <1>3, CAKeeps
<1>4. ASSUME NEW w \in Workload, RollOut(w)
      PROVE  IInv'
  BY <1>4, RollOutKeeps
<1>5. ASSUME NEW i \in Identity, NEW k \in Kind, Expire(i, k)
      PROVE  IInv'
  BY <1>5, ExpireKeeps
<1>6. CASE Interrupt \/ Edit \/ (\E p \in Peer : StartDatabase(p)) \/ UNCHANGED vars
  BY <1>6, RestKeeps
<1>. QED  BY <1>1, <1>2, <1>3, <1>4, <1>5, <1>6 DEF Next

LEMMA Invariance == Spec => []IInv
BY InitIInv, NextKeeps, PTL DEF Spec

\* Every variable keeps its type, and no Secret holds a certificate the CA has not
\* issued (the Secrets, Deployments and Jobs of reconcileOrg).
THEOREM TypeCorrect == Spec => []TypeOK
<1>1. IInv => TypeOK
  BY DEF IInv, Shape, Serials, TypeOK, Secret
<1>. QED  BY <1>1, Invariance, PTL

\* For any number of rotations, crashes and Jobs in flight, the CA accepts the active
\* credential, the previous one and the one in every running Pod: a credential is
\* promoted only after the Job that registers it has succeeded
\* (promoteCARegistrarSecret, caRegistrarRotationJobState).
THEOREM AcceptedCredentials == Spec => []CredentialsAreAccepted
<1>1. IInv => CredentialsAreAccepted
  BY DEF IInv, Registrar, PodCredential, CredentialsAreAccepted
<1>. QED  BY <1>1, Invariance, PTL

\* Every promotion leaves the credential it replaces in the previous Secret, whenever
\* passes are interrupted (promoteCARegistrarSecret).
THEOREM KeptPrevious == Spec => PromotionKeepsPrevious
<1>1. IInv /\ [Next]_vars => [active # None /\ active' # active => previous' = active]_vars
  <2> SUFFICES ASSUME IInv, Next, active # None, active' # active
               PROVE  previous' = active
    OBVIOUS
  <2>1. Promote
    BY Zenon DEF Next, Controller, StartPass, reconcileCARegistrarRotation, KeepPrevious,
           reconcileEnrollments, reconcileCertificateLifecycle, ReadMSP, ReadTLS, EnsureWorkload,
           deploymentWorkloadStatus, cleanupScaledDownPeerWorkloads, FinishPass, Step, StartPod, CAFails,
           caRegistrarRotationScript, enrollmentScript, Publish, LosePod, DeleteFailedJob, StartCA,
           StopCA, RollOut, StartDatabase, Expire, Interrupt, Edit, secrets
  <2>. QED  BY <2>1 DEF Promote, At, IInv, Registrar
<1>. QED  BY <1>1, Invariance, PTL DEF Spec, PromotionKeepsPrevious

LEMMA CreatedJobs ==
    ASSUME IInv, Next, NEW n \in DOMAIN job' \ DOMAIN job, n[1] # "rotate"
    PROVE  pass.at \in {"enroll", "renew"} /\ MayEnroll
<1>1. ~\E j \in DOMAIN job : Step(j) \/ LosePod(j) \/ DeleteFailedJob(j)
  <2> SUFFICES ASSUME NEW j \in DOMAIN job, Step(j) \/ LosePod(j) \/ DeleteFailedJob(j)
               PROVE  FALSE
    OBVIOUS
  <2>1. \/ \E step, got : job' = Advanced(job, j, step, got)
        \/ job' = Succeeded(job, j)
        \/ job' = AfterPod(job, j)
        \/ job' = Without(job, {j})
    BY Zenon DEF Step, StartPod, CAFails, caRegistrarRotationScript, enrollmentScript, Publish, LosePod,
           DeleteFailedJob
  <2>2. DOMAIN job' \subseteq DOMAIN job
    BY <2>1, Zenon DEF Advanced, Succeeded, AfterPod, Without
  <2>. QED  BY <2>2
<1>2. Controller
  BY <1>1, ZenonT(30) DEF Next, StartCA, StopCA, RollOut, StartDatabase, Expire, Interrupt, Edit
<1>3. ~FinishPass
  BY DEF FinishPass, Without
<1>4. ~reconcileCARegistrarRotation
  BY DEF reconcileCARegistrarRotation, ensureJob, ensureJobs, caRegistrarRotationJob
<1>. QED  BY <1>2, <1>3, <1>4 DEF Controller, StartPass, KeepPrevious, Promote,
             reconcileEnrollments, reconcileCertificateLifecycle, ReadMSP, ReadTLS, EnsureWorkload,
             deploymentWorkloadStatus, cleanupScaledDownPeerWorkloads, At

\* No enrollment or renewal Job is ever created while the rotation the pass was asked
\* for has a Job that is not done or a credential that is not promoted
\* (caRegistrarRotationBlocksWork).
THEOREM HeldWork == Spec => RotationHoldsWork
<1> DEFINE rotate == caRegistrarRotationJob(pass.spec.request)
           Held == \A j \in DOMAIN job' \ DOMAIN job :
                       j[1] # "rotate" /\ rotate \in DOMAIN job =>
                           jobFailed(job, rotate) \/ active.request = pass.spec.request
<1>1. IInv /\ [Next]_vars => [Held]_vars
  <2> SUFFICES ASSUME IInv, Next, NEW j \in DOMAIN job' \ DOMAIN job,
                      j[1] # "rotate", rotate \in DOMAIN job
               PROVE  jobFailed(job, rotate) \/ active.request = pass.spec.request
    OBVIOUS
  <2>1. pass.at \in {"enroll", "renew"} /\ MayEnroll
    BY CreatedJobs
  <2>2. pass.rotation \in {"Idle", "Ready", "Failed"}
    BY <2>1 DEF MayEnroll, caRegistrarRotationBlocksWork, IInv, Shape, PassRecord
  <2>3. pass.spec.request # None
    BY NoneIsAbsent DEF IInv, Shape, JobName, caRegistrarRotationJob
  <2>. QED  BY <2>1, <2>2, <2>3 DEF IInv, Phase
<1>. QED  BY <1>1, Invariance, PTL DEF Spec, RotationHoldsWork

\* A workload the pass is through with, and has not changed, has rolled out as long as
\* the pass counts everything ready.
Counted ==
    /\ pass.at = "status" /\ pass.identity => pass.todo = {}
    /\ pass.at = "count" /\ pass.on \notin pass.changed =>
           deployment[pass.on] # None /\ (pass.rolled => deployment[pass.on].rolled)
    /\ Working \/ (pass.at = "status" /\ pass.identity) =>
           \A w \in (pass.spec.workloads \cap Workload) \ (pass.todo \cup pass.changed) :
               pass.ready /\ ~(AtHand /\ w = pass.on) => deployment[w] # None /\ deployment[w].rolled

\* Only EnsureWorkload gives a Deployment that has rolled out another template.
LEMMA CountedFrame ==
    ASSUME Counted, UNCHANGED pass, \A w \in Workload : deployment[w] # None => deployment'[w] # None,
           \A w \in Workload : deployment[w] # None /\ deployment[w].rolled => deployment'[w].rolled,
           pass.at = "count" => pass.on \in Workload
    PROVE  Counted'
BY DEF Counted, Working, AtHand

LEMMA CountedNext == IInv /\ Counted /\ [Next]_vars => Counted'
<1> SUFFICES ASSUME IInv, Counted, [Next]_vars
             PROVE  Counted'
  OBVIOUS
<1>1. AtHand => pass.on \in pass.spec.workloads /\ pass.on \in Workload
  BY DEF IInv, Reading, Shape, Declaration, AtHand
<1>2. pass \in PassRecord(pass.done)
  BY DEF IInv, Shape
<1>3. CASE UNCHANGED <<deployment, pass>>
  BY <1>1, <1>3, CountedFrame DEF AtHand
<1>4. ASSUME NEW w \in Workload, RollOut(w)
      PROVE  Counted'
  <2>1. UNCHANGED pass /\ deployment[w] # None
    BY <1>4 DEF RollOut
  <2> DEFINE runs == [deployment[w].wants EXCEPT !.identity = identityMaterialRevision(w)]
             d == [deployment[w] EXCEPT !.rolled = TRUE, !.runs = runs]
  <2>2. deployment' = [deployment EXCEPT ![w] = d]
    BY <1>4, Zenon DEF RollOut
  <2>3. /\ deployment[w] \in DeploymentRecord /\ deployment \in [Workload -> DeploymentRecord \cup {None}]
        /\ deployment' \in [Workload -> DeploymentRecord \cup {None}]
    BY <1>4, <2>1, RollOutKeeps DEF IInv, Shape
  <2> HIDE DEF runs
  <2>4. d.rolled = TRUE /\ d # None
    <3>1. d.rolled = TRUE
      BY <2>3, Zenon DEF DeploymentRecord
    <3>2. runs \in TemplateRecord
      BY <1>4, <2>1 DEF runs, IInv, Shape, Mounted, identityMaterialRevision, DeploymentRecord, TemplateRecord,
                    CertificateRecord
    <3>3. d \in DeploymentRecord
      BY <2>3, <3>2, ZenonT(30) DEF DeploymentRecord
    <3>. QED  BY <3>1, <3>3, NoneIsAbsent
  <2> HIDE DEF d
  <2>5. deployment'[w] = d /\ \A x \in Workload \ {w} : deployment'[x] = deployment[x]
    BY <2>2, <2>3
  <2>. QED  BY <1>1, <2>1, <2>4, <2>5, CountedFrame DEF AtHand
<1>5. CASE pass'.at \notin {"workloads", "revision", "deployment", "count", "status"}
  BY <1>5 DEF Counted, Working
<1>6. CASE reconcileCertificateLifecycle
  <2>1. /\ pass'.at = (IF pass.identity THEN "workloads" ELSE "status") /\ pass'.spec = pass.spec
        /\ pass'.identity = pass.identity /\ pass'.todo = pass.spec.workloads
    BY <1>2, <1>6, ZenonT(60) DEF reconcileCertificateLifecycle, PassRecord
  <2>. QED  BY <2>1 DEF Counted, Working
<1>7. ASSUME NEW w \in Workload, ReadMSP(w)
      PROVE  Counted'
  <2>1. /\ pass.at = "workloads" /\ UNCHANGED deployment
        /\ pass'.at = "revision" /\ pass'.spec = pass.spec /\ pass'.on = w /\ pass'.todo = pass.todo \ {w}
        /\ pass'.changed = pass.changed /\ pass'.ready = pass.ready
    BY <1>2, <1>7, ZenonT(60) DEF ReadMSP, At, PassRecord, workloads
  <2>. QED  BY <2>1 DEF Counted, Working, AtHand
<1>8. CASE ReadTLS
  <2>1. /\ pass.at = "revision" /\ UNCHANGED deployment
        /\ pass'.at = "deployment" /\ pass'.spec = pass.spec /\ pass'.on = pass.on /\ pass'.todo = pass.todo
        /\ pass'.changed = pass.changed /\ pass'.ready = pass.ready
    BY <1>2, <1>8, ZenonT(60) DEF ReadTLS, At, PassRecord, workloads
  <2>. QED  BY <2>1 DEF Counted, Working, AtHand
<1>9. CASE EnsureWorkload
  <2>1. pass.on \notin pass'.changed =>
            deployment'[pass.on] # None /\ (pass'.rolled => deployment'[pass.on].rolled)
    BY <1>9, Ensured, NoneIsAbsent
  <2>. QED  BY <1>9, <2>1, Ensured DEF Counted, Working, AtHand
<1>10. CASE deploymentWorkloadStatus
  <2>1. PICK rolled \in {pass.rolled, deployment[pass.on].rolled} :
            pass' = [pass EXCEPT !.at = "workloads", !.on = None, !.read = Idle.read,
                                 !.rolled = FALSE, !.ready = pass.ready /\ rolled]
    BY <1>10, Zenon DEF deploymentWorkloadStatus
  <2>2. /\ pass'.at = "workloads" /\ pass'.spec = pass.spec /\ pass'.todo = pass.todo
        /\ pass'.changed = pass.changed /\ (pass'.ready => pass.ready /\ rolled)
    BY <1>2, <2>1, ZenonT(60) DEF PassRecord
  <2>3. pass.at = "count" /\ UNCHANGED deployment
    BY <1>10 DEF deploymentWorkloadStatus, At, workloads
  <2>4. pass.on \notin pass.changed /\ rolled => deployment[pass.on] # None /\ deployment[pass.on].rolled
    BY <2>1, <2>3 DEF Counted
  <2>. QED  BY <2>2, <2>3, <2>4 DEF Counted, Working, AtHand
<1>11. CASE cleanupScaledDownPeerWorkloads
  <2>1. /\ pass.at = "workloads" /\ pass.todo = {}
        /\ pass'.at = "status" /\ pass'.spec = pass.spec /\ pass'.todo = pass.todo
        /\ pass'.changed = pass.changed /\ pass'.ready = pass.ready
    BY <1>2, <1>11, ZenonT(60) DEF cleanupScaledDownPeerWorkloads, At, PassRecord
  <2>2. \A w \in pass.spec.workloads \cap Workload : deployment'[w] = deployment[w]
    BY <1>11 DEF cleanupScaledDownPeerWorkloads
  <2>. QED  BY <2>1, <2>2 DEF Counted, Working, AtHand
<1>12. \/ UNCHANGED <<deployment, pass>>
       \/ \E w \in Workload : RollOut(w) \/ ReadMSP(w)
       \/ pass'.at \notin {"workloads", "revision", "deployment", "count", "status"}
       \/ reconcileCertificateLifecycle \/ ReadTLS \/ EnsureWorkload \/ deploymentWorkloadStatus
       \/ cleanupScaledDownPeerWorkloads
  <2>1. CASE StartPass \/ FinishPass \/ Interrupt
    <3>1. \A x, y, z : Pass("rotate", x, y, z).at = "rotate"
      BY Zenon DEF Pass
    <3>2. Idle.at = "idle"
      BY Zenon DEF Idle, Pass
    <3>. QED  BY <2>1, <3>1, <3>2 DEF StartPass, FinishPass, Interrupt
  <2>2. CASE reconcileCARegistrarRotation
    <3>1. pass' = [pass EXCEPT !.at = "keep", !.active = active]
          \/ \E phase : pass' = [pass EXCEPT !.rotation = phase, !.at = "enroll"]
      BY <2>2, Zenon DEF reconcileCARegistrarRotation, Rotation
    <3>2. pass'.at \in {"keep", "enroll"}
      BY <1>2, <3>1, Zenon DEF PassRecord
    <3>. QED  BY <3>2
  <2>3. CASE KeepPrevious \/ Promote \/ reconcileEnrollments
    BY <1>2, <2>3, ZenonT(60) DEF KeepPrevious, Promote, Rotation, reconcileEnrollments, PassRecord
  <2>4. CASE Edit \/ StartCA \/ StopCA \/ UNCHANGED vars \/ (\E p \in Peer : StartDatabase(p))
    BY <2>4 DEF Edit, StartCA, StopCA, vars, StartDatabase, workloads
  <2>5. CASE \E i \in Identity, k \in Kind : Expire(i, k)
    BY <2>5 DEF Expire, workloads
  <2>6. CASE \E j \in DOMAIN job : Step(j) \/ LosePod(j) \/ DeleteFailedJob(j)
    BY <2>6, Zenon DEF Step, StartPod, CAFails, caRegistrarRotationScript, enrollmentScript, Publish,
           LosePod, DeleteFailedJob, workloads
  <2>. QED  BY <2>1, <2>2, <2>3, <2>4, <2>5, <2>6, Zenon DEF Next, Controller
<1>. QED  BY <1>3, <1>4, <1>5, <1>6, <1>7, <1>8, <1>9, <1>10, <1>11, <1>12

LEMMA CountedInvariance == Spec => []Counted
<1>1. Init => Counted
  <2>1. Idle.at = "idle"
    BY Zenon DEF Idle, Pass
  <2>. QED  BY <2>1 DEF Init, Counted, Working
<1>. QED  BY <1>1, CountedNext, Invariance, PTL DEF Spec

\* Whenever a pass reports Ready, every declared workload whose Deployment it found as
\* it should be runs with both halves of the identity material in its Secrets, unless
\* a Job has published since, however Jobs that publish, passes that read and Pods that
\* start are interleaved: no serial number is written twice, so a template that matches
\* the Secrets was never replaced (setDeploymentIdentityRevision).
THEOREM RunsCurrent == Spec => ReadyRunsCurrent
<1> DEFINE Runs == FinishPass /\ status'.ready =>
                       \A w \in pass.spec.workloads \ pass.changed :
                           deployment[w].wants = Current(pass.spec, w) =>
                               deployment[w].runs = Current(pass.spec, w)
<1>1. IInv /\ Counted => Runs
  <2> SUFFICES ASSUME IInv, Counted, FinishPass, status'.ready, NEW w \in pass.spec.workloads \ pass.changed,
                      deployment[w].wants = Current(pass.spec, w)
               PROVE  deployment[w].runs = deployment[w].wants
    OBVIOUS
  <2>1. pass.at = "status" /\ pass.identity /\ pass.ready
    BY ZenonT(30) DEF FinishPass, At
  <2>2. pass.spec \in Declaration /\ w \in Workload
    BY <2>1 DEF IInv, Shape, Declaration
  <2>3. deployment[w] # None /\ deployment[w].rolled
    BY <2>1, <2>2 DEF Counted, AtHand
  <2>4. deployment[w] \in DeploymentRecord
    BY <2>2, <2>3 DEF IInv, Shape
  <2>5. \A k \in Kind : deployment[w].wants.identity[k] = material[w][k].serial
    BY DEF Current, Template, identityMaterialRevision
  <2>6. /\ deployment[w].runs \in TemplateRecord /\ deployment[w].runs.couchDB = deployment[w].wants.couchDB
        /\ \A k \in Kind : deployment[w].runs.identity[k] = deployment[w].wants.identity[k]
    BY <2>2, <2>3, <2>5 DEF IInv, Mounted, Kind
  <2>7. deployment[w].wants \in TemplateRecord
    BY <2>4 DEF DeploymentRecord
  <2>8. deployment[w].runs.identity = deployment[w].wants.identity
    BY <2>6, <2>7 DEF TemplateRecord
  <2>. QED  BY <2>6, <2>7, <2>8 DEF TemplateRecord
<1>2. IInv /\ Counted /\ [Next]_vars => [Runs]_vars
  BY <1>1
<1>. QED  BY <1>2, Invariance, CountedInvariance, PTL DEF Spec, ReadyRunsCurrent
=============================================================================
