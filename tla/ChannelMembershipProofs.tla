---------------------- MODULE ChannelMembershipProofs ----------------------
(***************************************************************************)
(* The safety of ChannelMembership for any organizations, definitions,     *)
(* entries and policies, and however many edits, faults and changes by     *)
(* others there are: the inductive invariant, what no step takes back, and *)
(* the steps of the users, of the channel, of the Jobs and of the passes.  *)
(***************************************************************************)
EXTENDS ChannelMembership, TLAPS

\* How long the provers may take over a step, in seconds.
USE SMTT(20), ZenonT(20)

ResultRecord ==
    [state : State, op : Op, outcome : {"alreadyApplied", "submitted", "staged"},
     anchors : App \cup {None}, envelope : EnvelopeRecord \cup {None}]
JobRecord(arg) ==
    [state : {"active", "succeeded", "failed"}, step : {"start", "submit", "await", "publish"},
     tries : 0..BackoffLimit, arg : {arg}, got : ResultRecord \cup {None}]
ReportRecord ==
    [entry : Entry, ready : BOOLEAN,
     phase : {"Pending", "Staged", "PendingSignatures", "Submitted", "AlreadyApplied", "Failed"}]
PassRecord(s, out) == [at : {"idle", "entries"}, spec : {s}, out : {out}]

Towards(u) == IF u.app = None THEN "Absent" ELSE "Present"

\* The transition that a name of a Job and of its evidence stands for.
KeyState(k) == IF k[1] = "update" THEN k[3] ELSE k[3][3]
KeyOp(k) == IF k[1] = "update" THEN k[4] ELSE k[3][4]
Named(k) ==
    /\ k[2] \in External /\ KeyState(k) \in State /\ KeyOp(k) \in Op
    /\ \/ k[1] = "update"
       \/ k[1] = "submit" /\ k[5] \in EnvelopeRecord /\ k[5].update.msp = k[2]

\* A result is about the transition in its name, and so is an update it carries.
Fits(k, r) ==
    /\ r \in ResultRecord /\ r.state = KeyState(k) /\ r.op = KeyOp(k)
    /\ r.envelope # None => r.envelope.update.msp = k[2]
    /\ k[1] = "update" /\ r.envelope # None => Towards(r.envelope.update) = KeyState(k)
    /\ k[1] = "update" /\ r.outcome # "alreadyApplied" => r.envelope # None
    /\ k[1] = "submit" => r.outcome # "staged"

JobShape(j, r) ==
    /\ Named(j)
    /\ r \in JobRecord(r.arg)
    /\ r.arg.entry.state = KeyState(j) /\ r.arg.entry.op = KeyOp(j)
    /\ j[1] = "submit" =>
           /\ r.arg.result \in ResultRecord
           /\ r.arg.result.state = KeyState(j) /\ r.arg.result.op = KeyOp(j)
    /\ r.step = "start" => r.got = None
    /\ r.step # "start" => Fits(j, r.got)
    /\ r.step = "submit" => j[1] = "update" /\ r.arg.submit /\ r.got.outcome = "submitted"
    /\ r.step = "await" => j[1] = "submit"

-----------------------------------------------------------------------------
\* The transition was declared, now or earlier: operation IDs grow, and the first
\* removal may share the ID 0 with the admission before it.
Past(m, s, o) ==
    /\ spec[m] \in Entry
    /\ \/ o < spec[m].op
       \/ o = spec[m].op /\ (s = spec[m].state \/ (o = 0 /\ s = "Present"))

\* If it is the current one it has been carried out; for good, where signatures are
\* collected.
Achieved(m, s, o) ==
    s = spec[m].state /\ o = spec[m].op =>
        \/ Membership(m) = s
        \/ ~spec[m].manual /\ (s \in since[m].seen \/ since[m].accepted)

\* An update that the channel can still take changes the membership.
Proposal(u) == u.base <= version /\ (u.base = version => Towards(u) # Membership(u.msp))

\* Where signatures are collected it also leads to what is declared.
Aimed(u) == u.base = version /\ spec[u.msp].manual => Towards(u) = spec[u.msp].state

JobStands(j, r) ==
    /\ Past(j[2], KeyState(j), KeyOp(j))
    /\ j[1] = "update" /\ r.arg.submit => ~spec[j[2]].manual
    /\ j[1] = "update" /\ KeyState(j) = "Present" => application[j[2]] \in App
    /\ r.step = "publish" /\ r.got.outcome # "staged" => Achieved(j[2], KeyState(j), KeyOp(j))
    /\ j[1] = "submit" => Proposal(j[5].update) /\ Aimed(j[5].update)
    /\ r.step # "start" /\ r.got.envelope # None => Proposal(r.got.envelope.update)

EvidenceStands(k, r) ==
    /\ Named(k) /\ Fits(k, r)
    /\ Past(k[2], KeyState(k), KeyOp(k))
    /\ r.outcome # "staged" => Achieved(k[2], KeyState(k), KeyOp(k))
    /\ r.envelope # None => Proposal(r.envelope.update)

\* An entry that the controller has read, and what it reports of it.
Read(m, e) ==
    /\ e \in Entry /\ Past(m, e.state, e.op)
    /\ spec[m].manual => e.manual
Reported(m, s) ==
    /\ m \in External /\ s \in ReportRecord /\ Read(m, s.entry)
    /\ s.ready => Achieved(m, s.entry.state, s.entry.op)

Shape ==
    /\ spec \in [External -> Entry \cup {None}]
    /\ artifact \in [External -> App]
    /\ signed \in [External -> EnvelopeRecord \cup {None}]
    /\ application \in [External -> App \cup {None}]
    /\ member \in [External -> App \cup {None}]
    /\ version \in Nat
    /\ pending \subseteq UpdateRecord
    /\ policy \in {"admin", "many"}
    /\ since \in [External -> [seen : SUBSET State, accepted : BOOLEAN]]
    /\ \A m \in External : Membership(m) \in since[m].seen

Proposals ==
    /\ \A u \in pending : Proposal(u) /\ Aimed(u)
    /\ \A m \in External : signed[m] # None =>
           /\ signed[m].update.msp = m
           /\ Proposal(signed[m].update) /\ Aimed(signed[m].update)

Work == \A j \in DOMAIN job : JobShape(j, job[j]) /\ JobStands(j, job[j])

Evidence == \A k \in DOMAIN evidence : EvidenceStands(k, evidence[k])

Reports ==
    /\ pass \in PassRecord(pass.spec, pass.out)
    /\ pass.at = "entries" => \A m \in Declared(pass.spec) : Read(m, pass.spec[m])
    /\ \A m \in DOMAIN pass.out : Reported(m, pass.out[m])
    /\ \A m \in DOMAIN status : Reported(m, status[m])

IInv == Shape /\ Proposals /\ Work /\ Evidence /\ Reports

-----------------------------------------------------------------------------
(* The operations on Jobs. *)

LEMMA NewJobShape ==
    ASSUME NEW arg
    PROVE  NewJob(arg) \in JobRecord(arg) /\ NewJob(arg).arg = arg
           /\ NewJob(arg).step = "start" /\ NewJob(arg).got = None
BY BoundsAreNatural DEF NewJob, JobRecord

\* Only Job j changes from f to e, and not what it was created for.
Touches(f, e, j) ==
    /\ DOMAIN e = DOMAIN f
    /\ \A n \in DOMAIN f \ {j} : e[n] = f[n]
    /\ e[j] \in JobRecord(e[j].arg) /\ e[j].arg = f[j].arg

LEMMA AdvancedJob ==
    ASSUME NEW f, NEW j \in DOMAIN f, f[j] \in JobRecord(f[j].arg),
           NEW step \in {"start", "submit", "await", "publish"}, NEW got \in ResultRecord \cup {None}
    PROVE  LET e == Advanced(f, j, step, got)
           IN  /\ Touches(f, e, j)
               /\ e[j].state = f[j].state /\ e[j].step = step /\ e[j].got = got
BY ZenonT(30) DEF Advanced, Touches, JobRecord

LEMMA ChangedState ==
    ASSUME NEW f, NEW j \in DOMAIN f, f[j] \in JobRecord(f[j].arg),
           NEW state \in {"active", "succeeded", "failed"}
    PROVE  LET e == [f EXCEPT ![j].state = state]
           IN  Touches(f, e, j) /\ e[j].state = state
BY DEF Touches, JobRecord

LEMMA ChangedTries ==
    ASSUME NEW f, NEW j \in DOMAIN f, f[j] \in JobRecord(f[j].arg),
           f[j].tries # BackoffLimit
    PROVE  LET e == [f EXCEPT ![j].tries = f[j].tries + 1]
           IN  Touches(f, e, j)
BY BoundsAreNatural DEF Touches, JobRecord

LEMMA SucceededJob ==
    ASSUME NEW f, NEW j \in DOMAIN f, f[j] \in JobRecord(f[j].arg)
    PROVE  LET e == Succeeded(f, j)
           IN  Touches(f, e, j) /\ e[j].step = "start" /\ e[j].got = None
<1> DEFINE g == [f EXCEPT ![j].state = "succeeded"]
<1>1. Touches(f, g, j)
  BY ChangedState, Zenon
<1>2. Succeeded(f, j) = Advanced(g, j, "start", None)
  BY DEF Succeeded, Advanced
<1> HIDE DEF g
<1>3. LET e == Advanced(g, j, "start", None)
      IN  Touches(g, e, j) /\ e[j].step = "start" /\ e[j].got = None
  BY <1>1, AdvancedJob DEF Touches
<1>. QED  BY <1>1, <1>2, <1>3 DEF Touches

LEMMA FailedPod ==
    ASSUME NEW f, NEW j \in DOMAIN f, f[j] \in JobRecord(f[j].arg)
    PROVE  LET e == AfterPod(f, j)
           IN  Touches(f, e, j) /\ e[j].step = "start" /\ e[j].got = None
<1>1. ASSUME NEW g, Touches(f, g, j)
      PROVE  LET e == Advanced(g, j, "start", None)
             IN  Touches(f, e, j) /\ e[j].step = "start" /\ e[j].got = None
  <2>1. LET e == Advanced(g, j, "start", None)
        IN  Touches(g, e, j) /\ e[j].step = "start" /\ e[j].got = None
    BY <1>1, AdvancedJob DEF Touches
  <2>. QED  BY <1>1, <2>1 DEF Touches
<1>2. CASE f[j].tries = BackoffLimit
  <2> DEFINE g == [f EXCEPT ![j].state = "failed"]
  <2>1. AfterPod(f, j) = Advanced(g, j, "start", None)
    BY <1>2 DEF AfterPod, Advanced
  <2>2. Touches(f, g, j)
    BY ChangedState, Zenon
  <2> HIDE DEF g
  <2>. QED  BY <1>1, <2>1, <2>2
<1>3. CASE f[j].tries # BackoffLimit
  <2> DEFINE g == [f EXCEPT ![j].tries = f[j].tries + 1]
  <2>1. AfterPod(f, j) = Advanced(g, j, "start", None)
    BY <1>3 DEF AfterPod, Advanced
  <2>2. Touches(f, g, j)
    BY <1>3, ChangedTries
  <2> HIDE DEF g
  <2>. QED  BY <1>1, <2>1, <2>2
<1>. QED  BY <1>2, <1>3

-----------------------------------------------------------------------------
(* What a step may not take back. *)

LEMMA InitIInv == Init => IInv
<1> SUFFICES ASSUME Init
             PROVE  IInv
  OBVIOUS
<1>1. PICK i \in Initial : spec = i.spec /\ artifact = [m \in External |-> i.app] /\ policy = i.policy
  BY DEF Init
<1>2. Shape
  BY <1>1, InitialIsDeclared, Zenon DEF Init, Shape, Nothing, Membership, State
<1>3. Proposals /\ Work /\ Evidence
  BY DEF Init, Proposals, Work, Evidence
<1>4. Reports
  BY DEF Init, Reports, Idle, PassRecord
<1>. QED  BY <1>2, <1>3, <1>4 DEF IInv

\* Transitions stay declared and carried out, and an update that the channel can
\* still take stays one that changes the membership, towards what is declared.
Lasting ==
    /\ \A m \in External, s \in State, o \in Op : Past(m, s, o) =>
           /\ Past(m, s, o)'
           /\ spec'[m].manual => spec[m].manual
           /\ Achieved(m, s, o) => Achieved(m, s, o)'
    /\ \A u \in UpdateRecord : Proposal(u) => Proposal(u)' /\ (Aimed(u) => Aimed(u)')

LEMMA LastingFrame ==
    ASSUME Shape, UNCHANGED <<spec, member, version>>,
           \A m \in External : /\ since[m].seen \subseteq since'[m].seen
                               /\ since[m].accepted => since'[m].accepted
    PROVE  Lasting
BY DEF Lasting, Past, Achieved, Proposal, Aimed, Membership

LEMMA LastingOther ==
    ASSUME Shape, UNCHANGED <<spec, member, since>>, version' = version + 1
    PROVE  Lasting
BY DEF Lasting, Past, Achieved, Proposal, Aimed, Membership, Shape, UpdateRecord

\* Signing only sets the reference to the signed update.
LEMMA SignedEntry ==
    ASSUME Shape, NEW m \in Declared(spec), spec' = [spec EXCEPT ![m].ref = TRUE]
    PROVE  /\ spec' \in [External -> Entry \cup {None}]
           /\ \A n \in External : spec[n] \in Entry =>
                  /\ spec'[n] \in Entry
                  /\ spec'[n].state = spec[n].state /\ spec'[n].op = spec[n].op
                  /\ spec'[n].manual = spec[n].manual
<1>1. m \in External /\ spec[m] \in Entry
  BY DEF Declared, Shape
<1>2. ASSUME NEW e \in Entry
      PROVE  LET f == [e EXCEPT !.ref = TRUE]
             IN  f \in Entry /\ f.state = e.state /\ f.op = e.op /\ f.manual = e.manual
  BY Zenon DEF Entry
<1>3. spec'[m] = [spec[m] EXCEPT !.ref = TRUE] /\ \A n \in External \ {m} : spec'[n] = spec[n]
  BY <1>1, Zenon DEF Shape
<1>. QED  BY <1>1, <1>2, <1>3 DEF Shape

LEMMA LastingSigned ==
    ASSUME Shape, NEW m \in Declared(spec), spec' = [spec EXCEPT ![m].ref = TRUE],
           UNCHANGED <<member, version, since>>
    PROVE  Lasting
<1>1. \A n \in External : /\ spec[n] \in Entry <=> spec'[n] \in Entry
                          /\ spec'[n].state = spec[n].state /\ spec'[n].op = spec[n].op
                          /\ spec'[n].manual = spec[n].manual
  <2>1. m \in External /\ spec[m] \in Entry
    BY DEF Declared, Shape
  <2>2. \A n \in External \ {m} : spec'[n] = spec[n]
    BY DEF Shape
  <2>. QED  BY <2>1, <2>2, SignedEntry, Zenon
<1>. QED  BY <1>1, ZenonT(60) DEF Lasting, Past, Achieved, Proposal, Aimed, Membership, UpdateRecord

\* A new transition of m has a name that no earlier one has; no update of m that the
\* channel can still take is around when it is declared in the other direction.
LEMMA LastingRedeclared ==
    ASSUME Shape, NEW m \in Declared(spec), NEW e \in Entry, Redeclare(m, e), e.manual = spec[m].manual,
           \/ e.op = spec[m].op + 1
           \/ spec[m].op = 0 /\ spec[m].state = "Present" /\ e.op = 0 /\ e.state = "Absent",
           e.state = spec[m].state \/ (spec[m].manual => Membership(m) = spec[m].state)
    PROVE  Lasting
<1>1. m \in External /\ spec[m] \in Entry
  BY DEF Declared, Shape
<1>2. /\ spec'[m] = e /\ \A n \in External \ {m} : spec'[n] = spec[n] /\ since'[n] = since[n]
      /\ UNCHANGED <<member, version>>
  BY <1>1 DEF Redeclare, Shape, channel
<1>3. ASSUME NEW n \in External, NEW s \in State, NEW o \in Op, Past(n, s, o)
      PROVE  /\ Past(n, s, o)' /\ (spec'[n].manual => spec[n].manual)
             /\ Achieved(n, s, o) => Achieved(n, s, o)'
  <2>1. CASE n # m
    BY <1>2, <1>3, <2>1 DEF Past, Achieved, Membership
  <2>2. CASE n = m
    <3>1. e.op \in Nat /\ spec[m].op \in Nat /\ o \in Nat
      BY <1>1, BoundsAreNatural DEF Entry, Op
    <3>2. Past(m, s, o)' /\ ~(s = e.state /\ o = e.op)
      BY <1>2, <1>3, <2>2, <3>1 DEF Past
    <3>. QED  BY <1>2, <2>2, <3>2 DEF Achieved
  <2>. QED  BY <2>1, <2>2
<1>4. ASSUME NEW u \in UpdateRecord, Proposal(u)
      PROVE  Proposal(u)' /\ (Aimed(u) => Aimed(u)')
  <2>1. Proposal(u)'
    BY <1>2, <1>4 DEF Proposal, Membership
  <2>2. CASE u.msp # m
    BY <1>2, <2>1, <2>2 DEF Aimed, UpdateRecord
  <2>3. CASE u.msp = m
    BY <1>2, <1>4, <2>1, <2>3 DEF Aimed, Proposal
  <2>. QED  BY <2>1, <2>2, <2>3
<1>. QED  BY <1>3, <1>4 DEF Lasting

\* Ordering an update moves the membership of its organization, where signatures are
\* collected to what is declared; all other updates become stale.
LEMMA LastingOrder ==
    ASSUME Shape, Proposals, NEW u \in pending, Order(u)
    PROVE  Lasting
<1>1. u \in UpdateRecord /\ Proposal(u) /\ Aimed(u) /\ u.msp \in External
  BY DEF Shape, Proposals, UpdateRecord
<1>2. CASE u.base # version
  BY <1>2, LastingFrame DEF Order, declared
<1>3. CASE u.base = version
  <2>1. /\ version' = version + 1 /\ spec' = spec
        /\ Membership(u.msp)' = Towards(u)
        /\ \A n \in External \ {u.msp} : Membership(n)' = Membership(n)
        /\ \A n \in External : since[n].seen \subseteq since'[n].seen /\ since'[n].accepted = since[n].accepted
    BY <1>1, <1>3 DEF Order, declared, Membership, Towards, Shape
  <2>2. ASSUME NEW n \in External, NEW s \in State, NEW o \in Op, Past(n, s, o)
        PROVE  /\ Past(n, s, o)' /\ (spec'[n].manual => spec[n].manual)
               /\ Achieved(n, s, o) => Achieved(n, s, o)'
    <3>1. Past(n, s, o)' /\ spec'[n].manual = spec[n].manual
      BY <2>1, <2>2 DEF Past
    <3>2. CASE n # u.msp
      BY <2>1, <3>1, <3>2 DEF Achieved
    <3>3. CASE n = u.msp
      BY <1>1, <1>3, <2>1, <3>1, <3>3 DEF Achieved, Aimed, Shape
    <3>. QED  BY <3>1, <3>2, <3>3
  <2>3. ASSUME NEW v \in UpdateRecord, Proposal(v)
        PROVE  Proposal(v)' /\ (Aimed(v) => Aimed(v)')
    BY <2>1, <2>3 DEF Proposal, Aimed, Shape, UpdateRecord
  <2>. QED  BY <2>2, <2>3 DEF Lasting
<1>. QED  BY <1>2, <1>3

-----------------------------------------------------------------------------
(* What lasts keeps the groups of the invariant. *)

LEMMA CarriedUpdate ==
    ASSUME NEW k, NEW r, Fits(k, r), r.envelope # None
    PROVE  r.envelope \in EnvelopeRecord /\ r.envelope.update \in UpdateRecord
BY DEF Fits, ResultRecord, EnvelopeRecord

LEMMA KeptJob ==
    ASSUME Lasting, NEW j, NEW r, JobShape(j, r), JobStands(j, r),
           \A m \in External : application[m] \in App => application'[m] \in App
    PROVE  JobStands(j, r)'
<1>1. /\ j[2] \in External /\ KeyState(j) \in State /\ KeyOp(j) \in Op
      /\ Past(j[2], KeyState(j), KeyOp(j))
  BY DEF JobShape, JobStands, Named
<1>2. j[1] = "submit" => j[5].update \in UpdateRecord
  BY DEF JobShape, Named, EnvelopeRecord
<1>3. r.step # "start" /\ r.got.envelope # None => r.got.envelope.update \in UpdateRecord
  BY CarriedUpdate DEF JobShape
<1>4. /\ Past(j[2], KeyState(j), KeyOp(j))'
      /\ spec'[j[2]].manual => spec[j[2]].manual
      /\ Achieved(j[2], KeyState(j), KeyOp(j)) => Achieved(j[2], KeyState(j), KeyOp(j))'
  BY <1>1 DEF Lasting
<1>5. j[1] = "submit" => Proposal(j[5].update)' /\ Aimed(j[5].update)'
  BY <1>2 DEF Lasting, JobStands
<1>6. r.step # "start" /\ r.got.envelope # None => Proposal(r.got.envelope.update)'
  BY <1>3 DEF Lasting, JobStands
<1>. QED  BY <1>1, <1>4, <1>5, <1>6 DEF JobStands

LEMMA WorkFrame ==
    ASSUME Work, Lasting,
           \A m \in External : application[m] \in App => application'[m] \in App,
           \A n \in DOMAIN job' : \/ n \in DOMAIN job /\ job'[n] = job[n]
                                  \/ JobShape(n, job'[n]) /\ JobStands(n, job[n])'
    PROVE  Work'
<1> SUFFICES ASSUME NEW n \in DOMAIN job'
             PROVE  JobShape(n, job'[n]) /\ JobStands(n, job[n])'
  BY DEF Work
<1>1. CASE n \in DOMAIN job /\ job'[n] = job[n]
  <2>1. PICK r : r = job[n]
    OBVIOUS
  <2>2. JobShape(n, r) /\ JobStands(n, r)
    BY <1>1, <2>1 DEF Work
  <2>3. JobStands(n, r)'
    BY <2>2, KeptJob
  <2>4. r = job'[n]
    BY <1>1, <2>1
  <2>. QED  BY <2>2, <2>3, <2>4 DEF JobStands
<1>. QED  BY <1>1

LEMMA KeptEvidence ==
    ASSUME Lasting, NEW k, NEW r, EvidenceStands(k, r)
    PROVE  EvidenceStands(k, r)'
<1>1. /\ k[2] \in External /\ KeyState(k) \in State /\ KeyOp(k) \in Op
      /\ Past(k[2], KeyState(k), KeyOp(k))
  BY DEF EvidenceStands, Named
<1>2. r.envelope # None => r.envelope.update \in UpdateRecord
  BY CarriedUpdate DEF EvidenceStands
<1>. QED  BY <1>1, <1>2 DEF Lasting, EvidenceStands

LEMMA EvidenceFrame ==
    ASSUME Evidence, Lasting,
           \A k \in DOMAIN evidence' : \/ k \in DOMAIN evidence /\ evidence'[k] = evidence[k]
                                       \/ EvidenceStands(k, evidence[k])'
    PROVE  Evidence'
<1> SUFFICES ASSUME NEW k \in DOMAIN evidence'
             PROVE  EvidenceStands(k, evidence[k])'
  BY DEF Evidence
<1>1. CASE k \in DOMAIN evidence /\ evidence'[k] = evidence[k]
  <2>1. PICK r : r = evidence[k]
    OBVIOUS
  <2>2. EvidenceStands(k, r)'
    BY <1>1, <2>1, KeptEvidence DEF Evidence
  <2>3. r = evidence'[k]
    BY <1>1, <2>1
  <2>. QED  BY <2>2, <2>3 DEF EvidenceStands
<1>. QED  BY <1>1

LEMMA KeptRead ==
    ASSUME Lasting, NEW m \in External, NEW e, Read(m, e)
    PROVE  Read(m, e)'
BY DEF Lasting, Read, Entry

LEMMA KeptReport ==
    ASSUME Lasting, NEW m, NEW s, Reported(m, s)
    PROVE  Reported(m, s)'
<1>1. m \in External /\ s.entry \in Entry /\ Past(m, s.entry.state, s.entry.op)
  BY DEF Reported, Read
<1>2. Read(m, s.entry)'
  BY <1>1, KeptRead DEF Reported
<1>. QED  BY <1>1, <1>2 DEF Lasting, Reported, Entry

LEMMA ReportsFrame ==
    ASSUME Reports, Lasting, UNCHANGED <<pass, status>>
    PROVE  Reports'
<1>1. pass' \in PassRecord(pass.spec, pass.out)'
  BY DEF Reports, PassRecord
<1>2. ASSUME pass'.at = "entries", NEW m \in Declared(pass.spec)'
      PROVE  Read(m, pass.spec[m])'
  <2>1. PICK e : e = pass.spec[m]
    OBVIOUS
  <2>2. Read(m, e)'
    BY <1>2, <2>1, KeptRead DEF Reports, Declared
  <2>. QED  BY <2>1, <2>2 DEF Read
<1>3. ASSUME NEW m, NEW s, Reported(m, s)
      PROVE  Reported(m, s)'
  BY <1>3, KeptReport
<1>4. ASSUME NEW m \in DOMAIN pass'.out
      PROVE  Reported(m, pass.out[m])'
  <2>1. PICK s : s = pass.out[m]
    OBVIOUS
  <2>2. Reported(m, s)'
    BY <1>3, <2>1 DEF Reports
  <2>. QED  BY <2>1, <2>2 DEF Reported, Read
<1>5. ASSUME NEW m \in DOMAIN status'
      PROVE  Reported(m, status[m])'
  <2>1. PICK s : s = status[m]
    OBVIOUS
  <2>2. Reported(m, s)'
    BY <1>3, <2>1 DEF Reports
  <2>. QED  BY <2>1, <2>2 DEF Reported, Read
<1>. QED  BY <1>1, <1>2, <1>4, <1>5 DEF Reports

LEMMA ProposalsFrame ==
    ASSUME Shape, Proposals, Lasting,
           \A u \in pending' : u \in pending \/ (Proposal(u)' /\ Aimed(u)'),
           \A m \in External : \/ signed'[m] = signed[m]
                               \/ /\ signed'[m].update.msp = m
                                  /\ Proposal(signed[m].update)' /\ Aimed(signed[m].update)'
    PROVE  Proposals'
<1>1. \A u \in pending' : Proposal(u)' /\ Aimed(u)'
  BY DEF Shape, Proposals, Lasting
<1>2. ASSUME NEW m \in External, signed'[m] # None, signed'[m] = signed[m]
      PROVE  signed'[m].update.msp = m /\ Proposal(signed[m].update)' /\ Aimed(signed[m].update)'
  <2>1. PICK u : u = signed[m].update
    OBVIOUS
  <2>2. u \in UpdateRecord /\ u.msp = m /\ Proposal(u) /\ Aimed(u)
    BY <1>2, <2>1 DEF Shape, Proposals, EnvelopeRecord
  <2>3. Proposal(u)' /\ Aimed(u)'
    BY <2>2 DEF Lasting
  <2>. QED  BY <1>2, <2>1, <2>2, <2>3 DEF Proposal, Aimed
<1>. QED  BY <1>1, <1>2 DEF Proposals

-----------------------------------------------------------------------------
(* The channel. *)

LEMMA OrderKeeps ==
    ASSUME IInv, NEW u \in pending, Order(u)
    PROVE  IInv'
<1> USE DEF IInv
<1>1. Lasting
  BY LastingOrder
<1>2. UNCHANGED <<spec, artifact, signed, evidence, job, policy, application, pass, status>>
      /\ pending' = pending \ {u}
  BY DEF Order, declared, controller
<1>3. Shape'
  <2>1. CASE u.base # version
    BY <1>2, <2>1 DEF Order, Shape, Membership
  <2>2. CASE u.base = version
    <3>1. u.msp \in External /\ u.app \in App \cup {None}
      BY DEF Shape, UpdateRecord
    <3>2. /\ member' = [member EXCEPT ![u.msp] = u.app] /\ version' = version + 1
          /\ since' = [since EXCEPT ![u.msp].seen = @ \cup {IF u.app = None THEN "Absent" ELSE "Present"}]
      BY <2>2 DEF Order
    <3>3. since' \in [External -> [seen : SUBSET State, accepted : BOOLEAN]]
      BY <3>1, <3>2 DEF Shape, State
    <3>4. \A m \in External : Membership(m)' \in since'[m].seen
      BY <3>1, <3>2 DEF Shape, Membership
    <3>. QED  BY <1>2, <3>1, <3>2, <3>3, <3>4 DEF Shape
  <2>. QED  BY <2>1, <2>2
<1>. QED  BY <1>1, <1>2, <1>3, ProposalsFrame, WorkFrame, EvidenceFrame, ReportsFrame

LEMMA LoseKeeps ==
    ASSUME IInv, NEW u \in pending, Lose(u)
    PROVE  IInv'
<1> USE DEF IInv
<1>1. /\ UNCHANGED <<spec, artifact, signed, evidence, job, member, version, policy, since>>
      /\ UNCHANGED <<application, pass, status>>
      /\ pending' = pending \ {u}
  BY DEF Lose, declared, controller
<1>2. Lasting
  BY <1>1, LastingFrame
<1>3. Shape'
  BY <1>1 DEF Shape, Membership
<1>. QED  BY <1>1, <1>2, <1>3, ProposalsFrame, WorkFrame, EvidenceFrame, ReportsFrame

LEMMA OtherChangeKeeps ==
    ASSUME IInv, OtherChange
    PROVE  IInv'
<1> USE DEF IInv
<1>1. /\ UNCHANGED <<spec, artifact, signed, evidence, job, member, pending, policy, since>>
      /\ UNCHANGED <<application, pass, status>>
      /\ version' = version + 1
  BY DEF OtherChange, declared, controller
<1>2. Lasting
  BY <1>1, LastingOther
<1>3. Shape'
  BY <1>1 DEF Shape, Membership
<1>. QED  BY <1>1, <1>2, <1>3, ProposalsFrame, WorkFrame, EvidenceFrame, ReportsFrame

-----------------------------------------------------------------------------
(* The users. *)

\* What the status says of a ready entry.
LEMMA ReadyIsAchieved ==
    ASSUME IInv, NEW m \in Declared(spec), IsReady(m)
    PROVE  \/ Membership(m) = spec[m].state
           \/ ~spec[m].manual /\ (spec[m].state \in since[m].seen \/ since[m].accepted)
BY DEF IInv, Reports, Reported, IsReady, Achieved

LEMMA RedeclareKeeps ==
    ASSUME IInv, NEW m \in Declared(spec), NEW e \in Entry, Redeclare(m, e), Lasting
    PROVE  IInv'
<1> USE DEF IInv
<1>1. /\ UNCHANGED <<artifact, signed, evidence, job, member, version, pending, policy>>
      /\ UNCHANGED <<application, pass, status>>
      /\ spec' = [spec EXCEPT ![m] = e]
      /\ since' = [since EXCEPT ![m] = [Nothing EXCEPT !.seen = {Membership(m)}]]
  BY DEF Redeclare, channel, controller
<1>2. Shape'
  <2>1. m \in External
    BY DEF Declared
  <2>2. PICK r : r = [Nothing EXCEPT !.seen = {Membership(m)}]
    BY Zenon
  <2>3. r.seen = {Membership(m)}
    BY <2>2 DEF Nothing
  <2>4. r \in [seen : SUBSET State, accepted : BOOLEAN]
    <3>1. {Membership(m)} \in SUBSET State
      BY DEF Membership, State
    <3>. QED  BY <2>2, <3>1, Zenon DEF Nothing
  <2>5. since' = [since EXCEPT ![m] = r]
    BY <1>1, <2>2
  <2>. QED  BY <1>1, <2>1, <2>3, <2>4, <2>5, ZenonT(30) DEF Shape, Membership
<1>. QED  BY <1>1, <1>2, ProposalsFrame, WorkFrame, EvidenceFrame, ReportsFrame

LEMMA EditEntryKeeps ==
    ASSUME IInv, NEW m \in Declared(spec), EditEntry(m)
    PROVE  IInv'
<1> DEFINE e(op) == [spec[m] EXCEPT !.state = Opposite(spec[m].state), !.op = op, !.anchors = None]
<1>1. PICK op \in {spec[m].op + 1} \cup (IF spec[m].op = 0 /\ spec[m].state = "Present" THEN {0} ELSE {}) :
          op \in Op /\ Redeclare(m, e(op))
  BY Zenon DEF EditEntry
<1>2. Shape /\ spec[m] \in Entry
  BY DEF IInv, Shape, Declared
<1>3. /\ e(op) \in Entry /\ e(op).state = Opposite(spec[m].state) /\ e(op).op = op
      /\ e(op).manual = spec[m].manual
  <2>1. Opposite(spec[m].state) \in State
    BY DEF Opposite, State
  <2>. QED  BY <1>1, <1>2, <2>1, Zenon DEF Entry
<1>4. spec[m].manual => Membership(m) = spec[m].state
  BY ReadyIsAchieved DEF EditEntry
<1>5. PICK f : f = e(op)
  OBVIOUS
<1> HIDE DEF e
<1>6. f \in Entry /\ Redeclare(m, f) /\ f.manual = spec[m].manual
  BY <1>1, <1>3, <1>5
<1>7. \/ f.op = spec[m].op + 1
      \/ spec[m].op = 0 /\ spec[m].state = "Present" /\ f.op = 0 /\ f.state = "Absent"
  BY <1>1, <1>3, <1>5 DEF Opposite
<1>8. Lasting
  BY <1>2, <1>4, <1>6, <1>7, LastingRedeclared
<1>. QED  BY <1>6, <1>8, RedeclareKeeps

LEMMA RegenerateKeeps ==
    ASSUME IInv, NEW m \in Declared(spec), Regenerate(m)
    PROVE  IInv'
<1>1. PICK f : f = [spec[m] EXCEPT !.op = spec[m].op + 1]
  BY Zenon
<1>2. Redeclare(m, f) /\ spec[m].op + 1 \in Op
  BY <1>1 DEF Regenerate
<1>3. Shape /\ spec[m] \in Entry
  BY DEF IInv, Shape, Declared
<1>4. f \in Entry /\ f.state = spec[m].state /\ f.op = spec[m].op + 1 /\ f.manual = spec[m].manual
  BY <1>1, <1>2, <1>3, Zenon DEF Entry
<1>5. Lasting
  BY <1>2, <1>3, <1>4, LastingRedeclared
<1>. QED  BY <1>2, <1>4, <1>5, RedeclareKeeps

LEMMA ReplaceArtifactKeeps ==
    ASSUME IInv, NEW m \in Declared(spec), ReplaceArtifact(m)
    PROVE  IInv'
<1> USE DEF IInv
<1>1. /\ UNCHANGED <<spec, signed, evidence, job, member, version, pending, policy, since>>
      /\ UNCHANGED <<application, pass, status>>
      /\ artifact' \in [External -> App]
  BY ZenonT(30) DEF ReplaceArtifact, channel, controller, Shape
<1>2. Lasting
  BY <1>1, LastingFrame
<1>3. Shape'
  BY <1>1 DEF Shape, Membership
<1>. QED  BY <1>1, <1>2, <1>3, ProposalsFrame, WorkFrame, EvidenceFrame, ReportsFrame

\* What is staged for the current entry is an update towards it.
LEMMA StagedIsAimed ==
    ASSUME IInv, NEW m \in Declared(spec), Staged(m)
    PROVE  LET u == StagedUpdate(m)
           IN  u \in UpdateRecord /\ u.msp = m /\ Proposal(u) /\ Towards(u) = spec[m].state
<1> DEFINE k == channelExternalOrgUpdateJobName(m, spec[m])
<1>1. k \in DOMAIN evidence /\ evidence[k].outcome = "staged" /\ StagedUpdate(m) = evidence[k].envelope.update
  BY DEF Staged, StagedUpdate
<1>2. k[1] = "update" /\ k[2] = m /\ KeyState(k) = spec[m].state
  BY DEF channelExternalOrgUpdateJobName, KeyState
<1>3. EvidenceStands(k, evidence[k])
  BY <1>1 DEF IInv, Evidence
<1> HIDE DEF k
<1>4. evidence[k].envelope # None
  BY <1>1, <1>2, <1>3 DEF EvidenceStands, Fits
<1>5. evidence[k].envelope.update \in UpdateRecord
  BY <1>3, <1>4, CarriedUpdate DEF EvidenceStands
<1>. QED  BY <1>1, <1>2, <1>3, <1>4, <1>5 DEF EvidenceStands, Fits

LEMMA SigningKeeps ==
    ASSUME IInv, NEW m \in Declared(spec), Staged(m), NEW n \in {"none", "few", "enough"},
           signed' = [signed EXCEPT ![m] = [update |-> StagedUpdate(m), signatures |-> n]],
           spec' = [spec EXCEPT ![m].ref = TRUE],
           UNCHANGED <<artifact, evidence, job, channel, controller, since>>
    PROVE  IInv'
<1> USE DEF IInv
<1>1. /\ UNCHANGED <<member, version, pending, policy, application, pass, status>>
      /\ m \in External /\ spec[m] \in Entry
  BY DEF channel, controller, Declared, Shape
<1>2. Lasting
  BY <1>1, LastingSigned, Zenon
<1>3. PICK u : u = StagedUpdate(m)
  OBVIOUS
<1>4. u \in UpdateRecord /\ u.msp = m /\ Proposal(u) /\ Towards(u) = spec[m].state
  BY <1>3, StagedIsAimed
<1>5. /\ signed'[m] = [update |-> u, signatures |-> n] /\ signed'[m] \in EnvelopeRecord
      /\ \A k \in External \ {m} : signed'[k] = signed[k]
      /\ signed' \in [External -> EnvelopeRecord \cup {None}]
  BY <1>1, <1>3, <1>4 DEF Shape, EnvelopeRecord
<1>6. spec' \in [External -> Entry \cup {None}] /\ spec'[m].state = spec[m].state
  BY <1>1, SignedEntry, Zenon
<1>7. Shape'
  BY <1>1, <1>5, <1>6 DEF Shape, Membership
<1>8. Proposals'
  <2>1. signed'[m].update = u
    BY <1>5
  <2>2. Proposal(u)' /\ Aimed(u)'
    BY <1>1, <1>4, <1>6 DEF Proposal, Aimed, Membership
  <2>3. Proposal(signed[m].update)' /\ Aimed(signed[m].update)'
    BY <2>1, <2>2 DEF Proposal, Aimed
  <2>. QED  BY <1>1, <1>2, <1>4, <1>5, <2>1, <2>3, ProposalsFrame
<1>. QED  BY <1>1, <1>2, <1>7, <1>8, WorkFrame, EvidenceFrame, ReportsFrame

-----------------------------------------------------------------------------
(* The Jobs. *)

\* A step of one Job that leaves what is declared and the channel's state alone.
LEMMA JobStepKeeps ==
    ASSUME IInv, NEW j \in DOMAIN job, Touches(job, job', j),
           UNCHANGED <<declared, evidence, member, version, policy, controller>>,
           since' \in [External -> [seen : SUBSET State, accepted : BOOLEAN]],
           \A m \in External : since'[m].seen = since[m].seen /\ (since[m].accepted => since'[m].accepted),
           pending' \subseteq UpdateRecord,
           \A u \in pending' : u \in pending \/ (Proposal(u)' /\ Aimed(u)'),
           JobShape(j, job'[j]), JobStands(j, job[j])'
    PROVE  IInv'
<1> USE DEF IInv
<1>1. UNCHANGED <<spec, artifact, signed, evidence, member, version, policy, application, pass, status>>
  BY DEF declared, controller
<1>2. Lasting
  BY <1>1, LastingFrame
<1>3. Shape'
  BY <1>1 DEF Shape, Membership
<1>4. Work'
  BY <1>1, <1>2, WorkFrame DEF Touches
<1>. QED  BY <1>1, <1>2, <1>3, <1>4, ProposalsFrame, EvidenceFrame, ReportsFrame

\* A Job whose Pod starts over or ends knows nothing.
LEMMA RestedJob ==
    ASSUME IInv, NEW j \in DOMAIN job, Touches(job, job', j),
           job'[j].step = "start", job'[j].got = None,
           UNCHANGED <<declared, member, version, application>>,
           \A m \in External : since'[m].seen = since[m].seen /\ (since[m].accepted => since'[m].accepted)
    PROVE  JobShape(j, job'[j]) /\ JobStands(j, job[j])'
<1>1. JobShape(j, job[j]) /\ JobStands(j, job[j])
  BY DEF IInv, Work
<1>2. JobShape(j, job'[j])
  BY <1>1 DEF JobShape, Touches
<1>. QED  BY <1>1, <1>2, Zenon DEF JobStands, Touches, Past, Proposal, Aimed, Membership, declared

LEMMA LosePodKeeps ==
    ASSUME IInv, NEW j \in DOMAIN job, LosePod(j)
    PROVE  IInv'
<1>1. UNCHANGED <<declared, evidence, member, version, pending, policy, controller, application, since>>
  BY DEF LosePod, channel, controller
<1>2. Touches(job, job', j) /\ job'[j].step = "start" /\ job'[j].got = None
  BY FailedPod, Zenon DEF LosePod, IInv, Work, JobShape
<1>3. JobShape(j, job'[j]) /\ JobStands(j, job[j])'
  BY <1>1, <1>2, RestedJob
<1>. QED  BY <1>1, <1>2, <1>3, JobStepKeeps, Zenon DEF IInv, Shape

LEMMA DeleteFailedJobKeeps ==
    ASSUME IInv, NEW j \in DOMAIN job, DeleteFailedJob(j)
    PROVE  IInv'
<1> USE DEF IInv
<1>1. UNCHANGED <<spec, artifact, signed, evidence, member, version, pending, policy, application, pass, status, since>>
  BY DEF DeleteFailedJob, declared, channel, controller
<1>2. Lasting
  BY <1>1, LastingFrame
<1>3. Shape'
  BY <1>1 DEF Shape, Membership
<1>4. Work'
  BY <1>1, <1>2, WorkFrame DEF DeleteFailedJob, Without
<1>. QED  BY <1>1, <1>2, <1>3, <1>4, ProposalsFrame, EvidenceFrame, ReportsFrame

\* The update that a Job computes leads to the state in its name.
LEMMA ComputedUpdate ==
    ASSUME IInv, NEW j \in DOMAIN job, j[1] = "update", Membership(j[2]) # job[j].arg.entry.state
    PROVE  LET u == Transition(j)
           IN  u \in UpdateRecord /\ u.msp = j[2] /\ Towards(u) = KeyState(j) /\ Proposal(u)
<1>1. JobShape(j, job[j]) /\ JobStands(j, job[j]) /\ Shape
  BY DEF IInv, Work
<1>2. j[2] \in External /\ KeyState(j) \in State /\ job[j].arg.entry.state = KeyState(j)
  BY <1>1 DEF JobShape, Named
<1>3. KeyState(j) = "Present" => application[j[2]] \in App
  BY <1>1 DEF JobStands
<1>4. version \in Nat
  BY <1>1 DEF Shape
<1>. QED  BY <1>2, <1>3, <1>4, NoneIsAbsent DEF Transition, Update, UpdateRecord, Towards, Proposal, State

\* What a script that computes the update of Job j may come to.
Outcome(j, outcome, envelope) ==
    /\ outcome \in {"alreadyApplied", "submitted", "staged"}
    /\ \/ outcome = "alreadyApplied" /\ envelope = None
       \/ /\ envelope \in EnvelopeRecord /\ envelope.update.msp = j[2]
          /\ Towards(envelope.update) = KeyState(j)

LEMMA ComputedResult ==
    ASSUME IInv, NEW j \in DOMAIN job, j[1] = "update", NEW outcome, NEW envelope, Outcome(j, outcome, envelope),
           NEW r, r = Result(job[j].arg.entry, outcome, MountedAnchors(j), envelope)
    PROVE  Fits(j, r) /\ r.outcome = outcome /\ r.envelope = envelope
<1>1. JobShape(j, job[j]) /\ Shape
  BY DEF IInv, Work
<1>2. /\ j[2] \in External /\ KeyState(j) \in State /\ KeyOp(j) \in Op
      /\ job[j].arg.entry.state = KeyState(j) /\ job[j].arg.entry.op = KeyOp(j)
  BY <1>1 DEF JobShape, Named
<1>3. MountedAnchors(j) \in App \cup {None}
  BY <1>1, <1>2 DEF MountedAnchors, Shape
<1>4. envelope \in EnvelopeRecord => envelope # None
  BY NoneIsAbsent
<1>. QED  BY <1>2, <1>3, <1>4 DEF Result, Fits, ResultRecord, Outcome

LEMMA UpdateGoesOn ==
    ASSUME IInv, NEW j \in DOMAIN job, j[1] = "update", NEW step \in {"submit", "publish"}, NEW r,
           job' = Advanced(job, j, step, r), Fits(j, r),
           r.envelope # None => Proposal(r.envelope.update),
           step = "submit" => job[j].arg.submit /\ r.outcome = "submitted",
           step = "publish" /\ r.outcome # "staged" => Membership(j[2]) = KeyState(j),
           UNCHANGED <<pending, since, declared, evidence, member, version, policy, controller>>
    PROVE  IInv'
<1>1. JobShape(j, job[j]) /\ JobStands(j, job[j]) /\ Shape
  BY DEF IInv, Work
<1>2. r \in ResultRecord /\ job[j] \in JobRecord(job[j].arg)
  BY <1>1 DEF Fits, JobShape
<1>3. Touches(job, job', j) /\ job'[j].step = step /\ job'[j].got = r
  BY <1>2, AdvancedJob
<1>4. JobShape(j, job'[j])
  BY <1>1, <1>3 DEF JobShape, Touches
<1>5. application' = application /\ spec' = spec
  BY DEF controller, declared
<1>6. /\ job'[j].arg.submit => ~spec'[j[2]].manual
      /\ Past(j[2], KeyState(j), KeyOp(j))'
      /\ KeyState(j) = "Present" => application'[j[2]] \in App
  BY <1>1, <1>3, <1>5 DEF JobStands, Touches, Past
<1>7. step = "publish" /\ r.outcome # "staged" => Achieved(j[2], KeyState(j), KeyOp(j))'
  BY DEF Achieved, Membership
<1>8. r.envelope # None => Proposal(job[j].got.envelope.update)'
  BY <1>3 DEF Proposal, Membership
<1>9. JobStands(j, job[j])'
  BY <1>3, <1>6, <1>7, <1>8, Zenon DEF JobStands
<1>10. /\ since' \in [External -> [seen : SUBSET State, accepted : BOOLEAN]]
       /\ pending' \subseteq UpdateRecord
  BY <1>1 DEF Shape
<1>. QED  BY <1>3, <1>4, <1>9, <1>10, JobStepKeeps

LEMMA AddExternalOrgKeeps ==
    ASSUME IInv, NEW j \in DOMAIN job, j[1] = "update", addExternalOrgScript(j),
           UNCHANGED <<pending, since, declared, evidence, member, version, policy, controller, left>>
    PROVE  IInv'
<1>1. job[j].arg.entry.state = KeyState(j)
  BY DEF IInv, Work, JobShape
<1>2. CASE Membership(j[2]) = job[j].arg.entry.state
  <2>1. PICK outcome, envelope, r :
            /\ outcome = "alreadyApplied" /\ envelope = None
            /\ r = Result(job[j].arg.entry, outcome, MountedAnchors(j), envelope)
    OBVIOUS
  <2>2. job' = Advanced(job, j, "publish", r)
    BY <1>2, <2>1 DEF addExternalOrgScript
  <2>3. Outcome(j, outcome, envelope)
    BY <2>1 DEF Outcome
  <2>4. r = Result(job[j].arg.entry, outcome, MountedAnchors(j), envelope)
    BY <2>1
  <2>5. Fits(j, r) /\ r.outcome = outcome /\ r.envelope = envelope
    BY <2>3, <2>4, ComputedResult
  <2>. QED  BY <1>1, <1>2, <2>1, <2>2, <2>5, UpdateGoesOn
<1>3. CASE Membership(j[2]) # job[j].arg.entry.state
  <2>1. PICK u : u = Transition(j)
    OBVIOUS
  <2>2. u \in UpdateRecord /\ u.msp = j[2] /\ Towards(u) = KeyState(j) /\ Proposal(u)
    BY <1>3, <2>1, ComputedUpdate
  <2>3. PICK envelope : envelope = Unsigned(u)
    OBVIOUS
  <2>4. envelope \in EnvelopeRecord /\ envelope.update = u /\ envelope # None
    BY <2>2, <2>3, NoneIsAbsent DEF Unsigned, EnvelopeRecord
  <2>5. PICK outcome \in {"submitted", "staged"}, step \in {"submit", "publish"} :
            /\ outcome = "submitted" => step = "submit" /\ job[j].arg.submit
            /\ outcome = "staged" => step = "publish"
            /\ job' = Advanced(job, j, step, Result(job[j].arg.entry, outcome, MountedAnchors(j), envelope))
    BY <1>3, <2>1, <2>3 DEF addExternalOrgScript
  <2>6. PICK r : r = Result(job[j].arg.entry, outcome, MountedAnchors(j), envelope)
    OBVIOUS
  <2>7. Fits(j, r) /\ r.envelope = envelope /\ r.outcome = outcome
    <3>1. Outcome(j, outcome, envelope)
      BY <2>2, <2>4 DEF Outcome
    <3>. QED  BY <2>6, <3>1, ComputedResult
  <2>8. Proposal(r.envelope.update)
    BY <2>2, <2>4, <2>7
  <2>. QED  BY <2>5, <2>6, <2>7, <2>8, UpdateGoesOn
<1>. QED  BY <1>2, <1>3
-----------------------------------------------------------------------------

(* The Jobs that send an update, and the container that publishes a result. *)

LEMMA BroadcastUpdate ==
    ASSUME Shape, NEW u \in UpdateRecord, NEW entry, Broadcast(u, entry)
    PROVE  /\ pending' = pending \cup {u} /\ pending' \subseteq UpdateRecord
           /\ since' \in [External -> [seen : SUBSET State, accepted : BOOLEAN]]
           /\ \A m \in External : since'[m].seen = since[m].seen /\ (since[m].accepted => since'[m].accepted)
           /\ spec[u.msp].state = entry.state /\ spec[u.msp].op = entry.op => since'[u.msp].accepted
<1>1. PICK b \in BOOLEAN : b = (since[u.msp].accepted
                               \/ (spec[u.msp].state = entry.state /\ spec[u.msp].op = entry.op))
  BY Zenon
<1>2. since' = [since EXCEPT ![u.msp].accepted = b]
  BY <1>1, Zenon DEF Broadcast
<1>3. u.msp \in External
  BY DEF UpdateRecord
<1>4. ASSUME NEW r \in [seen : SUBSET State, accepted : BOOLEAN]
      PROVE  LET f == [r EXCEPT !.accepted = b]
             IN  f \in [seen : SUBSET State, accepted : BOOLEAN] /\ f.seen = r.seen /\ f.accepted = b
  BY Zenon
<1>5. /\ since'[u.msp] = [since[u.msp] EXCEPT !.accepted = b]
      /\ \A m \in External \ {u.msp} : since'[m] = since[m]
      /\ DOMAIN since' = External /\ since' = [m \in External |-> since'[m]]
  BY <1>2, <1>3, Zenon DEF Shape
<1>6. since[u.msp] \in [seen : SUBSET State, accepted : BOOLEAN]
  BY <1>3 DEF Shape
<1>7. /\ since'[u.msp] \in [seen : SUBSET State, accepted : BOOLEAN]
      /\ since'[u.msp].seen = since[u.msp].seen /\ since'[u.msp].accepted = b
  BY <1>4, <1>5, <1>6, Zenon
<1>8. since' \in [External -> [seen : SUBSET State, accepted : BOOLEAN]]
  BY <1>5, <1>7 DEF Shape
<1>9. pending' = pending \cup {u} /\ pending' \subseteq UpdateRecord
  BY DEF Broadcast, Shape
<1>. QED  BY <1>1, <1>5, <1>7, <1>8, <1>9

LEMMA SubmitUpdateKeeps ==
    ASSUME IInv, NEW j \in DOMAIN job, j[1] = "update", SubmitUpdate(j),
           UNCHANGED <<declared, evidence, member, version, policy, controller, left>>
    PROVE  IInv'
<1>1. JobShape(j, job[j]) /\ JobStands(j, job[j]) /\ Shape
  BY DEF IInv, Work
<1>2. application' = application /\ spec' = spec
  BY DEF controller, declared
<1>3. job[j] \in JobRecord(job[j].arg) /\ job[j].step = "submit"
  BY <1>1, ZenonT(20) DEF JobShape, SubmitUpdate, Running
<1>4. CASE ~Accepts(job[j].got.envelope)
  <2>1. job' = AfterPod(job, j) /\ UNCHANGED <<pending, since>>
    BY <1>4, ZenonT(20) DEF SubmitUpdate
  <2>2. Touches(job, job', j) /\ job'[j].step = "start" /\ job'[j].got = None
    BY <1>3, <2>1, FailedPod
  <2>3. JobShape(j, job'[j]) /\ JobStands(j, job[j])'
    BY <1>2, <2>1, <2>2, RestedJob
  <2>. QED  BY <1>1, <2>1, <2>2, <2>3, JobStepKeeps, ZenonT(20) DEF Shape
<1>5. CASE Accepts(job[j].got.envelope)
  <2>1. PICK r : r = job[j].got
    OBVIOUS
  <2>2. Fits(j, r) /\ r.outcome = "submitted" /\ job[j].arg.submit
    BY <1>1, <1>3, <2>1 DEF JobShape
  <2>3. r.envelope # None /\ r.envelope.update.msp = j[2] /\ r \in ResultRecord
    BY <2>2 DEF Fits
  <2>4. PICK u : u = r.envelope.update
    OBVIOUS
  <2>5. u \in UpdateRecord /\ u.msp = j[2] /\ Proposal(u)
    BY <1>1, <1>3, <2>1, <2>2, <2>3, <2>4, CarriedUpdate, ZenonT(20) DEF JobStands
  <2>6. Broadcast(u, job[j].arg.entry) /\ job' = Advanced(job, j, "publish", r)
    BY <1>5, <2>1, <2>4, Zenon DEF SubmitUpdate
  <2>7. Touches(job, job', j) /\ job'[j].step = "publish" /\ job'[j].got = r
    BY <1>3, <2>3, <2>6, AdvancedJob
  <2>8. /\ pending' = pending \cup {u} /\ pending' \subseteq UpdateRecord
        /\ since' \in [External -> [seen : SUBSET State, accepted : BOOLEAN]]
        /\ \A m \in External : since'[m].seen = since[m].seen /\ (since[m].accepted => since'[m].accepted)
        /\ spec[j[2]].state = KeyState(j) /\ spec[j[2]].op = KeyOp(j) => since'[j[2]].accepted
    <3>1. PICK entry : entry = job[j].arg.entry /\ Broadcast(u, entry)
      BY <2>6, Zenon
    <3>2. entry.state = KeyState(j) /\ entry.op = KeyOp(j)
      BY <1>1, <3>1, Zenon DEF JobShape
    <3>3. u \in UpdateRecord /\ u.msp = j[2] /\ Shape
      BY <1>1, <2>5, Zenon
    <3>4. /\ pending' = pending \cup {u} /\ pending' \subseteq UpdateRecord
          /\ since' \in [External -> [seen : SUBSET State, accepted : BOOLEAN]]
          /\ \A m \in External : since'[m].seen = since[m].seen /\ (since[m].accepted => since'[m].accepted)
          /\ spec[u.msp].state = entry.state /\ spec[u.msp].op = entry.op => since'[u.msp].accepted
      BY <3>1, <3>3, BroadcastUpdate, Zenon
    <3>. QED  BY <3>2, <3>3, <3>4, Zenon
  <2>9. ~spec[j[2]].manual
    BY <1>1, <2>2, Zenon DEF JobStands
  <2>10. Proposal(u)' /\ Aimed(u)'
    BY <1>2, <2>5, <2>9, Zenon DEF Proposal, Aimed, Membership
  <2>11. JobShape(j, job'[j])
    BY <1>1, <2>2, <2>7 DEF JobShape, Touches
  <2>12. Achieved(j[2], KeyState(j), KeyOp(j))'
    BY <1>2, <2>8, <2>9 DEF Achieved
  <2>13. JobStands(j, job[j])'
    <3>1. Past(j[2], KeyState(j), KeyOp(j))'
      BY <1>1, <1>2 DEF JobStands, Past
    <3>2. KeyState(j) = "Present" => application'[j[2]] \in App
      BY <1>1, <1>2 DEF JobStands
    <3>3. Proposal(job[j].got.envelope.update)'
      BY <2>4, <2>7, <2>10 DEF Proposal
    <3>. QED  BY <1>2, <2>9, <2>12, <3>1, <3>2, <3>3, ZenonT(20) DEF JobStands
  <2>14. \A v \in pending' : v \in pending \/ (Proposal(v)' /\ Aimed(v)')
    BY <2>8, <2>10
  <2>. QED  BY <1>1, <2>7, <2>8, <2>11, <2>13, <2>14, JobStepKeeps, Zenon
<1>. QED  BY <1>4, <1>5

\* What the submission script makes of the result it was created with.
SubmissionResult(j, outcome) == [job[j].arg.result EXCEPT !.outcome = outcome, !.envelope = j[5]]

\* The result a submission script publishes fits its Job: it names the Job's state and
\* operation, and its envelope is the signed one, whose update is a live proposal.
LEMMA SignedResult ==
    ASSUME IInv, NEW j \in DOMAIN job, j[1] = "submit", NEW outcome \in {"alreadyApplied", "submitted"},
           NEW r, r = SubmissionResult(j, outcome)
    PROVE  Fits(j, r) /\ Proposal(r.envelope.update)
<1>1. /\ job[j].arg.result \in ResultRecord
      /\ job[j].arg.result.state = KeyState(j) /\ job[j].arg.result.op = KeyOp(j)
      /\ j[5] \in EnvelopeRecord /\ j[5].update.msp = j[2] /\ Proposal(j[5].update)
  BY Zenon DEF IInv, Work, JobShape, JobStands, Named
<1>2. PICK f \in ResultRecord : f = job[j].arg.result
  BY <1>1
<1>3. r = [f EXCEPT !.outcome = outcome, !.envelope = j[5]]
  BY <1>2 DEF SubmissionResult
<1>4. /\ r \in ResultRecord /\ r.state = f.state /\ r.op = f.op
      /\ r.outcome = outcome /\ r.envelope = j[5]
  BY <1>1, <1>2, <1>3, Zenon DEF ResultRecord
<1>. QED  BY <1>1, <1>2, <1>4 DEF Fits

\* The submission Job goes on with a result that fits and, if it publishes it, with
\* the membership there.
LEMMA SubmissionGoesOn ==
    ASSUME IInv, NEW j \in DOMAIN job, j[1] = "submit", NEW step \in {"await", "publish"}, NEW r,
           job' = Advanced(job, j, step, r), Fits(j, r), r.envelope # None => Proposal(r.envelope.update),
           step = "publish" => Membership(j[2]) = KeyState(j),
           UNCHANGED <<declared, evidence, member, version, policy, controller>>,
           since' \in [External -> [seen : SUBSET State, accepted : BOOLEAN]],
           \A m \in External : since'[m].seen = since[m].seen /\ (since[m].accepted => since'[m].accepted),
           pending' \subseteq UpdateRecord,
           \A u \in pending' : u \in pending \/ (Proposal(u)' /\ Aimed(u)')
    PROVE  IInv'
<1>1. JobShape(j, job[j]) /\ JobStands(j, job[j])
  BY DEF IInv, Work
<1>2. job[j] \in JobRecord(job[j].arg) /\ r \in ResultRecord
  BY <1>1 DEF JobShape, Fits
<1>3. Touches(job, job', j) /\ job'[j].step = step /\ job'[j].got = r
  BY <1>2, AdvancedJob
<1>4. JobShape(j, job'[j])
  BY <1>1, <1>3, ZenonT(20) DEF JobShape, Touches
<1>5. spec' = spec
  BY ZenonT(20) DEF declared
<1>6. Past(j[2], KeyState(j), KeyOp(j))' /\ Proposal(j[5].update)' /\ Aimed(j[5].update)'
  BY <1>1, <1>5, Zenon DEF JobStands, Past, Proposal, Aimed, Membership
<1>7. step = "publish" => Achieved(j[2], KeyState(j), KeyOp(j))'
  BY DEF Achieved, Membership
<1>8. r.envelope # None => Proposal(job[j].got.envelope.update)'
  BY <1>3, Zenon DEF Proposal, Membership
<1>9. JobStands(j, job[j])'
  BY <1>3, <1>6, <1>7, <1>8, ZenonT(20) DEF JobStands
<1>. QED  BY <1>3, <1>4, <1>9, JobStepKeeps

LEMMA SignedUpdateKeeps ==
    ASSUME IInv, NEW j \in DOMAIN job, j[1] = "submit", signedChannelUpdateScript(j),
           UNCHANGED <<declared, evidence, member, version, policy, controller, left>>
    PROVE  IInv'
<1>1. JobShape(j, job[j]) /\ JobStands(j, job[j]) /\ Shape
  BY DEF IInv, Work
<1>2. application' = application
  BY ZenonT(20) DEF controller
<1>3. /\ job[j] \in JobRecord(job[j].arg) /\ job[j].arg.entry.state = KeyState(j)
      /\ j[5].update \in UpdateRecord
  BY <1>1 DEF JobShape, Named, EnvelopeRecord
<1>4. UNCHANGED since => since' \in [External -> [seen : SUBSET State, accepted : BOOLEAN]]
  BY <1>1, Zenon DEF Shape
<1>5. UNCHANGED pending => pending' \subseteq UpdateRecord
  BY <1>1 DEF Shape
<1>6. ASSUME job' = AfterPod(job, j), UNCHANGED <<pending, since>>
      PROVE  IInv'
  <2>1. Touches(job, job', j) /\ job'[j].step = "start" /\ job'[j].got = None
    BY <1>3, <1>6, FailedPod
  <2>2. JobShape(j, job'[j]) /\ JobStands(j, job[j])'
    BY <1>2, <1>6, <2>1, RestedJob, Zenon
  <2>. QED  BY <1>4, <1>5, <1>6, <2>1, <2>2, JobStepKeeps
<1>7. ASSUME NEW r, Membership(j[2]) = KeyState(j), Fits(j, r), r.envelope # None => Proposal(r.envelope.update),
             job' = Advanced(job, j, "publish", r), UNCHANGED <<pending, since>>
      PROVE  IInv'
  BY <1>4, <1>5, <1>7, SubmissionGoesOn
<1>8. ASSUME Broadcast(j[5].update, job[j].arg.entry), NEW r, r = SubmissionResult(j, "submitted"),
             job' = Advanced(job, j, "await", r)
      PROVE  IInv'
  <2>1. Fits(j, r) /\ Proposal(r.envelope.update)
    BY <1>8, SignedResult
  <2>2. /\ pending' = pending \cup {j[5].update} /\ pending' \subseteq UpdateRecord
        /\ since' \in [External -> [seen : SUBSET State, accepted : BOOLEAN]]
        /\ \A m \in External : since'[m].seen = since[m].seen /\ (since[m].accepted => since'[m].accepted)
    BY <1>1, <1>3, <1>8, BroadcastUpdate, ZenonT(20)
  <2>3. Proposal(j[5].update)' /\ Aimed(j[5].update)'
    BY <1>1, ZenonT(20) DEF JobStands, Proposal, Aimed, Membership, declared
  <2>4. \A u \in pending' : u \in pending \/ (Proposal(u)' /\ Aimed(u)')
    BY <2>2, <2>3
  <2>. QED  BY <1>8, <2>1, <2>2, <2>4, SubmissionGoesOn, ZenonT(20)
<1>9. ASSUME Membership(j[2]) = KeyState(j), Running(job, j, "await"),
             job' = Advanced(job, j, "publish", job[j].got), UNCHANGED <<pending, since>>
      PROVE  IInv'
  <2>1. PICK r : r = job[j].got
    OBVIOUS
  <2>2. Fits(j, r) /\ (r.envelope # None => Proposal(r.envelope.update))
    BY <1>1, <1>9, <2>1, ZenonT(20) DEF JobShape, JobStands, Running
  <2>. QED  BY <1>7, <1>9, <2>1, <2>2
<1>10. ASSUME Membership(j[2]) = KeyState(j), job' = Advanced(job, j, "publish", SubmissionResult(j, "alreadyApplied")),
              UNCHANGED <<pending, since>>
       PROVE  IInv'
  <2>1. PICK r : r = SubmissionResult(j, "alreadyApplied")
    OBVIOUS
  <2>2. Fits(j, r) /\ Proposal(r.envelope.update)
    BY <2>1, SignedResult
  <2>. QED  BY <1>7, <1>10, <2>1, <2>2
<1>11. \/ job' = AfterPod(job, j) /\ UNCHANGED <<pending, since>>
       \/ /\ Membership(j[2]) = KeyState(j) /\ UNCHANGED <<pending, since>>
          /\ \/ job' = Advanced(job, j, "publish", SubmissionResult(j, "alreadyApplied"))
             \/ Running(job, j, "await") /\ job' = Advanced(job, j, "publish", job[j].got)
       \/ /\ Broadcast(j[5].update, job[j].arg.entry)
          /\ job' = Advanced(job, j, "await", SubmissionResult(j, "submitted"))
  BY <1>3 DEF signedChannelUpdateScript, SignedEnvelope, SubmissionResult
<1>. QED  BY <1>6, <1>8, <1>9, <1>10, <1>11

LEMMA PublishKeeps ==
    ASSUME IInv, NEW j \in DOMAIN job, publishExternalOrgUpdateResultScript(j)
    PROVE  IInv'
<1>1. /\ UNCHANGED <<spec, artifact, signed, member, version, pending, policy, application, pass, status, since>>
      /\ Running(job, j, "publish")
      /\ evidence' = [k \in DOMAIN evidence \cup {j} |-> IF k = j THEN job[j].got ELSE evidence[k]]
  BY DEF publishExternalOrgUpdateResultScript, declared, channel, controller
<1>2. JobShape(j, job[j]) /\ JobStands(j, job[j]) /\ Shape
  BY DEF IInv, Work
<1>3. Lasting
  BY <1>1, <1>2, LastingFrame
<1>4. Evidence'
  <2>1. PICK r : r = job[j].got
    OBVIOUS
  <2>2. EvidenceStands(j, r)
    BY <1>1, <1>2, <2>1, Zenon DEF JobShape, JobStands, EvidenceStands, Running, Fits
  <2>3. EvidenceStands(j, r)'
    BY <1>3, <2>2, KeptEvidence
  <2>4. evidence'[j] = r
    BY <1>1, <2>1
  <2>5. EvidenceStands(j, evidence[j])'
    BY <2>3, <2>4 DEF EvidenceStands
  <2>. QED  BY <1>1, <1>3, <2>5, EvidenceFrame DEF IInv
<1>5. Touches(job, job', j) /\ job'[j].step = "start" /\ job'[j].got = None
  <2>1. job[j] \in JobRecord(job[j].arg) /\ (job' = Succeeded(job, j) \/ job' = AfterPod(job, j))
    BY <1>2, Zenon DEF publishExternalOrgUpdateResultScript, JobShape
  <2>. QED  BY <2>1, SucceededJob, FailedPod, Zenon
<1>6. JobShape(j, job'[j]) /\ JobStands(j, job[j])'
  BY <1>1, <1>5, RestedJob DEF declared
<1>7. Work'
  BY <1>1, <1>3, <1>5, <1>6, WorkFrame DEF IInv, Touches
<1>8. Shape'
  BY <1>1, <1>2, ZenonT(20) DEF Shape, Membership
<1>. QED  BY <1>1, <1>2, <1>3, <1>4, <1>7, <1>8, ProposalsFrame, ReportsFrame DEF IInv

-----------------------------------------------------------------------------
(* The controller. *)

LEMMA StartPassKeeps ==
    ASSUME IInv, StartPass
    PROVE  IInv'
<1> USE DEF IInv
<1>1. /\ UNCHANGED <<spec, artifact, signed, evidence, job, member, version, pending, policy>>
      /\ UNCHANGED <<application, status, since>>
      /\ pass' = [at |-> "entries", spec |-> spec, out |-> <<>>]
  BY Zenon DEF StartPass, declared, channel, Idle
<1>2. Lasting
  BY <1>1, LastingFrame, Zenon
<1>3. Shape'
  BY <1>1 DEF Shape, Membership
<1>4. ASSUME NEW m \in Declared(spec)
      PROVE  Read(m, spec[m])'
  <2>1. m \in External /\ spec[m] \in Entry
    BY DEF Declared, Shape
  <2>. QED  BY <1>1, <2>1 DEF Read, Past
<1>5. Reports'
  <2>1. pass' \in PassRecord(pass.spec, pass.out)' /\ DOMAIN pass'.out = {} /\ pass'.spec = spec
    BY <1>1 DEF PassRecord
  <2>2. \A m \in Declared(pass.spec)' : Read(m, pass.spec[m])'
    BY <1>1, <1>4, <2>1 DEF Declared, Read
  <2>3. \A m \in DOMAIN status' : Reported(m, status[m])'
    BY <1>1 DEF Reports, Reported, Read, Past, Achieved, Membership
  <2>. QED  BY <2>1, <2>2, <2>3 DEF Reports
<1>. QED  BY <1>1, <1>2, <1>3, <1>5, ProposalsFrame, WorkFrame, EvidenceFrame, Zenon

\* A visit that reports what stands, and creates at most a Job that stands.
LEMMA VisitedKeeps ==
    ASSUME IInv, pass.at = "entries", NEW m \in Entries, NEW s, Reported(m, s), NEW jobs, Visited(m, s, jobs),
           UNCHANGED <<declared, evidence, channel, since, left>>,
           application' \in [External -> App \cup {None}],
           \A n \in External : application[n] \in App => application'[n] \in App,
           \A n \in DOMAIN jobs : \/ n \in DOMAIN job /\ jobs[n] = job[n]
                                  \/ JobShape(n, jobs[n]) /\ JobStands(n, jobs[n])'
    PROVE  IInv'
<1>1. UNCHANGED <<spec, artifact, signed, evidence, member, version, pending, policy, since>>
  BY DEF declared, channel
<1>2. Lasting /\ Shape'
  BY <1>1, LastingFrame, Zenon DEF IInv, Shape, Membership
<1>3. \A n \in DOMAIN job' : n \in DOMAIN jobs /\ job'[n] = jobs[n]
  BY DEF Visited, Without
<1>4. Work'
  <2>1. ASSUME NEW n \in DOMAIN job', JobShape(n, jobs[n]), JobStands(n, jobs[n])'
        PROVE  JobShape(n, job'[n]) /\ JobStands(n, job[n])'
    BY <1>3, <2>1, Zenon DEF JobStands
  <2>. QED  BY <1>2, <1>3, <2>1, WorkFrame DEF IInv
<1>5. PICK out : out = [n \in DOMAIN pass.out \cup {m} |-> IF n = m THEN s ELSE pass.out[n]]
  BY ZenonT(30)
<1>6. ASSUME NEW n \in DOMAIN out
      PROVE  Reported(n, out[n])'
  <2>1. PICK t : t = out[n]
    BY Zenon
  <2>2. Reported(n, t)
    BY <1>5, <2>1, ZenonT(20) DEF IInv, Reports
  <2>. QED  BY <1>2, <2>1, <2>2, KeptReport, ZenonT(20)
<1>7. ASSUME NEW n \in DOMAIN status
      PROVE  LET t == status[n] IN \E r : r = t /\ Reported(n, r)'
  <2>1. PICK t : t = status[n]
    BY ZenonT(20)
  <2>2. Reported(n, t)'
    BY <1>2, <2>1, KeptReport, ZenonT(20) DEF IInv, Reports
  <2>. QED  BY <2>1, <2>2, ZenonT(20)
<1>8. CASE pass' = [pass EXCEPT !.out = out] /\ UNCHANGED status
  <2>1. /\ pass' \in PassRecord(pass.spec, pass.out)' /\ pass'.out = out
        /\ pass'.at = "entries" /\ pass'.spec = pass.spec
    BY <1>8 DEF IInv, Reports, PassRecord
  <2>2. ASSUME NEW n \in Declared(pass.spec)
        PROVE  Read(n, pass.spec[n])'
    BY <1>1, <2>1, <2>2, Zenon DEF IInv, Reports, Read, Past
  <2>3. \A n \in DOMAIN pass'.out : Reported(n, pass.out[n])'
    BY <1>6, <2>1, Zenon DEF Reported, Read
  <2>4. \A n \in DOMAIN status' : Reported(n, status[n])'
    BY <1>7, <1>8 DEF Reported, Read
  <2>. QED  BY <2>1, <2>2, <2>3, <2>4, <1>2, <1>4, <1>1, ProposalsFrame, EvidenceFrame, Zenon DEF IInv, Reports, Declared
<1>9. CASE pass' = Idle /\ status' = out
  <2>1. pass' \in PassRecord(pass.spec, pass.out)' /\ pass'.at = "idle" /\ DOMAIN pass'.out = {}
    <3>1. DOMAIN <<>> = {}
      OBVIOUS
    <3>2. pass' = [at |-> "idle", spec |-> None, out |-> <<>>]
      BY <1>9, Zenon DEF Idle
    <3>. QED  BY <3>1, <3>2, Zenon DEF PassRecord
  <2>2. \A n \in DOMAIN status' : Reported(n, status[n])'
    BY <1>6, <1>9, Zenon DEF Reported, Read
  <2>. QED  BY <2>1, <2>2, <1>2, <1>4, <1>1, ProposalsFrame, EvidenceFrame, ZenonT(20) DEF IInv, Reports
<1>. QED  BY <1>5, <1>8, <1>9 DEF Visited

LEMMA ReportStands ==
    ASSUME NEW m \in External, NEW e, Read(m, e),
           NEW phase \in {"Pending", "Staged", "PendingSignatures", "Submitted", "AlreadyApplied", "Failed"},
           phase \in {"Submitted", "AlreadyApplied"} => Achieved(m, e.state, e.op)
    PROVE  Reported(m, Out(e, phase))
<1>1. PICK b \in BOOLEAN : b = (phase \in {"Submitted", "AlreadyApplied"})
  <2>1. CASE phase \in {"Submitted", "AlreadyApplied"}
    <3>1. TRUE = (phase \in {"Submitted", "AlreadyApplied"})
      BY <2>1
    <3>. QED  BY <3>1, Zenon
  <2>2. CASE phase \notin {"Submitted", "AlreadyApplied"}
    <3>1. FALSE = (phase \in {"Submitted", "AlreadyApplied"})
      BY <2>2
    <3>. QED  BY <3>1, Zenon
  <2>. QED  BY <2>1, <2>2
<1>2. Out(e, phase) = [entry |-> e, phase |-> phase, ready |-> b]
  BY <1>1, Zenon DEF Out
<1>3. e \in Entry
  BY DEF Read
<1>4. [entry |-> e, phase |-> phase, ready |-> b] \in ReportRecord
  BY <1>3, Zenon DEF ReportRecord
<1>5. b => Achieved(m, e.state, e.op)
  BY <1>1, ZenonT(30)
<1>. QED  BY <1>2, <1>4, <1>5 DEF Reported

\* ensureJob adds at most a new Job.
LEMMA EnsuredJob ==
    ASSUME NEW f, NEW j, NEW arg, NEW n \in DOMAIN ensureJob(f, j, arg)
    PROVE  \/ n \in DOMAIN f /\ ensureJob(f, j, arg)[n] = f[n]
           \/ n = j /\ ensureJob(f, j, arg)[n] = NewJob(arg)
BY DEF ensureJob, ensureJobs

LEMMA UpdateJobStands ==
    ASSUME IInv, NEW m \in External, NEW e, Read(m, e), NEW submit, submit => ~e.manual, UNCHANGED spec,
           e.state = "Present" => application'[m] \in App,
           NEW j, j = channelExternalOrgUpdateJobName(m, e), NEW r, r = NewJob([entry |-> e, submit |-> submit])
    PROVE  JobShape(j, r) /\ JobStands(j, r)'
<1>1. j[1] = "update" /\ j[2] = m /\ KeyState(j) = e.state /\ KeyOp(j) = e.op
  BY ZenonT(20) DEF channelExternalOrgUpdateJobName, KeyState, KeyOp
<1>2. e \in Entry /\ e.state \in State /\ e.op \in Op /\ Past(m, e.state, e.op) /\ (spec[m].manual => e.manual)
  BY Zenon DEF Read, Entry
<1>3. r \in JobRecord(r.arg) /\ r.step = "start" /\ r.got = None /\ r.arg = [entry |-> e, submit |-> submit]
  BY NewJobShape
<1>4. r.arg.entry = e /\ r.arg.submit = submit
  BY <1>3
<1>5. JobShape(j, r)
  BY <1>1, <1>2, <1>3, <1>4, ZenonT(20) DEF JobShape, Named
<1>. QED  BY <1>1, <1>2, <1>3, <1>4, <1>5, ZenonT(20) DEF JobStands, Past

LEMMA SubmitJobStands ==
    ASSUME IInv, NEW m \in External, NEW e, Read(m, e), NEW ev \in ResultRecord, ev.state = e.state, ev.op = e.op,
           UNCHANGED <<spec, member, version>>, signed[m] # None,
           NEW j, j = SubmitJob(channelExternalOrgUpdateJobName(m, e), ev.envelope, signed[m]),
           NEW r, r = NewJob([entry |-> e, result |-> ev])
    PROVE  JobShape(j, r) /\ JobStands(j, r)'
<1>1. j[1] = "submit" /\ j[2] = m /\ KeyState(j) = e.state /\ KeyOp(j) = e.op /\ j[5] = signed[m]
  BY DEF SubmitJob, channelExternalOrgUpdateJobName, KeyState, KeyOp
<1>2. e \in Entry /\ e.state \in State /\ e.op \in Op /\ Past(m, e.state, e.op)
  BY DEF Read, Entry
<1>3. r \in JobRecord(r.arg) /\ r.step = "start" /\ r.got = None /\ r.arg = [entry |-> e, result |-> ev]
  BY NewJobShape
<1>4. r.arg.entry = e /\ r.arg.result = ev
  BY <1>3
<1>5. signed[m] \in EnvelopeRecord /\ signed[m].update.msp = m /\ Proposal(signed[m].update) /\ Aimed(signed[m].update)
  BY Zenon DEF IInv, Shape, Proposals
<1>6. JobShape(j, r)
  BY <1>1, <1>2, <1>3, <1>4, <1>5, ZenonT(20) DEF JobShape, Named
<1>7. Proposal(j[5].update)' /\ Aimed(j[5].update)'
  BY <1>1, <1>5, Zenon DEF Proposal, Aimed, Membership
<1>. QED  BY <1>1, <1>2, <1>3, <1>6, <1>7, ZenonT(20) DEF JobStands, Past

LEMMA VisitEntryKeeps ==
    ASSUME IInv, VisitEntry
    PROVE  IInv'
<1>1. PICK i \in DOMAIN Externals :
          Externals[i] \in Entries /\ reconcileExternalOrgUpdate(Externals[i], pass.spec[Externals[i]])
  BY DEF VisitEntry
<1>2. PICK m, e : m = Externals[i] /\ e = pass.spec[Externals[i]]
  OBVIOUS
<1>3. /\ pass.at = "entries" /\ m \in Entries /\ reconcileExternalOrgUpdate(m, e)
      /\ UNCHANGED <<declared, evidence, channel, since, left>>
      /\ UNCHANGED <<spec, member, version>>
  BY <1>1, <1>2 DEF VisitEntry, declared, channel
<1>4. m \in External /\ Read(m, e)
  BY <1>2, <1>3 DEF Entries, Declared, IInv, Reports
<1>5. e.state \in State /\ e.op \in Op /\ Shape
  BY <1>4 DEF Read, Entry, IInv
\* A visit that creates no Job.
<1>6. ASSUME NEW phase \in {"Pending", "Staged", "PendingSignatures", "Submitted", "AlreadyApplied", "Failed"},
             phase \in {"Submitted", "AlreadyApplied"} => Achieved(m, e.state, e.op),
             Visited(m, Out(e, phase), job), UNCHANGED application
      PROVE  IInv'
  <2>1. PICK s, jobs : s = Out(e, phase) /\ jobs = job
    OBVIOUS
  <2>2. Reported(m, s)
    BY <1>4, <1>6, <2>1, ReportStands
  <2>3. Visited(m, s, jobs)
    BY <1>6, <2>1
  <2>. QED  BY <1>3, <1>5, <1>6, <2>1, <2>2, <2>3, VisitedKeeps DEF Shape
<1>7. ASSUME NEW phase \in {"Pending", "Staged", "PendingSignatures", "Submitted", "AlreadyApplied", "Failed"},
             phase \in {"Submitted", "AlreadyApplied"} => Achieved(m, e.state, e.op),
             NEW j, NEW arg, Visited(m, Out(e, phase), ensureJob(job, j, arg)),
             \A r : r = NewJob(arg) => JobShape(j, r) /\ JobStands(j, r)',
             application' \in [External -> App \cup {None}],
             \A n \in External : application[n] \in App => application'[n] \in App
      PROVE  IInv'
  <2>1. PICK s, jobs : s = Out(e, phase) /\ jobs = ensureJob(job, j, arg)
    OBVIOUS
  <2>2. Reported(m, s)
    BY <1>4, <1>7, <2>1, ReportStands
  <2>3. Visited(m, s, jobs)
    BY <1>7, <2>1
  <2>4. \A n \in DOMAIN jobs : \/ n \in DOMAIN job /\ jobs[n] = job[n]
                               \/ n = j /\ jobs[n] = NewJob(arg)
    BY <2>1, EnsuredJob
  <2>5. ASSUME NEW n \in DOMAIN jobs, n = j, jobs[n] = NewJob(arg)
        PROVE  JobShape(n, jobs[n]) /\ JobStands(n, jobs[n])'
    BY <1>7, <2>5
  <2>. QED  BY <1>3, <1>7, <2>2, <2>3, <2>4, <2>5, VisitedKeeps, Zenon
<1> DEFINE ev == externalOrgUpdateEvidence(m, e)
           k == channelExternalOrgUpdateJobName(m, e)
<1>8. CASE ev = None
  <2>1. CASE ~externalOrgApplicationOrgJSON(m, e)
    BY <1>3, <1>6, <1>8, <2>1 DEF reconcileExternalOrgUpdate
  <2>2. CASE externalOrgApplicationOrgJSON(m, e)
    <3>1. PICK submit : submit = ~e.manual
      OBVIOUS
    <3>2. PICK phase : phase = externalOrgUpdateReadiness(k, ~e.manual)
      OBVIOUS
    <3>3. /\ application' = ensureExternalOrgUpdateInputs(m, e)
          /\ Visited(m, Out(e, phase), ensureJob(job, k, [entry |-> e, submit |-> submit]))
      BY <1>3, <1>8, <2>2, <3>1, <3>2, Zenon DEF reconcileExternalOrgUpdate
    <3>4. phase \in {"Failed", "Pending", "Staged"}
      BY <3>2 DEF externalOrgUpdateReadiness
    <3>5. /\ application' \in [External -> App \cup {None}]
          /\ \A n \in External : application[n] \in App => application'[n] \in App
          /\ e.state = "Present" => application'[m] \in App
      BY <1>4, <1>5, <3>3 DEF ensureExternalOrgUpdateInputs, Shape
    <3>6. ASSUME NEW r, r = NewJob([entry |-> e, submit |-> submit])
          PROVE  JobShape(k, r) /\ JobStands(k, r)'
      BY <1>3, <1>4, <3>1, <3>5, <3>6, UpdateJobStands, Zenon
    <3> HIDE DEF k
    <3>. QED  BY <1>7, <3>3, <3>4, <3>5, <3>6
  <2>. QED  BY <2>1, <2>2
<1>9. CASE ev # None
  <2>1. k \in DOMAIN evidence /\ ev = evidence[k]
    BY <1>9 DEF externalOrgUpdateEvidence, externalOrgUpdateEvidenceNamed
  <2>2. k[1] = "update" /\ k[2] = m /\ KeyState(k) = e.state /\ KeyOp(k) = e.op
    BY DEF channelExternalOrgUpdateJobName, KeyState, KeyOp
  <2>3. EvidenceStands(k, ev)
    BY <2>1 DEF IInv, Evidence
  <2> HIDE DEF k, ev
  <2>4. ev \in ResultRecord /\ ev.outcome \in {"alreadyApplied", "submitted", "staged"}
    BY <2>3, Zenon DEF EvidenceStands, Fits, ResultRecord
  <2>5. ev.outcome # "staged" => Achieved(m, e.state, e.op)
    BY <2>2, <2>3 DEF EvidenceStands
  <2>6. UNCHANGED application
    BY <1>3, <1>9 DEF reconcileExternalOrgUpdate, ev
  <2>7. CASE ~(EvidenceMatches(e, ev) /\ ev.outcome = "staged" /\ e.ref)
    BY <1>3, <1>6, <1>9, <2>4, <2>5, <2>6, <2>7 DEF reconcileExternalOrgUpdate, ev
  <2>8. CASE EvidenceMatches(e, ev) /\ ev.outcome = "staged" /\ e.ref
    <3>1. reconcileSignedChannelUpdate(m, e, ev)
      BY <1>3, <1>9, <2>8 DEF reconcileExternalOrgUpdate, ev
    <3>2. ev.state = e.state /\ ev.op = e.op
      BY <2>8 DEF EvidenceMatches
    <3> DEFINE j == SubmitJob(channelExternalOrgUpdateJobName(m, e), ev.envelope, signed[m])
               receipt == externalOrgUpdateEvidenceNamed(j)
    <3>3. PICK phase : phase = IF receipt # None /\ EvidenceMatches(e, receipt) THEN "Submitted"
                               ELSE IF jobFailed(job, j) THEN "Failed" ELSE "PendingSignatures"
      OBVIOUS
    <3>4. receipt # None => Achieved(m, e.state, e.op)
      <4>1. receipt # None => j \in DOMAIN evidence
        BY DEF externalOrgUpdateEvidenceNamed
      <4>2. j[1] = "submit" /\ j[2] = m /\ KeyState(j) = e.state /\ KeyOp(j) = e.op
        BY DEF SubmitJob, channelExternalOrgUpdateJobName, KeyState, KeyOp
      <4> HIDE DEF j
      <4>. QED  BY <4>1, <4>2, Zenon DEF IInv, Evidence, EvidenceStands, Fits
    <3>5. phase \in {"Submitted", "Failed", "PendingSignatures"} /\ (phase = "Submitted" => receipt # None)
      BY <3>3
    <3>6. CASE signed[m] = None \/ ev.envelope = None
      BY <1>6, <2>6, <3>1, <3>6, Zenon DEF reconcileSignedChannelUpdate
    <3>7. CASE ~(signed[m] = None \/ ev.envelope = None) /\ receipt # None
      <4>1. Visited(m, Out(e, phase), job)
        BY <3>1, <3>3, <3>7, ZenonT(20) DEF reconcileSignedChannelUpdate
      <4>. QED  BY <1>6, <2>6, <3>4, <3>5, <4>1
    <3>8. CASE ~(signed[m] = None \/ ev.envelope = None) /\ receipt = None
      <4>1. PICK n, v : n = j /\ v = ev
        OBVIOUS
      <4>2. Visited(m, Out(e, phase), ensureJob(job, n, [entry |-> e, result |-> v]))
        BY <3>1, <3>3, <3>8, <4>1, ZenonT(20) DEF reconcileSignedChannelUpdate
      <4>3. ASSUME NEW r, r = NewJob([entry |-> e, result |-> v])
            PROVE  JobShape(n, r) /\ JobStands(n, r)'
        BY <1>3, <1>4, <2>4, <3>2, <3>8, <4>1, <4>3, SubmitJobStands, Zenon
      <4> HIDE DEF j, receipt
      <4>. QED  BY <1>5, <1>7, <2>6, <3>5, <3>8, <4>2, <4>3, Zenon DEF Shape
    <3>. QED  BY <3>6, <3>7, <3>8, ZenonT(20)
  <2>. QED  BY <2>7, <2>8
<1>. QED  BY <1>8, <1>9

-----------------------------------------------------------------------------
LEMMA UserKeeps ==
    ASSUME IInv, NEW m \in Declared(spec),
           EditEntry(m) \/ ReplaceArtifact(m) \/ Sign(m) \/ SignByFew(m) \/ Regenerate(m)
    PROVE  IInv'
<1>1. CASE Sign(m)
  BY <1>1, SigningKeeps, Zenon DEF Sign
<1>2. CASE SignByFew(m)
  BY <1>2, SigningKeeps, ZenonT(30) DEF SignByFew
<1>. QED  BY <1>1, <1>2, EditEntryKeeps, ReplaceArtifactKeeps, RegenerateKeeps

LEMMA JobKeeps ==
    ASSUME IInv, NEW j \in DOMAIN job, Step(j) \/ LosePod(j) \/ DeleteFailedJob(j)
    PROVE  IInv'
<1>1. CASE UpdateJob(j)
  BY <1>1, AddExternalOrgKeeps, SubmitUpdateKeeps DEF UpdateJob
<1>2. CASE SubmissionJob(j)
  BY <1>2, SignedUpdateKeeps DEF SubmissionJob
<1>. QED  BY <1>1, <1>2, PublishKeeps, LosePodKeeps, DeleteFailedJobKeeps DEF Step

LEMMA NextIInv == IInv /\ [Next]_vars => IInv'
<1> SUFFICES ASSUME IInv, [Next]_vars
             PROVE  IInv'
  OBVIOUS
<1>1. CASE UNCHANGED vars
  <2>1. /\ UNCHANGED <<spec, artifact, signed, evidence, job, member, version, pending, policy>>
        /\ UNCHANGED <<application, pass, status, since>>
    BY <1>1 DEF vars, declared, channel, controller
  <2>2. Lasting /\ Shape'
    BY <2>1, LastingFrame DEF IInv, Shape, Membership
  <2>. QED  BY <2>1, <2>2, ProposalsFrame, WorkFrame, EvidenceFrame, ReportsFrame DEF IInv
<1>2. CASE Next
  BY <1>2, StartPassKeeps, VisitEntryKeeps, JobKeeps, OrderKeeps, LoseKeeps, UserKeeps, OtherChangeKeeps DEF Next
<1>. QED  BY <1>1, <1>2

LEMMA Invariance == Spec => []IInv
BY InitIInv, NextIInv, PTL DEF Spec

LEMMA IInvTypes == IInv => TypeOK
<1> SUFFICES ASSUME IInv
             PROVE  TypeOK
  OBVIOUS
<1> USE DEF IInv
<1>1. version \in Nat
  BY DEF Shape
<1>2. ASSUME NEW u \in UpdateRecord, Proposal(u)
      PROVE  u \in Updates
  BY <1>1, <1>2 DEF Proposal, UpdateRecord, Updates
<1>3. ASSUME NEW e \in EnvelopeRecord, Proposal(e.update)
      PROVE  e \in Envelopes
  BY <1>2, <1>3 DEF EnvelopeRecord, Envelopes
<1>4. ASSUME NEW k, NEW r, Fits(k, r), r.envelope # None => Proposal(r.envelope.update)
      PROVE  r \in Results
  <2>1. r \in ResultRecord
    BY <1>4 DEF Fits
  <2>2. r.envelope \in Envelopes \cup {None}
    BY <1>3, <1>4, <2>1 DEF ResultRecord
  <2>. QED  BY <2>1, <2>2 DEF ResultRecord, Results
<1>5. signed \in [External -> Envelopes \cup {None}]
  <2>1. \A m \in External : signed[m] \in Envelopes \cup {None}
    BY <1>3 DEF Shape, Proposals
  <2>. QED  BY <2>1 DEF Shape
<1>6. \A k \in DOMAIN evidence : k[1] \in {"update", "submit"} /\ evidence[k] \in Results
  BY <1>4 DEF Evidence, EvidenceStands, Named
<1>7. \A j \in DOMAIN job : /\ job[j].state \in {"active", "succeeded", "failed"}
                            /\ job[j].step \in {"start", "submit", "await", "publish"}
                            /\ job[j].tries \in 0..BackoffLimit
                            /\ job[j].got \in Results \cup {None}
  <2> SUFFICES ASSUME NEW j \in DOMAIN job
               PROVE  /\ job[j].state \in {"active", "succeeded", "failed"}
                      /\ job[j].step \in {"start", "submit", "await", "publish"}
                      /\ job[j].tries \in 0..BackoffLimit
                      /\ job[j].got \in Results \cup {None}
    OBVIOUS
  <2>1. JobShape(j, job[j]) /\ JobStands(j, job[j])
    BY DEF Work
  <2>2. job[j].got \in Results \cup {None}
    BY <1>4, <2>1, Zenon DEF JobShape, JobStands
  <2>. QED  BY <2>1, <2>2 DEF JobShape, JobRecord
<1>8. pending \subseteq Updates
  BY <1>2 DEF Shape, Proposals
<1>9. \A m \in DOMAIN status : m \in External /\ status[m] \in ReportRecord
  BY DEF Reports, Reported
<1>. QED  BY <1>5, <1>6, <1>7, <1>8, <1>9 DEF TypeOK, Shape, ReportRecord

\* Declarations, ConfigMaps, Jobs, the channel and the status keep their shape, and no
\* update comes from a version that the channel does not have yet (TypeOK).
THEOREM TypeCorrect == Spec => []TypeOK
BY Invariance, IInvTypes, PTL

\* An entry that status calls ready was carried out since it was declared: evidence
\* and Jobs of an earlier transition have another name, for their operation ID is
\* smaller or their direction the other one (ReadyIsEarned).
THEOREM Earned == Spec => []ReadyIsEarned
<1>1. IInv => ReadyIsEarned
  <2> SUFFICES ASSUME IInv, NEW m \in Declared(spec), IsReady(m)
               PROVE  spec[m].state \in since[m].seen \/ (~spec[m].manual /\ since[m].accepted)
    BY DEF ReadyIsEarned
  <2>1. Membership(m) \in since[m].seen
    BY DEF IInv, Shape, Declared
  <2>. QED  BY <2>1, ReadyIsAchieved
<1>. QED  BY <1>1, Invariance, PTL

\* Where signatures are collected, a ready entry says what the channel has now: no
\* signed update that the orderer could still take undoes it (ReadyIsCurrent).
THEOREM Current == Spec => []ReadyIsCurrent
<1>1. IInv => ReadyIsCurrent
  BY ReadyIsAchieved DEF ReadyIsCurrent
<1>. QED  BY <1>1, Invariance, PTL
=============================================================================
