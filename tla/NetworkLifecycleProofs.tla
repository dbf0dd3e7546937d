----------------------- MODULE NetworkLifecycleProofs -----------------------
(***************************************************************************)
(* The safety of NetworkLifecycle for any number of networks,              *)
(* organizations and faults.                                               *)
(***************************************************************************)
EXTENDS NetworkLifecycle, TLAPS

\* How long the provers may take over a step, in seconds.
USE SMTT(20), ZenonT(20)

Todo == Elements(pass.todo)
Net == network[pass.net]

\* A pass that runs is about a network it has read.
Shape ==
    /\ pass.at = "idle" => pass.net = None
    /\ pass.at # "idle" => pass.net \in Network /\ pass.read \in NetworkObject
    /\ pass.at = "org" =>
           /\ pass.todo # <<>> /\ pass.read.spec.valid
           /\ namespace[Current] # None => namespace[Current].owner = pass.net

\* The finalizer keeps a network alive while its pass works on namespaces.
Held ==
    /\ \A n \in Network : network[n] # None => (network[n].deleting => network[n].finalizer)
    /\ pass.at \in {"orgs", "org"} => Net # None /\ Net.finalizer
    /\ pass.at = "cleanup" => Net # None /\ Net.deleting

Gone(n, g) == Owns(n, g) => namespace[namespaceName[<<n, g>>]].state = "terminating"

\* The cleanup has dealt with every organization it has passed.
Cleaned ==
    pass.at = "cleanup" =>
        \A g \in Orgs(pass.read.spec) : g \in Todo \/ Gone(pass.net, g)

\* Unless it is queued again, the network is as the pass has read it, and the
\* organizations found ready still run.
Fresh ==
    pass.at \in {"finalizer", "orgs", "org"} /\ pass.net \notin queue =>
        /\ Net # None /\ ~Net.deleting
        /\ Net.spec = pass.read.spec /\ Net.generation = pass.read.generation
        /\ pass.ready => \A g \in Orgs(pass.read.spec) : g \in Todo \/ Runs(pass.net, g)

IInv == TypeOK /\ Shape /\ Held /\ Cleaned /\ Fresh /\ WakeupIsKept

-----------------------------------------------------------------------------

LEMMA HeadAndTail ==
    ASSUME NEW S, NEW s \in Seq(S), s # <<>>
    PROVE  /\ Head(s) \in S /\ Tail(s) \in Seq(S)
           /\ \A e \in Elements(s) : e = Head(s) \/ e \in Elements(Tail(s))
<1>1. Head(s) \in S /\ Tail(s) \in Seq(S)
  OBVIOUS
<1>2. ASSUME NEW i \in DOMAIN s, s[i] # Head(s)
      PROVE  s[i] \in Elements(Tail(s))
  <2>1. i - 1 \in DOMAIN Tail(s) /\ Tail(s)[i - 1] = s[i]
    BY <1>2
  <2>. QED  BY <2>1 DEF Elements
<1>. QED  BY <1>1, <1>2 DEF Elements

LEMMA IdleIsPass == Idle \in Pass
<1>1. <<>> \in Seq(Org)
  OBVIOUS
<1>. QED  BY <1>1 DEF Idle, Pass

LEMMA InitIInv == Init => IInv
<1>. SUFFICES ASSUME Init PROVE IInv
  OBVIOUS
<1>1. PICK s \in Initial :
         /\ network = [n \in Network |-> IF s.declares[n] = None THEN None ELSE Declared(s.declares[n], 1)]
         /\ namespace = s.namespaces
         /\ queue = {n \in Network : network[n] # None}
         /\ pass = Idle
         /\ left = s.left
  BY Zenon DEF Init
<1>2. \A d \in Declaration : Declared(d, 1) \in NetworkObject /\ ~Declared(d, 1).deleting
  BY DEF Declared, NetworkObject
<1>3. network \in [Network -> NetworkObject \cup {None}]
  BY <1>1, <1>2, InitialAssumption, Zenon
<1>4. pass \in Pass
  BY <1>1, IdleIsPass, Zenon
<1>7. TypeOK
  BY <1>1, <1>3, <1>4, InitialAssumption, Zenon DEF TypeOK
<1>5. Shape /\ Cleaned /\ Fresh /\ WakeupIsKept
  BY <1>1, Zenon DEF Shape, Cleaned, Fresh, WakeupIsKept, Idle
<1>6. Held
  BY <1>1, <1>2, InitialAssumption, Zenon DEF Held, Idle
<1>. QED  BY <1>5, <1>6, <1>7 DEF IInv

-----------------------------------------------------------------------------

\* What the state is made of, with the records taken apart.
LEMMA Parts ==
    ASSUME TypeOK
    PROVE  /\ \A n \in Network : network[n] # None =>
                  /\ network[n] \in NetworkObject
                  /\ network[n].spec \in Declaration
                  /\ network[n].spec.orgs \in Seq(Org)
                  /\ network[n].generation \in Nat
           /\ \A x \in Namespace : namespace[x] # None => namespace[x] \in NamespaceObject
           /\ pass.todo \in Seq(Org)
           /\ pass.net \in Network => \A g \in Org : namespaceName[<<pass.net, g>>] \in Namespace
BY DeclarationAssumption, NamespaceAssumption DEF TypeOK, NetworkObject, Pass

LEMMA ReadOrgs ==
    ASSUME IInv, pass.at # "idle"
    PROVE  Orgs(pass.read.spec) \subseteq Org /\ pass.read.spec.orgs \in Seq(Org)
BY DeclarationAssumption DEF IInv, Shape, NetworkObject, Orgs, Elements

\* A pass that ends owes nothing but the wakeup.
LEMMA PassEnds ==
    ASSUME IInv, pass' = Idle, queue' \subseteq Network,
           network' \in [Network -> NetworkObject \cup {None}],
           UNCHANGED namespace, left' \in [Budget -> Nat],
           \A n \in Network : network'[n] # None => (network'[n].deleting => network'[n].finalizer),
           WakeupIsKept'
    PROVE  IInv'
<1>1. TypeOK'
  BY IdleIsPass DEF IInv, TypeOK, Labelled, Idle, Pass
<1>2. Shape' /\ Held' /\ Cleaned' /\ Fresh'
  BY DEF Shape, Held, Cleaned, Fresh, Idle
<1>. QED  BY <1>1, <1>2 DEF IInv

LEMMA StartPassStep ==
    ASSUME IInv, NEW n \in Network, StartPass(n)
    PROVE  IInv'
<1>1. CASE network[n] = None
  BY <1>1, SMTT(30) DEF IInv, TypeOK, Labelled, Shape, Held, Cleaned, Fresh, WakeupIsKept, StartPass, At,
     Quiet, Running, Runs, Owns, Has, Todo, Net, Current, Gone, Orgs, Elements
<1>2. CASE network[n] # None
  <2>. DEFINE o == network[n]
  <2>1. /\ pass' = [net |-> n, read |-> o, todo |-> o.spec.orgs, ready |-> TRUE,
                     at |-> IF o.deleting THEN "cleanup" ELSE "finalizer"]
        /\ queue' = queue \ {n} /\ pass.at = "idle"
        /\ UNCHANGED <<network, namespace, left>>
    BY <1>2 DEF StartPass, At
  <2>2. o \in NetworkObject /\ o.spec.orgs \in Seq(Org)
    BY <1>2, Parts DEF IInv
  <2>3. TypeOK'
    <3>1. pass' \in Pass
      BY <2>1, <2>2 DEF Pass
    <3>. QED  BY <2>1, <3>1 DEF IInv, TypeOK, Labelled
  <2>4. Shape' /\ Held'
    BY <1>2, <2>1, <2>2 DEF IInv, Shape, Held, Net
  <2>5. Cleaned'
    BY <2>1 DEF Cleaned, Todo, Orgs
  <2>6. Fresh'
    BY <1>2, <2>1 DEF Fresh, Net, Todo, Orgs
  <2>7. WakeupIsKept'
    <3>. SUFFICES ASSUME NEW m \in Network, network[m] # None, m \notin queue', pass'.net # m
                  PROVE  Quiet(m)'
      BY <2>1 DEF WakeupIsKept
    <3>1. Quiet(m)
      BY <2>1, DeclarationAssumption DEF IInv, WakeupIsKept, Shape
    <3>. QED  BY <3>1, <2>1 DEF Quiet, Running, Runs, Owns, Has
  <2>. QED  BY <2>3, <2>4, <2>5, <2>6, <2>7 DEF IInv
<1>. QED  BY <1>1, <1>2

LEMMA FinalizerStep ==
    ASSUME IInv, ensureFabricNetworkFinalizer
    PROVE  IInv'
<1>1. pass.at = "finalizer" /\ pass.net \in Network /\ UNCHANGED <<namespace, left>>
  BY DEF IInv, Shape, ensureFabricNetworkFinalizer, At
<1>2. CASE network[pass.net] = None
  <2>1. pass' = Idle /\ UNCHANGED network /\ queue' = queue \cup {pass.net}
    BY <1>2 DEF ensureFabricNetworkFinalizer, EndPass
  <2>2. WakeupIsKept'
    BY <1>1, <2>1 DEF IInv, WakeupIsKept, Quiet, Running, Runs, Owns, Has, Idle
  <2>. QED  BY <1>1, <2>1, <2>2, PassEnds DEF IInv, TypeOK, Held
<1>3. CASE network[pass.net] # None
  <2>1. /\ network' = [network EXCEPT ![pass.net].finalizer = TRUE]
        /\ pass' = [pass EXCEPT !.at = "orgs"]
        /\ queue' = queue \/ queue' = queue \cup {pass.net}
    BY <1>1, <1>3, DeclarationAssumption, Zenon
       DEF ensureFabricNetworkFinalizer, Notify
  <2>. DEFINE o == network[pass.net]
  <2>2. o \in NetworkObject
    BY <1>1, <1>3, Parts DEF IInv
  <2>3. /\ network'[pass.net] \in NetworkObject /\ network'[pass.net].finalizer
        /\ network'[pass.net].spec = o.spec /\ network'[pass.net].generation = o.generation
        /\ network'[pass.net].deleting = o.deleting
        /\ network'[pass.net].phase = o.phase /\ network'[pass.net].observed = o.observed
        /\ \A n \in Network : n # pass.net => network'[n] = network[n]
        /\ network' \in [Network -> NetworkObject \cup {None}]
    BY <1>1, <1>3, <2>1, <2>2, Zenon DEF IInv, TypeOK, NetworkObject
  <2>4. /\ pass' \in Pass /\ pass'.at = "orgs" /\ pass'.net = pass.net
        /\ pass'.read = pass.read /\ pass'.todo = pass.todo /\ pass'.ready = pass.ready
    BY <2>1, Zenon DEF IInv, TypeOK, Pass
  <2>5. network'[pass.net] # None
    BY <2>3, DeclarationAssumption
  <2>6. TypeOK'
    BY <1>1, <2>1, <2>3, <2>4 DEF IInv, TypeOK, Labelled
  <2>7. Shape'
    BY <1>1, <2>4 DEF IInv, Shape
  <2>8. Held' /\ Cleaned'
    BY <1>1, <2>3, <2>4, <2>5 DEF IInv, Held, Cleaned, Net
  <2>9. Fresh'
    BY <1>1, <2>1, <2>3, <2>4, <2>5 DEF IInv, Fresh, Net, Todo, Runs, Owns, Has
  <2>10. WakeupIsKept'
    BY <1>1, <2>1, <2>3, <2>4 DEF IInv, WakeupIsKept, Quiet, Running, Runs, Owns, Has
  <2>. QED  BY <2>6, <2>7, <2>8, <2>9, <2>10 DEF IInv
<1>. QED  BY <1>2, <1>3

\* A pass that ends with a status leaves its network queued, unless the status
\* was written before and is final.
LEMMA StatusEnds ==
    ASSUME IInv, pass.at \in {"orgs", "org"},
           NEW phase \in {"Creating", "Ready", "Failed"}, NEW again \in BOOLEAN,
           EndPassWith(phase, again), UNCHANGED namespace, left' \in [Budget -> Nat],
           ~again /\ pass.net \notin queue /\ UNCHANGED network => Quiet(pass.net)
    PROVE  IInv'
<1>. DEFINE o == network[pass.net]
<1>1. pass.net \in Network /\ pass.read \in NetworkObject /\ o # None
  BY DEF IInv, Shape, Held, Net
<1>2. o \in NetworkObject
  BY <1>1, Parts DEF IInv
<1>3. /\ pass' = Idle
      /\ queue' = IF again \/ network' # network THEN queue \cup {pass.net} ELSE queue
      /\ network' = [network EXCEPT ![pass.net].phase = phase,
                                     ![pass.net].observed = pass.read.generation]
  BY DEF EndPassWith, EndPass, updateStatus
<1>4. /\ network'[pass.net] \in NetworkObject
      /\ network'[pass.net].deleting = o.deleting /\ network'[pass.net].finalizer = o.finalizer
      /\ \A n \in Network : n # pass.net => network'[n] = network[n]
      /\ network' \in [Network -> NetworkObject \cup {None}]
  BY <1>1, <1>2, <1>3, Zenon DEF IInv, TypeOK, NetworkObject
<1>5. \A n \in Network : network'[n] # None => (network'[n].deleting => network'[n].finalizer)
  BY <1>1, <1>4 DEF IInv, Held
<1>6. WakeupIsKept'
  <2>. SUFFICES ASSUME NEW n \in Network, network'[n] # None, n \notin queue'
                PROVE  Quiet(n)'
    BY DEF WakeupIsKept
  <2>1. CASE n = pass.net
    <3>1. ~again /\ pass.net \notin queue /\ UNCHANGED network
      BY <1>3, <2>1
    <3>. QED  BY <2>1, <3>1 DEF Quiet, Running, Runs, Owns, Has
  <2>2. CASE n # pass.net
    <3>1. Quiet(n)
      BY <1>3, <1>4, <2>2 DEF IInv, WakeupIsKept
    <3>. QED  BY <1>4, <2>2, <3>1 DEF Quiet, Running, Runs, Owns, Has
  <2>. QED  BY <2>1, <2>2
<1>7. queue' \subseteq Network
  BY <1>1, <1>3 DEF IInv, TypeOK
<1>. QED  BY <1>3, <1>4, <1>5, <1>6, <1>7, PassEnds

\* A status that changes nothing was there before.
LEMMA StatusWritten ==
    ASSUME IInv, pass.at \in {"orgs", "org"}, NEW phase, NEW again \in BOOLEAN,
           EndPassWith(phase, again), UNCHANGED network
    PROVE  Net.phase = phase /\ Net.observed = pass.read.generation
<1>1. pass.net \in Network /\ network[pass.net] \in NetworkObject
  BY Parts DEF IInv, Shape, Held, Net
<1>2. network = [network EXCEPT ![pass.net].phase = phase,
                                ![pass.net].observed = pass.read.generation]
  BY DEF EndPassWith, updateStatus
<1>. QED  BY <1>1, <1>2 DEF IInv, TypeOK, NetworkObject, Net

LEMMA RefuseTopologyStep ==
    ASSUME IInv, RefuseTopology
    PROVE  IInv'
<1>1. /\ pass.at = "orgs" /\ ~pass.read.spec.valid
      /\ EndPassWith("Failed", FALSE) /\ UNCHANGED <<namespace, left>>
  BY Zenon DEF RefuseTopology, At
<1>2. ASSUME pass.net \notin queue, UNCHANGED network
      PROVE  Quiet(pass.net)
  <2>1. ~Net.deleting /\ Net.spec = pass.read.spec /\ Net.generation = pass.read.generation
    BY <1>1, <1>2 DEF IInv, Fresh
  <2>2. Net.phase = "Failed" /\ Net.observed = pass.read.generation
    BY <1>1, <1>2, StatusWritten, Zenon
  <2>. QED  BY <1>1, <2>1, <2>2 DEF Quiet, Net
<1>. QED  BY <1>1, <1>2, StatusEnds, Zenon DEF IInv, TypeOK

LEMMA FinishPassStep ==
    ASSUME IInv, FinishPass
    PROVE  IInv'
<1>1. /\ pass.at = "orgs" /\ pass.read.spec.valid /\ pass.todo = <<>>
      /\ UNCHANGED <<namespace, left>>
  BY DEF FinishPass, At
<1>2. CASE pass.ready
  <2>1. EndPassWith("Ready", FALSE)
    BY <1>2, Zenon DEF FinishPass
  <2>2. ASSUME pass.net \notin queue, UNCHANGED network
        PROVE  Quiet(pass.net)
    <3>1. /\ ~Net.deleting /\ Net.spec = pass.read.spec /\ Net.generation = pass.read.generation
          /\ \A g \in Orgs(pass.read.spec) : g \in Todo \/ Runs(pass.net, g)
      BY <1>1, <1>2, <2>2 DEF IInv, Fresh
    <3>2. Todo = {}
      BY <1>1 DEF Todo, Elements
    <3>3. Net.phase = "Ready" /\ Net.observed = pass.read.generation
      BY <1>1, <2>1, <2>2, StatusWritten, Zenon
    <3>. QED  BY <1>1, <3>1, <3>2, <3>3 DEF Quiet, Running, Net
  <2>. QED  BY <1>1, <2>1, <2>2, StatusEnds, Zenon DEF IInv, TypeOK
<1>3. CASE ~pass.ready
  <2>1. EndPassWith("Creating", TRUE)
    BY <1>3, Zenon DEF FinishPass
  <2>. QED  BY <1>1, <2>1, StatusEnds, Zenon DEF IInv, TypeOK
<1>. QED  BY <1>2, <1>3

LEMMA FailPassStep ==
    ASSUME IInv, FailPass
    PROVE  IInv'
<1>1. /\ pass.at \in {"orgs", "org"} /\ UNCHANGED namespace
      /\ left' \in [Budget -> Nat]
  BY DEF FailPass, Spend, IInv, TypeOK, Budget
<1>2. CASE EndPassWith("Failed", TRUE)
  BY <1>1, <1>2, StatusEnds, ZenonT(30)
<1>3. CASE EndPass(TRUE) /\ UNCHANGED network
  <2>1. pass' = Idle /\ queue' = queue \cup {pass.net} /\ pass.net \in Network
    BY <1>1, <1>3 DEF EndPass, IInv, Shape
  <2>2. WakeupIsKept'
    BY <1>1, <1>3, <2>1 DEF IInv, WakeupIsKept, Quiet, Running, Runs, Owns, Has, Idle
  <2>. QED  BY <1>1, <1>3, <2>1, <2>2, PassEnds DEF IInv, TypeOK, Held
<1>. QED  BY <1>2, <1>3, Zenon DEF FailPass

LEMMA RestartStep ==
    ASSUME IInv, Restart
    PROVE  IInv'
<1>1. /\ pass' = Idle /\ queue' = {n \in Network : network[n] # None}
      /\ UNCHANGED <<network, namespace>> /\ left' \in [Budget -> Nat]
  BY DEF Restart, Spend, IInv, TypeOK, Budget
<1>2. WakeupIsKept'
  BY <1>1 DEF WakeupIsKept
<1>. QED  BY <1>1, <1>2, PassEnds DEF IInv, TypeOK, Held

-----------------------------------------------------------------------------

\* An organization runs on for everybody who is not notified.
LEMMA RunsKept ==
    ASSUME TypeOK, NEW x \in Namespace,
           \A y \in Namespace \ {x} : namespace'[y] = namespace[y],
           (namespace'[x] # namespace[x] /\ namespace[x] # None) =>
               namespace[x].owner \in queue' \cup {None},
           NEW n \in Network, n \notin queue', NEW g \in Org, Runs(n, g)
    PROVE  Runs(n, g)'
<1>. DEFINE y == namespaceName[<<n, g>>]
<1>1. y \in Namespace /\ namespace[y] # None /\ namespace[y].owner = n
  BY NamespaceAssumption DEF Runs, Owns
<1>2. namespace'[y] = namespace[y]
  BY <1>1, DeclarationAssumption
<1>. QED  BY <1>2 DEF Runs, Owns, Has

LEMMA QuietKept ==
    ASSUME TypeOK, NEW x \in Namespace,
           \A y \in Namespace \ {x} : namespace'[y] = namespace[y],
           (namespace'[x] # namespace[x] /\ namespace[x] # None) =>
               namespace[x].owner \in queue' \cup {None},
           NEW n \in Network, n \notin queue', network[n] # None, network'[n] = network[n],
           Quiet(n)
    PROVE  Quiet(n)'
<1>1. \A g \in Orgs(network[n].spec) : g \in Org
  BY Parts DEF Orgs, Elements
<1>2. Running(n) => Running(n)'
  <2>. SUFFICES ASSUME Running(n), NEW g \in Orgs(network[n].spec) PROVE Runs(n, g)'
    BY DEF Running
  <2>1. Runs(n, g)
    BY DEF Running
  <2>. QED  BY <1>1, <2>1, RunsKept
<1>. QED  BY <1>2 DEF Quiet

\* A change of a namespace wakes its owner, if it has one.
LEMMA Requests ==
    ASSUME NEW o \in NamespaceObject
    PROVE  /\ fabricNetworkRequestsForObject(o) \subseteq Network
           /\ o.owner \in fabricNetworkRequestsForObject(o) \cup {None}
BY DEF fabricNetworkRequestsForObject, NamespaceObject

\* What the cluster does to a namespace: its workloads come and go, or it goes.
LEMMA ClusterStep ==
    ASSUME IInv, NEW x \in Namespace, namespace[x] # None, NEW v \in NamespaceObject \cup {None},
           v # None => /\ v.owner = namespace[x].owner /\ v.label = namespace[x].label
                       /\ v.org = namespace[x].org /\ v.state = namespace[x].state,
           namespace' = [namespace EXCEPT ![x] = v],
           Notify(fabricNetworkRequestsForObject(namespace[x])), UNCHANGED <<network, pass>>, left' \in [Budget -> Nat]
    PROVE  IInv'
<1>1. /\ queue \subseteq queue' /\ queue' \subseteq Network
      /\ namespace'[x] = v /\ \A y \in Namespace \ {x} : namespace'[y] = namespace[y]
      /\ namespace[x].owner \in queue' \cup {None}
  <2>1. namespace[x] \in NamespaceObject
    BY Parts DEF IInv
  <2>2. /\ fabricNetworkRequestsForObject(namespace[x]) \subseteq Network
        /\ namespace[x].owner \in fabricNetworkRequestsForObject(namespace[x]) \cup {None}
    BY <2>1, Requests, Zenon
  <2>3. queue' = queue \cup fabricNetworkRequestsForObject(namespace[x])
    BY Zenon DEF Notify
  <2>4. namespace'[x] = v /\ \A y \in Namespace \ {x} : namespace'[y] = namespace[y]
    BY DEF IInv, TypeOK
  <2>. QED  BY <2>2, <2>3, <2>4, Zenon DEF IInv, TypeOK
<1>2. TypeOK'
  <2>3. Labelled(namespace)'
    BY <1>1 DEF IInv, TypeOK, Labelled
  <2>. QED  BY <1>1, <2>3 DEF IInv, TypeOK
<1>3. Shape'
  <2>1. pass.at = "org" => Current \in Namespace
    BY Parts, HeadAndTail DEF IInv, Shape, Current
  <2>. QED  BY <1>1, <2>1 DEF IInv, Shape, Current
<1>4. Held'
  BY DEF IInv, Held, Net
<1>5. Cleaned'
  <2>. SUFFICES ASSUME pass.at = "cleanup", NEW g \in Orgs(pass.read.spec), g \notin Todo
                PROVE  Gone(pass.net, g)'
    BY DEF Cleaned, Todo
  <2>1. Gone(pass.net, g) /\ namespaceName[<<pass.net, g>>] \in Namespace
    BY Parts, ReadOrgs DEF IInv, Cleaned, Shape
  <2>. QED  BY <1>1, <2>1 DEF Gone, Owns
<1>6. Fresh'
  <2>. SUFFICES ASSUME pass.at \in {"finalizer", "orgs", "org"}, pass.net \notin queue'
                PROVE  /\ Net # None /\ ~Net.deleting
                       /\ Net.spec = pass.read.spec /\ Net.generation = pass.read.generation
                       /\ pass.ready => \A g \in Orgs(pass.read.spec) :
                                            g \in Todo \/ Runs(pass.net, g)'
    BY DEF Fresh, Todo, Net
  <2>1. /\ Net # None /\ ~Net.deleting
        /\ Net.spec = pass.read.spec /\ Net.generation = pass.read.generation
        /\ pass.ready => \A g \in Orgs(pass.read.spec) : g \in Todo \/ Runs(pass.net, g)
    BY <1>1 DEF IInv, Fresh
  <2>2. pass.net \in Network /\ Orgs(pass.read.spec) \subseteq Org
    BY ReadOrgs DEF IInv, Shape
  <2>. QED  BY <1>1, <2>1, <2>2, RunsKept DEF IInv
<1>7. WakeupIsKept'
  <2>. SUFFICES ASSUME NEW n \in Network, network[n] # None, n \notin queue', pass.net # n
                PROVE  Quiet(n)'
    BY DEF WakeupIsKept
  <2>1. Quiet(n)
    BY <1>1 DEF IInv, WakeupIsKept
  <2>. QED  BY <1>1, <2>1, QuietKept DEF IInv
<1>. QED  BY <1>2, <1>3, <1>4, <1>5, <1>6, <1>7 DEF IInv

LEMMA WorkloadStep ==
    ASSUME IInv, NEW x \in Namespace, StartWorkloads(x) \/ StopWorkloads(x) \/ Terminate(x)
    PROVE  IInv'
<1>. DEFINE o == namespace[x]
<1>1. /\ o # None /\ o \in NamespaceObject /\ UNCHANGED <<network, pass>>
      /\ Notify(fabricNetworkRequestsForObject(o))
  BY Parts, Zenon DEF IInv, StartWorkloads, StopWorkloads, Terminate, Becomes, Has
<1>2. left' \in [Budget -> Nat]
  BY DEF IInv, TypeOK, StartWorkloads, StopWorkloads, Terminate, Spend, Budget
<1>3. PICK objects \in {"none", "starting", "running"} :
         \/ namespace' = [namespace EXCEPT ![x] = [o EXCEPT !.objects = objects]]
         \/ namespace' = [namespace EXCEPT ![x] = None]
  BY <1>1 DEF IInv, TypeOK, StartWorkloads, StopWorkloads, Terminate, Becomes
<1>4. CASE namespace' = [namespace EXCEPT ![x] = None]
  BY <1>1, <1>2, <1>4, ClusterStep, Zenon
<1>5. CASE namespace' = [namespace EXCEPT ![x] = [o EXCEPT !.objects = objects]]
  <2>. DEFINE v == [o EXCEPT !.objects = objects]
  <2>1. /\ v \in NamespaceObject /\ v.owner = o.owner /\ v.label = o.label
        /\ v.org = o.org /\ v.state = o.state
    BY <1>1 DEF NamespaceObject
  <2>. HIDE DEF v
  <2>2. namespace' = [namespace EXCEPT ![x] = v]
    BY <1>5 DEF v
  <2>. QED  BY <1>1, <1>2, <2>1, <2>2, ClusterStep, ZenonT(30)
<1>. QED  BY <1>3, <1>4, <1>5

\* What users do to a network: only one without finalizer is gone at once.
LEMMA UserStep ==
    ASSUME IInv, NEW n \in Network, NEW v \in NetworkObject \cup {None},
           v # None => (v.deleting => v.finalizer),
           network[n] # None => /\ network[n].finalizer => v # None /\ v.finalizer
                                /\ network[n].deleting => v # None /\ v.deleting,
           network' = [network EXCEPT ![n] = v], Notify({n}),
           UNCHANGED <<namespace, pass>>, left' \in [Budget -> Nat]
    PROVE  IInv'
<1>1. /\ queue' = queue \cup {n}
      /\ network'[n] = v /\ \A m \in Network \ {n} : network'[m] = network[m]
  BY DEF Notify, IInv, TypeOK
<1>2. TypeOK'
  BY <1>1 DEF IInv, TypeOK, Labelled
<1>3. Shape' /\ Cleaned'
  BY DEF IInv, Shape, Cleaned, Current, Gone, Owns, Todo
<1>4. Held'
  BY <1>1 DEF IInv, Held, Net, Shape
<1>5. Fresh'
  BY <1>1, SMTT(30) DEF IInv, Fresh, Shape, Net, Todo, Runs, Owns, Has
<1>6. WakeupIsKept'
  BY <1>1 DEF IInv, WakeupIsKept, Quiet, Running, Runs, Owns, Has
<1>. QED  BY <1>2, <1>3, <1>4, <1>5, <1>6 DEF IInv

LEMMA DeclareStep ==
    ASSUME IInv, NEW n \in Network, NEW d \in Declaration,
           CreateNetwork(n, d) \/ EditNetwork(n, d) \/ DeleteNetwork(n)
    PROVE  IInv'
<1>. DEFINE o == network[n]
<1>1. Notify({n}) /\ UNCHANGED <<namespace, pass>> /\ left' \in [Budget -> Nat]
  BY DEF IInv, TypeOK, CreateNetwork, EditNetwork, DeleteNetwork, Spend, Budget
<1>2. o # None => o \in NetworkObject /\ (o.deleting => o.finalizer)
  BY Parts DEF IInv, Held
<1>3. CASE CreateNetwork(n, d)
  <2>1. Declared(d, 1) \in NetworkObject /\ ~Declared(d, 1).deleting
    BY DEF Declared, NetworkObject
  <2>2. o = None /\ network' = [network EXCEPT ![n] = Declared(d, 1)]
    BY <1>3 DEF CreateNetwork
  <2>. QED  BY <1>1, <2>1, <2>2, UserStep, Zenon
<1>4. CASE EditNetwork(n, d)
  <2>. DEFINE v == [o EXCEPT !.spec = d, !.generation = o.generation + 1]
  <2>1. o # None /\ network' = [network EXCEPT ![n] = v]
    <3>1. o # None /\ network' = [network EXCEPT ![n].spec = d, ![n].generation = @ + 1]
      BY <1>4 DEF EditNetwork
    <3>. QED  BY <1>2, <3>1 DEF IInv, TypeOK, NetworkObject
  <2>2. v \in NetworkObject /\ v.deleting = o.deleting /\ v.finalizer = o.finalizer
    <3>1. o \in NetworkObject
      BY <1>2, <2>1
    <3>2. o.generation + 1 \in Nat
      BY <3>1 DEF NetworkObject
    <3>. QED  BY <3>1, <3>2, Zenon DEF NetworkObject
  <2>. HIDE DEF v
  <2>. QED  BY <1>1, <1>2, <2>1, <2>2, DeclarationAssumption, UserStep, Zenon
<1>5. CASE DeleteNetwork(n)
  <2>. DEFINE v == [o EXCEPT !.deleting = TRUE]
  <2>1. /\ o # None /\ ~o.deleting
        /\ \/ o.finalizer /\ network' = [network EXCEPT ![n] = v]
           \/ ~o.finalizer /\ network' = [network EXCEPT ![n] = None]
    BY <1>5, Zenon DEF DeleteNetwork, IInv, TypeOK
  <2>2. v \in NetworkObject /\ v.deleting /\ v.finalizer = o.finalizer
    BY <1>2, <2>1, Zenon DEF NetworkObject
  <2>. HIDE DEF v
  <2>3. CASE o.finalizer
    BY <1>1, <2>1, <2>2, <2>3, DeclarationAssumption, UserStep, ZenonT(30)
  <2>4. CASE ~o.finalizer
    BY <1>1, <2>1, <2>4, UserStep
  <2>. QED  BY <2>3, <2>4
<1>. QED  BY <1>3, <1>4, <1>5

-----------------------------------------------------------------------------

\* A pass writes the namespace it is at, and is told when that changes something.
LEMMA WriteStep ==
    ASSUME IInv, pass.at \in {"orgs", "org"}, pass.todo # <<>>, pass.read.spec.valid,
           NEW v \in NamespaceObject,
           v.owner = pass.net, v.label = sanitizeName[pass.net], v.org = Head(pass.todo),
           namespace[Current] # None => namespace[Current].owner \in {None, pass.net},
           namespace' = [namespace EXCEPT ![Current] = v],
           queue' = IF namespace' = namespace THEN queue ELSE queue \cup {pass.net},
           UNCHANGED <<network, left>>,
           pass' \in Pass, pass'.net = pass.net, pass'.read = pass.read,
           \/ pass'.at = "org" /\ pass'.todo = pass.todo /\ pass'.ready = pass.ready
           \/ /\ pass'.at = "orgs" /\ pass'.todo = Tail(pass.todo)
              /\ pass'.ready = (pass.ready /\ v.objects = "running")
    PROVE  IInv'
<1>. DEFINE x == Current
<1>1. pass.net \in Network /\ Head(pass.todo) \in Org /\ x \in Namespace
  BY Parts, HeadAndTail DEF IInv, Shape, Current
<1>2. /\ namespace'[x] = v /\ v # None
      /\ \A y \in Namespace \ {x} : namespace'[y] = namespace[y]
      /\ (namespace'[x] # namespace[x] /\ namespace[x] # None) =>
             namespace[x].owner \in queue' \cup {None}
      /\ queue \subseteq queue' /\ queue' \subseteq Network
  BY <1>1, DeclarationAssumption DEF IInv, TypeOK
<1>3. TypeOK'
  <2>1. Labelled(namespace)'
    BY <1>1, <1>2 DEF IInv, TypeOK, Labelled, Current
  <2>. QED  BY <1>2, <2>1, Zenon DEF IInv, TypeOK
<1>4. Shape'
  BY <1>1, <1>2, DeclarationAssumption DEF IInv, Shape, Current
<1>5. Held' /\ Cleaned'
  BY DEF IInv, Held, Cleaned, Net
<1>6. Fresh'
  <2>. SUFFICES ASSUME pass.net \notin queue'
                PROVE  /\ Net # None /\ ~Net.deleting
                       /\ Net.spec = pass.read.spec /\ Net.generation = pass.read.generation
                       /\ pass'.ready => \A g \in Orgs(pass.read.spec) :
                                             g \in Todo' \/ Runs(pass.net, g)'
    BY DEF Fresh, Net, Todo
  <2>1. /\ Net # None /\ ~Net.deleting
        /\ Net.spec = pass.read.spec /\ Net.generation = pass.read.generation
        /\ pass.ready => \A g \in Orgs(pass.read.spec) : g \in Todo \/ Runs(pass.net, g)
    BY <1>2 DEF IInv, Fresh
  <2>2. ASSUME pass'.ready, NEW g \in Orgs(pass.read.spec)
        PROVE  g \in Todo' \/ Runs(pass.net, g)'
    <3>1. g \in Org /\ pass.ready
      BY <2>2, ReadOrgs, ZenonT(30) DEF IInv, TypeOK, Pass
    <3>2. CASE Runs(pass.net, g)
      BY <1>1, <1>2, <3>1, <3>2, RunsKept DEF IInv
    <3>3. CASE g \in Todo /\ pass'.todo = pass.todo
      BY <3>3 DEF Todo
    <3>4. CASE g \in Todo /\ pass'.at = "orgs" /\ pass'.todo = Tail(pass.todo) /\ v.objects = "running"
      <4>1. g = Head(pass.todo) \/ g \in Elements(Tail(pass.todo))
        BY <3>4, Parts, HeadAndTail DEF IInv, Todo
      <4>2. CASE g = Head(pass.todo)
        <5>1. namespaceName[<<pass.net, g>>] = x
          BY <4>2 DEF Current
        <5>. QED  BY <1>2, <3>4, <5>1 DEF Runs, Owns, Has
      <4>. QED  BY <3>4, <4>1, <4>2 DEF Todo
    <3>. QED  BY <2>1, <2>2, <3>1, <3>2, <3>3, <3>4, Zenon
  <2>. QED  BY <2>1, <2>2
<1>7. WakeupIsKept'
  <2>. SUFFICES ASSUME NEW n \in Network, network[n] # None, n \notin queue', pass.net # n
                PROVE  Quiet(n)'
    BY DEF WakeupIsKept
  <2>1. Quiet(n)
    BY <1>2 DEF IInv, WakeupIsKept
  <2>. QED  BY <1>1, <1>2, <2>1, QuietKept DEF IInv
<1>. QED  BY <1>3, <1>4, <1>5, <1>6, <1>7 DEF IInv

LEMMA EnsureNamespaceStep ==
    ASSUME IInv, ensureNamespace
    PROVE  IInv'
<1>. DEFINE x == Current
            d == buildOrgNamespace(Head(pass.todo))
            o == namespace[x]
            p == [pass EXCEPT !.at = "org"]
<1>1. /\ pass.at = "orgs" /\ pass.read.spec.valid /\ pass.todo # <<>> /\ UNCHANGED left
      /\ pass.net \in Network /\ Head(pass.todo) \in Org /\ x \in Namespace
  BY Parts, HeadAndTail DEF ensureNamespace, At, IInv, Shape, Current
<1>2. p \in Pass /\ p.at = "org" /\ p.net = pass.net /\ p.read = pass.read
      /\ p.todo = pass.todo /\ p.ready = pass.ready
  BY DEF IInv, TypeOK, Pass
<1>3. CASE o = None /\ namespace' = [namespace EXCEPT ![x] = d] /\ Notify({pass.net})
           /\ pass' = p /\ UNCHANGED network
  <2>1. /\ d \in NamespaceObject /\ d.owner = pass.net
        /\ d.label = sanitizeName[pass.net] /\ d.org = Head(pass.todo)
    BY <1>1, NameAssumption DEF buildOrgNamespace, NamespaceObject
  <2>2. queue' = IF namespace' = namespace THEN queue ELSE queue \cup {pass.net}
    BY <1>1, <1>3, <2>1, DeclarationAssumption
       DEF Notify, IInv, TypeOK
  <2>. HIDE DEF d, p
  <2>. QED  BY <1>1, <1>2, <1>3, <2>1, <2>2, WriteStep, Zenon
<1>4. CASE /\ o # None /\ ensureSameFabricNetworkOwner(x)
           /\ namespace' = [namespace EXCEPT ![x].owner = d.owner, ![x].label = d.label,
                                             ![x].org = d.org]
           /\ IF namespace' = namespace THEN UNCHANGED queue ELSE Notify({pass.net})
           /\ pass' = p /\ UNCHANGED network
  <2>. DEFINE v == [o EXCEPT !.owner = pass.net, !.label = sanitizeName[pass.net], !.org = Head(pass.todo)]
  <2>1. o \in NamespaceObject
    BY <1>1, <1>4, Parts DEF IInv
  <2>2. /\ v \in NamespaceObject /\ v.owner = pass.net
        /\ v.label = sanitizeName[pass.net] /\ v.org = Head(pass.todo)
    BY <1>1, <2>1, NameAssumption, Zenon DEF NamespaceObject
  <2>3. namespace' = [namespace EXCEPT ![x] = v]
    BY <1>1, <1>4, <2>1, Zenon DEF IInv, TypeOK, NamespaceObject, buildOrgNamespace
  <2>4. queue' = IF namespace' = namespace THEN queue ELSE queue \cup {pass.net}
    BY <1>4, Zenon DEF Notify
  <2>5. o.owner \in {None, pass.net}
    BY <1>4 DEF ensureSameFabricNetworkOwner
  <2>. HIDE DEF v, p
  <2>. QED  BY <1>1, <1>2, <1>4, <2>2, <2>3, <2>4, <2>5, WriteStep, Zenon
<1>5. CASE EndPassWith("Failed", TRUE) /\ UNCHANGED namespace
  BY <1>1, <1>5, StatusEnds, Zenon DEF IInv, TypeOK
<1>. QED  BY <1>3, <1>4, <1>5, Zenon DEF ensureNamespace

\* A namespace of the network has its label and that of the organization it is for.
LEMMA OwnLabel ==
    ASSUME IInv, pass.net \in Network, pass.todo # <<>>,
           namespace[Current] # None, namespace[Current].owner = pass.net
    PROVE  namespace[Current].label = sanitizeName[pass.net] /\ namespace[Current].org = Head(pass.todo)
<1>1. Head(pass.todo) \in Org /\ Current \in Namespace /\ pass.net # None
  BY Parts, HeadAndTail, DeclarationAssumption DEF IInv, Current
<1>2. /\ namespace[Current].label = sanitizeName[pass.net]
      /\ namespace[Current].org \in Org
      /\ namespaceName[<<pass.net, namespace[Current].org>>] = Current
  BY <1>1 DEF IInv, TypeOK, Labelled
<1>. QED  BY <1>1, <1>2, NamespaceAssumption DEF Current

LEMMA ReconcileOrgStep ==
    ASSUME IInv, reconcileOrg
    PROVE  IInv'
<1>. DEFINE x == Current
            o == namespace[x]
            refused == o # None => o.state = "terminating" /\ o.objects = "none"
            v == [o EXCEPT !.objects = IF o.objects = "none" THEN "starting" ELSE o.objects]
<1>1. /\ pass.at = "org" /\ pass.read.spec.valid /\ pass.todo # <<>> /\ UNCHANGED left
      /\ pass.net \in Network /\ x \in Namespace
      /\ o # None => o.owner = pass.net
  BY Parts, HeadAndTail DEF reconcileOrg, At, IInv, Shape, Current
<1>2. CASE EndPassWith("Failed", TRUE) /\ UNCHANGED namespace
  BY <1>1, <1>2, StatusEnds, Zenon DEF IInv, TypeOK
<1>3. CASE /\ ~refused
           /\ namespace' = [namespace EXCEPT ![x].objects = IF @ = "none" THEN "starting" ELSE @]
           /\ IF namespace' = namespace THEN UNCHANGED queue ELSE Notify({pass.net})
           /\ pass' = [pass EXCEPT !.at = "orgs", !.todo = Tail(@),
                                   !.ready = @ /\ namespace'[x].objects = "running"]
           /\ UNCHANGED network
  <2>1. /\ o \in NamespaceObject /\ o.owner = pass.net
        /\ o.label = sanitizeName[pass.net] /\ o.org = Head(pass.todo)
    BY <1>1, <1>3, Parts, OwnLabel DEF IInv
  <2>2. /\ v \in NamespaceObject /\ v.owner = pass.net
        /\ v.label = sanitizeName[pass.net] /\ v.org = Head(pass.todo)
    BY <2>1 DEF NamespaceObject
  <2>3. namespace' = [namespace EXCEPT ![x] = v] /\ namespace'[x] = v
    BY <1>1, <1>3, <2>1 DEF IInv, TypeOK, NamespaceObject
  <2>4. queue' = IF namespace' = namespace THEN queue ELSE queue \cup {pass.net}
    BY <1>3, Zenon DEF Notify
  <2>5. Tail(pass.todo) \in Seq(Org) /\ pass \in Pass
    BY <1>1, Parts, HeadAndTail DEF IInv, TypeOK
  <2>. HIDE DEF v
  <2>6. /\ pass' \in Pass /\ pass'.net = pass.net /\ pass'.read = pass.read
        /\ pass'.at = "orgs" /\ pass'.todo = Tail(pass.todo)
        /\ pass'.ready = (pass.ready /\ v.objects = "running")
    BY <1>3, <2>3, <2>5, Zenon DEF Pass
  <2>. QED  BY <1>1, <1>3, <2>2, <2>3, <2>4, <2>6, WriteStep, Zenon
<1>. QED  BY <1>2, <1>3, Zenon DEF reconcileOrg

LEMMA CleanupStep ==
    ASSUME IInv, cleanupFabricNetwork
    PROVE  IInv'
<1>. DEFINE x == Current
            o == namespace[x]
            p == [pass EXCEPT !.todo = Tail(pass.todo)]
            owned == o # None /\ namespaceOwnedByFabricNetwork(x)
<1>1. /\ pass.at = "cleanup" /\ pass.todo # <<>> /\ UNCHANGED network
      /\ pass.net \in Network /\ x \in Namespace
      /\ Tail(pass.todo) \in Seq(Org)
      /\ \A g \in Todo : g = Head(pass.todo) \/ g \in Elements(Tail(pass.todo))
  BY Parts, HeadAndTail DEF cleanupFabricNetwork, At, IInv, Shape, Current, Todo
<1>2. p \in Pass /\ p.at = "cleanup" /\ p.net = pass.net /\ p.read = pass.read
      /\ p.todo = Tail(pass.todo)
  BY <1>1, Zenon DEF IInv, TypeOK, Pass
<1>3. CASE Spend("faults") /\ EndPass(TRUE) /\ UNCHANGED namespace
  <2>1. /\ pass' = Idle /\ queue' = queue \cup {pass.net}
        /\ left' \in [Budget -> Nat]
    BY <1>3 DEF EndPass, Spend, IInv, TypeOK, Budget
  <2>2. WakeupIsKept'
    BY <1>1, <1>3, <2>1 DEF IInv, WakeupIsKept, Quiet, Running, Runs, Owns, Has, Idle
  <2>. QED  BY <1>1, <1>3, <2>1, <2>2, PassEnds DEF IInv, TypeOK, Held
<1>4. CASE ~owned /\ pass' = p /\ UNCHANGED <<namespace, queue, left>>
  <2>1. TypeOK' /\ Shape' /\ Held' /\ Fresh'
    BY <1>1, <1>2, <1>4 DEF IInv, TypeOK, Labelled, Shape, Held, Fresh, Net
  <2>2. ~Owns(pass.net, Head(pass.todo))
    BY <1>1, <1>4, OwnLabel DEF namespaceOwnedByFabricNetwork, Owns, Current
  <2>3. Cleaned'
    BY <1>1, <1>2, <1>4, <2>2 DEF IInv, Cleaned, Gone, Owns, Todo
  <2>4. WakeupIsKept'
    BY <1>1, <1>2, <1>4 DEF IInv, WakeupIsKept, Quiet, Running, Runs, Owns, Has
  <2>. QED  BY <2>1, <2>3, <2>4 DEF IInv
<1>5. CASE /\ owned /\ namespace' = [namespace EXCEPT ![x].state = "terminating"]
           /\ Notify(fabricNetworkRequestsForObject(o)) /\ pass' = p /\ UNCHANGED left
  <2>. DEFINE v == [o EXCEPT !.state = "terminating"]
  <2>1. o \in NamespaceObject
    BY <1>1, <1>5, Parts DEF IInv
  <2>2. /\ v \in NamespaceObject /\ v.owner = o.owner /\ v.label = o.label /\ v.org = o.org
        /\ v.state = "terminating"
    BY <2>1 DEF NamespaceObject
  <2>3. namespace' = [namespace EXCEPT ![x] = v]
    BY <1>1, <1>5, <2>1 DEF IInv, TypeOK, NamespaceObject
  <2>. HIDE DEF v
  <2>4. /\ namespace'[x] = v /\ v # None
        /\ \A y \in Namespace \ {x} : namespace'[y] = namespace[y]
        /\ queue \subseteq queue' /\ queue' \subseteq Network
        /\ o.owner \in queue' \cup {None}
    <3>1. namespace'[x] = v /\ \A y \in Namespace \ {x} : namespace'[y] = namespace[y]
      BY <1>1, <2>3 DEF IInv, TypeOK
    <3>2. v # None
      BY <2>2, DeclarationAssumption
    <3>3. /\ fabricNetworkRequestsForObject(o) \subseteq Network
          /\ o.owner \in fabricNetworkRequestsForObject(o) \cup {None}
      BY <2>1, Requests, Zenon
    <3>4. queue' = queue \cup fabricNetworkRequestsForObject(o)
      BY <1>5, Zenon DEF Notify
    <3>. QED  BY <3>1, <3>2, <3>3, <3>4, Zenon DEF IInv, TypeOK
  <2>5. TypeOK'
    <3>1. Labelled(namespace)'
      BY <1>1, <1>5, <2>1, <2>2, <2>4 DEF IInv, TypeOK, Labelled
    <3>. QED  BY <1>1, <1>2, <1>5, <2>2, <2>3, <2>4, <3>1 DEF IInv, TypeOK
  <2>6. Shape' /\ Held' /\ Fresh'
    BY <1>1, <1>2, <1>5 DEF IInv, Shape, Held, Fresh, Net
  <2>7. Cleaned'
    <3>. SUFFICES ASSUME NEW g \in Orgs(pass.read.spec), g \notin Elements(Tail(pass.todo))
                  PROVE  Gone(pass.net, g)'
      BY <1>2, <1>5 DEF Cleaned, Todo
    <3>1. namespaceName[<<pass.net, g>>] \in Namespace
      BY <1>1, Parts, ReadOrgs DEF IInv
    <3>2. namespaceName[<<pass.net, g>>] = x \/ Gone(pass.net, g)
      BY <1>1 DEF IInv, Cleaned, Current
    <3>. QED  BY <1>2, <1>5, <2>2, <2>4, <3>1, <3>2 DEF Gone, Owns
  <2>8. WakeupIsKept'
    <3>. SUFFICES ASSUME NEW n \in Network, network[n] # None, n \notin queue', pass.net # n
                  PROVE  Quiet(n)'
      BY <1>1, <1>2, <1>5 DEF WakeupIsKept
    <3>1. Quiet(n)
      BY <2>4 DEF IInv, WakeupIsKept
    <3>. QED  BY <1>1, <2>1, <2>4, <3>1, QuietKept DEF IInv
  <2>. QED  BY <2>5, <2>6, <2>7, <2>8 DEF IInv
<1>. QED  BY <1>3, <1>4, <1>5, ZenonT(30) DEF cleanupFabricNetwork

LEMMA RemoveFinalizerStep ==
    ASSUME IInv, removeFabricNetworkFinalizer
    PROVE  IInv'
<1>1. /\ pass.at = "cleanup" /\ pass.net \in Network
      /\ network' = [network EXCEPT ![pass.net] = None] /\ pass' = Idle
      /\ queue' = queue \cup {pass.net} /\ UNCHANGED <<namespace, left>>
  BY DeclarationAssumption
     DEF removeFabricNetworkFinalizer, At, Notify, IInv, Shape
<1>2. WakeupIsKept'
  BY <1>1 DEF IInv, TypeOK, WakeupIsKept, Quiet, Running, Runs, Owns, Has, Idle
<1>3. \A n \in Network : network'[n] # None => (network'[n].deleting => network'[n].finalizer)
  BY <1>1 DEF IInv, TypeOK, Held
<1>. QED  BY <1>1, <1>2, <1>3, PassEnds DEF IInv, TypeOK

LEMMA NextIInv == IInv /\ [Next]_vars => IInv'
<1>. SUFFICES ASSUME IInv, [Next]_vars PROVE IInv'
  OBVIOUS
<1>1. CASE \E n \in Network : StartPass(n)
  BY <1>1, StartPassStep
<1>2. CASE ReconcileStep
  BY <1>2, FinalizerStep, RefuseTopologyStep, EnsureNamespaceStep, ReconcileOrgStep,
     FinishPassStep, CleanupStep, RemoveFinalizerStep DEF ReconcileStep
<1>3. CASE FailPass \/ Restart
  BY <1>3, FailPassStep, RestartStep
<1>4. CASE \E n \in Network, d \in Declaration : CreateNetwork(n, d) \/ EditNetwork(n, d)
  BY <1>4, DeclareStep
<1>5. CASE \E n \in Network : DeleteNetwork(n)
  <2>1. PICK n \in Network : DeleteNetwork(n)
    BY <1>5
  <2>2. network[n].spec \in Declaration
    BY <2>1, Parts DEF IInv, DeleteNetwork
  <2>. QED  BY <2>1, <2>2, DeclareStep
<1>6. CASE \E x \in Namespace : StartWorkloads(x) \/ StopWorkloads(x) \/ Terminate(x)
  BY <1>6, WorkloadStep
<1>7. CASE UNCHANGED vars
  BY <1>7, ZenonT(60) DEF vars, IInv, TypeOK, Labelled, Shape, Held, Cleaned, Fresh, WakeupIsKept, Current,
     Todo, Net, Gone, Quiet, Running, Runs, Owns, Has
<1>. QED  BY <1>1, <1>2, <1>3, <1>4, <1>5, <1>6, <1>7 DEF Next

LEMMA Invariance == Spec => []IInv
<1>. QED  BY InitIInv, NextIInv, PTL DEF Spec

\* Types, and the organization labels of buildOrgNamespace, in every network.
THEOREM TypeCorrect == Spec => []TypeOK
<1>1. IInv => TypeOK
  BY DEF IInv
<1>. QED  BY <1>1, Invariance, PTL

\* Reconcile's requeues and the watches of SetupWithManager lose no wakeup,
\* whatever users, faults and restarts do between any two steps of a pass.
THEOREM NoLostWakeup == Spec => []WakeupIsKept
<1>1. IInv => WakeupIsKept
  BY DEF IInv
<1>. QED  BY <1>1, Invariance, PTL

\* A namespace keeps its owner, and starts to go only while a network with its
\* label is being deleted, however the names of networks collide
\* (ensureSameFabricNetworkOwner, namespaceOwnedByFabricNetwork).
THEOREM OwnershipHolds == Spec => OwnershipIsRespected
<1>. DEFINE Kept(x) ==
       namespace[x] # None /\ namespace'[x] # None =>
          /\ namespace[x].owner # None => namespace'[x].owner = namespace[x].owner
          /\ namespace'[x].state # namespace[x].state =>
                 \E n \in Network :
                     /\ sanitizeName[n] = namespace[x].label
                     /\ network[n] # None /\ network[n].deleting
<1>1. IInv /\ [Next]_vars => [\A x \in Namespace : Kept(x)]_vars
  <2>. SUFFICES ASSUME IInv, [Next]_vars, NEW x \in Namespace,
                       namespace[x] # None, namespace'[x] # None, namespace'[x] # namespace[x]
                PROVE  Kept(x)
    OBVIOUS
  <2>1. namespace[x] \in NamespaceObject /\ namespace \in [Namespace -> NamespaceObject \cup {None}]
    BY Parts DEF IInv, TypeOK
  <2>2. CASE ensureNamespace
    <3>1. Current \in Namespace
      BY <2>2, Parts, HeadAndTail DEF IInv, Shape, Current, ensureNamespace, At
    <3>2. /\ x = Current /\ namespace[x].owner \in {None, pass.net}
          /\ namespace' = [namespace EXCEPT ![x].owner = pass.net, ![x].label = sanitizeName[pass.net],
                                            ![x].org = Head(pass.todo)]
      BY <2>1, <2>2, <3>1, Zenon DEF ensureNamespace, ensureSameFabricNetworkOwner, buildOrgNamespace
    <3>3. namespace'[x].owner = pass.net /\ namespace'[x].state = namespace[x].state
      BY <2>1, <3>2 DEF NamespaceObject
    <3>. QED  BY <3>2, <3>3
  <2>3. CASE reconcileOrg
    <3>1. Current \in Namespace
      BY <2>3, Parts, HeadAndTail DEF IInv, Shape, Current, reconcileOrg, At
    <3>2. x = Current /\ namespace' = [namespace EXCEPT ![x].objects = IF @ = "none" THEN "starting" ELSE @]
      BY <2>1, <2>3, <3>1, Zenon DEF reconcileOrg
    <3>. QED  BY <2>1, <3>2 DEF NamespaceObject
  <2>4. CASE cleanupFabricNetwork
    <3>1. pass.net \in Network /\ network[pass.net] # None /\ network[pass.net].deleting
      BY <2>4 DEF IInv, Shape, Held, Net, cleanupFabricNetwork, At
    <3>2. Current \in Namespace
      BY <2>4, Parts, HeadAndTail DEF IInv, Shape, Current, cleanupFabricNetwork, At
    <3>3. /\ x = Current /\ namespace[x].label = sanitizeName[pass.net]
          /\ namespace' = [namespace EXCEPT ![x].state = "terminating"]
      BY <2>1, <2>4, <3>2, Zenon DEF cleanupFabricNetwork, namespaceOwnedByFabricNetwork
    <3>4. namespace'[x].owner = namespace[x].owner
      BY <2>1, <3>3 DEF NamespaceObject
    <3>. QED  BY <3>1, <3>3, <3>4, Zenon
  <2>5. CASE \E y \in Namespace : StartWorkloads(y) \/ StopWorkloads(y) \/ Terminate(y)
    BY <2>1, <2>5 DEF StartWorkloads, StopWorkloads, Terminate, Becomes, Has, NamespaceObject
  <2>. QED  BY <2>2, <2>3, <2>4, <2>5, Zenon DEF Next, ReconcileStep, vars, StartPass,
              ensureFabricNetworkFinalizer, RefuseTopology, FinishPass, removeFabricNetworkFinalizer,
              FailPass, Restart, CreateNetwork, EditNetwork, DeleteNetwork
<1>. QED  BY <1>1, Invariance, PTL DEF Spec, OwnershipIsRespected

\* A namespace of a network starts to go only while that network is being deleted.
OwnerDecides ==
    [][\A x \in Namespace :
          (/\ namespace[x] # None /\ namespace'[x] # None
           /\ namespace[x].owner # None /\ namespace'[x].state # namespace[x].state)
          => /\ network[namespace[x].owner] # None
             /\ network[namespace[x].owner].deleting]_vars

\* Where sanitizeName keeps the names of the networks apart, nobody but its owner has
\* a namespace deleted, although the names of the namespaces may collide.
THEOREM OwnerAloneDeletes ==
    ASSUME \A m, n \in Network : sanitizeName[m] = sanitizeName[n] => m = n
    PROVE  Spec => OwnerDecides
<1>1. TypeOK =>
      ([\A x \in Namespace : namespace[x] # None /\ namespace'[x] # None =>
          /\ namespace[x].owner # None => namespace'[x].owner = namespace[x].owner
          /\ namespace'[x].state # namespace[x].state =>
                 \E n \in Network :
                     /\ sanitizeName[n] = namespace[x].label
                     /\ network[n] # None /\ network[n].deleting]_vars
       => [\A x \in Namespace :
          (/\ namespace[x] # None /\ namespace'[x] # None
           /\ namespace[x].owner # None /\ namespace'[x].state # namespace[x].state)
          => /\ network[namespace[x].owner] # None
             /\ network[namespace[x].owner].deleting]_vars)
  <2>. SUFFICES ASSUME TypeOK, NEW x \in Namespace, namespace[x] # None, namespace[x].owner # None,
                       NEW n \in Network, sanitizeName[n] = namespace[x].label,
                       network[n] # None, network[n].deleting
                PROVE  network[namespace[x].owner] # None /\ network[namespace[x].owner].deleting
    BY Zenon
  <2>1. namespace[x].owner \in Network
    BY DEF TypeOK, NamespaceObject
  <2>2. namespace[x].label = sanitizeName[namespace[x].owner]
    BY DEF TypeOK, Labelled
  <2>. QED  BY <2>1, <2>2
<1>. QED  BY <1>1, OwnershipHolds, TypeCorrect, PTL DEF OwnershipIsRespected, OwnerDecides

\* No update of a network makes it disappear.
LEMMA ObjectStays ==
    ASSUME NEW o \in NetworkObject
    PROVE  /\ [o EXCEPT !.finalizer = TRUE] # None /\ [o EXCEPT !.deleting = TRUE] # None
           /\ \A phase \in {"Creating", "Ready", "Failed"}, k \in Nat :
                  [o EXCEPT !.phase = phase, !.observed = k] # None
           /\ \A d \in Declaration : [o EXCEPT !.spec = d, !.generation = o.generation + 1] # None
<1>1. o.generation + 1 \in Nat
  BY DEF NetworkObject
<1>2. /\ [o EXCEPT !.finalizer = TRUE] \in NetworkObject
      /\ [o EXCEPT !.deleting = TRUE] \in NetworkObject
      /\ \A phase \in {"Creating", "Ready", "Failed"}, k \in Nat :
             [o EXCEPT !.phase = phase, !.observed = k] \in NetworkObject
      /\ \A d \in Declaration :
             [o EXCEPT !.spec = d, !.generation = o.generation + 1] \in NetworkObject
  BY <1>1, ZenonT(30) DEF NetworkObject
<1>. QED  BY <1>2, DeclarationAssumption, ZenonT(60)

\* cleanupFabricNetwork comes before removeFabricNetworkFinalizer for every
\* organization of the declaration it read, also when deletions fail in between.
THEOREM CleanupGuarded == Spec => FinalizerGuardsCleanup
<1>. DEFINE Guarded ==
       \A n \in Network :
          (network[n] # None /\ network[n].finalizer /\ network'[n] = None) =>
              \A g \in Orgs(pass.read.spec) :
                  Owns(n, g) => namespace[namespaceName[<<n, g>>]].state = "terminating"
<1>1. IInv /\ [Next]_vars => [Guarded]_vars
  <2>. SUFFICES ASSUME IInv, [Next]_vars, NEW n \in Network,
                       network[n] # None, network[n].finalizer, network'[n] = None,
                       NEW g \in Orgs(pass.read.spec)
                PROVE  Gone(n, g)
    BY DEF Gone
  <2>1. network \in [Network -> NetworkObject \cup {None}] /\ network[n] \in NetworkObject
    BY Parts DEF IInv, TypeOK
  <2>2. CASE removeFabricNetworkFinalizer
    <3>1. pass.at = "cleanup" /\ pass.todo = <<>> /\ n = pass.net
      BY <2>1, <2>2 DEF removeFabricNetworkFinalizer, At
    <3>2. Todo = {}
      BY <3>1 DEF Todo, Elements
    <3>. QED  BY <3>1, <3>2 DEF IInv, Cleaned
  <2>3. CASE ensureFabricNetworkFinalizer
    <3>1. network'[n] = [network[n] EXCEPT !.finalizer = TRUE]
      BY <2>1, <2>3, Zenon DEF ensureFabricNetworkFinalizer
    <3>. QED  BY <2>1, <3>1, ObjectStays, Zenon
  <2>4. CASE \E phase \in {"Creating", "Ready", "Failed"}, again \in BOOLEAN :
                 EndPassWith(phase, again) /\ pass.at # "idle"
    <3>1. pass.read.generation \in Nat
      BY <2>4 DEF IInv, Shape, NetworkObject
    <3>2. PICK phase \in {"Creating", "Ready", "Failed"} :
             network' = [network EXCEPT ![pass.net].phase = phase,
                                        ![pass.net].observed = pass.read.generation]
      BY <2>4, Zenon DEF EndPassWith, updateStatus
    <3>3. n = pass.net
      BY <2>1, <3>2
    <3>4. network'[n] = [network[n] EXCEPT !.phase = phase, !.observed = pass.read.generation]
      BY <2>1, <3>2, <3>3, ZenonT(30)
    <3>. QED  BY <2>1, <3>1, <3>4, ObjectStays, Zenon
  <2>5. CASE \E m \in Network, d \in Declaration : CreateNetwork(m, d) \/ EditNetwork(m, d)
    <3>1. PICK m \in Network, d \in Declaration : CreateNetwork(m, d) \/ EditNetwork(m, d)
      BY <2>5
    <3>2. m = n /\ EditNetwork(n, d)
      BY <2>1, <3>1 DEF CreateNetwork, EditNetwork
    <3>3. network'[n] = [network[n] EXCEPT !.spec = d, !.generation = network[n].generation + 1]
      BY <2>1, <3>2 DEF EditNetwork, NetworkObject
    <3>. QED  BY <2>1, <3>3, ObjectStays, Zenon
  <2>6. CASE \E m \in Network : DeleteNetwork(m)
    <3>1. network'[n] = [network[n] EXCEPT !.deleting = TRUE]
      BY <2>1, <2>6 DEF DeleteNetwork
    <3>. QED  BY <2>1, <3>1, ObjectStays, Zenon
  <2>7. CASE UNCHANGED network
    BY <2>7
  <2>8. CASE RefuseTopology \/ ensureNamespace \/ reconcileOrg \/ FinishPass \/ FailPass
    <3>1. pass.at # "idle"
      BY <2>8, Zenon DEF RefuseTopology, ensureNamespace, reconcileOrg, FinishPass, FailPass, At
    <3>2. \/ UNCHANGED network \/ EndPassWith("Failed", FALSE) \/ EndPassWith("Failed", TRUE)
          \/ EndPassWith("Ready", FALSE) \/ EndPassWith("Creating", TRUE)
      BY <2>8, Zenon DEF RefuseTopology, ensureNamespace, reconcileOrg, FinishPass, FailPass
    <3>. QED  BY <2>4, <2>7, <3>1, <3>2, Zenon
  <2>9. CASE cleanupFabricNetwork \/ Restart \/ (\E m \in Network : StartPass(m)) \/ UNCHANGED vars
             \/ \E x \in Namespace : StartWorkloads(x) \/ StopWorkloads(x) \/ Terminate(x)
    BY <2>7, <2>9, Zenon DEF vars, cleanupFabricNetwork, Restart, StartPass,
       StartWorkloads, StopWorkloads, Terminate, Becomes
  <2>. QED  BY <2>2, <2>3, <2>5, <2>6, <2>8, <2>9 DEF Next, ReconcileStep
<1>. QED  BY <1>1, Invariance, PTL DEF Spec, FinalizerGuardsCleanup
=============================================================================
