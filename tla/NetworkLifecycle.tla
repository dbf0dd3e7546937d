-------------------------- MODULE NetworkLifecycle --------------------------
(***************************************************************************)
(* The life of FabricNetworks, from creation to the end of their deletion: *)
(* Reconcile with its work queue, the finalizer, and the organization      *)
(* namespaces, whose names two networks may share (orgNamespaceName drops  *)
(* prefixes and joins parts with dashes).  One worker serves all networks. *)
(*                                                                         *)
(* A network is its name, as written; an organization is the name that     *)
(* sanitizeName gives it, which is all that namespaces and labels show.    *)
(*                                                                         *)
(* What happens inside a namespace is the subject of OrgIdentity and       *)
(* ChannelBootstrap; here an organization's objects are absent, starting   *)
(* or running.                                                             *)
(***************************************************************************)
EXTENDS Naturals, Sequences

CONSTANTS
    None,
    Network, Org,
    sanitizeName,     \* the name a network's labels show: my.net and my-net share my-net
    Namespace,        \* names of organization namespaces
    namespaceName,    \* orgNamespaceName: of a network and an organization
    Declaration,      \* what users declare: the organizations, and whether it is valid
    Initial           \* scenarios: networks and namespaces there are, and budgets

NetworkObject ==
    [spec : Declaration, generation : Nat, finalizer : BOOLEAN, deleting : BOOLEAN,
     phase : {"none", "Creating", "Ready", "Failed"}, observed : Nat]
NamespaceObject ==
    [owner : Network \cup {None}, label : Network \cup {None}, org : Org \cup {None},
     state : {"active", "terminating"}, objects : {"none", "starting", "running"}]

Budget == {"edits", "deletes", "faults"}

ASSUME DeclarationAssumption ==
    /\ Declaration \subseteq [orgs : Seq(Org), valid : BOOLEAN]
    /\ None \notin Declaration \cup Network \cup Org \cup NetworkObject \cup NamespaceObject

ASSUME NameAssumption ==
    /\ sanitizeName \in [Network -> Network]
    /\ \A n \in Network : sanitizeName[sanitizeName[n]] = sanitizeName[n]

\* Two organizations of one network have two namespaces.
ASSUME NamespaceAssumption ==
    /\ namespaceName \in [Network \X Org -> Namespace]
    /\ \A n \in Network, g, h \in Org :
           namespaceName[<<n, g>>] = namespaceName[<<n, h>>] => g = h

\* A network's namespaces carry its label and that of their organization.
Labelled(namespaces) ==
    \A x \in Namespace : namespaces[x] # None /\ namespaces[x].owner # None =>
        /\ namespaces[x].label = sanitizeName[namespaces[x].owner]
        /\ namespaces[x].org \in Org
        /\ namespaceName[<<namespaces[x].owner, namespaces[x].org>>] = x

ASSUME InitialAssumption ==
    \A s \in Initial :
        /\ s.declares \in [Network -> Declaration \cup {None}]
        /\ s.namespaces \in [Namespace -> NamespaceObject \cup {None}]
        /\ Labelled(s.namespaces)
        /\ s.left \in [Budget -> Nat]

VARIABLES
    network,     \* the FabricNetwork objects with their status
    namespace,   \* the namespaces with their ownership labels and annotations
    queue,       \* networks the controller is to look at
    pass,        \* the pass of Reconcile that runs
    left         \* edits, deletions and faults left

vars == <<network, namespace, queue, pass, left>>

Declared(d, generation) ==
    [spec |-> d, generation |-> generation, finalizer |-> FALSE, deleting |-> FALSE,
     phase |-> "none", observed |-> 0]

Idle == [net |-> None, read |-> None, at |-> "idle", todo |-> <<>>, ready |-> TRUE]

Init ==
    \E s \in Initial :
        /\ network = [n \in Network |-> IF s.declares[n] = None THEN None ELSE Declared(s.declares[n], 1)]
        /\ namespace = s.namespaces
        /\ queue = {n \in Network : network[n] # None}
        /\ pass = Idle
        /\ left = s.left

-----------------------------------------------------------------------------
(* The API server notifies the controller of every change of an object that *)
(* carries a network's annotations, or only its labels.                     *)

fabricNetworkRequestsForObject(object) ==
    (IF object.owner # None THEN {object.owner} ELSE {object.label}) \ {None}

Notify(requests) == queue' = queue \cup requests

At(stage) == pass.at = stage
Spend(what) == left[what] > 0 /\ left' = [left EXCEPT ![what] = @ - 1]

\* The pass ends, with an error or a time to requeue after, or for good.
EndPass(again) ==
    /\ pass' = Idle
    /\ queue' = IF again THEN queue \cup {pass.net} ELSE queue

\* Conditions carry the generation the pass read.
updateStatus(phase) ==
    network' = [network EXCEPT ![pass.net].phase = phase,
                               ![pass.net].observed = pass.read.generation]

\* A change of the status is a change of the network, so it starts another pass.
EndPassWith(phase, again) == updateStatus(phase) /\ EndPass(again \/ network' # network)

-----------------------------------------------------------------------------
(* Reconcile *)

\* A network is read: it is gone, being deleted, or to be reconciled.
StartPass(n) ==
    /\ At("idle") /\ n \in queue
    /\ queue' = queue \ {n}
    /\ \/ network[n] = None /\ UNCHANGED pass
       \/ /\ network[n] # None
          /\ pass' = [net |-> n, read |-> network[n], todo |-> network[n].spec.orgs, ready |-> TRUE,
                      at |-> IF network[n].deleting THEN "cleanup" ELSE "finalizer"]
    /\ UNCHANGED <<network, namespace, left>>

\* The network is read again to add the finalizer; it may be gone by now.
ensureFabricNetworkFinalizer ==
    /\ At("finalizer")
    /\ \/ network[pass.net] = None /\ EndPass(TRUE) /\ UNCHANGED network
       \/ /\ network[pass.net] # None
          /\ network' = [network EXCEPT ![pass.net].finalizer = TRUE]
          /\ IF network[pass.net].finalizer THEN UNCHANGED queue ELSE Notify({pass.net})
          /\ pass' = [pass EXCEPT !.at = "orgs"]
    /\ UNCHANGED <<namespace, left>>

\* validateFabricNetworkTopology found problems: the next edit wakes the controller.
RefuseTopology ==
    /\ At("orgs") /\ ~pass.read.spec.valid
    /\ EndPassWith("Failed", FALSE)
    /\ UNCHANGED <<namespace, left>>

Current == namespaceName[<<pass.net, Head(pass.todo)>>]

\* Mutant of ensureSameFabricNetworkOwner: ownership is not compared.
ensureSameFabricNetworkOwner_any(x) == TRUE

\* The annotations decide, or the labels when there are no annotations.
ensureSameFabricNetworkOwner(x) ==
    IF namespace[x].owner # None THEN namespace[x].owner = pass.net
    ELSE namespace[x].label \in {None, sanitizeName[pass.net]}

\* Mutant of buildOrgNamespace: the label of the organization is missing.
buildOrgNamespace_unlabelled(g) ==
    [owner |-> pass.net, label |-> sanitizeName[pass.net], org |-> None, state |-> "active", objects |-> "none"]

buildOrgNamespace(g) ==
    [owner |-> pass.net, label |-> sanitizeName[pass.net], org |-> g, state |-> "active", objects |-> "none"]

\* A namespace is created, adopted when nobody owns it, or left to its owner.
ensureNamespace ==
    LET x == Current
        desired == buildOrgNamespace(Head(pass.todo))
    IN  /\ At("orgs") /\ pass.read.spec.valid /\ pass.todo # <<>>
        /\ \/ /\ namespace[x] = None
              /\ namespace' = [namespace EXCEPT ![x] = desired]
              /\ Notify({pass.net})
              /\ pass' = [pass EXCEPT !.at = "org"] /\ UNCHANGED network
           \/ /\ namespace[x] # None /\ ensureSameFabricNetworkOwner(x)
              /\ namespace' = [namespace EXCEPT ![x].owner = desired.owner, ![x].label = desired.label,
                                                ![x].org = desired.org]
              /\ IF namespace' = namespace THEN UNCHANGED queue ELSE Notify({pass.net})
              /\ pass' = [pass EXCEPT !.at = "org"] /\ UNCHANGED network
           \/ /\ namespace[x] # None /\ ~ensureSameFabricNetworkOwner(x)
              /\ EndPassWith("Failed", TRUE)
              /\ UNCHANGED namespace
        /\ UNCHANGED left

\* The rest of reconcileOrg: what is missing is created, which a namespace that
\* is gone or terminating refuses.
reconcileOrg ==
    LET x == Current
        refused == namespace[x] # None =>
                       namespace[x].state = "terminating" /\ namespace[x].objects = "none"
    IN  /\ At("org")
        /\ \/ refused /\ EndPassWith("Failed", TRUE) /\ UNCHANGED namespace
           \/ /\ ~refused
              /\ namespace' = [namespace EXCEPT ![x].objects = IF @ = "none" THEN "starting" ELSE @]
              /\ IF namespace' = namespace THEN UNCHANGED queue ELSE Notify({pass.net})
              /\ pass' = [pass EXCEPT !.at = "orgs", !.todo = Tail(@),
                                      !.ready = @ /\ namespace'[x].objects = "running"]
              /\ UNCHANGED network
        /\ UNCHANGED left

\* Mutant of FinishPass: nothing is requeued.
FinishPass_once ==
    /\ At("orgs") /\ pass.read.spec.valid /\ pass.todo = <<>>
    /\ EndPassWith(IF pass.ready THEN "Ready" ELSE "Creating", FALSE)
    /\ UNCHANGED <<namespace, left>>

\* The status is written; only a network that is not ready is requeued.
FinishPass ==
    /\ At("orgs") /\ pass.read.spec.valid /\ pass.todo = <<>>
    /\ \/ pass.ready /\ EndPassWith("Ready", FALSE)
       \/ ~pass.ready /\ EndPassWith("Creating", TRUE)
    /\ UNCHANGED <<namespace, left>>

\* reconcileOrgs, reconcileChannels, reconcileChaincodes or the profiles fail.
FailPass ==
    /\ pass.at \in {"orgs", "org"} /\ pass.read.spec.valid
    /\ Spend("faults")
    /\ \/ EndPassWith("Failed", TRUE)
       \/ EndPass(TRUE) /\ UNCHANGED network
    /\ UNCHANGED namespace

\* The cleanup looks at the labels only.
namespaceOwnedByFabricNetwork(x) ==
    namespace[x].label = sanitizeName[pass.net] /\ namespace[x].org = Head(pass.todo)

\* Mutant of cleanupFabricNetwork: a namespace of another network is an error.
cleanupFabricNetwork_refuses ==
    LET x == Current
    IN  /\ At("cleanup") /\ pass.todo # <<>>
        /\ \/ /\ namespace[x] = None
              /\ pass' = [pass EXCEPT !.todo = Tail(@)] /\ UNCHANGED <<namespace, queue, left>>
           \/ /\ namespace[x] # None /\ namespaceOwnedByFabricNetwork(x)
              /\ namespace' = [namespace EXCEPT ![x].state = "terminating"]
              /\ Notify(fabricNetworkRequestsForObject(namespace[x]))
              /\ pass' = [pass EXCEPT !.todo = Tail(@)] /\ UNCHANGED left
           \/ /\ namespace[x] # None /\ ~namespaceOwnedByFabricNetwork(x)
              /\ EndPass(TRUE) /\ UNCHANGED <<namespace, left>>
        /\ UNCHANGED network

\* Mutant of cleanupFabricNetwork: a deletion that fails is passed over.
cleanupFabricNetwork_goesOn ==
    LET x == Current
    IN  /\ At("cleanup") /\ pass.todo # <<>>
        /\ \/ /\ namespace[x] # None /\ namespaceOwnedByFabricNetwork(x)
              /\ namespace' = [namespace EXCEPT ![x].state = "terminating"]
              /\ Notify(fabricNetworkRequestsForObject(namespace[x])) /\ UNCHANGED left
           \/ namespace[x] = None /\ UNCHANGED <<namespace, queue, left>>
           \/ Spend("faults") /\ UNCHANGED <<namespace, queue>>
        /\ pass' = [pass EXCEPT !.todo = Tail(@)]
        /\ UNCHANGED network

\* cleanupFabricNetwork, for one organization of the declaration that was read.
cleanupFabricNetwork ==
    LET x == Current
        owned == namespace[x] # None /\ namespaceOwnedByFabricNetwork(x)
    IN  /\ At("cleanup") /\ pass.todo # <<>>
        /\ \/ /\ ~owned
              /\ pass' = [pass EXCEPT !.todo = Tail(@)]
              /\ UNCHANGED <<namespace, queue, left>>
           \/ /\ owned
              /\ namespace' = [namespace EXCEPT ![x].state = "terminating"]
              /\ Notify(fabricNetworkRequestsForObject(namespace[x]))
              /\ pass' = [pass EXCEPT !.todo = Tail(@)] /\ UNCHANGED left
           \/ /\ Spend("faults") /\ EndPass(TRUE) /\ UNCHANGED namespace
        /\ UNCHANGED network

\* Without its finalizer the network that is being deleted is gone.
removeFabricNetworkFinalizer ==
    /\ At("cleanup") /\ pass.todo = <<>>
    /\ network' = [network EXCEPT ![pass.net] = None]
    /\ pass' = Idle /\ Notify({pass.net})
    /\ UNCHANGED <<namespace, left>>

\* The manager restarts: it lists the networks and begins with each of them.
Restart ==
    /\ Spend("faults")
    /\ pass' = Idle
    /\ queue' = {n \in Network : network[n] # None}
    /\ UNCHANGED <<network, namespace>>

-----------------------------------------------------------------------------
(* Users, and the workloads and namespaces of the cluster *)

CreateNetwork(n, d) ==
    /\ network[n] = None
    /\ Spend("edits")
    /\ network' = [network EXCEPT ![n] = Declared(d, 1)]
    /\ Notify({n})
    /\ UNCHANGED <<namespace, pass>>

EditNetwork(n, d) ==
    /\ network[n] # None /\ network[n].spec # d
    /\ Spend("edits")
    /\ network' = [network EXCEPT ![n].spec = d, ![n].generation = @ + 1]
    /\ Notify({n})
    /\ UNCHANGED <<namespace, pass>>

DeleteNetwork(n) ==
    /\ network[n] # None /\ ~network[n].deleting
    /\ Spend("deletes")
    /\ network' = [network EXCEPT ![n] = IF @.finalizer THEN [@ EXCEPT !.deleting = TRUE] ELSE None]
    /\ Notify({n})
    /\ UNCHANGED <<namespace, pass>>

Has(x, objects) == namespace[x] # None /\ namespace[x].objects = objects
Becomes(x, objects) ==
    /\ namespace' = [namespace EXCEPT ![x].objects = objects]
    /\ Notify(fabricNetworkRequestsForObject(namespace[x]))
    /\ UNCHANGED <<network, pass>>

StartWorkloads(x) == Has(x, "starting") /\ Becomes(x, "running") /\ UNCHANGED left
StopWorkloads(x) == Has(x, "running") /\ Spend("faults") /\ Becomes(x, "starting")

\* A terminating namespace loses its objects before it goes.
Terminate(x) ==
    /\ namespace[x] # None /\ namespace[x].state = "terminating"
    /\ namespace' = [namespace EXCEPT ![x] = IF Has(x, "none") THEN None ELSE [@ EXCEPT !.objects = "none"]]
    /\ Notify(fabricNetworkRequestsForObject(namespace[x]))
    /\ UNCHANGED <<network, pass, left>>

ReconcileStep ==
    \/ ensureFabricNetworkFinalizer \/ RefuseTopology
    \/ ensureNamespace \/ reconcileOrg \/ FinishPass
    \/ cleanupFabricNetwork \/ removeFabricNetworkFinalizer

Next ==
    \/ \E n \in Network : StartPass(n)
    \/ ReconcileStep \/ FailPass \/ Restart
    \/ \E n \in Network, d \in Declaration : CreateNetwork(n, d) \/ EditNetwork(n, d)
    \/ \E n \in Network : DeleteNetwork(n)
    \/ \E x \in Namespace : StartWorkloads(x) \/ StopWorkloads(x) \/ Terminate(x)

Spec == Init /\ [][Next]_vars

\* A pass goes on, the queue serves every network in turn, and the cluster
\* starts workloads and finishes deletions.
Fairness ==
    /\ \A n \in Network : SF_vars(StartPass(n))
    /\ WF_vars(ReconcileStep)
    /\ \A x \in Namespace : WF_vars(StartWorkloads(x)) /\ WF_vars(Terminate(x))

FairSpec == Spec /\ Fairness

-----------------------------------------------------------------------------
(* Properties *)

Pass == [net : Network \cup {None}, read : NetworkObject \cup {None},
         at : {"idle", "finalizer", "orgs", "org", "cleanup"}, todo : Seq(Org), ready : BOOLEAN]

\* Every part of the state has its shape; a namespace of a network has that
\* network's label and names the organization it is for (buildOrgNamespace).
TypeOK ==
    /\ network \in [Network -> NetworkObject \cup {None}]
    /\ namespace \in [Namespace -> NamespaceObject \cup {None}]
    /\ Labelled(namespace)
    /\ queue \subseteq Network
    /\ pass \in Pass
    /\ left \in [Budget -> Nat]

\* A namespace keeps its owner as long as it exists, also when another network's
\* organization maps to the same name (ensureSameFabricNetworkOwner compares the
\* names as written), and starts to go only while a network with its label is being
\* deleted: its owner, or one whose name sanitizeName makes the same
\* (namespaceOwnedByFabricNetwork compares the labels).
OwnershipIsRespected ==
    [][\A x \in Namespace : namespace[x] # None /\ namespace'[x] # None =>
          /\ namespace[x].owner # None => namespace'[x].owner = namespace[x].owner
          /\ namespace'[x].state # namespace[x].state =>
                 \E n \in Network :
                     /\ sanitizeName[n] = namespace[x].label
                     /\ network[n] # None /\ network[n].deleting]_vars

Elements(seq) == {seq[i] : i \in DOMAIN seq}
Orgs(d) == Elements(d.orgs)

Owns(n, g) ==
    LET x == namespaceName[<<n, g>>]
    IN  namespace[x] # None /\ namespace[x].owner = n

\* A network that had its finalizer disappears only when the namespaces it owns
\* for the organizations of the declaration that was read are terminating, after
\* any failed deletion, restart or edit (cleanupFabricNetwork).
FinalizerGuardsCleanup ==
    [][\A n \in Network :
          (network[n] # None /\ network[n].finalizer /\ network'[n] = None) =>
              \A g \in Orgs(pass.read.spec) :
                  Owns(n, g) => namespace[namespaceName[<<n, g>>]].state = "terminating"]_vars

Runs(n, g) == Owns(n, g) /\ Has(namespaceName[<<n, g>>], "running")
Running(n) == \A g \in Orgs(network[n].spec) : Runs(n, g)

\* The status is final for the generation and describes what there is.
Quiet(n) ==
    /\ ~network[n].deleting
    /\ network[n].observed = network[n].generation
    /\ IF network[n].spec.valid THEN network[n].phase = "Ready" /\ Running(n)
                                ELSE network[n].phase = "Failed"

\* No wakeup is lost: a network whose status is not final for its generation, or
\* is Ready although an organization does not run, is queued or being reconciled
\* (the requeues of Reconcile and the watches of SetupWithManager).
WakeupIsKept ==
    \A n \in Network : network[n] # None =>
        n \in queue \/ pass.net = n \/ Quiet(n)

\* Deletions end, and every network that stays is Ready with all its organizations
\* running, or Failed for a reason: an invalid declaration, or a namespace that
\* belongs to somebody else.
NetworksSettle ==
    \A n \in Network :
        \/ <>[](network[n] = None)
        \/ <>[](network[n] # None /\ ~network[n].deleting /\ network[n].phase = "Ready" /\ Running(n))
        \/ <>[](/\ network[n] # None /\ ~network[n].deleting /\ network[n].phase = "Failed"
                /\ \/ ~network[n].spec.valid
                   \/ \E g \in Orgs(network[n].spec) :
                          LET x == namespaceName[<<n, g>>]
                          IN  namespace[x] # None /\ namespace[x].owner # n)
=============================================================================
