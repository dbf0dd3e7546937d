------------------------------ MODULE RaftPlan ------------------------------
(***************************************************************************)
(* The offline planner of a Raft consenter change                          *)
(* (internal/channelconfig/raft.go).  Every operator is a pure function of *)
(* its arguments; the CLI calls PlanRaftUpdate, the controller recomputes  *)
(* the plan it is handed with ValidateRaftPlan.                            *)
(*                                                                         *)
(* Abstractions.  A consenter is one way of writing an entry of the list;   *)
(* endpoint, client and server give what validateRaftConsenters derives    *)
(* from it: the host:port pair with its spelling normalised (lower case,   *)
(* no trailing dot) and its two TLS certificates, each identified by the   *)
(* hash of its DER bytes.  A certificate that does not decode to a single  *)
(* non-CA certificate is outside LeafCertificate.  Everything of a channel *)
(* config the planner does not look at is the opaque field rest.           *)
(***************************************************************************)
EXTENDS Naturals, Sequences, FiniteSets

CONSTANTS
    RaftConsenter,    \* entries of a consenter list, as written
    endpoint,         \* the normalised host:port of an entry
    client, server,   \* its TLS certificates
    ValidEndpoint,    \* endpoints with a valid host and a port in 1..65535
    LeafCertificate   \* well-formed certificates that are not CA certificates

ASSUME PlanConstants ==
    /\ DOMAIN endpoint = RaftConsenter
    /\ DOMAIN client = RaftConsenter
    /\ DOMAIN server = RaftConsenter

\* What makes two entries the same consenter: endpoint and both certificates.
Key(c) == <<endpoint[c], client[c], server[c]>>

Certificates(c) == {client[c], server[c]}

Keys(consenters) == {Key(consenters[i]) : i \in DOMAIN consenters}

\* TRUE iff validateRaftConsenters returns no error.
validateRaftConsenters(consenters) ==
    /\ Len(consenters) > 0
    /\ \A i \in DOMAIN consenters :
           /\ endpoint[consenters[i]] \in ValidEndpoint
           /\ Certificates(consenters[i]) \subseteq LeafCertificate
    /\ \A i, j \in DOMAIN consenters : i # j =>
           /\ endpoint[consenters[i]] # endpoint[consenters[j]]
           /\ Certificates(consenters[i]) \cap Certificates(consenters[j]) = {}

Added(current, desired) ==
    {i \in DOMAIN desired : Key(desired[i]) \notin Keys(current)}

Removed(current, desired) ==
    {i \in DOMAIN current : Key(current[i]) \notin Keys(desired)}

WithoutEntry_next(entries, i) ==
    SubSeq(entries, 1, i) \o SubSeq(entries, i + 2, Len(entries))

\* entries without the one at index i, the others in their order
WithoutEntry(entries, i) ==
    SubSeq(entries, 1, i - 1) \o SubSeq(entries, i + 1, Len(entries))

Quorum_half(n) == (n + 1) \div 2

Quorum(n) == (n \div 2) + 1

-----------------------------------------------------------------------------

\* TRUE iff planRaftConfig returns a plan: Raft in its normal state, both
\* consenter lists valid, and at most one consenter added or removed.
Plannable(config, desired) ==
    /\ config.mode = "normal"
    /\ validateRaftConsenters(config.consenters)
    /\ validateRaftConsenters(desired)
    /\ Cardinality(Added(config.consenters, desired))
         + Cardinality(Removed(config.consenters, desired)) <= 1

UpdatedConsenters_normalised(current, desired) ==
    LET added == Added(current, desired)
    IN  IF added = {} THEN current ELSE Append(current, endpoint[desired[CHOOSE i \in added : TRUE]])

\* The new consenter list: an added entry goes to the end, a removed one
\* leaves its place, and nothing else moves.
UpdatedConsenters(current, desired) ==
    LET added   == Added(current, desired)
        removed == Removed(current, desired)
    IN  IF added # {} THEN Append(current, desired[CHOOSE i \in added : TRUE])
        ELSE IF removed # {} THEN WithoutEntry(current, CHOOSE i \in removed : TRUE)
        ELSE current

PlanAction(current, desired) ==
    IF Added(current, desired) # {} THEN "Add"
    ELSE IF Removed(current, desired) # {} THEN "Remove"
    ELSE "AlreadyApplied"

planRaftConfig(config, desired) ==
    [configSequence |-> config.sequence,
     action         |-> PlanAction(config.consenters, desired),
     currentQuorum  |-> Quorum(Len(config.consenters)),
     desiredQuorum  |-> Quorum(Len(desired)),
     originalConfig |-> config,
     updatedConfig  |-> [config EXCEPT !.consenters =
                            UpdatedConsenters(config.consenters, desired)]]

ValidateRaftPlan_anyUpdate(supplied) ==
    LET desired == supplied.updatedConfig.consenters
    IN  /\ Plannable(supplied.originalConfig, desired)
        /\ supplied.configSequence = supplied.originalConfig.sequence
        /\ supplied.action = PlanAction(supplied.originalConfig.consenters, desired)

\* TRUE iff ValidateRaftPlan accepts a supplied plan.  It recomputes the
\* plan from the supplied pair of configs, and wants the same source
\* sequence, the same action and the same updated config.
ValidateRaftPlan(supplied) ==
    LET desired  == supplied.updatedConfig.consenters
        computed == planRaftConfig(supplied.originalConfig, desired)
    IN  /\ Plannable(supplied.originalConfig, desired)
        /\ supplied.configSequence = computed.configSequence
        /\ supplied.action = computed.action
        /\ supplied.updatedConfig = computed.updatedConfig

-----------------------------------------------------------------------------
(* The sequence of a config is a decimal string of 64 bits, more than jq's *)
(* numbers hold exactly; the submission script compares two of them by     *)
(* length, then as strings.  A string is the sequence of its digits here.  *)

\* a > b in jq's order of strings: the first difference decides
StringGreater(a, b) ==
    \/ /\ Len(a) > Len(b)
       /\ \A i \in 1 .. Len(b) : a[i] = b[i]
    \/ \E i \in 1 .. Len(a) :
           /\ i <= Len(b)
           /\ a[i] > b[i]
           /\ \A j \in 1 .. i - 1 : a[j] = b[j]

NewerSequence_asStrings(live, planned) == StringGreater(live, planned)

NewerSequence(live, planned) ==
    \/ Len(live) > Len(planned)
    \/ Len(live) = Len(planned) /\ StringGreater(live, planned)
=============================================================================
