----------------------------- MODULE RaftReview -----------------------------
(***************************************************************************)
(* The way of a Raft plan from a fetched config block to an accepted       *)
(* request: the CLI plans against a snapshot, the plan file passes through *)
(* human hands, the controller recomputes it, and much later the           *)
(* submission Job asks whether a live config is newer than the snapshot.   *)
(***************************************************************************)
EXTENDS RaftPlan

CONSTANTS
    Lists,        \* consenter lists somebody may write down
    Rests,        \* contents of the config outside the consenter list
    Sequences64,  \* decimal strings of config sequences
    Snapshots,    \* the configs of the blocks the CLI may be given
    Handed        \* the plan files somebody may hand over

Config == [sequence : Sequences64, mode : {"normal", "maintenance"},
           consenters : Lists, rest : Rests]

PlanActions == {"Add", "Remove", "AlreadyApplied"}

PlanFile == [configSequence : Sequences64, action : PlanActions,
             currentQuorum : Nat, desiredQuorum : Nat, originalConfig : Config,
             updatedConfig : [sequence : Sequences64, mode : {"normal", "maintenance"},
                              consenters : Seq(RaftConsenter), rest : Rests]]

ASSUME ReviewConstants ==
    /\ Snapshots \subseteq Config
    /\ Lists \subseteq Seq(RaftConsenter)
    /\ Handed \subseteq PlanFile

VARIABLES
    stage,      \* how far the plan has come
    original,   \* the config of the block the CLI was given
    desired,    \* the consenter list the CLI was given
    plan,       \* the plan file, once there is one
    newer       \* the comparison of a live sequence with the plan's, if made

vars == <<stage, original, desired, plan, newer>>

NoPlan == [action |-> "none"]
NotCompared == <<>>

Init ==
    /\ stage = "fetched"
    /\ original \in Snapshots
    /\ desired \in Lists
    /\ plan = NoPlan
    /\ newer = NotCompared

\* fabricopsctl channel plan-raft-update
Plan ==
    /\ stage = "fetched"
    /\ IF Plannable(original, desired)
       THEN /\ stage' = "planned"
            /\ plan' = planRaftConfig(original, desired)
       ELSE stage' = "refused" /\ UNCHANGED plan
    /\ UNCHANGED <<original, desired, newer>>

\* The plan file is edited, or another one is handed over in its place: any of its
\* fields may differ, and what the CLI was given no longer matters.
Edit ==
    /\ stage = "planned"
    /\ plan' \in Handed
    /\ stage' = "edited"
    /\ original' = plan'.originalConfig
    /\ desired' = <<>>
    /\ UNCHANGED newer

\* reconcileRaftUpdate validates the plan it reads from planRef
Validate ==
    /\ stage \in {"planned", "edited"}
    /\ stage' = IF ValidateRaftPlan(plan) THEN "accepted" ELSE "rejected"
    /\ UNCHANGED <<original, desired, plan, newer>>

\* membership_matches compares the sequence of a fetched config with the plan's
Compare ==
    /\ stage = "accepted"
    /\ newer = NotCompared
    /\ \E live \in Sequences64 :
           newer' = <<live, NewerSequence(live, plan.configSequence)>>
    /\ UNCHANGED <<stage, original, desired, plan>>

Next == Plan \/ Edit \/ Validate \/ Compare

Spec == Init /\ [][Next]_vars

-----------------------------------------------------------------------------
(* Properties *)

\* Every part of the state has its shape; in a plan the new consenters are
\* entries as somebody wrote them (planRaftConfig keeps their spelling).
TypeOK ==
    /\ stage \in {"fetched", "planned", "refused", "edited", "accepted", "rejected"}
    /\ original \in Config
    /\ desired \in Lists \cup {<<>>}
    /\ plan \in PlanFile \cup {NoPlan}

\* What the CLI plans reaches the list it was asked for, whatever the order
\* and the spelling of the entries (planRaftConfig), and the controller
\* accepts it unchanged (ValidateRaftPlan recomputes from the pair of configs
\* only, without the list the CLI was given).
PlanReachesDesired ==
    stage = "planned" =>
        /\ Keys(plan.updatedConfig.consenters) = Keys(desired)
        /\ validateRaftConsenters(plan.updatedConfig.consenters)
        /\ plan.desiredQuorum = Quorum(Len(plan.updatedConfig.consenters))
        /\ ValidateRaftPlan(plan)

\* A list obtained from another one by one addition at its end or one
\* removal: the entries kept are the same entries, spelled the same, in the
\* same order.
OneDelta(before, after) ==
    \/ after = before
    \/ \E c \in RaftConsenter : after = Append(before, c)
    \/ \E i \in DOMAIN before : after = WithoutEntry(before, i)

\* However the plan file was edited, an accepted plan changes nothing of the
\* config but one consenter (ValidateRaftPlan).
AcceptedPlanIsOneDelta ==
    stage = "accepted" =>
        LET old == plan.originalConfig
            new == plan.updatedConfig
        IN  /\ OneDelta(old.consenters, new.consenters)
            /\ new = [old EXCEPT !.consenters = new.consenters]
            /\ plan.action = "AlreadyApplied" <=> new = old
            /\ Len(new.consenters) > 0

\* However the plan file was edited, a majority of the consenters an accepted plan
\* starts from and a majority of those it leads to always share a consenter, which
\* is what changing one at a time is for (planRaftConfig; that the channel still has
\* the consenters the plan starts from is for the submission to find out).
AcceptedQuorumsOverlap ==
    stage = "accepted" =>
        LET old == plan.originalConfig.consenters
            new == plan.updatedConfig.consenters
        IN  \A p \in SUBSET Keys(old), q \in SUBSET Keys(new) :
                Cardinality(p) >= Quorum(Len(old)) /\ Cardinality(q) >= Quorum(Len(new))
                => p \cap q # {}

\* The number a decimal string stands for
Value(digits) ==
    LET value[i \in 0 .. Len(digits)] ==
            IF i = 0 THEN 0 ELSE 10 * value[i - 1] + digits[i]
    IN  value[Len(digits)]

\* Comparing the strings by length and then character by character is
\* comparing the numbers (the jq program of membership_matches).
SequenceOrderIsNumeric ==
    newer # NotCompared =>
        (newer[2] <=> Value(newer[1]) > Value(plan.configSequence))
=============================================================================
