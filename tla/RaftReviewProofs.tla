-------------------------- MODULE RaftReviewProofs --------------------------
(***************************************************************************)
(* What an accepted plan does, for consenter lists of any length and any   *)
(* edit of the plan file.                                                  *)
(***************************************************************************)
EXTENDS RaftReview, SequenceTheorems, FiniteSetTheorems, TLAPS

\* How long the provers may take over a step, in seconds.
USE SMTT(20), ZenonT(20)

\* Removing an entry keeps the others in their order.
LEMMA WithoutEntryProperties ==
    ASSUME NEW S, NEW entries \in Seq(S), NEW i \in 1 .. Len(entries)
    PROVE  /\ WithoutEntry(entries, i) \in Seq(S)
           /\ Len(WithoutEntry(entries, i)) = Len(entries) - 1
           /\ \A j \in 1 .. Len(entries) - 1 :
                  WithoutEntry(entries, i)[j] = IF j < i THEN entries[j] ELSE entries[j + 1]
<1>. DEFINE n == Len(entries)
            front == SubSeq(entries, 1, i - 1)
            back  == SubSeq(entries, i + 1, n)
<1>1. /\ front \in Seq(S) /\ Len(front) = i - 1
      /\ \A j \in 1 .. i - 1 : front[j] = entries[j]
  OBVIOUS
<1>2. /\ back \in Seq(S) /\ Len(back) = n - i
      /\ \A j \in 1 .. n - i : back[j] = entries[i + j]
  OBVIOUS
<1>3. n \in Nat
  OBVIOUS
<1>. HIDE DEF front, back, n
<1>4. front \o back \in Seq(S) /\ Len(front \o back) = n - 1
  <2>1. front \o back \in Seq(S) /\ Len(front \o back) = Len(front) + Len(back)
    BY <1>1, <1>2, ConcatProperties, Zenon
  <2>. QED  BY <1>1, <1>2, <1>3, <2>1
<1>5. ASSUME NEW j \in 1 .. n - 1
      PROVE  (front \o back)[j] = IF j < i THEN entries[j] ELSE entries[j + 1]
  <2>1. CASE j < i
    BY <1>1, <1>2, <1>3, <2>1
  <2>2. CASE ~(j < i)
    <3>1. (front \o back)[j] = back[j - (i - 1)]
      BY <1>1, <1>2, <1>3, <2>2
    <3>2. j - (i - 1) \in 1 .. n - i
      BY <1>3, <2>2
    <3>3. back[j - (i - 1)] = entries[j + 1]
      BY <1>2, <1>3, <3>2, <2>2
    <3>. QED  BY <2>2, <3>1, <3>3
  <2>. QED  BY <2>1, <2>2, Zenon
<1>. QED  BY <1>4, <1>5, Zenon DEF WithoutEntry, front, back, n

\* In a plan the controller accepts, the new consenters are the old ones with
\* one added or one removed.
LEMMA AcceptedUpdate ==
    ASSUME NEW supplied, ValidateRaftPlan(supplied),
           NEW old, old = supplied.originalConfig.consenters, old \in Seq(RaftConsenter),
           NEW new, new = supplied.updatedConfig.consenters, new \in Seq(RaftConsenter),
           "consenters" \in DOMAIN supplied.originalConfig
    PROVE  \/ new = old
           \/ \E c \in RaftConsenter : new = Append(old, c)
           \/ \E i \in DOMAIN old : new = WithoutEntry(old, i)
<1>1. supplied.updatedConfig = planRaftConfig(supplied.originalConfig, new).updatedConfig
  BY DEF ValidateRaftPlan
<1>2. new = UpdatedConsenters(old, new)
  BY <1>1 DEF planRaftConfig
<1>3. CASE Added(old, new) # {}
  <2>. DEFINE i == CHOOSE i \in Added(old, new) : TRUE
  <2>1. i \in DOMAIN new
    BY <1>3 DEF Added
  <2>2. new = Append(old, new[i])
    BY <1>2, <1>3 DEF UpdatedConsenters
  <2>. QED  BY <2>1, <2>2
<1>4. CASE Added(old, new) = {} /\ Removed(old, new) # {}
  <2>. DEFINE i == CHOOSE i \in Removed(old, new) : TRUE
  <2>1. i \in DOMAIN old
    BY <1>4 DEF Removed
  <2>2. new = WithoutEntry(old, i)
    BY <1>2, <1>4 DEF UpdatedConsenters
  <2>. QED  BY <2>1, <2>2
<1>5. CASE Added(old, new) = {} /\ Removed(old, new) = {}
  BY <1>2, <1>5 DEF UpdatedConsenters
<1>. QED  BY <1>3, <1>4, <1>5
-----------------------------------------------------------------------------

LEMMA UpdatedIsTyped ==
    ASSUME NEW current \in Seq(RaftConsenter), NEW wanted \in Seq(RaftConsenter)
    PROVE  UpdatedConsenters(current, wanted) \in Seq(RaftConsenter)
<1>1. CASE Added(current, wanted) # {}
  <2>. DEFINE i == CHOOSE i \in Added(current, wanted) : TRUE
  <2>1. i \in DOMAIN wanted
    BY <1>1 DEF Added
  <2>2. UpdatedConsenters(current, wanted) = Append(current, wanted[i])
    BY <1>1 DEF UpdatedConsenters
  <2>. QED  BY <2>1, <2>2
<1>2. CASE Added(current, wanted) = {} /\ Removed(current, wanted) # {}
  <2>. DEFINE i == CHOOSE i \in Removed(current, wanted) : TRUE
  <2>1. i \in 1 .. Len(current)
    BY <1>2 DEF Removed
  <2>2. UpdatedConsenters(current, wanted) = WithoutEntry(current, i)
    BY <1>2 DEF UpdatedConsenters
  <2>. QED  BY <2>1, <2>2, WithoutEntryProperties
<1>3. CASE Added(current, wanted) = {} /\ Removed(current, wanted) = {}
  BY <1>3 DEF UpdatedConsenters
<1>. QED  BY <1>1, <1>2, <1>3

LEMMA QuorumIsNatural == \A n \in Nat : Quorum(n) \in Nat
BY DEF Quorum

LEMMA PlanIsTyped ==
    ASSUME NEW config \in Config, NEW wanted \in Lists
    PROVE  planRaftConfig(config, wanted) \in PlanFile
<1>1. config.consenters \in Seq(RaftConsenter) /\ wanted \in Seq(RaftConsenter)
  BY ReviewConstants DEF Config
<1>2. PICK new \in Seq(RaftConsenter) : new = UpdatedConsenters(config.consenters, wanted)
  BY <1>1, UpdatedIsTyped
<1>3. PlanAction(config.consenters, wanted) \in PlanActions
  BY DEF PlanAction, PlanActions
<1>4. Quorum(Len(config.consenters)) \in Nat /\ Quorum(Len(wanted)) \in Nat
  <2>1. Len(config.consenters) \in Nat /\ Len(wanted) \in Nat
    BY <1>1
  <2>. QED  BY <2>1, QuorumIsNatural, Zenon
<1>5. [config EXCEPT !.consenters = new]
          \in [sequence : Sequences64, mode : {"normal", "maintenance"},
               consenters : Seq(RaftConsenter), rest : Rests]
  BY <1>2 DEF Config
<1>6. config.sequence \in Sequences64
  BY DEF Config
<1>. QED  BY <1>2, <1>3, <1>4, <1>5, <1>6 DEF planRaftConfig, PlanFile

Begun == stage \in {"planned", "edited", "accepted", "rejected"}

Inv ==
    /\ TypeOK
    /\ Begun => plan \in PlanFile
    /\ stage = "accepted" => ValidateRaftPlan(plan)

LEMMA InitInv == Init => Inv
BY ReviewConstants DEF Init, Inv, TypeOK, Begun

LEMMA EditInv == Inv /\ Edit => Inv'
<1>. SUFFICES ASSUME Inv, Edit PROVE Inv'
  OBVIOUS
<1>1. plan' \in PlanFile
  BY ReviewConstants DEF Edit
<1>2. original' \in Config
  BY <1>1 DEF Edit, PlanFile
<1>. QED  BY <1>1, <1>2 DEF Edit, Inv, TypeOK, Begun

LEMMA NextInv == Inv /\ [Next]_vars => Inv'
<1>. SUFFICES ASSUME Inv, [Next]_vars PROVE Inv'
  OBVIOUS
<1>1. CASE Plan
  <2>1. CASE Plannable(original, desired)
    <3>1. original \in Config /\ desired \in Lists
      BY <2>1, <1>1 DEF Inv, TypeOK, Plannable, validateRaftConsenters
    <3>2. plan' \in PlanFile
      BY <1>1, <2>1, <3>1, PlanIsTyped DEF Plan, planRaftConfig
    <3>. QED  BY <1>1, <2>1, <3>2 DEF Plan, Inv, TypeOK, Begun
  <2>2. CASE ~Plannable(original, desired)
    BY <1>1, <2>2 DEF Plan, Inv, TypeOK, Begun
  <2>. QED  BY <2>1, <2>2
<1>2. CASE Edit
  BY <1>2, EditInv
<1>3. CASE Validate
  BY <1>3 DEF Validate, Inv, TypeOK, Begun
<1>4. CASE Compare
  BY <1>4 DEF Compare, Inv, TypeOK, Begun
<1>5. CASE UNCHANGED vars
  BY <1>5 DEF vars, Inv, TypeOK, Begun
<1>. QED  BY <1>1, <1>2, <1>3, <1>4, <1>5 DEF Next

\* The plan file keeps its shape, whatever plan file is handed over, and what is
\* accepted has passed ValidateRaftPlan.
THEOREM ReviewInvariant == Spec => []Inv
<1>1. Init => Inv
  BY InitInv
<1>2. Inv /\ [Next]_vars => Inv'
  BY NextInv
<1>. QED  BY <1>1, <1>2, PTL DEF Spec

\* Every plan the CLI writes or the controller reads has its shape.
THEOREM ReviewTypeCorrect == Spec => []TypeOK
<1>1. Inv => TypeOK
  BY DEF Inv
<1>. QED  BY <1>1, ReviewInvariant, PTL

-----------------------------------------------------------------------------

LEMMA AcceptedIsOneDelta == Inv => AcceptedPlanIsOneDelta
<1>. SUFFICES ASSUME Inv, stage = "accepted" PROVE AcceptedPlanIsOneDelta
  BY DEF AcceptedPlanIsOneDelta
<1>. DEFINE old == plan.originalConfig
            new == plan.updatedConfig
<1>1. plan \in PlanFile /\ ValidateRaftPlan(plan)
  BY DEF Inv, Begun
<1>2. /\ old \in Config
      /\ new \in [sequence : Sequences64, mode : {"normal", "maintenance"},
                  consenters : Seq(RaftConsenter), rest : Rests]
  BY <1>1 DEF PlanFile
<1>3. old.consenters \in Seq(RaftConsenter) /\ new.consenters \in Seq(RaftConsenter)
  BY <1>2, ReviewConstants DEF Config
<1>4. OneDelta(old.consenters, new.consenters)
  <2>1. "consenters" \in DOMAIN plan.originalConfig
    BY <1>2 DEF Config
  <2>2. PICK o \in Seq(RaftConsenter), n \in Seq(RaftConsenter) :
            o = plan.originalConfig.consenters /\ n = plan.updatedConfig.consenters
    BY <1>3
  <2>. QED  BY <1>1, <2>1, <2>2, AcceptedUpdate DEF OneDelta
<1>5. /\ plan.action = PlanAction(old.consenters, new.consenters)
      /\ new = [old EXCEPT !.consenters = UpdatedConsenters(old.consenters, new.consenters)]
      /\ Len(new.consenters) > 0
  BY <1>1 DEF ValidateRaftPlan, planRaftConfig, Plannable, validateRaftConsenters
<1>6. new.consenters = UpdatedConsenters(old.consenters, new.consenters)
  BY <1>2, <1>5 DEF Config
<1>7. new = [old EXCEPT !.consenters = new.consenters]
  BY <1>5, <1>6
<1>8. ASSUME plan.action = "AlreadyApplied" PROVE new = old
  <2>1. UpdatedConsenters(old.consenters, new.consenters) = old.consenters
    BY <1>5, <1>8 DEF PlanAction, UpdatedConsenters
  <2>. QED  BY <1>2, <1>5, <2>1 DEF Config
<1>9. ASSUME new = old PROVE plan.action = "AlreadyApplied"
  <2>1. Added(old.consenters, old.consenters) = {} /\ Removed(old.consenters, old.consenters) = {}
    BY DEF Added, Removed, Keys
  <2>. QED  BY <1>5, <1>9, <2>1 DEF PlanAction
<1>. QED  BY <1>4, <1>5, <1>7, <1>8, <1>9 DEF AcceptedPlanIsOneDelta

\* However the plan file was edited, an accepted plan changes nothing of the
\* config but one consenter (ValidateRaftPlan).
THEOREM AcceptedChangesOneConsenter == Spec => []AcceptedPlanIsOneDelta
BY AcceptedIsOneDelta, ReviewInvariant, PTL

\* A list has at most as many consenters as entries.
LEMMA KeysAreFew ==
    ASSUME NEW list \in Seq(RaftConsenter)
    PROVE  IsFiniteSet(Keys(list)) /\ Cardinality(Keys(list)) \in Nat /\ Cardinality(Keys(list)) <= Len(list)
<1>. DEFINE n == Len(list)
            f == [i \in 1 .. n |-> Key(list[i])]
<1>1. n \in Nat /\ DOMAIN list = 1 .. n
  OBVIOUS
<1>2. f \in Surjection(1 .. n, Keys(list))
  BY <1>1 DEF Surjection, Keys
<1>3. IsFiniteSet(1 .. n) /\ Cardinality(1 .. n) = n
  BY <1>1, FS_Interval
<1>4. IsFiniteSet(Keys(list)) /\ Cardinality(Keys(list)) <= n
  BY <1>2, <1>3, FS_Surjection
<1>. QED  BY <1>4, FS_CardinalityType

\* Two majorities overlap when one list is the other with one entry more.
LEMMA MajoritiesOverlap ==
    ASSUME NEW small \in Seq(RaftConsenter), NEW large \in Seq(RaftConsenter),
           Len(large) <= Len(small) + 1, Len(small) <= Len(large), Keys(small) \subseteq Keys(large),
           NEW p \in SUBSET Keys(small), Cardinality(p) >= Quorum(Len(small)),
           NEW q \in SUBSET Keys(large), Cardinality(q) >= Quorum(Len(large))
    PROVE  p \cap q # {}
<1>1. PICK m \in Nat, n \in Nat : m = Len(small) /\ n = Len(large) /\ m <= n /\ n <= m + 1
  OBVIOUS
<1>2. IsFiniteSet(Keys(large)) /\ Cardinality(Keys(large)) \in Nat /\ Cardinality(Keys(large)) <= n
  BY <1>1, KeysAreFew
<1>3. p \subseteq Keys(large) /\ IsFiniteSet(p) /\ IsFiniteSet(q)
  BY <1>2, FS_Subset
<1>4. Cardinality(p) \in Nat /\ Cardinality(q) \in Nat
  BY <1>3, FS_CardinalityType
<1>5. Cardinality(p) >= (m \div 2) + 1 /\ Cardinality(q) >= (n \div 2) + 1
  BY <1>1 DEF Quorum
<1>6. (m \div 2) + (n \div 2) + 2 > n
  BY <1>1
<1>7. Cardinality(p) + Cardinality(q) > Cardinality(Keys(large))
  BY <1>1, <1>2, <1>4, <1>5, <1>6
<1>. QED  BY <1>2, <1>3, <1>7, FS_MajoritiesIntersect

LEMMA AcceptedOverlap == Inv => AcceptedQuorumsOverlap
<1>. SUFFICES ASSUME Inv, stage = "accepted" PROVE AcceptedQuorumsOverlap
  BY DEF AcceptedQuorumsOverlap
<1>. DEFINE old == plan.originalConfig.consenters
            new == plan.updatedConfig.consenters
<1>1. plan \in PlanFile
  BY DEF Inv, Begun
<1>2. old \in Seq(RaftConsenter) /\ new \in Seq(RaftConsenter)
  BY <1>1, ReviewConstants DEF PlanFile, Config
<1>3. OneDelta(old, new)
  BY <1>1, AcceptedIsOneDelta DEF AcceptedPlanIsOneDelta
<1>. HIDE DEF old, new
<1>. SUFFICES ASSUME NEW p \in SUBSET Keys(old), NEW q \in SUBSET Keys(new),
                     Cardinality(p) >= Quorum(Len(old)), Cardinality(q) >= Quorum(Len(new))
              PROVE  p \cap q # {}
  BY DEF AcceptedQuorumsOverlap, old, new
<1>4. CASE new = old
  BY <1>2, <1>4, MajoritiesOverlap
<1>5. ASSUME NEW c \in RaftConsenter, new = Append(old, c) PROVE p \cap q # {}
  <2>1. Len(new) = Len(old) + 1 /\ \A i \in DOMAIN old : i \in DOMAIN new /\ new[i] = old[i]
    BY <1>2, <1>5
  <2>2. Keys(old) \subseteq Keys(new)
    BY <2>1 DEF Keys
  <2>. QED  BY <1>2, <2>1, <2>2, MajoritiesOverlap
<1>6. ASSUME NEW i \in DOMAIN old, new = WithoutEntry(old, i) PROVE p \cap q # {}
  <2>1. i \in 1 .. Len(old) /\ Len(old) \in Nat
    BY <1>2
  <2>2. /\ Len(new) = Len(old) - 1
        /\ \A j \in 1 .. Len(old) - 1 : new[j] = IF j < i THEN old[j] ELSE old[j + 1]
    BY <1>2, <1>6, <2>1, WithoutEntryProperties
  <2>3. ASSUME NEW j \in DOMAIN new PROVE \E l \in DOMAIN old : new[j] = old[l]
    <3>1. j \in 1 .. Len(old) - 1
      BY <1>2, <2>1, <2>2
    <3>2. j \in DOMAIN old /\ j + 1 \in DOMAIN old
      BY <1>2, <2>1, <3>1
    <3>3. new[j] = old[j] \/ new[j] = old[j + 1]
      BY <2>2, <3>1
    <3>. QED  BY <3>2, <3>3
  <2>4. Keys(new) \subseteq Keys(old)
    BY <2>3 DEF Keys
  <2>5. q \cap p # {}
    BY <1>2, <2>1, <2>2, <2>4, MajoritiesOverlap
  <2>. QED  BY <2>5
<1>. QED  BY <1>3, <1>4, <1>5, <1>6 DEF OneDelta

\* However the plan file was edited, a majority of the consenters an accepted plan
\* starts from and a majority of those it leads to share a consenter, for consenter
\* lists of every length (planRaftConfig).
THEOREM AcceptedMajoritiesOverlap == Spec => []AcceptedQuorumsOverlap
BY AcceptedOverlap, ReviewInvariant, PTL
=============================================================================
