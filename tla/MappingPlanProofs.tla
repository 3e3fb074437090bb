------------------------- MODULE MappingPlanProofs -------------------------
(***************************************************************************)
(* The safety of MappingPlan for every set of tables, names, spellings and *)
(* transformations: the types, that suggestions are one-to-one and without *)
(* a rival, that they can be approved as they stand, and that what was     *)
(* approved holds for the discoveries it was reviewed with.                *)
(***************************************************************************)
EXTENDS MappingPlan, TLAPS

----------------------------------------------------------------------------
(* Scores, whatever the columns are *)

LEMMA CompatibilityType ==
  ASSUME NEW a, NEW b
  PROVE  Compatibility(a, b) \in Compatibilities
  BY DEF Compatibility, Compatibilities

LEMMA WeightTypes ==
  ASSUME NEW a, NEW b, NEW s, NEW t, NEW c
  PROVE  /\ NameWeight(s, t) \in 0..58
         /\ TypeWeight(c) \in 0..28
         /\ WidthWeight(a, b) \in 0..4
         /\ NullWeight(a, b) \in -22..4
         /\ OrdinalWeight(a, b) \in 0..4
         /\ Priority(c) \in 0..4
  <1>1. NameWeight(s, t) \in {58, 50, 46, 18, 0}
    BY DEF NameWeight
  <1>2. TypeWeight(c) \in {28, 20, 4, 0}
    BY DEF TypeWeight
  <1>3. WidthWeight(a, b) \in {4, 0} /\ OrdinalWeight(a, b) \in {4, 0}
    BY DEF WidthWeight, OrdinalWeight
  <1>4. NullWeight(a, b) \in {0, -22, 4}
    BY DEF NullWeight
  <1>5. Priority(c) \in {0, 1, 2, 3, 4}
    BY DEF Priority
  <1> QED
    BY <1>1, <1>2, <1>3, <1>4, <1>5

\* A score is a percentage: its clamps are never needed above.
LEMMA ConfidenceType ==
  ASSUME NEW S, NEW T, NEW s, NEW t
  PROVE  Confidence(S, T, s, t) \in 0..98
  <1> DEFINE a == NameWeight(s, t)
             b == TypeWeight(Compatibility(S[s], T[t]))
             c == WidthWeight(S[s], T[t])
             d == NullWeight(S[s], T[t])
             e == OrdinalWeight(S[s], T[t])
  <1>1. a \in 0..58 /\ b \in 0..28 /\ c \in 0..4 /\ d \in -22..4 /\ e \in 0..4
    BY WeightTypes
  <1>2. Confidence(S, T, s, t) =
          IF a + b + c + d + e < 0 THEN 0 ELSE a + b + c + d + e
    BY DEF Confidence
  <1> HIDE DEF a, b, c, d, e
  <1> QED
    BY <1>1, <1>2

\* The rank of a candidate decides between any two.
LEMMA BeforeAntisymmetric ==
  ASSUME NEW S, NEW T, NEW s \in Nat, NEW t \in Nat, NEW u \in Nat, NEW v \in Nat,
         Before(S, T, <<s, t>>, <<u, v>>)
  PROVE  ~Before(S, T, <<u, v>>, <<s, t>>)
  <1>1. PICK m, n, i, j : /\ m = Confidence(S, T, s, t) /\ n = Confidence(S, T, u, v)
                          /\ i = Priority(Compatibility(S[s], T[t]))
                          /\ j = Priority(Compatibility(S[u], T[v]))
    OBVIOUS
  <1>2. m \in 0..98 /\ n \in 0..98 /\ i \in 0..4 /\ j \in 0..4
    BY <1>1, ConfidenceType, WeightTypes
  <1>3. Before(S, T, <<s, t>>, <<u, v>>) <=>
          m > n \/ (m = n /\ (i > j \/ (i = j /\ (s < u \/ (s = u /\ t < v)))))
    BY <1>1 DEF Before
  <1>4. Before(S, T, <<u, v>>, <<s, t>>) <=>
          n > m \/ (n = m /\ (j > i \/ (j = i /\ (u < s \/ (u = s /\ v < t)))))
    BY <1>1 DEF Before
  <1> QED
    BY <1>2, <1>3, <1>4

----------------------------------------------------------------------------
(* Proposals *)

\* The tables the connectors may discover are tables.
LEMMA TablesAreTables ==
  ASSUME NEW S \in SourceTables \cup TargetTables
  PROVE  /\ IsTable(S) /\ DOMAIN S \subseteq Names /\ DOMAIN S \subseteq Nat
         /\ None \notin DOMAIN S
         /\ \A s \in DOMAIN S : S[s] \in Column
  BY TablesAssumption, NamesAssumption DEF IsTable

\* What it takes to be assigned, spelled out.
LEMMA AssignedMeans ==
  ASSUME NEW S, NEW T, NEW s, NEW t, NEW rounded, Assigned(S, T, <<s, t>>, rounded)
  PROVE  /\ <<s, t>> \in Viable(S, T) /\ s \in DOMAIN S /\ t \in DOMAIN T
         /\ Confidence(S, T, s, t) >= Threshold
         /\ Compatibility(S[s], T[t]) \in {"EXACT", "SAFE"}
         /\ \A d \in Viable(S, T) :
              (d[1] = s \/ d[2] = t) => ~Close(S, T, <<s, t>>, d, rounded)
         /\ \A d \in Viable(S, T) :
              d[2] = t /\ d # <<s, t>> => Before(S, T, <<s, t>>, d)
  <1>1. /\ IsBest(S, T, <<s, t>>, OfSource(S, T, <<s, t>>))
        /\ IsBest(S, T, <<s, t>>, OfTarget(S, T, <<s, t>>))
        /\ Confidence(S, T, s, t) >= Threshold
        /\ Compatibility(S[s], T[t]) \in {"EXACT", "SAFE"}
        /\ \A d \in OfSource(S, T, <<s, t>>) \cup OfTarget(S, T, <<s, t>>) :
             ~Close(S, T, <<s, t>>, d, rounded)
    BY DEF Assigned
  <1>2. OfSource(S, T, <<s, t>>) = {d \in Viable(S, T) : d[1] = s}
    BY DEF OfSource
  <1>3. OfTarget(S, T, <<s, t>>) = {d \in Viable(S, T) : d[2] = t}
    BY DEF OfTarget
  <1>4. <<s, t>> \in Viable(S, T)
    BY <1>1, <1>2 DEF IsBest
  <1>5. s \in DOMAIN S /\ t \in DOMAIN T
    BY <1>4 DEF Viable
  <1>6. \A d \in Viable(S, T) : d[2] = t /\ d # <<s, t>> => Before(S, T, <<s, t>>, d)
    BY <1>1, <1>3 DEF IsBest
  <1> QED
    BY <1>1, <1>2, <1>3, <1>4, <1>5, <1>6

\* A suggested column has been assigned its target, with its score.
LEMMA SuggestedIsAssigned ==
  ASSUME NEW S, NEW T, NEW s, NEW rounded,
         SuggestionOf(S, T, s, rounded).decision = "SUGGESTED"
  PROVE  LET t == SuggestionOf(S, T, s, rounded).target
         IN  /\ t \in DOMAIN T /\ Assigned(S, T, <<s, t>>, rounded)
             /\ SuggestionOf(S, T, s, rounded).confidence = Confidence(S, T, s, t)
  <1>1. CASE \E t \in DOMAIN T : Assigned(S, T, <<s, t>>, rounded)
    <2>1. PICK t : t = CHOOSE u \in DOMAIN T : Assigned(S, T, <<s, u>>, rounded)
      OBVIOUS
    <2>2. t \in DOMAIN T /\ Assigned(S, T, <<s, t>>, rounded)
      BY <1>1, <2>1
    <2>3. SuggestionOf(S, T, s, rounded) = Scored(S, T, s, t, t, "SUGGESTED")
      BY <1>1, <2>1 DEF SuggestionOf
    <2> QED
      BY <2>2, <2>3 DEF Scored
  <1>2. CASE ~\E t \in DOMAIN T : Assigned(S, T, <<s, t>>, rounded)
    BY <1>2 DEF SuggestionOf, Scored, Unmatched
  <1> QED
    BY <1>1, <1>2

\* No two source columns are assigned the same target.
LEMMA AssignedOnce ==
  ASSUME NEW S, NEW T, DOMAIN S \subseteq Nat, DOMAIN T \subseteq Nat, NEW rounded,
         NEW s, NEW u, NEW t, Assigned(S, T, <<s, t>>, rounded),
         Assigned(S, T, <<u, t>>, rounded)
  PROVE  s = u
  <1> SUFFICES ASSUME s # u PROVE FALSE
    OBVIOUS
  <1>1. /\ s \in Nat /\ t \in Nat /\ u \in Nat
        /\ <<s, t>> \in Viable(S, T) /\ <<u, t>> \in Viable(S, T)
    BY AssignedMeans
  <1>2. <<s, t>> # <<u, t>> /\ <<s, t>>[2] = t /\ <<u, t>>[2] = t
    OBVIOUS
  <1>3. Before(S, T, <<s, t>>, <<u, t>>)
    BY <1>1, <1>2, AssignedMeans
  <1>4. Before(S, T, <<u, t>>, <<s, t>>)
    BY <1>1, <1>2, AssignedMeans
  <1> QED
    BY <1>1, <1>3, <1>4, BeforeAntisymmetric

\* An assigned pair scores clearly more than every other pair of one of its columns.
LEMMA AssignedUnrivalled ==
  ASSUME NEW S, NEW T, NEW rounded, NEW s, NEW t, Assigned(S, T, <<s, t>>, rounded),
         NEW c \in Viable(S, T), (c[1] = s) # (c[2] = t)
  PROVE  Confidence(S, T, c[1], c[2]) + Margin <= Confidence(S, T, s, t)
  <1>1. c # <<s, t>> /\ (c[1] = s \/ c[2] = t)
    OBVIOUS
  <1>2. ~Close(S, T, <<s, t>>, c, rounded)
    BY <1>1, AssignedMeans
  <1>3. ~(Confidence(S, T, s, t) - Confidence(S, T, c[1], c[2]) < Margin)
    BY <1>1, <1>2 DEF Close
  <1>4. Confidence(S, T, s, t) \in 0..98 /\ Confidence(S, T, c[1], c[2]) \in 0..98
    BY ConfidenceType
  <1> QED
    BY <1>3, <1>4 DEF Margin

LEMMA ScoredType ==
  ASSUME NEW S, NEW T, NEW s, NEW t, NEW to \in Names \cup {None},
         NEW decision \in {"SUGGESTED", "AMBIGUOUS", "UNMATCHED"}
  PROVE  Scored(S, T, s, t, to, decision) \in Suggestion
  <1>1. Confidence(S, T, s, t) \in 0..100
    BY ConfidenceType
  <1> QED
    BY <1>1, CompatibilityType DEF Scored, Suggestion

LEMMA SuggestionType ==
  ASSUME NEW S \in SourceTables, NEW T \in TargetTables, NEW s \in DOMAIN S, NEW rounded
  PROVE  SuggestionOf(S, T, s, rounded) \in Suggestion
  <1>1. CASE \E t \in DOMAIN T : Assigned(S, T, <<s, t>>, rounded)
    <2>1. PICK t : t = CHOOSE u \in DOMAIN T : Assigned(S, T, <<s, u>>, rounded)
      OBVIOUS
    <2>2. t \in Names \cup {None}
      BY <1>1, <2>1, TablesAreTables
    <2>3. SuggestionOf(S, T, s, rounded) = Scored(S, T, s, t, t, "SUGGESTED")
      BY <1>1, <2>1 DEF SuggestionOf
    <2> QED
      BY <2>2, <2>3, ScoredType
  <1>2. CASE ~\E t \in DOMAIN T : Assigned(S, T, <<s, t>>, rounded)
    <2>1. PICK t : t = CHOOSE u \in DOMAIN T : Diagnostic(S, T, s, u)
      OBVIOUS
    <2>2. SuggestionOf(S, T, s, rounded) \in {Scored(S, T, s, t, None, "AMBIGUOUS"), Unmatched}
      BY <1>2, <2>1 DEF SuggestionOf
    <2>3. Unmatched \in Suggestion
      BY DEF Unmatched, Suggestion, Compatibilities
    <2> QED
      BY <2>2, <2>3, ScoredType
  <1> QED
    BY <1>1, <1>2

----------------------------------------------------------------------------
(* Reviews *)

LEMMA AutomaticType ==
  ASSUME NEW s \in Names, NEW b \in Column, NEW c
  PROVE  /\ Automatic(s, b, c) \in Expression
         /\ Automatic(s, b, c) # NoExpression <=> c \in {"EXACT", "SAFE"}
  <1>1. Copy(s) \in Expression /\ Copy(s) # NoExpression
    BY DEF Copy, Expression, Kinds, Types, NoExpression
  <1>2. CastTo(s, b.type) \in Expression /\ CastTo(s, b.type) # NoExpression
    BY DEF CastTo, Expression, Kinds, Column, NoExpression
  <1>3. NoExpression \in Expression
    BY DEF NoExpression, Expression, Kinds, Types
  <1> QED
    BY <1>1, <1>2, <1>3 DEF Automatic

\* A column that was reviewed has an approval, and names a target, a transformation
\* and a score of its own.
LEMMA ReviewType ==
  ASSUME NEW S \in SourceTables, NEW T \in TargetTables, NEW s \in DOMAIN S,
         NEW base \in Suggestion, NEW d \in Decision
  PROVE  ReviewOf(S, T, s, base, d) \in Approval
  <1> DEFINE t == Chosen(base, d)
             c == IF t \in DOMAIN T THEN Compatibility(S[s], T[t]) ELSE base.compatibility
             e == IF d.status = "REJECTED" \/ d.expression # NoExpression \/ t \notin DOMAIN T
                    THEN d.expression ELSE Automatic(s, T[t], c)
  <1>1. t \in Names \cup {None}
    BY DEF Chosen, Suggestion, Decision
  <1>2. c \in Compatibilities
    BY CompatibilityType DEF Suggestion
  <1>3. e \in Expression
    <2>1. d.expression \in Expression
      BY ExpressionsAssumption DEF Decision, NoExpression, Expression, Kinds, Types
    <2>2. t \in DOMAIN T => T[t] \in Column
      BY TablesAreTables
    <2>3. s \in Names
      BY TablesAreTables
    <2> HIDE DEF t, c
    <2> QED
      BY <2>1, <2>2, <2>3, AutomaticType
  <1>4. ReviewOf(S, T, s, base, d) =
          [target |-> t, status |-> d.status, confidence |-> base.confidence,
           compatibility |-> c, expression |-> e]
    BY DEF ReviewOf
  <1> HIDE DEF t, c, e
  <1> QED
    BY <1>1, <1>2, <1>3, <1>4 DEF Approval, Suggestion, Decision

\* What an accepted review says of a column that was not rejected.
Sound(S, T, s, r) ==
  /\ r.target \in DOMAIN T
  /\ r.status = "APPROVED" => Compatibility(S[s], T[r.target]) # "INCOMPATIBLE"
  /\ Compatibility(S[s], T[r.target]) \in {"EXACT", "SAFE"} \/ r.expression \in Expressions

LEMMA AcceptedIsSound ==
  ASSUME NEW S \in SourceTables, NEW T \in TargetTables, NEW s \in DOMAIN S,
         NEW base, NEW d \in Decision, Acceptable(S, T, s, base, d),
         ReviewOf(S, T, s, base, d).status # "REJECTED"
  PROVE  Sound(S, T, s, ReviewOf(S, T, s, base, d))
  <1> DEFINE r == ReviewOf(S, T, s, base, d)
             t == Chosen(base, d)
  <1>1. r.status = d.status /\ r.target = t /\ d.status # "REJECTED"
    BY DEF ReviewOf
  <1>2. t \in DOMAIN T /\ r.expression # NoExpression
    BY <1>1 DEF Acceptable
  <1>3. r.compatibility = Compatibility(S[s], T[t])
    BY <1>2 DEF ReviewOf
  <1>4. d.status = "APPROVED" => r.compatibility # "INCOMPATIBLE"
    BY <1>1 DEF Acceptable
  <1>5. \/ r.expression = d.expression
        \/ r.expression = Automatic(s, T[t], Compatibility(S[s], T[t]))
    BY <1>2 DEF ReviewOf
  <1>6. Compatibility(S[s], T[t]) \in {"EXACT", "SAFE"} \/ r.expression \in Expressions
    <2>1. s \in Names /\ T[t] \in Column
      BY <1>2, TablesAreTables
    <2>2. CASE r.expression = d.expression
      BY <1>2, <2>2 DEF Decision
    <2>3. CASE r.expression = Automatic(s, T[t], Compatibility(S[s], T[t]))
      BY <1>2, <2>1, <2>3, AutomaticType
    <2> QED
      BY <1>5, <2>2, <2>3
  <1> HIDE DEF r, t
  <1>7. Sound(S, T, s, r)
    BY <1>1, <1>2, <1>3, <1>4, <1>6 DEF Sound
  <1> QED
    BY <1>7 DEF r

----------------------------------------------------------------------------
(* The invariant *)

TablesTyped ==
  /\ phase \in Phases
  /\ source \in SourceTables /\ target \in TargetTables
  /\ proposedOf \in SourceTables \X TargetTables
  /\ reviewedOf \in SourceTables \X TargetTables
  /\ rediscovered \in 0..MaxRediscoveries

\* A proposal is what suggest made of the discoveries of its time.
ProposalIsSuggested ==
  Proposed => \E rounded : proposal = Proposal(proposedOf[1], proposedOf[2], rounded)

\* An approved plan is typed, sound for the discoveries of its review, and uses no
\* target twice.
PlanIsReviewed ==
  PlanApproved =>
    /\ plan \in [DOMAIN reviewedOf[1] -> Approval]
    /\ \A s \in Selected(plan) : Sound(reviewedOf[1], reviewedOf[2], s, plan[s])
    /\ \A s, u \in Selected(plan) : s # u => plan[s].target # plan[u].target

PlanInv == TablesTyped /\ ProposalIsSuggested /\ PlanIsReviewed

LEMMA ProposalType ==
  ASSUME TablesTyped, ProposalIsSuggested, Proposed
  PROVE  proposal \in [DOMAIN proposedOf[1] -> Suggestion]
  <1>1. proposedOf[1] \in SourceTables /\ proposedOf[2] \in TargetTables
    BY DEF TablesTyped
  <1>2. PICK rounded : proposal = Proposal(proposedOf[1], proposedOf[2], rounded)
    BY DEF ProposalIsSuggested
  <1>3. \A s \in DOMAIN proposedOf[1] :
          SuggestionOf(proposedOf[1], proposedOf[2], s, rounded) \in Suggestion
    BY <1>1, SuggestionType
  <1> QED
    BY <1>2, <1>3 DEF Proposal

LEMMA InitPlan == Init => PlanInv
  BY NamesAssumption
  DEF Init, PlanInv, TablesTyped, ProposalIsSuggested, PlanIsReviewed, Proposed, PlanApproved,
      Phases

LEMMA ApprovePlan ==
  ASSUME PlanInv, Approve
  PROVE  PlanIsReviewed'
  <1>1. PICK ds \in [DOMAIN source -> Decision] :
          /\ Reviews(source, target, proposal, ds)
          /\ plan' = [s \in DOMAIN source |-> ReviewOf(source, target, s, proposal[s], ds[s])]
    BY DEF Approve
  <1>2. source \in SourceTables /\ target \in TargetTables /\ reviewedOf' = <<source, target>>
    BY DEF Approve, PlanInv, TablesTyped
  <1>3. Proposed
    BY DEF Approve, Proposed
  <1>4. DOMAIN proposal = DOMAIN source
    BY <1>1 DEF Reviews
  <1>5. \A s \in DOMAIN source : proposal[s] \in Suggestion /\ ds[s] \in Decision
    BY <1>1, <1>3, <1>4, ProposalType DEF PlanInv
  <1>6. plan' \in [DOMAIN source -> Approval]
    <2>1. \A s \in DOMAIN source : ReviewOf(source, target, s, proposal[s], ds[s]) \in Approval
      BY <1>2, <1>5, ReviewType
    <2> QED
      BY <1>1, <2>1
  <1>7. ASSUME NEW s \in Selected(plan') PROVE Sound(source, target, s, plan'[s])
    <2>1. s \in DOMAIN source /\ plan'[s] = ReviewOf(source, target, s, proposal[s], ds[s])
          /\ plan'[s].status # "REJECTED"
      BY <1>1, <1>7 DEF Selected
    <2>2. Acceptable(source, target, s, proposal[s], ds[s])
      BY <1>1, <2>1 DEF Reviews
    <2> QED
      BY <1>2, <1>5, <2>1, <2>2, AcceptedIsSound
  <1>8. \A s, u \in Selected(plan') : s # u => plan'[s].target # plan'[u].target
    BY <1>1 DEF Reviews
  <1> QED
    BY <1>2, <1>6, <1>7, <1>8 DEF PlanIsReviewed, Selected, Sound

LEMMA NextPlan == PlanInv /\ [Next]_vars => PlanInv'
  <1> SUFFICES ASSUME PlanInv, [Next]_vars PROVE PlanInv'
    OBVIOUS
  <1> USE DEF PlanInv
  <1>1. CASE Propose
    <2>1. \E rounded : proposal' = Proposal(proposedOf'[1], proposedOf'[2], rounded)
      BY <1>1 DEF Propose
    <2>2. TablesTyped'
      BY <1>1 DEF Propose, TablesTyped, Phases
    <2>3. PlanIsReviewed'
      BY <1>1 DEF Propose, PlanIsReviewed, PlanApproved
    <2> QED
      BY <2>1, <2>2, <2>3 DEF ProposalIsSuggested
  <1>2. CASE Rediscover
    <2>1. TablesTyped'
      BY <1>2, NamesAssumption DEF Rediscover, TablesTyped
    <2> QED
      BY <1>2, <2>1
      DEF Rediscover, ProposalIsSuggested, PlanIsReviewed, Proposed, PlanApproved, Selected
  <1>3. CASE Approve
    <2>1. TablesTyped' /\ ProposalIsSuggested'
      BY <1>3 DEF Approve, TablesTyped, Phases, ProposalIsSuggested, Proposed
    <2> QED
      BY <1>3, <2>1, ApprovePlan
  <1>4. CASE Preview
    BY <1>4 DEF Preview, TablesTyped, Phases, ProposalIsSuggested, PlanIsReviewed, Proposed,
       PlanApproved, Selected
  <1>5. CASE UNCHANGED vars
    BY <1>5 DEF vars, TablesTyped, ProposalIsSuggested, PlanIsReviewed, Proposed, PlanApproved,
       Selected
  <1> QED
    BY <1>1, <1>2, <1>3, <1>4, <1>5 DEF Next

LEMMA PlanInvAlways == Spec => []PlanInv
  <1> QED
    BY InitPlan, NextPlan, PTL DEF Spec

\* Every reachable state is well typed, for every set of tables, names and
\* transformations.
THEOREM PlanTypeCorrect == Spec => []TypeOK
  <1>1. PlanInv => TypeOK
    <2> SUFFICES ASSUME PlanInv PROVE TypeOK
      OBVIOUS
    <2>1. Proposed => proposal \in [DOMAIN proposedOf[1] -> Suggestion]
      BY ProposalType DEF PlanInv
    <2> QED
      BY <2>1 DEF PlanInv, TablesTyped, PlanIsReviewed, TypeOK
  <1> QED
    BY <1>1, PlanInvAlways, PTL

\* What was approved without an override joins columns that exist, of related types,
\* in the discoveries of its review, however they differ from those of the proposal;
\* what may lose values is the reviewer's; and no target has two sources.
THEOREM ApprovalsHold == Spec => []ApprovalsAreOfTheReview
  <1>1. PlanInv => ApprovalsAreOfTheReview
    <2> SUFFICES ASSUME PlanInv, PlanApproved
                 PROVE  ApprovalsAreOfTheReview
      BY DEF ApprovalsAreOfTheReview
    <2>1. DOMAIN plan = DOMAIN reviewedOf[1]
      BY DEF PlanInv, PlanIsReviewed
    <2> QED
      BY <2>1 DEF PlanInv, PlanIsReviewed, ApprovalsAreOfTheReview, Sound
  <1> QED
    BY <1>1, PlanInvAlways, PTL

----------------------------------------------------------------------------
(* What a proposal promises *)

SuggestedIn(prop) == {s \in DOMAIN prop : prop[s].decision = "SUGGESTED"}

\* The suggested columns of a proposal are assigned, and no two the same target.
LEMMA SuggestedAssigned ==
  ASSUME NEW S \in SourceTables, NEW T \in TargetTables, NEW rounded, NEW prop,
         prop = Proposal(S, T, rounded), NEW s \in SuggestedIn(prop)
  PROVE  /\ s \in DOMAIN S /\ prop[s].target \in DOMAIN T
         /\ Assigned(S, T, <<s, prop[s].target>>, rounded)
         /\ prop[s].confidence = Confidence(S, T, s, prop[s].target)
  <1>1. s \in DOMAIN S /\ prop[s] = SuggestionOf(S, T, s, rounded)
    BY DEF Proposal, SuggestedIn
  <1>2. SuggestionOf(S, T, s, rounded).decision = "SUGGESTED"
    BY <1>1 DEF SuggestedIn
  <1> QED
    BY <1>1, <1>2, SuggestedIsAssigned

LEMMA SuggestedOnce ==
  ASSUME NEW S \in SourceTables, NEW T \in TargetTables, NEW rounded, NEW prop,
         prop = Proposal(S, T, rounded),
         NEW s \in SuggestedIn(prop), NEW u \in SuggestedIn(prop), s # u
  PROVE  prop[s].target # prop[u].target
  <1>1. DOMAIN S \subseteq Nat /\ DOMAIN T \subseteq Nat
    BY TablesAreTables
  <1>2. /\ Assigned(S, T, <<s, prop[s].target>>, rounded)
        /\ Assigned(S, T, <<u, prop[u].target>>, rounded)
    BY SuggestedAssigned
  <1>3. SUFFICES ASSUME prop[s].target = prop[u].target PROVE FALSE
    OBVIOUS
  <1>4. Assigned(S, T, <<u, prop[s].target>>, rounded)
    BY <1>2, <1>3
  <1> QED
    BY <1>1, <1>2, <1>4, AssignedOnce

\* Suggestions are one-to-one and without a rival, whatever the tables and however
\* the scores on the margin were rounded.
THEOREM SuggestionsOneToOne == Spec => []SuggestionsAreOneToOne
  <1>1. PlanInv => SuggestionsAreOneToOne
    <2> SUFFICES ASSUME PlanInv, Proposed PROVE SuggestionsAreOneToOne
      BY DEF SuggestionsAreOneToOne
    <2> DEFINE S == proposedOf[1]
               T == proposedOf[2]
    <2>1. S \in SourceTables /\ T \in TargetTables
      BY DEF PlanInv, TablesTyped
    <2>2. PICK rounded : proposal = Proposal(S, T, rounded)
      BY DEF PlanInv, ProposalIsSuggested
    <2> HIDE DEF S, T
    <2>3. ASSUME NEW s \in SuggestedIn(proposal)
          PROVE  /\ proposal[s].target \in DOMAIN T
                 /\ \A u \in SuggestedIn(proposal) \ {s} :
                      proposal[u].target # proposal[s].target
                 /\ \A c \in Viable(S, T) :
                      (c[1] = s) # (c[2] = proposal[s].target) =>
                        Confidence(S, T, c[1], c[2]) + Margin <= proposal[s].confidence
      <3>1. /\ proposal[s].target \in DOMAIN T
            /\ Assigned(S, T, <<s, proposal[s].target>>, rounded)
            /\ proposal[s].confidence = Confidence(S, T, s, proposal[s].target)
        BY <2>1, <2>2, SuggestedAssigned
      <3>2. \A u \in SuggestedIn(proposal) \ {s} : proposal[u].target # proposal[s].target
        BY <2>1, <2>2, SuggestedOnce
      <3>3. ASSUME NEW c \in Viable(S, T), (c[1] = s) # (c[2] = proposal[s].target)
            PROVE  Confidence(S, T, c[1], c[2]) + Margin <= proposal[s].confidence
        BY <3>1, <3>3, AssignedUnrivalled
      <3> QED
        BY <3>1, <3>2, <3>3
    <2> QED
      BY <2>3 DEF SuggestionsAreOneToOne, SuggestedIn, S, T
  <1> QED
    BY <1>1, PlanInvAlways, PTL

\* A suggested pair has an automatic transformation every dialect renders.
LEMMA AutomaticRenders ==
  ASSUME NEW s, NEW a \in Column, NEW b \in Column, NEW approvals, s \in DOMAIN approvals,
         NEW dialect \in Dialects, Compatibility(a, b) \in {"EXACT", "SAFE"}
  PROVE  Renders(dialect, approvals, Automatic(s, b, Compatibility(a, b)))
  <1>1. CASE Compatibility(a, b) = "EXACT"
    BY <1>1 DEF Automatic, Copy, Renders, MaxDepth
  <1>2. CASE Compatibility(a, b) = "SAFE"
    <2>1. b.type \in {"DECIMAL", "TIMESTAMP"}
      BY <1>2 DEF Compatibility, Widened, Column
    <2>2. b.type \in RenderedTypes(dialect)
      BY <2>1 DEF RenderedTypes, Types
    <2> QED
      BY <1>2, <2>2 DEF Automatic, CastTo, Renders, MaxDepth
  <1> QED
    BY <1>1, <1>2

\* The decision that approves suggestion s, and the one that rejects what was not
\* suggested.
LEMMA DecisionsAsSuggested ==
  ASSUME NEW S \in SourceTables, NEW T \in TargetTables, NEW rounded, NEW prop,
         prop = Proposal(S, T, rounded), NEW s \in DOMAIN S
  PROVE  LET d == AsSuggested(prop)[s]
             r == ReviewOf(S, T, s, prop[s], d)
         IN  /\ Acceptable(S, T, s, prop[s], d)
             /\ r.status # "REJECTED" <=> s \in SuggestedIn(prop)
             /\ s \in SuggestedIn(prop) =>
                  /\ r.target = prop[s].target
                  /\ Compatibility(S[s], T[r.target]) \in {"EXACT", "SAFE"}
                  /\ r.target \in DOMAIN T
                  /\ r.expression =
                       Automatic(s, T[r.target], Compatibility(S[s], T[r.target]))
  <1> DEFINE d == AsSuggested(prop)[s]
             r == ReviewOf(S, T, s, prop[s], d)
             t == prop[s].target
  <1>1. s \in DOMAIN prop /\ s \in Names /\ None \notin DOMAIN T
    BY TablesAreTables DEF Proposal
  <1>2. /\ d.status = IF prop[s].decision = "SUGGESTED" THEN "APPROVED" ELSE "REJECTED"
        /\ d.target = None /\ d.expression = NoExpression
    BY <1>1 DEF AsSuggested
  <1>3. /\ r.status = d.status /\ r.target = Chosen(prop[s], d)
        /\ NoExpression.reads = {}
    BY DEF ReviewOf, NoExpression
  <1>4. CASE s \in SuggestedIn(prop)
    <2>1. /\ t \in DOMAIN T /\ Assigned(S, T, <<s, t>>, rounded)
          /\ prop[s].confidence = Confidence(S, T, s, t)
      BY <1>4, SuggestedAssigned
    <2>2. /\ Compatibility(S[s], T[t]) \in {"EXACT", "SAFE"}
          /\ Confidence(S, T, s, t) >= Threshold
      BY <2>1, AssignedMeans
    <2>3. d.status = "APPROVED"
      BY <1>2, <1>4 DEF SuggestedIn
    <2>4. Chosen(prop[s], d) = t
      BY <1>2, <2>3 DEF Chosen
    <2>5. /\ r.target = t /\ r.compatibility = Compatibility(S[s], T[t])
          /\ r.expression = Automatic(s, T[t], Compatibility(S[s], T[t]))
      BY <1>2, <2>1, <2>3, <2>4 DEF ReviewOf
    <2>6. r.expression # NoExpression
      BY <1>1, <2>1, <2>2, <2>5, TablesAreTables, AutomaticType
    <2> HIDE DEF d, r, t
    <2>7. Acceptable(S, T, s, prop[s], d)
      <3>1. r = ReviewOf(S, T, s, prop[s], d)
        BY DEF r
      <3>2. /\ d.target \in DOMAIN T \cup {None}
            /\ d.expression.reads \subseteq DOMAIN S
        BY <1>2, <1>3
      <3>3. /\ r.target \in DOMAIN T /\ r.expression # NoExpression
            /\ r.compatibility # "INCOMPATIBLE" /\ prop[s].confidence >= Threshold
        BY <2>1, <2>2, <2>5, <2>6
      <3> QED
        BY <2>3, <3>1, <3>2, <3>3 DEF Acceptable
    <2>8. r.status # "REJECTED"
      BY <1>3, <2>3
    <2> QED
      BY <1>4, <2>1, <2>2, <2>5, <2>7, <2>8 DEF d, r, t
  <1>5. CASE s \notin SuggestedIn(prop)
    <2>1. d.status = "REJECTED"
      BY <1>1, <1>2, <1>5 DEF SuggestedIn
    <2> HIDE DEF d
    <2> QED
      BY <1>2, <1>3, <1>5, <2>1 DEF Acceptable, d
  <1> QED
    BY <1>4, <1>5

\* A proposal can be accepted as it stands, and then compiles for every target.
THEOREM SuggestionsApprovable == Spec => []SuggestionsCanBeApproved
  <1>1. PlanInv => SuggestionsCanBeApproved
    <2> SUFFICES ASSUME PlanInv, phase = "MAPPING_PROPOSED", <<source, target>> = proposedOf,
                        \E s \in DOMAIN proposal : proposal[s].decision = "SUGGESTED"
                 PROVE  LET ds == AsSuggested(proposal)
                            as == [s \in DOMAIN source |->
                                     ReviewOf(source, target, s, proposal[s], ds[s])]
                        IN  /\ Reviews(source, target, proposal, ds)
                            /\ TargetCatalog # None =>
                                 \A dialect \in Dialects : Compiles(dialect, TargetCatalog, as)
      BY DEF SuggestionsCanBeApproved
    <2> DEFINE ds == AsSuggested(proposal)
               given == [s \in DOMAIN source |->
                           ReviewOf(source, target, s, proposal[s], ds[s])]
    <2>1. /\ source \in SourceTables /\ target \in TargetTables
          /\ proposedOf[1] = source /\ proposedOf[2] = target
      BY DEF PlanInv, TablesTyped
    <2>2. PICK rounded : proposal = Proposal(source, target, rounded)
      BY <2>1 DEF PlanInv, ProposalIsSuggested, Proposed
    <2>3. DOMAIN proposal = DOMAIN source
      BY <2>2 DEF Proposal
    <2>4. ASSUME NEW s \in DOMAIN source
          PROVE  /\ Acceptable(source, target, s, proposal[s], ds[s])
                 /\ given[s].status # "REJECTED" <=> s \in SuggestedIn(proposal)
                 /\ s \in SuggestedIn(proposal) =>
                      /\ given[s].target = proposal[s].target
                      /\ given[s].target \in DOMAIN target
                      /\ Compatibility(source[s], target[given[s].target]) \in {"EXACT", "SAFE"}
                      /\ given[s].expression =
                           Automatic(s, target[given[s].target],
                                     Compatibility(source[s], target[given[s].target]))
      BY <2>1, <2>2, DecisionsAsSuggested
    <2>5. DOMAIN given = DOMAIN source
      OBVIOUS
    <2>6. Reviews(source, target, proposal, ds) <=>
            /\ DOMAIN proposal = DOMAIN source
            /\ \A s \in DOMAIN source : Acceptable(source, target, s, proposal[s], ds[s])
            /\ Selected(given) # {}
            /\ \A s, u \in Selected(given) : s # u => given[s].target # given[u].target
      BY DEF Reviews
    <2> HIDE DEF ds, given
    <2>7. Selected(given) = SuggestedIn(proposal)
      BY <2>3, <2>4, <2>5 DEF Selected, SuggestedIn
    <2>8. SuggestedIn(proposal) # {} /\ SuggestedIn(proposal) \subseteq DOMAIN source
      BY <2>3 DEF SuggestedIn
    <2>9. \A s, u \in Selected(given) : s # u => given[s].target # given[u].target
      BY <2>1, <2>2, <2>4, <2>7, <2>8, SuggestedOnce
    <2>10. Reviews(source, target, proposal, ds)
      BY <2>3, <2>4, <2>6, <2>7, <2>8, <2>9
    <2>11. ASSUME NEW dialect \in Dialects, NEW s \in Selected(given)
           PROVE  Renders(dialect, given, given[s].expression)
      <3>1. s \in DOMAIN source /\ s \in DOMAIN given /\ s \in SuggestedIn(proposal)
        BY <2>5, <2>7, <2>8
      <3>2. source[s] \in Column /\ target[given[s].target] \in Column
        BY <2>1, <2>4, <3>1, TablesAreTables
      <3> QED
        BY <2>4, <3>1, <3>2, AutomaticRenders
    <2>12. TargetCatalog # None =>
             \A dialect \in Dialects : Compiles(dialect, TargetCatalog, given)
      BY <2>7, <2>8, <2>11 DEF Compiles
    <2> QED
      BY <2>10, <2>12 DEF ds, given
  <1> QED
    BY <1>1, PlanInvAlways, PTL
=============================================================================
