---------------------------- MODULE MappingPlan ----------------------------
(***************************************************************************)
(* From two discovered tables to a statement: SchemaMappingService         *)
(* proposes pairs of columns, a reviewer decides every source column       *)
(* (MappingApprovalService and approve_mapping), and the compiler of the   *)
(* target's dialect renders what was approved.  A client may append        *)
(* another discovery of the same relations between the proposal and its    *)
(* review (append_source_discovery, append_target_discovery).              *)
(*                                                                         *)
(* A column name is its place in the alphabet; Spelling says how it is     *)
(* spelled, as far as names are compared.  Scores are in hundredths.       *)
(*                                                                         *)
(* Operators introduced as a variant are not part of the model: each is a  *)
(* slip in the definition that follows it, and a property must notice it.  *)
(***************************************************************************)
EXTENDS Naturals, Integers, FiniteSets

CONSTANTS
  Names,           \* column names, numbered in alphabetical order
  Spelling,        \* Spelling[n]: the words of a name, their order, separators, case
  SourceTables,    \* the tables the source connector may discover
  TargetTables,
  Expressions,     \* the transformations reviewers write
  Catalogs,        \* the catalogs a staging table may be in
  TargetCatalog,   \* the catalog of the workflow's target relation, or None
  MaxRediscoveries \* bound on the discoveries appended after the first

Types ==
  { "BOOLEAN", "INTEGER", "DECIMAL", "FLOAT", "STRING", "DATE", "TIME", "TIMESTAMP",
    "TIMESTAMP_TZ", "BINARY", "SEMI_STRUCTURED", "UNKNOWN" }
Compatibilities == {"EXACT", "SAFE", "LOSSY", "UNKNOWN", "INCOMPATIBLE"}

Dialects == {"POSTGRESQL", "MYSQL", "SNOWFLAKE"}

None == 0   \* no column, no catalog; ordinals and widths that are not known are 0 as well

\* ColumnMetadata: width stands for its length, precision and scale.
Column == [type : Types, ordinal : Nat, nullable : {"yes", "no", "unknown"}, width : Nat]
IsTable(t) == DOMAIN t \subseteq Names /\ t \in [DOMAIN t -> Column]

\* TransformationExpression: `reads` has every column it reads and `casts` every
\* type it casts to, at any depth.
Kinds == {"DIRECT_COPY", "CAST", "CONCAT", "COALESCE", "LITERAL", "SOURCE_COLUMN"}
Expression == [kind : Kinds, reads : SUBSET Names, casts : SUBSET Types, depth : Nat]
NoExpression == [kind |-> "LITERAL", reads |-> {}, casts |-> {}, depth |-> 0]

ASSUME NamesAssumption ==
  Names \subseteq Nat \ {None} /\ IsFiniteSet(Names) /\ MaxRediscoveries \in Nat
ASSUME TablesAssumption == \A t \in SourceTables \cup TargetTables : IsTable(t)
ASSUME ExpressionsAssumption == Expressions \subseteq Expression \ {NoExpression}
ASSUME CatalogsAssumption ==
  Catalogs \subseteq Nat \ {None} /\ TargetCatalog \in Catalogs \cup {None}

VARIABLES
  phase,       \* DISCOVERED, MAPPING_PROPOSED or MAPPING_APPROVED
  source,      \* the latest discovery of the source
  target,      \* the latest discovery of the target
  proposal,    \* TableMappingPlan.suggestions
  proposedOf,  \* the discoveries the proposal was made from
  plan,        \* ApprovedTableMappingPlan.approvals
  reviewedOf,  \* the discoveries it was reviewed with
  statement,   \* the compiled statement, or why there is none
  rediscovered

vars == <<phase, source, target, proposal, proposedOf, plan, reviewedOf, statement,
          rediscovered>>

----------------------------------------------------------------------------
(* Scores: _candidate.  A candidate is a pair of names.                    *)

\* The first of the name rules that holds.
NameWeight(s, t) ==
  LET a == Spelling[s]
      b == Spelling[t]
  IN CASE s = t -> 58
       [] s # t /\ [a EXCEPT !.case = 0] = [b EXCEPT !.case = 0] -> 50
       [] a.words = b.words /\ a.order = b.order /\ a.style # b.style -> 46
       [] a.words = b.words /\ a.order # b.order -> 18
       [] OTHER -> 0

Narrows(a, b) == a.width # 0 /\ b.width # 0 /\ b.width < a.width
Widened(a, b) == a.type = b.type \/ (a.type = "INTEGER" /\ b.type = "DECIMAL")

\* _type_compatibility
Compatibility(a, b) ==
  IF "UNKNOWN" \in {a.type, b.type} THEN "UNKNOWN"
  ELSE IF Widened(a, b)
    THEN IF Narrows(a, b) THEN "LOSSY" ELSE IF a.type = b.type THEN "EXACT" ELSE "SAFE"
  ELSE IF <<a.type, b.type>> = <<"DATE", "TIMESTAMP">> THEN "SAFE"
  ELSE IF <<a.type, b.type>> \in {<<"DECIMAL", "INTEGER">>, <<"DECIMAL", "FLOAT">>,
                                   <<"INTEGER", "FLOAT">>} THEN "LOSSY"
  ELSE "INCOMPATIBLE"

TypeWeight(c) ==
  CASE c = "EXACT" -> 28 [] c = "SAFE" -> 20 [] c = "LOSSY" -> 4 [] OTHER -> 0

\* Lengths or precisions that are both known and do not narrow.
WidthWeight(a, b) ==
  IF a.type # "UNKNOWN" /\ Widened(a, b) /\ a.width # 0 /\ b.width # 0 /\ ~Narrows(a, b)
    THEN 4 ELSE 0

NullWeight(a, b) ==
  CASE "unknown" \in {a.nullable, b.nullable} -> 0
    [] <<a.nullable, b.nullable>> = <<"yes", "no">> -> -22
    [] OTHER -> 4

OrdinalWeight(a, b) ==
  IF a.ordinal # 0 /\ b.ordinal # 0 /\ a.ordinal - b.ordinal \in -1..1 THEN 4 ELSE 0

\* Variant: the sum is not clamped.
ConfidenceUnclamped(S, T, s, t) ==
  NameWeight(s, t) + TypeWeight(Compatibility(S[s], T[t])) + WidthWeight(S[s], T[t])
    + NullWeight(S[s], T[t]) + OrdinalWeight(S[s], T[t])

\* Between 0 and 98: the upper clamp is never reached.
Confidence(S, T, s, t) ==
  LET total == NameWeight(s, t) + TypeWeight(Compatibility(S[s], T[t]))
                 + WidthWeight(S[s], T[t]) + NullWeight(S[s], T[t])
                 + OrdinalWeight(S[s], T[t])
  IN IF total < 0 THEN 0 ELSE total

Priority(c) ==
  CASE c = "EXACT" -> 4 [] c = "SAFE" -> 3 [] c = "LOSSY" -> 2 [] c = "UNKNOWN" -> 1
    [] OTHER -> 0

\* _Candidate.rank: c comes before d.
Before(S, T, c, d) ==
  LET conf(x) == Confidence(S, T, x[1], x[2])
      prio(x) == Priority(Compatibility(S[x[1]], T[x[2]]))
  IN \/ conf(c) > conf(d)
     \/ /\ conf(c) = conf(d)
        /\ \/ prio(c) > prio(d)
           \/ prio(c) = prio(d) /\ (c[1] < d[1] \/ (c[1] = d[1] /\ c[2] < d[2]))

----------------------------------------------------------------------------
(* Proposals: SchemaMappingService.suggest                                 *)

Threshold == 72
Margin == 8

Viable(S, T) ==
  {c \in (DOMAIN S) \X (DOMAIN T) : Compatibility(S[c[1]], T[c[2]]) # "INCOMPATIBLE"}

IsBest(S, T, c, among) == c \in among /\ \A d \in among \ {c} : Before(S, T, c, d)

OfSource(S, T, c) == {d \in Viable(S, T) : d[1] = c[1]}
OfTarget(S, T, c) == {d \in Viable(S, T) : d[2] = c[2]}

\* Scores are sums of floating-point numbers: a difference of exactly the margin
\* may come out on either side of it.
OnTheMargin(S, T) ==
  {e \in Viable(S, T) \X Viable(S, T) :
     Confidence(S, T, e[1][1], e[1][2]) = Confidence(S, T, e[2][1], e[2][2]) + Margin}

\* The difference is signed: an alternative that scores more is close, too.
Close(S, T, c, d, rounded) ==
  LET gap == Confidence(S, T, c[1], c[2]) - Confidence(S, T, d[1], d[2])
  IN c # d /\ (gap < Margin \/ <<c, d>> \in rounded)

\* Variant: the target's own best is not asked for.
AssignedOneSided(S, T, c, rounded) ==
  /\ IsBest(S, T, c, OfSource(S, T, c))
  /\ Confidence(S, T, c[1], c[2]) >= Threshold
  /\ Compatibility(S[c[1]], T[c[2]]) \in {"EXACT", "SAFE"}
  /\ \A d \in OfSource(S, T, c) : ~Close(S, T, c, d, rounded)

\* The best of its source and of its target, good enough, safe, and unrivalled.
Assigned(S, T, c, rounded) ==
  /\ IsBest(S, T, c, OfSource(S, T, c))
  /\ IsBest(S, T, c, OfTarget(S, T, c))
  /\ Confidence(S, T, c[1], c[2]) >= Threshold
  /\ Compatibility(S[c[1]], T[c[2]]) \in {"EXACT", "SAFE"}
  /\ \A d \in OfSource(S, T, c) \cup OfTarget(S, T, c) : ~Close(S, T, c, d, rounded)

\* A column that has options, or whose namesake is of an unrelated type.
Ambiguous(S, T, s) ==
  \/ \E c \in Viable(S, T) : c[1] = s
  \/ \E t \in DOMAIN T :
       Compatibility(S[s], T[t]) = "INCOMPATIBLE" /\ NameWeight(s, t) > 0

\* The best candidate of any compatibility, shown with an ambiguous column.
Diagnostic(S, T, s, t) == IsBest(S, T, <<s, t>>, {s} \X (DOMAIN T))

Suggestion ==
  [ target : Names \cup {None}, confidence : 0..100, compatibility : Compatibilities,
    decision : {"SUGGESTED", "AMBIGUOUS", "UNMATCHED"} ]

Scored(S, T, s, t, to, decision) ==
  [ target |-> to, confidence |-> Confidence(S, T, s, t),
    compatibility |-> Compatibility(S[s], T[t]), decision |-> decision ]

Unmatched ==
  [target |-> None, confidence |-> 0, compatibility |-> "UNKNOWN", decision |-> "UNMATCHED"]

\* What suggest says of source column s.
SuggestionOf(S, T, s, rounded) ==
  IF \E t \in DOMAIN T : Assigned(S, T, <<s, t>>, rounded)
    THEN LET t == CHOOSE u \in DOMAIN T : Assigned(S, T, <<s, u>>, rounded)
         IN Scored(S, T, s, t, t, "SUGGESTED")
  ELSE IF Ambiguous(S, T, s)
    THEN Scored(S, T, s, CHOOSE t \in DOMAIN T : Diagnostic(S, T, s, t), None, "AMBIGUOUS")
  ELSE Unmatched

Proposal(S, T, rounded) == [s \in DOMAIN S |-> SuggestionOf(S, T, s, rounded)]

----------------------------------------------------------------------------
(* Reviews: MappingApprovalService.apply and approve_mapping               *)

\* A decision without a target keeps the suggested one, without a transformation
\* asks for the automatic one.
Decision ==
  [ status : {"APPROVED", "OVERRIDDEN", "REJECTED"}, target : Names \cup {None},
    expression : Expressions \cup {NoExpression} ]

Chosen(base, d) ==
  IF d.status = "REJECTED" THEN None ELSE IF d.target # None THEN d.target ELSE base.target

Copy(s) == [kind |-> "DIRECT_COPY", reads |-> {s}, casts |-> {}, depth |-> 0]
CastTo(s, type) == [kind |-> "CAST", reads |-> {s}, casts |-> {type}, depth |-> 0]

\* Variant: only exact pairs have an automatic transformation.
AutomaticCopy(s, b, c) == IF c = "EXACT" THEN Copy(s) ELSE NoExpression

\* _automatic_transformation
Automatic(s, b, c) ==
  CASE c = "EXACT" -> Copy(s) [] c = "SAFE" -> CastTo(s, b.type) [] OTHER -> NoExpression

Approval ==
  [ target : Names \cup {None}, status : {"APPROVED", "OVERRIDDEN", "REJECTED"},
    confidence : 0..100, compatibility : Compatibilities,
    expression : Expression ]

\* Variant: the compatibility is the one the proposal was made with.
ReviewedAsProposed(S, T, s, base, d) ==
  LET t == Chosen(base, d)
      c == IF d.target = None \/ t \notin DOMAIN T THEN base.compatibility
           ELSE Compatibility(S[s], T[t])
  IN [ target |-> t, status |-> d.status, confidence |-> base.confidence,
       compatibility |-> c,
       expression |-> IF d.status = "REJECTED" \/ d.expression # NoExpression \/ t \notin DOMAIN T
                        THEN d.expression ELSE Automatic(s, T[t], c) ]

\* ColumnMappingApproval of source column s under a decision.
ReviewOf(S, T, s, base, d) ==
  LET t == Chosen(base, d)
      c == IF t \in DOMAIN T THEN Compatibility(S[s], T[t]) ELSE base.compatibility
  IN [ target |-> t, status |-> d.status, confidence |-> base.confidence,
       compatibility |-> c,
       expression |-> IF d.status = "REJECTED" \/ d.expression # NoExpression \/ t \notin DOMAIN T
                        THEN d.expression ELSE Automatic(s, T[t], c) ]

\* The decision is accepted: everything it refers to is known; what is incompatible,
\* or suggested with a low confidence, is overridden; and there is a transformation.
Acceptable(S, T, s, base, d) ==
  LET r == ReviewOf(S, T, s, base, d)
  IN /\ d.target \in DOMAIN T \cup {None}
     /\ d.expression.reads \subseteq DOMAIN S
     /\ IF d.status = "REJECTED" THEN d.expression = NoExpression
        ELSE /\ r.target \in DOMAIN T
             /\ r.expression # NoExpression
             /\ d.status = "APPROVED" =>
                  /\ r.compatibility # "INCOMPATIBLE"
                  /\ r.target = base.target => base.confidence >= Threshold

Selected(approvals) == {s \in DOMAIN approvals : approvals[s].status # "REJECTED"}

\* Every source column of the latest discovery is decided, no target is used twice,
\* and something is approved.
Reviews(S, T, prop, ds) ==
  /\ DOMAIN prop = DOMAIN S
  /\ \A s \in DOMAIN S : Acceptable(S, T, s, prop[s], ds[s])
  /\ LET approvals == [s \in DOMAIN S |-> ReviewOf(S, T, s, prop[s], ds[s])]
     IN /\ Selected(approvals) # {}
        /\ \A s, u \in Selected(approvals) :
             s # u => approvals[s].target # approvals[u].target

----------------------------------------------------------------------------
(* Statements: DialectTransformationCompiler._compile                      *)

MaxDepth == 16

\* canonical_types of the dialects' adapters.
RenderedTypes(dialect) ==
  Types \ (IF dialect = "MYSQL" THEN {"UNKNOWN", "TIMESTAMP_TZ"} ELSE {"UNKNOWN"})

\* _expression renders it; the columns allowed are those of all approvals.
Renders(dialect, approvals, e) ==
  /\ e.depth < MaxDepth
  /\ e.reads \subseteq DOMAIN approvals
  /\ e.casts \subseteq RenderedTypes(dialect)

\* require_matching_catalog: the dialects whose statements stay in one catalog.
OneCatalog == {"POSTGRESQL", "MYSQL"}

Compiles(dialect, catalog, approvals) ==
  /\ TargetCatalog # None
  /\ dialect \in OneCatalog => catalog = TargetCatalog
  /\ Selected(approvals) # {}
  /\ \A s \in Selected(approvals) : Renders(dialect, approvals, approvals[s].expression)

\* The projections: for each target column, the expression and its place, in the
\* order of the ordinals (unknown ones last), then of the names.
Statement(T, approvals) ==
  LET targets == {approvals[s].target : s \in Selected(approvals)}
      key(t) == IF T[t].ordinal = 0 THEN <<1, 0, t>> ELSE <<0, T[t].ordinal, t>>
      earlier(t, u) == \E i \in 1..3 : /\ key(t)[i] < key(u)[i]
                                       /\ \A j \in 1..(i - 1) : key(t)[j] = key(u)[j]
  IN {[ target |-> approvals[s].target, expression |-> approvals[s].expression,
        place |-> Cardinality({t \in targets : earlier(t, approvals[s].target)}) ] :
      s \in Selected(approvals)}

----------------------------------------------------------------------------
Init ==
  /\ phase = "DISCOVERED"
  /\ source \in SourceTables
  /\ target \in TargetTables
  /\ proposal = <<>>
  /\ proposedOf = <<source, target>>
  /\ plan = <<>>
  /\ reviewedOf = <<source, target>>
  /\ statement = {}
  /\ rediscovered = 0

\* generate_mapping
Propose ==
  /\ phase = "DISCOVERED"
  /\ \E rounded \in SUBSET OnTheMargin(source, target) :
       proposal' = Proposal(source, target, rounded)
  /\ proposedOf' = <<source, target>>
  /\ phase' = "MAPPING_PROPOSED"
  /\ UNCHANGED <<source, target, plan, reviewedOf, statement, rediscovered>>

\* A client appends another discovery of one of the relations.
Rediscover ==
  /\ rediscovered < MaxRediscoveries
  /\ rediscovered' = rediscovered + 1
  /\ \/ source' \in SourceTables /\ target' = target
     \/ target' \in TargetTables /\ source' = source
  /\ UNCHANGED <<phase, proposal, proposedOf, plan, reviewedOf, statement>>

\* approve_mapping: the proposal is reviewed with the latest discoveries.
Approve ==
  /\ phase = "MAPPING_PROPOSED"
  /\ \E ds \in [DOMAIN source -> Decision] :
       /\ Reviews(source, target, proposal, ds)
       /\ plan' = [s \in DOMAIN source |-> ReviewOf(source, target, s, proposal[s], ds[s])]
  /\ reviewedOf' = <<source, target>>
  /\ phase' = "MAPPING_APPROVED"
  /\ UNCHANGED <<source, target, proposal, proposedOf, statement, rediscovered>>

\* preview_transformation, in the dialect of the target system and with a staging
\* table in any catalog.  A plan that does not compile stays as it is.
Preview ==
  /\ phase = "MAPPING_APPROVED"
  /\ \E dialect \in Dialects, catalog \in Catalogs : Compiles(dialect, catalog, plan)
  /\ statement' = Statement(reviewedOf[2], plan)
  /\ phase' = "EXECUTION_READY"
  /\ UNCHANGED <<source, target, proposal, proposedOf, plan, reviewedOf, rediscovered>>

Next == Propose \/ Rediscover \/ Approve \/ Preview

Spec == Init /\ [][Next]_vars

----------------------------------------------------------------------------
(* Properties *)

Phases == {"DISCOVERED", "MAPPING_PROPOSED", "MAPPING_APPROVED", "EXECUTION_READY"}
Proposed == phase # "DISCOVERED"
PlanApproved == phase \in {"MAPPING_APPROVED", "EXECUTION_READY"}

\* Every reachable state is well typed: every column of the table proposed for has
\* one suggestion, every column of the table reviewed one approval.
TypeOK ==
  /\ phase \in Phases
  /\ {source, proposedOf[1], reviewedOf[1]} \subseteq SourceTables
  /\ {target, proposedOf[2], reviewedOf[2]} \subseteq TargetTables
  /\ Proposed => proposal \in [DOMAIN proposedOf[1] -> Suggestion]
  /\ PlanApproved => plan \in [DOMAIN reviewedOf[1] -> Approval]
  /\ rediscovered \in 0..MaxRediscoveries

\* No two source columns are suggested the same target, and a suggested pair has no
\* rival: every other pair with either of its columns scores clearly less.  The
\* model of the plan refuses a proposal that is not one-to-one
\* (models/mapping.py:346), and mapping would then be impossible for these tables.
SuggestionsAreOneToOne ==
  Proposed =>
    LET S == proposedOf[1]
        T == proposedOf[2]
        suggested == {s \in DOMAIN proposal : proposal[s].decision = "SUGGESTED"}
    IN \A s \in suggested :
         /\ proposal[s].target \in DOMAIN T
         /\ \A u \in suggested \ {s} : proposal[u].target # proposal[s].target
         /\ \A c \in Viable(S, T) :
              (c[1] = s) # (c[2] = proposal[s].target) =>
                Confidence(S, T, c[1], c[2]) + Margin <= proposal[s].confidence

\* A proposal can be accepted as it stands: while no other discovery has come in,
\* approving what is suggested and rejecting the rest is accepted, unless nothing
\* is suggested, and the plan compiles for every target system, with a staging
\* table in the target's own catalog.
AsSuggested(prop) ==
  [s \in DOMAIN prop |->
     [ status |-> IF prop[s].decision = "SUGGESTED" THEN "APPROVED" ELSE "REJECTED",
       target |-> None, expression |-> NoExpression ]]
SuggestionsCanBeApproved ==
  /\ phase = "MAPPING_PROPOSED"
  /\ <<source, target>> = proposedOf
  /\ \E s \in DOMAIN proposal : proposal[s].decision = "SUGGESTED"
  => LET ds == AsSuggested(proposal)
     IN /\ Reviews(source, target, proposal, ds)
        /\ TargetCatalog # None => \A dialect \in Dialects :
             Compiles(dialect, TargetCatalog,
                      [s \in DOMAIN source |-> ReviewOf(source, target, s, proposal[s], ds[s])])

\* Whatever the proposal was made from, a mapping that was approved without an
\* override joins columns that exist, and of related types, in the discoveries it
\* was reviewed with; one that may lose values has a transformation of the
\* reviewer's; and no target has two sources.
ApprovalsAreOfTheReview ==
  PlanApproved =>
    LET S == reviewedOf[1]
        T == reviewedOf[2]
    IN /\ DOMAIN plan = DOMAIN S
       /\ \A s \in Selected(plan) :
            LET t == plan[s].target IN
            /\ t \in DOMAIN T
            /\ plan[s].status = "APPROVED" => Compatibility(S[s], T[t]) # "INCOMPATIBLE"
            /\ Compatibility(S[s], T[t]) \in {"EXACT", "SAFE"}
                 \/ plan[s].expression \in Expressions
            /\ \A u \in Selected(plan) \ {s} : plan[u].target # t

\* A selection that scores below the threshold is an explicit override
\* (docs/PRD.md:113).
LowConfidenceIsOverridden ==
  PlanApproved =>
    \A s \in Selected(plan) :
      Confidence(reviewedOf[1], reviewedOf[2], s, plan[s].target) < Threshold =>
        plan[s].status = "OVERRIDDEN"

=============================================================================
