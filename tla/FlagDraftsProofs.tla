--------------------------- MODULE FlagDraftsProofs ---------------------------
(***************************************************************************)
(* What holds of every draft that the two make of a snapshot that could be *)
(* published: it could be published as well, and so the merge, the replay, *)
(* the review and the rollouts do what they promise.                       *)
(***************************************************************************)
EXTENDS FlagDrafts, SnapshotMergeProofs

-----------------------------------------------------------------------------
(* Rollouts. *)

RoundsBack(percentage) ==
  \A drift \in Drift : Rounded(1000 * percentage + drift) = percentage

\* Half a bucket swallows what the float is off by.
LEMMA PercentageRoundsBack ==
  ASSUME NEW rollout, ValidRollout(rollout)
  PROVE  RoundsBack(rollout.percentage)
<1>1. PICK p \in Percentages : p = rollout.percentage
  BY DEF ValidRollout
<1>2. ASSUME NEW drift \in Drift
      PROVE  Rounded(1000 * p + drift) = p
  <2>1. drift \in Int /\ -499 <= drift /\ drift <= 499
    BY DriftAssumption
  <2>2. p \in Int
    BY DEF Percentages
  <2>3. QED
    BY <2>1, <2>2 DEF Rounded
<1>3. RoundsBack(p)
  BY <1>2 DEF RoundsBack
<1>4. QED
  BY <1>1, <1>3

\* A rollout lets in exactly the buckets below its percentage, for every
\* percentage a valid snapshot may have and whichever way the float is off.
LEMMA ValidRolloutExact == TypeOK => RolloutExact
<1>1. ASSUME TypeOK,
             NEW key \in DOMAIN mine.features,
             NEW i \in DOMAIN RulesOf(mine.features[key]),
             "rollout" \in DOMAIN mine.features[key].rules[i]
      PROVE  RoundsBack(mine.features[key].rules[i].rollout.percentage)
  <2>1. RulesOf(mine.features[key]) = mine.features[key].rules
    <3>1. DOMAIN <<>> = {}
      OBVIOUS
    <3>2. QED
      BY <1>1, <3>1 DEF RulesOf
  <2>2. ValidRule(mine.features[key].type, mine.features[key].rules[i])
    BY <1>1, <2>1 DEF TypeOK, Parsed, Shaped, ValidSnapshot, ValidFeature
  <2>3. ValidRollout(mine.features[key].rules[i].rollout)
    BY <1>1, <2>2 DEF ValidRule
  <2>4. QED
    BY <2>3, PercentageRoundsBack, Zenon
<1>2. SUFFICES ASSUME TypeOK,
                      NEW key \in DOMAIN mine.features,
                      NEW i \in DOMAIN RulesOf(mine.features[key]),
                      "rollout" \in DOMAIN mine.features[key].rules[i],
                      NEW p, p = mine.features[key].rules[i].rollout.percentage,
                      NEW drift \in Drift,
                      NEW b \in {p - 1, p, p + 1} \intersect 0..9999
               PROVE  IsInRollout(b, p, drift) <=> b < p
  BY DEF RolloutExact
<1>3. QED
  BY <1>1 DEF RoundsBack, IsInRollout

-----------------------------------------------------------------------------
(* The merge. *)

\* A merge loses nobody's change, flag by flag and field by field, whatever is
\* chosen for the conflicts; without choices it is refused exactly where the two
\* sides clash.
LEMMA ValidMergeKeepsBoth ==
  ASSUME Sentinels, TypeOK
  PROVE  MergeKeepsBoth
<1> DEFINE B == base.features
           M == mine.features
           T == theirs.features
<1>1. AreFeatures(B) /\ AreFeatures(M) /\ AreFeatures(T)
  BY DEF TypeOK, Parsed, Shaped, AreFeatures
<1>2. ASSUME NEW side \in Sides
      PROVE  /\ MergedWith(side) # Refused
             /\ \A k \in Keys(B, M, T) :
                  FlagMerged(Field(B, k), Field(M, k), Field(T, k),
                             Field(MergedWith(side).features, k))
  <2>1. PICK F : F = Merge(B, M, T, Chosen(B, M, T, side))
    OBVIOUS
  <2>2. MergedWith(side) # Refused /\ MergedWith(side).features = F
    BY <1>1, <2>1, MergeSide, MergedDraftFeatures DEF MergedWith, TypeOK, Parsed
  <2>3. QED
    BY <1>1, <2>1, <2>2, MergeSide
<1>3. MergedWith(Undefined) = Refused
        <=> \E k \in Keys(B, M, T) : FlagClashes(Field(B, k), Field(M, k), Field(T, k))
  <2>1. PICK F : F = Merge(B, M, T, Chosen(B, M, T, Undefined))
    OBVIOUS
  <2>2. MergedWith(Undefined) = Refused <=> F = Refused
    BY <2>1, MergedDraftFeatures DEF MergedWith, TypeOK, Parsed
  <2>3. QED
    BY <1>1, <2>1, <2>2, MergeUnasked
<1>4. QED
  BY <1>2, <1>3 DEF MergeKeepsBoth, Keys, Sides, FlagMerged, FlagClashes, OneSided,
                    Clash, Whole, Was, Fields

\* What a merge makes of two valid drafts can be published, unless the draft is
\* of schema version 1 and the other side of version 2.
LEMMA ValidMergedPublishable ==
  ASSUME Sentinels, TypeOK
  PROVE  MergedPublishable
<1> DEFINE B == base.features
           M == mine.features
           T == theirs.features
<1>1. /\ AreFeatures(B) /\ AreFeatures(M) /\ AreFeatures(T)
      /\ mine.schema \in {1, 2} /\ theirs.schema \in {1, 2}
  BY DEF TypeOK, Parsed, Shaped, AreFeatures
<1>2. ASSUME NEW side \in Sides, ~(mine.schema = 1 /\ theirs.schema = 2)
      PROVE  ValidSnapshot(MergedWith(side))
  <2>1. PICK F : F = Merge(B, M, T, Chosen(B, M, T, side))
    OBVIOUS
  <2>2. F # Refused
    BY <1>1, <2>1, MergeSide
  <2>3. MergedWith(side) = [schema |-> mine.schema, features |-> F]
    BY <2>1, <2>2, MergedDraftFeatures DEF MergedWith, TypeOK, Parsed
  <2>4. /\ \A k \in DOMAIN M : Fits(mine.schema, M[k])
        /\ \A k \in DOMAIN T : Fits(mine.schema, T[k])
    <3>1. \A k \in DOMAIN T : Fits(theirs.schema, T[k])
      BY ValidMeansFits DEF TypeOK, Parsed, Shaped
    <3>2. \A k \in DOMAIN M : Fits(mine.schema, M[k])
      BY ValidMeansFits DEF TypeOK, Parsed, Shaped
    <3>3. mine.schema = 1 => theirs.schema = 1
      BY <1>1, <1>2
    <3>4. QED
      BY <3>1, <3>2, <3>3 DEF Fits
  <2>5. ASSUME NEW k \in DOMAIN F
        PROVE  Fits(mine.schema, F[k])
    <3> DEFINE b == Field(B, k)
               m == Field(M, k)
               t == Field(T, k)
    <3>1. k \in Keys(B, M, T) /\ F[k] # Undefined /\ Field(F, k) = F[k]
      BY <1>1, <2>1, <2>5, MergeSide DEF Field
    <3>2. FlagMerged(b, m, t, F[k])
      BY <1>1, <2>1, <3>1, MergeSide
    <3>3. /\ m # Undefined => Holds(m) /\ Fits(mine.schema, m)
          /\ t # Undefined => Holds(t) /\ Fits(mine.schema, t)
      BY <1>1, <2>4, FlagOf
    <3> HIDE DEF b, m, t
    <3>4. CASE ByField(b, m, t)
      <4>1. m # Undefined /\ t # Undefined /\ m.type = t.type
        BY <3>4 DEF ByField
      <4>2. QED
        BY <3>2, <3>3, <3>4, <4>1, MergedFlagFits DEF FlagMerged
    <3>5. CASE ~ByField(b, m, t)
      BY <3>1, <3>2, <3>3, <3>5 DEF FlagMerged
    <3>6. QED
      BY <3>4, <3>5
  <2>6. QED
    BY <2>3, <2>5, ValidMeansFits
<1>3. QED
  BY <1>2 DEF MergedPublishable, Sides

-----------------------------------------------------------------------------
(* The review. *)

\* Two valid flags with the same fields have the same value for every context.
LEMMA SameFieldsSameValue ==
  ASSUME NEW a, NEW c, Holds(a), Holds(c), ValidFeature(a), ValidFeature(c),
         \A f \in {"type", "enabled", "default", "rules"} : FieldValue(a, f) = FieldValue(c, f),
         NEW key, NEW context, NEW segments
  PROVE  Evaluate(key, a, context, segments) = Evaluate(key, c, context, segments)
<1>1. /\ Field(a, "type") = Field(c, "type")
      /\ Field(a, "enabled") = Field(c, "enabled")
      /\ Field(a, "default") = Field(c, "default")
      /\ RulesOf(a) = RulesOf(c)
  BY DEF FieldValue
<1>2. /\ {"type", "enabled"} \subseteq DOMAIN a
      /\ {"type", "enabled"} \subseteq DOMAIN c
  BY DEF ValidFeature
<1>3. a.type = c.type /\ a.enabled = c.enabled
  BY <1>1, <1>2, FieldOfFlag
<1>4. a.type # "boolean" => a.default = c.default
  <2>1. CASE "default" \in DOMAIN a
    BY <1>1, <2>1, FieldOfFlag
  <2>2. CASE "default" \notin DOMAIN a
    <3>1. a.type # "config" /\ a.type \in {"boolean", "config"}
      BY <2>2 DEF ValidFeature
    <3>2. QED
      BY <3>1
  <2>3. QED
    BY <2>1, <2>2
<1>5. QED
  BY <1>1, <1>3, <1>4 DEF Evaluate, Fallback, SelectInSeq

\* A review leaves out no change that a client could notice.
LEMMA ValidReviewShowsAll ==
  ASSUME TypeOK
  PROVE  ReviewShowsAll
<1> DEFINE B == base.features
           M == mine.features
           listed == DiffFlags(B, M)
<1>1. /\ \A k \in DOMAIN B : Holds(B[k]) /\ ValidFeature(B[k])
      /\ \A k \in DOMAIN M : Holds(M[k]) /\ ValidFeature(M[k])
  BY DEF TypeOK, Parsed, Shaped, ValidSnapshot
<1>2. ASSUME NEW key \in DOMAIN B \union DOMAIN M,
             \A f \in MergeFields : <<key, f>> \notin listed,
             NEW context \in Contexts
      PROVE  EvaluateKey(B, key, FALSE, context, Members) =
               EvaluateKey(M, key, FALSE, context, Members)
  <2>1. key \in DOMAIN B \intersect DOMAIN M
    <3>1. <<key, "flag">> \notin listed
      BY <1>2 DEF MergeFields
    <3>2. QED
      BY <3>1 DEF DiffFlags
  <2>2. \A f \in {"type", "enabled", "default", "rules"} :
          FieldValue(B[key], f) = FieldValue(M[key], f)
    <3>1. SUFFICES ASSUME NEW f \in {"type", "enabled", "default", "rules"}
                   PROVE  FieldValue(B[key], f) = FieldValue(M[key], f)
      OBVIOUS
    <3>2. <<key, f>> \notin listed
      BY <1>2 DEF MergeFields
    <3>3. QED
      BY <2>1, <3>2 DEF DiffFlags
  <2> HIDE DEF B, M
  <2>3. Evaluate(key, B[key], context, Members) = Evaluate(key, M[key], context, Members)
    BY <1>1, <2>1, <2>2, SameFieldsSameValue
  <2>4. QED
    BY <2>1, <2>3 DEF EvaluateKey
<1>3. QED
  BY <1>2 DEF ReviewShowsAll

-----------------------------------------------------------------------------
(* Every draft that the two make. *)

LEMMA ClickedIsForm ==
  ASSUME NEW feature, NEW form, IsForm(form), Sentinels,
         NEW clicked \in Clicked(form, feature)
  PROVE  IsForm(clicked)
<1>1. CASE clicked = Filled(form, "enabled", ~form.enabled)
  <2>1. (~form.enabled) \notin {Undefined, Refused}
    <3>1. (~form.enabled) \in BOOLEAN
      BY Zenon
    <3>2. QED
      BY <3>1 DEF Sentinels
  <2>2. QED
    BY <1>1, <2>1 DEF IsForm, Filled
<1>2. ASSUME NEW d \in Defaults, clicked = Filled(form, "default", d)
      PROVE  IsForm(clicked)
  BY <1>2, DraftsAssumption DEF IsForm, Filled
<1>3. ASSUME NEW i \in DOMAIN form.rollout, NEW r \in Rollouts \union {Undefined},
             clicked = FilledRow(form, i, r)
      PROVE  IsForm(clicked)
  <2> DEFINE rollout == [form.rollout EXCEPT ![i] = r]
  <2>1. DOMAIN rollout = DOMAIN form.rollout
    OBVIOUS
  <2>2. rollout \in Seq(Range(rollout))
    <3>1. form.rollout \in Seq(Range(form.rollout))
      BY DEF IsForm, IsArray
    <3>2. rollout \in [1..Len(form.rollout) -> Range(rollout)]
      BY <3>1 DEF Range
    <3>3. Len(form.rollout) \in Nat
      BY <3>1
    <3> HIDE DEF rollout
    <3>4. QED
      BY <3>2, <3>3
  <2>3. \A j \in DOMAIN rollout : rollout[j] = IF j = i THEN r ELSE form.rollout[j]
    OBVIOUS
  <2>4. clicked = Filled(form, "rollout", rollout)
    BY <1>3 DEF Filled, FilledRow
  <2> HIDE DEF rollout
  <2>5. QED
    BY <2>1, <2>2, <2>3, <2>4, DraftsAssumption DEF IsForm, IsArray, Filled
<1>4. ASSUME NEW i, clicked = Filled(form, "detach", form.detach \union {i})
      PROVE  IsForm(clicked)
  BY <1>4, FS_AddElement DEF IsForm, Filled
<1>5. ASSUME NEW s, NEW v, clicked = Filled(Filled(form, "segment", s), "value", v)
      PROVE  IsForm(clicked)
  BY <1>5 DEF IsForm, Filled
<1>6. \/ clicked = Filled(form, "enabled", ~form.enabled)
      \/ \E d \in Defaults : clicked = Filled(form, "default", d)
      \/ \E i \in DOMAIN form.rollout, r \in Rollouts \union {Undefined} :
           clicked = FilledRow(form, i, r)
      \/ \E i : clicked = Filled(form, "detach", form.detach \union {i})
      \/ \E s, v : clicked = Filled(Filled(form, "segment", s), "value", v)
  BY DEF Clicked
<1>7. QED
  BY <1>1, <1>2, <1>3, <1>4, <1>5, <1>6

LEMMA FormsAreForms ==
  ASSUME NEW feature, Holds(feature), ValidFeature(feature), Sentinels,
         NEW form \in Forms(feature)
  PROVE  IsForm(form)
BY RenderedIsForm, ClickedIsForm DEF Forms

\* Every draft of either side could be published as it is, however many edits and
\* Saves it went through, refused ones included.
THEOREM DraftsAlwaysValid ==
  ASSUME Sentinels
  PROVE  Spec => []TypeOK
<1>1. Init => TypeOK
  BY DraftsAssumption DEF Init, TypeOK
<1>2. ASSUME TypeOK, [Next]_vars
      PROVE  TypeOK'
  <2>1. CASE SaveForm
    <3>1. PICK key \in DOMAIN mine.features : \E form \in Forms(mine.features[key]) :
            mine' = IF Save(mine, key, form) = Refused THEN mine ELSE Save(mine, key, form)
      BY <2>1 DEF SaveForm
    <3>2. PICK form \in Forms(mine.features[key]) :
            mine' = IF Save(mine, key, form) = Refused THEN mine ELSE Save(mine, key, form)
      BY <3>1
    <3>3. IsForm(form)
      BY <1>2, FormsAreForms DEF TypeOK, Parsed, Shaped, ValidSnapshot
    <3>4. Parsed(mine')
      BY <1>2, <3>2, <3>3, SaveKeepsParsed DEF TypeOK
    <3>5. QED
      BY <1>2, <2>1, <3>4 DEF SaveForm, TypeOK
  <2>2. CASE EditTheirs
    <3>1. PICK edit \in Edits : theirs' = ApplyFlagEdit(theirs, edit) /\ theirs' # Refused
      BY <2>2 DEF EditTheirs
    <3>2. Parsed(theirs')
      BY <1>2, <3>1, DraftsAssumption, EditKeepsParsed DEF TypeOK
    <3>3. QED
      BY <1>2, <2>2, <3>2 DEF EditTheirs, TypeOK
  <2>3. CASE UNCHANGED vars
    BY <1>2, <2>3 DEF vars, TypeOK
  <2>4. QED
    BY <1>2, <2>1, <2>2, <2>3 DEF Next
<1>3. QED
  BY <1>1, <1>2, PTL DEF Spec

\* Whatever is edited and saved: the rollouts of the draft let in exactly the
\* buckets below their percentages.
THEOREM RolloutAlwaysExact ==
  ASSUME Sentinels
  PROVE  Spec => []RolloutExact
BY DraftsAlwaysValid, ValidRolloutExact, PTL

\* A review of the draft leaves out no change that a client could notice.
THEOREM ReviewAlwaysShowsAll ==
  ASSUME Sentinels
  PROVE  Spec => []ReviewShowsAll
<1>1. TypeOK => ReviewShowsAll
  BY ValidReviewShowsAll
<1>2. QED
  BY <1>1, DraftsAlwaysValid, PTL

\* Merging the two drafts loses neither side's change, and is refused exactly
\* where the sides clash and nothing was chosen.
THEOREM MergeAlwaysKeepsBoth ==
  ASSUME Sentinels
  PROVE  Spec => []MergeKeepsBoth
<1>1. TypeOK => MergeKeepsBoth
  BY ValidMergeKeepsBoth
<1>2. QED
  BY <1>1, DraftsAlwaysValid, PTL

\* The merge of the two drafts can be published, unless one was begun with
\* schema version 1 and the other is of version 2.
THEOREM MergeAlwaysPublishable ==
  ASSUME Sentinels
  PROVE  Spec => []MergedPublishable
<1>1. TypeOK => MergedPublishable
  BY ValidMergedPublishable
<1>2. QED
  BY <1>1, DraftsAlwaysValid, PTL

\* Replaying an edit on what the other side published agrees with merging it.
THEOREM ReplayAlwaysAgrees ==
  ASSUME Sentinels
  PROVE  Spec => []ReplayAgreesWithMerge
<1>1. TypeOK => ReplayAgreesWithMerge
  BY DraftsAssumption, ReplayIsMerge DEF TypeOK, ReplayAgreesWithMerge
<1>2. QED
  BY <1>1, DraftsAlwaysValid, PTL

-----------------------------------------------------------------------------
(* What a Save does. *)

LEMMA FilledControl ==
  ASSUME NEW form, IsForm(form), NEW control, NEW value,
         NEW clicked, clicked = Filled(form, control, value)
  PROVE  \A f \in {"rollout", "detach", "default"} :
           clicked[f] = IF f = control THEN value ELSE form[f]
BY DEF IsForm, Filled

LEMMA RenderedIsFormOf ==
  ASSUME NEW feature, Holds(feature), ValidFeature(feature)
  PROVE  FormOf(RenderedForm(feature), feature)
<1>1. Field(feature, "default") = Undefined <=> feature.type = "boolean"
  <2>1. "default" \in DOMAIN feature <=> feature.type = "config"
    BY DEF ValidFeature
  <2>2. feature.type \in {"boolean", "config"}
    BY DEF ValidFeature
  <2>3. QED
    BY <2>1, <2>2 DEF Field, Holds
<1> DEFINE form == RenderedForm(feature)
<1>2. /\ form.default = Field(feature, "default") /\ form.detach = {}
      /\ DOMAIN form.rollout = DOMAIN RulesOf(feature)
  BY DEF RenderedForm
<1> HIDE DEF form
<1>3. FormOf(form, feature)
  BY <1>1, <1>2 DEF FormOf
<1>4. QED
  BY <1>3 DEF form

LEMMA ClickedIsFormOf ==
  ASSUME NEW feature, NEW form, IsForm(form), FormOf(form, feature),
         NEW clicked \in Clicked(form, feature)
  PROVE  FormOf(clicked, feature)
<1>1. CASE clicked = Filled(form, "enabled", ~form.enabled)
  <2>1. /\ clicked.rollout = form.rollout /\ clicked.detach = form.detach
        /\ clicked.default = form.default
    BY <1>1, FilledControl
  <2>2. QED
    BY <2>1 DEF FormOf
<1>2. ASSUME form.default # Undefined, NEW d \in Defaults, clicked = Filled(form, "default", d)
      PROVE  FormOf(clicked, feature)
  BY <1>2, DraftsAssumption DEF IsForm, FormOf, Filled
<1>3. ASSUME NEW i \in DOMAIN form.rollout, NEW r \in Rollouts \union {Undefined},
             clicked = FilledRow(form, i, r)
      PROVE  FormOf(clicked, feature)
  <2>1. clicked = Filled(form, "rollout", [form.rollout EXCEPT ![i] = r])
    BY <1>3 DEF Filled, FilledRow
  <2>2. /\ DOMAIN clicked.rollout = DOMAIN form.rollout /\ clicked.detach = form.detach
        /\ clicked.default = form.default
    BY <2>1, FilledControl
  <2>3. QED
    BY <2>2 DEF FormOf
<1>4. ASSUME NEW i \in DOMAIN form.rollout, clicked = Filled(form, "detach", form.detach \union {i})
      PROVE  FormOf(clicked, feature)
  <2>1. /\ clicked.rollout = form.rollout /\ clicked.detach = form.detach \union {i}
        /\ clicked.default = form.default
    BY <1>4, FilledControl
  <2>2. QED
    BY <1>4, <2>1 DEF FormOf
<1>5. ASSUME NEW s, NEW v, clicked = Filled(Filled(form, "segment", s), "value", v)
      PROVE  FormOf(clicked, feature)
  <2>1. PICK filled : filled = Filled(form, "segment", s)
    OBVIOUS
  <2>2. IsForm(filled)
    BY <2>1 DEF IsForm, Filled
  <2>3. /\ filled.rollout = form.rollout /\ filled.detach = form.detach
        /\ filled.default = form.default
    BY <2>1, FilledControl
  <2>4. /\ clicked.rollout = filled.rollout /\ clicked.detach = filled.detach
        /\ clicked.default = filled.default
    BY <1>5, <2>1, <2>2, FilledControl
  <2>5. QED
    BY <2>3, <2>4 DEF FormOf
<1>6. \/ clicked = Filled(form, "enabled", ~form.enabled)
      \/ form.default # Undefined /\ \E d \in Defaults : clicked = Filled(form, "default", d)
      \/ \E i \in DOMAIN form.rollout, r \in Rollouts \union {Undefined} :
           clicked = FilledRow(form, i, r)
      \/ \E i \in DOMAIN form.rollout : clicked = Filled(form, "detach", form.detach \union {i})
      \/ \E s, v : clicked = Filled(Filled(form, "segment", s), "value", v)
  BY SMTT(30) DEF Clicked
<1>7. QED
  BY <1>1, <1>2, <1>3, <1>4, <1>5, <1>6, Zenon

\* Every form is one of the flag that it was rendered for.
LEMMA FormsFit ==
  ASSUME NEW feature, Holds(feature), ValidFeature(feature), Sentinels,
         NEW form \in Forms(feature)
  PROVE  IsForm(form) /\ FormOf(form, feature)
<1>1. /\ IsForm(RenderedForm(feature)) /\ FormOf(RenderedForm(feature), feature)
      /\ RenderedForm(feature) \in Forms(feature)
  BY RenderedIsForm, RenderedIsFormOf DEF Forms
<1>2. CASE form = RenderedForm(feature)
  BY <1>1, <1>2
<1>3. CASE form # RenderedForm(feature)
  <2>1. PICK f \in Clicked(RenderedForm(feature), feature) : form \in Clicked(f, feature)
    BY <1>3 DEF Forms
  <2>2. IsForm(f) /\ FormOf(f, feature)
    BY <1>1, ClickedIsForm, ClickedIsFormOf
  <2>3. QED
    BY <2>1, <2>2, ClickedIsForm, ClickedIsFormOf
<1>4. QED
  BY <1>2, <1>3

LEMMA SaveAsShown ==
  ASSUME NEW draft, Parsed(draft), NEW key \in DOMAIN draft.features,
         NEW form \in Forms(draft.features[key]), Sentinels
  PROVE  IF Save(draft, key, form) = Refused THEN Refusable(draft, form)
         ELSE SavedAsShown(draft, key, form, Save(draft, key, form))
<1> DEFINE next == Save(draft, key, form)
           before == draft.features[key]
           after == next.features[key]
<1>1. Holds(before) /\ ValidFeature(before)
  BY DEF Parsed, Shaped, ValidSnapshot
<1>2. IsForm(form) /\ FormOf(form, before)
  BY <1>1, FormsFit
<1>3. IF next = Refused THEN Refusable(draft, form)
      ELSE RulesSaved(RulesOf(before), RulesOf(after), form)
  BY <1>2, SaveRules
<1>4. ASSUME next # Refused
      PROVE  SavedAsShown(draft, key, form, next)
  <2>1. SavedSoFar(next, draft, key, form, 2)
    BY <1>2, <1>4, SaveSets
  <2> HIDE DEF next
  <2>2. /\ DOMAIN next.features = DOMAIN draft.features
        /\ \A k \in DOMAIN draft.features \ {key} : next.features[k] = draft.features[k]
        /\ Field(after, "enabled") = form.enabled
        /\ ValidFeature(after)
    BY <2>1 DEF SavedSoFar, Parsed, ValidSnapshot
  <2>3. after.enabled = form.enabled
    BY <2>2 DEF ValidFeature, Field
  <2>4. Field(after, "default") = form.default
    <3>1. CASE form.default = Undefined
      <4>1. "default" \notin DOMAIN before
        BY <1>1, <1>2, <3>1 DEF FormOf, ValidFeature
      <4>2. QED
        BY <2>1, <3>1, <4>1 DEF SavedSoFar, Field
    <3>2. CASE form.default # Undefined
      BY <2>1, <3>2 DEF SavedSoFar
    <3>3. QED
      BY <3>1, <3>2
  <2>5. QED
    <3>1. RulesSaved(RulesOf(before), RulesOf(after), form)
      BY <1>3, <1>4
    <3>2. QED
      BY <2>2, <2>3, <2>4, <3>1 DEF SavedAsShown, RulesSaved, RuleKept, RowShown
<1>5. QED
  BY <1>3, <1>4

\* A Save does to the flag what the form shows, and nothing else.
THEOREM SaveAlwaysMeansWhatWasClicked ==
  ASSUME Sentinels
  PROVE  Spec => []SaveMeansWhatWasClicked
<1>1. Init => SaveMeansWhatWasClicked
  BY DEF Init, SaveMeansWhatWasClicked
<1>2. ASSUME TypeOK, SaveMeansWhatWasClicked, [Next]_vars
      PROVE  SaveMeansWhatWasClicked'
  <2>1. CASE SaveForm
    <3>1. PICK key \in DOMAIN mine.features : \E form \in Forms(mine.features[key]) :
            LET draft == Save(mine, key, form) IN
            /\ mine' = IF draft = Refused THEN mine ELSE draft
            /\ saved' = [draft |-> mine, key |-> key, form |-> form, ok |-> draft # Refused]
      BY <2>1 DEF SaveForm
    <3>2. PICK form \in Forms(mine.features[key]) :
            LET draft == Save(mine, key, form) IN
            /\ mine' = IF draft = Refused THEN mine ELSE draft
            /\ saved' = [draft |-> mine, key |-> key, form |-> form, ok |-> draft # Refused]
      BY <3>1
    <3>3. IF Save(mine, key, form) = Refused THEN Refusable(mine, form)
          ELSE SavedAsShown(mine, key, form, Save(mine, key, form))
      BY <1>2, SaveAsShown DEF TypeOK
    <3>4. PICK draft : draft = Save(mine, key, form)
      OBVIOUS
    <3>5. /\ saved'.draft = mine /\ saved'.key = key /\ saved'.form = form
          /\ saved'.ok <=> draft # Refused
      BY <3>2, <3>4
    <3>6. CASE draft = Refused
      <4>1. ~saved'.ok /\ Refusable(saved'.draft, saved'.form)
        BY <3>3, <3>4, <3>5, <3>6
      <4>2. QED
        BY <4>1 DEF SaveMeansWhatWasClicked
    <3>7. CASE draft # Refused
      <4>1. mine' = draft /\ saved'.ok
        BY <3>2, <3>4, <3>5, <3>7
      <4>2. SavedAsShown(saved'.draft, saved'.key, saved'.form, mine')
        BY <3>3, <3>4, <3>5, <3>7, <4>1
      <4>3. QED
        BY <4>1, <4>2 DEF SaveMeansWhatWasClicked
    <3>8. QED
      BY <3>6, <3>7
  <2>2. CASE EditTheirs
    BY <1>2, <2>2 DEF EditTheirs, SaveMeansWhatWasClicked
  <2>3. CASE UNCHANGED vars
    BY <1>2, <2>3 DEF vars, SaveMeansWhatWasClicked
  <2>4. QED
    BY <1>2, <2>1, <2>2, <2>3 DEF Next
<1>3. QED
  BY <1>1, <1>2, DraftsAlwaysValid, PTL DEF Spec

-----------------------------------------------------------------------------
(* The salts that were left blank. *)

\* A salt that is the address of a rule is the address of its own rule.
SaltInPlace(salt, key, i) == Head(salt) = "rule" => salt = <<"rule", key, i>>

RulesInPlace(rules, key) ==
  \A i \in DOMAIN rules :
    "rollout" \in DOMAIN rules[i] => SaltInPlace(rules[i].rollout.salt, key, i)

SaltsInPlace(features) ==
  \A key \in DOMAIN features : RulesInPlace(RulesOf(features[key]), key)

\* Nobody types the address of another rule: neither into a form, nor into the
\* snapshots that the two start from.
SaltsTyped ==
  /\ \A snapshot \in Published : SaltsInPlace(snapshot.features)
  /\ \A rollout \in Rollouts : rollout.salt = <<>> \/ Head(rollout.salt) # "rule"

EditInPlace(edit) ==
  /\ edit.kind \in {"enabled", "default", "removeRollout", "setRollout", "attachSegment"}
  /\ edit.kind = "setRollout" =>
       edit.salt = <<>> \/ SaltInPlace(edit.salt, edit.key, edit.index)

\* An edit that takes no rule out leaves every salt at its own rule.
LEMMA EditKeepsPlaces ==
  ASSUME NEW snapshot, Parsed(snapshot), SaltsInPlace(snapshot.features), Sentinels,
         NEW edit, IsEdit(edit), EditInPlace(edit), ApplyFlagEdit(snapshot, edit) # Refused
  PROVE  SaltsInPlace(ApplyFlagEdit(snapshot, edit).features)
<1> DEFINE key == edit.key
           features == snapshot.features
           after == ApplyFlagEdit(snapshot, edit).features
           was == RulesOf(features[key])
           new == RulesOf(after[key])
           attached == Attached(features[key], edit)
<1>1. /\ key \in DOMAIN features /\ DOMAIN after = DOMAIN features
      /\ \A k \in DOMAIN features \ {key} : after[k] = features[k]
      /\ new = IF edit.kind \in {"enabled", "default"} THEN was
               ELSE RulesAfter(was, attached, edit)
  BY EditApplied DEF EditInPlace
<1>2. was \in Seq(Range(was))
  BY <1>1, RulesAreArray
<1>3. RulesInPlace(was, key)
  BY <1>1 DEF SaltsInPlace
<1>4. "rollout" \notin DOMAIN attached
  BY DEF Attached
<1> HIDE DEF features, after, was, new, attached
<1>5. RulesInPlace(new, key)
  <2>1. CASE edit.kind \in {"enabled", "default"}
    BY <1>1, <1>3, <2>1
  <2>2. CASE edit.kind = "attachSegment"
    <3>1. new = Append(was, attached)
      BY <1>1, <2>2 DEF RulesAfter
    <3>2. ASSUME NEW i \in DOMAIN new
          PROVE  (i \in DOMAIN was /\ new[i] = was[i]) \/ new[i] = attached
      BY <1>2, <3>1, <3>2
    <3>3. QED
      BY <1>3, <1>4, <3>2 DEF RulesInPlace
  <2>3. CASE edit.kind \in {"removeRollout", "setRollout"}
    <3>1. new = [was EXCEPT ![edit.index] = EditedRule(was[edit.index], edit)]
      BY <1>1, <2>3 DEF RulesAfter
    <3>2. ASSUME NEW i \in DOMAIN new, i = edit.index, "rollout" \in DOMAIN new[i]
          PROVE  SaltInPlace(new[i].rollout.salt, key, i)
      <4>1. new[i] = EditedRule(was[i], edit)
        BY <3>1, <3>2
      <4>2. CASE edit.kind = "removeRollout"
        BY <3>2, <4>1, <4>2 DEF EditedRule
      <4>3. CASE edit.kind = "setRollout"
        <5>1. new[i].rollout.salt = DefaultedSalt(edit)
          BY <4>1, <4>3 DEF EditedRule, Spread
        <5>2. SaltInPlace(DefaultedSalt(edit), key, edit.index)
          BY <4>3 DEF DefaultedSalt, EditInPlace, SaltInPlace
        <5>3. QED
          BY <3>2, <5>1, <5>2
      <4>4. QED
        BY <2>3, <4>2, <4>3
    <3>3. ASSUME NEW i \in DOMAIN new, i # edit.index
          PROVE  i \in DOMAIN was /\ new[i] = was[i]
      BY <3>1, <3>3
    <3>4. QED
      BY <1>3, <3>2, <3>3 DEF RulesInPlace
  <2>4. QED
    BY <2>1, <2>2, <2>3 DEF EditInPlace
<1>6. ASSUME NEW k \in DOMAIN after
      PROVE  RulesInPlace(RulesOf(after[k]), k)
  BY <1>1, <1>5 DEF SaltsInPlace, features, new
<1>7. QED
  BY <1>6 DEF SaltsInPlace, after

LEMMA StagingKeepsPlaces ==
  ASSUME NEW snapshot, Parsed(snapshot), SaltsInPlace(snapshot.features), Sentinels,
         NEW list, Len(list) \in Nat,
         \A i \in 1..Len(list) : IsEdit(list[i]) /\ EditInPlace(list[i]),
         StageAll(snapshot, list) # Refused
  PROVE  SaltsInPlace(StageAll(snapshot, list).features)
<1> DEFINE staged == Staged(snapshot, list)
           In(i) == staged[i] # Refused =>
                      Parsed(staged[i]) /\ SaltsInPlace(staged[i].features)
           G == {i \in 0..Len(list) : In(i)}
<1>1. 0 \in G
  <2>1. staged[0] = snapshot /\ 0 \in 0..Len(list)
    BY StagedFirst
  <2> HIDE DEF staged
  <2>2. QED
    BY <2>1
<1>2. ASSUME NEW i \in 1..Len(list), i - 1 \in G
      PROVE  i \in G
  <2>1. staged[i] = StagedStep(staged[i - 1], list[i]) /\ i \in 0..Len(list)
    BY StagedNext
  <2>2. In(i - 1)
    BY <1>2
  <2> HIDE DEF staged
  <2>3. ASSUME staged[i] # Refused
        PROVE  Parsed(staged[i]) /\ SaltsInPlace(staged[i].features)
    <3>1. staged[i - 1] # Refused /\ staged[i] = ApplyFlagEdit(staged[i - 1], list[i])
      BY <2>1, <2>3 DEF StagedStep
    <3>2. Parsed(staged[i - 1]) /\ SaltsInPlace(staged[i - 1].features)
      BY <2>2, <3>1
    <3>3. QED
      BY <2>3, <3>1, <3>2, EditKeepsParsed, EditKeepsPlaces
  <2>4. QED
    BY <2>1, <2>3
<1>3. Len(list) \in G
  <2> HIDE DEF G
  <2>1. Len(list) \in 0..Len(list)
    OBVIOUS
  <2>2. QED
    BY <1>1, <1>2, <2>1, StepByStep
<1>4. QED
  BY <1>3 DEF StageAll

\* The salts of a form are those of its own rules, or typed.
FormInPlace(form, key) ==
  \A i \in DOMAIN form.rollout :
    LET row == form.rollout[i] IN
    row # Undefined => row.salt = <<>> \/ SaltInPlace(row.salt, key, i)

LEMMA SaveKeepsPlaces ==
  ASSUME NEW draft, Parsed(draft), SaltsInPlace(draft.features), Sentinels,
         NEW key, NEW form, IsForm(form), FormInPlace(form, key), form.detach = {},
         Save(draft, key, form) # Refused
  PROVE  SaltsInPlace(Save(draft, key, form).features)
<1> DEFINE list == ParseSave(key, form)
           n == Len(form.rollout)
           p == Ahead(form)
<1>1. /\ n \in Nat
      /\ Len(list) = p + n + Cardinality(form.detach)
                        + (IF form.segment = Blank THEN 0 ELSE 1)
      /\ list[1] = EnabledOf(key, form)
      /\ p = 2 => list[2] = DefaultOf(key, form)
      /\ \A i \in 1..n : list[p + i] = RolloutOf(key, form, i)
      /\ form.segment # Blank =>
           list[p + n + Cardinality(form.detach) + 1] = AttachOf(key, form)
  BY SaveList
<1>2. Cardinality(form.detach) = 0
  BY FS_EmptySet
<1>3. p \in {1, 2} /\ DOMAIN form.rollout = 1..n
  BY DEF Ahead, IsForm, IsArray
<1>4. \A i \in 1..Len(list) : IsEdit(list[i])
  BY SaveIsEdits DEF IsSaveEdit
<1>5. Len(list) \in Nat /\ Save(draft, key, form) = StageAll(draft, list)
  BY SaveIsEdits DEF Save
<1> HIDE DEF list, n, p
<1>6. ASSUME NEW i \in 1..Len(list)
      PROVE  EditInPlace(list[i])
  <2>1. CASE i = 1
    BY <1>1, <2>1 DEF EnabledOf, EditInPlace
  <2>2. CASE i = 2 /\ p = 2
    BY <1>1, <2>2 DEF DefaultOf, EditInPlace
  <2>3. CASE i \in p + 1..p + n
    <3>1. PICK j \in 1..n : i = p + j
      <4>1. i - p \in 1..n /\ i = p + (i - p)
        BY <1>1, <1>3, <2>3
      <4>2. QED
        BY <4>1
    <3>2. list[i] = RolloutOf(key, form, j)
      BY <1>1, <3>1
    <3>3. CASE form.rollout[j] = Undefined
      BY <3>2, <3>3 DEF RolloutOf, EditInPlace
    <3>4. CASE form.rollout[j] # Undefined
      <4>1. /\ DOMAIN form.rollout[j] = {"percentage", "bucketBy", "salt"}
            /\ form.rollout[j].salt = <<>> \/ SaltInPlace(form.rollout[j].salt, key, j)
        BY <1>3, <3>4 DEF IsForm, FormInPlace
      <4>2. /\ list[i].kind = "setRollout" /\ list[i].key = key /\ list[i].index = j
            /\ list[i].salt = form.rollout[j].salt
        BY <3>2, <3>4, <4>1 DEF RolloutOf, Spread
      <4>3. QED
        BY <4>1, <4>2 DEF EditInPlace
    <3>5. QED
      BY <3>3, <3>4
  <2>4. CASE i = p + n + 1 /\ form.segment # Blank
    <3>1. list[i] = AttachOf(key, form)
      <4>1. p + n + Cardinality(form.detach) + 1 = p + n + 1
        BY <1>1, <1>2, <1>3
      <4>2. QED
        BY <1>1, <2>4, <4>1
    <3>2. QED
      BY <3>1 DEF AttachOf, EditInPlace
  <2>5. i = 1 \/ (i = 2 /\ p = 2) \/ i \in p + 1..p + n
          \/ (i = p + n + 1 /\ form.segment # Blank)
    BY <1>1, <1>2, <1>3
  <2>6. QED
    BY <2>1, <2>2, <2>3, <2>4, <2>5
<1>7. QED
  BY <1>4, <1>5, <1>6, StagingKeepsPlaces

LEMMA RenderedInPlace ==
  ASSUME NEW feature, NEW key, RulesInPlace(RulesOf(feature), key)
  PROVE  FormInPlace(RenderedForm(feature), key)
<1> DEFINE rules == RulesOf(feature)
           form == RenderedForm(feature)
<1>1. form.rollout = [i \in DOMAIN rules |-> Field(rules[i], "rollout")]
  BY DEF RenderedForm
<1> HIDE DEF form, rules
<1>2. ASSUME NEW i \in DOMAIN form.rollout, form.rollout[i] # Undefined
      PROVE  SaltInPlace(form.rollout[i].salt, key, i)
  <2>1. i \in DOMAIN rules /\ form.rollout[i] = Field(rules[i], "rollout")
    BY <1>1, <1>2
  <2>2. "rollout" \in DOMAIN rules[i] /\ form.rollout[i] = rules[i].rollout
    BY <1>2, <2>1 DEF Field
  <2>3. QED
    BY <2>1, <2>2 DEF RulesInPlace, rules
<1>3. QED
  BY <1>2 DEF FormInPlace, form

LEMMA ClickedInPlace ==
  ASSUME NEW feature, NEW key, NEW form, IsForm(form), FormInPlace(form, key), SaltsTyped,
         NEW clicked \in Clicked(form, feature)
  PROVE  FormInPlace(clicked, key)
<1>1. ASSUME NEW i \in DOMAIN form.rollout, NEW r \in Rollouts \union {Undefined},
             clicked = FilledRow(form, i, r)
      PROVE  FormInPlace(clicked, key)
  <2>1. clicked = Filled(form, "rollout", [form.rollout EXCEPT ![i] = r])
    BY <1>1 DEF Filled, FilledRow
  <2>2. clicked.rollout = [form.rollout EXCEPT ![i] = r]
    BY <2>1, FilledControl
  <2>3. r # Undefined => r.salt = <<>> \/ Head(r.salt) # "rule"
    BY DEF SaltsTyped
  <2>4. ASSUME NEW j \in DOMAIN clicked.rollout, clicked.rollout[j] # Undefined
        PROVE  \/ clicked.rollout[j].salt = <<>>
               \/ SaltInPlace(clicked.rollout[j].salt, key, j)
    <3>1. CASE j = i
      BY <2>2, <2>3, <2>4, <3>1 DEF SaltInPlace
    <3>2. CASE j # i
      BY <2>2, <2>4, <3>2 DEF FormInPlace
    <3>3. QED
      BY <3>1, <3>2
  <2>5. QED
    BY <2>4 DEF FormInPlace
<1>2. ASSUME NEW control, control # "rollout", NEW value,
             clicked = Filled(form, control, value)
      PROVE  FormInPlace(clicked, key)
  <2>1. clicked.rollout = form.rollout
    BY <1>2, FilledControl
  <2>2. QED
    BY <2>1 DEF FormInPlace
<1>3. ASSUME NEW s, NEW v, clicked = Filled(Filled(form, "segment", s), "value", v)
      PROVE  FormInPlace(clicked, key)
  <2>1. PICK filled : filled = Filled(form, "segment", s)
    OBVIOUS
  <2>2. IsForm(filled)
    BY <2>1 DEF IsForm, Filled
  <2>3. clicked.rollout = filled.rollout /\ filled.rollout = form.rollout
    BY <1>3, <2>1, <2>2, FilledControl
  <2>4. QED
    BY <2>3 DEF FormInPlace
<1>4. \/ clicked = Filled(form, "enabled", ~form.enabled)
      \/ \E d \in Defaults : clicked = Filled(form, "default", d)
      \/ \E i \in DOMAIN form.rollout, r \in Rollouts \union {Undefined} :
           clicked = FilledRow(form, i, r)
      \/ \E i : clicked = Filled(form, "detach", form.detach \union {i})
      \/ \E s, v : clicked = Filled(Filled(form, "segment", s), "value", v)
  BY DEF Clicked
<1>5. "enabled" # "rollout" /\ "default" # "rollout" /\ "detach" # "rollout"
  OBVIOUS
<1>6. QED
  BY <1>1, <1>2, <1>3, <1>4, <1>5

LEMMA FormsInPlace ==
  ASSUME NEW feature, Holds(feature), ValidFeature(feature), Sentinels, SaltsTyped,
         NEW key, RulesInPlace(RulesOf(feature), key), NEW form \in Forms(feature)
  PROVE  FormInPlace(form, key)
<1>1. IsForm(RenderedForm(feature)) /\ FormInPlace(RenderedForm(feature), key)
  BY RenderedIsForm, RenderedInPlace
<1>2. CASE form = RenderedForm(feature)
  BY <1>1, <1>2
<1>3. CASE form # RenderedForm(feature)
  <2>1. PICK f \in Clicked(RenderedForm(feature), feature) : form \in Clicked(f, feature)
    BY <1>3 DEF Forms
  <2>2. IsForm(f) /\ FormInPlace(f, key)
    BY <1>1, ClickedIsForm, ClickedInPlace
  <2>3. QED
    BY <2>1, <2>2, ClickedInPlace
<1>4. QED
  BY <1>2, <1>3

LEMMA InPlaceIsApart ==
  ASSUME TypeOK, ~shifted => SaltsInPlace(mine.features)
  PROVE  BlankSaltsApart
<1>1. SUFFICES ASSUME ~shifted, NEW key \in DOMAIN mine.features,
                      NEW i \in DOMAIN RulesOf(mine.features[key]),
                      NEW j \in DOMAIN RulesOf(mine.features[key]), i # j,
                      LET rules == RulesOf(mine.features[key]) IN
                      /\ "rollout" \in DOMAIN rules[i] /\ "rollout" \in DOMAIN rules[j]
                      /\ Head(rules[i].rollout.salt) = "rule"
                      /\ rules[i].rollout.salt = rules[j].rollout.salt
               PROVE  FALSE
  BY DEF BlankSaltsApart
<1> DEFINE rules == RulesOf(mine.features[key])
<1>2. RulesInPlace(rules, key)
  BY <1>1 DEF SaltsInPlace
<1> HIDE DEF rules
<1>3. /\ rules[i].rollout.salt = <<"rule", key, i>>
      /\ rules[j].rollout.salt = <<"rule", key, j>>
  BY <1>1, <1>2 DEF RulesInPlace, SaltInPlace, rules
<1>4. <<"rule", key, i>> = <<"rule", key, j>>
  BY <1>1, <1>3 DEF rules
<1>5. QED
  BY <1>1, <1>4

\* As long as no Save has taken a rule out, two rules of a flag whose salts were
\* left blank have different ones.
THEOREM BlankSaltsStayApart ==
  ASSUME Sentinels, SaltsTyped
  PROVE  Spec => []BlankSaltsApart
<1> DEFINE Places == ~shifted => SaltsInPlace(mine.features)
<1>1. Init => Places
  BY DEF Init, SaltsTyped
<1>2. ASSUME TypeOK, Places, [Next]_vars
      PROVE  Places'
  <2>1. CASE SaveForm
    <3>1. PICK key \in DOMAIN mine.features : \E form \in Forms(mine.features[key]) :
            LET draft == Save(mine, key, form) IN
            /\ mine' = IF draft = Refused THEN mine ELSE draft
            /\ shifted' = (shifted \/ (draft # Refused /\ form.detach # {}))
      BY <2>1 DEF SaveForm
    <3>2. PICK form \in Forms(mine.features[key]) :
            LET draft == Save(mine, key, form) IN
            /\ mine' = IF draft = Refused THEN mine ELSE draft
            /\ shifted' = (shifted \/ (draft # Refused /\ form.detach # {}))
      BY <3>1
    <3>3. PICK draft : draft = Save(mine, key, form)
      OBVIOUS
    <3>4. CASE shifted'
      BY <3>4
    <3>5. CASE ~shifted' /\ draft = Refused
      BY <1>2, <3>2, <3>3, <3>5
    <3>6. CASE ~shifted' /\ draft # Refused
      <4>1. mine' = draft /\ form.detach = {} /\ ~shifted
        BY <3>2, <3>3, <3>6
      <4>2. Holds(mine.features[key]) /\ ValidFeature(mine.features[key])
        BY <1>2 DEF TypeOK, Parsed, Shaped, ValidSnapshot
      <4>3. SaltsInPlace(mine.features) /\ RulesInPlace(RulesOf(mine.features[key]), key)
        BY <1>2, <4>1 DEF SaltsInPlace
      <4>4. IsForm(form) /\ FormInPlace(form, key)
        BY <4>2, <4>3, FormsFit, FormsInPlace
      <4>5. SaltsInPlace(draft.features)
        BY <1>2, <3>3, <3>6, <4>1, <4>3, <4>4, SaveKeepsPlaces DEF TypeOK
      <4>6. QED
        BY <4>1, <4>5
    <3>7. QED
      BY <3>4, <3>5, <3>6
  <2>2. CASE EditTheirs
    BY <1>2, <2>2 DEF EditTheirs
  <2>3. CASE UNCHANGED vars
    BY <1>2, <2>3 DEF vars
  <2>4. QED
    BY <1>2, <2>1, <2>2, <2>3 DEF Next
<1>3. TypeOK /\ Places => BlankSaltsApart
  BY InPlaceIsApart
<1>4. QED
  BY <1>1, <1>2, <1>3, DraftsAlwaysValid, PTL DEF Spec
=============================================================================
