---------------------------- MODULE FlagEditProofs ----------------------------
(***************************************************************************)
(* What an edit, and a list of edits staged one after the other, makes of  *)
(* a snapshot.                                                             *)
(*                                                                         *)
(* Undefined and Refused stand for what no JSON text says.                 *)
(***************************************************************************)
EXTENDS FlagEdit, WellFoundedInduction, FiniteSetTheorems, TLAPS

\* Strings that a snapshot or the merge dialog may hold.
Words == {"boolean", "config", "mine", "theirs"}

Sentinels ==
  /\ Undefined # Refused
  /\ ~IsObject(Undefined) /\ ~IsObject(Refused)
  /\ {Undefined, Refused} \intersect (Words \union BOOLEAN) = {}

-----------------------------------------------------------------------------
(* Staging a list. *)

\* A set of natural numbers has a least one.
LEMMA Least ==
  ASSUME NEW T, T \subseteq Nat, T # {}
  PROVE  \E x \in T : \A y \in T : ~(y < x)
<1>1. PICK x \in T : \A y \in T : <<y, x>> \notin OpToRel(<, Nat)
  BY NatLessThanWellFounded, WFMin
<1>2. \A y \in T : ~(y < x)
  BY <1>1 DEF OpToRel
<1>3. QED
  BY <1>2

\* A set of positions that holds the first and with each the next holds all.
LEMMA StepByStep ==
  ASSUME NEW n \in Nat, NEW G, 0 \in G, \A i \in 1..n : i - 1 \in G => i \in G
  PROVE  \A i \in 0..n : i \in G
<1> DEFINE T == {i \in 0..n : i \notin G}
<1>1. SUFFICES ASSUME T # {} PROVE FALSE
  OBVIOUS
<1>2. PICK x \in T : \A y \in T : ~(y < x)
  <2>1. T \subseteq Nat
    OBVIOUS
  <2> HIDE DEF T
  <2>2. QED
    BY <1>1, <2>1, Least
<1>3. x \in 1..n
  OBVIOUS
<1>4. x - 1 \in G
  BY <1>2, <1>3
<1>5. QED
  BY <1>3, <1>4

StagedStep(draft, edit) ==
  IF draft = Refused THEN Refused ELSE ApplyFlagEdit(draft, edit)

StagedSoFar(staged, draft, edits, n) ==
  staged = [i \in 0..n |-> IF i = 0 THEN draft
                           ELSE StagedStep(staged[i - 1], edits[i])]

LEMMA StagingExists ==
  ASSUME NEW draft, NEW edits, NEW n \in Nat
  PROVE  \E staged : StagedSoFar(staged, draft, edits, n)
<1> DEFINE T == {k \in Nat : ~\E staged : StagedSoFar(staged, draft, edits, k)}
<1>1. SUFFICES ASSUME T # {} PROVE FALSE
  OBVIOUS
<1>2. PICK x \in T : \A y \in T : ~(y < x)
  BY <1>1, Least
<1>3. x # 0
  <2>1. StagedSoFar([i \in {0} |-> draft], draft, edits, 0)
    BY DEF StagedSoFar
  <2>2. QED
    BY <2>1
<1>4. PICK staged : StagedSoFar(staged, draft, edits, x - 1)
  BY <1>2, <1>3
<1>5. StagedSoFar([i \in 0..x |-> IF i = 0 THEN draft
                                 ELSE StagedStep(staged[i - 1], edits[i])],
                  draft, edits, x)
  BY <1>3, <1>4 DEF StagedSoFar
<1>6. QED
  BY <1>5

LEMMA StagedIs ==
  ASSUME NEW draft, NEW edits, Len(edits) \in Nat
  PROVE  Staged(draft, edits) =
           [i \in 0..Len(edits) |->
              IF i = 0 THEN draft
              ELSE StagedStep(Staged(draft, edits)[i - 1], edits[i])]
<1>1. \E staged : StagedSoFar(staged, draft, edits, Len(edits))
  BY StagingExists
<1>2. StagedSoFar(Staged(draft, edits), draft, edits, Len(edits))
  BY <1>1 DEF StagedSoFar, Staged, StagedStep
<1>3. QED
  BY <1>2 DEF StagedSoFar

LEMMA StagedFirst ==
  ASSUME NEW draft, NEW edits, Len(edits) \in Nat
  PROVE  Staged(draft, edits)[0] = draft
BY StagedIs

LEMMA StagedNext ==
  ASSUME NEW draft, NEW edits, Len(edits) \in Nat, NEW i \in 1..Len(edits)
  PROVE  Staged(draft, edits)[i] = StagedStep(Staged(draft, edits)[i - 1], edits[i])
<1>1. i \in 0..Len(edits) /\ i # 0
  OBVIOUS
<1>2. QED
  BY <1>1, StagedIs

-----------------------------------------------------------------------------
(* One edit. *)

LEMMA ArrayIsObject ==
  ASSUME NEW S, NEW s \in Seq(S)
  PROVE  IsObject(s)
BY DEF IsObject

LEMMA WithRulesHolds ==
  ASSUME NEW feature, Holds(feature), NEW rules, rules \notin {Undefined, Refused}
  PROVE  Holds(WithRules(feature, rules))
BY DEF Holds, IsObject, WithRules, Spread

\* The field of a flag that an edit sets, and the rules it sets.
EditedField(edit) ==
  IF edit.kind \in {"enabled", "default"} THEN edit.kind ELSE "rules"

RulesAfter(rules, attached, edit) ==
  CASE edit.kind = "setRules" -> edit.rules
    [] edit.kind = "attachSegment" -> Append(rules, attached)
    [] edit.kind = "detachSegment" -> RemoveAt(rules, edit.index)
    [] OTHER -> [rules EXCEPT ![edit.index] = EditedRule(rules[edit.index], edit)]

LEMMA RulesEdited ==
  ASSUME NEW feature, NEW edit, IsEdit(edit), EditedField(edit) = "rules",
         edit.kind \notin {"create", "delete"}, EditFeature(feature, edit) # Refused
  PROVE  EditFeature(feature, edit) =
           WithRules(feature, RulesAfter(RulesOf(feature), Attached(feature, edit), edit))
<1> DEFINE rules == RulesOf(feature)
<1>1. CASE edit.kind = "setRules"
  BY <1>1 DEF EditFeature, RulesAfter
<1>2. CASE edit.kind = "attachSegment"
  BY <1>2 DEF EditFeature, RulesAfter
<1>3. CASE edit.kind \in {"setRollout", "removeRollout", "detachSegment"}
  <2> DEFINE Set(i) == WithRules(feature, [rules EXCEPT ![i] = EditedRule(rules[i], edit)])
             Addressed ==
               CASE edit.index \notin DOMAIN rules -> Refused
                 [] edit.index \in DOMAIN rules /\ edit.kind = "detachSegment" ->
                      WithRules(feature, RemoveAt(rules, edit.index))
                 [] OTHER -> Set(edit.index)
  <2>1. EditFeature(feature, edit) = Addressed
    <3>1. CASE edit.kind = "setRollout"
      <4>1. edit.percentage \in Percentages
        BY <3>1 DEF EditFeature
      <4>2. QED
        BY <3>1, <4>1 DEF EditFeature
    <3>2. CASE edit.kind = "removeRollout"
      BY <3>2 DEF EditFeature
    <3>3. CASE edit.kind = "detachSegment"
      BY <3>3 DEF EditFeature
    <3>4. QED
      BY <1>3, <3>1, <3>2, <3>3
  <2>2. Set(edit.index) =
          WithRules(feature, [rules EXCEPT ![edit.index] = EditedRule(rules[edit.index], edit)])
    OBVIOUS
  <2> HIDE DEF Set, rules
  <2>3. edit.index \in DOMAIN rules
    BY <2>1
  <2>4. CASE edit.kind = "detachSegment"
    <3>1. RulesAfter(rules, Attached(feature, edit), edit) = RemoveAt(rules, edit.index)
      BY <2>4 DEF RulesAfter
    <3>2. QED
      BY <2>1, <2>3, <2>4, <3>1 DEF rules
  <2>5. CASE edit.kind # "detachSegment"
    <3>1. RulesAfter(rules, Attached(feature, edit), edit) =
            [rules EXCEPT ![edit.index] = EditedRule(rules[edit.index], edit)]
      BY <1>3, <2>5 DEF RulesAfter
    <3>2. EditFeature(feature, edit) = Set(edit.index)
      BY <2>1, <2>3, <2>5
    <3>3. QED
      BY <2>2, <3>1, <3>2 DEF rules
  <2>6. QED
    BY <2>4, <2>5
<1>4. QED
  BY <1>1, <1>2, <1>3 DEF IsEdit, FieldsOf, EditedField

LEMMA EditedFeatureHolds ==
  ASSUME NEW feature, Holds(feature), ValidFeature(feature),
         NEW edit, IsEdit(edit), edit.kind \notin {"create", "delete"},
         EditFeature(feature, edit) # Refused, Sentinels
  PROVE  Holds(EditFeature(feature, edit))
<1> DEFINE rules == RulesOf(feature)
<1>1. CASE edit.kind = "enabled"
  <2>1. edit.enabled \notin {Undefined, Refused}
    BY <1>1 DEF IsEdit, FieldsOf
  <2>2. EditFeature(feature, edit) = [feature EXCEPT !.enabled = edit.enabled]
    BY <1>1 DEF EditFeature
  <2>3. QED
    BY <2>1, <2>2 DEF Holds, IsObject
<1>2. CASE edit.kind = "default"
  <2>1. edit.default \notin {Undefined, Refused}
    BY <1>2 DEF IsEdit, FieldsOf
  <2>2. EditFeature(feature, edit) = [feature EXCEPT !.default = edit.default]
    BY <1>2 DEF EditFeature
  <2>3. QED
    BY <2>1, <2>2 DEF Holds, IsObject
<1>3. CASE edit.kind \notin {"enabled", "default"}
  <2>1. \A x : IsObject(x) => x \notin {Undefined, Refused}
    BY DEF Sentinels
  <2>2. rules \in Seq(Range(rules))
    BY DEF ValidFeature, IsArray
  <2> HIDE DEF rules
  <2> DEFINE after == RulesAfter(rules, Attached(feature, edit), edit)
  <2>3. EditFeature(feature, edit) = WithRules(feature, after)
    BY <1>3, RulesEdited DEF EditedField, rules
  <2>4. CASE edit.kind = "setRules"
    <3>1. edit.rules \notin {Undefined, Refused}
      BY <2>4 DEF IsEdit, FieldsOf
    <3>2. QED
      BY <2>3, <2>4, <3>1, WithRulesHolds DEF RulesAfter
  <2>5. CASE edit.kind = "attachSegment"
    <3>1. after = Append(rules, Attached(feature, edit))
      BY <2>5 DEF RulesAfter
    <3>2. after \in Seq(Range(rules) \union {Attached(feature, edit)})
      BY <2>2, <3>1
    <3> HIDE DEF after
    <3>3. QED
      BY <2>1, <2>3, <3>2, ArrayIsObject, WithRulesHolds
  <2>6. CASE edit.kind = "detachSegment"
    <3>1. edit.index \in DOMAIN rules
      BY <2>6 DEF EditFeature, rules
    <3>2. after = RemoveAt(rules, edit.index)
      BY <2>6 DEF RulesAfter
    <3>3. after \in Seq(Range(rules))
      BY <2>2, <3>1, <3>2 DEF RemoveAt
    <3> HIDE DEF after
    <3>4. QED
      BY <2>1, <2>3, <3>3, ArrayIsObject, WithRulesHolds
  <2>7. CASE edit.kind \in {"setRollout", "removeRollout"}
    <3>1. IsObject(after)
      BY <2>7 DEF IsObject, RulesAfter
    <3> HIDE DEF after
    <3>2. QED
      BY <2>1, <2>3, <3>1, WithRulesHolds
  <2>8. QED
    BY <1>3, <2>4, <2>5, <2>6, <2>7 DEF IsEdit, FieldsOf
<1>4. QED
  BY <1>1, <1>2, <1>3

\* An edit of a flag leaves its other fields alone ...
LEMMA OtherFieldsKept ==
  ASSUME NEW feature, ValidFeature(feature),
         NEW edit, IsEdit(edit), edit.kind \notin {"create", "delete"},
         EditFeature(feature, edit) # Refused
  PROVE  \A f : f # EditedField(edit) =>
           Field(EditFeature(feature, edit), f) = Field(feature, f)
<1>1. CASE edit.kind = "enabled"
  <2>1. EditFeature(feature, edit) = [feature EXCEPT !.enabled = edit.enabled]
    BY <1>1 DEF EditFeature
  <2>2. QED
    BY <1>1, <2>1 DEF Field, EditedField
<1>2. CASE edit.kind = "default"
  <2>1. EditFeature(feature, edit) = [feature EXCEPT !.default = edit.default]
    BY <1>2 DEF EditFeature
  <2>2. QED
    BY <1>2, <2>1 DEF Field, EditedField
<1>3. CASE edit.kind \notin {"enabled", "default"}
  <2>1. EditedField(edit) = "rules"
    BY <1>3 DEF EditedField
  <2>2. PICK rules : EditFeature(feature, edit) = WithRules(feature, rules)
    BY <2>1, RulesEdited
  <2>3. QED
    BY <2>1, <2>2 DEF Field, WithRules, Spread
<1>4. QED
  BY <1>1, <1>2, <1>3

\* ... which is the one the edit carries, or the rules.
LEMMA FieldSet ==
  ASSUME NEW feature, ValidFeature(feature),
         NEW edit, edit.kind \in {"enabled", "default"},
         EditFeature(feature, edit) # Refused
  PROVE  Field(EditFeature(feature, edit), edit.kind) = edit[edit.kind]
<1>1. CASE edit.kind = "enabled"
  BY <1>1 DEF EditFeature, Field, ValidFeature
<1>2. CASE edit.kind = "default"
  <2>1. /\ feature.type # "boolean"
        /\ EditFeature(feature, edit) = [feature EXCEPT !.default = edit.default]
    BY <1>2 DEF EditFeature
  <2>2. "default" \in DOMAIN feature
    BY <2>1 DEF ValidFeature
  <2>3. QED
    BY <1>2, <2>1, <2>2 DEF Field
<1>3. QED
  BY <1>1, <1>2

\* It gets the same value wherever it was the same.
LEMMA SameFieldEdited ==
  ASSUME NEW b, NEW t, Holds(b), Holds(t), ValidFeature(b), ValidFeature(t),
         b.type = t.type,
         NEW edit, IsEdit(edit), edit.kind \notin {"create", "delete"},
         Field(b, EditedField(edit)) = Field(t, EditedField(edit)),
         EditFeature(b, edit) # Refused, EditFeature(t, edit) # Refused
  PROVE  Field(EditFeature(b, edit), EditedField(edit)) =
           Field(EditFeature(t, edit), EditedField(edit))
<1>1. CASE edit.kind \in {"enabled", "default"}
  <2>1. EditedField(edit) = edit.kind
    BY <1>1 DEF EditedField
  <2>2. QED
    BY <1>1, <2>1, FieldSet
<1>2. CASE edit.kind \notin {"enabled", "default"}
  <2>1. EditedField(edit) = "rules"
    BY <1>2 DEF EditedField
  <2>2. RulesOf(b) = RulesOf(t)
    BY <2>1 DEF RulesOf, Field, Holds
  <2>3. Attached(b, edit) = Attached(t, edit)
    BY DEF Attached
  <2>4. PICK rules : /\ EditFeature(b, edit) = WithRules(b, rules)
                     /\ EditFeature(t, edit) = WithRules(t, rules)
    BY <2>1, <2>2, <2>3, RulesEdited
  <2>5. QED
    BY <2>1, <2>4 DEF Field, WithRules, Spread
<1>3. QED
  BY <1>1, <1>2

LEMMA CreatedHolds ==
  ASSUME NEW edit, IsEdit(edit), edit.kind = "create", Sentinels
  PROVE  Holds(Created(edit)) /\ Created(edit) \notin {Undefined, Refused}
<1>1. edit.enabled \notin {Undefined, Refused}
  BY DEF IsEdit, FieldsOf
<1>2. CASE edit.type = "boolean"
  <2>1. Created(edit) = [type |-> "boolean", enabled |-> edit.enabled]
    BY <1>2 DEF Created
  <2>2. \A x : IsObject(x) => x \notin {Undefined, Refused}
    BY DEF Sentinels
  <2>3. IsObject(Created(edit))
    BY <2>1 DEF IsObject
  <2>4. "boolean" \notin {Undefined, Refused}
    BY DEF Sentinels, Words
  <2>5. QED
    BY <1>1, <2>1, <2>2, <2>3, <2>4 DEF Holds
<1>3. CASE edit.type = "config"
  <2>1. Created(edit) = [type |-> "config", enabled |-> edit.enabled,
                         default |-> edit.default]
    BY <1>3 DEF Created
  <2>2. \A x : IsObject(x) => x \notin {Undefined, Refused}
    BY DEF Sentinels
  <2>3. IsObject(Created(edit))
    BY <2>1 DEF IsObject
  <2>4. "config" \notin {Undefined, Refused}
    BY DEF Sentinels, Words
  <2>5. edit.default \notin {Undefined, Refused}
    BY <1>3 DEF IsEdit
  <2>6. QED
    BY <1>1, <2>1, <2>2, <2>3, <2>4, <2>5 DEF Holds
<1>4. QED
  BY <1>2, <1>3 DEF IsEdit

LEMMA EditedFeaturesHold ==
  ASSUME NEW snapshot, Parsed(snapshot), NEW edit, IsEdit(edit), Sentinels,
         EditFeatures(snapshot.features, edit) # Refused
  PROVE  LET edited == EditFeatures(snapshot.features, edit) IN
         Holds(edited) /\ \A key \in DOMAIN edited : Holds(edited[key])
<1> DEFINE features == snapshot.features
<1>1. /\ Holds(features)
      /\ \A key \in DOMAIN features : Holds(features[key]) /\ ValidFeature(features[key])
  BY DEF Parsed, Shaped, ValidSnapshot
<1> HIDE DEF features
<1>2. CASE edit.kind = "create"
  <2>1. EditFeatures(features, edit) =
          Spread(features, [k \in {edit.key} |-> Created(edit)])
    BY <1>2 DEF EditFeatures, features
  <2>2. Holds(Created(edit)) /\ Created(edit) \notin {Undefined, Refused}
    BY <1>2, CreatedHolds
  <2> DEFINE edited == Spread(features, [k \in {edit.key} |-> Created(edit)])
  <2>3. /\ IsObject(edited)
        /\ \A k \in DOMAIN edited :
             edited[k] = Created(edit) \/ (k \in DOMAIN features /\ edited[k] = features[k])
    BY DEF Spread, IsObject
  <2> HIDE DEF edited
  <2>4. Holds(edited) /\ \A k \in DOMAIN edited : Holds(edited[k])
    BY <1>1, <2>2, <2>3 DEF Holds
  <2>5. QED
    BY <2>1, <2>4 DEF edited, features
<1>3. CASE edit.kind = "delete"
  <2>1. EditFeatures(features, edit) =
          [k \in DOMAIN features \ {edit.key} |-> features[k]]
    BY <1>3 DEF EditFeatures, features
  <2> DEFINE left == [k \in DOMAIN features \ {edit.key} |-> features[k]]
  <2>2. /\ IsObject(left) /\ DOMAIN left \subseteq DOMAIN features
        /\ \A k \in DOMAIN left : left[k] = features[k]
    BY DEF IsObject
  <2> HIDE DEF left
  <2>3. Holds(left) /\ \A k \in DOMAIN left : Holds(left[k])
    BY <1>1, <2>2 DEF Holds
  <2>4. QED
    BY <2>1, <2>3 DEF left, features
<1>4. CASE edit.kind \notin {"create", "delete"}
  <2> DEFINE edited == EditFeature(features[edit.key], edit)
  <2>1. /\ edit.key \in DOMAIN features /\ edited # Refused
        /\ EditFeatures(features, edit) = [features EXCEPT ![edit.key] = edited]
    BY <1>4 DEF EditFeatures, features
  <2>2. Holds(edited)
    BY <1>1, <1>4, <2>1, EditedFeatureHolds
  <2>3. edited \notin {Undefined, Refused}
    BY <2>2 DEF Holds, Sentinels
  <2> HIDE DEF edited
  <2>4. QED
    BY <1>1, <2>1, <2>2, <2>3 DEF Holds, IsObject, features
<1>5. QED
  BY <1>2, <1>3, <1>4

\* An edit is refused, or leaves a snapshot that could be published.
LEMMA EditKeepsParsed ==
  ASSUME NEW snapshot, Parsed(snapshot), NEW edit, IsEdit(edit), Sentinels,
         ApplyFlagEdit(snapshot, edit) # Refused
  PROVE  Parsed(ApplyFlagEdit(snapshot, edit))
<1> DEFINE features == EditFeatures(snapshot.features, edit)
           schema == UpgradedSchema(snapshot.schema, edit)
<1>1. /\ features # Refused
      /\ ApplyFlagEdit(snapshot, edit) = [schema |-> schema, features |-> features]
      /\ ValidSnapshot([schema |-> schema, features |-> features])
  BY DEF ApplyFlagEdit
<1>2. schema \in {1, 2}
  BY DEF Parsed, Shaped, UpgradedSchema
<1>3. Holds(features) /\ \A key \in DOMAIN features : Holds(features[key])
  BY <1>1, EditedFeaturesHold
<1> HIDE DEF features, schema
<1>4. QED
  BY <1>1, <1>2, <1>3 DEF Parsed, Shaped

LEMMA AppliedFeatures ==
  ASSUME NEW snapshot, NEW edit, ApplyFlagEdit(snapshot, edit) # Refused
  PROVE  /\ EditFeatures(snapshot.features, edit) # Refused
         /\ ApplyFlagEdit(snapshot, edit).features = EditFeatures(snapshot.features, edit)
BY DEF ApplyFlagEdit

\* What an edit of one flag makes of the features.
LEMMA FlagEdited ==
  ASSUME NEW snapshot, NEW edit, edit.kind \notin {"create", "delete"},
         ApplyFlagEdit(snapshot, edit) # Refused
  PROVE  LET before == snapshot.features
             edited == EditFeature(before[edit.key], edit)
         IN /\ edit.key \in DOMAIN before /\ edited # Refused
            /\ ApplyFlagEdit(snapshot, edit).features =
                 [before EXCEPT ![edit.key] = edited]
BY AppliedFeatures DEF EditFeatures

\* So is a list of edits: all of it is staged, or none.
LEMMA StagingKeepsParsed ==
  ASSUME NEW snapshot, Parsed(snapshot), NEW edits, Len(edits) \in Nat, Sentinels,
         \A i \in 1..Len(edits) : IsEdit(edits[i]),
         StageAll(snapshot, edits) # Refused
  PROVE  Parsed(StageAll(snapshot, edits))
<1> DEFINE staged == Staged(snapshot, edits)
           G == {i \in 0..Len(edits) : staged[i] = Refused \/ Parsed(staged[i])}
<1>1. 0 \in G
  BY StagedFirst
<1>2. ASSUME NEW i \in 1..Len(edits), i - 1 \in G
      PROVE  i \in G
  <2>1. staged[i] = StagedStep(staged[i - 1], edits[i])
    BY StagedNext
  <2>2. QED
    BY <1>2, <2>1, EditKeepsParsed DEF StagedStep
<1>3. Len(edits) \in G
  <2> HIDE DEF G, staged
  <2>1. Len(edits) \in 0..Len(edits)
    OBVIOUS
  <2>2. QED
    BY <1>1, <1>2, <2>1, StepByStep
<1>4. QED
  BY <1>3 DEF StageAll

-----------------------------------------------------------------------------
(* The Save form. *)

\* A form that can be submitted for a flag.
IsForm(form) ==
  /\ {"enabled", "default", "rollout", "detach", "segment", "value"} \subseteq DOMAIN form
  /\ form.enabled \notin {Undefined, Refused}
  /\ form.default # Refused
  /\ IsArray(form.rollout)
  /\ \A i \in DOMAIN form.rollout :
       form.rollout[i] = Undefined \/
         DOMAIN form.rollout[i] = {"percentage", "bucketBy", "salt"}
  /\ IsFiniteSet(form.detach)

\* An edit that a form may stand for.
IsSaveEdit(edit, key, form) ==
  /\ IsEdit(edit) /\ edit.key = key /\ edit.kind \notin {"create", "delete"}
  /\ edit.kind = "enabled" => edit.enabled = form.enabled
  /\ edit.kind = "default" =>
       form.default # Undefined /\ edit.default = form.default

LEMMA Joined ==
  ASSUME NEW E, NEW a \in Seq(E), NEW b \in Seq(E)
  PROVE  /\ a \o b \in Seq(E) /\ Len(a \o b) = Len(a) + Len(b)
         /\ Len(a) \in Nat /\ Len(b) \in Nat
         /\ \A i \in 1..Len(a) : (a \o b)[i] = a[i]
         /\ \A i \in 1..Len(b) : (a \o b)[Len(a) + i] = b[i]
OBVIOUS

EnabledOf(key, form) == [kind |-> "enabled", key |-> key, enabled |-> form.enabled]
DefaultOf(key, form) == [kind |-> "default", key |-> key, default |-> form.default]
RolloutOf(key, form, i) ==
  IF form.rollout[i] = Undefined
  THEN [kind |-> "removeRollout", key |-> key, index |-> i]
  ELSE Spread(form.rollout[i], [kind |-> "setRollout", key |-> key, index |-> i])
DetachOf(key, form, m) ==
  [kind |-> "detachSegment", key |-> key, index |-> LastToFirst(form.detach)[m]]
AttachOf(key, form) ==
  [kind |-> "attachSegment", key |-> key, segment |-> form.segment,
   attribute |-> Listed[form.segment], value |-> form.value]

\* How many edits come before those of the rollouts.
Ahead(form) == IF form.default = Undefined THEN 1 ELSE 2

\* Where each edit stands: enabled, the default, a rollout for every rule, the
\* detached rules, the attached segment.
LEMMA SaveList ==
  ASSUME NEW key, NEW form, IsForm(form)
  PROVE  LET edits == ParseSave(key, form)
             p == Ahead(form)
             n == Len(form.rollout)
             c == Cardinality(form.detach)
         IN /\ n \in Nat /\ c \in Nat
            /\ Len(edits) = p + n + c + (IF form.segment = Blank THEN 0 ELSE 1)
            /\ edits[1] = EnabledOf(key, form)
            /\ p = 2 => edits[2] = DefaultOf(key, form)
            /\ \A i \in 1..n : edits[p + i] = RolloutOf(key, form, i)
            /\ \A m \in 1..c : edits[p + n + m] = DetachOf(key, form, m)
            /\ form.segment # Blank => edits[p + n + c + 1] = AttachOf(key, form)
<1> DEFINE n == Len(form.rollout)
           c == Cardinality(form.detach)
           first == << EnabledOf(key, form) >>
           second == IF form.default = Undefined THEN <<>> ELSE << DefaultOf(key, form) >>
           third == [i \in 1..n |-> RolloutOf(key, form, i)]
           fourth == [m \in 1..c |-> DetachOf(key, form, m)]
           fifth == IF form.segment = Blank THEN <<>> ELSE << AttachOf(key, form) >>
           E == {EnabledOf(key, form), DefaultOf(key, form), AttachOf(key, form)}
                  \union {RolloutOf(key, form, i) : i \in 1..n}
                  \union {DetachOf(key, form, m) : m \in 1..c}
<1>1. n \in Nat /\ DOMAIN form.rollout = 1..n
  BY DEF IsForm, IsArray
<1>2. c \in Nat
  BY FS_CardinalityType DEF IsForm
<1>3. ParseSave(key, form) = first \o second \o third \o fourth \o fifth
  <2>1. DOMAIN LastToFirst(form.detach) = 1..c
    BY DEF LastToFirst
  <2>2. QED
    BY <2>1 DEF ParseSave, EnabledOf, DefaultOf, RolloutOf, DetachOf, AttachOf
<1>4. first \in Seq(E) /\ Len(first) = 1 /\ first[1] = EnabledOf(key, form)
  OBVIOUS
<1>5. /\ second \in Seq(E) /\ Len(second) = Ahead(form) - 1
      /\ Ahead(form) \in {1, 2}
      /\ Ahead(form) = 2 => second[1] = DefaultOf(key, form)
  <2>1. CASE form.default = Undefined
    BY <2>1 DEF Ahead
  <2>2. CASE form.default # Undefined
    <3>1. second = << DefaultOf(key, form) >> /\ Ahead(form) = 2
      BY <2>2 DEF Ahead
    <3>2. DefaultOf(key, form) \in E
      OBVIOUS
    <3> HIDE DEF second, E
    <3>3. QED
      BY <3>1, <3>2
  <2>3. QED
    BY <2>1, <2>2
<1>6. /\ third \in Seq(E) /\ Len(third) = n
      /\ \A i \in 1..n : third[i] = RolloutOf(key, form, i)
  BY <1>1
<1>7. /\ fourth \in Seq(E) /\ Len(fourth) = c
      /\ \A m \in 1..c : fourth[m] = DetachOf(key, form, m)
  BY <1>2
<1>8. /\ fifth \in Seq(E) /\ Len(fifth) = (IF form.segment = Blank THEN 0 ELSE 1)
      /\ form.segment # Blank => fifth[1] = AttachOf(key, form)
  OBVIOUS
<1> HIDE DEF first, second, third, fourth, fifth, E, n, c
<1> DEFINE two == first \o second
           three == two \o third
           four == three \o fourth
           five == four \o fifth
<1>9. /\ two \in Seq(E) /\ Len(two) = Ahead(form)
      /\ two[1] = EnabledOf(key, form)
      /\ Ahead(form) = 2 => two[2] = DefaultOf(key, form)
  <2>1. /\ two \in Seq(E) /\ Len(two) = 1 + Len(second)
        /\ \A i \in 1..1 : two[i] = first[i]
        /\ \A i \in 1..Len(second) : two[1 + i] = second[i]
    <3>1. first \in Seq(E) /\ second \in Seq(E)
      BY <1>4, <1>5
    <3>2. QED
      BY <1>4, <3>1, Joined
  <2> HIDE DEF two
  <2>2. QED
    BY <1>4, <1>5, <2>1
<1> HIDE DEF two
<1>10. /\ three \in Seq(E) /\ Len(three) = Ahead(form) + n
       /\ \A i \in 1..Ahead(form) : three[i] = two[i]
       /\ \A i \in 1..n : three[Ahead(form) + i] = RolloutOf(key, form, i)
  <2>1. /\ three \in Seq(E) /\ Len(three) = Len(two) + Len(third)
        /\ \A i \in 1..Len(two) : three[i] = two[i]
        /\ \A i \in 1..Len(third) : three[Len(two) + i] = third[i]
    <3>1. two \in Seq(E) /\ third \in Seq(E)
      BY <1>6, <1>9
    <3>2. QED
      BY <3>1, Joined
  <2> HIDE DEF three
  <2>2. QED
    BY <1>6, <1>9, <2>1
<1> HIDE DEF three
<1>11. /\ four \in Seq(E) /\ Len(four) = Ahead(form) + n + c
       /\ \A i \in 1..Ahead(form) + n : four[i] = three[i]
       /\ \A m \in 1..c : four[Ahead(form) + n + m] = DetachOf(key, form, m)
  <2>1. /\ four \in Seq(E) /\ Len(four) = Len(three) + Len(fourth)
        /\ \A i \in 1..Len(three) : four[i] = three[i]
        /\ \A i \in 1..Len(fourth) : four[Len(three) + i] = fourth[i]
    <3>1. three \in Seq(E) /\ fourth \in Seq(E)
      BY <1>7, <1>10
    <3>2. QED
      BY <3>1, Joined
  <2> HIDE DEF four
  <2>2. QED
    BY <1>7, <1>10, <2>1
<1> HIDE DEF four
<1>12. /\ Len(five) = Ahead(form) + n + c + (IF form.segment = Blank THEN 0 ELSE 1)
       /\ \A i \in 1..Ahead(form) + n + c : five[i] = four[i]
       /\ form.segment # Blank => five[Ahead(form) + n + c + 1] = AttachOf(key, form)
  <2>1. /\ five \in Seq(E) /\ Len(five) = Len(four) + Len(fifth)
        /\ \A i \in 1..Len(four) : five[i] = four[i]
        /\ \A i \in 1..Len(fifth) : five[Len(four) + i] = fifth[i]
    <3>1. four \in Seq(E) /\ fifth \in Seq(E)
      BY <1>8, <1>11
    <3>2. QED
      BY <3>1, Joined
  <2> HIDE DEF five
  <2>2. QED
    BY <1>8, <1>11, <2>1
<1>13. ParseSave(key, form) = five
  BY <1>3 DEF two, three, four
<1> HIDE DEF five
<1>14. \A i \in 1..Ahead(form) : five[i] = two[i]
  <2>1. n \in Nat /\ c \in Nat
    BY <1>1, <1>2
  <2>2. \A i \in 1..Ahead(form) : /\ i \in 1..Ahead(form) + n
                                  /\ i \in 1..Ahead(form) + n + c
    BY <1>5, <2>1
  <2>3. QED
    BY <1>10, <1>11, <1>12, <2>2
<1>15. five[1] = EnabledOf(key, form) /\ (Ahead(form) = 2 => five[2] = DefaultOf(key, form))
  BY <1>5, <1>9, <1>14
<1>16. \A i \in 1..n : five[Ahead(form) + i] = RolloutOf(key, form, i)
  <2>1. \A i \in 1..n : /\ Ahead(form) + i \in 1..Ahead(form) + n
                        /\ Ahead(form) + i \in 1..Ahead(form) + n + c
    BY <1>1, <1>2, <1>5 DEF n, c
  <2>2. QED
    BY <1>10, <1>11, <1>12, <2>1
<1>17. \A m \in 1..c : five[Ahead(form) + n + m] = DetachOf(key, form, m)
  <2>1. \A m \in 1..c : Ahead(form) + n + m \in 1..Ahead(form) + n + c
    BY <1>1, <1>2, <1>5 DEF n, c
  <2>2. QED
    BY <1>11, <1>12, <2>1
<1>18. QED
  BY <1>1, <1>2, <1>12, <1>13, <1>15, <1>16, <1>17 DEF n, c

\* What a form stands for is a list of edits: enabled, then the default, which
\* no later one of the list sets to something else.
LEMMA SaveIsEdits ==
  ASSUME NEW key, NEW form, IsForm(form)
  PROVE  LET edits == ParseSave(key, form) IN
         /\ Len(edits) \in Nat
         /\ \A i \in 1..Len(edits) : IsSaveEdit(edits[i], key, form)
         /\ Len(edits) > 0 /\ edits[1].kind = "enabled"
         /\ form.default # Undefined => Len(edits) > 1 /\ edits[2].kind = "default"
<1> DEFINE edits == ParseSave(key, form)
           p == Ahead(form)
           n == Len(form.rollout)
           c == Cardinality(form.detach)
<1>1. /\ n \in Nat /\ c \in Nat
      /\ Len(edits) = p + n + c + (IF form.segment = Blank THEN 0 ELSE 1)
      /\ edits[1] = EnabledOf(key, form)
      /\ p = 2 => edits[2] = DefaultOf(key, form)
      /\ \A i \in 1..n : edits[p + i] = RolloutOf(key, form, i)
      /\ \A m \in 1..c : edits[p + n + m] = DetachOf(key, form, m)
      /\ form.segment # Blank => edits[p + n + c + 1] = AttachOf(key, form)
  BY SaveList
<1>2. /\ p \in {1, 2} /\ (p = 1 <=> form.default = Undefined)
      /\ DOMAIN form.rollout = 1..n
  BY DEF Ahead, IsForm, IsArray
<1> HIDE DEF edits, p, n, c
<1>3. IsSaveEdit(EnabledOf(key, form), key, form)
  BY DEF IsForm, EnabledOf, IsSaveEdit, IsEdit, FieldsOf
<1>4. form.default # Undefined => IsSaveEdit(DefaultOf(key, form), key, form)
  BY DEF IsForm, DefaultOf, IsSaveEdit, IsEdit, FieldsOf
<1>5. ASSUME NEW i \in 1..n
      PROVE  IsSaveEdit(RolloutOf(key, form, i), key, form)
  <2>1. CASE form.rollout[i] = Undefined
    BY <2>1 DEF RolloutOf, IsSaveEdit, IsEdit, FieldsOf
  <2>2. CASE form.rollout[i] # Undefined
    <3>1. DOMAIN form.rollout[i] = {"percentage", "bucketBy", "salt"}
      BY <1>2, <2>2 DEF IsForm
    <3>2. /\ DOMAIN RolloutOf(key, form, i) =
               {"kind", "key", "index", "percentage", "bucketBy", "salt"}
          /\ RolloutOf(key, form, i).kind = "setRollout"
          /\ RolloutOf(key, form, i).key = key
      BY <2>2, <3>1 DEF RolloutOf, Spread
    <3>3. QED
      BY <3>2 DEF IsSaveEdit, IsEdit, FieldsOf
  <2>3. QED
    BY <2>1, <2>2
<1>6. ASSUME NEW m
      PROVE  IsSaveEdit(DetachOf(key, form, m), key, form)
  BY DEF DetachOf, IsSaveEdit, IsEdit, FieldsOf
<1>7. IsSaveEdit(AttachOf(key, form), key, form)
  BY DEF AttachOf, IsSaveEdit, IsEdit, FieldsOf
<1>8. ASSUME NEW i \in 1..Len(edits)
      PROVE  IsSaveEdit(edits[i], key, form)
  <2>1. CASE i = 1
    BY <1>1, <1>3, <2>1
  <2>2. CASE i = 2 /\ p = 2
    BY <1>1, <1>2, <1>4, <2>2
  <2>3. CASE i \in p + 1..p + n
    <3>1. PICK j \in 1..n : i = p + j
      <4>1. i - p \in 1..n /\ i = p + (i - p)
        BY <1>1, <1>2, <2>3
      <4>2. QED
        BY <4>1
    <3>2. QED
      BY <1>1, <1>5, <3>1
  <2>4. CASE i \in p + n + 1..p + n + c
    <3>1. PICK m \in 1..c : i = p + n + m
      <4>1. i - (p + n) \in 1..c /\ i = p + n + (i - (p + n))
        BY <1>1, <1>2, <2>4
      <4>2. QED
        BY <4>1
    <3>2. QED
      BY <1>1, <1>6, <3>1
  <2>5. CASE i = p + n + c + 1 /\ form.segment # Blank
    BY <1>1, <1>7, <2>5
  <2>6. \/ i = 1 \/ (i = 2 /\ p = 2) \/ i \in p + 1..p + n
        \/ i \in p + n + 1..p + n + c
        \/ (i = p + n + c + 1 /\ form.segment # Blank)
    BY <1>1, <1>2
  <2>7. QED
    BY <2>1, <2>2, <2>3, <2>4, <2>5, <2>6
<1>9. Len(edits) \in Nat /\ Len(edits) > 0 /\ (p = 2 => Len(edits) > 1)
  BY <1>1, <1>2
<1>10. edits[1].kind = "enabled" /\ (p = 2 => edits[2].kind = "default")
  BY <1>1 DEF EnabledOf, DefaultOf
<1>11. QED
  BY <1>2, <1>8, <1>9, <1>10 DEF edits

LEMMA SaveKeepsParsed ==
  ASSUME NEW draft, Parsed(draft), NEW key, NEW form, IsForm(form), Sentinels,
         Save(draft, key, form) # Refused
  PROVE  Parsed(Save(draft, key, form))
BY SaveIsEdits, StagingKeepsParsed DEF Save, IsSaveEdit

\* What the first n edits of a form make of a draft: they change one flag, set
\* enabled first and then the default, and leave them so.
SavedSoFar(saved, draft, key, form, n) ==
  /\ Parsed(saved)
  /\ DOMAIN saved.features = DOMAIN draft.features
  /\ \A k \in DOMAIN draft.features \ {key} : saved.features[k] = draft.features[k]
  /\ n > 0 => /\ key \in DOMAIN draft.features
              /\ Field(saved.features[key], "enabled") = form.enabled
  /\ IF form.default = Undefined
     THEN Field(saved.features[key], "default") = Field(draft.features[key], "default")
     ELSE n > 1 => Field(saved.features[key], "default") = form.default

LEMMA SaveStep ==
  ASSUME NEW draft, NEW key, NEW form, NEW n \in Nat, NEW saved, NEW edit, Sentinels,
         SavedSoFar(saved, draft, key, form, n), IsSaveEdit(edit, key, form),
         n = 0 => edit.kind = "enabled",
         n = 1 /\ form.default # Undefined => edit.kind = "default",
         ApplyFlagEdit(saved, edit) # Refused
  PROVE  SavedSoFar(ApplyFlagEdit(saved, edit), draft, key, form, n + 1)
<1> DEFINE after == ApplyFlagEdit(saved, edit)
           was == saved.features[key]
           is  == EditFeature(was, edit)
<1>1. IsEdit(edit) /\ edit.key = key /\ edit.kind \notin {"create", "delete"}
  BY DEF IsSaveEdit
<1>2. Parsed(after)
  BY <1>1, EditKeepsParsed DEF SavedSoFar
<1>3. /\ key \in DOMAIN saved.features /\ is # Refused
      /\ after.features = [saved.features EXCEPT ![key] = is]
  BY <1>1, FlagEdited
<1>4. ValidFeature(was)
  BY <1>3 DEF SavedSoFar, Parsed, ValidSnapshot
<1>5. \A f : f # EditedField(edit) => Field(is, f) = Field(was, f)
  BY <1>1, <1>3, <1>4, OtherFieldsKept
<1>6. edit.kind \in {"enabled", "default"} => Field(is, edit.kind) = edit[edit.kind]
  BY <1>3, <1>4, FieldSet
<1> HIDE DEF after, is
<1>7. DOMAIN after.features = DOMAIN draft.features /\ key \in DOMAIN draft.features
  BY <1>3 DEF SavedSoFar
<1>8. after.features[key] = is
  BY <1>3
<1>9. ASSUME NEW k \in DOMAIN draft.features \ {key}
      PROVE  after.features[k] = draft.features[k]
  BY <1>3, <1>7 DEF SavedSoFar
<1>10. Field(is, "enabled") = form.enabled
  <2>1. CASE edit.kind = "enabled"
    BY <1>6, <2>1 DEF IsSaveEdit
  <2>2. CASE edit.kind # "enabled"
    BY <1>5, <2>2 DEF EditedField, SavedSoFar
  <2>3. QED
    BY <2>1, <2>2
<1>11. CASE form.default = Undefined
  <2>1. edit.kind # "default"
    BY <1>11 DEF IsSaveEdit
  <2>2. Field(is, "default") = Field(was, "default")
    BY <1>5, <2>1 DEF EditedField
  <2>3. QED
    BY <1>2, <1>7, <1>8, <1>9, <1>10, <1>11, <2>2 DEF SavedSoFar, after
<1>12. CASE form.default # Undefined
  <2>1. ASSUME n > 0
        PROVE  Field(is, "default") = form.default
    <3>1. CASE edit.kind = "default"
      BY <1>6, <3>1 DEF IsSaveEdit
    <3>2. CASE edit.kind # "default"
      BY <1>5, <1>12, <2>1, <3>2 DEF EditedField, SavedSoFar
    <3>3. QED
      BY <3>1, <3>2
  <2>2. QED
    BY <1>2, <1>7, <1>8, <1>9, <1>10, <1>12, <2>1 DEF SavedSoFar, after
<1>13. QED
  BY <1>11, <1>12

\* A Save changes the flag of its form, to what the form says.
LEMMA SaveSets ==
  ASSUME NEW draft, Parsed(draft), NEW key, NEW form, IsForm(form), Sentinels,
         Save(draft, key, form) # Refused
  PROVE  SavedSoFar(Save(draft, key, form), draft, key, form, 2)
<1> DEFINE edits == ParseSave(key, form)
           staged == Staged(draft, edits)
           G == {i \in 0..Len(edits) : staged[i] = Refused \/
                   SavedSoFar(staged[i], draft, key, form, i)}
<1>1. /\ Len(edits) \in Nat /\ Len(edits) > 0 /\ edits[1].kind = "enabled"
      /\ form.default # Undefined => Len(edits) > 1 /\ edits[2].kind = "default"
  BY SaveIsEdits
<1>2. \A i \in 1..Len(edits) : IsSaveEdit(edits[i], key, form)
  BY SaveIsEdits
<1> HIDE DEF edits
<1>3. 0 \in G
  <2>1. staged[0] = draft
    BY <1>1, StagedFirst
  <2>2. form.default # Undefined \/ Field(draft.features[key], "default") =
          Field(draft.features[key], "default")
    OBVIOUS
  <2> HIDE DEF staged
  <2>3. QED
    BY <1>1, <2>1 DEF SavedSoFar
<1>4. ASSUME NEW i \in 1..Len(edits), i - 1 \in G
      PROVE  i \in G
  <2>1. staged[i] = StagedStep(staged[i - 1], edits[i])
    BY <1>1, StagedNext
  <2> HIDE DEF staged
  <2>2. CASE staged[i] = Refused
    BY <2>2
  <2>3. CASE staged[i] # Refused
    <3>1. /\ staged[i - 1] # Refused
          /\ staged[i] = ApplyFlagEdit(staged[i - 1], edits[i])
      BY <2>1, <2>3 DEF StagedStep
    <3>2. SavedSoFar(staged[i - 1], draft, key, form, i - 1)
      BY <1>4, <3>1
    <3>3. i - 1 \in Nat /\ (i - 1) + 1 = i
      BY <1>1
    <3>4. i - 1 = 0 => edits[i].kind = "enabled"
      BY <1>1
    <3>5. i - 1 = 1 /\ form.default # Undefined => edits[i].kind = "default"
      BY <1>1
    <3>6. SavedSoFar(ApplyFlagEdit(staged[i - 1], edits[i]), draft, key, form, (i - 1) + 1)
      BY <1>2, <2>3, <3>1, <3>2, <3>3, <3>4, <3>5, SaveStep
    <3>7. QED
      BY <3>1, <3>3, <3>6
  <2>4. QED
    BY <2>2, <2>3
<1>5. Len(edits) \in G
  <2> HIDE DEF G
  <2>1. Len(edits) \in 0..Len(edits)
    BY <1>1
  <2>2. QED
    BY <1>1, <1>3, <1>4, <2>1, StepByStep
<1>6. Save(draft, key, form) = staged[Len(edits)]
  BY DEF Save, StageAll, edits
<1> HIDE DEF staged
<1>7. SavedSoFar(Save(draft, key, form), draft, key, form, Len(edits))
  BY <1>5, <1>6
<1>8. QED
  BY <1>1, <1>7 DEF SavedSoFar

\* The page renders a form that can be submitted.
LEMMA RenderedIsForm ==
  ASSUME NEW feature, Holds(feature), ValidFeature(feature), Sentinels
  PROVE  IsForm(RenderedForm(feature))
<1> DEFINE rules == RulesOf(feature)
<1>1. "enabled" \in DOMAIN feature
  BY DEF ValidFeature
<1>2. feature.enabled \notin {Undefined, Refused} /\ Field(feature, "default") # Refused
  BY <1>1 DEF Holds, Field, Sentinels
<1>3. rules \in Seq(Range(rules))
  BY DEF ValidFeature, IsArray
<1>4. ASSUME NEW i \in DOMAIN rules, Field(rules[i], "rollout") # Undefined
      PROVE  DOMAIN Field(rules[i], "rollout") = {"percentage", "bucketBy", "salt"}
  BY <1>4 DEF ValidFeature, ValidRule, ValidRollout, Field
<1> HIDE DEF rules
<1> DEFINE rollout == [i \in DOMAIN rules |-> Field(rules[i], "rollout")]
<1>5. rollout \in Seq(Range(rollout))
  BY <1>3 DEF Range
<1>6. QED
  BY <1>2, <1>4, <1>5, FS_EmptySet DEF IsForm, IsArray, RenderedForm, rules

-----------------------------------------------------------------------------
(* The rules that a form takes out, from the last to the first. *)

\* How far from the end an element is: 1 for the greatest one.
RankIn(S, s) == Cardinality({j \in S : j >= s})

LEMMA RankType ==
  ASSUME NEW S, IsFiniteSet(S), NEW s \in S, s >= s
  PROVE  RankIn(S, s) \in 1..Cardinality(S)
<1> DEFINE above == {j \in S : j >= s}
<1>1. above \in SUBSET S /\ {s} \in SUBSET above
  OBVIOUS
<1> HIDE DEF above
<1>2. /\ IsFiniteSet(above) /\ Cardinality(above) <= Cardinality(S)
      /\ Cardinality(above) \in Nat /\ Cardinality(S) \in Nat
  BY <1>1, FS_Subset, FS_CardinalityType
<1>3. Cardinality({s}) <= Cardinality(above) /\ Cardinality({s}) = 1
  BY <1>1, <1>2, FS_Subset, FS_Singleton
<1>4. QED
  BY <1>2, <1>3 DEF RankIn, above

LEMMA RankFalls ==
  ASSUME NEW S, IsFiniteSet(S), S \subseteq Nat, NEW s \in S, NEW t \in S, s < t
  PROVE  RankIn(S, t) < RankIn(S, s)
<1> DEFINE higher == {j \in S : j >= t}
           above == {j \in S : j >= s}
<1>0. /\ \A j \in S : j >= t => j >= s /\ j # s
      /\ s >= s
  <2>1. \A j \in S : j \in Int
    OBVIOUS
  <2>2. QED
    BY <2>1
<1>1. higher \in SUBSET (above \ {s}) /\ above \in SUBSET S /\ s \in above
  BY <1>0
<1> HIDE DEF higher, above
<1>2. IsFiniteSet(above) /\ Cardinality(above) \in Nat
  BY <1>1, FS_Subset, FS_CardinalityType
<1>3. /\ IsFiniteSet(above \ {s})
      /\ Cardinality(above \ {s}) = Cardinality(above) - 1
  BY <1>1, <1>2, FS_RemoveElement
<1>4. /\ Cardinality(higher) <= Cardinality(above \ {s})
      /\ Cardinality(higher) \in Nat
  BY <1>1, <1>3, FS_Subset, FS_CardinalityType
<1>5. QED
  BY <1>2, <1>3, <1>4 DEF RankIn, higher, above

\* Every rank is taken: the least element has the last one, and the next greater
\* element of each the rank before.
LEMMA RanksTaken ==
  ASSUME NEW S, IsFiniteSet(S), S \subseteq Nat, NEW n \in 1..Cardinality(S)
  PROVE  \E s \in S : RankIn(S, s) = n
<1> DEFINE c == Cardinality(S)
           G == {k \in 0..c - 1 : \E s \in S : RankIn(S, s) = c - k}
<1>0. \A j \in S : j \in Int
  OBVIOUS
<1>1. c \in Nat /\ c > 0 /\ S # {}
  BY FS_CardinalityType, FS_EmptySet
<1>2. 0 \in G
  <2>1. PICK s \in S : \A j \in S : ~(j < s)
    BY <1>1, Least
  <2>6. \A j \in S : j >= s
    BY <1>0, <2>1
  <2>2. {j \in S : j >= s} = S
    BY <2>6
  <2>3. RankIn(S, s) = c
    BY <2>2 DEF RankIn
  <2> HIDE DEF c
  <2>4. c - 0 = c /\ 0 \in 0..c - 1
    BY <1>1
  <2>5. QED
    BY <2>3, <2>4
<1>3. ASSUME NEW k \in 1..c - 1, k - 1 \in G
      PROVE  k \in G
  <2>1. PICK s \in S : RankIn(S, s) = c - (k - 1)
    BY <1>3
  <2> DEFINE above == {j \in S : j >= s}
             higher == {j \in S : s < j}
  <2>2. above \in SUBSET S /\ s \in above /\ higher = above \ {s}
    <3>1. \A j \in S : s < j <=> j >= s /\ j # s
      BY <1>0
    <3>2. s >= s
      BY <1>0
    <3>3. QED
      BY <3>1, <3>2
  <2>3. IsFiniteSet(above)
    BY <2>2, FS_Subset
  <2>4. Cardinality(above) = c - (k - 1)
    BY <2>1 DEF RankIn
  <2> HIDE DEF above, c, higher
  <2>5. Cardinality(higher) = Cardinality(above) - 1 /\ IsFiniteSet(higher)
    BY <2>2, <2>3, FS_RemoveElement
  <2>11. Cardinality(higher) = c - k /\ c - k > 0
    BY <1>1, <1>3, <2>4, <2>5
  <2>6. higher # {}
    BY <2>5, <2>11, FS_EmptySet
  <2>7. PICK t \in higher : \A j \in higher : ~(j < t)
    <3>1. higher \subseteq Nat
      BY DEF higher
    <3>2. QED
      BY <2>6, <3>1, Least
  <2>8. {j \in S : j >= t} = higher
    <3>1. t \in S /\ s < t /\ \A j \in S : s < j => ~(j < t)
      BY <2>7 DEF higher
    <3>2. \A j \in S : j >= t <=> s < j
      BY <1>0, <3>1
    <3>3. QED
      BY <3>2 DEF higher
  <2>9. RankIn(S, t) = c - k
    BY <2>8, <2>11 DEF RankIn
  <2>10. QED
    BY <1>1, <1>3, <2>7, <2>9 DEF c, higher
<1> DEFINE d == c - 1
<1>4. d \in Nat /\ c - n \in 0..d /\ c - (c - n) = n
  BY <1>1
<1> HIDE DEF G, c
<1>5. \A k \in 1..d : k - 1 \in G => k \in G
  BY <1>3
<1> HIDE DEF d
<1>6. \A k \in 0..d : k \in G
  BY <1>2, <1>4, <1>5, StepByStep
<1>7. c - n \in G
  BY <1>4, <1>6
<1>8. QED
  BY <1>4, <1>7 DEF G

\* The elements with the first m ranks are gone after m steps.
Gone(S, m) == {s \in S : RankIn(S, s) <= m}

LEMMA LastToFirstRanks ==
  ASSUME NEW S, IsFiniteSet(S), S \subseteq Nat, NEW n \in 1..Cardinality(S)
  PROVE  LastToFirst(S)[n] \in S /\ RankIn(S, LastToFirst(S)[n]) = n
<1>1. LastToFirst(S)[n] = CHOOSE i \in S : RankIn(S, i) = n
  BY DEF LastToFirst, RankIn
<1>2. QED
  BY <1>1, RanksTaken

LEMMA GoneFirst ==
  ASSUME NEW S, IsFiniteSet(S), S \subseteq Nat, NEW m \in Int
  PROVE  /\ m <= 0 => Gone(S, m) = {}
         /\ m = Cardinality(S) => Gone(S, m) = S
<1>1. \A s \in S : s >= s
  OBVIOUS
<1>2. \A s \in S : /\ RankIn(S, s) \in Int /\ 1 <= RankIn(S, s)
                   /\ RankIn(S, s) <= Cardinality(S)
  BY <1>1, RankType
<1>3. Cardinality(S) \in Nat
  BY FS_CardinalityType
<1>4. ASSUME NEW s \in S
      PROVE  /\ m <= 0 => ~(RankIn(S, s) <= m)
             /\ m = Cardinality(S) => RankIn(S, s) <= m
  BY <1>2, <1>3
<1>5. QED
  BY <1>4 DEF Gone

LEMMA SizeBetween ==
  ASSUME NEW a \in Int, NEW b \in Int, a < b
  PROVE  /\ IsFiniteSet(a + 1..b - 1)
         /\ Cardinality(a + 1..b - 1) = b - 1 - a
<1> DEFINE low == a + 1
           high == b - 1
<1>1. low \in Int /\ high \in Int /\ high - low + 1 = b - 1 - a
  OBVIOUS
<1>2. low > high => b - 1 - a = 0
  OBVIOUS
<1> HIDE DEF low, high
<1>3. /\ IsFiniteSet(low..high)
      /\ Cardinality(low..high) = IF low > high THEN 0 ELSE high - low + 1
  BY <1>1, FS_Interval
<1>4. Cardinality(low..high) = b - 1 - a
  BY <1>1, <1>2, <1>3
<1>5. QED
  BY <1>3, <1>4 DEF low, high

\* Nothing in front of the next one to take out has been taken out yet.
LEMMA NextGoneInPlace ==
  ASSUME NEW n \in Nat, NEW S, IsFiniteSet(S), S \subseteq 1..n,
         NEW m \in 1..Cardinality(S)
  PROVE  PlaceWithout(Gone(S, m - 1), LastToFirst(S)[m]) = LastToFirst(S)[m]
<1> DEFINE d == LastToFirst(S)[m]
           before == Gone(S, m - 1)
<1>1. S \subseteq Nat /\ \A s \in S : s \in Int
  OBVIOUS
<1>2. d \in S /\ RankIn(S, d) = m
  BY <1>1, LastToFirstRanks
<1>3. \A s \in S : RankIn(S, s) \in Int
  BY <1>1, RankType
<1>4. \A s \in S : s < d => RankIn(S, s) > m
  BY <1>1, <1>2, <1>3, RankFalls
<1> HIDE DEF d
<1>5. \A s \in S : s < d => ~(RankIn(S, s) <= m - 1)
  <2>1. m \in Int
    BY FS_CardinalityType
  <2>2. QED
    BY <1>3, <1>4, <2>1
<1>6. {e \in before : e < d} = {}
  BY <1>5 DEF Gone
<1>7. PlaceWithout(before, d) = d - 0
  BY <1>6, FS_EmptySet DEF PlaceWithout
<1>8. d - 0 = d
  BY <1>1, <1>2
<1>9. QED
  BY <1>7, <1>8 DEF d

\* Taking out the next one leaves everything before it in place, and moves
\* what stands behind it by one.
LEMMA NextGone ==
  ASSUME NEW n \in Nat, NEW S, IsFiniteSet(S), S \subseteq 1..n,
         NEW m \in 1..Cardinality(S)
  PROVE  LET d == LastToFirst(S)[m]
             before == Gone(S, m - 1)
             after == Gone(S, m)
         IN /\ d \in (1..n) \ before /\ after = before \union {d}
            /\ \A i \in (1..n) \ after :
                 LET p == PlaceWithout(before, i) IN
                 /\ p \in Int /\ p # d
                 /\ PlaceWithout(after, i) = IF p < d THEN p ELSE p - 1
<1> DEFINE d == LastToFirst(S)[m]
           before == Gone(S, m - 1)
           after == Gone(S, m)
<1>1. S \subseteq Nat /\ \A s \in S : s >= s /\ s \in Int
  OBVIOUS
<1>2. d \in S /\ RankIn(S, d) = m
  BY <1>1, LastToFirstRanks
<1>3. \A s \in S : RankIn(S, s) \in Int
  BY <1>1, RankType
<1>4. \A s \in S : (s < d => RankIn(S, s) > m) /\ (s > d => RankIn(S, s) < m)
  BY <1>1, <1>2, <1>3, RankFalls
<1> HIDE DEF d
<1>5. before = {s \in S : s > d} /\ after = {s \in S : s >= d}
  <2>1. m \in Int
    BY FS_CardinalityType
  <2>2. \A s \in S : (RankIn(S, s) <= m - 1 <=> s > d) /\ (RankIn(S, s) <= m <=> s >= d)
    BY <1>1, <1>2, <1>3, <1>4, <2>1
  <2>3. QED
    BY <2>2 DEF Gone
<1> HIDE DEF before, after
<1>11. d \in 1..n /\ d \in Int /\ \A i \in 1..n : i \in Int
  BY <1>2
<1>6. d \in (1..n) \ before /\ after = before \union {d}
  <2>1. d >= d /\ ~(d > d) /\ \A s \in S : s >= d <=> s > d \/ s = d
    BY <1>1, <1>11
  <2>2. QED
    BY <1>2, <1>5, <1>11, <2>1
<1>7. \A i \in 1..n : i <= d => {e \in before : e < i} = {}
  <2>1. \A i \in 1..n, s \in S : i <= d /\ s > d => ~(s < i)
    BY <1>1, <1>11
  <2>2. QED
    BY <1>5, <2>1
<1>8. \A i \in 1..n : i <= d => PlaceWithout(before, i) = i
  BY <1>7, FS_EmptySet DEF PlaceWithout
<1>9. ASSUME NEW i \in (1..n) \ after
      PROVE  /\ PlaceWithout(before, i) \in Int /\ PlaceWithout(before, i) # d
             /\ PlaceWithout(after, i) =
                  IF PlaceWithout(before, i) < d THEN PlaceWithout(before, i)
                  ELSE PlaceWithout(before, i) - 1
  <2>1. CASE i < d
    <3>3. \A s \in S : s >= d => ~(s < i)
      BY <1>1, <1>11, <2>1
    <3>1. {e \in after : e < i} = {}
      BY <1>5, <3>3
    <3>2. PlaceWithout(after, i) = i
      BY <3>1, FS_EmptySet DEF PlaceWithout
    <3>4. QED
      BY <1>8, <1>11, <2>1, <3>2
  <2>2. CASE i > d
    <3> DEFINE low == {e \in before : e < i}
    <3>1. {e \in after : e < i} = low \union {d} /\ d \notin low
      <4>1. d < i /\ ~(d > d) /\ \A s \in S : s >= d <=> s > d \/ s = d
        BY <1>1, <1>11, <2>2
      <4>2. low = {e \in S : e > d /\ e < i}
        BY <1>5
      <4>3. {e \in after : e < i} = {e \in S : e >= d /\ e < i}
        BY <1>5
      <4> HIDE DEF low
      <4>4. \A e : e \in {x \in after : x < i} <=> e \in low \/ e = d
        BY <1>2, <4>1, <4>2, <4>3
      <4>5. d \notin low
        BY <4>1, <4>2
      <4>6. QED
        BY <4>4, <4>5
    <3>2. low \in SUBSET (d + 1..i - 1)
      <4>1. \A s \in S : s > d /\ s < i => s \in d + 1..i - 1
        BY <1>1, <1>11
      <4>2. QED
        BY <1>5, <4>1
    <3> HIDE DEF low
    <3>3. /\ IsFiniteSet(d + 1..i - 1)
          /\ Cardinality(d + 1..i - 1) = i - 1 - d
      BY <1>11, <2>2, SizeBetween
    <3>4. /\ IsFiniteSet(low) /\ Cardinality(low) \in Nat
          /\ Cardinality(low) <= i - 1 - d
      <4>1. IsFiniteSet(low) /\ Cardinality(low) <= Cardinality(d + 1..i - 1)
        BY <3>2, <3>3, FS_Subset
      <4>2. Cardinality(low) \in Nat
        BY <4>1, FS_CardinalityType
      <4>3. QED
        BY <3>3, <4>1, <4>2
    <3>5. Cardinality(low \union {d}) = Cardinality(low) + 1
      BY <3>1, <3>4, FS_AddElement
    <3>6. /\ PlaceWithout(before, i) = i - Cardinality(low)
          /\ PlaceWithout(after, i) = i - (Cardinality(low) + 1)
      BY <3>1, <3>5 DEF PlaceWithout, low
    <3>7. QED
      BY <1>2, <3>4, <3>6
  <2>3. i # d
    BY <1>2, <1>5, <1>9
  <2>4. QED
    BY <1>2, <2>1, <2>2, <2>3
<1>10. QED
  BY <1>2, <1>6, <1>8, <1>9 DEF d, before, after

LEMMA RemovedAt ==
  ASSUME NEW R, NEW rules \in Seq(R), NEW d \in 1..Len(rules)
  PROVE  LET left == RemoveAt(rules, d) IN
         /\ left \in Seq(R) /\ Len(left) = Len(rules) - 1
         /\ \A p \in 1..Len(rules) \ {d} :
              /\ (IF p < d THEN p ELSE p - 1) \in 1..Len(left)
              /\ left[IF p < d THEN p ELSE p - 1] = rules[p]
<1> DEFINE front == SubSeq(rules, 1, d - 1)
           back == SubSeq(rules, d + 1, Len(rules))
<1>1. RemoveAt(rules, d) = front \o back
  BY DEF RemoveAt
<1>2. /\ front \in Seq(R) /\ Len(front) = d - 1
      /\ \A p \in 1..d - 1 : front[p] = rules[p]
  OBVIOUS
<1>3. /\ back \in Seq(R) /\ Len(back) = Len(rules) - d
      /\ \A p \in 1..Len(rules) - d : back[p] = rules[d + p]
  OBVIOUS
<1>4. Len(rules) \in Nat /\ d \in Int
  OBVIOUS
<1> HIDE DEF front, back
<1>8. /\ front \o back \in Seq(R)
      /\ Len(front \o back) = Len(front) + Len(back)
      /\ \A p \in 1..Len(front) + Len(back) :
           (front \o back)[p] = IF p <= Len(front) THEN front[p] ELSE back[p - Len(front)]
  <2>1. front \in Seq(R) /\ back \in Seq(R)
    BY <1>2, <1>3
  <2>2. QED
    BY <2>1
<1>5. /\ front \o back \in Seq(R) /\ Len(front \o back) = Len(rules) - 1
      /\ \A p \in 1..d - 1 : (front \o back)[p] = front[p]
      /\ \A p \in d..Len(rules) - 1 : (front \o back)[p] = back[p - (d - 1)]
  <2>1. Len(front) + Len(back) = Len(rules) - 1
    BY <1>2, <1>3, <1>4
  <2>2. \A p \in 1..d - 1 : p \in 1..Len(rules) - 1 /\ p <= d - 1
    BY <1>4
  <2>3. \A p \in d..Len(rules) - 1 : p \in 1..Len(rules) - 1 /\ ~(p <= d - 1)
    BY <1>4
  <2>4. QED
    BY <1>2, <1>8, <2>1, <2>2, <2>3
<1>6. ASSUME NEW p \in 1..Len(rules), p # d
      PROVE  /\ (IF p < d THEN p ELSE p - 1) \in 1..Len(front \o back)
             /\ (front \o back)[IF p < d THEN p ELSE p - 1] = rules[p]
  <2>1. CASE p < d
    BY <1>2, <1>4, <1>5, <2>1
  <2>2. CASE p > d
    <3>1. p - 1 \in d..Len(rules) - 1 /\ (p - 1) - (d - 1) = p - d
      BY <1>4, <1>6, <2>2
    <3>2. p - d \in 1..Len(rules) - d /\ d + (p - d) = p
      BY <1>4, <1>6, <2>2
    <3>3. (front \o back)[p - 1] = rules[p]
      BY <1>3, <1>5, <3>1, <3>2
    <3>4. p - 1 \in 1..Len(front \o back) /\ ~(p < d)
      BY <1>4, <1>5, <2>2, <3>1
    <3>5. QED
      BY <3>3, <3>4
  <2>3. QED
    BY <1>4, <1>6, <2>1, <2>2
<1>7. QED
  BY <1>1, <1>5, <1>6

-----------------------------------------------------------------------------
(* What an edit does to the rules of its flag. *)

LEMMA WithRulesValid ==
  ASSUME NEW feature, ValidFeature(feature), NEW rules, IsArray(rules),
         \A i \in DOMAIN rules : ValidRule(feature.type, rules[i])
  PROVE  LET edited == WithRules(feature, rules) IN
         /\ ValidFeature(edited) /\ RulesOf(edited) = rules
         /\ edited.type = feature.type
<1> DEFINE edited == WithRules(feature, rules)
<1>1. /\ DOMAIN edited = DOMAIN feature \union {"rules"}
      /\ edited.rules = rules /\ edited.type = feature.type
  BY DEF WithRules, Spread, ValidFeature
<1>2. RulesOf(edited) = rules
  BY <1>1 DEF RulesOf
<1> HIDE DEF edited
<1>3. ValidFeature(edited)
  BY <1>1, <1>2 DEF ValidFeature
<1>4. QED
  BY <1>1, <1>2, <1>3 DEF edited

LEMMA SetFieldValid ==
  ASSUME NEW feature, ValidFeature(feature), NEW field \in {"enabled", "default"}, NEW x
  PROVE  LET edited == [feature EXCEPT ![field] = x] IN
         /\ ValidFeature(edited) /\ RulesOf(edited) = RulesOf(feature)
         /\ edited.type = feature.type
<1> DEFINE edited == [feature EXCEPT ![field] = x]
<1>1. /\ DOMAIN edited = DOMAIN feature /\ edited.type = feature.type
      /\ "rules" \in DOMAIN feature => edited.rules = feature.rules
  BY DEF ValidFeature
<1> HIDE DEF edited
<1>2. RulesOf(edited) = RulesOf(feature)
  BY <1>1 DEF RulesOf
<1>3. QED
  BY <1>1, <1>2 DEF ValidFeature, edited

\* The rules of a flag after an edit that was not refused.
LEMMA EditedRules ==
  ASSUME NEW feature, ValidFeature(feature), NEW edit, IsEdit(edit),
         edit.kind \notin {"create", "delete"}, EditFeature(feature, edit) # Refused
  PROVE  LET edited == EditFeature(feature, edit) IN
         /\ RulesOf(edited) =
              IF edit.kind \in {"enabled", "default"} THEN RulesOf(feature)
              ELSE RulesAfter(RulesOf(feature), Attached(feature, edit), edit)
         /\ edited.type = feature.type
<1>1. CASE edit.kind = "enabled"
  <2>1. EditFeature(feature, edit) = [feature EXCEPT !["enabled"] = edit.enabled]
    BY <1>1 DEF EditFeature
  <2> DEFINE edited == [feature EXCEPT !["enabled"] = edit.enabled]
  <2>2. "enabled" \in {"enabled", "default"}
    OBVIOUS
  <2>3. RulesOf(edited) = RulesOf(feature) /\ edited.type = feature.type
    BY <2>2, SetFieldValid
  <2> HIDE DEF edited
  <2>4. EditFeature(feature, edit) = edited
    BY <2>1 DEF edited
  <2>5. QED
    BY <1>1, <2>3, <2>4
<1>2. CASE edit.kind = "default"
  <2>1. EditFeature(feature, edit) = [feature EXCEPT !["default"] = edit.default]
    BY <1>2 DEF EditFeature
  <2> DEFINE edited == [feature EXCEPT !["default"] = edit.default]
  <2>2. "default" \in {"enabled", "default"}
    OBVIOUS
  <2>3. RulesOf(edited) = RulesOf(feature) /\ edited.type = feature.type
    BY <2>2, SetFieldValid
  <2> HIDE DEF edited
  <2>4. EditFeature(feature, edit) = edited
    BY <2>1 DEF edited
  <2>5. QED
    BY <1>2, <2>3, <2>4
<1>3. CASE edit.kind \notin {"enabled", "default"}
  <2> DEFINE rules == RulesAfter(RulesOf(feature), Attached(feature, edit), edit)
  <2>1. EditFeature(feature, edit) = WithRules(feature, rules)
    BY <1>3, RulesEdited DEF EditedField
  <2> HIDE DEF rules
  <2>2. /\ "rules" \in DOMAIN WithRules(feature, rules)
        /\ WithRules(feature, rules).rules = rules
        /\ WithRules(feature, rules).type = feature.type
    BY DEF WithRules, Spread, ValidFeature
  <2>3. QED
    BY <1>3, <2>1, <2>2 DEF RulesOf, rules
<1>4. QED
  BY <1>1, <1>2, <1>3

\* A rule that schemaVersion 1 has.
Plain(rule) == "rollout" \notin DOMAIN rule /\ ~UsesSegment(rule)

\* An edit that makes a valid flag is accepted.
LEMMA EditAccepted ==
  ASSUME NEW snapshot, Parsed(snapshot), Sentinels,
         NEW edit, edit.kind \notin {"create", "delete"},
         edit.key \in DOMAIN snapshot.features,
         NEW edited, edited = EditFeature(snapshot.features[edit.key], edit),
         edited # Refused, ValidFeature(edited),
         UpgradedSchema(snapshot.schema, edit) = 1 =>
           \A i \in DOMAIN RulesOf(edited) : Plain(RulesOf(edited)[i])
  PROVE  ApplyFlagEdit(snapshot, edit) # Refused
<1> DEFINE features == [snapshot.features EXCEPT ![edit.key] = edited]
           next == [schema |-> UpgradedSchema(snapshot.schema, edit),
                    features |-> features]
<1>1. EditFeatures(snapshot.features, edit) = features
  BY DEF EditFeatures
<1>2. features # Refused
  <2>1. IsObject(features)
    BY DEF IsObject
  <2>2. QED
    BY <2>1 DEF Sentinels
<1>3. next # Refused
  <2>1. IsObject(next)
    BY DEF IsObject
  <2>2. QED
    BY <2>1 DEF Sentinels
<1>4. next.schema = 1 => snapshot.schema = 1
  BY DEF UpgradedSchema
<1>5. ASSUME NEW key \in DOMAIN features
      PROVE  /\ ValidFeature(features[key])
             /\ next.schema = 1 => \A i \in DOMAIN RulesOf(features[key]) :
                                     Plain(RulesOf(features[key])[i])
  <2>1. CASE key = edit.key
    BY <2>1
  <2>2. CASE key # edit.key
    <3>1. key \in DOMAIN snapshot.features /\ features[key] = snapshot.features[key]
      BY <1>5, <2>2
    <3> HIDE DEF features, next
    <3>2. QED
      BY <1>4, <3>1 DEF Parsed, ValidSnapshot, Plain
  <2>3. QED
    BY <2>1, <2>2
<1>6. next.features = features
  OBVIOUS
<1> HIDE DEF features
<1>7. ValidSnapshot(next)
  <2> HIDE DEF next
  <2>1. QED
    BY <1>5, <1>6 DEF ValidSnapshot, Plain
<1>8. ApplyFlagEdit(snapshot, edit) = next
  BY <1>1, <1>2, <1>7 DEF ApplyFlagEdit
<1>9. QED
  BY <1>3, <1>8

\* What an edit that was accepted makes of its flag.
LEMMA EditApplied ==
  ASSUME NEW snapshot, Parsed(snapshot), NEW edit, IsEdit(edit), Sentinels,
         edit.kind \notin {"create", "delete"}, ApplyFlagEdit(snapshot, edit) # Refused
  PROVE  LET feature == snapshot.features[edit.key]
             after == ApplyFlagEdit(snapshot, edit)
             edited == after.features[edit.key]
         IN /\ edit.key \in DOMAIN snapshot.features
            /\ DOMAIN after.features = DOMAIN snapshot.features
            /\ \A k \in DOMAIN snapshot.features \ {edit.key} :
                 after.features[k] = snapshot.features[k]
            /\ after.schema = UpgradedSchema(snapshot.schema, edit)
            /\ edited.type = feature.type
            /\ RulesOf(edited) =
                 IF edit.kind \in {"enabled", "default"} THEN RulesOf(feature)
                 ELSE RulesAfter(RulesOf(feature), Attached(feature, edit), edit)
<1> DEFINE feature == snapshot.features[edit.key]
           after == ApplyFlagEdit(snapshot, edit)
           edited == EditFeature(feature, edit)
<1>1. /\ edit.key \in DOMAIN snapshot.features /\ edited # Refused
      /\ after.features = [snapshot.features EXCEPT ![edit.key] = edited]
  BY FlagEdited
<1>2. after.schema = UpgradedSchema(snapshot.schema, edit)
  BY DEF ApplyFlagEdit
<1>3. ValidFeature(feature)
  BY <1>1 DEF Parsed, ValidSnapshot
<1>4. /\ edited.type = feature.type
      /\ RulesOf(edited) =
           IF edit.kind \in {"enabled", "default"} THEN RulesOf(feature)
           ELSE RulesAfter(RulesOf(feature), Attached(feature, edit), edit)
  BY <1>1, <1>3, EditedRules
<1> HIDE DEF after, edited, feature
<1>5. after.features[edit.key] = edited
  BY <1>1
<1>6. \A k \in DOMAIN snapshot.features \ {edit.key} :
        after.features[k] = snapshot.features[k]
  BY <1>1
<1>7. DOMAIN after.features = DOMAIN snapshot.features
  BY <1>1
<1>8. QED
  BY <1>1, <1>2, <1>4, <1>5, <1>6, <1>7 DEF after, feature

-----------------------------------------------------------------------------
(* Where a Save leaves the rules. *)

\* A form that was rendered for a flag, whatever was changed in it since.
FormOf(form, feature) ==
  /\ DOMAIN form.rollout = DOMAIN RulesOf(feature)
  /\ form.detach \subseteq DOMAIN form.rollout
  /\ form.default = Undefined <=> feature.type = "boolean"

\* What is left of a rule, and what a row of the form says of its rollout.
RuleKept(old, new) == \A f \in DOMAIN old \ {"rollout"} : new[f] = old[f]

RowShown(new, row) ==
  /\ row = Undefined <=> "rollout" \notin DOMAIN new
  /\ row # Undefined => /\ new.rollout.percentage = row.percentage
                        /\ new.rollout.bucketBy = row.bucketBy
                        /\ row.salt # <<>> => new.rollout.salt = row.salt

\* The rules when that many edits have followed those of enabled and default:
\* the rows are done one by one, then the ticked rules are taken out.
RowsSoFar(saved, draft, key, form, done) ==
  LET old == RulesOf(draft.features[key])
      new == RulesOf(saved.features[key])
      gone == Gone(form.detach, done - Len(old))
  IN /\ key \in DOMAIN saved.features
     /\ saved.schema = draft.schema
     /\ saved.features[key].type = draft.features[key].type
     /\ Len(new) = Len(old) - Cardinality(gone)
     /\ \A i \in DOMAIN old \ gone :
          /\ PlaceWithout(gone, i) \in DOMAIN new
          /\ RuleKept(old[i], new[PlaceWithout(gone, i)])
          /\ i <= done => RowShown(new[PlaceWithout(gone, i)], form.rollout[i])

LEMMA SeqIsArray ==
  ASSUME NEW S, NEW s \in Seq(S)
  PROVE  IsArray(s)
<1>1. s \in [1..Len(s) -> Range(s)] /\ Len(s) \in Nat
  BY DEF Range
<1>2. QED
  BY <1>1 DEF IsArray

LEMMA RulesAreArray ==
  ASSUME NEW snapshot, Parsed(snapshot), NEW key \in DOMAIN snapshot.features
  PROVE  LET feature == snapshot.features[key]
             rules == RulesOf(feature)
         IN /\ ValidFeature(feature) /\ rules \in Seq(Range(rules)) /\ Len(rules) \in Nat
            /\ DOMAIN rules = 1..Len(rules)
            /\ \A i \in DOMAIN rules : ValidRule(feature.type, rules[i])
<1> DEFINE feature == snapshot.features[key]
           rules == RulesOf(feature)
<1>1. ValidFeature(feature)
  BY DEF Parsed, ValidSnapshot
<1>2. /\ rules \in Seq(Range(rules))
      /\ \A i \in DOMAIN rules : ValidRule(feature.type, rules[i])
  BY <1>1 DEF ValidFeature, IsArray
<1> HIDE DEF rules
<1>3. Len(rules) \in Nat /\ DOMAIN rules = 1..Len(rules)
  BY <1>2
<1>4. QED
  BY <1>1, <1>2, <1>3 DEF rules

LEMMA NobodyGone ==
  ASSUME NEW form, NEW feature, IsForm(form), FormOf(form, feature), IsArray(RulesOf(feature)),
         NEW m \in Int, m <= 0
  PROVE  /\ Gone(form.detach, m) = {} /\ Cardinality({}) = 0
         /\ \A i \in DOMAIN RulesOf(feature) : PlaceWithout({}, i) = i /\ i \in Int /\ i >= 1
<1>1. RulesOf(feature) \in Seq(Range(RulesOf(feature)))
  BY DEF IsArray
<1>2. \A i \in DOMAIN RulesOf(feature) : i \in Int /\ i >= 1
  BY <1>1
<1>3. form.detach \subseteq Nat /\ IsFiniteSet(form.detach)
  BY <1>2 DEF FormOf, IsForm
<1>4. Gone(form.detach, m) = {}
  BY <1>3, GoneFirst
<1>5. \A i : {d \in {} : d < i} = {}
  OBVIOUS
<1>6. Cardinality({}) = 0
  BY FS_EmptySet
<1>7. QED
  BY <1>2, <1>4, <1>5, <1>6 DEF PlaceWithout

\* Setting enabled or the default leaves the rules alone.
LEMMA RowsUntouched ==
  ASSUME NEW draft, Parsed(draft), NEW key \in DOMAIN draft.features,
         NEW form, IsForm(form), FormOf(form, draft.features[key]), Sentinels,
         NEW saved, Parsed(saved), NEW done \in Int, done <= 0,
         RowsSoFar(saved, draft, key, form, done - 1),
         NEW edit, IsSaveEdit(edit, key, form), edit.kind \in {"enabled", "default"},
         ApplyFlagEdit(saved, edit) # Refused
  PROVE  RowsSoFar(ApplyFlagEdit(saved, edit), draft, key, form, done)
<1> DEFINE after == ApplyFlagEdit(saved, edit)
           old == RulesOf(draft.features[key])
<1>1. /\ key \in DOMAIN saved.features
      /\ DOMAIN after.features = DOMAIN saved.features
      /\ after.schema = saved.schema
      /\ after.features[key].type = saved.features[key].type
      /\ RulesOf(after.features[key]) = RulesOf(saved.features[key])
  BY EditApplied DEF IsSaveEdit, UpgradedSchema
<1>2. IsArray(old) /\ Len(old) \in Nat
  BY RulesAreArray DEF IsArray
<1> HIDE DEF after
<1>3. /\ done - 1 - Len(old) \in Int /\ done - 1 - Len(old) <= 0
      /\ done - Len(old) \in Int /\ done - Len(old) <= 0
  BY <1>2
<1>4. /\ Gone(form.detach, done - 1 - Len(old)) = {}
      /\ Gone(form.detach, done - Len(old)) = {}
      /\ \A i \in DOMAIN old : i \in Int /\ i >= 1
  <2>1. PICK m \in Int, k \in Int : /\ m = done - 1 - Len(old) /\ m <= 0
                                   /\ k = done - Len(old) /\ k <= 0
    BY <1>3
  <2>2. Gone(form.detach, m) = {} /\ Gone(form.detach, k) = {}
    BY <1>2, <2>1, NobodyGone
  <2>3. \A i \in DOMAIN old : i \in Int /\ i >= 1
    BY <1>2, <2>1, NobodyGone
  <2>4. QED
    BY <2>1, <2>2, <2>3
<1>5. \A i \in DOMAIN old : ~(i <= done)
  BY <1>4
<1> HIDE DEF old
<1>6. QED
  BY <1>1, <1>4, <1>5 DEF RowsSoFar, after, old

\* A row sets or removes the rollout of its own rule.
LEMMA RowDone ==
  ASSUME NEW draft, Parsed(draft), NEW key \in DOMAIN draft.features,
         NEW form, IsForm(form), FormOf(form, draft.features[key]), Sentinels,
         NEW saved, Parsed(saved), NEW done \in DOMAIN form.rollout,
         RowsSoFar(saved, draft, key, form, done - 1),
         NEW edit, edit = RolloutOf(key, form, done), IsSaveEdit(edit, key, form),
         ApplyFlagEdit(saved, edit) # Refused
  PROVE  RowsSoFar(ApplyFlagEdit(saved, edit), draft, key, form, done)
<1> DEFINE after == ApplyFlagEdit(saved, edit)
           old == RulesOf(draft.features[key])
           was == RulesOf(saved.features[key])
           new == RulesOf(after.features[key])
           row == form.rollout[done]
<1>1. /\ edit.index = done
      /\ row = Undefined => edit.kind = "removeRollout"
      /\ row # Undefined => /\ edit.kind = "setRollout"
                            /\ edit.percentage = row.percentage
                            /\ edit.bucketBy = row.bucketBy /\ edit.salt = row.salt
  <2>1. CASE row = Undefined
    BY <2>1 DEF RolloutOf
  <2>2. CASE row # Undefined
    <3>1. DOMAIN row = {"percentage", "bucketBy", "salt"}
      BY <2>2 DEF FormOf, IsForm
    <3>2. QED
      BY <2>2, <3>1 DEF RolloutOf, Spread
  <2>3. QED
    BY <2>1, <2>2
<1>2. /\ key \in DOMAIN saved.features
      /\ DOMAIN after.features = DOMAIN saved.features
      /\ after.schema = saved.schema
      /\ after.features[key].type = saved.features[key].type
      /\ new = [was EXCEPT ![done] = EditedRule(was[done], edit)]
  BY <1>1, EditApplied DEF IsSaveEdit, UpgradedSchema, RulesAfter
<1>3. /\ IsArray(old) /\ Len(old) \in Nat /\ DOMAIN old = 1..Len(old)
      /\ was \in Seq(Range(was)) /\ DOMAIN was = 1..Len(was) /\ Len(was) \in Nat
      /\ done \in 1..Len(old)
  BY <1>2, RulesAreArray DEF IsArray, FormOf
<1> HIDE DEF after, row
<1>4. /\ done - 1 - Len(old) \in Int /\ done - 1 - Len(old) <= 0
      /\ done - Len(old) \in Int /\ done - Len(old) <= 0
  BY <1>3
<1>5. /\ Gone(form.detach, done - 1 - Len(old)) = {}
      /\ Gone(form.detach, done - Len(old)) = {}
      /\ Cardinality({}) = 0
      /\ \A i \in DOMAIN old : PlaceWithout({}, i) = i /\ i \in Int
  BY <1>3, <1>4, NobodyGone
<1> HIDE DEF old, was, new
<1>6. /\ Len(was) = Len(old)
      /\ \A i \in DOMAIN old : /\ RuleKept(old[i], was[i])
                               /\ i <= done - 1 => RowShown(was[i], form.rollout[i])
  <2>1. /\ Len(was) = Len(old) - Cardinality(Gone(form.detach, done - 1 - Len(old)))
        /\ \A i \in DOMAIN old \ Gone(form.detach, done - 1 - Len(old)) :
             LET p == PlaceWithout(Gone(form.detach, done - 1 - Len(old)), i) IN
             /\ RuleKept(old[i], was[p])
             /\ i <= done - 1 => RowShown(was[p], form.rollout[i])
    BY DEF RowsSoFar, old, was
  <2>2. Len(was) = Len(old) - 0
    BY <1>5, <2>1
  <2>3. Len(was) = Len(old)
    BY <1>3, <2>2
  <2>4. ASSUME NEW i \in DOMAIN old
        PROVE  /\ RuleKept(old[i], was[i])
               /\ i <= done - 1 => RowShown(was[i], form.rollout[i])
    <3>1. /\ i \in DOMAIN old \ Gone(form.detach, done - 1 - Len(old))
          /\ PlaceWithout(Gone(form.detach, done - 1 - Len(old)), i) = i
      BY <1>5
    <3>2. QED
      BY <2>1, <3>1
  <2>5. QED
    BY <2>3, <2>4
<1>7. /\ DOMAIN new = DOMAIN was /\ Len(new) = Len(was)
      /\ \A i \in DOMAIN was \ {done} : new[i] = was[i]
      /\ new[done] = EditedRule(was[done], edit)
  BY <1>2, <1>3, <1>6
<1>8. RuleKept(old[done], new[done])
  <2>1. ASSUME NEW f \in DOMAIN old[done] \ {"rollout"}
        PROVE  new[done][f] = was[done][f]
    <3>1. f \in DOMAIN was[done]
      <4>1. ValidRule(draft.features[key].type, old[done])
        BY <1>3, RulesAreArray DEF old
      <4>2. ValidRule(saved.features[key].type, was[done])
        BY <1>2, <1>3, <1>6, RulesAreArray DEF was
      <4>3. saved.features[key].type = draft.features[key].type
        BY DEF RowsSoFar
      <4>4. QED
        BY <2>1, <4>1, <4>2, <4>3 DEF ValidRule
    <3>2. QED
      BY <1>7, <2>1, <3>1 DEF EditedRule, Spread
  <2>2. QED
    BY <1>3, <1>6, <2>1 DEF RuleKept
<1>9. RowShown(new[done], row)
  BY <1>1, <1>7 DEF RowShown, EditedRule, DefaultedSalt, Spread
<1>10. ASSUME NEW i \in DOMAIN old
       PROVE  /\ i \in DOMAIN new /\ RuleKept(old[i], new[i])
              /\ i <= done => RowShown(new[i], form.rollout[i])
  <2>1. CASE i = done
    BY <1>3, <1>6, <1>7, <1>8, <1>9, <2>1 DEF row
  <2>2. CASE i # done
    <3>1. i \in DOMAIN was \ {done} /\ (i <= done => i <= done - 1)
      BY <1>3, <1>5, <1>6, <2>2
    <3>2. QED
      BY <1>6, <1>7, <3>1
  <2>3. QED
    BY <2>1, <2>2
<1>11. Len(new) = Len(old) - 0
  BY <1>3, <1>6, <1>7
<1>12. saved.schema = draft.schema /\ saved.features[key].type = draft.features[key].type
  BY DEF RowsSoFar
<1>13. /\ key \in DOMAIN after.features /\ after.schema = draft.schema
       /\ after.features[key].type = draft.features[key].type
  BY <1>2, <1>12
<1> DEFINE gone == Gone(form.detach, done - Len(old))
<1>14. /\ Len(new) = Len(old) - Cardinality(gone)
       /\ \A i \in DOMAIN old : PlaceWithout(gone, i) = i
  BY <1>5, <1>11
<1> HIDE DEF gone
<1>15. \A i \in DOMAIN old \ gone :
         /\ PlaceWithout(gone, i) \in DOMAIN new
         /\ RuleKept(old[i], new[PlaceWithout(gone, i)])
         /\ i <= done => RowShown(new[PlaceWithout(gone, i)], form.rollout[i])
  BY <1>10, <1>14
<1>16. QED
  BY <1>13, <1>14, <1>15 DEF RowsSoFar, after, old, new, gone

\* The next ticked rule is taken out.
LEMMA RowGone ==
  ASSUME NEW draft, Parsed(draft), NEW key \in DOMAIN draft.features,
         NEW form, IsForm(form), FormOf(form, draft.features[key]), Sentinels,
         NEW m \in 1..Cardinality(form.detach), NEW done \in Int,
         done = Len(RulesOf(draft.features[key])) + m,
         NEW saved, Parsed(saved), RowsSoFar(saved, draft, key, form, done - 1),
         NEW edit, edit = DetachOf(key, form, m), IsSaveEdit(edit, key, form),
         ApplyFlagEdit(saved, edit) # Refused
  PROVE  RowsSoFar(ApplyFlagEdit(saved, edit), draft, key, form, done)
<1> DEFINE after == ApplyFlagEdit(saved, edit)
           old == RulesOf(draft.features[key])
           was == RulesOf(saved.features[key])
           new == RulesOf(after.features[key])
           S == form.detach
           d == LastToFirst(S)[m]
           before == Gone(S, m - 1)
           gone == Gone(S, m)
<1>1. edit.kind = "detachSegment" /\ edit.index = d
  BY DEF DetachOf
<1>2. /\ key \in DOMAIN saved.features
      /\ DOMAIN after.features = DOMAIN saved.features
      /\ after.schema = saved.schema
      /\ after.features[key].type = saved.features[key].type
      /\ new = RemoveAt(was, d)
  <2>1. /\ IsEdit(edit) /\ edit.key = key
        /\ edit.kind \notin {"create", "delete", "enabled", "default", "attachSegment"}
    BY <1>1 DEF IsSaveEdit
  <2>2. /\ key \in DOMAIN saved.features
        /\ DOMAIN after.features = DOMAIN saved.features
        /\ after.schema = UpgradedSchema(saved.schema, edit)
        /\ after.features[key].type = saved.features[key].type
        /\ new = RulesAfter(was, Attached(saved.features[key], edit), edit)
    BY <2>1, EditApplied
  <2> HIDE DEF after, new, was, d
  <2>3. UpgradedSchema(saved.schema, edit) = saved.schema
    BY <2>1 DEF UpgradedSchema
  <2>4. RulesAfter(was, Attached(saved.features[key], edit), edit) = RemoveAt(was, d)
    BY <1>1 DEF RulesAfter
  <2>5. QED
    BY <2>2, <2>3, <2>4
<1>3. /\ Len(old) \in Nat /\ DOMAIN old = 1..Len(old)
      /\ was \in Seq(Range(was)) /\ DOMAIN was = 1..Len(was) /\ Len(was) \in Nat
  BY <1>2, RulesAreArray
<1>4. IsFiniteSet(S) /\ S \subseteq 1..Len(old) /\ Cardinality(S) \in Nat
  BY <1>3, FS_CardinalityType DEF IsForm, FormOf
<1> HIDE DEF after, new
<1>5. done - 1 - Len(old) = m - 1 /\ done - Len(old) = m
  BY <1>3, <1>4
<1> HIDE DEF old, was, S
<1>6. /\ d \in (1..Len(old)) \ before /\ gone = before \union {d}
      /\ \A i \in (1..Len(old)) \ gone :
           LET p == PlaceWithout(before, i) IN
           /\ p \in Int /\ p # d
           /\ PlaceWithout(gone, i) = IF p < d THEN p ELSE p - 1
  BY <1>3, <1>4, NextGone DEF S
<1>16. PlaceWithout(before, d) = d
  BY <1>3, <1>4, NextGoneInPlace DEF S
<1>7. IsFiniteSet(before) /\ Cardinality(before) \in Nat
  <2>1. before \in SUBSET S
    BY DEF Gone
  <2>2. QED
    BY <1>4, <2>1, FS_Subset, FS_CardinalityType
<1> HIDE DEF d, before, gone
<1>8. /\ Len(was) = Len(old) - Cardinality(before)
      /\ \A i \in DOMAIN old \ before :
           LET p == PlaceWithout(before, i) IN
           /\ p \in DOMAIN was /\ RuleKept(old[i], was[p])
           /\ i <= done - 1 => RowShown(was[p], form.rollout[i])
  BY <1>5 DEF RowsSoFar, old, was, before, S
<1>9. d \in 1..Len(was)
  BY <1>3, <1>6, <1>8, <1>16
<1>10. /\ new \in Seq(Range(was)) /\ Len(new) = Len(was) - 1
       /\ \A p \in 1..Len(was) \ {d} :
            /\ (IF p < d THEN p ELSE p - 1) \in 1..Len(new)
            /\ new[IF p < d THEN p ELSE p - 1] = was[p]
  <2>1. PICK left : left = RemoveAt(was, d)
    OBVIOUS
  <2>2. /\ left \in Seq(Range(was)) /\ Len(left) = Len(was) - 1
        /\ \A p \in 1..Len(was) \ {d} :
             /\ (IF p < d THEN p ELSE p - 1) \in 1..Len(left)
             /\ left[IF p < d THEN p ELSE p - 1] = was[p]
    BY <1>3, <1>9, <2>1, RemovedAt
  <2>3. new = left
    BY <1>2, <2>1
  <2>4. QED
    BY <2>2, <2>3
<1>11. Cardinality(gone) = Cardinality(before) + 1
  BY <1>6, <1>7, FS_AddElement
<1>12. Len(new) = Len(old) - Cardinality(gone)
  BY <1>3, <1>7, <1>8, <1>10, <1>11
<1>13. ASSUME NEW i \in DOMAIN old \ gone
       PROVE  LET q == PlaceWithout(gone, i) IN
              /\ q \in DOMAIN new /\ RuleKept(old[i], new[q])
              /\ RowShown(new[q], form.rollout[i])
  <2> DEFINE p == PlaceWithout(before, i)
             q == PlaceWithout(gone, i)
  <2>1. i \in DOMAIN old \ before /\ i \in (1..Len(old)) \ gone
    BY <1>3, <1>6
  <2>2. i <= done - 1
    BY <1>3, <1>5, <2>1
  <2>3. p \in 1..Len(was) /\ p # d /\ q = IF p < d THEN p ELSE p - 1
    BY <1>3, <1>6, <1>8, <2>1
  <2>4. RuleKept(old[i], was[p]) /\ RowShown(was[p], form.rollout[i])
    BY <1>8, <2>1, <2>2
  <2> HIDE DEF p, q
  <2>5. q \in 1..Len(new) /\ new[q] = was[p]
    BY <1>10, <2>3
  <2>6. DOMAIN new = 1..Len(new)
    BY <1>10
  <2>7. QED
    BY <2>4, <2>5, <2>6 DEF q
<1>14. saved.schema = draft.schema /\ saved.features[key].type = draft.features[key].type
  BY DEF RowsSoFar
<1>15. QED
  BY <1>2, <1>5, <1>12, <1>13, <1>14 DEF RowsSoFar, after, old, new, gone, S

-----------------------------------------------------------------------------
(* What is accepted. *)

\* An edit that leaves valid rules is accepted, where the version has them.
LEMMA RulesAccepted ==
  ASSUME NEW snapshot, Parsed(snapshot), Sentinels,
         NEW edit, edit.kind \notin {"create", "delete"},
         edit.key \in DOMAIN snapshot.features,
         NEW rules, IsArray(rules),
         LET feature == snapshot.features[edit.key] IN
         /\ EditFeature(feature, edit) = WithRules(feature, rules)
         /\ \A i \in DOMAIN rules :
              /\ ValidRule(feature.type, rules[i])
              /\ UpgradedSchema(snapshot.schema, edit) = 1 => Plain(rules[i])
  PROVE  ApplyFlagEdit(snapshot, edit) # Refused
<1> DEFINE feature == snapshot.features[edit.key]
           edited == WithRules(feature, rules)
<1>1. ValidFeature(feature)
  BY DEF Parsed, ValidSnapshot
<1>2. ValidFeature(edited) /\ RulesOf(edited) = rules
  BY <1>1, WithRulesValid
<1>3. edited # Refused
  <2>1. IsObject(edited)
    BY DEF IsObject, WithRules, Spread
  <2>2. QED
    BY <2>1 DEF Sentinels
<1>4. edited = EditFeature(feature, edit)
  OBVIOUS
<1> HIDE DEF edited
<1>5. QED
  BY <1>2, <1>3, <1>4, EditAccepted

\* So is one of a field, when it has the field.
LEMMA FieldAccepted ==
  ASSUME NEW snapshot, Parsed(snapshot), Sentinels,
         NEW edit, edit.key \in DOMAIN snapshot.features,
         NEW field \in {"enabled", "default"}, edit.kind = field,
         field = "default" =>
           edit.default # Malformed /\ snapshot.features[edit.key].type # "boolean"
  PROVE  ApplyFlagEdit(snapshot, edit) # Refused
<1> DEFINE feature == snapshot.features[edit.key]
           edited == [feature EXCEPT ![field] = edit[field]]
<1>1. ValidFeature(feature)
  BY DEF Parsed, ValidSnapshot
<1>2. ValidFeature(edited) /\ RulesOf(edited) = RulesOf(feature)
  BY <1>1, SetFieldValid
<1>3. edited # Refused
  <2>1. IsObject(edited)
    BY DEF IsObject
  <2>2. QED
    BY <2>1 DEF Sentinels
<1>4. edited = EditFeature(feature, edit)
  <2>1. CASE field = "enabled"
    BY <2>1 DEF EditFeature
  <2>2. CASE field = "default"
    BY <2>2 DEF EditFeature
  <2>3. QED
    BY <2>1, <2>2
<1>5. UpgradedSchema(snapshot.schema, edit) = 1 =>
        \A i \in DOMAIN RulesOf(feature) : Plain(RulesOf(feature)[i])
  BY DEF Parsed, ValidSnapshot, UpgradedSchema, Plain
<1> HIDE DEF edited, feature
<1>6. QED
  BY <1>2, <1>3, <1>4, <1>5, EditAccepted DEF feature

LEMMA AllRulesKept ==
  ASSUME NEW draft, Parsed(draft), NEW key \in DOMAIN draft.features,
         NEW form, IsForm(form), FormOf(form, draft.features[key]), NEW saved, Parsed(saved),
         NEW done \in Int, done <= Len(RulesOf(draft.features[key])),
         RowsSoFar(saved, draft, key, form, done)
  PROVE  Len(RulesOf(saved.features[key])) = Len(RulesOf(draft.features[key]))
<1> DEFINE old == RulesOf(draft.features[key])
           was == RulesOf(saved.features[key])
<1>1. /\ IsArray(old) /\ Len(old) \in Nat
  BY RulesAreArray DEF IsArray
<1>2. PICK m \in Int : m = done - Len(old) /\ m <= 0
  BY <1>1
<1>3. Gone(form.detach, m) = {} /\ Cardinality({}) = 0
  BY <1>1, <1>2, NobodyGone
<1>4. Len(was) = Len(old) - Cardinality(Gone(form.detach, m))
  BY <1>2 DEF RowsSoFar
<1> HIDE DEF was, old
<1>5. QED
  BY <1>1, <1>3, <1>4 DEF was, old

\* The rollout of a row is accepted by a snapshot that has rollouts.
LEMMA RowAccepted ==
  ASSUME NEW draft, Parsed(draft), NEW key \in DOMAIN draft.features,
         NEW form, IsForm(form), FormOf(form, draft.features[key]), Sentinels,
         ~Refusable(draft, form),
         NEW saved, Parsed(saved), NEW done \in DOMAIN form.rollout,
         RowsSoFar(saved, draft, key, form, done - 1)
  PROVE  ApplyFlagEdit(saved, RolloutOf(key, form, done)) # Refused
<1> DEFINE edit == RolloutOf(key, form, done)
           row == form.rollout[done]
           feature == saved.features[key]
           was == RulesOf(feature)
           rules == [was EXCEPT ![done] = EditedRule(was[done], edit)]
<1>1. /\ edit.index = done /\ edit.key = key
      /\ row = Undefined => edit.kind = "removeRollout"
      /\ row # Undefined => edit.kind = "setRollout" /\ edit.percentage = row.percentage
                              /\ edit.bucketBy = row.bucketBy /\ edit.salt = row.salt
  <2>1. CASE row = Undefined
    BY <2>1 DEF RolloutOf
  <2>2. CASE row # Undefined
    <3>1. DOMAIN row = {"percentage", "bucketBy", "salt"}
      BY <2>2 DEF IsForm
    <3>2. QED
      BY <2>2, <3>1 DEF RolloutOf, Spread
  <2>3. QED
    BY <2>1, <2>2
<1>2. /\ key \in DOMAIN saved.features /\ saved.schema = draft.schema
      /\ saved.schema \in {1, 2}
  BY DEF RowsSoFar, Parsed, Shaped
<1>3. /\ ValidFeature(feature) /\ was \in Seq(Range(was))
      /\ DOMAIN was = 1..Len(was) /\ Len(was) \in Nat
      /\ \A i \in DOMAIN was : ValidRule(feature.type, was[i])
  BY <1>2, RulesAreArray
<1>4. done \in DOMAIN was
  <2>1. PICK n \in Nat : /\ n = Len(RulesOf(draft.features[key]))
                         /\ DOMAIN RulesOf(draft.features[key]) = 1..n
    BY RulesAreArray
  <2>2. done \in 1..n
    BY <2>1 DEF FormOf
  <2>3. done - 1 \in Int /\ done - 1 <= n
    BY <2>2
  <2>4. Len(was) = n
    BY <2>1, <2>3, AllRulesKept
  <2>5. QED
    BY <1>3, <2>2, <2>4
<1>5. row # Undefined => /\ row.percentage \in Percentages /\ row.bucketBy # Blank
                         /\ draft.schema # 1
  BY DEF Refusable
<1> HIDE DEF edit, row, was
<1>6. DOMAIN rules = DOMAIN was /\ IsArray(rules)
  <2>1. rules \in [1..Len(was) -> Range(rules)]
    BY <1>3 DEF Range
  <2> HIDE DEF rules
  <2>2. rules \in Seq(Range(rules)) /\ DOMAIN rules = 1..Len(was)
    BY <1>3, <2>1
  <2>3. QED
    BY <1>3, <2>2 DEF IsArray
<1>7. /\ \A i \in DOMAIN was \ {done} : rules[i] = was[i]
      /\ rules[done] = EditedRule(was[done], edit)
  BY <1>4
<1>8. EditFeature(feature, edit) = WithRules(feature, rules)
  <2>1. edit.kind = "removeRollout" \/
          (edit.kind = "setRollout" /\ edit.percentage \in Percentages)
    BY <1>1, <1>5
  <2>2. QED
    BY <1>1, <1>4, <2>1 DEF EditFeature, was
<1> HIDE DEF rules
<1>9. edit.kind \in {"setRollout", "removeRollout"} /\ UpgradedSchema(saved.schema, edit) = saved.schema
  BY <1>1 DEF UpgradedSchema
<1>10. \A i \in DOMAIN was : saved.schema = 1 => Plain(was[i])
  BY <1>2 DEF Parsed, ValidSnapshot, was, Plain
<1>11. /\ ValidRule(feature.type, rules[done])
       /\ saved.schema = 1 => Plain(rules[done])
  <2>1. ValidRule(feature.type, was[done]) /\ (saved.schema = 1 => Plain(was[done]))
    BY <1>3, <1>4, <1>10
  <2>2. CASE row = Undefined
    <3>1. rules[done] = [f \in DOMAIN was[done] \ {"rollout"} |-> was[done][f]]
      BY <1>1, <1>7, <2>2 DEF EditedRule
    <3>2. DOMAIN rules[done] = DOMAIN was[done] \ {"rollout"}
      BY <3>1
    <3>3. "when" \in DOMAIN rules[done]
      BY <2>1, <3>2 DEF ValidRule
    <3>4. rules[done].when = was[done].when
      BY <3>1, <3>2, <3>3
    <3>5. IsObject(rules[done])
      BY <3>1 DEF IsObject
    <3>6. QED
      BY <2>1, <3>2, <3>4, <3>5 DEF ValidRule, Plain, UsesSegment
  <2>3. CASE row # Undefined
    <3> DEFINE rollout == [percentage |-> edit.percentage, bucketBy |-> edit.bucketBy,
                           salt |-> DefaultedSalt(edit)]
    <3>1. rules[done] = Spread(was[done], [rollout |-> rollout])
      BY <1>1, <1>7, <2>3 DEF EditedRule
    <3>2. /\ DOMAIN rules[done] = DOMAIN was[done] \union {"rollout"}
          /\ rules[done].rollout = rollout
      BY <3>1 DEF Spread
    <3>3. ValidRollout(rollout)
      <4>1. DefaultedSalt(edit) # <<>>
        BY DEF DefaultedSalt
      <4>2. IsObject(rollout)
        BY DEF IsObject
      <4>3. QED
        BY <1>1, <1>5, <2>3, <4>1, <4>2 DEF ValidRollout
    <3>4. saved.schema # 1
      BY <1>2, <1>5, <2>3
    <3>5. IsObject(rules[done])
      BY <3>1 DEF IsObject, Spread
    <3> HIDE DEF rollout
    <3>6. QED
      BY <2>1, <3>2, <3>3, <3>4, <3>5 DEF ValidRule
  <2>4. QED
    BY <2>2, <2>3
<1>12. ASSUME NEW i \in DOMAIN rules
       PROVE  /\ ValidRule(feature.type, rules[i])
              /\ UpgradedSchema(saved.schema, edit) = 1 => Plain(rules[i])
  BY <1>3, <1>6, <1>7, <1>9, <1>10, <1>11
<1> HIDE DEF feature
<1>13. QED
  BY <1>1, <1>2, <1>6, <1>8, <1>9, <1>12, RulesAccepted DEF feature, edit

\* Taking out the next ticked rule is accepted.
LEMMA DetachAccepted ==
  ASSUME NEW draft, Parsed(draft), NEW key \in DOMAIN draft.features,
         NEW form, IsForm(form), FormOf(form, draft.features[key]), Sentinels,
         NEW m \in 1..Cardinality(form.detach), NEW done \in Int,
         done = Len(RulesOf(draft.features[key])) + m,
         NEW saved, Parsed(saved), RowsSoFar(saved, draft, key, form, done - 1)
  PROVE  ApplyFlagEdit(saved, DetachOf(key, form, m)) # Refused
<1> DEFINE edit == DetachOf(key, form, m)
           old == RulesOf(draft.features[key])
           feature == saved.features[key]
           was == RulesOf(feature)
           S == form.detach
           d == LastToFirst(S)[m]
           before == Gone(S, m - 1)
           rules == RemoveAt(was, d)
<1>1. edit.kind = "detachSegment" /\ edit.index = d /\ edit.key = key
  BY DEF DetachOf
<1>2. key \in DOMAIN saved.features
  BY DEF RowsSoFar
<1>3. /\ ValidFeature(feature) /\ was \in Seq(Range(was))
      /\ DOMAIN was = 1..Len(was) /\ Len(was) \in Nat
      /\ \A i \in DOMAIN was : ValidRule(feature.type, was[i])
  BY <1>2, RulesAreArray
<1>4. Len(old) \in Nat /\ DOMAIN old = 1..Len(old)
  BY RulesAreArray
<1>5. IsFiniteSet(S) /\ S \subseteq 1..Len(old) /\ Cardinality(S) \in Nat
  BY <1>4, FS_CardinalityType DEF IsForm, FormOf
<1>6. done - 1 - Len(old) = m - 1
  BY <1>4, <1>5
<1> HIDE DEF old, S
<1>7. d \in (1..Len(old)) \ before /\ PlaceWithout(before, d) = d
  <2>1. PICK n \in Nat : n = Len(old)
    BY <1>4
  <2>2. m \in 1..Cardinality(S) /\ IsFiniteSet(S) /\ S \subseteq 1..n
    BY <1>5, <2>1 DEF S
  <2>3. d \in (1..n) \ before
    BY <2>2, NextGone
  <2>4. PlaceWithout(before, d) = d
    BY <2>2, NextGoneInPlace
  <2>5. QED
    BY <2>1, <2>3, <2>4
<1> HIDE DEF d
<1>8. d \in DOMAIN was
  <2>1. \A i \in DOMAIN old \ before : PlaceWithout(before, i) \in DOMAIN was
    BY <1>6 DEF RowsSoFar, old, S
  <2>2. QED
    BY <1>4, <1>7, <2>1
<1>9. rules \in Seq(Range(was))
  BY <1>3, <1>8, RemovedAt
<1>10. EditFeature(feature, edit) = WithRules(feature, rules)
  BY <1>1, <1>8 DEF EditFeature
<1>11. \A i \in DOMAIN was : saved.schema = 1 => Plain(was[i])
  BY <1>2 DEF Parsed, ValidSnapshot, Plain
<1>12. UpgradedSchema(saved.schema, edit) = saved.schema
  BY <1>1 DEF UpgradedSchema
<1> HIDE DEF rules, was, edit
<1>13. ASSUME NEW i \in DOMAIN rules
       PROVE  /\ ValidRule(feature.type, rules[i])
              /\ UpgradedSchema(saved.schema, edit) = 1 => Plain(rules[i])
  <2>1. rules[i] \in Range(was)
    BY <1>9, <1>13
  <2>2. PICK j \in DOMAIN was : rules[i] = was[j]
    BY <2>1 DEF Range
  <2>3. QED
    BY <1>3, <1>11, <1>12, <2>2
<1>14. IsArray(rules)
  BY <1>9, SeqIsArray
<1> HIDE DEF feature
<1>15. QED
  BY <1>1, <1>2, <1>10, <1>13, <1>14, RulesAccepted DEF feature, edit

\* So is attaching a segment, since it brings the schemaVersion along.
LEMMA AttachAccepted ==
  ASSUME NEW saved, Parsed(saved), NEW key \in DOMAIN saved.features, Sentinels,
         NEW form
  PROVE  ApplyFlagEdit(saved, AttachOf(key, form)) # Refused
<1> DEFINE edit == AttachOf(key, form)
           feature == saved.features[key]
           was == RulesOf(feature)
           new == Attached(feature, edit)
           rules == Append(was, new)
<1>1. edit.kind = "attachSegment" /\ edit.key = key
  BY DEF AttachOf
<1>2. /\ ValidFeature(feature) /\ was \in Seq(Range(was))
      /\ \A i \in DOMAIN was : ValidRule(feature.type, was[i])
  BY RulesAreArray
<1>3. ValidRule(feature.type, new)
  <2>1. feature.type \in {"boolean", "config"}
    BY <1>2 DEF ValidFeature
  <2>2. IsObject(new)
    BY DEF Attached, IsObject
  <2>3. QED
    BY <2>1, <2>2 DEF Attached, ValidRule
<1>4. EditFeature(feature, edit) = WithRules(feature, rules)
  BY <1>1 DEF EditFeature
<1>5. UpgradedSchema(saved.schema, edit) # 1
  BY <1>1 DEF UpgradedSchema
<1> HIDE DEF was, new, edit
<1>6. rules \in Seq(Range(was) \union {new})
  BY <1>2
<1> HIDE DEF rules
<1>7. ASSUME NEW i \in DOMAIN rules
      PROVE  ValidRule(feature.type, rules[i])
  <2>1. rules[i] \in Range(was) \union {new}
    BY <1>6, <1>7
  <2>2. QED
    BY <1>2, <1>3, <2>1 DEF Range
<1>8. IsArray(rules)
  BY <1>6, SeqIsArray
<1> HIDE DEF feature
<1>9. QED
  BY <1>1, <1>4, <1>5, <1>7, <1>8, RulesAccepted DEF feature, edit

-----------------------------------------------------------------------------
(* The whole Save. *)

LEMMA SameLength ==
  ASSUME NEW m \in Nat, NEW n \in Nat, 1..m = 1..n
  PROVE  m = n
<1>1. m \in 1..n \/ m = 0
  OBVIOUS
<1>2. n \in 1..m \/ n = 0
  OBVIOUS
<1>3. QED
  BY <1>1, <1>2

LEMMA RowsFirst ==
  ASSUME NEW draft, Parsed(draft), NEW key \in DOMAIN draft.features,
         NEW form, IsForm(form), FormOf(form, draft.features[key]),
         NEW done \in Int, done <= 0
  PROVE  RowsSoFar(draft, draft, key, form, done)
<1> DEFINE old == RulesOf(draft.features[key])
<1>1. IsArray(old) /\ Len(old) \in Nat
  BY RulesAreArray DEF IsArray
<1>2. PICK m \in Int : m = done - Len(old) /\ m <= 0
  BY <1>1
<1>3. /\ Gone(form.detach, m) = {} /\ Cardinality({}) = 0
      /\ \A i \in DOMAIN old : PlaceWithout({}, i) = i /\ i \in Int /\ i >= 1
  BY <1>1, <1>2, NobodyGone
<1>4. \A i \in DOMAIN old : ~(i <= done)
  BY <1>3
<1>5. \A i \in DOMAIN old : RuleKept(old[i], old[i])
  BY DEF RuleKept
<1> HIDE DEF old
<1>6. Len(old) = Len(old) - 0
  BY <1>1
<1>7. QED
  BY <1>2, <1>3, <1>4, <1>5, <1>6 DEF RowsSoFar, old

\* Each edit up to the last ticked rule does its part, and is accepted when the
\* form is in order.
LEMMA RowsNext ==
  ASSUME NEW draft, Parsed(draft), NEW key \in DOMAIN draft.features,
         NEW form, IsForm(form), FormOf(form, draft.features[key]), Sentinels,
         NEW i \in 1..Ahead(form) + Len(form.rollout) + Cardinality(form.detach),
         NEW saved, Parsed(saved), NEW done \in Int, done = i - Ahead(form),
         RowsSoFar(saved, draft, key, form, done - 1),
         NEW edit, edit = ParseSave(key, form)[i]
  PROVE  /\ IsSaveEdit(edit, key, form)
         /\ ~Refusable(draft, form) => ApplyFlagEdit(saved, edit) # Refused
         /\ ApplyFlagEdit(saved, edit) # Refused =>
              RowsSoFar(ApplyFlagEdit(saved, edit), draft, key, form, done)
<1> DEFINE p == Ahead(form)
           n == Len(form.rollout)
           c == Cardinality(form.detach)
           edits == ParseSave(key, form)
<1>1. /\ n \in Nat /\ c \in Nat
      /\ Len(edits) = p + n + c + (IF form.segment = Blank THEN 0 ELSE 1)
      /\ edits[1] = EnabledOf(key, form)
      /\ p = 2 => edits[2] = DefaultOf(key, form)
      /\ \A j \in 1..n : edits[p + j] = RolloutOf(key, form, j)
      /\ \A m \in 1..c : edits[p + n + m] = DetachOf(key, form, m)
  BY SaveList
<1>2. p \in {1, 2} /\ (p = 1 <=> form.default = Undefined)
  BY DEF Ahead
<1>3. n = Len(RulesOf(draft.features[key])) /\ DOMAIN form.rollout = 1..n
  <2>1. /\ DOMAIN form.rollout = 1..n
        /\ DOMAIN RulesOf(draft.features[key]) = 1..Len(RulesOf(draft.features[key]))
        /\ Len(RulesOf(draft.features[key])) \in Nat
    BY RulesAreArray DEF IsForm, IsArray
  <2>2. 1..n = 1..Len(RulesOf(draft.features[key]))
    BY <2>1 DEF FormOf
  <2> HIDE DEF n
  <2>3. QED
    BY <1>1, <2>1, <2>2
<1> HIDE DEF p, n, c, edits
<1>4. IsSaveEdit(edit, key, form)
  <2>1. i \in 1..Len(edits)
    <3>1. PICK last \in Nat : last = p + n + c
      BY <1>1, <1>2
    <3>2. i \in 1..last
      BY <3>1 DEF p, n, c
    <3>3. Len(edits) \in Nat /\ last <= Len(edits)
      BY <1>1, <1>2, <3>1
    <3>4. QED
      BY <3>1, <3>2, <3>3
  <2>2. \A j \in 1..Len(edits) : IsSaveEdit(edits[j], key, form)
    BY SaveIsEdits DEF edits
  <2>3. QED
    BY <2>1, <2>2 DEF edits
<1>5. /\ key \in DOMAIN saved.features
      /\ saved.features[key].type = draft.features[key].type
  BY DEF RowsSoFar
<1>6. CASE i = 1
  <2>1. edit.kind = "enabled" /\ edit.key = key
    BY <1>1, <1>6 DEF EnabledOf, edits
  <2>2. done <= 0
    BY <1>2, <1>6 DEF p
  <2>3. ApplyFlagEdit(saved, edit) # Refused
    BY <1>5, <2>1, FieldAccepted
  <2>4. RowsSoFar(ApplyFlagEdit(saved, edit), draft, key, form, done)
    BY <1>4, <2>1, <2>2, <2>3, RowsUntouched
  <2>5. QED
    BY <1>4, <2>3, <2>4
<1>7. CASE i = 2 /\ p = 2
  <2>1. edit.kind = "default" /\ edit.key = key /\ edit.default = form.default
    BY <1>1, <1>7 DEF DefaultOf, edits
  <2>2. done <= 0
    BY <1>2, <1>7 DEF p
  <2>3. draft.features[key].type # "boolean"
    BY <1>2, <1>7 DEF FormOf
  <2>4. ASSUME ~Refusable(draft, form)
        PROVE  ApplyFlagEdit(saved, edit) # Refused
    <3>1. edit.default # Malformed
      BY <2>1, <2>4 DEF Refusable
    <3>2. QED
      BY <1>5, <2>1, <2>3, <3>1, FieldAccepted
  <2>5. ASSUME ApplyFlagEdit(saved, edit) # Refused
        PROVE  RowsSoFar(ApplyFlagEdit(saved, edit), draft, key, form, done)
    BY <1>4, <2>1, <2>2, <2>5, RowsUntouched
  <2>6. QED
    BY <1>4, <2>4, <2>5
<1>8. CASE done \in 1..n
  <2>1. i = p + done
    BY <1>2 DEF p
  <2>2. done \in DOMAIN form.rollout /\ edit = RolloutOf(key, form, done)
    BY <1>1, <1>3, <1>8, <2>1 DEF edits
  <2>3. ASSUME ~Refusable(draft, form)
        PROVE  ApplyFlagEdit(saved, edit) # Refused
    BY <2>2, <2>3, RowAccepted
  <2>4. ASSUME ApplyFlagEdit(saved, edit) # Refused
        PROVE  RowsSoFar(ApplyFlagEdit(saved, edit), draft, key, form, done)
    BY <1>4, <2>2, <2>4, RowDone
  <2>5. QED
    BY <1>4, <2>3, <2>4
<1>9. CASE done > n
  <2>1. PICK m \in Int : done = n + m
    <3>1. done - n \in Int /\ done = n + (done - n)
      BY <1>1
    <3>2. QED
      BY <3>1
  <2>2. i = p + n + m /\ m \in 1..c
    <3>1. i = p + done /\ i <= p + n + c
      BY <1>1, <1>2 DEF p, n, c
    <3>2. QED
      BY <1>1, <1>2, <1>9, <2>1, <3>1
  <2>3. edit = DetachOf(key, form, m)
    BY <1>1, <2>2 DEF edits
  <2>4. m \in 1..Cardinality(form.detach) /\ done = Len(RulesOf(draft.features[key])) + m
    BY <1>3, <2>1, <2>2 DEF c
  <2>5. ApplyFlagEdit(saved, edit) # Refused
    BY <2>3, <2>4, DetachAccepted
  <2>6. RowsSoFar(ApplyFlagEdit(saved, edit), draft, key, form, done)
    BY <1>4, <2>3, <2>4, <2>5, RowGone
  <2>7. QED
    BY <1>4, <2>5, <2>6
<1>10. i = 1 \/ (i = 2 /\ p = 2) \/ done \in 1..n \/ done > n
  BY <1>1, <1>2 DEF p, n, c
<1>11. QED
  BY <1>6, <1>7, <1>8, <1>9, <1>10

\* What a Save leaves of the rules: each that was not taken out, in its place and
\* with the rollout of its row, and the attached one at the end.
RulesSaved(old, rules, form) ==
  /\ Len(rules) = Len(old) - Cardinality(form.detach)
                    + (IF form.segment = Blank THEN 0 ELSE 1)
  /\ \A i \in DOMAIN old \ form.detach :
       LET new == rules[PlaceWithout(form.detach, i)] IN
       RuleKept(old[i], new) /\ RowShown(new, form.rollout[i])
  /\ form.segment # Blank => UsesSegment(Last(rules))

LEMMA RowsSaved ==
  ASSUME NEW draft, Parsed(draft), NEW key \in DOMAIN draft.features,
         NEW form, IsForm(form), FormOf(form, draft.features[key]), Sentinels
  PROVE  LET staged == Staged(draft, ParseSave(key, form))
                         [Ahead(form) + Len(form.rollout) + Cardinality(form.detach)]
         IN /\ ~Refusable(draft, form) => staged # Refused
            /\ staged # Refused =>
                 /\ Parsed(staged)
                 /\ RowsSoFar(staged, draft, key, form,
                              Len(form.rollout) + Cardinality(form.detach))
<1> DEFINE p == Ahead(form)
           n == Len(form.rollout)
           c == Cardinality(form.detach)
           edits == ParseSave(key, form)
           staged == Staged(draft, edits)
           In(i) == /\ ~Refusable(draft, form) => staged[i] # Refused
                    /\ staged[i] # Refused =>
                         /\ Parsed(staged[i])
                         /\ RowsSoFar(staged[i], draft, key, form, i - p)
           count == p + n + c
           G == {i \in 0..count : In(i)}
<1>1. /\ n \in Nat /\ c \in Nat
      /\ Len(edits) = p + n + c + (IF form.segment = Blank THEN 0 ELSE 1)
  BY SaveList
<1>2. p \in {1, 2}
  BY DEF Ahead
<1> HIDE DEF p, n, c, edits
<1>3. Len(edits) \in Nat /\ count \in Nat /\ \A i \in 1..count : i \in 1..Len(edits)
  BY <1>1, <1>2
<1>4. 0 \in G
  <2>1. staged[0] = draft
    BY <1>3, StagedFirst
  <2>2. 0 - p \in Int /\ 0 - p <= 0 /\ 0 \in 0..count
    BY <1>2, <1>3
  <2>3. RowsSoFar(draft, draft, key, form, 0 - p)
    BY <2>2, RowsFirst
  <2>4. draft # Refused
    <3>1. IsObject(draft)
      BY DEF Parsed, Shaped, IsObject
    <3>2. QED
      BY <3>1 DEF Sentinels
  <2> HIDE DEF staged, count
  <2>5. QED
    BY <2>1, <2>2, <2>3, <2>4
<1>5. ASSUME NEW i \in 1..count, i - 1 \in G
      PROVE  i \in G
  <2>1. staged[i] = StagedStep(staged[i - 1], edits[i])
    BY <1>3, StagedNext
  <2> HIDE DEF staged
  <2>2. /\ i \in 0..count /\ (i - 1) - p = (i - p) - 1 /\ i - p \in Int
        /\ i \in 1..Ahead(form) + Len(form.rollout) + Cardinality(form.detach)
    BY <1>2, <1>3 DEF p, n, c
  <2> HIDE DEF count
  <2>3. In(i - 1)
    BY <1>5
  <2>4. CASE staged[i - 1] = Refused
    <3>1. staged[i] = Refused
      BY <2>1, <2>4 DEF StagedStep
    <3>2. QED
      BY <2>2, <2>3, <2>4, <3>1
  <2>5. CASE staged[i - 1] # Refused
    <3>1. staged[i] = ApplyFlagEdit(staged[i - 1], edits[i])
      BY <2>1, <2>5 DEF StagedStep
    <3>2. /\ Parsed(staged[i - 1])
          /\ RowsSoFar(staged[i - 1], draft, key, form, (i - p) - 1)
      BY <2>2, <2>3, <2>5
    <3>3. PICK done \in Int : done = i - p
      BY <2>2
    <3>4. /\ IsSaveEdit(edits[i], key, form)
          /\ ~Refusable(draft, form) => staged[i] # Refused
          /\ staged[i] # Refused => RowsSoFar(staged[i], draft, key, form, done)
      BY <2>2, <3>1, <3>2, <3>3, RowsNext DEF edits, p
    <3>5. staged[i] # Refused => Parsed(staged[i])
      BY <3>1, <3>2, <3>4, EditKeepsParsed DEF IsSaveEdit
    <3>6. QED
      BY <2>2, <3>3, <3>4, <3>5
  <2>6. QED
    BY <2>4, <2>5
<1>6. count \in G
  <2> HIDE DEF G
  <2>1. count \in 0..count
    BY <1>3
  <2> HIDE DEF count
  <2>2. QED
    BY <1>3, <1>4, <1>5, <2>1, StepByStep
<1>7. In(count) /\ count - p = n + c
  <2>1. count - p = n + c
    BY <1>1, <1>2
  <2>2. QED
    BY <1>6, <2>1
<1>8. QED
  BY <1>7 DEF staged, edits, p, n, c

LEMMA RowsLast ==
  ASSUME NEW draft, NEW key, NEW form, NEW saved, NEW done,
         RowsSoFar(saved, draft, key, form, done),
         LET old == RulesOf(draft.features[key]) IN
         /\ Gone(form.detach, done - Len(old)) = form.detach
         /\ \A i \in DOMAIN old : i <= done
  PROVE  LET old == RulesOf(draft.features[key])
             was == RulesOf(saved.features[key])
         IN /\ Len(was) = Len(old) - Cardinality(form.detach)
            /\ \A i \in DOMAIN old \ form.detach :
                 LET place == PlaceWithout(form.detach, i) IN
                 /\ place \in DOMAIN was /\ RuleKept(old[i], was[place])
                 /\ RowShown(was[place], form.rollout[i])
BY DEF RowsSoFar

\* A Save is refused only where it has to be, and leaves the rules as the form
\* shows them.
LEMMA SaveRules ==
  ASSUME NEW draft, Parsed(draft), NEW key \in DOMAIN draft.features,
         NEW form, IsForm(form), FormOf(form, draft.features[key]), Sentinels,
         NEW saved, saved = Save(draft, key, form)
  PROVE  IF saved = Refused THEN Refusable(draft, form)
         ELSE RulesSaved(RulesOf(draft.features[key]), RulesOf(saved.features[key]), form)
<1> DEFINE old == RulesOf(draft.features[key])
           p == Ahead(form)
           n == Len(form.rollout)
           c == Cardinality(form.detach)
           edits == ParseSave(key, form)
           staged == Staged(draft, edits)
           last == staged[p + n + c]
           was == RulesOf(last.features[key])
<1>1. /\ n \in Nat /\ c \in Nat
      /\ Len(edits) = p + n + c + (IF form.segment = Blank THEN 0 ELSE 1)
      /\ form.segment # Blank => edits[p + n + c + 1] = AttachOf(key, form)
  BY SaveList
<1>2. p \in {1, 2}
  BY DEF Ahead
<1>3. /\ ~Refusable(draft, form) => last # Refused
      /\ last # Refused => Parsed(last) /\ RowsSoFar(last, draft, key, form, n + c)
  BY RowsSaved
<1>4. saved = IF CanAttach(form) THEN staged[Len(edits)] ELSE Refused
  BY DEF Save, StageAll
<1>5. ~CanAttach(form) => Refusable(draft, form)
  BY DEF Refusable
<1>6. n = Len(old) /\ Len(old) \in Nat /\ DOMAIN old = 1..Len(old)
  <2>1. /\ DOMAIN form.rollout = 1..n
        /\ DOMAIN old = 1..Len(old)
        /\ Len(old) \in Nat
    BY RulesAreArray DEF IsForm, IsArray
  <2>2. 1..n = 1..Len(old)
    BY <2>1 DEF FormOf
  <2> HIDE DEF n, old
  <2>3. n = Len(old)
    BY <1>1, <2>1, <2>2, SameLength
  <2>4. QED
    BY <2>1, <2>3
<1>7. Gone(form.detach, c) = form.detach
  <2>1. IsFiniteSet(form.detach) /\ form.detach \subseteq Nat
    BY <1>6 DEF IsForm, FormOf
  <2>2. c \in Int
    BY <1>1
  <2>3. QED
    BY <2>1, <2>2, GoneFirst
<1>8. ASSUME last # Refused
      PROVE  /\ key \in DOMAIN last.features
             /\ was \in Seq(Range(was)) /\ DOMAIN was = 1..Len(was) /\ Len(was) \in Nat
             /\ Len(was) = Len(old) - c
             /\ \A i \in DOMAIN old \ form.detach :
                  LET place == PlaceWithout(form.detach, i) IN
                  /\ place \in DOMAIN was /\ RuleKept(old[i], was[place])
                  /\ RowShown(was[place], form.rollout[i])
  <2>1. Parsed(last) /\ RowsSoFar(last, draft, key, form, n + c)
    BY <1>3, <1>8
  <2> HIDE DEF last
  <2>2. key \in DOMAIN last.features
    BY <2>1 DEF RowsSoFar
  <2>3. /\ was \in Seq(Range(was)) /\ DOMAIN was = 1..Len(was) /\ Len(was) \in Nat
    BY <2>1, <2>2, RulesAreArray
  <2> HIDE DEF n, c
  <2>4. n + c - Len(old) = c /\ \A i \in DOMAIN old : i <= n + c
    BY <1>1, <1>6
  <2> HIDE DEF old, was
  <2>5. PICK done \in Int : done = n + c
    BY <1>1
  <2>6. /\ Len(was) = Len(old) - c
        /\ \A i \in DOMAIN old \ form.detach :
             LET place == PlaceWithout(form.detach, i) IN
             /\ place \in DOMAIN was /\ RuleKept(old[i], was[place])
             /\ RowShown(was[place], form.rollout[i])
    <3>1. RowsSoFar(last, draft, key, form, done)
      BY <2>1, <2>5
    <3>2. Gone(form.detach, done - Len(old)) = form.detach
      <4>1. done - Len(old) = c
        BY <1>1, <1>6, <2>4, <2>5
      <4>2. QED
        BY <1>7, <4>1
    <3>3. \A i \in DOMAIN old : i <= done
      BY <1>6, <2>4, <2>5
    <3>4. QED
      BY <3>1, <3>2, <3>3, RowsLast DEF old, was, c
  <2>7. QED
    BY <2>2, <2>3, <2>6
<1> HIDE DEF n, c, p, edits, old, was
<1>9. CASE form.segment = Blank
  <2>1. Len(edits) = p + n + c
    BY <1>1, <1>2, <1>9
  <2>2. CanAttach(form) /\ saved = last
    BY <1>4, <1>9, <2>1 DEF CanAttach
  <2> HIDE DEF last
  <2>3. ASSUME saved # Refused
        PROVE  RulesSaved(old, was, form)
    <3>1. Len(was) = Len(old) - c + 0
      BY <1>1, <1>6, <1>8, <2>2, <2>3
    <3>2. QED
      BY <1>8, <1>9, <2>2, <2>3, <3>1 DEF RulesSaved, c
  <2>4. QED
    BY <1>3, <2>2, <2>3 DEF old, was
<1>10. CASE form.segment # Blank
  <2> DEFINE attach == AttachOf(key, form)
             rules == Append(was, Attached(last.features[key], attach))
  <2>1. /\ Len(edits) = p + n + c + 1 /\ Len(edits) \in Nat
        /\ p + n + c + 1 \in 1..Len(edits) /\ p + n + c + 1 - 1 = p + n + c
    BY <1>1, <1>2, <1>10
  <2>2. staged[Len(edits)] = StagedStep(last, attach)
    <3>1. PICK k \in 1..Len(edits) : k = Len(edits) /\ k - 1 = p + n + c
      BY <1>1, <1>2, <2>1
    <3>2. staged[k] = StagedStep(staged[k - 1], edits[k])
      BY <2>1, StagedNext
    <3>3. edits[k] = attach
      BY <1>1, <1>10, <2>1, <3>1
    <3> HIDE DEF staged, attach
    <3>4. QED
      BY <3>1, <3>2, <3>3
  <2> HIDE DEF staged, last
  <2>3. CASE ~CanAttach(form)
    BY <1>4, <1>5, <2>3
  <2>4. CASE CanAttach(form) /\ last = Refused
    BY <1>3, <1>4, <2>2, <2>4 DEF StagedStep
  <2>5. CASE CanAttach(form) /\ last # Refused
    <3>1. saved = ApplyFlagEdit(last, attach)
      BY <1>4, <2>2, <2>5 DEF StagedStep
    <3>2. Parsed(last) /\ key \in DOMAIN last.features
      BY <1>3, <1>8, <2>5
    <3>3. saved # Refused
      BY <3>1, <3>2, AttachAccepted
    <3>4. /\ attach.kind = "attachSegment" /\ attach.key = key /\ IsEdit(attach)
      BY DEF AttachOf, IsEdit, FieldsOf
    <3>5. RulesOf(saved.features[key]) = RulesAfter(was, Attached(last.features[key], attach), attach)
      BY <3>1, <3>2, <3>3, <3>4, EditApplied DEF was
    <3>6. RulesOf(saved.features[key]) = rules
      BY <3>4, <3>5 DEF RulesAfter
    <3>7. /\ Len(rules) = Len(was) + 1 /\ rules[Len(was) + 1] = Attached(last.features[key], attach)
          /\ \A j \in DOMAIN was : rules[j] = was[j]
      BY <1>8, <2>5
    <3>8. UsesSegment(Attached(last.features[key], attach))
      BY DEF UsesSegment, Attached
    <3> HIDE DEF rules, attach
    <3>9. UsesSegment(Last(rules))
      BY <3>7, <3>8 DEF Last
    <3>10. Len(rules) = Len(old) - c + 1
      BY <1>1, <1>6, <1>8, <2>5, <3>7
    <3>11. RulesSaved(old, rules, form)
      BY <1>8, <1>10, <2>5, <3>7, <3>9, <3>10 DEF RulesSaved, c
    <3>12. QED
      BY <3>3, <3>6, <3>11 DEF old
  <2>6. QED
    BY <2>3, <2>4, <2>5
<1>11. QED
  BY <1>9, <1>10

-----------------------------------------------------------------------------
(* A form whose rows were not touched. *)

\* A form in which nothing was touched that is about the rules of its flag.
RulesUntouched(form, feature) ==
  /\ form.rollout = RenderedForm(feature).rollout
  /\ form.detach = {} /\ form.segment = Blank

\* A row that was not touched edits its rule into the same rule.
LEMMA RowAgain ==
  ASSUME NEW type, NEW rule, ValidRule(type, rule), Sentinels, NEW form, NEW i, NEW key,
         form.rollout[i] = Field(rule, "rollout")
  PROVE  LET edit == RolloutOf(key, form, i) IN
         /\ EditedRule(rule, edit) = rule
         /\ edit.kind \in {"setRollout", "removeRollout"} /\ edit.index = i
<1> DEFINE edit == RolloutOf(key, form, i)
<1>1. IsObject(rule)
  BY DEF ValidRule
<1>2. CASE "rollout" \notin DOMAIN rule
  <2>1. edit = [kind |-> "removeRollout", key |-> key, index |-> i]
    BY <1>2 DEF RolloutOf, Field
  <2>2. EditedRule(rule, edit) = [f \in DOMAIN rule \ {"rollout"} |-> rule[f]]
    BY <2>1 DEF EditedRule
  <2>3. DOMAIN rule \ {"rollout"} = DOMAIN rule
    BY <1>2
  <2>4. QED
    BY <1>1, <2>1, <2>2, <2>3 DEF IsObject
<1>3. CASE "rollout" \in DOMAIN rule
  <2> DEFINE row == rule.rollout
  <2>1. /\ IsObject(row) /\ DOMAIN row = {"percentage", "bucketBy", "salt"}
        /\ row.salt # <<>>
    BY <1>3 DEF ValidRule, ValidRollout
  <2>2. edit = Spread(row, [kind |-> "setRollout", key |-> key, index |-> i])
    BY <1>3, <2>1 DEF RolloutOf, Field, Sentinels
  <2>3. /\ edit.kind = "setRollout" /\ edit.index = i
        /\ edit.percentage = row.percentage /\ edit.bucketBy = row.bucketBy
        /\ edit.salt = row.salt
    BY <2>1, <2>2 DEF Spread
  <2> HIDE DEF edit
  <2>4. DefaultedSalt(edit) = row.salt
    BY <2>1, <2>3 DEF DefaultedSalt
  <2> DEFINE again == [percentage |-> edit.percentage, bucketBy |-> edit.bucketBy,
                       salt |-> DefaultedSalt(edit)]
  <2>5. again = row
    <3>1. row = [f \in {"percentage", "bucketBy", "salt"} |-> row[f]]
      BY <2>1 DEF IsObject
    <3> HIDE DEF row
    <3>2. QED
      BY <2>3, <2>4, <3>1
  <2>6. EditedRule(rule, edit) = Spread(rule, [rollout |-> again])
    BY <2>3 DEF EditedRule
  <2>7. Spread(rule, [rollout |-> row]) = [f \in DOMAIN rule |-> rule[f]]
    <3> DEFINE over == [rollout |-> row]
    <3>1. DOMAIN over = {"rollout"} /\ over["rollout"] = rule["rollout"]
      OBVIOUS
    <3> HIDE DEF over
    <3>2. DOMAIN rule \union DOMAIN over = DOMAIN rule
      BY <1>3, <3>1
    <3>3. \A f \in DOMAIN rule : (IF f \in DOMAIN over THEN over[f] ELSE rule[f]) = rule[f]
      BY <3>1
    <3>4. Spread(rule, over) = [f \in DOMAIN rule |-> rule[f]]
      BY <3>2, <3>3 DEF Spread
    <3>5. QED
      BY <3>4 DEF over
  <2>8. QED
    BY <1>1, <2>3, <2>5, <2>6, <2>7 DEF IsObject, edit
<1>4. QED
  BY <1>2, <1>3

\* What is untouched in the form is left as it was by each edit of the form, ...
LEMMA EditKeepsRules ==
  ASSUME NEW draft, Parsed(draft), NEW key \in DOMAIN draft.features,
         NEW form, IsForm(form), RulesUntouched(form, draft.features[key]), Sentinels,
         NEW saved, Parsed(saved), key \in DOMAIN saved.features,
         RulesOf(saved.features[key]) = RulesOf(draft.features[key]),
         saved.features[key].type = draft.features[key].type,
         NEW i \in 1..Len(ParseSave(key, form)),
         ApplyFlagEdit(saved, ParseSave(key, form)[i]) # Refused
  PROVE  LET after == ApplyFlagEdit(saved, ParseSave(key, form)[i]) IN
         /\ Parsed(after) /\ key \in DOMAIN after.features
         /\ RulesOf(after.features[key]) = RulesOf(draft.features[key])
         /\ after.features[key].type = draft.features[key].type
<1> DEFINE edits == ParseSave(key, form)
           edit == edits[i]
           after == ApplyFlagEdit(saved, edit)
           old == RulesOf(draft.features[key])
           p == Ahead(form)
           n == Len(form.rollout)
<1>1. IsSaveEdit(edit, key, form) /\ Len(edits) \in Nat
  BY SaveIsEdits
<1>2. Parsed(after)
  BY <1>1, EditKeepsParsed DEF IsSaveEdit
<1>3. /\ DOMAIN after.features = DOMAIN saved.features
      /\ after.features[key].type = saved.features[key].type
      /\ RulesOf(after.features[key]) =
           IF edit.kind \in {"enabled", "default"} THEN old
           ELSE RulesAfter(old, Attached(saved.features[key], edit), edit)
  BY <1>1, EditApplied DEF IsSaveEdit
<1>4. /\ old \in Seq(Range(old)) /\ DOMAIN old = 1..Len(old)
      /\ \A j \in DOMAIN old : ValidRule(draft.features[key].type, old[j])
  BY RulesAreArray
<1>5. /\ n \in Nat
      /\ Cardinality(form.detach) = 0
      /\ Len(edits) = p + n + 0 + 0
      /\ edits[1] = EnabledOf(key, form)
      /\ p = 2 => edits[2] = DefaultOf(key, form)
      /\ \A j \in 1..n : edits[p + j] = RolloutOf(key, form, j)
  <2>1. Cardinality(form.detach) = 0
    BY FS_EmptySet DEF RulesUntouched
  <2>2. QED
    BY <2>1, SaveList DEF RulesUntouched
<1>6. p \in {1, 2}
  BY DEF Ahead
<1>7. /\ DOMAIN form.rollout = DOMAIN old /\ DOMAIN form.rollout = 1..n
      /\ \A j \in DOMAIN old : form.rollout[j] = Field(old[j], "rollout")
  BY DEF RulesUntouched, RenderedForm, IsForm, IsArray
<1> HIDE DEF edits, old, n, p, after
<1>8. CASE i = 1
  BY <1>2, <1>3, <1>5, <1>8 DEF EnabledOf, old, after, edits
<1>9. CASE i = 2 /\ p = 2
  BY <1>2, <1>3, <1>5, <1>9 DEF DefaultOf, old, after, edits
<1>10. CASE i > p
  <2>1. PICK j \in 1..n : i = p + j
    <3>1. i - p \in 1..n /\ i = p + (i - p)
      BY <1>5, <1>6, <1>10 DEF edits
    <3>2. QED
      BY <3>1
  <2>2. j \in DOMAIN old /\ edit = RolloutOf(key, form, j)
    BY <1>5, <1>7, <2>1
  <2>3. /\ EditedRule(old[j], edit) = old[j] /\ edit.index = j
        /\ edit.kind \in {"setRollout", "removeRollout"}
    BY <1>4, <1>7, <2>2, RowAgain
  <2> HIDE DEF edit
  <2>4. RulesAfter(old, Attached(saved.features[key], edit), edit) = [old EXCEPT ![j] = old[j]]
    BY <2>3 DEF RulesAfter
  <2>5. [old EXCEPT ![j] = old[j]] = old
    BY <1>4
  <2>6. QED
    BY <1>2, <1>3, <2>3, <2>4, <2>5 DEF after, old, edit, edits
<1>11. QED
  <2>1. i \in 1..Len(edits)
    BY DEF edits
  <2>2. i = 1 \/ (i = 2 /\ p = 2) \/ i > p
    BY <1>1, <1>6, <2>1
  <2>3. QED
    BY <1>8, <1>9, <1>10, <2>2

\* ... and so by the Save: of a form that is sent as it was rendered, the rules
\* are what they were, although every row of it is an edit.
LEMMA SaveKeepsRules ==
  ASSUME NEW draft, Parsed(draft), NEW key \in DOMAIN draft.features,
         NEW form, IsForm(form), RulesUntouched(form, draft.features[key]), Sentinels,
         Save(draft, key, form) # Refused
  PROVE  LET saved == Save(draft, key, form) IN
         /\ RulesOf(saved.features[key]) = RulesOf(draft.features[key])
         /\ saved.features[key].type = draft.features[key].type
<1> DEFINE edits == ParseSave(key, form)
           staged == Staged(draft, edits)
           Same(s) == /\ Parsed(s) /\ key \in DOMAIN s.features
                      /\ RulesOf(s.features[key]) = RulesOf(draft.features[key])
                      /\ s.features[key].type = draft.features[key].type
           G == {i \in 0..Len(edits) : staged[i] = Refused \/ Same(staged[i])}
<1>1. Len(edits) \in Nat
  BY SaveIsEdits
<1>2. 0 \in G
  BY <1>1, StagedFirst
<1>3. ASSUME NEW i \in 1..Len(edits), i - 1 \in G
      PROVE  i \in G
  <2>1. staged[i] = StagedStep(staged[i - 1], edits[i])
    BY <1>1, StagedNext
  <2> DEFINE was == staged[i - 1]
  <2>2. was = Refused \/ Same(was)
    BY <1>3
  <2>3. i \in 0..Len(edits)
    BY <1>1
  <2> HIDE DEF staged
  <2>4. CASE was = Refused \/ ApplyFlagEdit(was, edits[i]) = Refused
    BY <2>1, <2>3, <2>4 DEF StagedStep
  <2>5. CASE was # Refused /\ ApplyFlagEdit(was, edits[i]) # Refused
    <3>1. staged[i] = ApplyFlagEdit(was, edits[i]) /\ Same(was)
      BY <2>1, <2>2, <2>5 DEF StagedStep
    <3> HIDE DEF was
    <3>2. Same(ApplyFlagEdit(was, edits[i]))
      BY <2>5, <3>1, EditKeepsRules
    <3>3. QED
      BY <2>3, <3>1, <3>2
  <2>6. QED
    BY <2>4, <2>5
<1>4. Len(edits) \in G
  <2> HIDE DEF G
  <2>1. PICK n \in Nat : n = Len(edits) /\ n \in 0..n
    BY <1>1
  <2> HIDE DEF edits
  <2>2. \A i \in 0..n : i \in G
    BY <1>2, <1>3, <2>1, StepByStep
  <2>3. QED
    BY <2>1, <2>2
<1>5. Save(draft, key, form) = staged[Len(edits)]
  BY DEF Save, StageAll
<1>6. QED
  BY <1>4, <1>5
=============================================================================
