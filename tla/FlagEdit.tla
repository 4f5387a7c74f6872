------------------------------- MODULE FlagEdit -------------------------------
(***************************************************************************)
(* Editing the flags of a snapshot in the dashboard: the edits             *)
(* (domain/flag-edit.ts), the Save form that is folded into a list of them *)
(* (infrastructure/http-server.ts), whether an edit may be replayed on a   *)
(* newer version, and the diff shown in a review (domain/snapshot-diff.ts).*)
(*                                                                         *)
(* The author and the reason that every edit writes are left out.  Rules   *)
(* are numbered from 1.                                                    *)
(***************************************************************************)
EXTENDS Evaluation, FiniteSets

CONSTANTS
  Refused,        \* an edit that is refused
  Malformed,      \* text that is not JSON
  Listed          \* the segments published, each with its member attribute
                  \* or Undefined when the pointer does not record it

-----------------------------------------------------------------------------
(* One edit. *)

\* { ...object, ...over }
Spread(object, over) ==
  [f \in DOMAIN object \union DOMAIN over |->
     IF f \in DOMAIN over THEN over[f] ELSE object[f]]

\* A key that is no key is the empty string.
Created(edit) ==
  IF edit.type = "boolean"
  THEN [type |-> "boolean", enabled |-> edit.enabled]
  ELSE [type |-> "config", enabled |-> edit.enabled, default |-> edit.default]

WithRules(feature, rules) == Spread(feature, [rules |-> rules])

SaltOfFlag(edit) == IF edit.salt = <<>> THEN <<"rule", edit.key>> ELSE edit.salt

\* A salt is a tuple, so that a blank one, <<>>, can become the address of its
\* rule, "<key>-rule-<index>".
DefaultedSalt(edit) ==
  IF edit.salt = <<>> THEN <<"rule", edit.key, edit.index>> ELSE edit.salt

EditedRule(rule, edit) ==
  IF edit.kind = "removeRollout"
  THEN [f \in DOMAIN rule \ {"rollout"} |-> rule[f]]
  ELSE Spread(rule, [rollout |-> [percentage |-> edit.percentage,
                                  bucketBy   |-> edit.bucketBy,
                                  salt       |-> DefaultedSalt(edit)]])

Attached(feature, edit) ==
  LET when == [a \in {edit.attribute} |-> [op |-> "inSegment", operand |-> edit.segment]]
  IN IF feature.type = "config"
     THEN [when |-> when, value |-> edit.value]
     ELSE [when |-> when, enabled |-> TRUE]

EditFeature(feature, edit) ==
  LET rules == RulesOf(feature) IN
  CASE edit.kind = "enabled" -> [feature EXCEPT !.enabled = edit.enabled]
    [] edit.kind = "default" ->
         IF feature.type = "boolean" \/ edit.default = Malformed
         THEN Refused ELSE [feature EXCEPT !.default = edit.default]
    [] edit.kind = "setRules" ->
         IF edit.rules = Malformed THEN Refused ELSE WithRules(feature, edit.rules)
    [] edit.kind = "attachSegment" ->
         WithRules(feature, Append(rules, Attached(feature, edit)))
    [] edit.kind = "setRollout" /\ edit.percentage \notin Percentages -> Refused
    [] OTHER ->            \* the edits that address one rule
         CASE edit.index \notin DOMAIN rules -> Refused
           [] edit.index \in DOMAIN rules /\ edit.kind = "detachSegment" ->
                WithRules(feature, RemoveAt(rules, edit.index))
           [] OTHER ->
                WithRules(feature, [rules EXCEPT ![edit.index] =
                                      EditedRule(rules[edit.index], edit)])

EditFeatures(features, edit) ==
  CASE edit.kind = "create" ->
         IF \/ edit.key = Blank
            \/ edit.key \in DOMAIN features
            \/ edit.type = "config" /\ edit.default = Malformed
         THEN Refused ELSE Spread(features, [k \in {edit.key} |-> Created(edit)])
    [] edit.kind # "create" /\ edit.key \notin DOMAIN features -> Refused
    [] edit.kind = "delete" /\ edit.key \in DOMAIN features ->
         [k \in DOMAIN features \ {edit.key} |-> features[k]]
    [] OTHER ->
         LET edited == EditFeature(features[edit.key], edit) IN
         IF edited = Refused THEN Refused
         ELSE [features EXCEPT ![edit.key] = edited]

\* Attaching a segment carries the snapshot up to schemaVersion 2.
UpgradedSchema(schema, edit) == IF edit.kind = "attachSegment" THEN 2 ELSE schema

\* Broken: the edited snapshot is not validated again.
ApplyUnvalidated(snapshot, edit) ==
  LET features == EditFeatures(snapshot.features, edit) IN
  IF features = Refused THEN Refused
  ELSE [schema |-> UpgradedSchema(snapshot.schema, edit), features |-> features]

ApplyFlagEdit(snapshot, edit) ==
  LET features == EditFeatures(snapshot.features, edit)
      next     == [schema   |-> UpgradedSchema(snapshot.schema, edit),
                   features |-> features]
  IN IF features = Refused \/ (features # Refused /\ ~ValidSnapshot(next))
     THEN Refused ELSE next

-----------------------------------------------------------------------------
(* Replaying an edit on a newer version. *)

TouchedDeleting(edit) ==
  IF edit.kind = "default" THEN {"type", "default"}
  ELSE IF edit.kind \in {"enabled", "delete"} THEN {"enabled"} ELSE {"rules"}

TouchedFields(edit) ==
  CASE edit.kind = "enabled" -> {"enabled"}
    [] edit.kind = "default" -> {"type", "default"}
    [] edit.kind = "delete"  -> {"type", "enabled", "default", "rules"}
    [] OTHER                 -> {"rules"}

CanReplayEdit(before, after, edit) ==
  IF edit.kind = "create" THEN edit.key \notin DOMAIN before.features
  ELSE /\ edit.key \in DOMAIN before.features \intersect DOMAIN after.features
       /\ \A field \in TouchedFields(edit) :
            Field(before.features[edit.key], field) =
              Field(after.features[edit.key], field)

-----------------------------------------------------------------------------
(* The Save form of a flag: everything that can be edited, in one form. *)

\* The form as the page renders it for a feature.
RenderedForm(feature) ==
  [enabled |-> feature.enabled,
   default |-> Field(feature, "default"),     \* Undefined: not in the form
   rollout |-> [i \in DOMAIN RulesOf(feature) |->
                  Field(RulesOf(feature)[i], "rollout")],  \* Undefined: unchecked
   detach  |-> {},
   segment |-> Blank,                         \* the placeholder of the picker
   value   |-> Blank]

\* Broken: a detached rule moves the ones after it.
FirstToLast(indexes) ==
  [n \in 1..Cardinality(indexes) |->
     CHOOSE i \in indexes : Cardinality({j \in indexes : j <= i}) = n]

LastToFirst(indexes) ==
  [n \in 1..Cardinality(indexes) |->
     CHOOSE i \in indexes : Cardinality({j \in indexes : j >= i}) = n]

\* The edits a submitted form stands for: enabled, the default, every rule's
\* rollout, the detached rules from the last to the first, an attached segment.
ParseSave(key, form) ==
  LET count == Len(form.rollout)
      Rollout(i) ==
        IF form.rollout[i] = Undefined
        THEN [kind |-> "removeRollout", key |-> key, index |-> i]
        ELSE Spread(form.rollout[i], [kind |-> "setRollout", key |-> key, index |-> i])
      Detach(i) == [kind |-> "detachSegment", key |-> key, index |-> i]
      detached == LastToFirst(form.detach)
  IN << [kind |-> "enabled", key |-> key, enabled |-> form.enabled] >>
     \o (IF form.default = Undefined THEN <<>>
         ELSE << [kind |-> "default", key |-> key, default |-> form.default] >>)
     \o [i \in 1..count |-> Rollout(i)]
     \o [i \in DOMAIN detached |-> Detach(detached[i])]
     \o (IF form.segment = Blank THEN <<>>
         ELSE << [kind |-> "attachSegment", key |-> key, segment |-> form.segment,
                  attribute |-> Listed[form.segment], value |-> form.value] >>)

\* parseAttach refuses a segment that cannot be attached.
CanAttach(form) ==
  form.segment = Blank \/
    (form.segment \in DOMAIN Listed /\ Listed[form.segment] # Undefined
       /\ form.value # Malformed)

\* What the edits of a list make of a draft, one after the other.
Staged(draft, edits) ==
  LET staged[n \in 0..Len(edits)] ==
        IF n = 0 THEN draft
        ELSE IF staged[n - 1] = Refused THEN Refused
        ELSE ApplyFlagEdit(staged[n - 1], edits[n])
  IN staged

\* Every edit of a list is staged on the draft, or none is.
StageAll(draft, edits) == Staged(draft, edits)[Len(edits)]

Save(draft, key, form) ==
  IF CanAttach(form) THEN StageAll(draft, ParseSave(key, form)) ELSE Refused

\* What a Save should do.  Only a form with text that is not JSON, with a segment
\* that cannot be attached, or with a rollout that is none or that the
\* schemaVersion does not have, is refused.
Refusable(draft, form) ==
  \/ form.default = Malformed
  \/ ~CanAttach(form)
  \/ \E i \in DOMAIN form.rollout :
       LET row == form.rollout[i] IN
       row # Undefined /\ (\/ draft.schema = 1
                          \/ row.percentage \notin Percentages
                          \/ row.bucketBy = Blank)

\* Where the element at position i ends up when others are taken out of a list.
PlaceWithout(gone, i) == i - Cardinality({d \in gone : d < i})

-----------------------------------------------------------------------------
(* The diff of two valid snapshots, as pairs of a flag and a field.  A flag *)
(* that was added or removed shows as the field "flag".                     *)

FieldCount(feature, field) ==
  IF field = "rules" THEN Len(RulesOf(feature)) ELSE Field(feature, field)

FieldValue(feature, field) ==
  IF field = "rules" THEN RulesOf(feature) ELSE Field(feature, field)

DiffFlags(before, after) ==
  LET kept == DOMAIN before \intersect DOMAIN after IN
  {<<k, "flag">> : k \in (DOMAIN before \union DOMAIN after) \ kept} \union
  {p \in kept \X {"type", "enabled", "default", "rules"} :
     FieldValue(before[p[1]], p[2]) # FieldValue(after[p[1]], p[2])}


-----------------------------------------------------------------------------
(* A JSON object holds no undefined; and what parseSnapshot lets through.   *)

Holds(object) ==
  IsObject(object) /\ \A f \in DOMAIN object : object[f] \notin {Undefined, Refused}

Shaped(snapshot) ==
  /\ snapshot \in [schema : {1, 2}, features : {snapshot.features}]
  /\ Holds(snapshot.features)
  /\ \A key \in DOMAIN snapshot.features : Holds(snapshot.features[key])

Parsed(snapshot) == Shaped(snapshot) /\ ValidSnapshot(snapshot)

\* The type of an edit: its fields besides kind and key.
FieldsOf ==
  [enabled       |-> {"enabled"},
   default       |-> {"default"},
   create        |-> {"type", "enabled"},     \* and a default unless boolean
   delete        |-> {},
   setRules      |-> {"rules"},
   setRollout    |-> {"index", "percentage", "bucketBy", "salt"},
   removeRollout |-> {"index"},
   attachSegment |-> {"segment", "attribute", "value"},
   detachSegment |-> {"index"}]

IsEdit(edit) ==
  /\ edit.kind \in DOMAIN FieldsOf
  /\ {"kind", "key"} \union FieldsOf[edit.kind] \subseteq DOMAIN edit
  /\ edit.kind = "create" =>
       edit.type = "boolean" \/ (edit.type = "config" /\ "default" \in DOMAIN edit)
  /\ \A f \in {"enabled", "default", "rules"} \intersect DOMAIN edit :
       edit[f] \notin {Undefined, Refused}
=============================================================================
