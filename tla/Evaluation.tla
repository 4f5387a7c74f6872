------------------------------ MODULE Evaluation ------------------------------
(***************************************************************************)
(* What a snapshot says and what a client makes of it: the schema of       *)
(* features and rules, conditions, rollouts and evaluate                   *)
(* (packages/core/src/domain).  A snapshot is its schemaVersion and its    *)
(* features; a feature and a rule are JSON objects, so that an optional    *)
(* field is one that may be missing from the domain of the record.         *)
(*                                                                         *)
(* A scalar is <<kind, text>>, where the text is how JavaScript prints it. *)
(* A percentage counts hundredths; 100 * percentage is a float, so it is   *)
(* off by some thousandths of a bucket out of Drift before it is rounded.  *)
(***************************************************************************)
EXTENDS Integers, Sequences, SequencesExt

CONSTANTS
  Undefined,      \* JavaScript's undefined: a field or flag that is not there
  Rejected,       \* a context that fails the contextSchema of a definition
  Bucket,         \* murmur3_32: Bucket[key, salt, text] is in 0..9999
  Drift           \* how far off 100 * percentage may be, in thousandths

ASSUME DriftAssumption == Drift \subseteq -499..499

Blank == ""     \* the empty string

Field(object, field) ==
  IF field \in DOMAIN object THEN object[field] ELSE Undefined

-----------------------------------------------------------------------------
(* The schema. *)

\* rules has the default [] wherever a snapshot is parsed.
RulesOf(feature) == IF "rules" \in DOMAIN feature THEN feature.rules ELSE <<>>

IsArray(x) == x \in Seq(Range(x))

IsObject(x) == x = [f \in DOMAIN x |-> x[f]]

UsesSegment(rule) ==
  \E a \in DOMAIN rule.when : rule.when[a].op = "inSegment"

Percentages == 0..10000

\* A salt is a tuple, which is empty for the empty string (see FlagEdit).
ValidRollout(rollout) ==
  /\ IsObject(rollout)
  /\ DOMAIN rollout = {"percentage", "bucketBy", "salt"}
  /\ rollout.percentage \in Percentages
  /\ rollout.bucketBy # Blank /\ rollout.salt # <<>>

ValidRule(type, rule) ==
  /\ IsObject(rule)
  /\ DOMAIN rule \ {"rollout"} =
       {"when", IF type = "boolean" THEN "enabled" ELSE "value"}
  /\ "rollout" \in DOMAIN rule => ValidRollout(rule.rollout)

ValidFeature(feature) ==
  /\ feature.type \in {"boolean", "config"}
  /\ DOMAIN feature \ {"rules"} =
       {"type", "enabled"} \union
         (IF feature.type = "config" THEN {"default"} ELSE {})
  /\ IsArray(RulesOf(feature))
  /\ \A i \in DOMAIN RulesOf(feature) :
       ValidRule(feature.type, RulesOf(feature)[i])

\* parseSnapshot: version 1 has neither rollouts nor segments.
ValidSnapshot(snapshot) ==
  \A key \in DOMAIN snapshot.features :
    LET feature == snapshot.features[key] IN
    /\ ValidFeature(feature)
    /\ snapshot.schema = 1 =>
         \A i \in DOMAIN RulesOf(feature) :
           LET rule == RulesOf(feature)[i] IN
           "rollout" \notin DOMAIN rule /\ ~UsesSegment(rule)

-----------------------------------------------------------------------------
(* Evaluation. *)

\* toCanonicalString: a boolean and a fraction have none.
Canonical(scalar) ==
  IF scalar[1] \in {"string", "integer"} THEN scalar[2] ELSE Undefined

Matches(actual, condition, segments) ==
  \/ condition.op = "equals" /\ actual = condition.operand
  \/ condition.op = "notEquals" /\ actual # condition.operand
  \/ condition.op = "in" /\ actual \in Range(condition.operand)
  \/ /\ condition.op = "inSegment"
     /\ condition.operand \in DOMAIN segments
     /\ Canonical(actual) \in segments[condition.operand]

\* A condition on an attribute that is missing or no scalar never matches.
ConditionMatches(when, context, segments) ==
  \A a \in DOMAIN when :
    /\ a \in DOMAIN context
    /\ Matches(context[a], when[a], segments)

RoundedDown(thousandths) == thousandths \div 1000

Rounded(thousandths) == (thousandths + 500) \div 1000

IsInRollout(bucket, percentage, drift) ==
  bucket < Rounded(1000 * percentage + drift)

InRollout(rollout, key, context, drift) ==
  /\ rollout.bucketBy \in DOMAIN context
  /\ LET text == Canonical(context[rollout.bucketBy]) IN
     /\ text # Undefined
     /\ IsInRollout(Bucket[key, rollout.salt, text], rollout.percentage, drift)

Fallback(feature) ==
  IF feature.type = "boolean" THEN RulesOf(feature) = <<>> ELSE feature.default

\* The value of a flag for a context; the first rule that applies decides.
Evaluate(key, feature, context, segments) ==
  LET Applies(rule) ==
        /\ ConditionMatches(rule.when, context, segments)
        /\ "rollout" \in DOMAIN rule =>
             InRollout(rule.rollout, key, context, 0)
      index == SelectInSeq(RulesOf(feature), Applies)
      rule  == RulesOf(feature)[index]
  IN CASE ~feature.enabled ->
            IF feature.type = "boolean" THEN FALSE ELSE feature.default
       [] feature.enabled /\ context = Rejected -> Fallback(feature)
       [] feature.enabled /\ context # Rejected /\ index = 0 -> Fallback(feature)
       [] OTHER -> IF feature.type = "boolean" THEN rule.enabled ELSE rule.value

\* evaluateKey of the client, with the default of its definition.
EvaluateKey(features, key, default, context, segments) ==
  IF key \in DOMAIN features
  THEN Evaluate(key, features[key], context, segments)
  ELSE default
=============================================================================
