---------------------------- MODULE SnapshotMerge ----------------------------
(***************************************************************************)
(* The three-way merge of a pasted draft with what was published since it  *)
(* was begun (packages/dashboard/src/domain/snapshot-merge.ts): whole flag *)
(* by whole flag, and field by field where both sides changed a flag that  *)
(* both still have.                                                        *)
(*                                                                         *)
(* The operator's choices are a function of flags and fields, where the    *)
(* field "flag" is the whole flag and Undefined is no choice.              *)
(***************************************************************************)
EXTENDS FlagEdit

MergeFields == {"flag", "type", "enabled", "default", "rules"}

StatusOf(base, mine, theirs) ==
  CASE base = mine /\ base = theirs -> "unchanged"
    [] base = mine /\ base # theirs -> "theirs"
    [] base # mine /\ base = theirs -> "mine"
    [] OTHER -> IF mine = theirs THEN "same" ELSE "conflict"

ByFieldAnyType(base, mine, theirs) ==
  /\ StatusOf(base, mine, theirs) = "conflict"
  /\ Undefined \notin {mine, theirs}

\* Both sides changed the flag, both still have it, and it has one type.
ByField(base, mine, theirs) ==
  /\ StatusOf(base, mine, theirs) = "conflict"
  /\ Undefined \notin {mine, theirs}
  /\ mine.type = theirs.type

SideUnasked(status) == IF status = "theirs" THEN "theirs" ELSE "mine"

\* A one-sided change keeps the side that made it; a conflict needs a choice.
DefaultSide(status) ==
  CASE status = "theirs"   -> "theirs"
    [] status = "conflict" -> Undefined
    [] OTHER               -> "mine"

\* The value taken for one flag or field, Refused when the choice is missing.
Picked(base, mine, theirs, choice) ==
  LET status == StatusOf(base, mine, theirs)
      side   == IF status = "unchanged" \/ choice = Undefined
                THEN DefaultSide(status) ELSE choice
  IN CASE side = "mine"   -> mine
       [] side = "theirs" -> theirs
       [] OTHER           -> Refused

\* An object without the fields or flags that came out as Undefined.
Present(object) == [f \in {g \in DOMAIN object : object[g] # Undefined} |-> object[f]]

MergedFlag(base, mine, theirs, choice) ==
  IF ByField(base, mine, theirs)
  THEN LET from   == IF base = Undefined THEN <<>> ELSE base
           merged == [f \in MergeFields \ {"flag"} |->
                        Picked(Field(from, f), Field(mine, f), Field(theirs, f),
                               choice[f])]
       IN IF \E f \in DOMAIN merged : merged[f] = Refused
          THEN Refused ELSE Present(merged)
  ELSE Picked(base, mine, theirs, choice["flag"])

\* mergeFeatures and applyMergeChoices: the features of the merged draft.
Merge(base, mine, theirs, choices) ==
  LET keys   == DOMAIN base \union DOMAIN mine \union DOMAIN theirs
      merged == [k \in keys |-> MergedFlag(Field(base, k), Field(mine, k),
                                           Field(theirs, k), choices[k])]
  IN IF \E k \in keys : merged[k] = Refused THEN Refused ELSE Present(merged)

\* applyDraftMerge replaces the features of the draft and nothing else of it.
MergedDraft(base, mine, theirs, choices) ==
  LET features == Merge(base.features, mine.features, theirs.features, choices)
  IN IF features = Refused THEN Refused ELSE [mine EXCEPT !.features = features]

\* The choices that the merge dialog sends: a side for every conflict, and the
\* side that is already ticked wherever only one side changed something.
Chosen(base, mine, theirs, side) ==
  LET Choice(b, m, t) ==
        LET status == StatusOf(b, m, t) IN
        CASE status = "conflict" -> side
          [] status \in {"mine", "theirs"} -> status
          [] OTHER -> Undefined
      Part(features, k, f) ==
        CASE f = "flag" \/ k \notin DOMAIN features -> Field(features, k)
          [] OTHER -> Field(features[k], f)
  IN [k \in DOMAIN base \union DOMAIN mine \union DOMAIN theirs |->
        [f \in MergeFields |->
           Choice(Part(base, k, f), Part(mine, k, f), Part(theirs, k, f))]]
=============================================================================
