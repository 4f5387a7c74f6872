------------------------------ MODULE FlagDrafts ------------------------------
(***************************************************************************)
(* Two people change the flags of one snapshot: one in the Save forms of   *)
(* the dashboard, each rendered from the draft it is saved on, the other   *)
(* edit by edit.  Every pair of drafts that comes out is merged, replayed, *)
(* reviewed and evaluated.                                                 *)
(***************************************************************************)
EXTENDS SnapshotMerge

CONSTANTS
  Published,      \* the snapshots that the two may start from
  Edits,          \* the edits the other one may make
  Defaults,       \* the defaults that can be typed into a form
  Rollouts,       \* the rollouts that can be typed into a form
  Contexts,       \* the contexts that flags are evaluated for
  Members,        \* the segments a client has loaded, each with its members
  NoSave,         \* before the first Save
  MaxSaves,       \* bound: Saves of the one
  MaxEdits        \* bound: edits of the other

ASSUME DraftsAssumption ==
  /\ {MaxSaves, MaxEdits} \subseteq Nat
  /\ \A snapshot \in Published : Parsed(snapshot)
  /\ \A edit \in Edits : IsEdit(edit)
  /\ {Undefined, Refused} \intersect Defaults = {}
  /\ \A rollout \in Rollouts : DOMAIN rollout = {"percentage", "bucketBy", "salt"}

VARIABLES
  base,           \* the snapshot that both started from
  mine,           \* the draft of the one
  theirs,         \* what the other one published
  saved,          \* the last Save: the draft, the flag and the form
  saves, edits,   \* how many there were
  shifted         \* a Save of the one has detached a rule

vars == <<base, mine, theirs, saved, saves, edits, shifted>>

Filled(form, control, value) == [form EXCEPT ![control] = value]
FilledRow(form, i, rollout) == [form EXCEPT !.rollout[i] = rollout]

\* The forms that differ from this one in a single control.  A rule can be
\* detached where it names a segment.
Clicked(form, feature) ==
  {Filled(form, "enabled", ~form.enabled)} \union
  {Filled(form, "default", d) :
     d \in IF form.default = Undefined THEN {} ELSE Defaults} \union
  {FilledRow(form, i, r) :
     i \in DOMAIN form.rollout, r \in Rollouts \union {Undefined}} \union
  {Filled(form, "detach", form.detach \union {i}) :
     i \in {j \in DOMAIN form.rollout : UsesSegment(feature.rules[j])}} \union
  {Filled(Filled(form, "segment", s), "value", v) :
     s \in DOMAIN Listed,
     v \in {Blank} \union (IF form.default = Undefined THEN {} ELSE Defaults)}

Forms(feature) ==
  LET form == RenderedForm(feature) IN
  {form} \union UNION {Clicked(f, feature) : f \in Clicked(form, feature)}

Init ==
  /\ base \in Published
  /\ mine = base
  /\ theirs = base
  /\ saved = NoSave
  /\ saves = 0 /\ edits = 0
  /\ shifted = FALSE

SaveForm ==
  /\ saves < MaxSaves
  /\ saves' = saves + 1
  /\ \E key \in DOMAIN mine.features : \E form \in Forms(mine.features[key]) :
       LET draft == Save(mine, key, form) IN
       /\ mine' = IF draft = Refused THEN mine ELSE draft
       /\ saved' = [draft |-> mine, key |-> key, form |-> form,
                    ok |-> draft # Refused]
       /\ shifted' = (shifted \/ (draft # Refused /\ form.detach # {}))
  /\ UNCHANGED <<base, theirs, edits>>

EditTheirs ==
  /\ edits < MaxEdits
  /\ edits' = edits + 1
  /\ \E edit \in Edits : /\ theirs' = ApplyFlagEdit(theirs, edit)
                         /\ theirs' # Refused
  /\ UNCHANGED <<base, mine, saved, saves, shifted>>

Next == SaveForm \/ EditTheirs

Spec == Init /\ [][Next]_vars

-----------------------------------------------------------------------------
\* Every draft could be published as it is, whatever was edited: an edit that
\* would not leave a valid snapshot is refused as a whole.
TypeOK == Parsed(base) /\ Parsed(mine) /\ Parsed(theirs)

-----------------------------------------------------------------------------
(* Saving. *)

\* The snapshot next has what the form shows: every rule keeps its place and has
\* the rollout of its own row, the ticked rules are gone, an attached segment is
\* the last rule, and no other flag is another one.
SavedAsShown(draft, key, form, next) ==
  LET after    == next.features[key]
      before   == RulesOf(draft.features[key])
      rules    == RulesOf(after)
      attached == IF form.segment = Blank THEN 0 ELSE 1
  IN /\ after.enabled = form.enabled
     /\ Field(after, "default") = form.default
     /\ Len(rules) = Len(before) - Cardinality(form.detach) + attached
     /\ \A i \in DOMAIN before \ form.detach :
          LET new == rules[PlaceWithout(form.detach, i)]
              row == form.rollout[i]
          IN /\ \A f \in DOMAIN before[i] \ {"rollout"} : new[f] = before[i][f]
             /\ row = Undefined <=> "rollout" \notin DOMAIN new
             /\ row # Undefined =>
                  /\ new.rollout.percentage = row.percentage
                  /\ new.rollout.bucketBy = row.bucketBy
                  /\ row.salt # <<>> => new.rollout.salt = row.salt
     /\ attached = 1 => UsesSegment(Last(rules))
     /\ \A k \in DOMAIN next.features \ {key} :
          next.features[k] = draft.features[k]

\* A Save does to the flag what the form shows, and nothing else.  The form
\* addresses rules by the positions of the page, while the list of edits it
\* becomes shifts them (parseSave).  And a form is refused only when it could
\* not be saved.
SaveMeansWhatWasClicked ==
  saved # NoSave =>
    IF saved.ok THEN SavedAsShown(saved.draft, saved.key, saved.form, mine)
    ELSE Refusable(saved.draft, saved.form)

\* Two rules of a flag whose salts were left blank do not move in lockstep, as
\* long as no rule was detached: defaultedSalt names the position of the rule,
\* and a detached rule gives its position to another one.
BlankSaltsApart ==
  ~shifted =>
    \A key \in DOMAIN mine.features :
      LET rules == RulesOf(mine.features[key]) IN
      \A i, j \in DOMAIN rules :
        ("rollout" \in DOMAIN rules[i] /\ "rollout" \in DOMAIN rules[j] /\ i # j
           /\ Head(rules[i].rollout.salt) = "rule")
        => rules[i].rollout.salt # rules[j].rollout.salt

\* A rollout lets in exactly the buckets below its percentage, although
\* percentage * 100 is a float: 0.29 * 100 is a little less than 29.
RolloutExact ==
  \A key \in DOMAIN mine.features :
    \A i \in DOMAIN RulesOf(mine.features[key]) :
      LET rule == mine.features[key].rules[i] IN
      "rollout" \in DOMAIN rule =>
        LET p == rule.rollout.percentage IN
        \A drift \in Drift, b \in {p - 1, p, p + 1} \intersect 0..9999 :
          IsInRollout(b, p, drift) <=> b < p

\* A review leaves out no change that a client could notice: a flag with another
\* value for some context is listed with the field that changed (diffFlags).
ReviewShowsAll ==
  LET listed == DiffFlags(base.features, mine.features) IN
  \A key \in DOMAIN base.features \union DOMAIN mine.features :
    (\A f \in MergeFields : <<key, f>> \notin listed) =>
      \A context \in Contexts :
        EvaluateKey(base.features, key, FALSE, context, Members) =
          EvaluateKey(mine.features, key, FALSE, context, Members)

-----------------------------------------------------------------------------
(* Merging and replaying. *)

MergedWith(side) ==
  MergedDraft(base, mine, theirs,
              Chosen(base.features, mine.features, theirs.features, side))

\* A merge loses nobody's change: a flag or a field of a flag that only one side
\* touched has the value of that side, whatever is chosen for the conflicts; and
\* without choices the merge is refused exactly where both sides gave one field
\* two values, or one changed a flag that the other deleted or gave another type.
MergeKeepsBoth ==
  LET Flag(snapshot, k) == Field(snapshot.features, k)
      keys == DOMAIN base.features \union DOMAIN mine.features
                \union DOMAIN theirs.features
      OneSided(b, m, t, r) == (m = b => r = t) /\ (t = b => r = m)
      Clash(b, m, t) == m # b /\ t # b /\ m # t
      Whole(k) == \/ Undefined \in {Flag(mine, k), Flag(theirs, k)}
                  \/ Flag(mine, k).type # Flag(theirs, k).type
      Was(k) == IF Flag(base, k) = Undefined THEN <<>> ELSE Flag(base, k)
  IN /\ \A side \in {"mine", "theirs"} :
          LET merged == MergedWith(side) IN
          /\ merged # Refused
          /\ \A k \in keys :
               /\ OneSided(Flag(base, k), Flag(mine, k), Flag(theirs, k),
                           Flag(merged, k))
               /\ ~Whole(k) =>
                    \A f \in MergeFields \ {"flag"} :
                      OneSided(Field(Was(k), f), Field(Flag(mine, k), f),
                               Field(Flag(theirs, k), f), Field(Flag(merged, k), f))
     /\ MergedWith(Undefined) = Refused <=>
          \E k \in keys :
            IF Whole(k) THEN Clash(Flag(base, k), Flag(mine, k), Flag(theirs, k))
            ELSE \E f \in MergeFields \ {"flag"} :
                   Clash(Field(Was(k), f), Field(Flag(mine, k), f),
                         Field(Flag(theirs, k), f))

\* What a merge makes of two valid drafts is valid, so it can be published,
\* except that the draft keeps its schemaVersion: one begun before the other
\* side attached the first segment takes in rules that version 1 does not have.
MergedPublishable ==
  \A side \in {"mine", "theirs"} :
    \/ ValidSnapshot(MergedWith(side))
    \/ mine.schema = 1 /\ theirs.schema = 2

\* Replaying an edit on the newer version gives what merging it would give, with
\* nothing left to choose: an edit is replayed only where it is in nobody's way.
\* A flag that was deleted and made again with another type is the exception,
\* since an edit of one field does not look at the type.
ReplayAgreesWithMerge ==
  \A edit \in Edits :
    LET edited   == ApplyFlagEdit(base, edit)
        replayed == ApplyFlagEdit(theirs, edit)
        merged   == Merge(base.features, edited.features, theirs.features,
                          [k \in {edit.key} \union DOMAIN base.features
                                   \union DOMAIN theirs.features |->
                             [f \in MergeFields |-> Undefined]])
    IN (edited # Refused /\ CanReplayEdit(base, theirs, edit)
          /\ replayed # Refused
          /\ (edit.kind # "create" =>
                base.features[edit.key].type = theirs.features[edit.key].type))
       => replayed.features = merged
=============================================================================
