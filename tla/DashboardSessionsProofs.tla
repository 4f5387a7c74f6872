----------------------- MODULE DashboardSessionsProofs -----------------------
(***************************************************************************)
(* What the page of the dashboard shows is true, the staged changes        *)
(* survive, and what others publish is not overwritten, for every history, *)
(* every edit and whatever others publish.                                 *)
(***************************************************************************)
EXTENDS DashboardSessions, SnapshotMergeProofs

\* Nothing staged, no draft, is no object either.
DashboardSentinels == Sentinels /\ ~IsObject(None)

-----------------------------------------------------------------------------
(* Versions. *)

LEMMA Appending ==
  ASSUME NEW s, IsArray(s), NEW x
  PROVE  LET t == Append(s, x) IN
         /\ Len(s) \in Nat /\ Len(t) = Len(s) + 1
         /\ IsArray(t) /\ DOMAIN s = 1..Len(s)
         /\ t[Len(s) + 1] = x
         /\ \A v \in 1..Len(s) : t[v] = s[v]
<1>1. s \in Seq(Range(s))
  BY DEF IsArray
<1> DEFINE t == Append(s, x)
           S == Range(s) \union {x}
<1>2. s \in Seq(S) /\ x \in S
  BY <1>1
<1>3. t \in Seq(S)
  BY <1>2
<1>4. /\ Len(s) \in Nat /\ Len(t) = Len(s) + 1
      /\ DOMAIN s = 1..Len(s)
      /\ t[Len(s) + 1] = x
      /\ \A v \in 1..Len(s) : t[v] = s[v]
  BY <1>2
<1> HIDE DEF S, t
<1>5. t \in Seq(Range(t))
  BY <1>3 DEF Range
<1>6. QED
  BY <1>4, <1>5 DEF IsArray, t

LEMMA VersionNumbers ==
  ASSUME VersionsOK
  PROVE  Live \in Nat /\ DOMAIN versions = 1..Live
BY DEF VersionsOK, IsArray, Live

\* What a draft starts from is a snapshot.
LEMMA PrefillParsed ==
  ASSUME VersionsOK, PageOK
  PROVE  Parsed(Prefill)
<1>1. CASE page.shown > 0
  <2>1. page.shown \in 1..Live
    BY <1>1, VersionNumbers DEF PageOK
  <2>2. QED
    BY <1>1, <2>1 DEF VersionsOK, Prefill
<1>2. CASE ~(page.shown > 0)
  <2>1. Prefill = [schema |-> 2, features |-> <<>>]
    BY <1>2 DEF Prefill
  <2>2. DOMAIN <<>> = {} /\ Holds(<<>>)
    BY DEF Holds, IsObject
  <2>3. QED
    BY <2>1, <2>2 DEF Parsed, Shaped, ValidSnapshot
<1>3. QED
  BY <1>1, <1>2

-----------------------------------------------------------------------------
(* The steps that leave parts of the state alone. *)

LEMMA SameChangeSet ==
  ASSUME WantsOK, DraftSurvives, Carried' = Carried, staged' = staged
  PROVE  WantsOK' /\ DraftSurvives'
BY DEF WantsOK, DraftSurvives

LEMMA NothingStaged ==
  ASSUME staged' = NoChanges
  PROVE  WantsOK' /\ DraftSurvives'
<1>1. staged'.wants = {}
  BY DEF NoChanges
<1>2. QED
  BY <1>1 DEF WantsOK, DraftSurvives

\* A form that is submitted has published nothing yet.
LEMMA Submitted ==
  ASSUME IInv, NEW r, Submits(r), r.id = requests + 1, r.step \in {"stage", "publish", "browse"},
         r.outcome # "published"
  PROVE  /\ VersionsOK' /\ PageOK' /\ LandedOK' /\ ReportsAreTrue'
         /\ Live' = Live /\ Idle /\ request' = r /\ ~Idle' /\ Carried' = r.pending
         /\ Carried = page.pending
         /\ requests' = requests + 1 /\ versions' = versions /\ page' = page
         /\ requests \in Nat
<1>1. /\ Live' = Live /\ Idle /\ request' = r /\ ~Idle' /\ Carried' = r.pending
      /\ Carried = page.pending
      /\ requests' = requests + 1 /\ versions' = versions /\ page' = page
      /\ requests \in Nat /\ Live \in Nat
  BY VersionNumbers DEF IInv, Submits, Live, Idle, Carried, VersionsOK
<1>2. VersionsOK'
  BY <1>1 DEF IInv, VersionsOK, Live
<1>3. PageOK'
  BY <1>1 DEF IInv, PageOK, Live, IsPending
<1>4. Landed' = {}
  <2>1. \A v \in 1..Live : versions[v].by # requests + 1
    BY <1>1 DEF IInv, VersionsOK
  <2>2. QED
    BY <1>1, <2>1 DEF Landed, Live, ByThem
<1>5. LandedOK'
  BY <1>1, <1>4 DEF LandedOK, Idle
<1>6. ReportsAreTrue'
  BY <1>1 DEF IInv, ReportsAreTrue, Live, ByThem
<1>7. QED
  BY <1>1, <1>2, <1>3, <1>5, <1>6

-----------------------------------------------------------------------------
(* Submitting a form. *)

LEMMA FormFields ==
  ASSUME NEW kind, NEW step
  PROVE  LET r == Request(kind, step) IN
         /\ DOMAIN r = RequestFields /\ IsObject(r)
         /\ r.kind = kind /\ r.step = step /\ r.id = requests + 1
         /\ r.pending = page.pending /\ r.expect = 0 /\ r.since = 0
         /\ r.outcome = "viewed"
BY DEF Request, RequestFields, IsObject

\* A form that publishes nothing is answered with the page.
LEMMA AnsweredAtOnce ==
  ASSUME IInv, NEW r, Submits(r), r.id = requests + 1, r.step = "browse",
         DOMAIN r = RequestFields, IsObject(r), r.kind # "paste",
         r.outcome \notin {"published", "conflict"},
         {r.expect, r.since} \subseteq 0..Live,
         r.pending = None \/ IsPending(r.pending)
  PROVE  RequestOK'
<1>1. Live' = Live /\ request' = r /\ requests' = requests + 1 /\ page' = page
  BY Submitted
<1>2. page.request < r.id
  BY DEF IInv, PageOK, VersionsOK
<1>3. r.pending = None \/ IsPending(r.pending)'
  BY <1>1 DEF IsPending
<1>4. QED
  BY <1>1, <1>2, <1>3 DEF RequestOK, Publishing, Idle

LEMMA ViewKeeps ==
  ASSUME IInv, View
  PROVE  IInv'
<1> DEFINE r == Request("view", "browse")
<1>1. /\ DOMAIN r = RequestFields /\ IsObject(r)
      /\ r.kind = "view" /\ r.step = "browse" /\ r.id = requests + 1
      /\ r.pending = page.pending /\ r.expect = 0 /\ r.since = 0
      /\ r.outcome = "viewed"
  BY FormFields
<1>2. Submits(r) /\ staged' = staged
  BY DEF View
<1> HIDE DEF r
<1>3. /\ VersionsOK' /\ PageOK' /\ LandedOK' /\ ReportsAreTrue'
      /\ Carried' = Carried
  BY <1>1, <1>2, Submitted
<1>4. RequestOK'
  <2>1. r.pending = None \/ IsPending(r.pending)
    BY <1>1 DEF IInv, PageOK
  <2>2. {r.expect, r.since} \subseteq 0..Live
    BY <1>1, VersionNumbers DEF IInv
  <2>3. QED
    BY <1>1, <1>2, <2>1, <2>2, AnsweredAtOnce
<1>5. WantsOK' /\ DraftSurvives'
  BY <1>2, <1>3, SameChangeSet DEF IInv
<1>6. QED
  BY <1>3, <1>4, <1>5 DEF IInv

\* The page offers forms that can be submitted; what they leave out of a flag it
\* does not have.
LEMMA FormsFit ==
  ASSUME DashboardSentinels, NEW feature, Holds(feature), ValidFeature(feature),
         NEW form \in FormsFor(feature)
  PROVE  /\ IsForm(form)
         /\ form.default = Undefined => Field(feature, "default") = Undefined
<1> DEFINE rendered == RenderedForm(feature)
<1>1. IsForm(rendered) /\ rendered.default = Field(feature, "default")
  BY RenderedIsForm DEF DashboardSentinels, RenderedForm
<1> HIDE DEF rendered
<1>2. CASE form = [rendered EXCEPT !.enabled = ~rendered.enabled]
  <2>1. (~rendered.enabled) \notin {Undefined, Refused}
    BY DEF DashboardSentinels, Sentinels
  <2>2. QED
    BY <1>1, <1>2, <2>1 DEF IsForm
<1>3. ASSUME NEW d \in FormDefaults, form = [rendered EXCEPT !.default = d]
      PROVE  /\ IsForm(form)
             /\ form.default = Undefined => Field(feature, "default") = Undefined
  <2>1. d \notin {Undefined, Refused}
    BY DashboardAssumption
  <2>2. QED
    BY <1>1, <1>3, <2>1 DEF IsForm
<1>4. QED
  BY <1>2, <1>3 DEF FormsFor, rendered

\* A form of a flag that is rendered, saved on a starting point.
SavedForm(start, key, form, rendered, result, wanted) ==
  /\ Parsed(start.snapshot)
  /\ IsForm(form)
  /\ form.default = Undefined => Field(rendered, "default") = Undefined
  /\ result = Save(start.snapshot, key, form) /\ result # Refused
  /\ wanted = WantedBy(key, form, rendered)

\* What a Save stages is in the change set, with everything staged before,
\* unless the page showed the flag differently.
LEMMA SaveStages ==
  ASSUME Sentinels, IInv, ~Idle,
         NEW start, NEW key, NEW form, NEW rendered, NEW result, NEW wanted,
         SavedForm(start, key, form, rendered, result, wanted),
         request.pending # None => start = request.pending,
         staged'.wants = wanted \union StillWanted(wanted),
         staged'.mixed = (staged.mixed \/ start.snapshot.features[key] # rendered),
         Carried'.snapshot = result, Carried' # None
  PROVE  WantsOK' /\ DraftSurvives'
<1> DEFINE was == start.snapshot.features
           is  == result.features
<1>1. /\ DOMAIN is = DOMAIN was /\ key \in DOMAIN was
      /\ \A k \in DOMAIN was \ {key} : is[k] = was[k]
      /\ Field(is[key], "enabled") = form.enabled
      /\ IF form.default = Undefined
         THEN Field(is[key], "default") = Field(was[key], "default")
         ELSE Field(is[key], "default") = form.default
  BY SaveSets DEF SavedForm, SavedSoFar
<1>2. ASSUME NEW w \in staged.wants
      PROVE  /\ w[2] \in {"enabled", "default"} /\ w[1] \in DOMAIN was
             /\ ~staged.mixed => Field(was[w[1]], w[2]) = w[3]
  <2>1. Carried = start
    BY DEF IInv, DraftSurvives, Carried
  <2>2. QED
    BY <2>1 DEF IInv, DraftSurvives, WantsOK
<1>3. ASSUME NEW w \in wanted
      PROVE  /\ w \in {<<key, "enabled", form.enabled>>, <<key, "default", form.default>>}
             /\ w[3] # Field(rendered, w[2])
  BY DEF SavedForm, WantedBy
<1>4. ASSUME NEW w \in wanted
      PROVE  /\ w[2] \in {"enabled", "default"} /\ w[1] \in DOMAIN is
             /\ Field(is[w[1]], w[2]) = w[3]
  <2>1. CASE w = <<key, "enabled", form.enabled>>
    BY <1>1, <2>1
  <2>2. CASE w = <<key, "default", form.default>>
    <3>1. form.default # Undefined
      BY <1>3, <2>2 DEF SavedForm
    <3>2. QED
      BY <1>1, <2>2, <3>1
  <2>3. QED
    BY <1>3, <2>1, <2>2
<1>5. ASSUME NEW w \in staged.wants, <<w[1], w[2]>> \notin {<<x[1], x[2]>> : x \in wanted}
      PROVE  /\ w[2] \in {"enabled", "default"} /\ w[1] \in DOMAIN is
             /\ ~staged'.mixed => Field(is[w[1]], w[2]) = w[3]
  <2>1. CASE w[1] # key
    BY <1>1, <1>2, <1>5, <2>1
  <2>2. CASE w[1] = key /\ ~staged'.mixed
    <3>1. was[key] = rendered /\ Field(rendered, w[2]) = w[3]
      BY <1>2, <1>5, <2>2
    <3>2. CASE w[2] = "enabled"
      <4>1. <<key, "enabled", form.enabled>> \notin wanted
        BY <1>5, <2>2, <3>2
      <4>2. Field(rendered, "enabled") = form.enabled
        BY <4>1 DEF SavedForm, WantedBy
      <4>3. QED
        BY <1>1, <1>2, <1>5, <2>2, <3>1, <3>2, <4>2
    <3>3. CASE w[2] = "default"
      <4>1. <<key, "default", form.default>> \notin wanted
        BY <1>5, <2>2, <3>3
      <4>2. Field(rendered, "default") = form.default
        BY <4>1 DEF SavedForm, WantedBy
      <4>3. QED
        BY <1>1, <1>2, <1>5, <2>2, <3>1, <3>3, <4>2
    <3>4. QED
      BY <1>2, <1>5, <3>2, <3>3
  <2>3. CASE w[1] = key /\ staged'.mixed
    BY <1>1, <1>2, <1>5, <2>3
  <2>4. QED
    BY <2>1, <2>2, <2>3
<1>6. Carried'.snapshot.features = is
  OBVIOUS
<1> HIDE DEF is, was
<1>7. ASSUME NEW w \in staged'.wants
      PROVE  /\ w[2] \in {"enabled", "default"} /\ w[1] \in DOMAIN is
             /\ ~staged'.mixed => Field(is[w[1]], w[2]) = w[3]
  BY <1>4, <1>5, <1>7 DEF StillWanted
<1>8. WantsOK'
  BY <1>6, <1>7 DEF WantsOK
<1>9. DraftSurvives'
  BY <1>6, <1>7 DEF DraftSurvives
<1>10. QED
  BY <1>8, <1>9

\* A form that the request stages.
LEMMA SentAtOnce ==
  ASSUME IInv, NEW r, Submits(r), r.id = requests + 1, r.step = "stage",
         DOMAIN r = RequestFields, IsObject(r), r.kind = "save", r.outcome = "viewed",
         r.expect = 0, r.since = 0, r.pending = page.pending, FormSent'
  PROVE  RequestOK'
<1>1. Live' = Live /\ request' = r /\ requests' = requests + 1 /\ page' = page
  BY Submitted
<1>2. page.request < r.id /\ 0 \in 0..Live
  BY VersionNumbers DEF IInv, PageOK, VersionsOK
<1>3. r.pending = None \/ IsPending(r.pending)'
  BY <1>1 DEF IInv, PageOK, IsPending
<1>4. QED
  BY <1>1, <1>2, <1>3 DEF RequestOK, Publishing, Idle

LEMMA SaveFlagKeeps ==
  ASSUME IInv, SaveFlag
  PROVE  IInv'
<1> DEFINE form0 == Request("save", "stage")
<1>1. PICK key \in DOMAIN Features(page.shown) :
        \E form \in FormsFor(Features(page.shown)[key]) :
          Submits([form0 EXCEPT !.edit = [key |-> key, form |-> form]])
  BY DEF SaveFlag
<1>2. PICK form \in FormsFor(Features(page.shown)[key]) :
        Submits([form0 EXCEPT !.edit = [key |-> key, form |-> form]])
  BY <1>1
<1> DEFINE sent == [key |-> key, form |-> form]
           r == [form0 EXCEPT !.edit = sent]
<1>3. Submits(r) /\ staged' = staged /\ page.shown > 0
  BY <1>2 DEF SaveFlag
<1>4. /\ DOMAIN form0 = RequestFields /\ IsObject(form0)
      /\ form0.kind = "save" /\ form0.step = "stage" /\ form0.id = requests + 1
      /\ form0.pending = page.pending /\ form0.expect = 0 /\ form0.since = 0
      /\ form0.outcome = "viewed"
  BY FormFields
<1>5. sent.key = key /\ sent.form = form
  OBVIOUS
<1> HIDE DEF form0, sent
<1>6. /\ DOMAIN r = RequestFields /\ IsObject(r)
      /\ r.kind = "save" /\ r.step = "stage" /\ r.id = requests + 1
      /\ r.pending = page.pending /\ r.expect = 0 /\ r.since = 0
      /\ r.outcome = "viewed" /\ r.edit = sent
  BY <1>4 DEF RequestFields, IsObject
<1> HIDE DEF r
<1>7. /\ VersionsOK' /\ PageOK' /\ LandedOK' /\ ReportsAreTrue'
      /\ Carried' = Carried
      /\ request' = r /\ requests' = requests + 1
      /\ versions' = versions /\ page' = page /\ Live' = Live
  BY <1>3, <1>6, Submitted
<1>8. FormSent'
  BY <1>1, <1>2, <1>3, <1>5, <1>6, <1>7 DEF FormSent, Features
<1>9. RequestOK'
  BY <1>3, <1>6, <1>8, SentAtOnce
<1>10. WantsOK' /\ DraftSurvives'
  BY <1>3, <1>7, SameChangeSet DEF IInv
<1>11. QED
  BY <1>7, <1>9, <1>10 DEF IInv

\* A form that publishes what it carries.
LEMMA PublishedAtOnce ==
  ASSUME IInv, NEW r, Submits(r), r.id = requests + 1, r.step = "publish",
         DOMAIN r = RequestFields, IsObject(r),
         r.kind \in {"edit", "pending", "paste", "rollback"}, r.outcome = "viewed",
         {r.expect, r.since} \subseteq 0..Live,
         r.expect = 0 \/ (r.expect = r.since /\ r.kind # "rollback"),
         r.pending = None \/ IsPending(r.pending),
         Shaped(r.snapshot),
         r.kind = "paste" => IsDraft(r.draft),
         r.kind = "edit" => /\ IsImmediate(r.edit) /\ r.expect > 0
                            /\ ShowsEdit(r.snapshot.features, r.edit)
  PROVE  RequestOK'
<1>1. Live' = Live /\ request' = r /\ requests' = requests + 1 /\ page' = page
  BY Submitted
<1>2. page.request < r.id
  BY DEF IInv, PageOK, VersionsOK
<1>3. r.pending = None \/ IsPending(r.pending)'
  BY <1>1 DEF IsPending
<1>4. QED
  BY <1>1, <1>2, <1>3 DEF RequestOK, Publishing, Idle

LEMMA EditShows ==
  ASSUME NEW snapshot, NEW edit, edit.kind \in {"create", "delete"},
         ApplyFlagEdit(snapshot, edit) # Refused
  PROVE  /\ ShowsEdit(ApplyFlagEdit(snapshot, edit).features, edit)
         /\ ~ShowsEdit(snapshot.features, edit)
<1> DEFINE before == snapshot.features
           after == EditFeatures(before, edit)
<1>1. ApplyFlagEdit(snapshot, edit).features = after /\ after # Refused
  BY AppliedFeatures
<1>2. CASE edit.kind = "create"
  <2>1. /\ edit.key \notin DOMAIN before
        /\ after = Spread(before, [k \in {edit.key} |-> Created(edit)])
    BY <1>1, <1>2 DEF EditFeatures
  <2>2. edit.key \in DOMAIN after
    BY <2>1 DEF Spread
  <2>3. QED
    BY <1>1, <1>2, <2>1, <2>2 DEF ShowsEdit
<1>3. CASE edit.kind = "delete"
  <2>1. /\ edit.key \in DOMAIN before
        /\ after = [k \in DOMAIN before \ {edit.key} |-> before[k]]
    BY <1>1, <1>3 DEF EditFeatures
  <2>2. edit.key \notin DOMAIN after
    BY <2>1
  <2>3. QED
    BY <1>1, <1>3, <2>1, <2>2 DEF ShowsEdit
<1>4. QED
  BY <1>2, <1>3

LEMMA SubmitEditKeeps ==
  ASSUME DashboardSentinels, IInv, SubmitEdit
  PROVE  IInv'
<1> DEFINE form == Request("edit", "publish")
<1>1. PICK edit \in NewFlagForms \union DeleteForms :
        LET edited == ApplyFlagEdit(versions[FormBase].snapshot, edit)
            r == [form EXCEPT
                    !.edit = edit, !.expect = FormBase, !.snapshot = edited,
                    !.since = FormBase, !.from = FormBase,
                    !.own = {<<edit.key, "flag">>}]
        IN Submits(IF edited = Refused THEN Ends(r, "refused") ELSE r)
  BY DEF SubmitEdit
<1> DEFINE base == versions[FormBase].snapshot
           edited == ApplyFlagEdit(base, edit)
           r == [form EXCEPT !.edit = edit, !.expect = FormBase, !.snapshot = edited,
                             !.since = FormBase, !.from = FormBase,
                             !.own = {<<edit.key, "flag">>}]
<1>2. IsImmediate(edit)
  BY DashboardAssumption DEF NewFlagForms, DeleteForms, IsImmediate
<1>3. FormBase \in 1..Live /\ Parsed(base)
  <2>1. page.shown \in 1..Live
    BY VersionNumbers DEF SubmitEdit, IInv, PageOK
  <2>2. FormBase \in 1..Live
    BY <2>1 DEF FormBase, IInv, PageOK, IsPending
  <2>3. QED
    BY <2>2 DEF IInv, VersionsOK
<1>4. /\ DOMAIN form = RequestFields /\ IsObject(form)
      /\ form.kind = "edit" /\ form.step = "publish" /\ form.id = requests + 1
      /\ form.pending = page.pending /\ form.expect = 0 /\ form.since = 0
      /\ form.outcome = "viewed"
  BY FormFields
<1> HIDE DEF form
<1>5. /\ DOMAIN r = RequestFields /\ IsObject(r)
      /\ r.kind = "edit" /\ r.step = "publish" /\ r.id = requests + 1
      /\ r.pending = page.pending /\ r.expect = FormBase /\ r.since = FormBase
      /\ r.outcome = "viewed" /\ r.edit = edit /\ r.snapshot = edited
  BY <1>4 DEF RequestFields, IsObject
<1>6. Submits(IF edited = Refused THEN Ends(r, "refused") ELSE r) /\ staged' = staged
  BY <1>1 DEF SubmitEdit
<1>7. page.pending = None \/ IsPending(page.pending)
  BY DEF IInv, PageOK
<1>8. edited # Refused => Shaped(edited) /\ ShowsEdit(edited.features, edit)
  BY <1>2, <1>3, EditKeepsParsed, EditShows DEF DashboardSentinels, IsImmediate, Parsed
<1>9. {FormBase} \subseteq 0..Live /\ FormBase > 0
  BY <1>3
<1> HIDE DEF r, edited
<1>10. CASE edited = Refused
  <2> DEFINE refused == Ends(r, "refused")
  <2>1. Submits(refused)
    BY <1>6, <1>10
  <2>2. /\ DOMAIN refused = RequestFields /\ IsObject(refused)
        /\ refused.kind = "edit" /\ refused.step = "browse" /\ refused.id = requests + 1
        /\ refused.pending = page.pending /\ refused.expect = FormBase
        /\ refused.since = FormBase /\ refused.outcome = "refused"
    BY <1>5 DEF Ends, IsObject, RequestFields
  <2> HIDE DEF refused
  <2>3. /\ VersionsOK' /\ PageOK' /\ LandedOK' /\ ReportsAreTrue'
        /\ Carried' = Carried
    BY <2>1, <2>2, Submitted
  <2>4. RequestOK'
    BY <1>7, <1>9, <2>1, <2>2, AnsweredAtOnce
  <2>5. WantsOK' /\ DraftSurvives'
    BY <1>6, <2>3, SameChangeSet DEF IInv
  <2>6. QED
    BY <2>3, <2>4, <2>5 DEF IInv
<1>11. CASE edited # Refused
  <2>1. Submits(r)
    BY <1>6, <1>11
  <2>2. /\ VersionsOK' /\ PageOK' /\ LandedOK' /\ ReportsAreTrue'
        /\ Carried' = Carried
    BY <1>5, <2>1, Submitted
  <2>3. RequestOK'
    BY <1>2, <1>5, <1>7, <1>8, <1>9, <1>11, <2>1, PublishedAtOnce
  <2>4. WantsOK' /\ DraftSurvives'
    BY <1>6, <2>2, SameChangeSet DEF IInv
  <2>5. QED
    BY <2>2, <2>3, <2>4 DEF IInv
<1>12. QED
  BY <1>10, <1>11

LEMMA PublishPendingKeeps ==
  ASSUME IInv, NEW force \in BOOLEAN, PublishPending(force)
  PROVE  IInv'
<1> DEFINE form == Request("pending", "publish")
           pending == page.pending
           excuse == (IF force THEN {"forced"} ELSE {}) \union
                       (IF staged.mixed THEN {"mixed"} ELSE {})
           r == [form EXCEPT
                   !.expect   = IF force THEN 0 ELSE pending.baseVersion,
                   !.snapshot = pending.snapshot,
                   !.since    = pending.baseVersion,
                   !.from     = pending.baseVersion,
                   !.own      = staged.own,
                   !.excuse   = excuse]
<1>1. Submits(r) /\ staged' = staged /\ pending # None
  BY DEF PublishPending
<1>2. IsPending(pending)
  BY <1>1 DEF IInv, PageOK
<1>3. pending.baseVersion \in 1..Live /\ Shaped(pending.snapshot)
  BY <1>2 DEF IsPending, Parsed
<1>4. /\ DOMAIN form = RequestFields /\ IsObject(form)
      /\ form.kind = "pending" /\ form.step = "publish" /\ form.id = requests + 1
      /\ form.pending = pending /\ form.expect = 0 /\ form.since = 0
      /\ form.outcome = "viewed"
  BY FormFields
<1> HIDE DEF form, excuse
<1>5. /\ DOMAIN r = RequestFields /\ IsObject(r)
      /\ r.kind = "pending" /\ r.step = "publish" /\ r.id = requests + 1
      /\ r.pending = pending /\ r.expect \in {0, pending.baseVersion}
      /\ r.since = pending.baseVersion
      /\ r.outcome = "viewed" /\ r.snapshot = pending.snapshot
  BY <1>4 DEF RequestFields, IsObject
<1> HIDE DEF r
<1>6. /\ VersionsOK' /\ PageOK' /\ LandedOK' /\ ReportsAreTrue'
      /\ Carried' = Carried
  BY <1>1, <1>5, Submitted
<1>7. {r.expect, r.since} \subseteq 0..Live
  BY <1>3, <1>5, VersionNumbers DEF IInv
<1>8. RequestOK'
  BY <1>1, <1>2, <1>3, <1>5, <1>7, PublishedAtOnce
<1>9. WantsOK' /\ DraftSurvives'
  BY <1>1, <1>6, SameChangeSet DEF IInv
<1>10. QED
  BY <1>6, <1>8, <1>9 DEF IInv

LEMMA DiscardKeeps ==
  ASSUME IInv, Discard
  PROVE  IInv'
<1> DEFINE form == Request("pending", "browse")
           r == Ends([form EXCEPT !.pending = None], "discarded")
<1>1. Submits(r) /\ staged' = NoChanges
  BY DEF Discard
<1>2. /\ DOMAIN form = RequestFields /\ IsObject(form)
      /\ form.kind = "pending" /\ form.step = "browse" /\ form.id = requests + 1
      /\ form.expect = 0 /\ form.since = 0 /\ form.outcome = "viewed"
  BY FormFields
<1> HIDE DEF form
<1>3. /\ DOMAIN r = RequestFields /\ IsObject(r)
      /\ r.kind = "pending" /\ r.step = "browse" /\ r.id = requests + 1
      /\ r.pending = None /\ r.expect = 0 /\ r.since = 0
      /\ r.outcome = "discarded"
  BY <1>2 DEF RequestFields, IsObject, Ends
<1> HIDE DEF r
<1>4. VersionsOK' /\ PageOK' /\ LandedOK' /\ ReportsAreTrue'
  BY <1>1, <1>3, Submitted
<1>5. {r.expect, r.since} \subseteq 0..Live
  BY <1>3, VersionNumbers DEF IInv
<1>6. RequestOK'
  BY <1>1, <1>3, <1>5, AnsweredAtOnce
<1>7. QED
  BY <1>1, <1>4, <1>6, NothingStaged DEF IInv

LEMMA DraftsFit ==
  ASSUME DashboardSentinels, VersionsOK, PageOK, NEW draft \in Drafts
  PROVE  IsDraft(draft)
<1>1. CASE page.draft # None
  BY <1>1 DEF Drafts, PageOK
<1>2. CASE page.draft = None
  <2>1. PICK text \in {ApplyFlagEdit(Prefill, e) : e \in Typed} \ {Refused} :
          draft = [text |-> text, from |-> page.shown, seen |-> page.shown, mixed |-> FALSE,
                   own |-> Changed(Prefill.features, text.features)]
    BY <1>2 DEF Drafts
  <2>2. PICK e \in Typed : text = ApplyFlagEdit(Prefill, e) /\ text # Refused
    OBVIOUS
  <2>3. IsEdit(e) /\ Parsed(Prefill)
    BY DashboardAssumption, PrefillParsed
  <2>4. Shaped(text)
    BY <2>2, <2>3, EditKeepsParsed DEF DashboardSentinels, Parsed
  <2>5. QED
    BY <2>1, <2>4 DEF IsDraft, IsObject
<1>3. QED
  BY <1>1, <1>2

LEMMA PasteKeeps ==
  ASSUME DashboardSentinels, IInv, Paste
  PROVE  IInv'
<1> DEFINE form == Request("paste", "publish")
           excuse(draft) == {e \in {"baseless", "told", "returned", "mixed"} :
                               CASE e = "baseless" -> page.shown = 0
                                 [] e = "told"     -> draft.from < draft.seen
                                 [] e = "returned" -> draft.seen < page.shown
                                 [] OTHER          -> draft.mixed}
<1>1. PICK draft \in Drafts :
        Submits([form EXCEPT
                   !.expect = page.shown, !.snapshot = draft.text,
                   !.draft = draft, !.since = page.shown, !.from = draft.from,
                   !.own = draft.own,
                   !.excuse = excuse(draft)])
  BY DEF Paste
<1> DEFINE excused == excuse(draft)
           r == [form EXCEPT !.expect = page.shown, !.snapshot = draft.text,
                             !.draft = draft, !.since = page.shown, !.from = draft.from,
                             !.own = draft.own, !.excuse = excused]
<1>2. Submits(r) /\ staged' = staged
  BY <1>1 DEF Paste
<1>3. IsDraft(draft) /\ Shaped(draft.text) /\ page.shown \in 0..Live
  BY DraftsFit DEF IInv, PageOK, IsDraft
<1>4. /\ DOMAIN form = RequestFields /\ IsObject(form)
      /\ form.kind = "paste" /\ form.step = "publish" /\ form.id = requests + 1
      /\ form.pending = page.pending /\ form.expect = 0 /\ form.since = 0
      /\ form.outcome = "viewed"
  BY FormFields
<1> HIDE DEF form, excused
<1>5. /\ DOMAIN r = RequestFields /\ IsObject(r)
      /\ r.kind = "paste" /\ r.step = "publish" /\ r.id = requests + 1
      /\ r.pending = page.pending /\ r.expect = page.shown /\ r.since = page.shown
      /\ r.outcome = "viewed" /\ r.snapshot = draft.text /\ r.draft = draft
  BY <1>4 DEF RequestFields, IsObject
<1> HIDE DEF r
<1>6. /\ VersionsOK' /\ PageOK' /\ LandedOK' /\ ReportsAreTrue'
      /\ Carried' = Carried
  BY <1>2, <1>5, Submitted
<1>7. page.pending = None \/ IsPending(page.pending)
  BY DEF IInv, PageOK
<1>8. {r.expect, r.since} \subseteq 0..Live
  BY <1>3, <1>5
<1>9. RequestOK'
  BY <1>2, <1>3, <1>5, <1>7, <1>8, PublishedAtOnce
<1>10. WantsOK' /\ DraftSurvives'
  BY <1>2, <1>6, SameChangeSet DEF IInv
<1>11. QED
  BY <1>6, <1>9, <1>10 DEF IInv

LEMMA RollbackKeeps ==
  ASSUME IInv, Rollback
  PROVE  IInv'
<1> DEFINE form == Request("rollback", "publish")
<1>1. PICK v \in 1..Live - 1 :
        Submits([form EXCEPT !.pending = None, !.snapshot = Restored(v),
                             !.excuse = {"rollback"}])
  BY DEF Rollback
<1> DEFINE r == [form EXCEPT !.pending = None, !.snapshot = Restored(v),
                             !.excuse = {"rollback"}]
<1>2. Submits(r) /\ staged' = NoChanges
  BY <1>1 DEF Rollback
<1>3. Shaped(Restored(v))
  <2>1. v \in 1..Live
    BY VersionNumbers DEF IInv
  <2>2. QED
    BY <2>1 DEF IInv, VersionsOK, Restored, Parsed
<1>4. /\ DOMAIN form = RequestFields /\ IsObject(form)
      /\ form.kind = "rollback" /\ form.step = "publish" /\ form.id = requests + 1
      /\ form.expect = 0 /\ form.since = 0 /\ form.outcome = "viewed"
  BY FormFields
<1> HIDE DEF form
<1>5. /\ DOMAIN r = RequestFields /\ IsObject(r)
      /\ r.kind = "rollback" /\ r.step = "publish" /\ r.id = requests + 1
      /\ r.pending = None /\ r.expect = 0 /\ r.since = 0
      /\ r.outcome = "viewed" /\ r.snapshot = Restored(v)
  BY <1>4 DEF RequestFields, IsObject
<1> HIDE DEF r
<1>6. VersionsOK' /\ PageOK' /\ LandedOK' /\ ReportsAreTrue'
  BY <1>2, <1>5, Submitted
<1>7. {r.expect, r.since} \subseteq 0..Live
  BY <1>5, VersionNumbers DEF IInv
<1>8. RequestOK'
  BY <1>2, <1>3, <1>5, <1>7, PublishedAtOnce
<1>9. QED
  BY <1>2, <1>6, <1>8, NothingStaged DEF IInv

-----------------------------------------------------------------------------
(* Serving the request. *)

\* What a request that goes on leaves as it was.
GoesOn ==
  /\ DOMAIN request' = RequestFields /\ IsObject(request')
  /\ \A f \in {"kind", "id", "edit", "draft", "since"} : request'[f] = request[f]

\* What a step keeps that touches neither the page nor the versions.
LEMMA Untouched ==
  ASSUME IInv, UNCHANGED <<versions, page, requests>>
  PROVE  /\ VersionsOK' /\ PageOK' /\ ReportsAreTrue'
         /\ Live' = Live /\ Live \in Nat
<1>1. Live' = Live /\ Live \in Nat
  BY VersionNumbers DEF Live, IInv
<1>2. VersionsOK'
  BY <1>1 DEF IInv, VersionsOK, Live
<1>3. PageOK'
  BY <1>1 DEF IInv, PageOK, Live, IsPending
<1>4. ReportsAreTrue'
  BY <1>1 DEF IInv, ReportsAreTrue, ByThem
<1>5. QED
  BY <1>1, <1>2, <1>3, <1>4

LEMMA Served ==
  ASSUME IInv, ~Idle, UNCHANGED <<versions, page, staged, requests>>, GoesOn,
         request'.step # "none", request'.pending = request.pending
  PROVE  /\ VersionsOK' /\ PageOK' /\ ReportsAreTrue' /\ WantsOK' /\ DraftSurvives'
         /\ Live' = Live /\ Landed' = Landed /\ Live \in Nat
         /\ request.pending = None \/ IsPending(request.pending)'
         /\ \A v \in 1..Live : ByThem(v)' = ByThem(v) /\ Features(v)' = Features(v)
<1>1. /\ VersionsOK' /\ PageOK' /\ ReportsAreTrue'
      /\ Live' = Live /\ Live \in Nat /\ request'.id = request.id
  BY Untouched DEF GoesOn
<1>2. Landed' = Landed
  BY <1>1 DEF Landed, ByThem
<1>3. Carried' = Carried
  BY DEF Carried, Idle
<1>4. WantsOK' /\ DraftSurvives'
  BY <1>3, SameChangeSet DEF IInv
<1>5. request.pending = None \/ IsPending(request.pending)'
  BY <1>1 DEF IInv, RequestOK, IsPending
<1>6. QED
  BY <1>1, <1>2, <1>4, <1>5 DEF ByThem, Features

LEMMA EndsAs ==
  ASSUME IInv, ~Idle, NEW outcome, request' = Ends(request, outcome)
  PROVE  /\ GoesOn /\ request'.step = "browse" /\ request'.outcome = outcome
         /\ request'.pending = request.pending /\ request'.expect = request.expect
BY DEF IInv, RequestOK, RequestFields, Ends, GoesOn, IsObject

\* A request that ends without a version of its own, or without knowing of it.
LEMMA EndsUnpublished ==
  ASSUME IInv, Publishing \/ request.step \in {"stage", "latest"},
         UNCHANGED <<versions, page, staged, requests>>,
         NEW outcome \in {"refused", "conflict", "failed"},
         request' = Ends(request, outcome),
         outcome = "conflict" => /\ request.kind \in {"edit", "pending", "paste"}
                                 /\ 0 < request.since /\ request.since < Live
  PROVE  IInv'
<1>1. ~Idle
  BY DEF Publishing, Idle
<1>2. /\ GoesOn /\ request'.step = "browse" /\ request'.outcome = outcome
      /\ request'.pending = request.pending /\ request'.expect = request.expect
  BY <1>1, EndsAs
<1>3. /\ VersionsOK' /\ PageOK' /\ ReportsAreTrue' /\ WantsOK' /\ DraftSurvives'
      /\ Live' = Live /\ Landed' = Landed
      /\ request.pending = None \/ IsPending(request.pending)'
  BY <1>1, <1>2, Served
<1>4. RequestOK'
  BY <1>1, <1>2, <1>3 DEF IInv, RequestOK, GoesOn, Publishing, Idle
<1>5. LandedOK'
  <2>1. \A v \in Landed : ~versions[v].answered
    BY <1>1 DEF IInv, LandedOK, Publishing
  <2>2. QED
    BY <1>2, <1>3, <2>1 DEF LandedOK, Idle
<1>6. QED
  BY <1>3, <1>4, <1>5 DEF IInv

LEMMA StartOfSave ==
  ASSUME IInv, request.step = "stage"
  PROVE  IsPending(StartingPoint)
<1>1. /\ ~Idle /\ page.shown > 0 /\ page.shown \in 0..Live
      /\ request.pending = None \/ IsPending(request.pending)
  BY DEF IInv, Idle, RequestOK, FormSent, PageOK
<1>2. Live \in 1..Live
  BY <1>1, VersionNumbers DEF IInv
<1>3. IsPending(LiveStart)
  BY <1>2 DEF IsPending, LiveStart, IInv, VersionsOK
<1>4. QED
  BY <1>1, <1>3 DEF StartingPoint

\* What the page shows of a flag, and the form that was sent of it.
LEMMA SentForm ==
  ASSUME DashboardSentinels, IInv, request.step = "stage"
  PROVE  LET rendered == Features(page.shown)[request.edit.key]
             form     == request.edit.form
         IN /\ Holds(rendered) /\ ValidFeature(rendered)
            /\ IsForm(form)
            /\ form.default = Undefined => Field(rendered, "default") = Undefined
            /\ page.shown \in 1..Live
            /\ request.edit.key \in DOMAIN Features(page.shown)
<1>1. ~Idle /\ FormSent
  BY DEF IInv, RequestOK, Idle
<1>2. page.shown \in 1..Live
  BY <1>1, VersionNumbers DEF IInv, PageOK, FormSent
<1>3. Parsed(versions[page.shown].snapshot)
  BY <1>2 DEF IInv, VersionsOK
<1>4. /\ Holds(Features(page.shown)[request.edit.key])
      /\ ValidFeature(Features(page.shown)[request.edit.key])
  BY <1>1, <1>3 DEF Parsed, Shaped, ValidSnapshot, Features, FormSent
<1>5. QED
  BY <1>1, <1>2, <1>4, FormsFit DEF FormSent

LEMMA StageKeeps ==
  ASSUME DashboardSentinels, IInv, Stage
  PROVE  IInv'
<1> DEFINE key      == request.edit.key
           form     == request.edit.form
           rendered == Features(page.shown)[key]
           start    == StartingPoint
           result   == Save(start.snapshot, key, form)
           wanted   == WantedBy(key, form, rendered)
           after    == [baseVersion |-> start.baseVersion, snapshot |-> result]
<1>1. /\ request.step = "stage" /\ ~Idle
      /\ UNCHANGED <<versions, page, requests>>
  BY DEF Stage, Idle
<1>2. CASE result = Refused
  <2>1. request' = Ends(request, "refused") /\ staged' = staged
    BY <1>2 DEF Stage
  <2>2. QED
    BY <1>1, <2>1, EndsUnpublished
<1>3. CASE result # Refused
  <2> DEFINE saved == [request EXCEPT !.pending = after]
             own == staged.own \union {<<w[1], w[2]>> : w \in wanted}
  <2>1. /\ request' = Ends(saved, "staged")
        /\ staged' = [own   |-> own,
                      wants |-> wanted \union StillWanted(wanted),
                      mixed |-> staged.mixed \/ start.snapshot.features[key] # rendered]
    BY <1>3 DEF Stage
  <2>2. /\ IsForm(form)
        /\ form.default = Undefined => Field(rendered, "default") = Undefined
    BY <1>1, SentForm
  <2>3. IsPending(start) /\ Parsed(start.snapshot)
    BY <1>1, StartOfSave DEF IsPending
  <2>4. Parsed(result)
    BY <1>3, <2>2, <2>3, SaveKeepsParsed DEF DashboardSentinels
  <2>5. request.pending # None => start = request.pending
    BY DEF StartingPoint
  <2>6. SavedForm(start, key, form, rendered, result, wanted)
    BY <1>3, <2>2, <2>3 DEF SavedForm
  <2> HIDE DEF own, result, wanted, start, rendered, form, key
  <2>7. after.snapshot = result /\ after # None
    BY DEF DashboardSentinels, IsObject
  <2>8. IsPending(after)
    BY <2>3, <2>4 DEF IsPending
  <2> HIDE DEF after
  <2>9. /\ staged'.wants = wanted \union StillWanted(wanted)
        /\ staged'.mixed = (staged.mixed \/ start.snapshot.features[key] # rendered)
    BY <2>1
  <2>10. /\ GoesOn /\ request'.step = "browse" /\ request'.outcome = "staged"
         /\ request'.pending = after /\ request'.expect = request.expect
    BY <1>1, <2>1 DEF IInv, RequestOK, RequestFields, Ends, GoesOn, IsObject
  <2>11. /\ VersionsOK' /\ PageOK' /\ ReportsAreTrue'
         /\ Live' = Live /\ ~Idle'
         /\ Carried' = after
    BY <1>1, <2>10, Untouched DEF Idle, Carried
  <2>12. Landed' = Landed /\ Landed = {}
    BY <1>1, <2>10, <2>11 DEF GoesOn, Landed, ByThem, IInv, LandedOK
  <2>13. IsPending(request.pending)'
    <3>1. PICK x : x = after
      OBVIOUS
    <3>2. IsPending(x)'
      BY <2>8, <2>11, <3>1 DEF IsPending
    <3>3. QED
      BY <2>10, <3>1, <3>2 DEF IsPending
  <2>14. RequestOK'
    BY <1>1, <2>10, <2>11, <2>13 DEF IInv, RequestOK, GoesOn, Publishing, Idle
  <2>15. LandedOK'
    BY <2>10, <2>12 DEF LandedOK
  <2>16. WantsOK' /\ DraftSurvives'
    BY <1>1, <2>5, <2>6, <2>7, <2>9, <2>11, SaveStages DEF DashboardSentinels
  <2>17. QED
    BY <2>11, <2>14, <2>15, <2>16 DEF IInv
<1>4. QED
  BY <1>2, <1>3

LEMMA StageFailsKeeps ==
  ASSUME IInv, StageFails
  PROVE  IInv'
BY EndsUnpublished DEF StageFails

\* A conflict is with a version after the one the request started from.
LEMMA ConflictSince ==
  ASSUME IInv, Publishing, request.expect # 0, request.expect # Live
  PROVE  /\ request.since \in 1..Live - 1
         /\ request.kind \in {"edit", "pending", "paste"}
BY VersionNumbers DEF IInv, RequestOK, Publishing, Idle

LEMMA ConflictKeeps ==
  ASSUME IInv, Conflict
  PROVE  IInv'
<1>1. /\ Publishing /\ ~Idle /\ request' = Conflicted(request)
      /\ request.expect # 0 /\ request.expect # Live
      /\ UNCHANGED <<versions, page, staged, requests>>
  BY DEF Conflict, Publishing, Idle, Expected
<1>2. /\ request.since \in 1..Live - 1
      /\ request.kind \in {"edit", "pending", "paste"}
  BY <1>1, ConflictSince
<1>3. CASE request.kind = "edit" /\ request.step = "publish"
  <2>1. request' = [request EXCEPT !.step = "latest"]
    BY <1>1, <1>3 DEF Conflicted
  <2>2. /\ GoesOn /\ request'.step = "latest" /\ request'.expect = request.expect
        /\ request'.pending = request.pending
    BY <1>1, <2>1 DEF IInv, RequestOK, RequestFields, GoesOn, IsObject
  <2>3. /\ VersionsOK' /\ PageOK' /\ ReportsAreTrue' /\ WantsOK' /\ DraftSurvives'
        /\ Live' = Live /\ Landed' = Landed
        /\ request.pending = None \/ IsPending(request.pending)'
    BY <1>1, <2>2, Served
  <2>4. RequestOK'
    BY <1>1, <1>2, <1>3, <2>2, <2>3 DEF IInv, RequestOK, GoesOn, Publishing, Idle
  <2>5. LandedOK'
    BY <1>1, <1>3, <2>2, <2>3 DEF IInv, LandedOK
  <2>6. QED
    BY <2>3, <2>4, <2>5 DEF IInv
<1>4. CASE ~(request.kind = "edit" /\ request.step = "publish")
  <2>1. request' = Ends(request, "conflict")
    BY <1>1, <1>4 DEF Conflicted
  <2>2. 0 < request.since /\ request.since < Live
    BY <1>2, VersionNumbers DEF IInv
  <2>3. QED
    BY <1>1, <1>2, <2>1, <2>2, EndsUnpublished
<1>5. QED
  BY <1>3, <1>4

LEMMA ReadLatestFailsKeeps ==
  ASSUME IInv, ReadLatestFails
  PROVE  IInv'
<1>1. /\ request.step = "latest" /\ request' = Ends(request, "conflict")
      /\ UNCHANGED <<versions, page, staged, requests>>
  BY DEF ReadLatestFails
<1>2. request.kind = "edit" /\ 0 < request.since /\ request.since < Live
  BY <1>1, VersionNumbers DEF IInv, RequestOK, Idle
<1>3. QED
  BY <1>1, <1>2, EndsUnpublished

\* An edit that is replayed was undone if it had landed.
LEMMA ReplayOnLatestKeeps ==
  ASSUME DashboardSentinels, IInv, ReplayOnLatest
  PROVE  IInv'
<1> DEFINE latest == versions[Live].snapshot
           replayed == ApplyFlagEdit(latest, request.edit)
<1>1. /\ request.step = "latest" /\ ~Idle
      /\ UNCHANGED <<versions, page, staged, requests>>
      /\ request' =
          IF ~CanReplayEdit(versions[request.since].snapshot, latest, request.edit)
          THEN Ends(request, "conflict")
          ELSE IF replayed = Refused THEN Ends(request, "refused")
          ELSE [request EXCEPT !.step = "replay", !.expect = Live, !.snapshot = replayed]
  BY DEF ReplayOnLatest, Idle
<1>2. /\ request.kind = "edit" /\ IsImmediate(request.edit)
      /\ 0 < request.since /\ request.since < Live /\ request.since \in 1..Live - 1
  BY <1>1, VersionNumbers DEF IInv, RequestOK
<1>3. Live \in 1..Live /\ Parsed(latest)
  <2>1. Live \in 1..Live
    BY <1>2, VersionNumbers DEF IInv
  <2>2. QED
    BY <2>1 DEF IInv, VersionsOK
<1>4. replayed # Refused => /\ Shaped(replayed)
                            /\ ~ShowsEdit(latest.features, request.edit)
  BY <1>2, <1>3, EditKeepsParsed, EditShows DEF DashboardSentinels, IsImmediate, Parsed
<1> HIDE DEF replayed
<1>5. CASE request' = Ends(request, "conflict")
  BY <1>1, <1>2, <1>5, EndsUnpublished
<1>6. CASE request' = Ends(request, "refused")
  BY <1>1, <1>6, EndsUnpublished
<1>7. CASE /\ replayed # Refused
           /\ request' = [request EXCEPT !.step = "replay", !.expect = Live,
                                         !.snapshot = replayed]
  <2>1. /\ GoesOn /\ request'.step = "replay" /\ request'.expect = Live
        /\ request'.pending = request.pending /\ request'.snapshot = replayed
    <3>1. DOMAIN request = RequestFields /\ IsObject(request)
      BY <1>1 DEF IInv, RequestOK
    <3>2. QED
      BY <1>7, <3>1 DEF RequestFields, GoesOn, IsObject
  <2>2. /\ VersionsOK' /\ PageOK' /\ ReportsAreTrue' /\ WantsOK' /\ DraftSurvives'
        /\ Live' = Live /\ Landed' = Landed /\ Live \in Nat
        /\ request.pending = None \/ IsPending(request.pending)'
        /\ \A v \in 1..Live : ByThem(v)' = ByThem(v) /\ Features(v)' = Features(v)
    BY <1>1, <2>1, Served
  <2>3. RequestOK'
    BY <1>1, <1>2, <1>4, <1>7, <2>1, <2>2 DEF IInv, RequestOK, GoesOn, Publishing, Idle
  <2>4. ASSUME NEW v \in Landed
        PROVE  /\ ~versions[v].answered /\ ShowsEdit(Features(v), request.edit)
               /\ \A u \in v + 1..Live : ~ByThem(u)
               /\ v < Live
    <3>1. /\ ~versions[v].answered /\ ShowsEdit(Features(v), request.edit)
          /\ \A u \in v + 1..Live : ~ByThem(u)
          /\ v \in 1..Live
      BY <1>1 DEF IInv, LandedOK, Landed
    <3>2. v # Live
      BY <1>4, <1>7, <3>1 DEF Features
    <3>3. QED
      BY <2>2, <3>1, <3>2
  <2>5. LandedOK'
    <3>1. ASSUME NEW v \in Landed
          PROVE  /\ ~versions'[v].answered /\ ShowsEdit(Features(v)', request'.edit)
                 /\ \A u \in v + 1..Live : ~ByThem(u)'
                 /\ v < Live
      <4>1. v \in 1..Live /\ \A u \in v + 1..Live : u \in 1..Live
        BY <2>2 DEF Landed
      <4>2. QED
        BY <1>1, <2>1, <2>2, <2>4, <4>1 DEF GoesOn
    <3>2. QED
      BY <2>1, <2>2, <3>1 DEF LandedOK
  <2>6. QED
    BY <2>2, <2>3, <2>5 DEF IInv
<1>8. QED
  BY <1>1, <1>5, <1>6, <1>7

-----------------------------------------------------------------------------
(* A version more. *)

LEMMA Grown ==
  ASSUME IInv, NEW entry, versions' = Append(versions, entry), Parsed(entry.snapshot),
         entry.by \in 0..requests, UNCHANGED <<page, requests>>
  PROVE  /\ VersionsOK' /\ PageOK'
         /\ Live \in Nat /\ Live' = Live + 1 /\ versions'[Live + 1] = entry
         /\ \A v \in 1..Live : versions'[v] = versions[v]
         /\ \A pending : IsPending(pending) => IsPending(pending)'
<1>1. /\ Live \in Nat /\ Live' = Live + 1 /\ versions'[Live + 1] = entry
      /\ IsArray(versions')
      /\ \A v \in 1..Live : versions'[v] = versions[v]
  BY Appending DEF IInv, VersionsOK, Live
<1>2. VersionsOK'
  <2>1. ASSUME NEW v \in 1..Live + 1
        PROVE  Parsed(versions'[v].snapshot) /\ versions'[v].by \in 0..requests
    <3>1. CASE v \in 1..Live
      BY <1>1, <3>1 DEF IInv, VersionsOK
    <3>2. CASE v = Live + 1
      BY <1>1, <3>2
    <3>3. v \in 1..Live \/ v = Live + 1
      BY <1>1
    <3>4. QED
      BY <3>1, <3>2, <3>3
  <2>2. QED
    BY <1>1, <2>1 DEF IInv, VersionsOK
<1>3. \A pending : IsPending(pending) => IsPending(pending)'
  BY <1>1 DEF IsPending
<1>4. PageOK'
  <2>1. page.pending = None \/ IsPending(page.pending)'
    BY <1>3 DEF IInv, PageOK
  <2>2. {page.shown, page.latest, page.since, page.reviewed} \subseteq 0..Live + 1
    BY <1>1 DEF IInv, PageOK
  <2>3. QED
    BY <1>1, <2>1, <2>2 DEF IInv, PageOK
<1>5. QED
  BY <1>1, <1>2, <1>3, <1>4

\* The request that the page answers knows of a version it has published.
KnowsOfOne ==
  \E v \in {u \in 1..Live : ByThem(u) /\ versions[u].by = page.request} :
    versions[v].answered

\* A request that lands published nothing before, or something that others undid.
LEMMA LandsTruly ==
  ASSUME IInv, Publishing, NEW entry, entry.by = request.id,
         Live' = Live + 1, versions'[Live + 1] = entry,
         \A v \in 1..Live : versions'[v] = versions[v], page' = page
  PROVE  ReportsAreTrue'
<1>1. /\ Live \in Nat /\ ~Idle /\ page.request # request.id
      /\ request.id \in Nat
  BY VersionNumbers DEF IInv, RequestOK, Publishing, Idle, PageOK, VersionsOK
<1>2. \A v \in 1..Live : ByThem(v)' = ByThem(v)
  BY DEF ByThem
<1>3. {v \in 1..Live + 1 : ByThem(v)' /\ versions'[v].by = page.request} =
        {v \in 1..Live : ByThem(v) /\ versions[v].by = page.request}
  BY <1>1, <1>2
<1>4. ASSUME NEW v \in 1..Live + 1, NEW w \in v + 1..Live + 1, ByThem(v)',
             versions'[v].by = versions'[w].by
      PROVE  ~versions'[v].answered /\ \E u \in v + 1..w - 1 : ~ByThem(u)'
  <2>1. v \in 1..Live
    BY <1>1, <1>4
  <2>2. CASE w \in 1..Live
    <3>1. w \in v + 1..Live /\ ByThem(v) /\ versions[v].by = versions[w].by
      BY <1>1, <1>2, <1>4, <2>1, <2>2
    <3>2. ~versions[v].answered /\ \E u \in v + 1..w - 1 : ~ByThem(u)
      BY <2>1, <3>1 DEF IInv, ReportsAreTrue
    <3>3. PICK u \in v + 1..w - 1 : ~ByThem(u)
      BY <3>2
    <3>4. u \in 1..Live
      BY <1>1, <2>1, <2>2
    <3>5. QED
      BY <1>2, <2>1, <3>2, <3>3, <3>4
  <2>3. CASE w = Live + 1
    <3>1. v \in Landed
      BY <1>2, <1>4, <2>1, <2>3 DEF Landed
    <3>2. /\ ~versions[v].answered /\ v < Live
          /\ \A u \in v + 1..Live : ~ByThem(u)
      BY <1>1, <3>1 DEF IInv, LandedOK, Publishing
    <3>3. PICK u : u = Live
      OBVIOUS
    <3>4. u \in v + 1..w - 1 /\ u \in v + 1..Live /\ u \in 1..Live
      BY <1>1, <2>1, <2>3, <3>2, <3>3
    <3>5. ~ByThem(u)'
      BY <1>2, <3>2, <3>4
    <3>6. QED
      BY <2>1, <3>2, <3>4, <3>5
  <2>4. QED
    BY <1>1, <1>4, <2>2, <2>3
<1>5. /\ page.outcome = "published" => KnowsOfOne'
      /\ KnowsOfOne' => page.outcome \in {"published", "error"}
  BY <1>1, <1>3 DEF IInv, ReportsAreTrue, KnowsOfOne
<1>6. page.since > 0 => page.since < page.shown
  BY DEF IInv, ReportsAreTrue
<1>7. QED
  BY <1>4, <1>5, <1>6 DEF ReportsAreTrue, KnowsOfOne

LEMMA RivalPublishesKeeps ==
  ASSUME DashboardSentinels, IInv, RivalPublishes
  PROVE  IInv'
<1>1. /\ UNCHANGED <<page, request, staged, requests>>
      /\ requests \in Nat /\ Live \in Nat /\ DOMAIN versions = 1..Live
  BY VersionNumbers DEF RivalPublishes, IInv, VersionsOK
<1>2. PICK snapshot \in
        ({ApplyFlagEdit(IF Live = 0 THEN Prefill ELSE versions[Live].snapshot, e) :
            e \in RivalEdits} \ {Refused})
        \union {versions[v].snapshot : v \in DOMAIN versions} :
          versions' = Append(versions, Version(snapshot, 0))
  BY DEF RivalPublishes
<1> DEFINE entry == Version(snapshot, 0)
<1>3. Parsed(snapshot)
  <2>1. CASE snapshot \in {versions[v].snapshot : v \in DOMAIN versions}
    BY <1>1, <2>1 DEF IInv, VersionsOK
  <2>2. ASSUME NEW e \in RivalEdits, snapshot # Refused,
               snapshot = ApplyFlagEdit(IF Live = 0 THEN Prefill
                                        ELSE versions[Live].snapshot, e)
        PROVE  Parsed(snapshot)
    <3> DEFINE base == IF Live = 0 THEN Prefill ELSE versions[Live].snapshot
    <3>1. Parsed(base)
      <4>1. CASE Live = 0
        BY <4>1, PrefillParsed DEF IInv
      <4>2. CASE Live # 0
        BY <1>1, <4>2 DEF IInv, VersionsOK
      <4>3. QED
        BY <4>1, <4>2
    <3>2. IsEdit(e)
      BY DashboardAssumption
    <3> HIDE DEF base
    <3>3. snapshot = ApplyFlagEdit(base, e)
      BY <2>2 DEF base
    <3>4. QED
      BY <2>2, <3>1, <3>2, <3>3, EditKeepsParsed DEF DashboardSentinels
  <2>3. QED
    BY <1>2, <2>1, <2>2
<1>4. entry.snapshot = snapshot /\ entry.by = 0
  BY DEF Version
<1> HIDE DEF entry
<1>5. versions' = Append(versions, entry)
  BY <1>2 DEF entry
<1>6. /\ VersionsOK' /\ PageOK'
      /\ Live' = Live + 1 /\ versions'[Live + 1] = entry
      /\ \A v \in 1..Live : versions'[v] = versions[v]
      /\ \A pending : IsPending(pending) => IsPending(pending)'
  BY <1>1, <1>3, <1>4, <1>5, Grown
<1>7. /\ \A v \in 1..Live : ByThem(v)' = ByThem(v) /\ Features(v)' = Features(v)
      /\ \A v : v = Live + 1 => ~ByThem(v)'
  BY <1>4, <1>6 DEF ByThem, Features
<1>8. Landed' = Landed
  <2>1. Landed' = {v \in 1..Live + 1 : ByThem(v)' /\ versions'[v].by = request.id}
    BY <1>1, <1>6 DEF Landed
  <2>2. QED
    BY <1>1, <1>6, <1>7, <2>1 DEF Landed
<1>9. RequestOK'
  <2>1. CASE Idle
    BY <1>1, <2>1 DEF RequestOK, Idle
  <2>2. CASE ~Idle
    <3>1. request.pending = None \/ IsPending(request.pending)'
      <4>1. PICK pending : pending = request.pending
        OBVIOUS
      <4>2. pending = None \/ IsPending(pending)
        BY <2>2, <4>1 DEF IInv, RequestOK
      <4>3. pending = None \/ IsPending(pending)'
        BY <1>6, <4>2
      <4>4. QED
        BY <1>1, <4>1, <4>3
    <3>2. request.step = "stage" => FormSent'
      <4>1. request.step = "stage" => FormSent /\ page.shown \in 1..Live
        BY <1>1, <2>2 DEF IInv, RequestOK, FormSent, PageOK
      <4>2. QED
        BY <1>1, <1>6, <4>1 DEF FormSent, Features
    <3>3. QED
      BY <1>1, <1>6, <2>2, <3>1, <3>2 DEF IInv, RequestOK, Idle, Publishing
  <2>3. QED
    BY <2>1, <2>2
<1>10. LandedOK'
  <2>1. ASSUME ~Idle, request.step \in {"latest", "replay"}, NEW v \in Landed
        PROVE  /\ ~versions'[v].answered /\ ShowsEdit(Features(v)', request.edit)
               /\ \A u \in v + 1..Live + 1 : ~ByThem(u)'
               /\ request.step = "replay" => v < Live + 1
    <3>1. /\ v \in 1..Live
          /\ ~versions[v].answered /\ ShowsEdit(Features(v), request.edit)
          /\ \A u \in v + 1..Live : ~ByThem(u)
      BY <2>1 DEF IInv, LandedOK, Landed
    <3>2. ASSUME NEW u \in v + 1..Live + 1
          PROVE  ~ByThem(u)'
      <4>1. (u \in 1..Live /\ u \in v + 1..Live) \/ u = Live + 1
        BY <1>1, <3>1
      <4>2. QED
        BY <1>7, <3>1, <4>1
    <3>3. QED
      BY <1>1, <1>6, <1>7, <3>1, <3>2
  <2>2. \A v \in Landed : versions'[v].answered = versions[v].answered
    BY <1>6 DEF Landed
  <2>3. QED
    BY <1>1, <1>6, <1>8, <2>1, <2>2 DEF IInv, LandedOK, Idle
<1>11. ReportsAreTrue'
  <2>1. {v \in 1..Live + 1 : ByThem(v)' /\ versions'[v].by = page.request} =
          {v \in 1..Live : ByThem(v) /\ versions[v].by = page.request}
    BY <1>1, <1>6, <1>7
  <2>2. ASSUME NEW v \in 1..Live + 1, NEW w \in v + 1..Live + 1, ByThem(v)',
               versions'[v].by = versions'[w].by
        PROVE  ~versions'[v].answered /\ \E u \in v + 1..w - 1 : ~ByThem(u)'
    <3>1. v \in 1..Live /\ (w \in 1..Live \/ w = Live + 1)
      BY <1>1, <2>2
    <3>2. w # Live + 1
      BY <1>4, <1>6, <2>2, <3>1 DEF ByThem
    <3>3. w \in v + 1..Live /\ ByThem(v) /\ versions[v].by = versions[w].by
      BY <1>1, <1>6, <1>7, <2>2, <3>1, <3>2
    <3>4. ~versions[v].answered /\ \E u \in v + 1..w - 1 : ~ByThem(u)
      BY <3>1, <3>3 DEF IInv, ReportsAreTrue
    <3>5. PICK u \in v + 1..w - 1 : ~ByThem(u)
      BY <3>4
    <3>6. u \in 1..Live
      BY <1>1, <3>1, <3>2
    <3>7. QED
      BY <1>6, <1>7, <3>1, <3>4, <3>5, <3>6
  <2>3. /\ page.outcome = "published" => KnowsOfOne'
        /\ KnowsOfOne' => page.outcome \in {"published", "error"}
    BY <1>1, <1>6, <2>1 DEF IInv, ReportsAreTrue, KnowsOfOne
  <2>4. page.since > 0 => page.since < page.shown
    BY DEF IInv, ReportsAreTrue
  <2>5. QED
    BY <1>1, <1>6, <2>2, <2>3, <2>4 DEF ReportsAreTrue, KnowsOfOne
<1>12. WantsOK' /\ DraftSurvives'
  BY <1>1, SameChangeSet DEF Carried, Idle, IInv
<1>13. QED
  BY <1>6, <1>9, <1>10, <1>11, <1>12 DEF IInv

\* The version of a request is the last one, and the only one if it was not
\* published before.
LEMMA Lands ==
  ASSUME IInv, Publishing, ValidSnapshot(request.snapshot), Expected(request),
         UNCHANGED <<page, requests>>, request'.id = request.id,
         NEW entry, versions' = Append(versions, entry),
         entry.by = request.id, entry.snapshot = request.snapshot
  PROVE  /\ VersionsOK' /\ PageOK' /\ ReportsAreTrue'
         /\ Live \in Nat /\ Live' = Live + 1 /\ versions'[Live + 1] = entry
         /\ \A v \in 1..Live : versions'[v] = versions[v]
         /\ \A pending : IsPending(pending) => IsPending(pending)'
         /\ Landed' = Landed \union {Live + 1}
         /\ \A v \in Landed : v \in 1..Live /\ ~versions'[v].answered
<1>1. /\ ~Idle /\ Shaped(request.snapshot) /\ request.id = requests
      /\ requests \in Nat /\ request.id # 0
  BY DEF IInv, RequestOK, VersionsOK, PageOK, Publishing, Idle
<1>2. Parsed(entry.snapshot) /\ entry.by \in 0..requests
  BY <1>1 DEF Parsed
<1>3. /\ VersionsOK' /\ PageOK'
      /\ Live \in Nat /\ Live' = Live + 1 /\ versions'[Live + 1] = entry
      /\ \A v \in 1..Live : versions'[v] = versions[v]
      /\ \A pending : IsPending(pending) => IsPending(pending)'
  BY <1>2, Grown
<1>4. ReportsAreTrue'
  BY <1>3, LandsTruly
<1>5. Landed' = Landed \union {Live + 1}
  <2>1. Landed' = {v \in 1..Live + 1 : ByThem(v)' /\ versions'[v].by = request.id}
    BY <1>3 DEF Landed
  <2>2. \A v \in 1..Live : ByThem(v)' = ByThem(v)
    BY <1>3 DEF ByThem
  <2>3. \A v : v = Live + 1 => ByThem(v)' /\ versions'[v].by = request.id
    BY <1>1, <1>3 DEF ByThem
  <2>4. \A v \in 1..Live + 1 : v \in 1..Live \/ v = Live + 1
    BY <1>3
  <2>5. \A v \in 1..Live : v \in 1..Live + 1
    BY <1>3
  <2>6. Live + 1 \in 1..Live + 1
    BY <1>3
  <2>7. QED
    BY <1>3, <2>1, <2>2, <2>3, <2>4, <2>5, <2>6 DEF Landed
<1>6. \A v \in Landed : v \in 1..Live /\ ~versions'[v].answered
  BY <1>1, <1>3 DEF Landed, LandedOK, IInv, Publishing
<1>7. QED
  BY <1>3, <1>4, <1>5, <1>6

LEMMA PublishKeeps ==
  ASSUME DashboardSentinels, IInv, Publish
  PROVE  IInv'
<1>1. Publishing /\ ~Idle /\ UNCHANGED <<page, requests>>
  BY DEF Publish, Publishing, Idle
<1>2. CASE ~ValidSnapshot(request.snapshot)
  BY <1>1, <1>2, EndsUnpublished DEF Publish
<1>3. CASE ValidSnapshot(request.snapshot)
  <2> DEFINE entry == ByOperator(request)
             after == IF request.kind = "pending" THEN None ELSE request.pending
             r == [request EXCEPT !.pending = after]
  <2>1. /\ Expected(request)
        /\ versions' = Append(versions, entry)
        /\ request' = Ends(r, "published")
        /\ staged' = IF request.kind = "pending" THEN NoChanges ELSE staged
    BY <1>3 DEF Publish
  <2>2. entry.by = request.id /\ entry.snapshot = request.snapshot /\ entry.answered
    BY DEF ByOperator
  <2> HIDE DEF entry, after
  <2>3. /\ GoesOn /\ request'.step = "browse" /\ request'.outcome = "published"
        /\ request'.pending = after /\ request'.expect = request.expect
    BY <1>1, <2>1 DEF IInv, RequestOK, RequestFields, Ends, GoesOn, IsObject
  <2> HIDE DEF r
  <2>4. request'.id = request.id
    BY <2>3 DEF GoesOn
  <2>5. /\ VersionsOK' /\ PageOK' /\ ReportsAreTrue'
        /\ Live \in Nat /\ Live' = Live + 1 /\ versions'[Live + 1] = entry
        /\ \A pending : IsPending(pending) => IsPending(pending)'
        /\ Landed' = Landed \union {Live + 1}
    BY <1>1, <1>3, <2>1, <2>2, <2>4, Lands
  <2>6. request'.pending = None \/ IsPending(request.pending)'
    <3>1. request.pending = None \/ IsPending(request.pending)
      BY <1>1 DEF IInv, RequestOK
    <3>2. after = None \/ IsPending(after)
      BY <3>1 DEF after
    <3>3. PICK x : x = after
      OBVIOUS
    <3>4. x = None \/ IsPending(x)'
      BY <2>5, <3>2, <3>3
    <3>5. QED
      BY <2>3, <3>3, <3>4 DEF IsPending
  <2>7. RequestOK'
    <3>1. ~Idle' /\ ~Publishing'
      BY <2>3 DEF Idle, Publishing
    <3>2. request'.id = requests' /\ page'.request < request'.id
      BY <1>1, <2>4 DEF IInv, RequestOK
    <3>3. {request'.expect, request'.since} \subseteq 0..Live + 1
      BY <1>1, <2>3, <2>5 DEF IInv, RequestOK, GoesOn
    <3>4. request'.kind = "paste" => IsDraft(request'.draft)
      BY <1>1, <2>3 DEF IInv, RequestOK, GoesOn
    <3>5. QED
      BY <2>3, <2>5, <2>6, <3>1, <3>2, <3>3, <3>4 DEF RequestOK, GoesOn
  <2>8. LandedOK'
    <3>1. Live + 1 \in Landed' /\ versions'[Live + 1].answered
      BY <2>2, <2>5
    <3>2. QED
      BY <2>3, <3>1 DEF LandedOK
  <2>9. WantsOK' /\ DraftSurvives'
    <3>1. CASE request.kind = "pending"
      BY <2>1, <3>1, NothingStaged
    <3>2. CASE request.kind # "pending"
      <4>1. Carried' = Carried
        BY <1>1, <2>3, <3>2 DEF Carried, Idle, after
      <4>2. QED
        BY <2>1, <3>2, <4>1, SameChangeSet DEF IInv
    <3>3. QED
      BY <3>1, <3>2
  <2>10. QED
    BY <2>5, <2>7, <2>8, <2>9 DEF IInv
<1>4. QED
  BY <1>2, <1>3

\* It lands too when the answer is lost, and what is told is a conflict or a failure.
LEMMA LandsUnanswered ==
  ASSUME IInv, Publishing, ValidSnapshot(request.snapshot), Expected(request),
         versions' = Append(versions, [ByOperator(request) EXCEPT !.answered = FALSE]),
         request' \in {Conflicted(request), Ends(request, "failed")},
         UNCHANGED <<page, staged, requests>>
  PROVE  IInv'
<1> DEFINE entry == [ByOperator(request) EXCEPT !.answered = FALSE]
           retried == /\ request.kind = "edit" /\ request.step = "publish"
                      /\ request' = Conflicted(request)
           outcome == IF request.expect = 0 \/ request' = Ends(request, "failed")
                      THEN "failed" ELSE "conflict"
<1>1. ~Idle
  BY DEF Publishing, Idle
<1>2. entry.by = request.id /\ entry.snapshot = request.snapshot /\ ~entry.answered
  BY DEF ByOperator
<1> HIDE DEF entry
<1>3. /\ GoesOn /\ request'.pending = request.pending /\ request'.expect = request.expect
      /\ retried => request'.step = "latest"
      /\ ~retried => request'.step = "browse" /\ request'.outcome = outcome
  <2>1. CASE retried
    BY <1>1, <2>1 DEF Conflicted, IInv, RequestOK, RequestFields, GoesOn, IsObject
  <2>2. CASE ~retried
    <3>1. request' = Ends(request, outcome)
      BY <2>2 DEF Conflicted
    <3> HIDE DEF outcome
    <3>2. QED
      BY <1>1, <2>2, <3>1, EndsAs
  <2>3. QED
    BY <2>1, <2>2
<1> HIDE DEF retried
<1>4. request'.id = request.id
  BY <1>3 DEF GoesOn
<1>5. /\ VersionsOK' /\ PageOK' /\ ReportsAreTrue'
      /\ Live \in Nat /\ Live' = Live + 1 /\ versions'[Live + 1] = entry
      /\ \A v \in 1..Live : versions'[v] = versions[v]
      /\ \A pending : IsPending(pending) => IsPending(pending)'
      /\ Landed' = Landed \union {Live + 1}
      /\ \A v \in Landed : v \in 1..Live /\ ~versions'[v].answered
  BY <1>2, <1>4, Lands DEF entry
<1>6. request'.pending = None \/ IsPending(request.pending)'
  <2>1. PICK x : x = request.pending
    OBVIOUS
  <2>2. x = None \/ IsPending(x)'
    BY <1>1, <1>5, <2>1 DEF IInv, RequestOK
  <2>3. QED
    BY <1>3, <2>1, <2>2 DEF IsPending
<1>7. request.expect # 0 =>
        /\ 0 < request.since /\ request.since < Live + 1 /\ request.since \in 1..Live
        /\ request.kind \in {"edit", "pending", "paste"}
  BY <1>1, <1>5 DEF IInv, RequestOK, Publishing
<1>8. RequestOK'
  <2>1. ~Idle' /\ ~Publishing'
    BY <1>3 DEF Idle, Publishing
  <2>2. request'.id = requests' /\ page'.request < request'.id
    BY <1>1, <1>4 DEF IInv, RequestOK
  <2>3. {request'.expect, request'.since} \subseteq 0..Live + 1
    BY <1>1, <1>3, <1>5 DEF IInv, RequestOK, GoesOn
  <2>4. request'.kind = "paste" => IsDraft(request'.draft)
    BY <1>1, <1>3 DEF IInv, RequestOK, GoesOn
  <2>5. CASE retried
    <3>1. IsImmediate(request.edit) /\ request.kind = "edit" /\ request.expect # 0
      BY <1>1, <1>5, <2>5 DEF IInv, RequestOK, retried
    <3>2. request'.since \in 1..(Live + 1) - 1
      BY <1>3, <1>5, <1>7, <3>1 DEF GoesOn
    <3>3. QED
      BY <1>3, <1>5, <1>6, <2>1, <2>2, <2>3, <2>4, <2>5, <3>1, <3>2 DEF RequestOK, GoesOn
  <2>6. CASE ~retried
    <3>1. request'.outcome = "conflict" => request.expect # 0
      BY <1>3, <2>6
    <3>2. QED
      BY <1>3, <1>5, <1>6, <1>7, <2>1, <2>2, <2>3, <2>4, <2>6, <3>1 DEF RequestOK, GoesOn
  <2>7. QED
    BY <2>5, <2>6
<1>9. LandedOK'
  <2>1. ~versions'[Live + 1].answered
    BY <1>2, <1>5
  <2>2. CASE retried
    <3>1. Landed = {} /\ ShowsEdit(request.snapshot.features, request.edit)
      BY <1>1, <2>2 DEF IInv, LandedOK, RequestOK, retried
    <3>2. PICK last : last = Live + 1
      OBVIOUS
    <3>3. Features(last)' = request.snapshot.features
      BY <1>2, <1>5, <3>2 DEF Features
    <3>4. ASSUME NEW v \in {last}
          PROVE  /\ ~versions'[v].answered /\ ShowsEdit(Features(v)', request'.edit)
                 /\ \A u \in v + 1..Live + 1 : ~ByThem(u)'
      <4>1. v = last /\ last + 1..Live + 1 = {}
        BY <1>5, <3>2
      <4>2. ~versions'[v].answered
        BY <2>1, <3>2, <4>1
      <4>3. ShowsEdit(Features(v)', request'.edit)
        BY <1>3, <3>1, <3>3, <4>1 DEF GoesOn, Features
      <4>4. QED
        BY <4>1, <4>2, <4>3
    <3>5. Landed' = {last}
      BY <1>5, <3>1, <3>2
    <3>6. QED
      BY <1>3, <1>5, <2>2, <3>4, <3>5 DEF LandedOK
  <2>3. CASE ~retried
    <3>1. \A v \in Landed' : ~versions'[v].answered
      BY <1>5, <2>1
    <3>2. request'.outcome # "published"
      BY <1>3, <2>3
    <3>3. QED
      BY <1>3, <2>3, <3>1, <3>2 DEF LandedOK
  <2>4. QED
    BY <2>2, <2>3
<1>10. WantsOK' /\ DraftSurvives'
  <2>1. ~Idle'
    BY <1>3 DEF Idle
  <2>2. Carried' = Carried
    BY <1>1, <1>3, <2>1 DEF Carried
  <2>3. QED
    BY <2>2, SameChangeSet DEF IInv
<1>11. QED
  BY <1>5, <1>8, <1>9, <1>10 DEF IInv

LEMMA PublishFailsKeeps ==
  ASSUME IInv, PublishFails
  PROVE  IInv'
<1>1. CASE request' = Ends(request, "failed") /\ UNCHANGED versions
  BY <1>1, EndsUnpublished DEF PublishFails
<1>2. CASE /\ ValidSnapshot(request.snapshot) /\ Expected(request)
           /\ versions' = Append(versions, [ByOperator(request) EXCEPT !.answered = FALSE])
           /\ request' \in {Conflicted(request), Ends(request, "failed")}
  BY <1>2, LandsUnanswered DEF PublishFails
<1>3. QED
  BY <1>1, <1>2 DEF PublishFails

-----------------------------------------------------------------------------
(* The answer. *)

\* Whatever page answers a request, it shows a version there is, later than the
\* one that a conflict was with.
LEMMA Answered ==
  ASSUME DashboardSentinels, IInv, request.step \in {"browse", "drift"},
         NEW shown \in 0..Live, NEW drifted \in BOOLEAN,
         request.outcome = "conflict" => request.since < shown,
         page' = Answer(shown, drifted), request' = NoRequest,
         UNCHANGED <<versions, staged, requests>>
  PROVE  IInv'
<1> DEFINE conflict == request.outcome = "conflict" /\ request.kind # "pending"
           kept == request.kind = "paste" /\ request.outcome \in {"conflict", "failed", "refused"}
           seen == IF conflict THEN shown ELSE request.draft.seen
           draft == [request.draft EXCEPT !.seen = seen]
<1>1. /\ page'.shown = shown /\ page'.latest = shown /\ page'.reviewed = 0
      /\ page'.pending = request.pending /\ page'.drifted = drifted
      /\ page'.draft = (IF kept THEN draft ELSE None)
      /\ page'.since = (IF conflict THEN request.since ELSE 0)
      /\ page'.keyed = (conflict /\ request.kind = "edit")
      /\ page'.outcome = request.outcome /\ page'.request = request.id
      /\ DOMAIN page' = {"shown", "pending", "drifted", "draft", "since", "keyed",
                         "latest", "reviewed", "outcome", "request"}
      /\ IsObject(page')
  BY DEF Answer, IsObject
<1>2. /\ ~Idle /\ Idle' /\ Live' = Live /\ Live \in Nat /\ versions' = versions
      /\ requests' = requests /\ staged' = staged
      /\ requests \in Nat
  BY VersionNumbers DEF IInv, VersionsOK, Idle, NoRequest, Live
<1> HIDE DEF seen
<1>3. request.kind = "paste" => IsDraft(draft) /\ draft # None
  BY <1>2 DEF IInv, RequestOK, IsDraft, IsObject, DashboardSentinels
<1>4. conflict => 0 < request.since /\ request.since < shown /\ request.kind \in {"edit", "paste"}
  BY <1>2 DEF IInv, RequestOK
<1>5. request.pending = None \/ IsPending(request.pending)
  BY <1>2 DEF IInv, RequestOK
<1>6. VersionsOK' /\ RequestOK' /\ LandedOK'
  BY <1>2 DEF IInv, VersionsOK, RequestOK, LandedOK
<1> HIDE DEF draft
<1>7. PageOK'
  <2>1. page'.pending = None \/ IsPending(page.pending)'
    BY <1>1, <1>2, <1>5 DEF IsPending
  <2>2. page'.draft = None \/ IsDraft(page'.draft)
    BY <1>1, <1>3
  <2>3. page'.since > 0 => page'.since < page'.shown /\ (page'.keyed \/ page'.draft # None)
    <3>1. conflict /\ request.kind = "paste" => kept
      OBVIOUS
    <3> HIDE DEF conflict, kept
    <3>2. page'.since > 0 => conflict
      BY <1>1
    <3>3. conflict /\ request.kind = "edit" => page'.keyed
      BY <1>1
    <3>4. conflict /\ request.kind = "paste" => page'.draft # None
      BY <1>1, <1>3, <3>1
    <3>5. QED
      BY <1>1, <1>4, <3>2, <3>3, <3>4
  <2>4. {page'.shown, page'.latest, page'.since, page'.reviewed} \subseteq 0..Live
    BY <1>1, <1>2 DEF IInv, RequestOK
  <2>5. {page'.drifted, page'.keyed} \subseteq BOOLEAN
    BY <1>1
  <2>6. page'.request \in 0..requests
    BY <1>1, <1>2 DEF IInv, RequestOK
  <2>7. QED
    BY <1>1, <1>2, <2>1, <2>2, <2>3, <2>4, <2>5, <2>6 DEF PageOK
<1>8. ReportsAreTrue'
  <2>1. request.outcome = "published" <=> \E v \in Landed : versions[v].answered
    BY <1>2 DEF IInv, LandedOK
  <2>2. page'.since > 0 => page'.since < page'.shown
    BY <1>1, <1>4
  <2>3. QED
    BY <1>1, <1>2, <2>1, <2>2 DEF IInv, ReportsAreTrue, Landed, ByThem
<1>9. WantsOK' /\ DraftSurvives'
  BY <1>1, <1>2, SameChangeSet DEF Carried, IInv
<1>10. QED
  BY <1>6, <1>7, <1>8, <1>9 DEF IInv

LEMMA BrowseKeeps ==
  ASSUME DashboardSentinels, IInv, Browse
  PROVE  IInv'
<1>1. /\ request.step = "browse" /\ ~Idle /\ UNCHANGED <<versions, staged, requests>>
      /\ Live \in Nat /\ Live \in 0..Live
  BY VersionNumbers DEF Browse, Idle, IInv
<1>2. request.outcome = "conflict" => request.since < Live
  BY <1>1 DEF IInv, RequestOK
<1>3. CASE request.pending = None
  BY <1>1, <1>2, <1>3, Answered DEF Browse
<1>4. CASE request.pending # None
  <2>1. /\ request' = [request EXCEPT !.step = "drift", !.expect = Live]
        /\ UNCHANGED page
    BY <1>4 DEF Browse
  <2>2. /\ GoesOn /\ request'.step = "drift" /\ request'.expect = Live
        /\ request'.pending = request.pending /\ request'.outcome = request.outcome
    BY <1>1, <2>1 DEF IInv, RequestOK, RequestFields, GoesOn, IsObject
  <2>3. /\ VersionsOK' /\ PageOK' /\ ReportsAreTrue' /\ WantsOK' /\ DraftSurvives'
        /\ Live' = Live /\ Landed' = Landed
        /\ request.pending = None \/ IsPending(request.pending)'
    BY <1>1, <2>1, <2>2, Served
  <2>4. Live > 0
    <3>1. IsPending(request.pending)
      BY <1>1, <1>4 DEF IInv, RequestOK
    <3>2. QED
      BY <1>1, <3>1 DEF IsPending
  <2>5. RequestOK'
    BY <1>1, <1>2, <1>4, <2>1, <2>2, <2>3, <2>4
    DEF IInv, RequestOK, GoesOn, Publishing, Idle
  <2>6. LandedOK'
    BY <1>1, <2>2, <2>3 DEF IInv, LandedOK
  <2>7. QED
    BY <2>3, <2>5, <2>6 DEF IInv
<1>5. QED
  BY <1>3, <1>4

LEMMA DetectVersionDriftKeeps ==
  ASSUME DashboardSentinels, IInv, DetectVersionDrift
  PROVE  IInv'
<1>1. /\ request.step = "drift" /\ ~Idle /\ UNCHANGED <<versions, staged, requests>>
      /\ page' = Answer(request.expect, request.pending.baseVersion # Live)
      /\ request' = NoRequest
  BY DEF DetectVersionDrift, Idle
<1>2. /\ request.expect \in 0..Live
      /\ request.outcome = "conflict" => request.since < request.expect
  BY <1>1 DEF IInv, RequestOK
<1>3. QED
  BY <1>1, <1>2, Answered

LEMMA AnswerFailsKeeps ==
  ASSUME IInv, AnswerFails
  PROVE  IInv'
<1>1. /\ ~Idle /\ Idle' /\ UNCHANGED <<versions, requests>>
      /\ page' = ErrorPage(request.id) /\ staged' = NoChanges
  BY DEF AnswerFails, ReadsForPage, Idle, NoRequest
<1>2. Live' = Live /\ Live \in Nat /\ requests \in Nat /\ request.id = requests
  BY <1>1, VersionNumbers DEF IInv, VersionsOK, RequestOK, Live
<1>3. VersionsOK' /\ RequestOK' /\ LandedOK'
  BY <1>1, <1>2 DEF IInv, VersionsOK, RequestOK, LandedOK
<1>4. /\ page'.shown = 0 /\ page'.latest = 0 /\ page'.since = 0 /\ page'.reviewed = 0
      /\ page'.drifted = FALSE /\ page'.keyed = FALSE
      /\ page'.pending = None /\ page'.draft = None
      /\ page'.outcome = "error" /\ page'.request = request.id
      /\ DOMAIN page' = {"shown", "pending", "drifted", "draft", "since", "keyed",
                         "latest", "reviewed", "outcome", "request"}
      /\ IsObject(page')
  BY <1>1 DEF ErrorPage, FreshPage, IsObject
<1>5. PageOK'
  <2>1. {page'.shown, page'.latest, page'.since, page'.reviewed} \subseteq 0..Live'
    BY <1>2, <1>4
  <2>2. page'.request \in 0..requests'
    BY <1>1, <1>2, <1>4
  <2>3. {page'.drifted, page'.keyed} \subseteq BOOLEAN
    BY <1>4
  <2>4. ~(page'.since > 0) /\ ~(page'.reviewed > 0)
    BY <1>4
  <2>5. QED
    BY <1>4, <2>1, <2>2, <2>3, <2>4 DEF PageOK
<1>6. ReportsAreTrue'
  BY <1>1, <1>2, <1>4 DEF IInv, ReportsAreTrue, ByThem
<1>7. QED
  BY <1>1, <1>3, <1>5, <1>6, NothingStaged DEF IInv

-----------------------------------------------------------------------------
(* The page by itself. *)

\* A step of the page alone that keeps the answer and the change set.
LEMMA OnPageOnly ==
  ASSUME IInv, OnPage, UNCHANGED staged, PageOK',
         page'.pending = page.pending, page'.outcome = page.outcome,
         page'.request = page.request, page'.since = page.since, page'.shown = page.shown
  PROVE  IInv'
<1>1. /\ Idle /\ Idle' /\ Live' = Live
      /\ versions' = versions /\ request' = request /\ requests' = requests
  BY DEF OnPage, Idle, Live
<1>2. VersionsOK' /\ RequestOK' /\ LandedOK'
  BY <1>1 DEF IInv, VersionsOK, RequestOK, LandedOK
<1>3. ReportsAreTrue'
  BY <1>1 DEF IInv, ReportsAreTrue, ByThem
<1>4. WantsOK' /\ DraftSurvives'
  BY <1>1, SameChangeSet DEF Carried, IInv
<1>5. QED
  BY <1>2, <1>3, <1>4 DEF IInv

LEMMA PollKeeps ==
  ASSUME IInv, Poll
  PROVE  IInv'
<1>1. OnPage /\ page' = [page EXCEPT !.latest = Live] /\ UNCHANGED staged
      /\ versions' = versions /\ requests' = requests /\ Live \in Nat
  BY VersionNumbers DEF Poll, OnPage, IInv
<1>2. PageOK'
  BY <1>1 DEF IInv, PageOK, IsObject, IsPending, Live
<1>3. QED
  BY <1>1, <1>2, OnPageOnly DEF IInv, PageOK

LEMMA OpenMergeKeeps ==
  ASSUME IInv, OpenMerge
  PROVE  IInv'
<1>1. OnPage /\ page' = [page EXCEPT !.reviewed = Live] /\ UNCHANGED staged
      /\ versions' = versions /\ requests' = requests /\ Live \in Nat
      /\ page.since > 0 /\ ~page.keyed
  BY VersionNumbers DEF OpenMerge, OnPage, IInv, IsDraftMerge
<1>2. page.draft # None
  BY <1>1 DEF IInv, PageOK
<1>3. PageOK'
  BY <1>1, <1>2 DEF IInv, PageOK, IsObject, IsPending, Live
<1>4. QED
  BY <1>1, <1>3, OnPageOnly DEF IInv, PageOK

LEMMA ApplyMergeKeeps ==
  ASSUME DashboardSentinels, IInv, ApplyMerge
  PROVE  IInv'
<1>1. /\ OnPage /\ UNCHANGED staged /\ page.reviewed > 0
      /\ versions' = versions /\ requests' = requests /\ Live \in Nat
  BY VersionNumbers DEF ApplyMerge, OnPage, IInv
<1>2. page.since > 0 /\ page.draft # None
  BY <1>1 DEF IInv, PageOK
<1>3. CASE page' = [page EXCEPT !.reviewed = 0]
  <2>1. PageOK'
    BY <1>1, <1>3 DEF IInv, PageOK, IsObject, IsPending, Live
  <2>2. QED
    BY <1>1, <1>3, <2>1, OnPageOnly DEF IInv, PageOK
<1>4. ASSUME NEW side \in Sides,
             page' = [page EXCEPT !.reviewed = 0,
                        !.draft = [page.draft EXCEPT
                          !.text = Merged(side), !.from = Live, !.seen = Live,
                          !.own = OwnAfter(side),
                          !.mixed = page.draft.mixed \/ page.draft.from # page.since]]
      PROVE  IInv'
  <2> DEFINE mixed == page.draft.mixed \/ page.draft.from # page.since
             draft == [page.draft EXCEPT !.text = Merged(side), !.from = Live, !.seen = Live,
                                         !.own = OwnAfter(side), !.mixed = mixed]
  <2>1. page.since \in 1..Live /\ Live \in 1..Live
    BY <1>1, <1>2 DEF IInv, PageOK
  <2>2. Shaped(versions[page.since].snapshot) /\ Shaped(versions[Live].snapshot)
    BY <2>1 DEF IInv, VersionsOK, Parsed
  <2>3. IsDraft(page.draft)
    BY <1>2 DEF IInv, PageOK
  <2>4. Shaped(Merged(side))
    BY <2>2, <2>3, MergedShaped DEF Merged, DashboardSentinels, IsDraft
  <2> HIDE DEF mixed
  <2>5. IsDraft(draft) /\ draft # None
    BY <2>3, <2>4 DEF IsDraft, IsObject, DashboardSentinels
  <2>6. page' = [page EXCEPT !.reviewed = 0, !.draft = draft]
    BY <1>4 DEF mixed
  <2> HIDE DEF draft
  <2>7. PageOK'
    <3>1. /\ DOMAIN page' = DOMAIN page /\ IsObject(page')
          /\ page'.draft = draft /\ page'.reviewed = 0
          /\ \A f \in DOMAIN page \ {"draft", "reviewed"} : page'[f] = page[f]
      BY <2>6 DEF IInv, PageOK, IsObject
    <3>2. IsDraft(page'.draft) /\ page'.draft # None
      BY <2>5, <3>1
    <3>3. page'.pending = None \/ IsPending(page.pending)'
      BY <1>1, <3>1 DEF IInv, PageOK, IsPending, Live
    <3>4. QED
      BY <1>1, <3>1, <3>2, <3>3 DEF IInv, PageOK, Live
  <2>8. QED
    BY <1>1, <2>6, <2>7, OnPageOnly DEF IInv, PageOK
<1>5. QED
  BY <1>3, <1>4 DEF ApplyMerge, Sides

LEMMA LoadLatestKeeps ==
  ASSUME DashboardSentinels, IInv, LoadLatest
  PROVE  IInv'
<1>1. /\ Idle /\ Idle' /\ Live' = Live /\ Live \in Nat
      /\ versions' = versions /\ request' = request /\ requests' = requests
      /\ requests \in Nat
      /\ page' = FreshPage(Live) /\ staged' = NoChanges
  BY VersionNumbers DEF LoadLatest, OnPage, Idle, Live, IInv, VersionsOK
<1>2. VersionsOK' /\ RequestOK' /\ LandedOK'
  BY <1>1 DEF IInv, VersionsOK, RequestOK, LandedOK
<1>3. PageOK'
  BY <1>1 DEF PageOK, FreshPage, IsObject
<1>4. ReportsAreTrue'
  <2>1. page'.outcome # "published" /\ page'.since = 0 /\ page'.request = 0
    BY <1>1 DEF FreshPage
  <2>2. QED
    BY <1>1, <2>1 DEF IInv, ReportsAreTrue, ByThem
<1>5. QED
  BY <1>1, <1>2, <1>3, <1>4, NothingStaged DEF IInv

-----------------------------------------------------------------------------
(* The theorems. *)

LEMMA StartsWell ==
  ASSUME Init
  PROVE  IInv
<1>1. /\ IsArray(versions)
      /\ \A v \in DOMAIN versions :
           Parsed(versions[v].snapshot) /\ versions[v] = Version(versions[v].snapshot, 0)
  BY DashboardAssumption DEF Init
<1>2. /\ Idle /\ page = FreshPage(Live) /\ staged = NoChanges /\ requests = 0
  BY DEF Init, Idle, NoRequest, Live
<1>3. DOMAIN versions = 1..Live /\ Live \in Nat
  BY <1>1 DEF IsArray, Live
<1>4. \A v \in 1..Live : versions[v].by = 0 /\ ~ByThem(v)
  BY <1>1, <1>3 DEF Version, ByThem
<1>5. VersionsOK
  BY <1>1, <1>2, <1>3, <1>4 DEF VersionsOK
<1>6. PageOK
  BY <1>2, <1>3 DEF PageOK, FreshPage, IsObject
<1>7. RequestOK /\ LandedOK
  BY <1>2 DEF RequestOK, LandedOK
<1>8. WantsOK /\ DraftSurvives
  BY <1>2 DEF WantsOK, DraftSurvives, NoChanges
<1>9. ReportsAreTrue
  BY <1>2, <1>3, <1>4 DEF ReportsAreTrue, FreshPage
<1>10. QED
  BY <1>5, <1>6, <1>7, <1>8, <1>9 DEF IInv

LEMMA StepKeeps ==
  ASSUME DashboardSentinels, IInv, [Next]_vars
  PROVE  IInv'
<1>1. CASE View
  BY <1>1, ViewKeeps
<1>2. CASE SaveFlag
  BY <1>2, SaveFlagKeeps
<1>3. CASE SubmitEdit
  BY <1>3, SubmitEditKeeps
<1>4. CASE Update
  BY <1>4, PublishPendingKeeps DEF Update
<1>5. CASE PublishAnyway
  BY <1>5, PublishPendingKeeps DEF PublishAnyway
<1>6. CASE Discard
  BY <1>6, DiscardKeeps
<1>7. CASE Paste
  BY <1>7, PasteKeeps
<1>8. CASE Rollback
  BY <1>8, RollbackKeeps
<1>9. CASE Publish
  BY <1>9, PublishKeeps
<1>10. CASE Conflict
  BY <1>10, ConflictKeeps
<1>11. CASE PublishFails
  BY <1>11, PublishFailsKeeps
<1>12. CASE ReplayOnLatest
  BY <1>12, ReplayOnLatestKeeps
<1>13. CASE ReadLatestFails
  BY <1>13, ReadLatestFailsKeeps
<1>14. CASE Browse
  BY <1>14, BrowseKeeps
<1>15. CASE DetectVersionDrift
  BY <1>15, DetectVersionDriftKeeps
<1>16. CASE Poll
  BY <1>16, PollKeeps
<1>17. CASE LoadLatest
  BY <1>17, LoadLatestKeeps
<1>18. CASE OpenMerge
  BY <1>18, OpenMergeKeeps
<1>19. CASE ApplyMerge
  BY <1>19, ApplyMergeKeeps
<1>20. CASE RivalPublishes
  BY <1>20, RivalPublishesKeeps
<1>21. CASE UNCHANGED vars
  <2>1. /\ versions' = versions /\ page' = page /\ request' = request
        /\ staged' = staged /\ requests' = requests /\ Live' = Live
    BY <1>21 DEF vars, Live
  <2>2. VersionsOK' /\ PageOK' /\ RequestOK' /\ LandedOK'
    <3>1. VersionsOK' /\ PageOK'
      BY <2>1 DEF IInv, VersionsOK, PageOK, IsPending
    <3>2. FormSent' = FormSent /\ Publishing' = Publishing /\ Idle' = Idle
      BY <2>1 DEF FormSent, Publishing, Idle, Features
    <3>3. RequestOK'
      BY <2>1, <3>2 DEF IInv, RequestOK, IsPending
    <3>4. Landed' = Landed /\ \A v : ByThem(v)' = ByThem(v) /\ Features(v)' = Features(v)
      BY <2>1 DEF Landed, ByThem, Features
    <3>5. LandedOK'
      BY <2>1, <3>2, <3>4 DEF IInv, LandedOK
    <3>6. QED
      BY <3>1, <3>3, <3>5
  <2>3. ReportsAreTrue'
    BY <2>1 DEF IInv, ReportsAreTrue, ByThem
  <2>4. WantsOK' /\ DraftSurvives'
    BY <2>1, SameChangeSet DEF Carried, Idle, IInv
  <2>5. QED
    BY <2>2, <2>3, <2>4 DEF IInv
<1>22. CASE Stage
  BY <1>22, StageKeeps
<1>23. CASE StageFails
  BY <1>23, StageFailsKeeps
<1>24. CASE AnswerFails
  BY <1>24, AnswerFailsKeeps
<1>25. QED
  BY <1>1, <1>2, <1>3, <1>4, <1>5, <1>6, <1>7, <1>8, <1>9, <1>10, <1>11, <1>12, <1>13,
     <1>14, <1>15, <1>16, <1>17, <1>18, <1>19, <1>20, <1>21, <1>22, <1>23, <1>24 DEF Next

\* The inductive invariant: what a request knows of the version it started from
\* and of the versions it has published, wherever it is in being served.
THEOREM DashboardInvariance ==
  ASSUME DashboardSentinels
  PROVE  Spec => []IInv
<1>1. Init => IInv
  BY StartsWell
<1>2. IInv /\ [Next]_vars => IInv'
  BY StepKeeps
<1>3. QED
  BY <1>1, <1>2, PTL DEF Spec

\* The page shows a version there is, and whatever is staged, pasted, merged,
\* replayed or published is a valid snapshot, although Save, replayOnLatest and
\* applyDraftMerge never look at each other's checks.
THEOREM DashboardTypeCorrect ==
  ASSUME DashboardSentinels
  PROVE  Spec => []TypeOK
<1>1. IInv => TypeOK
  <2> SUFFICES ASSUME IInv PROVE TypeOK
    OBVIOUS
  <2>1. /\ {page.shown, page.latest, page.since, page.reviewed} \subseteq 0..Live
        /\ {page.drifted, page.keyed} \subseteq BOOLEAN
    BY DEF IInv, PageOK
  <2>2. request.step \in {"none", "stage", "publish", "latest", "replay", "browse",
                          "drift"}
    BY DEF IInv, RequestOK, Idle
  <2>3. \A pending : IsPending(pending) => /\ pending.baseVersion \in 1..Live
                                          /\ ValidSnapshot(pending.snapshot)
    BY DEF IsPending, Parsed
  <2>4. \A pending \in {page.pending} \union (IF Idle THEN {} ELSE {request.pending}) :
          pending = None \/ IsPending(pending)
    BY DEF IInv, PageOK, RequestOK
  <2>5. \A v \in DOMAIN versions : ValidSnapshot(versions[v].snapshot)
    BY VersionNumbers DEF IInv, VersionsOK, Parsed
  <2>6. QED
    BY <2>1, <2>2, <2>3, <2>4, <2>5 DEF TypeOK
<1>2. QED
  BY <1>1, DashboardInvariance, PTL

\* No request publishes twice unless its first version was undone by others in
\* between and its answer was lost (editFeature replays an edit only once, and
\* refuses it where it is already made).  The page says "published" only of a
\* request that did, and a request that knows it did is answered so or, where a
\* read for the page fails, by an error page (dispatch), never by a failure.
THEOREM DashboardReportsTruly ==
  ASSUME DashboardSentinels
  PROVE  Spec => []ReportsAreTrue
<1>1. IInv => ReportsAreTrue
  BY DEF IInv
<1>2. QED
  BY <1>1, DashboardInvariance, PTL

\* What was staged is in the change set the next form carries, for every form,
\* every refusal, every failed read of the live version (stageFlagEdit) and every
\* failed publish, until it is published or discarded or goes with the page: an
\* error page, a link or the Restore form (DashboardSessions!ClearedOnPurpose).
THEOREM StagedChangesSurvive ==
  ASSUME DashboardSentinels
  PROVE  Spec => []DraftSurvives
<1>1. IInv => DraftSurvives
  BY DEF IInv
<1>2. QED
  BY <1>1, DashboardInvariance, PTL

-----------------------------------------------------------------------------
(* What the operator means to change: the operators of the model. *)

LEMMA ChangedParts ==
  ASSUME NEW before, NEW after, NEW p
  PROVE  p \in Changed(before, after) <=>
           \/ \E k \in (DOMAIN before \union DOMAIN after) : 
                /\ p = <<k, "flag">>
                /\ ~(k \in DOMAIN before /\ k \in DOMAIN after)
           \/ \E k \in DOMAIN before \intersect DOMAIN after : \E f \in Fields :
                p = <<k, f>> /\ Field(before[k], f) # Field(after[k], f)
BY DEF Changed, Fields

\* A flag that both sides changed, and is shown as a whole, is the one chosen.
LEMMA WholeClash ==
  ASSUME NEW B, NEW M, NEW T, NEW side \in Sides, Sentinels,
         AreFeatures(B), AreFeatures(M), AreFeatures(T), NEW k \in Keys(B, M, T),
         Clash(Field(B, k), Field(M, k), Field(T, k)), Whole(Field(M, k), Field(T, k))
  PROVE  Field(Merge(B, M, T, Chosen(B, M, T, side)), k) =
           IF side = "mine" THEN Field(M, k) ELSE Field(T, k)
<1> DEFINE F == Merge(B, M, T, Chosen(B, M, T, side))
           b == Field(B, k)
           m == Field(M, k)
           t == Field(T, k)
           merged == [j \in Keys(B, M, T) |->
                        MergedFlag(Field(B, j), Field(M, j), Field(T, j),
                                   Chosen(B, M, T, side)[j])]
<1>1. F # Refused
  BY MergeSide
<1>2. F = Present(merged)
  BY <1>1 DEF Merge, Keys
<1>3. Field(F, k) = merged[k]
  BY <1>2, PresentObject
<1>4. Chosen(B, M, T, side)[k]["flag"] = ChoiceFor(b, m, t, side)
  BY ChosenAt DEF PartOf, MergeFields
<1>5. ~ByField(b, m, t) /\ StatusOf(b, m, t) = "conflict"
  BY ConflictOfTwo DEF Clash, StatusOf
<1>6. merged[k] = Picked(b, m, t, ChoiceFor(b, m, t, side))
  BY <1>4, <1>5, MergedWhole
<1>7. Picked(b, m, t, ChoiceFor(b, m, t, side)) = IF side = "mine" THEN m ELSE t
  BY <1>5 DEF Picked, ChoiceFor, DefaultSide, Sides, Sentinels, Words
<1>8. QED
  BY <1>3, <1>6, <1>7

\* What a merge takes from a draft that changed only what is covered is covered,
\* or was chosen as a whole.
LEMMA MergeKeepsOwn ==
  ASSUME NEW B, NEW M, NEW T, NEW side \in Sides, Sentinels,
         AreFeatures(B), AreFeatures(M), AreFeatures(T),
         NEW own, Covers(own, Changed(B, M))
  PROVE  Covers(OwnMerged(own, B, M, T, side),
                Changed(T, Merge(B, M, T, Chosen(B, M, T, side))))
<1> DEFINE F == Merge(B, M, T, Chosen(B, M, T, side))
           now == OwnMerged(own, B, M, T, side)
<1>1. SUFFICES ASSUME NEW p \in Changed(T, F)
               PROVE  p \in now \/ <<p[1], "flag">> \in now
  BY DEF Covers
<1>2. PICK k \in DOMAIN T \union DOMAIN F :
        \/ p = <<k, "flag">> /\ ~(k \in DOMAIN T /\ k \in DOMAIN F)
        \/ /\ k \in DOMAIN T /\ k \in DOMAIN F
           /\ \E f \in Fields : p = <<k, f>> /\ Field(T[k], f) # Field(F[k], f)
  BY <1>1, ChangedParts
<1> DEFINE b == Field(B, k)
           m == Field(M, k)
           t == Field(T, k)
           r == Field(F, k)
<1>3. /\ k \in Keys(B, M, T) /\ FlagMerged(b, m, t, r)
      /\ \A j \in DOMAIN F : F[j] # Undefined
      /\ F # Refused
  <2>1. /\ DOMAIN F \subseteq Keys(B, M, T)
        /\ \A j \in DOMAIN F : F[j] \notin {Undefined, Refused}
        /\ \A j \in Keys(B, M, T) :
             FlagMerged(Field(B, j), Field(M, j), Field(T, j), Field(F, j))
        /\ F # Refused
    BY MergeSide
  <2>2. DOMAIN T \subseteq Keys(B, M, T)
    BY DEF Keys
  <2> HIDE DEF F
  <2>3. QED
    BY <2>1, <2>2
<1> HIDE DEF F
<1>4. /\ b = Undefined <=> k \notin DOMAIN B
      /\ m = Undefined <=> k \notin DOMAIN M
      /\ t = Undefined <=> k \notin DOMAIN T
      /\ r = Undefined <=> k \notin DOMAIN F
  BY <1>3, FlagOf DEF Field
<1>5. /\ k \in DOMAIN B => b = B[k]
      /\ k \in DOMAIN M => m = M[k]
      /\ k \in DOMAIN T => t = T[k]
      /\ k \in DOMAIN F => r = F[k]
  BY DEF Field
<1>6. own \subseteq now
  BY DEF OwnMerged
<1>7. p[1] = k
  BY <1>2
<1> HIDE DEF b, m, t, r, now
<1>8. CASE Clash(b, m, t) /\ Whole(m, t)
  <2>1. r = IF side = "mine" THEN m ELSE t
    BY <1>3, <1>8, WholeClash DEF b, m, t, r, F
  <2>2. r # t
    BY <1>2, <1>4, <1>5
  <2>3. side = "mine"
    BY <2>1, <2>2
  <2>4. StatusOf(b, m, t) = "conflict" /\ ~ByField(b, m, t)
    BY <1>8, ConflictOfTwo DEF Clash, StatusOf
  <2>5. <<k, "flag">> \in ChosenWhole(B, M, T)
    BY <1>3, <2>4 DEF ChosenWhole, Keys, b, m, t
  <2>6. QED
    BY <1>7, <2>3, <2>5 DEF now, OwnMerged
<1>9. CASE Whole(m, t) /\ ~Clash(b, m, t)
  <2>1. ~ByField(b, m, t)
    BY <1>9, ConflictOfTwo
  <2>2. r \in {m, t} /\ OneSided(b, m, t, r)
    BY <1>3, <2>1 DEF FlagMerged
  <2>3. r # t
    BY <1>2, <1>4, <1>5
  <2>4. r = m /\ t = b
    BY <1>9, <2>2, <2>3 DEF Clash, OneSided
  <2>5. p \in Changed(B, M)
    <3>1. CASE p = <<k, "flag">> /\ ~(k \in DOMAIN T /\ k \in DOMAIN F)
      <4>1. /\ ~(k \in DOMAIN B /\ k \in DOMAIN M)
            /\ k \in DOMAIN B \union DOMAIN M
        BY <1>2, <1>4, <2>4, <3>1
      <4>2. QED
        BY <3>1, <4>1, ChangedParts
    <3>2. CASE /\ k \in DOMAIN T /\ k \in DOMAIN F
               /\ \E f \in Fields : p = <<k, f>> /\ Field(T[k], f) # Field(F[k], f)
      <4>1. k \in DOMAIN B /\ k \in DOMAIN M /\ B[k] = T[k] /\ M[k] = F[k]
        BY <1>4, <1>5, <2>4, <3>2
      <4>2. QED
        BY <3>2, <4>1, ChangedParts
    <3>3. QED
      BY <1>2, <3>1, <3>2
  <2>6. QED
    BY <1>6, <2>5 DEF Covers
<1>10. CASE ~Whole(m, t)
  <2>1. /\ r # Undefined
        /\ \A f \in Fields :
             OneSided(Field(Was(b), f), Field(m, f), Field(t, f), Field(r, f))
        /\ m # Undefined /\ t # Undefined
    BY <1>3, <1>10 DEF FlagMerged, Whole
  <2>2. PICK f \in Fields : p = <<k, f>> /\ Field(t, f) # Field(r, f)
    BY <1>2, <1>4, <1>5, <2>1
  <2>3. Field(m, f) # Field(Was(b), f)
    BY <2>1, <2>2 DEF OneSided
  <2>4. CASE b = Undefined
    <3>1. <<k, "flag">> \in Changed(B, M)
      BY <1>4, <2>1, <2>4, ChangedParts
    <3>2. QED
      BY <1>6, <1>7, <3>1 DEF Covers
  <2>5. CASE b # Undefined
    <3>1. Field(B[k], f) # Field(M[k], f) /\ k \in DOMAIN B \intersect DOMAIN M
      BY <1>4, <1>5, <2>1, <2>3, <2>5 DEF Was
    <3>2. p \in Changed(B, M)
      BY <2>2, <3>1, ChangedParts
    <3>3. QED
      BY <1>6, <3>2 DEF Covers
  <2>6. QED
    BY <2>4, <2>5
<1>11. QED
  BY <1>8, <1>9, <1>10 DEF now

LEMMA DiffParts ==
  ASSUME NEW before, NEW after, NEW p
  PROVE  p \in DiffFlags(before, after) <=>
           \/ \E k \in (DOMAIN before \union DOMAIN after) :
                /\ p = <<k, "flag">>
                /\ ~(k \in DOMAIN before /\ k \in DOMAIN after)
           \/ \E k \in DOMAIN before \intersect DOMAIN after : \E f \in Fields :
                p = <<k, f>> /\ FieldValue(before[k], f) # FieldValue(after[k], f)
<1>1. Fields = {"type", "enabled", "default", "rules"}
  BY DEF Fields, MergeFields
<1>2. QED
  BY <1>1 DEF DiffFlags

LEMMA FieldsDiffer ==
  ASSUME NEW x, NEW y, Holds(x), Holds(y), NEW f, Field(x, f) = Field(y, f)
  PROVE  FieldValue(x, f) = FieldValue(y, f)
BY DEF FieldValue, RulesOf, Field, Holds

\* A diff shows nothing that the merge does not see.
LEMMA DiffWithin ==
  ASSUME NEW before, NEW after, AreFeatures(before), AreFeatures(after)
  PROVE  DiffFlags(before, after) \subseteq Changed(before, after)
<1>1. SUFFICES ASSUME NEW p \in DiffFlags(before, after)
               PROVE  p \in Changed(before, after)
  OBVIOUS
<1>2. CASE \E k \in DOMAIN before \union DOMAIN after :
             p = <<k, "flag">> /\ ~(k \in DOMAIN before /\ k \in DOMAIN after)
  BY <1>2, ChangedParts
<1>3. CASE \E k \in DOMAIN before \intersect DOMAIN after : \E f \in Fields :
             p = <<k, f>> /\ FieldValue(before[k], f) # FieldValue(after[k], f)
  <2>1. PICK k \in DOMAIN before \intersect DOMAIN after, f \in Fields :
          p = <<k, f>> /\ FieldValue(before[k], f) # FieldValue(after[k], f)
    BY <1>3
  <2>2. Field(before[k], f) # Field(after[k], f)
    BY <2>1, FieldsDiffer DEF AreFeatures
  <2>3. QED
    BY <2>1, <2>2, ChangedParts
<1>4. QED
  BY <1>1, <1>2, <1>3, DiffParts

\* What is covered is the operator's.
LEMMA CoveredIsOwn ==
  ASSUME NEW own, NEW D, Covers(own, D), NEW p \in D
  PROVE  \E q \in own : SamePart(p, q)
<1>1. CASE p \in own
  BY <1>1 DEF SamePart
<1>2. CASE <<p[1], "flag">> \in own
  <2> DEFINE q == <<p[1], "flag">>
  <2>1. SamePart(p, q)
    BY DEF SamePart
  <2>2. QED
    BY <1>2, <2>1
<1>3. QED
  BY <1>1, <1>2 DEF Covers

\* The forms of the page leave the rules of their flag alone.
LEMMA FormsUntouched ==
  ASSUME NEW feature, NEW form \in FormsFor(feature)
  PROVE  RulesUntouched(form, feature)
BY DEF FormsFor, RulesUntouched, RenderedForm

\* A Save from a page that shows what it is staged on changes only what the
\* operator changed in the form.
LEMMA SaveIsOwn ==
  ASSUME Sentinels, NEW base, NEW start, NEW key, NEW form, NEW rendered, NEW result,
         NEW wanted, SavedForm(start, key, form, rendered, result, wanted),
         form \in FormsFor(rendered), start.snapshot.features[key] = rendered,
         NEW own, Covers(own, DiffFlags(base, start.snapshot.features))
  PROVE  Covers(own \union {<<w[1], w[2]>> : w \in wanted}, DiffFlags(base, result.features))
<1> DEFINE was == start.snapshot.features
           is  == result.features
           now == own \union {<<w[1], w[2]>> : w \in wanted}
<1>1. /\ DOMAIN is = DOMAIN was /\ key \in DOMAIN was
      /\ \A k \in DOMAIN was \ {key} : is[k] = was[k]
      /\ Field(is[key], "enabled") = form.enabled
      /\ IF form.default = Undefined
         THEN Field(is[key], "default") = Field(was[key], "default")
         ELSE Field(is[key], "default") = form.default
  BY SaveSets DEF SavedForm, SavedSoFar
<1>2. RulesOf(is[key]) = RulesOf(was[key]) /\ is[key].type = was[key].type
  <2>1. RulesUntouched(form, was[key])
    BY FormsUntouched
  <2>2. QED
    BY <1>1, <2>1, SaveKeepsRules DEF SavedForm
<1>3. Parsed(result) /\ Parsed(start.snapshot)
  BY SaveKeepsParsed DEF SavedForm
<1>4. "type" \in DOMAIN is[key] /\ "type" \in DOMAIN was[key]
  BY <1>1, <1>3, ParsedFlag DEF IsFlag
<1>5. wanted = WantedBy(key, form, rendered) /\ rendered = was[key]
  BY DEF SavedForm
<1> HIDE DEF was, is
<1>6. ASSUME NEW f \in Fields, FieldValue(is[key], f) # FieldValue(was[key], f)
      PROVE  <<key, f>> \in {<<w[1], w[2]>> : w \in wanted}
  <2>1. CASE f = "enabled"
    <3> DEFINE w == <<key, "enabled", form.enabled>>
    <3>1. w[3] # Field(was[key], w[2])
      BY <1>1, <1>6, <2>1 DEF FieldValue
    <3>2. w \in wanted
      BY <1>5, <3>1 DEF WantedBy
    <3>3. <<key, f>> = <<w[1], w[2]>>
      BY <2>1
    <3> HIDE DEF w
    <3>4. QED
      BY <3>2, <3>3
  <2>2. CASE f = "default"
    <3> DEFINE w == <<key, "default", form.default>>
    <3>1. w[3] # Field(was[key], w[2])
      BY <1>1, <1>6, <2>2 DEF FieldValue
    <3>2. w \in wanted
      BY <1>5, <3>1 DEF WantedBy
    <3>3. <<key, f>> = <<w[1], w[2]>>
      BY <2>2
    <3> HIDE DEF w
    <3>4. QED
      BY <3>2, <3>3
  <2>3. CASE f \in {"type", "rules"}
    BY <1>2, <1>4, <1>6, <2>3 DEF FieldValue, Field
  <2>4. QED
    BY <2>1, <2>2, <2>3 DEF Fields, MergeFields
<1>7. ASSUME NEW p \in DiffFlags(base, is)
      PROVE  p \in now \/ <<p[1], "flag">> \in now
  <2>1. CASE p \in DiffFlags(base, was)
    BY <2>1 DEF Covers, was
  <2>2. CASE p \notin DiffFlags(base, was)
    <3>1. PICK k \in DOMAIN base \intersect DOMAIN is, f \in Fields :
            p = <<k, f>> /\ FieldValue(base[k], f) # FieldValue(is[k], f)
      BY <1>1, <1>7, <2>2, DiffParts
    <3>2. FieldValue(base[k], f) = FieldValue(was[k], f)
      BY <1>1, <2>2, <3>1, DiffParts
    <3>3. k = key
      BY <1>1, <3>1, <3>2
    <3>4. QED
      BY <1>6, <3>1, <3>2, <3>3
  <2>3. QED
    BY <2>1, <2>2
<1>8. QED
  BY <1>7 DEF Covers, is

\* A flag that is made or deleted is all that its edit changes.
LEMMA EditChangesKey ==
  ASSUME NEW snapshot, NEW edit, edit.kind \in {"create", "delete"},
         ApplyFlagEdit(snapshot, edit) # Refused,
         NEW p \in DiffFlags(snapshot.features, ApplyFlagEdit(snapshot, edit).features)
  PROVE  p = <<edit.key, "flag">>
<1> DEFINE before == snapshot.features
           after == EditFeatures(before, edit)
<1>1. ApplyFlagEdit(snapshot, edit).features = after /\ after # Refused
  BY AppliedFeatures
<1>2. CASE edit.kind = "create"
  <2>1. /\ edit.key \notin DOMAIN before
        /\ after = Spread(before, [k \in {edit.key} |-> Created(edit)])
    BY <1>1, <1>2 DEF EditFeatures
  <2>2. /\ DOMAIN after = DOMAIN before \union {edit.key}
        /\ \A k \in DOMAIN before : after[k] = before[k]
    BY <2>1 DEF Spread
  <2> HIDE DEF after, before
  <2>3. QED
    BY <1>1, <2>2, DiffParts DEF before
<1>3. CASE edit.kind = "delete"
  <2>1. /\ edit.key \in DOMAIN before
        /\ after = [k \in DOMAIN before \ {edit.key} |-> before[k]]
    BY <1>1, <1>3 DEF EditFeatures
  <2>2. /\ DOMAIN after = DOMAIN before \ {edit.key}
        /\ \A k \in DOMAIN after : after[k] = before[k]
    BY <2>1
  <2> HIDE DEF after, before
  <2>3. QED
    BY <1>1, <2>2, DiffParts DEF before
<1>4. QED
  BY <1>2, <1>3

\* An edit that may be replayed finds its flag as it was, in every part.
LEMMA ReplayFindsSame ==
  ASSUME NEW b, NEW t, Parsed(b), Parsed(t), NEW edit, edit.kind \in {"create", "delete"},
         CanReplayEdit(b, t, edit), ApplyFlagEdit(t, edit) # Refused
  PROVE  Field(b.features, edit.key) = Field(t.features, edit.key)
<1> DEFINE k == edit.key
           B == b.features
           T == t.features
<1>1. CASE edit.kind = "create"
  <2>1. EditFeatures(T, edit) # Refused
    BY AppliedFeatures
  <2>2. k \notin DOMAIN T /\ k \notin DOMAIN B
    BY <1>1, <2>1 DEF CanReplayEdit, EditFeatures
  <2>3. QED
    BY <2>2 DEF Field
<1>2. CASE edit.kind = "delete"
  <2>1. k \in DOMAIN B /\ k \in DOMAIN T
    BY <1>2 DEF CanReplayEdit
  <2>2. IsFlag(B[k]) /\ IsFlag(T[k])
    BY <2>1, ParsedFlag
  <2>3. \A f : Field(B[k], f) = Field(T[k], f)
    <3>1. \A f \in Fields : Field(B[k], f) = Field(T[k], f)
      BY <1>2 DEF CanReplayEdit, TouchedFields, Fields, MergeFields
    <3>2. \A f : f \notin Fields => Field(B[k], f) = Undefined /\ Field(T[k], f) = Undefined
      BY <2>2 DEF IsFlag, Field
    <3>3. QED
      BY <3>1, <3>2
  <2>4. B[k] = T[k]
    BY <2>2, <2>3, SameFieldsSameObject DEF IsFlag, Holds
  <2>5. QED
    BY <2>1, <2>4 DEF Field
<1>3. QED
  BY <1>1, <1>2

-----------------------------------------------------------------------------
(* Versions are only added. *)

Kept ==
  /\ Live \in Nat /\ Live' \in Nat /\ Live <= Live'
  /\ \A v \in 1..Live : Features(v)' = Features(v)

LEMMA OwnStays ==
  ASSUME Kept, NEW v \in 1..Live, NEW from \in 1..Live, NEW features, NEW own,
         OnlyOwn(v, features, own, from)
  PROVE  OnlyOwn(v, features, own, from)'
<1>1. Features(v)' = Features(v) /\ Features(from)' = Features(from)
  BY DEF Kept
<1>2. \A p : Says(v, p)' = Says(v, p) /\ Says(from, p)' = Says(from, p)
  BY <1>1 DEF Says
<1>3. QED
  BY <1>1, <1>2 DEF OnlyOwn

LEMMA DraftStaysOwn ==
  ASSUME Kept, NEW draft, DraftIsOwn(draft)
  PROVE  DraftIsOwn(draft)'
<1>1. {draft.from, draft.seen} \subseteq 0..Live'
  BY DEF Kept, DraftIsOwn
<1>2. draft.from > 0 => Features(draft.from)' = Features(draft.from)
  BY DEF Kept, DraftIsOwn
<1>3. QED
  BY <1>1, <1>2 DEF DraftIsOwn

LEMMA CarriedIsPending ==
  ASSUME IInv
  PROVE  Carried = None \/ IsPending(Carried)
BY DEF IInv, PageOK, RequestOK, Carried, Idle

LEMMA StagedStaysOwn ==
  ASSUME IInv, OwnInv, Kept, Carried' = Carried, staged' = staged
  PROVE  StagedIsOwn'
<1>1. CASE Carried = None
  BY <1>1 DEF StagedIsOwn
<1>2. CASE Carried # None
  <2>1. Carried.baseVersion \in 1..Live
    BY <1>2, CarriedIsPending DEF IsPending
  <2>2. PICK carried : carried = Carried
    OBVIOUS
  <2>3. Features(carried.baseVersion)' = Features(carried.baseVersion)
    BY <2>1, <2>2 DEF Kept
  <2>4. Carried' = carried
    BY <2>2
  <2>5. ~staged.mixed =>
          Covers(staged.own, DiffFlags(Features(carried.baseVersion), carried.snapshot.features))
    BY <1>2, <2>2 DEF OwnInv, StagedIsOwn
  <2>6. ~staged'.mixed =>
          Covers(staged'.own,
                 DiffFlags(Features(carried.baseVersion)', carried.snapshot.features))
    BY <2>3, <2>5
  <2>7. QED
    BY <2>4, <2>6 DEF StagedIsOwn, Features
<1>3. QED
  BY <1>1, <1>2

LEMMA NothingStagedOwn ==
  ASSUME Carried' = None
  PROVE  StagedIsOwn'
BY DEF StagedIsOwn

LEMMA SameVersions ==
  ASSUME IInv, OwnInv, versions' = versions
  PROVE  Kept /\ FromEarlier' /\ NoLostUpdate'
<1>1. Kept
  BY VersionNumbers DEF IInv, Kept, Live, Features
<1>2. FromEarlier'
  BY DEF OwnInv, FromEarlier, ByThem, Live
<1>3. \A v : Features(v)' = Features(v) /\ ByThem(v)' = ByThem(v)
  BY DEF Features, ByThem
<1>4. \A v, p : Says(v, p)' = Says(v, p)
  BY <1>3 DEF Says
<1>5. \A v : ChangesOnlyOwn(v)' = ChangesOnlyOwn(v)
  BY <1>3, <1>4 DEF ChangesOnlyOwn, OnlyOwn
<1>6. NoLostUpdate'
  BY <1>3, <1>5 DEF OwnInv, NoLostUpdate, Live
<1>7. QED
  BY <1>1, <1>2, <1>6

\* Another version changes nothing about the ones there were.
LEMMA GrownOwn ==
  ASSUME OwnInv, Live \in Nat, Live' = Live + 1,
         NEW entry, versions'[Live + 1] = entry,
         \A v \in 1..Live : versions'[v] = versions[v],
         entry.by # 0 /\ entry.excuse = {} =>
           /\ entry.from \in 1..Live
           /\ OnlyOwn(Live, entry.snapshot.features, entry.own, entry.from)
  PROVE  Kept /\ FromEarlier' /\ NoLostUpdate'
<1>1. Kept
  BY DEF Kept, Features
<1>2. ASSUME NEW v \in 2..Live + 1, ByThem(v)', versions'[v].excuse = {}
      PROVE  versions'[v].from \in 1..v - 1 /\ ChangesOnlyOwn(v)'
  <2>1. PICK before, features, own, from :
          /\ before = v - 1 /\ features = versions'[v].snapshot.features
          /\ own = versions'[v].own /\ from = versions'[v].from
    OBVIOUS
  <2>2. before \in 1..Live
    BY <2>1
  <2>3. from \in 1..before /\ OnlyOwn(before, features, own, from)
    <3>1. CASE v = Live + 1
      <4>1. entry.by # 0 /\ entry.excuse = {} /\ before = Live
        BY <1>2, <2>1, <3>1 DEF ByThem
      <4>2. QED
        BY <2>1, <3>1, <4>1
    <3>2. CASE v # Live + 1
      <4>1. v \in 2..Live /\ versions'[v] = versions[v]
        BY <3>2
      <4>2. ByThem(v) /\ versions[v].excuse = {}
        BY <1>2, <4>1 DEF ByThem
      <4>3. versions[v].from \in 1..v - 1 /\ ChangesOnlyOwn(v)
        BY <4>1, <4>2 DEF OwnInv, FromEarlier, NoLostUpdate
      <4>4. QED
        BY <2>1, <4>1, <4>3 DEF ChangesOnlyOwn, Features
    <3>3. QED
      BY <3>1, <3>2
  <2>4. from \in 1..Live
    BY <2>2, <2>3
  <2>5. OnlyOwn(before, features, own, from)'
    BY <1>1, <2>2, <2>3, <2>4, OwnStays
  <2>6. ChangesOnlyOwn(v)'
    BY <2>1, <2>5 DEF ChangesOnlyOwn, Features, OnlyOwn, Says
  <2>7. QED
    BY <2>1, <2>3, <2>6
<1>3. FromEarlier'
  BY <1>2 DEF FromEarlier
<1>4. NoLostUpdate'
  BY <1>2 DEF NoLostUpdate
<1>5. QED
  BY <1>1, <1>3, <1>4

-----------------------------------------------------------------------------
(* Submitting what is the operator's. *)

\* What a form is submitted with, to be published, is the operator's.
SubmitsOwn(r) ==
  /\ r.kind = "edit" => /\ r.from = r.since /\ r.from > 0
                        /\ r.own = {<<r.edit.key, "flag">>}
  /\ r.excuse = {} => /\ r.from \in 1..Live /\ r.expect > 0
                      /\ r.expect = Live => OnlyOwn(Live, r.snapshot.features, r.own, r.from)

LEMMA SubmittedOwn ==
  ASSUME IInv, OwnInv, NEW r, Submits(r), r.id = requests + 1,
         r.step \in {"stage", "publish", "browse"}, r.outcome # "published",
         StagedIsOwn', r.kind = "paste" => DraftIsOwn(r.draft),
         r.step = "publish" => SubmitsOwn(r)
  PROVE  OwnInv'
<1>1. /\ Live' = Live /\ request' = r /\ versions' = versions /\ page' = page
  BY Submitted
<1>2. Kept /\ FromEarlier' /\ NoLostUpdate'
  BY <1>1, SameVersions
<1>3. DraftsAreOwn'
  <2>1. page.draft # None => DraftIsOwn(page.draft)
    BY DEF OwnInv, DraftsAreOwn
  <2>2. page.draft # None => DraftIsOwn(page.draft)'
    <3>1. PICK d : d = page.draft
      OBVIOUS
    <3>2. page.draft # None => DraftIsOwn(d)'
      BY <1>2, <2>1, <3>1, DraftStaysOwn
    <3>3. QED
      BY <1>1, <3>1, <3>2 DEF DraftIsOwn, Features
  <2>3. r.kind = "paste" => DraftIsOwn(r.draft)'
    BY <1>2, DraftStaysOwn
  <2>4. QED
    BY <1>1, <2>2, <2>3 DEF DraftsAreOwn, DraftIsOwn, Features
<1>4. EditIsOwn'
  BY <1>1 DEF EditIsOwn, SubmitsOwn
<1>5. PublishIsOwn'
  <2>1. CASE r.step # "publish"
    BY <1>1, <2>1 DEF PublishIsOwn, Publishing
  <2>2. CASE r.step = "publish" /\ r.excuse = {}
    <3>1. r.from \in 1..Live /\ r.expect > 0
      BY <2>2 DEF SubmitsOwn
    <3>2. ASSUME r.expect = Live
          PROVE  OnlyOwn(Live, r.snapshot.features, r.own, r.from)'
      <4>1. PICK live \in Nat : live = Live
        BY <1>2 DEF Kept
      <4>2. live \in 1..Live /\ OnlyOwn(live, r.snapshot.features, r.own, r.from)
        BY <2>2, <3>1, <3>2, <4>1 DEF SubmitsOwn
      <4>3. OnlyOwn(live, r.snapshot.features, r.own, r.from)'
        BY <1>2, <3>1, <4>2, OwnStays
      <4>4. Live' = live
        BY <1>1, <4>1
      <4>5. QED
        BY <4>3, <4>4 DEF OnlyOwn, Says, Features
    <3>3. QED
      BY <1>1, <2>2, <3>1, <3>2 DEF PublishIsOwn, OnlyOwn, Says, Features
  <2>3. CASE r.excuse # {}
    BY <1>1, <2>3 DEF PublishIsOwn
  <2>4. QED
    BY <2>1, <2>2, <2>3
<1>6. QED
  BY <1>2, <1>3, <1>4, <1>5 DEF OwnInv

LEMMA ViewOwn ==
  ASSUME IInv, OwnInv, View
  PROVE  OwnInv'
<1> DEFINE r == Request("view", "browse")
<1>1. /\ r.kind = "view" /\ r.step = "browse" /\ r.id = requests + 1
      /\ r.pending = page.pending /\ r.outcome = "viewed"
  BY FormFields
<1>2. Submits(r) /\ staged' = staged
  BY DEF View
<1> HIDE DEF r
<1>3. Carried' = Carried /\ versions' = versions
  BY <1>1, <1>2, Submitted
<1>4. StagedIsOwn'
  BY <1>2, <1>3, SameVersions, StagedStaysOwn
<1>5. QED
  BY <1>1, <1>2, <1>4, SubmittedOwn

LEMMA DiscardOwn ==
  ASSUME IInv, OwnInv, Discard
  PROVE  OwnInv'
<1> DEFINE form == Request("pending", "browse")
           r == Ends([form EXCEPT !.pending = None], "discarded")
<1>1. Submits(r)
  BY DEF Discard
<1>2. /\ DOMAIN form = RequestFields
      /\ form.kind = "pending" /\ form.step = "browse" /\ form.id = requests + 1
  BY FormFields
<1> HIDE DEF form
<1>3. /\ r.kind = "pending" /\ r.step = "browse" /\ r.id = requests + 1
      /\ r.pending = None /\ r.outcome = "discarded"
  BY <1>2 DEF RequestFields, Ends
<1> HIDE DEF r
<1>4. StagedIsOwn'
  BY <1>1, <1>3, Submitted, NothingStagedOwn
<1>5. QED
  BY <1>1, <1>3, <1>4, SubmittedOwn

LEMMA RollbackOwn ==
  ASSUME IInv, OwnInv, Rollback
  PROVE  OwnInv'
<1> DEFINE form == Request("rollback", "publish")
<1>1. PICK v \in 1..Live - 1 :
        Submits([form EXCEPT !.pending = None, !.snapshot = Restored(v),
                             !.excuse = {"rollback"}])
  BY DEF Rollback
<1> DEFINE r == [form EXCEPT !.pending = None, !.snapshot = Restored(v),
                             !.excuse = {"rollback"}]
<1>2. Submits(r)
  BY <1>1
<1>3. /\ DOMAIN form = RequestFields
      /\ form.kind = "rollback" /\ form.step = "publish" /\ form.id = requests + 1
      /\ form.outcome = "viewed"
  BY FormFields
<1> HIDE DEF form
<1>4. /\ r.kind = "rollback" /\ r.step = "publish" /\ r.id = requests + 1
      /\ r.pending = None /\ r.outcome = "viewed" /\ r.excuse = {"rollback"}
  BY <1>3 DEF RequestFields
<1> HIDE DEF r
<1>5. StagedIsOwn'
  BY <1>2, <1>4, Submitted, NothingStagedOwn
<1>6. SubmitsOwn(r)
  BY <1>4 DEF SubmitsOwn
<1>7. QED
  BY <1>2, <1>4, <1>5, <1>6, SubmittedOwn

\* An update is the change set on its base.
LEMMA PublishPendingOwn ==
  ASSUME DashboardSentinels, IInv, OwnInv, NEW force \in BOOLEAN, PublishPending(force)
  PROVE  OwnInv'
<1> DEFINE form == Request("pending", "publish")
           pending == page.pending
           excuse == (IF force THEN {"forced"} ELSE {}) \union
                       (IF staged.mixed THEN {"mixed"} ELSE {})
           r == [form EXCEPT
                   !.expect   = IF force THEN 0 ELSE pending.baseVersion,
                   !.snapshot = pending.snapshot,
                   !.since    = pending.baseVersion,
                   !.from     = pending.baseVersion,
                   !.own      = staged.own,
                   !.excuse   = excuse]
<1>1. Submits(r) /\ staged' = staged /\ pending # None
  BY DEF PublishPending
<1>2. IsPending(pending)
  BY <1>1 DEF IInv, PageOK
<1>3. pending.baseVersion \in 1..Live /\ Parsed(pending.snapshot)
  BY <1>2 DEF IsPending
<1>4. /\ DOMAIN form = RequestFields
      /\ form.kind = "pending" /\ form.step = "publish" /\ form.id = requests + 1
      /\ form.pending = pending /\ form.outcome = "viewed"
  BY FormFields
<1>5. excuse = {} => ~force /\ ~staged.mixed
  OBVIOUS
<1> HIDE DEF form, excuse
<1>6. /\ r.kind = "pending" /\ r.step = "publish" /\ r.id = requests + 1
      /\ r.pending = pending /\ r.expect = (IF force THEN 0 ELSE pending.baseVersion)
      /\ r.from = pending.baseVersion /\ r.own = staged.own /\ r.excuse = excuse
      /\ r.outcome = "viewed" /\ r.snapshot = pending.snapshot
  BY <1>4 DEF RequestFields
<1> HIDE DEF r
<1>7. /\ Carried' = Carried /\ versions' = versions /\ Carried = pending
  BY <1>1, <1>6, Submitted
<1>8. StagedIsOwn'
  BY <1>1, <1>7, SameVersions, StagedStaysOwn
<1>9. SubmitsOwn(r)
  <2>1. ASSUME r.excuse = {}
        PROVE  /\ r.from \in 1..Live /\ r.expect = r.from
               /\ OnlyOwn(r.from, r.snapshot.features, r.own, r.from)
    <3>1. r.from \in 1..Live /\ r.expect = r.from /\ ~staged.mixed
      BY <1>3, <1>5, <1>6, <2>1
    <3>2. Covers(r.own, DiffFlags(Features(r.from), r.snapshot.features))
      BY <1>1, <1>6, <1>7, <3>1 DEF OwnInv, StagedIsOwn
    <3>3. QED
      BY <3>1, <3>2, CoveredIsOwn DEF OnlyOwn
  <2>2. QED
    BY <1>6, <2>1 DEF SubmitsOwn
<1>10. QED
  BY <1>1, <1>6, <1>8, <1>9, SubmittedOwn

\* A flag is made or deleted on the version of the form.
LEMMA SubmitEditOwn ==
  ASSUME DashboardSentinels, IInv, OwnInv, SubmitEdit
  PROVE  OwnInv'
<1> DEFINE form == Request("edit", "publish")
<1>1. PICK edit \in NewFlagForms \union DeleteForms :
        LET edited == ApplyFlagEdit(versions[FormBase].snapshot, edit)
            r == [form EXCEPT
                    !.edit = edit, !.expect = FormBase, !.snapshot = edited,
                    !.since = FormBase, !.from = FormBase,
                    !.own = {<<edit.key, "flag">>}]
        IN Submits(IF edited = Refused THEN Ends(r, "refused") ELSE r)
  BY DEF SubmitEdit
<1> DEFINE base == versions[FormBase].snapshot
           edited == ApplyFlagEdit(base, edit)
           r == [form EXCEPT !.edit = edit, !.expect = FormBase, !.snapshot = edited,
                             !.since = FormBase, !.from = FormBase,
                             !.own = {<<edit.key, "flag">>}]
           refused == Ends(r, "refused")
<1>2. edit.kind \in {"create", "delete"}
  BY DEF NewFlagForms, DeleteForms
<1>3. FormBase \in 1..Live
  <2>1. page.shown \in 1..Live
    BY VersionNumbers DEF SubmitEdit, IInv, PageOK
  <2>2. QED
    BY <2>1 DEF FormBase, IInv, PageOK, IsPending
<1>4. staged' = staged
  BY DEF SubmitEdit
<1>5. /\ DOMAIN form = RequestFields
      /\ form.kind = "edit" /\ form.step = "publish" /\ form.id = requests + 1
      /\ form.pending = page.pending /\ form.outcome = "viewed"
  BY FormFields
<1>6. Submits(IF edited = Refused THEN refused ELSE r)
  BY <1>1
<1> HIDE DEF form, edited
<1>7. /\ r.kind = "edit" /\ r.step = "publish" /\ r.id = requests + 1
      /\ r.pending = page.pending /\ r.expect = FormBase /\ r.since = FormBase
      /\ r.from = FormBase /\ r.own = {<<edit.key, "flag">>} /\ r.edit = edit
      /\ r.outcome = "viewed" /\ r.snapshot = edited
      /\ refused.kind = "edit" /\ refused.step = "browse" /\ refused.id = requests + 1
      /\ refused.pending = page.pending /\ refused.outcome = "refused"
  BY <1>5 DEF RequestFields, Ends
<1> HIDE DEF r, refused
<1>8. PICK s \in {r, refused} : Submits(s) /\ (edited = Refused => s = refused)
  BY <1>6
<1>9. Carried' = Carried /\ versions' = versions
  BY <1>7, <1>8, Submitted
<1>10. StagedIsOwn'
  BY <1>4, <1>9, SameVersions, StagedStaysOwn
<1>11. CASE s = refused
  BY <1>7, <1>8, <1>10, <1>11, SubmittedOwn
<1>12. CASE s = r /\ edited # Refused
  <2>1. \A p \in DiffFlags(base.features, edited.features) : p = <<edit.key, "flag">>
    BY <1>2, <1>12, EditChangesKey DEF edited
  <2>2. OnlyOwn(FormBase, edited.features, {<<edit.key, "flag">>}, FormBase)
    BY <2>1 DEF OnlyOwn, SamePart, Features
  <2>3. SubmitsOwn(r)
    BY <1>3, <1>7, <2>2 DEF SubmitsOwn
  <2>4. QED
    BY <1>7, <1>8, <1>10, <1>12, <2>3, SubmittedOwn
<1>13. QED
  BY <1>8, <1>11, <1>12

\* Nothing is different from itself.
LEMMA NoDifference ==
  ASSUME NEW features
  PROVE  DiffFlags(features, features) = {}
BY DiffParts

\* A Save changes nothing before it is served.
LEMMA SaveFlagOwn ==
  ASSUME IInv, OwnInv, SaveFlag
  PROVE  OwnInv'
<1> DEFINE form0 == Request("save", "stage")
<1>1. PICK key, form : Submits([form0 EXCEPT !.edit = [key |-> key, form |-> form]])
  BY DEF SaveFlag
<1> DEFINE r == [form0 EXCEPT !.edit = [key |-> key, form |-> form]]
<1>2. Submits(r) /\ staged' = staged
  BY <1>1 DEF SaveFlag
<1>3. /\ DOMAIN form0 = RequestFields
      /\ form0.kind = "save" /\ form0.step = "stage" /\ form0.id = requests + 1
      /\ form0.pending = page.pending /\ form0.outcome = "viewed"
  BY FormFields
<1> HIDE DEF form0
<1>4. /\ r.kind = "save" /\ r.step = "stage" /\ r.id = requests + 1
      /\ r.pending = page.pending /\ r.outcome = "viewed"
  BY <1>3 DEF RequestFields
<1> HIDE DEF r
<1>5. Carried' = Carried /\ versions' = versions
  BY <1>2, <1>4, Submitted
<1>6. StagedIsOwn'
  BY <1>2, <1>5, SameVersions, StagedStaysOwn
<1>7. QED
  BY <1>2, <1>4, <1>6, SubmittedOwn

\* A draft differs from what the dialog was filled with where the operator typed.
LEMMA DraftsOwn ==
  ASSUME IInv, OwnInv, NEW draft \in Drafts
  PROVE  DraftIsOwn(draft)
<1>1. CASE page.draft # None
  BY <1>1 DEF Drafts, OwnInv, DraftsAreOwn
<1>2. CASE page.draft = None
  <2>1. PICK text \in {ApplyFlagEdit(Prefill, e) : e \in Typed} \ {Refused} :
          draft = [text |-> text, from |-> page.shown, seen |-> page.shown, mixed |-> FALSE,
                   own |-> Changed(Prefill.features, text.features)]
    BY <1>2 DEF Drafts
  <2>2. page.shown \in 0..Live
    BY DEF IInv, PageOK
  <2>3. page.shown > 0 => Prefill.features = Features(page.shown)
    BY DEF Prefill, Features
  <2>4. QED
    BY <2>1, <2>2, <2>3 DEF DraftIsOwn, Covers
<1>3. QED
  BY <1>1, <1>2

\* A draft that is pasted over the version it was written from, or merged with,
\* changes what it differs in.
LEMMA PasteOwn ==
  ASSUME DashboardSentinels, IInv, OwnInv, Paste
  PROVE  OwnInv'
<1> DEFINE form == Request("paste", "publish")
           excuse(draft) == {e \in {"baseless", "told", "returned", "mixed"} :
                               CASE e = "baseless" -> page.shown = 0
                                 [] e = "told"     -> draft.from < draft.seen
                                 [] e = "returned" -> draft.seen < page.shown
                                 [] OTHER          -> draft.mixed}
<1>1. PICK draft \in Drafts :
        Submits([form EXCEPT
                   !.expect = page.shown, !.snapshot = draft.text,
                   !.draft = draft, !.since = page.shown, !.from = draft.from,
                   !.own = draft.own,
                   !.excuse = excuse(draft)])
  BY DEF Paste
<1> DEFINE excused == excuse(draft)
           r == [form EXCEPT !.expect = page.shown, !.snapshot = draft.text,
                             !.draft = draft, !.since = page.shown, !.from = draft.from,
                             !.own = draft.own, !.excuse = excused]
<1>2. Submits(r) /\ staged' = staged
  BY <1>1 DEF Paste
<1>3. IsDraft(draft) /\ Shaped(draft.text) /\ page.shown \in 0..Live
  BY DraftsFit DEF IInv, PageOK, IsDraft
<1>4. DraftIsOwn(draft)
  BY DraftsOwn
<1>5. /\ DOMAIN form = RequestFields
      /\ form.kind = "paste" /\ form.step = "publish" /\ form.id = requests + 1
      /\ form.pending = page.pending /\ form.outcome = "viewed"
  BY FormFields
<1>6. excused = {} => /\ page.shown # 0 /\ ~(draft.from < draft.seen)
                      /\ ~(draft.seen < page.shown) /\ ~draft.mixed
  OBVIOUS
<1> HIDE DEF form, excused
<1>7. /\ r.kind = "paste" /\ r.step = "publish" /\ r.id = requests + 1
      /\ r.pending = page.pending /\ r.expect = page.shown
      /\ r.from = draft.from /\ r.own = draft.own /\ r.excuse = excused
      /\ r.outcome = "viewed" /\ r.snapshot = draft.text /\ r.draft = draft
  BY <1>5 DEF RequestFields
<1> HIDE DEF r
<1>8. Carried' = Carried /\ versions' = versions
  BY <1>2, <1>7, Submitted
<1>9. StagedIsOwn'
  BY <1>2, <1>8, SameVersions, StagedStaysOwn
<1>10. SubmitsOwn(r)
  <2>1. SUFFICES ASSUME r.excuse = {}
                 PROVE  /\ r.from \in 1..Live /\ r.expect > 0
                        /\ r.expect = Live =>
                             OnlyOwn(Live, r.snapshot.features, r.own, r.from)
    BY <1>7 DEF SubmitsOwn
  <2>2. /\ Live \in Nat /\ {draft.from, draft.seen} \subseteq 0..Live
        /\ page.shown # 0 /\ ~(draft.from < draft.seen)
        /\ ~(draft.seen < page.shown) /\ ~draft.mixed
    BY <1>4, <1>6, <1>7, <2>1, VersionNumbers DEF DraftIsOwn, IInv
  <2>3. draft.from \in 1..Live /\ page.shown > 0 /\ (page.shown = Live => draft.from = Live)
    BY <1>3, <2>2
  <2>4. Covers(draft.own, Changed(Features(draft.from), draft.text.features))
    BY <1>4, <2>2, <2>3 DEF DraftIsOwn
  <2>5. AreFeatures(Features(draft.from)) /\ AreFeatures(draft.text.features)
    BY <1>3, <2>3 DEF IInv, VersionsOK, Parsed, Shaped, AreFeatures, Features
  <2>6. PICK before, after, own : before = Features(draft.from) /\ after = draft.text.features
                                  /\ own = draft.own
    OBVIOUS
  <2>7. \A p \in DiffFlags(before, after) : \E q \in own : SamePart(p, q)
    <3>1. Covers(own, Changed(before, after)) /\ AreFeatures(before) /\ AreFeatures(after)
      BY <2>4, <2>5, <2>6
    <3>2. QED
      BY <3>1, DiffWithin, CoveredIsOwn
  <2>8. OnlyOwn(draft.from, draft.text.features, draft.own, draft.from)
    BY <2>6, <2>7 DEF OnlyOwn
  <2>9. QED
    BY <1>7, <2>3, <2>8
<1>11. QED
  BY <1>2, <1>4, <1>7, <1>9, <1>10, SubmittedOwn

-----------------------------------------------------------------------------
(* Serving it. *)

\* A draft of the page or of a request stays what it was.
LEMMA DraftsStayOwn ==
  ASSUME OwnInv, Kept, page' = page, ~Idle, ~Idle',
         request'.kind = request.kind, request'.draft = request.draft
  PROVE  DraftsAreOwn'
<1>1. page.draft # None => DraftIsOwn(page.draft)'
  <2>1. PICK d : d = page.draft
    OBVIOUS
  <2>2. page.draft # None => DraftIsOwn(d)
    BY <2>1 DEF OwnInv, DraftsAreOwn
  <2>3. page.draft # None => DraftIsOwn(d)'
    BY <2>2, DraftStaysOwn
  <2>4. page'.draft = d
    BY <2>1
  <2>5. QED
    BY <2>1, <2>3, <2>4 DEF DraftIsOwn, Features
<1>2. request.kind = "paste" => DraftIsOwn(request.draft)'
  <2>1. PICK d : d = request.draft
    OBVIOUS
  <2>2. request.kind = "paste" => DraftIsOwn(d)
    BY <2>1 DEF OwnInv, DraftsAreOwn
  <2>3. request.kind = "paste" => DraftIsOwn(d)'
    BY <2>2, DraftStaysOwn
  <2>4. request'.draft = d
    BY <2>1
  <2>5. QED
    BY <2>1, <2>3, <2>4 DEF DraftIsOwn, Features
<1>3. QED
  BY <1>1, <1>2 DEF DraftsAreOwn, DraftIsOwn, Features

LEMMA ServedOwn ==
  ASSUME IInv, OwnInv, ~Idle, UNCHANGED <<versions, page, staged>>,
         request'.kind = request.kind, request'.draft = request.draft,
         request'.pending = request.pending, request'.step # "none",
         EditIsOwn', PublishIsOwn'
  PROVE  OwnInv'
<1>1. Kept /\ FromEarlier' /\ NoLostUpdate'
  BY SameVersions
<1>2. ~Idle' /\ Carried' = Carried
  BY DEF Idle, Carried
<1>3. StagedIsOwn'
  BY <1>1, <1>2, StagedStaysOwn
<1>4. DraftsAreOwn'
  BY <1>1, <1>2, DraftsStayOwn
<1>5. QED
  BY <1>1, <1>3, <1>4 DEF OwnInv

\* Where nothing is published any more.
LEMMA EndsOwn ==
  ASSUME IInv, OwnInv, ~Idle, UNCHANGED <<versions, page, staged>>,
         NEW outcome, request' = Ends(request, outcome)
  PROVE  OwnInv'
<1>1. GoesOn /\ request'.step = "browse" /\ request'.pending = request.pending
  BY EndsAs
<1>2. EditIsOwn' /\ PublishIsOwn'
  BY <1>1 DEF EditIsOwn, PublishIsOwn, Publishing
<1>3. QED
  BY <1>1, <1>2, ServedOwn DEF GoesOn

\* What the first Save of a change set starts from is what is live; the others
\* start from what is staged.
LEMMA StartIsOwn ==
  ASSUME OwnInv, ~Idle
  PROVE  ~staged.mixed =>
           Covers(staged.own, DiffFlags(Features(StartingPoint.baseVersion),
                                        StartingPoint.snapshot.features))
<1>1. CASE request.pending = None
  <2>1. StartingPoint.snapshot.features = Features(StartingPoint.baseVersion)
    BY <1>1 DEF StartingPoint, LiveStart, Features
  <2>2. QED
    BY <2>1, NoDifference DEF Covers
<1>2. CASE request.pending # None
  BY <1>2 DEF StartingPoint, Carried, OwnInv, StagedIsOwn
<1>3. QED
  BY <1>1, <1>2

LEMMA StageOwn ==
  ASSUME DashboardSentinels, IInv, OwnInv, Stage
  PROVE  OwnInv'
<1> DEFINE key      == request.edit.key
           form     == request.edit.form
           rendered == Features(page.shown)[key]
           start    == StartingPoint
           result   == Save(start.snapshot, key, form)
           wanted   == WantedBy(key, form, rendered)
           after    == [baseVersion |-> start.baseVersion, snapshot |-> result]
<1>1. request.step = "stage" /\ ~Idle /\ UNCHANGED <<versions, page>>
  BY DEF Stage, Idle
<1>2. CASE result = Refused
  <2>1. request' = Ends(request, "refused") /\ staged' = staged
    BY <1>2 DEF Stage
  <2>2. QED
    BY <1>1, <2>1, EndsOwn
<1>3. CASE result # Refused
  <2> DEFINE saved == [request EXCEPT !.pending = after]
             own == staged.own \union {<<w[1], w[2]>> : w \in wanted}
             mixed == staged.mixed \/ start.snapshot.features[key] # rendered
  <2>1. /\ request' = Ends(saved, "staged")
        /\ staged' = [own   |-> own,
                      wants |-> wanted \union StillWanted(wanted),
                      mixed |-> mixed]
    BY <1>3 DEF Stage
  <2>2. /\ IsForm(form) /\ form \in FormsFor(rendered)
        /\ form.default = Undefined => Field(rendered, "default") = Undefined
    BY <1>1, SentForm DEF IInv, RequestOK, FormSent
  <2>3. /\ start.baseVersion \in 1..Live /\ Parsed(start.snapshot)
    BY <1>1, StartOfSave DEF IsPending
  <2>4. SavedForm(start, key, form, rendered, result, wanted)
    BY <1>3, <2>2, <2>3 DEF SavedForm
  <2>5. PICK base, from, before :
          base = Features(start.baseVersion) /\ from = start /\ before = staged.own
    OBVIOUS
  <2>6. ~staged.mixed => Covers(before, DiffFlags(base, from.snapshot.features))
    BY <1>1, <2>5, StartIsOwn
  <2> HIDE DEF result, wanted, rendered, form, key
  <2>7. SavedForm(from, key, form, rendered, result, wanted)
    BY <2>4, <2>5
  <2>8. ASSUME ~mixed
        PROVE  Covers(own, DiffFlags(base, result.features))
    <3>1. ~staged.mixed /\ from.snapshot.features[key] = rendered
      BY <2>5, <2>8
    <3>2. Covers(before, DiffFlags(base, from.snapshot.features))
      BY <2>6, <3>1
    <3>3. Covers(before \union {<<w[1], w[2]>> : w \in wanted}, DiffFlags(base, result.features))
      BY <2>2, <2>7, <3>1, <3>2, SaveIsOwn DEF DashboardSentinels
    <3>4. QED
      BY <2>5, <3>3
  <2>9. after.snapshot = result /\ after.baseVersion = start.baseVersion
    OBVIOUS
  <2> HIDE DEF own, mixed, start, after
  <2>10. /\ request'.kind = request.kind /\ request'.draft = request.draft
         /\ request'.step = "browse" /\ request'.pending = after
    BY <1>1, <2>1 DEF IInv, RequestOK, RequestFields, Ends
  <2>11. ~Idle' /\ Carried' = after
    BY <2>10 DEF Idle, Carried
  <2>12. Kept /\ FromEarlier' /\ NoLostUpdate'
    BY <1>1, SameVersions
  <2>13. staged'.own = own /\ staged'.mixed = mixed
    BY <2>1
  <2>14. /\ Features(Carried.baseVersion)' = base
         /\ Carried'.snapshot.features = result.features
    BY <1>1, <2>5, <2>9, <2>11 DEF Features
  <2>15. StagedIsOwn'
    BY <2>8, <2>13, <2>14 DEF StagedIsOwn
  <2>16. DraftsAreOwn'
    BY <1>1, <2>10, <2>11, <2>12, DraftsStayOwn
  <2>17. EditIsOwn' /\ PublishIsOwn'
    BY <2>10 DEF EditIsOwn, PublishIsOwn, Publishing
  <2>18. QED
    BY <2>12, <2>15, <2>16, <2>17 DEF OwnInv
<1>4. QED
  BY <1>2, <1>3

LEMMA StageFailsOwn ==
  ASSUME IInv, OwnInv, StageFails
  PROVE  OwnInv'
BY EndsOwn DEF StageFails, Idle

LEMMA LatestFields ==
  ASSUME IInv, ~Idle, request' = [request EXCEPT !.step = "latest"]
  PROVE  /\ GoesOn /\ request'.step = "latest" /\ request'.pending = request.pending
         /\ request'.from = request.from /\ request'.own = request.own
BY DEF IInv, RequestOK, RequestFields, GoesOn, IsObject

LEMMA RetriesOwn ==
  ASSUME OwnInv, request.kind = "edit", request.step = "publish", GoesOn,
         request'.step = "latest", request'.from = request.from, request'.own = request.own
  PROVE  EditIsOwn' /\ PublishIsOwn'
<1>1. /\ request.from = request.since /\ request.from > 0
      /\ request.own = {<<request.edit.key, "flag">>}
  BY DEF OwnInv, EditIsOwn
<1>2. request'.since = request.since /\ request'.edit = request.edit
  BY DEF GoesOn
<1>3. QED
  BY <1>1, <1>2 DEF EditIsOwn, PublishIsOwn, Publishing

LEMMA ConflictOwn ==
  ASSUME IInv, OwnInv, Conflict
  PROVE  OwnInv'
<1>1. /\ ~Idle /\ request' = Conflicted(request) /\ UNCHANGED <<versions, page, staged>>
  BY DEF Conflict, Publishing, Idle
<1>2. CASE request.kind = "edit" /\ request.step = "publish"
  <2>1. request' = [request EXCEPT !.step = "latest"]
    BY <1>1, <1>2 DEF Conflicted
  <2>2. /\ GoesOn /\ request'.step = "latest" /\ request'.pending = request.pending
        /\ request'.from = request.from /\ request'.own = request.own
    BY <1>1, <2>1, LatestFields
  <2>3. EditIsOwn' /\ PublishIsOwn'
    BY <1>2, <2>2, RetriesOwn
  <2>4. QED
    BY <1>1, <2>2, <2>3, ServedOwn DEF GoesOn
<1>3. CASE ~(request.kind = "edit" /\ request.step = "publish")
  <2>1. request' = Ends(request, IF request.expect = 0 THEN "failed" ELSE "conflict")
    BY <1>1, <1>3 DEF Conflicted
  <2>2. QED
    BY <1>1, <2>1, EndsOwn
<1>4. QED
  BY <1>2, <1>3

LEMMA ReadLatestFailsOwn ==
  ASSUME IInv, OwnInv, ReadLatestFails
  PROVE  OwnInv'
BY EndsOwn DEF ReadLatestFails, Idle

\* An edit is replayed where nothing it touches has changed since.
LEMMA ReplayOnLatestOwn ==
  ASSUME DashboardSentinels, IInv, OwnInv, ReplayOnLatest
  PROVE  OwnInv'
<1> DEFINE latest == versions[Live].snapshot
           base == versions[request.since].snapshot
           replayed == ApplyFlagEdit(latest, request.edit)
<1>1. /\ request.step = "latest" /\ ~Idle
      /\ UNCHANGED <<versions, page, staged>>
      /\ request' =
          IF ~CanReplayEdit(base, latest, request.edit) THEN Ends(request, "conflict")
          ELSE IF replayed = Refused THEN Ends(request, "refused")
          ELSE [request EXCEPT !.step = "replay", !.expect = Live, !.snapshot = replayed]
  BY DEF ReplayOnLatest, Idle
<1>2. /\ request.kind = "edit" /\ IsImmediate(request.edit)
      /\ request.since \in 1..Live - 1 /\ Live \in Nat
      /\ request.from = request.since
      /\ request.own = {<<request.edit.key, "flag">>}
  BY <1>1, VersionNumbers DEF IInv, RequestOK, OwnInv, EditIsOwn
<1>3. request.since \in 1..Live /\ Live \in 1..Live /\ Live > 0
  BY <1>2
<1>4. Parsed(latest) /\ Parsed(base)
  BY <1>3 DEF IInv, VersionsOK
<1>5. CASE ~CanReplayEdit(base, latest, request.edit) \/ replayed = Refused
  <2>1. PICK outcome : request' = Ends(request, outcome)
    BY <1>1, <1>5
  <2>2. QED
    BY <1>1, <2>1, EndsOwn
<1>6. CASE CanReplayEdit(base, latest, request.edit) /\ replayed # Refused
  <2>1. PICK b, t, edit, live, from, result :
          /\ b = base /\ t = latest /\ edit = request.edit /\ live = Live
          /\ from = request.since /\ result = replayed
    OBVIOUS
  <2>2. /\ Parsed(b) /\ Parsed(t) /\ edit.kind \in {"create", "delete"}
        /\ CanReplayEdit(b, t, edit) /\ ApplyFlagEdit(t, edit) # Refused
        /\ result = ApplyFlagEdit(t, edit)
    BY <1>2, <1>4, <1>6, <2>1 DEF IsImmediate
  <2>3. Field(b.features, edit.key) = Field(t.features, edit.key)
    BY <2>2, ReplayFindsSame
  <2>4. \A p \in DiffFlags(t.features, result.features) : p = <<edit.key, "flag">>
    BY <2>2, EditChangesKey
  <2> HIDE DEF replayed
  <2>5. /\ GoesOn /\ request'.step = "replay" /\ request'.expect = Live
        /\ request'.pending = request.pending /\ request'.snapshot = replayed
        /\ request'.from = request.from /\ request'.own = request.own
    <3>1. DOMAIN request = RequestFields /\ IsObject(request)
      BY <1>1 DEF IInv, RequestOK
    <3>2. request' = [request EXCEPT !.step = "replay", !.expect = Live,
                                     !.snapshot = replayed]
      BY <1>1, <1>6
    <3>3. QED
      BY <3>1, <3>2 DEF RequestFields, GoesOn, IsObject
  <2>6. Features(live)' = t.features /\ Features(from)' = b.features /\ Live' = live
    BY <1>1, <2>1 DEF Features, Live
  <2> DEFINE own == {<<edit.key, "flag">>}
  <2>7. OnlyOwn(live, result.features, own, from)'
    <3>1. \A p : p = <<edit.key, "flag">> =>
                   /\ Says(live, p)' = Field(t.features, edit.key)
                   /\ Says(from, p)' = Field(b.features, edit.key)
      BY <2>6 DEF Says
    <3>2. \A p : p = <<edit.key, "flag">> => \E q \in own : SamePart(p, q)
      BY DEF SamePart
    <3> HIDE DEF own
    <3>3. \A p \in DiffFlags(t.features, result.features) :
            (\E q \in own : SamePart(p, q)) /\ Says(live, p)' = Says(from, p)'
      BY <2>3, <2>4, <3>1, <3>2
    <3>4. QED
      BY <2>6, <3>3 DEF OnlyOwn
  <2>8. PublishIsOwn'
    <3>1. /\ request'.from = from /\ request'.own = own
          /\ request'.expect = live /\ request'.snapshot.features = result.features
          /\ from \in 1..live /\ live > 0
      BY <1>2, <1>3, <2>1, <2>5
    <3> HIDE DEF own
    <3>2. QED
      BY <2>6, <2>7, <3>1 DEF PublishIsOwn, OnlyOwn, Says, Features
  <2>9. EditIsOwn'
    BY <2>5 DEF EditIsOwn
  <2>10. QED
    BY <1>1, <2>5, <2>8, <2>9, ServedOwn DEF GoesOn
<1>7. QED
  BY <1>5, <1>6

\* A version that lands was expected where it does.
LEMMA LandsOwn ==
  ASSUME IInv, OwnInv, Publishing, ValidSnapshot(request.snapshot), Expected(request),
         UNCHANGED <<page, requests>>, request'.id = request.id,
         NEW entry, versions' = Append(versions, entry),
         entry.by = request.id, entry.snapshot = request.snapshot,
         entry.from = request.from, entry.own = request.own, entry.excuse = request.excuse
  PROVE  Kept /\ FromEarlier' /\ NoLostUpdate'
<1>1. /\ Live \in Nat /\ Live' = Live + 1 /\ versions'[Live + 1] = entry
      /\ \A v \in 1..Live : versions'[v] = versions[v]
  BY Lands
<1>2. entry.excuse = {} =>
        /\ entry.from \in 1..Live
        /\ OnlyOwn(Live, entry.snapshot.features, entry.own, entry.from)
  BY DEF OwnInv, PublishIsOwn, Expected
<1>3. QED
  BY <1>1, <1>2, GrownOwn

LEMMA PublishOwn ==
  ASSUME DashboardSentinels, IInv, OwnInv, Publish
  PROVE  OwnInv'
<1>1. Publishing /\ ~Idle /\ UNCHANGED <<page, requests>>
  BY DEF Publish, Publishing, Idle
<1>2. CASE ~ValidSnapshot(request.snapshot)
  BY <1>1, <1>2, EndsOwn DEF Publish
<1>3. CASE ValidSnapshot(request.snapshot)
  <2> DEFINE entry == ByOperator(request)
             after == IF request.kind = "pending" THEN None ELSE request.pending
             r == [request EXCEPT !.pending = after]
  <2>1. /\ Expected(request)
        /\ versions' = Append(versions, entry)
        /\ request' = Ends(r, "published")
        /\ staged' = IF request.kind = "pending" THEN NoChanges ELSE staged
    BY <1>3 DEF Publish
  <2>2. /\ entry.by = request.id /\ entry.snapshot = request.snapshot
        /\ entry.from = request.from /\ entry.own = request.own
        /\ entry.excuse = request.excuse
    BY DEF ByOperator
  <2> HIDE DEF entry, after
  <2>3. /\ request'.id = request.id /\ request'.kind = request.kind
        /\ request'.draft = request.draft /\ request'.step = "browse"
        /\ request'.pending = after
    BY <1>1, <2>1 DEF IInv, RequestOK, RequestFields, Ends
  <2> HIDE DEF r
  <2>4. Kept /\ FromEarlier' /\ NoLostUpdate'
    BY <1>1, <1>3, <2>1, <2>2, <2>3, LandsOwn
  <2>5. ~Idle' /\ Carried' = after
    BY <2>3 DEF Idle, Carried
  <2>6. StagedIsOwn'
    <3>1. CASE request.kind = "pending"
      BY <2>5, <3>1, NothingStagedOwn DEF after
    <3>2. CASE request.kind # "pending"
      <4>1. Carried' = Carried /\ staged' = staged
        BY <1>1, <2>1, <2>5, <3>2 DEF Carried, after
      <4>2. QED
        BY <2>4, <4>1, StagedStaysOwn
    <3>3. QED
      BY <3>1, <3>2
  <2>7. DraftsAreOwn'
    BY <1>1, <2>3, <2>4, <2>5, DraftsStayOwn
  <2>8. EditIsOwn' /\ PublishIsOwn'
    BY <2>3 DEF EditIsOwn, PublishIsOwn, Publishing
  <2>9. QED
    BY <2>4, <2>6, <2>7, <2>8 DEF OwnInv
<1>4. QED
  BY <1>2, <1>3

LEMMA LandsUnansweredOwn ==
  ASSUME IInv, OwnInv, Publishing, ValidSnapshot(request.snapshot), Expected(request),
         versions' = Append(versions, [ByOperator(request) EXCEPT !.answered = FALSE]),
         request' \in {Conflicted(request), Ends(request, "failed")},
         UNCHANGED <<page, staged, requests>>
  PROVE  OwnInv'
<1> DEFINE entry == [ByOperator(request) EXCEPT !.answered = FALSE]
           retried == /\ request.kind = "edit" /\ request.step = "publish"
                      /\ request' = Conflicted(request)
           outcome == IF request.expect = 0 \/ request' = Ends(request, "failed")
                      THEN "failed" ELSE "conflict"
<1>1. ~Idle
  BY DEF Publishing, Idle
<1>2. /\ entry.by = request.id /\ entry.snapshot = request.snapshot
      /\ entry.from = request.from /\ entry.own = request.own
      /\ entry.excuse = request.excuse
  BY DEF ByOperator
<1> HIDE DEF entry
<1>3. /\ GoesOn /\ request'.pending = request.pending
      /\ retried => /\ request'.step = "latest" /\ request'.from = request.from
                    /\ request'.own = request.own
      /\ ~retried => request'.step = "browse"
  <2>1. CASE retried
    BY <1>1, <2>1, LatestFields DEF Conflicted
  <2>2. CASE ~retried
    <3>1. request' = Ends(request, outcome)
      BY <2>2 DEF Conflicted
    <3> HIDE DEF outcome
    <3>2. QED
      BY <1>1, <2>2, <3>1, EndsAs
  <2>3. QED
    BY <2>1, <2>2
<1>4. /\ request'.id = request.id /\ request'.kind = request.kind
      /\ request'.draft = request.draft
  BY <1>3 DEF GoesOn
<1>5. Kept /\ FromEarlier' /\ NoLostUpdate'
  BY <1>2, <1>4, LandsOwn DEF entry
<1>6. ~Idle' /\ Carried' = Carried
  BY <1>1, <1>3 DEF Idle, Carried
<1>7. EditIsOwn' /\ PublishIsOwn'
  <2>1. CASE retried
    BY <1>3, <2>1, RetriesOwn
  <2>2. CASE ~retried
    BY <1>3, <2>2 DEF EditIsOwn, PublishIsOwn, Publishing
  <2>3. QED
    BY <2>1, <2>2
<1>8. StagedIsOwn' /\ DraftsAreOwn'
  BY <1>1, <1>4, <1>5, <1>6, StagedStaysOwn, DraftsStayOwn
<1>9. QED
  BY <1>5, <1>7, <1>8 DEF OwnInv

LEMMA PublishFailsOwn ==
  ASSUME IInv, OwnInv, PublishFails
  PROVE  OwnInv'
<1>1. ~Idle
  BY DEF PublishFails, Publishing, Idle
<1>2. CASE request' = Ends(request, "failed") /\ UNCHANGED versions
  BY <1>1, <1>2, EndsOwn DEF PublishFails
<1>3. CASE /\ ValidSnapshot(request.snapshot) /\ Expected(request)
           /\ versions' = Append(versions, [ByOperator(request) EXCEPT !.answered = FALSE])
           /\ request' \in {Conflicted(request), Ends(request, "failed")}
  BY <1>3, LandsUnansweredOwn DEF PublishFails
<1>4. QED
  BY <1>2, <1>3 DEF PublishFails

\* What others publish makes no difference to what a version that is live by
\* then would change: it is not expected any more.
LEMMA RivalPublishesOwn ==
  ASSUME IInv, OwnInv, RivalPublishes
  PROVE  OwnInv'
<1>1. UNCHANGED <<page, request, staged>>
  BY DEF RivalPublishes
<1>2. PICK snapshot : versions' = Append(versions, Version(snapshot, 0))
  BY DEF RivalPublishes
<1> DEFINE entry == Version(snapshot, 0)
<1>3. entry.by = 0
  BY DEF Version
<1> HIDE DEF entry
<1>4. /\ Live \in Nat /\ Live' = Live + 1 /\ versions'[Live + 1] = entry
      /\ \A v \in 1..Live : versions'[v] = versions[v]
  BY <1>2, Appending DEF IInv, VersionsOK, Live, entry
<1>5. Kept /\ FromEarlier' /\ NoLostUpdate'
  BY <1>3, <1>4, GrownOwn
<1>6. Carried' = Carried /\ EditIsOwn'
  BY <1>1 DEF Carried, Idle, OwnInv, EditIsOwn
<1>7. StagedIsOwn'
  BY <1>1, <1>5, <1>6, StagedStaysOwn
<1>8. DraftsAreOwn'
  <2>1. PICK d, e : d = page.draft /\ e = request.draft
    OBVIOUS
  <2>2. /\ page.draft # None => DraftIsOwn(d)
        /\ ~Idle /\ request.kind = "paste" => DraftIsOwn(e)
    BY <2>1 DEF OwnInv, DraftsAreOwn
  <2>3. /\ page.draft # None => DraftIsOwn(d)'
        /\ ~Idle /\ request.kind = "paste" => DraftIsOwn(e)'
    BY <1>5, <2>2, DraftStaysOwn
  <2>4. page' = page /\ request' = request /\ page'.draft = d /\ request'.draft = e
    BY <1>1, <2>1
  <2>5. QED
    BY <2>3, <2>4 DEF DraftsAreOwn, DraftIsOwn, Features, Idle
<1>9. PublishIsOwn'
  <2>1. ASSUME Publishing, request.excuse = {}
        PROVE  request.from \in 1..Live + 1 /\ request.expect > 0
               /\ request.expect # Live + 1
    <3>1. request.from \in 1..Live /\ request.expect > 0
      BY <2>1 DEF OwnInv, PublishIsOwn
    <3>2. request.expect \in 0..Live
      BY <2>1 DEF IInv, RequestOK, Publishing, Idle
    <3>3. QED
      BY <1>4, <3>1, <3>2
  <2>2. QED
    BY <1>1, <1>4, <2>1 DEF PublishIsOwn, Publishing
<1>10. QED
  BY <1>5, <1>6, <1>7, <1>8, <1>9 DEF OwnInv

\* A page that comes back with a draft comes back with the draft that was sent.
LEMMA AnsweredOwn ==
  ASSUME DashboardSentinels, IInv, OwnInv, request.step \in {"browse", "drift"},
         NEW shown \in 0..Live, NEW drifted \in BOOLEAN,
         page' = Answer(shown, drifted), request' = NoRequest,
         UNCHANGED <<versions, staged>>
  PROVE  OwnInv'
<1> DEFINE conflict == request.outcome = "conflict" /\ request.kind # "pending"
           kept == request.kind = "paste" /\ request.outcome \in {"conflict", "failed", "refused"}
           seen == IF conflict THEN shown ELSE request.draft.seen
           draft == [request.draft EXCEPT !.seen = seen]
<1>1. /\ page'.pending = request.pending
      /\ page'.draft = (IF kept THEN draft ELSE None)
  BY DEF Answer
<1>2. /\ ~Idle /\ Idle' /\ versions' = versions /\ staged' = staged
  BY DEF Idle, NoRequest
<1>3. Kept /\ FromEarlier' /\ NoLostUpdate'
  BY <1>2, SameVersions
<1>4. Carried' = Carried
  BY <1>1, <1>2 DEF Carried
<1>5. StagedIsOwn'
  BY <1>2, <1>3, <1>4, StagedStaysOwn
<1>6. EditIsOwn' /\ PublishIsOwn'
  BY DEF NoRequest, EditIsOwn, PublishIsOwn, Publishing
<1>7. ASSUME kept
      PROVE  DraftIsOwn(draft)
  <2>1. IsDraft(request.draft) /\ DraftIsOwn(request.draft)
    BY <1>2, <1>7 DEF IInv, RequestOK, OwnInv, DraftsAreOwn
  <2>2. seen \in 0..Live
    BY <2>1 DEF DraftIsOwn
  <2> HIDE DEF seen
  <2>3. /\ draft.from = request.draft.from /\ draft.seen = seen
        /\ draft.mixed = request.draft.mixed /\ draft.own = request.draft.own
        /\ draft.text = request.draft.text
    BY <2>1 DEF IsDraft
  <2> HIDE DEF draft
  <2>4. QED
    BY <2>1, <2>2, <2>3 DEF DraftIsOwn
<1> HIDE DEF draft, kept
<1>8. PICK d : d = draft
  OBVIOUS
<1>9. kept => DraftIsOwn(d)'
  BY <1>3, <1>7, <1>8, DraftStaysOwn
<1>10. DraftsAreOwn'
  BY <1>1, <1>2, <1>8, <1>9 DEF DraftsAreOwn, DraftIsOwn, Features
<1>11. QED
  BY <1>3, <1>5, <1>6, <1>10 DEF OwnInv

LEMMA BrowseOwn ==
  ASSUME DashboardSentinels, IInv, OwnInv, Browse
  PROVE  OwnInv'
<1>1. /\ request.step = "browse" /\ ~Idle /\ UNCHANGED <<versions, staged>>
      /\ Live \in 0..Live
  BY VersionNumbers DEF Browse, Idle, IInv
<1>2. CASE request.pending = None
  BY <1>1, <1>2, AnsweredOwn DEF Browse
<1>3. CASE request.pending # None
  <2>1. /\ request' = [request EXCEPT !.step = "drift", !.expect = Live]
        /\ page' = page
    BY <1>3 DEF Browse
  <2>2. /\ request'.kind = request.kind /\ request'.draft = request.draft
        /\ request'.pending = request.pending /\ request'.step = "drift"
    BY <1>1, <2>1 DEF IInv, RequestOK, RequestFields
  <2>3. EditIsOwn' /\ PublishIsOwn'
    BY <2>2 DEF EditIsOwn, PublishIsOwn, Publishing
  <2>4. QED
    BY <1>1, <2>1, <2>2, <2>3, ServedOwn
<1>4. QED
  BY <1>2, <1>3

LEMMA DetectVersionDriftOwn ==
  ASSUME DashboardSentinels, IInv, OwnInv, DetectVersionDrift
  PROVE  OwnInv'
<1>1. /\ request.step = "drift" /\ UNCHANGED <<versions, staged>>
      /\ page' = Answer(request.expect, request.pending.baseVersion # Live)
      /\ request' = NoRequest
  BY DEF DetectVersionDrift
<1>2. request.expect \in 0..Live
  BY <1>1 DEF IInv, RequestOK, Idle
<1>3. QED
  BY <1>1, <1>2, AnsweredOwn

\* An error page carries nothing.
LEMMA AnswerFailsOwn ==
  ASSUME IInv, OwnInv, AnswerFails
  PROVE  OwnInv'
<1>1. Idle' /\ versions' = versions /\ request' = NoRequest
  BY DEF AnswerFails, Idle, NoRequest
<1>2. page'.draft = None /\ page'.pending = None
  BY DEF AnswerFails, ErrorPage, FreshPage
<1>3. StagedIsOwn'
  BY <1>1, <1>2, NothingStagedOwn DEF Carried
<1>4. DraftsAreOwn' /\ EditIsOwn' /\ PublishIsOwn'
  BY <1>1, <1>2 DEF DraftsAreOwn, EditIsOwn, PublishIsOwn, Publishing, Idle
<1>5. QED
  BY <1>1, <1>3, <1>4, SameVersions DEF OwnInv

-----------------------------------------------------------------------------
(* The page by itself. *)

\* A step of the page alone publishes nothing.
LEMMA OnPageOwn ==
  ASSUME IInv, OwnInv, OnPage, StagedIsOwn',
         page'.draft # None => DraftIsOwn(page'.draft)
  PROVE  OwnInv'
<1>1. Idle /\ Idle' /\ versions' = versions /\ request' = request
  BY DEF OnPage, Idle
<1>2. Kept /\ FromEarlier' /\ NoLostUpdate'
  BY <1>1, SameVersions
<1>3. EditIsOwn' /\ PublishIsOwn'
  BY <1>1 DEF Idle, EditIsOwn, PublishIsOwn, Publishing
<1>4. DraftsAreOwn'
  <2>1. PICK d : d = page'.draft
    OBVIOUS
  <2>2. d # None => DraftIsOwn(d)'
    BY <1>2, <2>1, DraftStaysOwn
  <2>3. QED
    BY <1>1, <2>1, <2>2 DEF DraftsAreOwn, DraftIsOwn, Features
<1>5. QED
  BY <1>2, <1>3, <1>4 DEF OwnInv

\* Nor does it change what is staged, or another draft.
LEMMA SamePageOwn ==
  ASSUME IInv, OwnInv, OnPage, staged' = staged,
         page'.pending = page.pending, page'.draft = page.draft
  PROVE  OwnInv'
<1>1. Carried' = Carried /\ versions' = versions
  BY DEF OnPage, Carried, Idle
<1>2. StagedIsOwn'
  BY <1>1, SameVersions, StagedStaysOwn
<1>3. page.draft # None => DraftIsOwn(page.draft)
  BY DEF OwnInv, DraftsAreOwn
<1>4. QED
  BY <1>2, <1>3, OnPageOwn

LEMMA PollOwn ==
  ASSUME IInv, OwnInv, Poll
  PROVE  OwnInv'
BY SamePageOwn DEF Poll, IInv, PageOK

LEMMA OpenMergeOwn ==
  ASSUME IInv, OwnInv, OpenMerge
  PROVE  OwnInv'
BY SamePageOwn DEF OpenMerge, IInv, PageOK

LEMMA LoadLatestOwn ==
  ASSUME IInv, OwnInv, LoadLatest
  PROVE  OwnInv'
<1>1. OnPage /\ page'.draft = None /\ Carried' = None
  BY DEF LoadLatest, OnPage, Idle, Carried, FreshPage
<1>2. QED
  BY <1>1, NothingStagedOwn, OnPageOwn

\* A merged draft takes from the operator's side what is the operator's.
LEMMA ApplyMergeOwn ==
  ASSUME DashboardSentinels, IInv, OwnInv, ApplyMerge
  PROVE  OwnInv'
<1>1. OnPage /\ staged' = staged /\ page.reviewed > 0 /\ Live \in Nat
  BY VersionNumbers DEF ApplyMerge, IInv
<1>2. page.since > 0 /\ page.draft # None
  BY <1>1 DEF IInv, PageOK
<1>3. CASE page' = [page EXCEPT !.reviewed = 0]
  BY <1>1, <1>3, SamePageOwn DEF IInv, PageOK
<1>4. ASSUME NEW side \in Sides,
             page' = [page EXCEPT !.reviewed = 0,
                        !.draft = [page.draft EXCEPT
                          !.text = Merged(side), !.from = Live, !.seen = Live,
                          !.own = OwnAfter(side),
                          !.mixed = page.draft.mixed \/ page.draft.from # page.since]]
      PROVE  OwnInv'
  <2> DEFINE mixed == page.draft.mixed \/ page.draft.from # page.since
             draft == [page.draft EXCEPT !.text = Merged(side), !.from = Live, !.seen = Live,
                                         !.own = OwnAfter(side), !.mixed = mixed]
             base == versions[page.since].snapshot
             mine == page.draft.text
             theirs == versions[Live].snapshot
             B == base.features
             M == mine.features
             T == theirs.features
             F == Merge(B, M, T, Chosen(B, M, T, side))
  <2>1. page.since \in 1..Live /\ Live \in 1..Live
    BY <1>1, <1>2 DEF IInv, PageOK
  <2>2. IsDraft(page.draft) /\ DraftIsOwn(page.draft)
    BY <1>2 DEF IInv, PageOK, OwnInv, DraftsAreOwn
  <2>3. Shaped(base) /\ Shaped(mine) /\ Shaped(theirs)
    BY <2>1, <2>2 DEF IInv, VersionsOK, Parsed, IsDraft
  <2>4. AreFeatures(B) /\ AreFeatures(M) /\ AreFeatures(T)
    BY <2>3 DEF Shaped, AreFeatures
  <2> HIDE DEF mixed
  <2>5. /\ draft.text = Merged(side) /\ draft.from = Live /\ draft.seen = Live
        /\ draft.own = OwnAfter(side) /\ draft.mixed = mixed
    BY <2>2 DEF IsDraft
  <2>6. page'.draft = draft /\ page'.pending = page.pending
    BY <1>4 DEF IInv, PageOK, mixed
  <2> HIDE DEF draft
  <2>7. Merged(side).features = F
    <3>1. F # Refused
      BY <2>4, MergeSide DEF DashboardSentinels
    <3>2. Merged(side) = MergedDraft(base, mine, theirs, Chosen(B, M, T, side))
      BY DEF Merged
    <3> HIDE DEF F
    <3>3. Merged(side) = [schema |-> mine.schema, features |-> F]
      BY <2>3, <3>1, <3>2, MergedDraftFeatures DEF DashboardSentinels, F
    <3>4. QED
      BY <3>3
  <2>8. ASSUME ~mixed
        PROVE  Covers(OwnMerged(page.draft.own, B, M, T, side), Changed(T, F))
    <3>1. ~page.draft.mixed /\ page.draft.from = page.since
      BY <2>8 DEF mixed
    <3>2. Covers(page.draft.own, Changed(B, M))
      BY <1>2, <2>2, <3>1 DEF DraftIsOwn, Features
    <3>3. QED
      BY <2>4, <3>2, MergeKeepsOwn DEF DashboardSentinels
  <2> HIDE DEF F
  <2>9. OwnAfter(side) = OwnMerged(page.draft.own, B, M, T, side) /\ T = Features(Live)
    BY DEF OwnAfter, Features
  <2>10. DraftIsOwn(draft)
    BY <2>1, <2>5, <2>7, <2>8, <2>9 DEF DraftIsOwn
  <2>11. Carried' = Carried /\ versions' = versions
    BY <1>1, <2>6 DEF OnPage, Carried, Idle
  <2>12. StagedIsOwn'
    BY <1>1, <2>11, SameVersions, StagedStaysOwn
  <2>13. QED
    BY <1>1, <2>6, <2>10, <2>12, OnPageOwn
<1>5. QED
  BY <1>3, <1>4 DEF ApplyMerge, Sides

-----------------------------------------------------------------------------
(* The theorem. *)

LEMMA StartsOwn ==
  ASSUME Init
  PROVE  OwnInv
<1>1. IInv /\ Idle /\ page = FreshPage(Live)
  BY StartsWell DEF Init, Idle, NoRequest, Live
<1>2. \A v \in 1..Live : ~ByThem(v)
  <2>1. DOMAIN versions = 1..Live
    BY <1>1, VersionNumbers DEF IInv
  <2>2. \A v \in DOMAIN versions : versions[v] = Version(versions[v].snapshot, 0)
    BY DashboardAssumption DEF Init
  <2>3. QED
    BY <2>1, <2>2 DEF Version, ByThem
<1>3. FromEarlier /\ NoLostUpdate
  <2>1. Live \in Nat
    BY <1>1, VersionNumbers DEF IInv
  <2>2. \A v \in 2..Live : v \in 1..Live
    BY <2>1
  <2>3. QED
    BY <1>2, <2>2 DEF FromEarlier, NoLostUpdate
<1>4. StagedIsOwn /\ DraftsAreOwn
  BY <1>1 DEF StagedIsOwn, DraftsAreOwn, Carried, FreshPage
<1>5. EditIsOwn /\ PublishIsOwn
  BY <1>1 DEF EditIsOwn, PublishIsOwn, Publishing, Idle
<1>6. QED
  BY <1>3, <1>4, <1>5 DEF OwnInv

LEMMA StepKeepsOwn ==
  ASSUME DashboardSentinels, IInv, OwnInv, [Next]_vars
  PROVE  OwnInv'
<1>1. CASE View
  BY <1>1, ViewOwn
<1>2. CASE SaveFlag
  BY <1>2, SaveFlagOwn
<1>3. CASE SubmitEdit
  BY <1>3, SubmitEditOwn
<1>4. CASE Update
  BY <1>4, PublishPendingOwn DEF Update
<1>5. CASE PublishAnyway
  BY <1>5, PublishPendingOwn DEF PublishAnyway
<1>6. CASE Discard
  BY <1>6, DiscardOwn
<1>7. CASE Paste
  BY <1>7, PasteOwn
<1>8. CASE Rollback
  BY <1>8, RollbackOwn
<1>9. CASE Publish
  BY <1>9, PublishOwn
<1>10. CASE Conflict
  BY <1>10, ConflictOwn
<1>11. CASE PublishFails
  BY <1>11, PublishFailsOwn
<1>12. CASE ReplayOnLatest
  BY <1>12, ReplayOnLatestOwn
<1>13. CASE ReadLatestFails
  BY <1>13, ReadLatestFailsOwn
<1>14. CASE Browse
  BY <1>14, BrowseOwn
<1>15. CASE DetectVersionDrift
  BY <1>15, DetectVersionDriftOwn
<1>16. CASE Poll
  BY <1>16, PollOwn
<1>17. CASE LoadLatest
  BY <1>17, LoadLatestOwn
<1>18. CASE OpenMerge
  BY <1>18, OpenMergeOwn
<1>19. CASE ApplyMerge
  BY <1>19, ApplyMergeOwn
<1>20. CASE RivalPublishes
  BY <1>20, RivalPublishesOwn
<1>21. CASE UNCHANGED vars
  <2>1. /\ versions' = versions /\ page' = page /\ request' = request
        /\ staged' = staged
    BY <1>21 DEF vars
  <2>2. FromEarlier' /\ NoLostUpdate' /\ Kept /\ Carried' = Carried
    BY <2>1, SameVersions DEF Carried, Idle
  <2>3. StagedIsOwn'
    BY <2>1, <2>2, StagedStaysOwn
  <2>4. DraftsAreOwn' /\ EditIsOwn' /\ PublishIsOwn'
    BY <2>1 DEF OwnInv, DraftsAreOwn, DraftIsOwn, EditIsOwn, PublishIsOwn, OnlyOwn,
                Says, Features, Live, Idle, Publishing
  <2>5. QED
    BY <2>2, <2>3, <2>4 DEF OwnInv
<1>22. CASE Stage
  BY <1>22, StageOwn
<1>23. CASE StageFails
  BY <1>23, StageFailsOwn
<1>24. CASE AnswerFails
  BY <1>24, AnswerFailsOwn
<1>25. QED
  BY <1>1, <1>2, <1>3, <1>4, <1>5, <1>6, <1>7, <1>8, <1>9, <1>10, <1>11, <1>12, <1>13,
     <1>14, <1>15, <1>16, <1>17, <1>18, <1>19, <1>20, <1>21, <1>22, <1>23, <1>24 DEF Next

\* No update of others is lost that the code sets out to keep: a version the
\* operator published changes what the operator changed, in a form, a creation or
\* deletion, a pasted draft or by choosing a side of a merge, and only where
\* nobody else did since.  It is what publishExpecting, replayOnLatest and
\* applyDraftMerge are for, and none of them is enough: the base of a change set
\* has to stay what it was, the edit has to be looked at again on the live
\* version, and a draft has to be lined up with the version it was merged with.
THEOREM NothingOfOthersLost ==
  ASSUME DashboardSentinels
  PROVE  Spec => []NoLostUpdate
<1>1. Init => OwnInv
  BY StartsOwn
<1>2. IInv /\ OwnInv /\ [Next]_vars => OwnInv'
  BY StepKeepsOwn
<1>3. OwnInv => NoLostUpdate
  BY DEF OwnInv
<1>4. QED
  BY <1>1, <1>2, <1>3, DashboardInvariance, PTL DEF Spec
=============================================================================
