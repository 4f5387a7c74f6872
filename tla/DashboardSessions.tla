-------------------------- MODULE DashboardSessions --------------------------
(***************************************************************************)
(* The page of one operator and the dashboard server behind it, while      *)
(* others publish to the same environment (packages/dashboard).            *)
(*                                                                         *)
(* The server keeps nothing between requests: the staged change set and    *)
(* the version a form was rendered from travel in the form.  A request     *)
(* takes a step for each read or write of the bucket that another          *)
(* publisher can get in between.  A publish is what SnapshotPublisher      *)
(* makes of it: it lands if the version expected is the live one, or is    *)
(* reported as CONFLICT, also when it landed and the answer was lost.  Any *)
(* read of the bucket may fail: one that serves the page itself, before or *)
(* after a publish, leaves an error page, which has no forms.              *)
(*                                                                         *)
(* own, from and excuse are kept for the properties only.                  *)
(***************************************************************************)
EXTENDS SnapshotMerge

CONSTANTS
  Started,        \* what may have been published at the start
  RivalEdits,     \* the edits others publish
  Immediate,      \* the creations and deletions the operator may submit
  Typed,          \* the edits the operator may make to a pasted snapshot
  FormDefaults,   \* the defaults the operator may type into a form
  None,           \* nothing staged, no draft, no edit
  MaxRequests,    \* bound: forms submitted
  MaxRivals,      \* bound: versions published by others
  MaxFaults       \* bound: requests to the bucket that fail

VARIABLES
  versions,       \* the published versions; the last one is live
  page,           \* what the operator's browser shows
  request,        \* the request being served
  staged,         \* history variable: the changes the operator staged
  requests, rivals, faults      \* how many there were

vars == <<versions, page, request, staged, requests, rivals, faults>>

Live == Len(versions)
Features(v) == versions[v].snapshot.features

\* A version of the environment, and how the operator came to publish it.
Version(snapshot, by) ==
  [snapshot |-> snapshot, by |-> by, answered |-> TRUE,
   from |-> 0, own |-> {}, excuse |-> {}]

ASSUME DashboardAssumption ==
  /\ {MaxRequests, MaxRivals, MaxFaults} \subseteq Nat
  /\ \A history \in Started :
       /\ IsArray(history)
       /\ \A v \in DOMAIN history : /\ Parsed(history[v].snapshot)
                                   /\ history[v] = Version(history[v].snapshot, 0)
  /\ \A edit \in RivalEdits \union Immediate \union Typed : IsEdit(edit)
  /\ {Undefined, Refused} \intersect FormDefaults = {}

NoChanges == [own |-> {}, wants |-> {}, mixed |-> FALSE]

\* The page as a plain GET renders it.
FreshPage(v) ==
  [shown |-> v, pending |-> None, drifted |-> FALSE, draft |-> None,
   since |-> 0, keyed |-> FALSE, latest |-> v, reviewed |-> 0,
   outcome |-> "viewed", request |-> 0]

\* The page that says that a request failed: nothing to submit, nothing carried.
ErrorPage(id) == [FreshPage(0) EXCEPT !.outcome = "error", !.request = id]
HasForms == page.outcome # "error"

NoRequest == [step |-> "none"]
Idle == request.step = "none"

\* The change set that the next form will carry.
Carried == IF Idle THEN page.pending ELSE request.pending

Init ==
  /\ versions \in Started
  /\ page = FreshPage(Len(versions))
  /\ request = NoRequest
  /\ staged = NoChanges
  /\ requests = 0 /\ rivals = 0 /\ faults = 0

-----------------------------------------------------------------------------
(* Submitting a form. *)

\* What every request carries: the staged change set is in each form.
Request(kind, step) ==
  [kind |-> kind, step |-> step, id |-> requests + 1, pending |-> page.pending,
   expect |-> 0, snapshot |-> None, edit |-> None, draft |-> None, since |-> 0,
   from |-> 0, own |-> {}, excuse |-> {}, outcome |-> "viewed"]

Submits(r) ==
  /\ Idle /\ HasForms /\ requests < MaxRequests
  /\ requests' = requests + 1
  /\ request' = r
  /\ UNCHANGED <<versions, page, rivals, faults>>

Ends(r, outcome) == [r EXCEPT !.step = "browse", !.outcome = outcome]

\* The filter form, a GET that carries the change set.
View ==
  /\ page.shown > 0
  /\ DOMAIN Features(page.shown) # {}
  /\ Submits(Request("view", "browse"))
  /\ UNCHANGED staged

FormsFor(feature) ==
  LET form == RenderedForm(feature) IN
  {[form EXCEPT !.enabled = ~form.enabled]} \union
  {[form EXCEPT !.default = d] :
     d \in IF form.default = Undefined THEN {} ELSE FormDefaults}

\* The form of a flag carries every field that the page shows of it.
SaveFlag ==
  /\ page.shown > 0
  /\ \E key \in DOMAIN Features(page.shown) :
     \E form \in FormsFor(Features(page.shown)[key]) :
       Submits([Request("save", "stage") EXCEPT
                  !.edit = [key |-> key, form |-> form]])
  /\ UNCHANGED staged

\* A new flag or a deletion is published at once, on the version of the form.
FormBase == IF page.pending # None THEN page.pending.baseVersion ELSE page.shown

NewFlagForms == {edit \in Immediate : edit.kind = "create"}

DeleteForms ==
  {edit \in Immediate : edit.kind = "delete" /\ edit.key \in DOMAIN Features(page.shown)}

SubmitEdit ==
  /\ page.shown > 0
  /\ \E edit \in NewFlagForms \union DeleteForms :
       LET edited == ApplyFlagEdit(versions[FormBase].snapshot, edit)
           r == [Request("edit", "publish") EXCEPT
                   !.edit = edit, !.expect = FormBase, !.snapshot = edited,
                   !.since = FormBase, !.from = FormBase,
                   !.own = {<<edit.key, "flag">>}]
       IN Submits(IF edited = Refused THEN Ends(r, "refused") ELSE r)
  /\ UNCHANGED staged

\* Update expects the version the change set began from; "Publish anyway", which
\* the page offers beside its warning, expects nothing.
PublishPending(force) ==
  /\ page.pending # None
  /\ force = page.drifted
  /\ Submits([Request("pending", "publish") EXCEPT
                !.expect   = IF force THEN 0 ELSE page.pending.baseVersion,
                !.snapshot = page.pending.snapshot,
                !.since    = page.pending.baseVersion,
                !.from     = page.pending.baseVersion,
                !.own      = staged.own,
                !.excuse   = (IF force THEN {"forced"} ELSE {}) \union
                             (IF staged.mixed THEN {"mixed"} ELSE {})])
  /\ UNCHANGED staged

Update == PublishPending(FALSE)
PublishAnyway == PublishPending(TRUE)

Discard ==
  /\ page.pending # None
  /\ Submits(Ends([Request("pending", "browse") EXCEPT !.pending = None],
                  "discarded"))
  /\ staged' = NoChanges

\* The publish dialog starts from the snapshot shown, or from a template.
Prefill == IF page.shown > 0 THEN versions[page.shown].snapshot
           ELSE [schema |-> 2, features |-> <<>>]

\* What has become different, field by field as the merge compares them.
Changed(before, after) ==
  LET kept == DOMAIN before \intersect DOMAIN after IN
  {<<k, "flag">> : k \in (DOMAIN before \union DOMAIN after) \ kept} \union
  {p \in kept \X (MergeFields \ {"flag"}) :
     Field(before[p[1]], p[2]) # Field(after[p[1]], p[2])}

Drafts ==
  IF page.draft # None THEN {page.draft}
  ELSE {[text  |-> text, from |-> page.shown, seen |-> page.shown, mixed |-> FALSE,
         own   |-> Changed(Prefill.features, text.features)] :
        text \in {ApplyFlagEdit(Prefill, e) : e \in Typed} \ {Refused}}

Paste ==
  /\ \E draft \in Drafts :
       Submits([Request("paste", "publish") EXCEPT
                  !.expect = page.shown, !.snapshot = draft.text,
                  !.draft = draft, !.since = page.shown, !.from = draft.from,
                  !.own = draft.own,
                  !.excuse = {e \in {"baseless", "told", "returned", "mixed"} :
                                CASE e = "baseless" -> page.shown = 0
                                  [] e = "told"     -> draft.from < draft.seen
                                  [] e = "returned" -> draft.seen < page.shown
                                  [] OTHER          -> draft.mixed}])
  /\ UNCHANGED staged

\* Restoring an older version appends its content.  The form is on the page of
\* the version history, which has no change set to carry.
Restored(v) == versions[v].snapshot

Rollback ==
  /\ \E v \in 1..Live - 1 :
       Submits([Request("rollback", "publish") EXCEPT
                  !.pending = None, !.snapshot = Restored(v),
                  !.excuse = {"rollback"}])
  /\ staged' = NoChanges

-----------------------------------------------------------------------------
(* Serving the request. *)

Fails == faults < MaxFaults /\ faults' = faults + 1

\* What the operator changed on a form, and to what.
WantedBy(key, form, rendered) ==
  {w \in {<<key, "enabled", form.enabled>>, <<key, "default", form.default>>} :
     w[3] # Field(rendered, w[2])}

\* What was changed on an earlier form and not on this one.
StillWanted(wanted) ==
  {w \in staged.wants : <<w[1], w[2]>> \notin {<<x[1], x[2]>> : x \in wanted}}

LiveStart == [baseVersion |-> Live, snapshot |-> versions[Live].snapshot]

RebasedStart ==
  IF request.pending # None THEN [request.pending EXCEPT !.baseVersion = Live] ELSE LiveStart

StartAhead ==
  IF request.pending # None THEN request.pending ELSE [LiveStart EXCEPT !.baseVersion = Live + 1]

\* A Save is staged on the change set; the first one on the live version, which
\* need not be the page's.
StartingPoint ==
  IF request.pending # None THEN request.pending
  ELSE LiveStart

\* Every field of the form is staged, as the page showed it or as it was changed.
Stage ==
  /\ request.step = "stage"
  /\ LET key      == request.edit.key
         form     == request.edit.form
         rendered == Features(page.shown)[key]
         start    == StartingPoint
         result   == Save(start.snapshot, key, form)
         wanted   == WantedBy(key, form, rendered)
     IN IF result = Refused
        THEN request' = Ends(request, "refused") /\ UNCHANGED staged
        ELSE /\ request' = Ends([request EXCEPT !.pending =
                                  [baseVersion |-> start.baseVersion,
                                   snapshot    |-> result]], "staged")
             /\ staged' =
                  [own   |-> staged.own \union {<<w[1], w[2]>> : w \in wanted},
                   wants |-> wanted \union StillWanted(wanted),
                   mixed |-> \/ staged.mixed
                             \/ start.snapshot.features[key] # rendered]
  /\ UNCHANGED <<versions, page, requests, rivals, faults>>

\* The live version cannot be read to start from.
StageFails ==
  /\ request.step = "stage" /\ request.pending = None /\ Fails
  /\ request' = Ends(request, "failed")
  /\ UNCHANGED <<versions, page, staged, requests, rivals>>

Expected(r) == r.expect \in {0, Live}

ByOperator(r) ==
  [snapshot |-> r.snapshot, by |-> r.id, answered |-> TRUE,
   from |-> r.from, own |-> r.own, excuse |-> r.excuse]

Publishing == request.step \in {"publish", "replay"}

\* publishExpecting: the version lands, or the snapshot is invalid, or ...
Publish ==
  /\ Publishing /\ Expected(request)
  /\ IF ValidSnapshot(request.snapshot)
     THEN /\ versions' = Append(versions, ByOperator(request))
          /\ request' = Ends([request EXCEPT
                                !.pending = IF request.kind = "pending" THEN None
                                            ELSE request.pending], "published")
          /\ staged' = IF request.kind = "pending" THEN NoChanges ELSE staged
     ELSE request' = Ends(request, "refused") /\ UNCHANGED <<versions, staged>>
  /\ UNCHANGED <<page, requests, rivals, faults>>

ConflictedSinceLive(r) ==
  IF r.kind = "edit" /\ r.step = "publish" THEN [r EXCEPT !.step = "latest"]
  ELSE Ends([r EXCEPT !.since = Live], IF r.expect = 0 THEN "failed" ELSE "conflict")

\* ... someone else was first, which is noticed before the snapshot is checked.
\* An edit is then tried once more.
Conflicted(r) ==
  IF r.kind = "edit" /\ r.step = "publish" THEN [r EXCEPT !.step = "latest"]
  ELSE Ends(r, IF r.expect = 0 THEN "failed" ELSE "conflict")

Conflict ==
  /\ Publishing /\ ~Expected(request)
  /\ request' = Conflicted(request)
  /\ UNCHANGED <<versions, page, staged, requests, rivals, faults>>

\* The publish fails; or it lands, and no answer comes, or the one to the repeated
\* write of the pointer, whose precondition does not hold any more.
PublishFails ==
  /\ Publishing /\ Fails
  /\ \/ request' = Ends(request, "failed") /\ UNCHANGED versions
     \/ /\ ValidSnapshot(request.snapshot) /\ Expected(request)
        /\ versions' = Append(versions, [ByOperator(request) EXCEPT !.answered = FALSE])
        /\ request' \in {Conflicted(request), Ends(request, "failed")}
  /\ UNCHANGED <<page, staged, requests, rivals>>

\* replayOnLatest: the edit is applied to the live version if nothing it touches
\* has changed, and published once more.
ReplayOnLatest ==
  /\ request.step = "latest"
  /\ LET latest   == versions[Live].snapshot
         replayed == ApplyFlagEdit(latest, request.edit)
     IN request' =
          IF ~CanReplayEdit(versions[request.since].snapshot, latest, request.edit)
          THEN Ends(request, "conflict")
          ELSE IF replayed = Refused THEN Ends(request, "refused")
          ELSE [request EXCEPT !.step = "replay", !.expect = Live,
                               !.snapshot = replayed]
  /\ UNCHANGED <<versions, page, staged, requests, rivals, faults>>

ReadLatestFails ==
  /\ request.step = "latest" /\ Fails
  /\ request' = Ends(request, "conflict")
  /\ UNCHANGED <<versions, page, staged, requests, rivals>>

\* The page that answers a request.  A pasted draft comes back when it failed.
Answer(shown, drifted) ==
  LET conflict == request.outcome = "conflict" /\ request.kind # "pending"
      failed   == request.outcome \in {"conflict", "failed", "refused"}
  IN [shown    |-> shown,
      pending  |-> request.pending,
      drifted  |-> drifted,
      draft    |-> IF request.kind = "paste" /\ failed
                   THEN [request.draft EXCEPT !.seen = IF conflict THEN shown ELSE @]
                   ELSE None,
      since    |-> IF conflict THEN request.since ELSE 0,
      keyed    |-> conflict /\ request.kind = "edit",
      latest   |-> shown,
      reviewed |-> 0,
      outcome  |-> request.outcome,
      request  |-> request.id]

\* browseEnvironment reads the pointer; a change set makes the server read it
\* again, for whether the environment has drifted away from it.
Browse ==
  /\ request.step = "browse"
  /\ IF request.pending = None
     THEN page' = Answer(Live, FALSE) /\ request' = NoRequest
     ELSE request' = [request EXCEPT !.step = "drift", !.expect = Live]
          /\ UNCHANGED page
  /\ UNCHANGED <<versions, staged, requests, rivals, faults>>

DetectVersionDrift ==
  /\ request.step = "drift"
  /\ page' = Answer(request.expect, request.pending.baseVersion # Live)
  /\ request' = NoRequest
  /\ UNCHANGED <<versions, staged, requests, rivals, faults>>

\* Where the segments are listed, before a form is acted on and for the page, and
\* where the page reads the snapshots it shows, a read that fails is caught by
\* dispatch only: an error page, whatever the request has done.
ReadsForPage ==
  \/ request.step \in {"stage", "browse", "drift"}
  \/ request.step = "publish" /\ request.kind = "edit"

AnswerFails ==
  /\ ReadsForPage /\ Fails
  /\ page' = ErrorPage(request.id)
  /\ request' = NoRequest
  /\ staged' = NoChanges
  /\ UNCHANGED <<versions, requests, rivals>>

-----------------------------------------------------------------------------
(* The page by itself, and the others. *)

OnPage == Idle /\ UNCHANGED <<versions, request, requests, rivals, faults>>

\* The page asks for the current version now and then.
Poll ==
  /\ OnPage
  /\ page.shown > 0
  /\ Live \notin {page.shown, page.latest}
  /\ page' = [page EXCEPT !.latest = Live]
  /\ UNCHANGED staged

\* Loading the latest version, from the review of what changed, is a plain link;
\* after an error page the environment is opened anew.
BannerShown == page.latest # page.shown \/ page.since > 0

LoadLatest ==
  /\ OnPage
  /\ BannerShown \/ ~HasForms
  /\ page' = FreshPage(Live)
  /\ staged' = NoChanges

\* The merge of a rejected draft, offered while the page shows the latest version.
IsDraftMerge == page.since > 0 /\ ~page.keyed /\ page.latest = page.shown

OpenMerge ==
  /\ OnPage
  /\ IsDraftMerge
  /\ page.reviewed # Live
  /\ page' = [page EXCEPT !.reviewed = Live]
  /\ UNCHANGED staged

\* The draft, lined up with the version it was rejected against and the live one.
Merged(side) ==
  LET base   == versions[page.since].snapshot
      theirs == versions[Live].snapshot
  IN MergedDraft(base, page.draft.text, theirs,
                 Chosen(base.features, page.draft.text.features,
                        theirs.features, side))

\* The flags that both sides changed and that are shown and chosen as a whole.
ChosenWhole(base, mine, theirs) ==
  {<<k, "flag">> : k \in
     {j \in DOMAIN base \union DOMAIN mine \union DOMAIN theirs :
        LET Of(features) == Field(features, j) IN
        /\ StatusOf(Of(base), Of(mine), Of(theirs)) = "conflict"
        /\ ~ByField(Of(base), Of(mine), Of(theirs))}}

\* Whoever takes the own side of such a flag means all of it.
OwnMerged(own, base, mine, theirs, side) ==
  own \union (IF side = "mine" THEN ChosenWhole(base, mine, theirs) ELSE {})

OwnAfter(side) ==
  OwnMerged(page.draft.own, Features(page.since), page.draft.text.features,
            Features(Live), side)

\* The choices fit the version that was reviewed, or are turned down.
ApplyMerge ==
  /\ OnPage
  /\ page.reviewed > 0
  /\ IF page.reviewed # Live
     THEN page' = [page EXCEPT !.reviewed = 0]
     ELSE \E side \in {"mine", "theirs"} :
            page' = [page EXCEPT !.reviewed = 0,
                       !.draft = [page.draft EXCEPT
                         !.text = Merged(side), !.from = Live, !.seen = Live,
                         !.own = OwnAfter(side),
                         !.mixed = page.draft.mixed \/ page.draft.from # page.since]]
  /\ UNCHANGED staged

\* Someone else publishes: an edit of the live version, or an older version.
RivalPublishes ==
  /\ rivals < MaxRivals
  /\ rivals' = rivals + 1
  /\ \E snapshot \in
       ({ApplyFlagEdit(IF Live = 0 THEN Prefill ELSE versions[Live].snapshot, e) :
           e \in RivalEdits} \ {Refused})
       \union {versions[v].snapshot : v \in DOMAIN versions} :
         /\ Live > 0 => snapshot # versions[Live].snapshot
         /\ versions' = Append(versions, Version(snapshot, 0))
  /\ UNCHANGED <<page, request, staged, requests, faults>>

Next ==
  \/ View \/ SaveFlag \/ SubmitEdit \/ Update \/ PublishAnyway \/ Discard
  \/ Paste \/ Rollback
  \/ Stage \/ StageFails
  \/ Publish \/ Conflict \/ PublishFails \/ ReplayOnLatest \/ ReadLatestFails
  \/ Browse \/ DetectVersionDrift \/ AnswerFails
  \/ Poll \/ LoadLatest \/ OpenMerge \/ ApplyMerge
  \/ RivalPublishes

Spec == Init /\ [][Next]_vars

-----------------------------------------------------------------------------
(* Properties. *)

\* The shape of the state: a page shows a version there is, and a change set
\* begins at one and is a valid snapshot (stageFlagEdit validates every edit).
TypeOK ==
  /\ page.shown \in 0..Live /\ page.latest \in 0..Live
  /\ page.since \in 0..Live /\ page.reviewed \in 0..Live
  /\ page.drifted \in BOOLEAN /\ page.keyed \in BOOLEAN
  /\ request.step \in {"none", "stage", "publish", "latest", "replay", "browse",
                       "drift"}
  /\ \A pending \in {page.pending} \union (IF Idle THEN {} ELSE {request.pending}) :
       pending # None => /\ pending.baseVersion \in 1..Live
                         /\ ValidSnapshot(pending.snapshot)
  /\ \A v \in DOMAIN versions : ValidSnapshot(versions[v].snapshot)

\* What a version says of a flag, or of one field of it.
Says(v, p) ==
  IF p[2] = "flag" \/ p[1] \notin DOMAIN Features(v)
  THEN Field(Features(v), p[1]) ELSE Field(Features(v)[p[1]], p[2])

\* Two pairs name the same flag or field, or one is about the whole flag.
SamePart(p, q) == p[1] = q[1] /\ (p[2] = q[2] \/ "flag" \in {p[2], q[2]})

\* Features published on version v change nothing the operator did not mean to
\* change, and nothing that has become different since the version worked from.
OnlyOwn(v, features, own, from) ==
  \A p \in DiffFlags(Features(v), features) :
    /\ \E q \in own : SamePart(p, q)
    /\ Says(v, p) = Says(from, p)

ChangesOnlyOwn(v) == OnlyOwn(v - 1, Features(v), versions[v].own, versions[v].from)

ByThem(v) == versions[v].by # 0

\* Whatever the others publish, and whenever: a version of the operator changes
\* what the operator changed, and only where nobody else did in between.  This
\* is what the base version, the replay and the merge are for.  Not so when the
\* operator asks for it ("Publish anyway", a restored version, a draft published
\* again after a conflict was shown), and in the ways the code leaves open: a
\* Save from a page that does not show what it is staged on ("mixed"), a draft
\* handed back on a newer page by a publish that failed otherwise ("returned"),
\* a merge from before an earlier merge ("mixed"), a first version ("baseless").
NoLostUpdate ==
  \A v \in 2..Live :
    ByThem(v) /\ versions[v].excuse = {} => ChangesOnlyOwn(v)

\* publishExpecting says it "Publishes only if the Environment is still at
\* `baseVersion`, so a change made on a stale page can't silently overwrite
\* someone else's": without the ways the code leaves open, it does not hold.
OnlyOwnChanges ==
  \A v \in 2..Live :
    ByThem(v) /\ versions[v].excuse \intersect {"forced", "told", "rollback"} = {}
    => ChangesOnlyOwn(v)

\* What was staged is in the change set that the next form will carry, through
\* refused and failed Saves, failed publishes, merges and the other forms of the
\* page, whoever publishes in between.  A published or discarded change set goes;
\* and so does that of a page the operator is taken away from, by an error page, by
\* a link (to the latest version, to the history) or by the Restore form, although
\* http-server.ts says that only a publish or Discard clears it.  A Save that
\* re-sent what the page showed of a flag may have undone what was staged of it
\* ("mixed").
DraftSurvives ==
  staged.wants # {} =>
    /\ Carried # None
    /\ ~staged.mixed =>
         \A w \in staged.wants :
           Field(Carried.snapshot.features[w[1]], w[2]) = w[3]

\* A request publishes once at most, the replay of its edit included, unless the
\* first answer was lost and someone undid it before the replay.  The page says
\* "published" only of a request that did; and of one that did and knows it, the
\* answer says so or is an error page.  A conflict is reviewed from a version
\* that is not the latest any more.
ReportsAreTrue ==
  LET mine == {v \in 1..Live : ByThem(v) /\ versions[v].by = page.request} IN
  /\ \A v \in 1..Live : \A w \in v + 1..Live :
       ByThem(v) /\ versions[v].by = versions[w].by =>
         ~versions[v].answered /\ \E u \in v + 1..w - 1 : ~ByThem(u)
  /\ LET knows == \E v \in mine : versions[v].answered IN
     /\ page.outcome = "published" => knows
     /\ knows => page.outcome \in {"published", "error"}
  /\ page.since > 0 => page.since < page.shown

-----------------------------------------------------------------------------
(* The inductive invariant. *)

IsPending(pending) ==
  /\ pending = [baseVersion |-> pending.baseVersion, snapshot |-> pending.snapshot]
  /\ pending.baseVersion \in 1..Live
  /\ Parsed(pending.snapshot)

IsDraft(draft) ==
  /\ DOMAIN draft = {"text", "from", "seen", "mixed", "own"} /\ IsObject(draft)
  /\ Shaped(draft.text)

VersionsOK ==
  /\ IsArray(versions)
  /\ requests \in Nat
  /\ \A v \in 1..Live : /\ Parsed(versions[v].snapshot)
                        /\ versions[v].by \in 0..requests

PageOK ==
  /\ DOMAIN page = {"shown", "pending", "drifted", "draft", "since", "keyed",
                    "latest", "reviewed", "outcome", "request"}
  /\ IsObject(page)
  /\ {page.shown, page.latest, page.since, page.reviewed} \subseteq 0..Live
  /\ {page.drifted, page.keyed} \subseteq BOOLEAN
  /\ page.request \in 0..requests
  /\ page.pending = None \/ IsPending(page.pending)
  /\ page.draft = None \/ IsDraft(page.draft)
  /\ page.since > 0 => page.since < page.shown /\ (page.keyed \/ page.draft # None)
  /\ page.reviewed > 0 => page.since > 0 /\ page.draft # None

\* The edits that are published at once.
IsImmediate(edit) == IsEdit(edit) /\ edit.kind \in {"create", "delete"}

ShowsEdit(features, edit) ==
  edit.key \in DOMAIN features <=> edit.kind = "create"

RequestFields ==
  {"kind", "step", "id", "pending", "expect", "snapshot", "edit", "draft", "since",
   "from", "own", "excuse", "outcome"}

\* A Save sends the form of a flag that the page shows, with the page's change set.
FormSent ==
  /\ request.kind = "save" /\ page.shown > 0 /\ request.pending = page.pending
  /\ request.edit.key \in DOMAIN Features(page.shown)
  /\ request.edit.form \in FormsFor(Features(page.shown)[request.edit.key])

RequestOK ==
  Idle \/
    /\ DOMAIN request = RequestFields /\ IsObject(request)
    /\ request.step \in {"stage", "publish", "latest", "replay", "browse", "drift"}
    /\ request.id = requests /\ page.request < request.id
    /\ {request.expect, request.since} \subseteq 0..Live
    /\ request.pending = None \/ IsPending(request.pending)
    /\ request.kind = "paste" => IsDraft(request.draft)
    /\ request.step = "stage" => FormSent
    /\ Publishing => Shaped(request.snapshot)
    /\ request.step = "publish" =>
         /\ request.expect = 0 \/ request.expect = request.since
         /\ request.kind \in {"edit", "pending", "paste", "rollback"}
         /\ request.kind = "rollback" => request.expect = 0
         /\ request.kind = "edit" =>
              /\ IsImmediate(request.edit) /\ request.expect > 0
              /\ ShowsEdit(request.snapshot.features, request.edit)
    /\ request.step \in {"latest", "replay"} =>
         /\ request.kind = "edit" /\ IsImmediate(request.edit)
         /\ request.since \in 1..Live - 1
    /\ request.step \in {"browse", "drift"} /\ request.outcome = "conflict" =>
         /\ request.kind \in {"edit", "pending", "paste"}
         /\ 0 < request.since /\ request.since < Live
    /\ request.step = "drift" =>
         /\ request.expect > 0 /\ request.pending # None
         /\ request.outcome = "conflict" => request.since < request.expect

\* The versions that the request being served has published.
Landed == {v \in 1..Live : ByThem(v) /\ versions[v].by = request.id}

LandedOK ==
  ~Idle =>
    /\ request.step \in {"stage", "publish"} => Landed = {}
    /\ request.step \in {"latest", "replay"} =>
         \A v \in Landed :
           /\ ~versions[v].answered /\ ShowsEdit(Features(v), request.edit)
           /\ \A u \in v + 1..Live : ~ByThem(u)
    /\ request.step = "replay" => \A v \in Landed : v < Live
    /\ request.step \in {"browse", "drift"} =>
         (request.outcome = "published" <=> \E v \in Landed : versions[v].answered)

WantsOK ==
  \A w \in staged.wants : /\ w[2] \in {"enabled", "default"}
                          /\ w[1] \in DOMAIN Carried.snapshot.features

IInv ==
  VersionsOK /\ PageOK /\ RequestOK /\ LandedOK /\ WantsOK
    /\ ReportsAreTrue /\ DraftSurvives

\* What the operator meant to change covers what is different: part by part, or
\* the flag as a whole.
Covers(own, different) ==
  \A p \in different : p \in own \/ <<p[1], "flag">> \in own

\* The staged change set differs from its base where the operator changed a form.
StagedIsOwn ==
  Carried # None /\ ~staged.mixed =>
    Covers(staged.own,
           DiffFlags(Features(Carried.baseVersion), Carried.snapshot.features))

\* A draft differs from the version it is lined up with where the operator typed,
\* or took the own side of a flag.
DraftIsOwn(draft) ==
  /\ {draft.from, draft.seen} \subseteq 0..Live
  /\ draft.from > 0 /\ ~draft.mixed =>
       Covers(draft.own, Changed(Features(draft.from), draft.text.features))

DraftsAreOwn ==
  /\ page.draft # None => DraftIsOwn(page.draft)
  /\ ~Idle /\ request.kind = "paste" => DraftIsOwn(request.draft)

\* An edit is replayed from the version of the form it was submitted from.
EditIsOwn ==
  request.step \in {"publish", "latest"} /\ request.kind = "edit" =>
    /\ request.from = request.since /\ request.from > 0
    /\ request.own = {<<request.edit.key, "flag">>}

\* A publish that is due changes only what is the operator's, if it lands.
PublishIsOwn ==
  Publishing /\ request.excuse = {} =>
    /\ request.from \in 1..Live /\ request.expect > 0
    /\ request.expect = Live =>
         OnlyOwn(Live, request.snapshot.features, request.own, request.from)

\* A version was worked out from an earlier one.
FromEarlier ==
  \A v \in 2..Live :
    ByThem(v) /\ versions[v].excuse = {} => versions[v].from \in 1..v - 1

OwnInv ==
  StagedIsOwn /\ DraftsAreOwn /\ EditIsOwn /\ PublishIsOwn /\ FromEarlier
    /\ NoLostUpdate
=============================================================================
