------------------------ MODULE SnapshotDistribution ------------------------
(***************************************************************************)
(* createS3SnapshotSource (packages/aws) feeding one flag client: how a    *)
(* published version, or a new membership of a segment, gets from the      *)
(* bucket to the client.                                                   *)
(*                                                                         *)
(* A flow is one run of load() or one job of the subscription's queue.     *)
(* The jobs, poll ticks and pushes, run one at a time (`serially`);        *)
(* load() does not go through that queue, yet shares `loaded` and the      *)
(* segment map with it.  Every GET of a pointer is two steps, the moment   *)
(* S3 reads it and the moment the answer is acted on, so answers are acted *)
(* on out of order; the objects pointers name never change, so their GET   *)
(* is one step.                                                            *)
(*                                                                         *)
(* Abstractions.  The ETag of a pointer is its version.  Waiting in the    *)
(* queue is not told from starting later: at most one push and one tick    *)
(* wait, and a job reads nothing before it starts.  A change notification  *)
(* is only a hint: a push may come at any time, or never (SQS duplicates,  *)
(* delays and loses messages).  The bucket only moves up, as               *)
(* PublishedHistory says of the publishers.                                *)
(***************************************************************************)
EXTENDS FlagClient

CONSTANTS
  Job,            \* the flow of the subscription's queue
  MaxVersion,     \* bound: published versions
  MaxSegment,     \* bound: uploads of the segment
  MaxFaults       \* bound: failed requests

ASSUME SourceAssumption ==
  /\ Job \notin Loads
  /\ MaxVersion \in Nat
  /\ MaxSegment \in Nat
  /\ MaxFaults \in Nat

VARIABLES
  pointer,        \* current.json in the bucket, 0 when absent
  segmentPointer, \* the segment's pointer in the bucket, 0 when absent
  loaded,         \* `loaded`: the payload last built, version 0 for none
  cache,          \* the `segments` map: version of the segment, 0 for none
  flow,           \* what each flow waits for
  faults,         \* how many requests have failed
  delivered,      \* history variable: version of the last delivery
  overtaken       \* history variable: a load was dropped by its ticket

sourceVars == <<loaded, cache, flow>>
bucket     == <<pointer, segmentPointer>>
vars       == <<clientVars, sourceVars, bucket, faults, delivered, overtaken>>

Flows == Loads \union {Job}
Step  == {"idle", "pointer", "answered", "snapshot", "segment", "checked"}

\* The fields of a flow outlive the awaits between its steps: what the code
\* holds in local variables.
FlowState ==
  [step        : Step,
   conditional : BOOLEAN,  \* segment pointers are read with IfNoneMatch
   etag        : Nat,      \* IfNoneMatch of the GET under way, 0: none
   version     : Nat,      \* the version loaded; 0 once answered 304
   whole       : BOOLEAN,  \* loadVersion, not only a check of the segment
   cached      : Nat,      \* segments.get(key) before the GET
   seen        : Nat]      \* the segment version read, 0: 304 or failed

TypeOK ==
  /\ ClientTypeOK
  /\ pointer \in 0..MaxVersion
  /\ segmentPointer \in 0..MaxSegment
  /\ loaded \in Payload
  /\ cache \in Nat
  /\ flow \in [Flows -> FlowState]
  /\ faults \in 0..MaxFaults
  /\ delivered \in Nat
  /\ overtaken \in BOOLEAN
  /\ \A l \in Loads : ticket[l] # 0 <=> flow[l].step # "idle"
  /\ \A f \in Flows : flow[f].step = "snapshot" => flow[f].version # 0

Idle == [step |-> "idle", conditional |-> FALSE, etag |-> 0, version |-> 0,
         whole |-> FALSE, cached |-> 0, seen |-> 0]

Rest(f) == flow' = [flow EXCEPT ![f] = Idle]

-----------------------------------------------------------------------------
(* The bucket. *)

\* A snapshot goes live.
Publish ==
  /\ \E v \in (pointer + 1)..MaxVersion : pointer' = v
  /\ UNCHANGED <<clientVars, sourceVars, segmentPointer, faults, delivered,
                 overtaken>>

\* The segment gets new members.
UploadSegment ==
  /\ segmentPointer < MaxSegment
  /\ segmentPointer' = segmentPointer + 1
  /\ UNCHANGED <<clientVars, sourceVars, pointer, faults, delivered, overtaken>>

-----------------------------------------------------------------------------
(* A flow starts. *)

AskPointer(f, conditional, etag) ==
  /\ flow[f].step = "idle"
  /\ flow' = [flow EXCEPT ![f] = [Idle EXCEPT !.step = "pointer",
                                              !.conditional = conditional,
                                              !.etag = etag]]
  /\ UNCHANGED <<loaded, cache, bucket, faults, delivered, overtaken>>

\* The client refreshes: load().
Refresh(l) == BeginRefresh(l) /\ AskPointer(l, TRUE, 0)

\* A poll tick; a reconciling one reads everything without condition.
Tick ==
  /\ ~closed
  /\ \/ AskPointer(Job, TRUE, loaded.version)
     \/ AskPointer(Job, FALSE, 0)
  /\ UNCHANGED clientVars

\* A change notification for this environment.  It reads like a reconciling
\* tick does.
Push == ~closed /\ AskPointer(Job, FALSE, 0) /\ UNCHANGED clientVars

-----------------------------------------------------------------------------
(* A flow ends. *)

\* Broken: a stopped subscription still delivers.
ListeningAlways == TRUE

\* emit delivers only while the subscription is not stopped.
Listening == ~closed

\* The payload goes to the client: a load resolves with it, a job emits it.
HandOver(f, payload) ==
  \/ /\ f = Job /\ Listening
     /\ Delivered(payload)
     /\ delivered' = payload.version
     /\ UNCHANGED overtaken
  \/ /\ f = Job /\ ~Listening
     /\ UNCHANGED <<clientVars, delivered, overtaken>>
  \/ /\ f # Job
     /\ RefreshLoaded(f, payload)
     /\ overtaken' = (overtaken \/ ~Newest(ticket[f]))
     /\ UNCHANGED delivered

\* A load rejects; a job is logged, or its message is left for redelivery.
GivesUp(f) ==
  /\ Rest(f)
  /\ IF f = Job THEN UNCHANGED clientVars ELSE RefreshFailed(f)
  /\ UNCHANGED <<loaded, cache, bucket, delivered, overtaken>>

\* The GET of current.json or of the snapshot fails.
RequestFails(f) ==
  /\ flow[f].step \in {"pointer", "snapshot"}
  /\ faults < MaxFaults
  /\ faults' = faults + 1
  /\ GivesUp(f)

\* There is no current.json yet.
PointerMissing(f) ==
  /\ flow[f].step = "pointer" /\ pointer = 0
  /\ GivesUp(f)
  /\ UNCHANGED faults

-----------------------------------------------------------------------------
(* The snapshot. *)

\* S3 reads current.json: 304 when its ETag is the one the flow named.
PointerRead(f) ==
  /\ flow[f].step = "pointer" /\ pointer # 0
  /\ flow' = [flow EXCEPT ![f].step = "answered",
                          ![f].version = IF pointer = flow[f].etag
                                         THEN 0 ELSE pointer]
  /\ UNCHANGED <<clientVars, loaded, cache, bucket, faults, delivered, overtaken>>

\* refreshSegment starts for the segment of `version`.
AskSegment(f, version, whole) ==
  flow' = [flow EXCEPT ![f].step = "segment",
                       ![f].version = version,
                       ![f].whole = whole,
                       ![f].cached = cache,
                       ![f].etag = IF flow[f].conditional THEN cache ELSE 0]

\* Broken: a version already loaded is not worth a look at its segments.
ChecksSegmentNever == FALSE

\* deliver: does `loaded` reference segments.
ChecksSegment == loaded.version \in Referencing

\* Broken: a 304 is not told from a pointer that names another version.
DiffersOr304(version) == version # loaded.version

\* deliver: the pointer was read and names a version not loaded.
Differs(version) == version \notin {0, loaded.version}

\* deliver acts on the answer: a version that differs from the loaded one is
\* loaded, otherwise only its segment is checked.
JobFollows ==
  LET version == flow[Job].version IN
  /\ flow[Job].step = "answered"
  /\ \/ /\ Differs(version)
        /\ flow' = [flow EXCEPT ![Job].step = "snapshot", ![Job].whole = TRUE]
     \/ /\ ~Differs(version) /\ ChecksSegment
        /\ AskSegment(Job, loaded.version, FALSE)
     \/ /\ ~Differs(version) /\ ~ChecksSegment
        /\ Rest(Job)
  /\ UNCHANGED <<clientVars, loaded, cache, bucket, faults, delivered, overtaken>>

\* load acts on the answer: the loaded version resolves at once.
LoadFollows(l) ==
  /\ flow[l].step = "answered"
  /\ \/ /\ flow[l].version = loaded.version
        /\ Rest(l)
        /\ HandOver(l, loaded)
     \/ /\ flow[l].version # loaded.version
        /\ flow' = [flow EXCEPT ![l].step = "snapshot", ![l].whole = TRUE]
        /\ UNCHANGED <<clientVars, delivered, overtaken>>
  /\ UNCHANGED <<loaded, cache, bucket, faults>>

\* The snapshot arrives; one that references no segment empties the segment
\* map and is complete.
SnapshotRead(f) ==
  LET version == flow[f].version IN
  /\ flow[f].step = "snapshot"
  /\ \/ /\ version \in Referencing
        /\ AskSegment(f, version, TRUE)
        /\ UNCHANGED <<clientVars, loaded, cache, delivered, overtaken>>
     \/ /\ version \notin Referencing
        /\ cache' = 0
        /\ loaded' = [version |-> version, segment |-> 0]
        /\ Rest(f)
        /\ HandOver(f, loaded')
  /\ UNCHANGED <<bucket, faults>>

-----------------------------------------------------------------------------
(* The segment. *)

\* S3 reads the segment's pointer: absent, unchanged (304) or a version.
SegmentRead(f) ==
  /\ flow[f].step = "segment"
  /\ flow' = [flow EXCEPT ![f].step = "checked",
                          ![f].seen = IF segmentPointer = flow[f].etag
                                      THEN 0 ELSE segmentPointer]
  /\ UNCHANGED <<clientVars, loaded, cache, bucket, faults, delivered, overtaken>>

\* The GET of the segment's pointer or object fails: logged, and passed over.
SegmentFails(f) ==
  /\ flow[f].step = "segment"
  /\ faults < MaxFaults
  /\ faults' = faults + 1
  /\ flow' = [flow EXCEPT ![f].step = "checked", ![f].seen = 0]
  /\ UNCHANGED <<clientVars, loaded, cache, bucket, delivered, overtaken>>

\* refreshSegment's answer: the members read differ from those cached.
Changed(f) == flow[f].seen \notin {0, flow[f].cached}

\* The segment map is brought up to date, the payload is built from it and
\* becomes `loaded`; a mere check that found no change ends here.
SegmentFollows(f) ==
  /\ flow[f].step = "checked"
  /\ cache' = IF flow[f].seen = 0 THEN cache ELSE flow[f].seen
  /\ Rest(f)
  /\ \/ /\ flow[f].whole \/ Changed(f)
        /\ loaded' = [version |-> flow[f].version, segment |-> cache']
        /\ HandOver(f, loaded')
     \/ /\ ~flow[f].whole /\ ~Changed(f)
        /\ UNCHANGED <<clientVars, loaded, delivered, overtaken>>
  /\ UNCHANGED <<bucket, faults>>

Unsubscribe ==
  /\ Close
  /\ UNCHANGED <<sourceVars, bucket, faults, delivered, overtaken>>

-----------------------------------------------------------------------------
Init ==
  /\ ClientInit
  /\ pointer \in 0..MaxVersion /\ segmentPointer \in 0..MaxSegment
  /\ loaded = Nothing /\ cache = 0
  /\ flow = [f \in Flows |-> Idle]
  /\ faults = 0
  /\ delivered = 0
  /\ overtaken = FALSE

\* What a flow does by itself.
Advance(f) ==
  \/ PointerMissing(f)
  \/ PointerRead(f)
  \/ f = Job /\ JobFollows
  \/ f # Job /\ LoadFollows(f)
  \/ SnapshotRead(f)
  \/ SegmentRead(f)
  \/ SegmentFollows(f)

Next ==
  \/ Publish
  \/ UploadSegment
  \/ \E l \in Loads : Refresh(l)
  \/ Tick
  \/ Push
  \/ Unsubscribe
  \/ \E f \in Flows : Advance(f) \/ RequestFails(f) \/ SegmentFails(f)

Spec == Init /\ [][Next]_vars

(***************************************************************************)
(* Fairness.  Every request is answered or fails, and a poll tick, which   *)
(* the timer adds to the first-in first-out queue of jobs, gets its turn   *)
(* however many pushes come.  Nobody has to publish, refresh or push.      *)
(***************************************************************************)
FairSpec ==
  /\ Spec
  /\ \A f \in Flows : WF_vars(Advance(f))
  /\ SF_vars(Tick)

-----------------------------------------------------------------------------
(* Properties. *)

\* Whatever order the answers of load() and of the jobs come in, the source
\* ends up with the live snapshot, and with the live members in its segment
\* map when that snapshot references the segment.
SourceCatchesUp ==
  <>[](\/ closed \/ pointer = 0
       \/ /\ loaded.version = pointer
          /\ pointer \in Referencing => cache = segmentPointer)

\* So does the client, with the live snapshot, unless it rejects that version
\* or dropped the answer to a refresh for its ticket.
ClientCatchesUp ==
  <>[](\/ closed \/ pointer = 0 \/ pointer \in Rejected \/ overtaken
       \/ active.version = pointer)

\* change-notification.md, "The message is only a hint": the application
\* keeps polling, so a lost message only delays an update.
PollingSuffices ==
  <>[](closed \/ pointer = 0 \/ pointer \in Rejected
       \/ active.version = pointer)

NeverOlder == delivered' >= delivered

\* change-notification.md, "Version dedupe": an older snapshot is never
\* delivered after a newer one.
OlderNeverDelivered == [][NeverOlder]_vars

Keeps ==
  (/\ active.version \in Referencing /\ active.segment # 0
   /\ active'.version \in Referencing)
  => active'.segment # 0

\* A client that holds the members of a segment never loses them while its
\* snapshots reference it, not even when another flow empties the segment
\* map under a conditional read of the segment (resolveSegments).
MembersKept == [][Keeps]_vars

Quiet == closed /\ active' # active => \E l \in Loads : ticket'[l] # ticket[l]

\* After close() only a refresh changes the active snapshot, although a job
\* in flight runs to its end.
ClosedStaysPut == [][Quiet]_vars

\* A refresh, however slow, never takes a client back behind the last
\* delivery: what was delivered while it ran wins by its ticket, and what was
\* delivered before it began is not newer than what it read.
NeverBehindDelivery ==
  delivered \notin Rejected => active.version >= delivered
-----------------------------------------------------------------------------
(* The inductive invariant behind TypeOK and NeverBehindDelivery: nothing    *)
(* is newer than the pointer, and a load that can still win by its ticket    *)
(* has read the pointer no earlier than the last delivery did.               *)

Began(l) == flow[l].step \notin {"idle", "pointer"}

DInv ==
  /\ TypeOK
  /\ delivered <= pointer
  /\ loaded.version <= pointer
  /\ \A f \in Flows : flow[f].version <= pointer
  /\ \A l \in Loads : flow[l].step = "pointer" => flow[l].etag = 0
  /\ \A l \in Loads : Began(l) => flow[l].version # 0
  /\ \A l \in Loads : Began(l) /\ flow[l].step # "answered" => flow[l].whole
  /\ \A l \in Loads :
       (Began(l) /\ ticket[l] > appliedTicket /\ delivered \notin Rejected)
       => flow[l].version >= delivered
  /\ NeverBehindDelivery
=============================================================================
