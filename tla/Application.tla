---------------------------- MODULE Application ----------------------------
(***************************************************************************)
(* An application: the Nest module that owns one flag client, from its     *)
(* start to its shutdown, over one of three sources, a file, a watched     *)
(* file, or S3 with a notification queue.  `kind` says which; the state of *)
(* the others rests.                                                       *)
(*                                                                         *)
(* The client the @FeatureFlag decorator uses is a variable of the Node.js *)
(* process.  A second application of the same process, as in a test suite  *)
(* or a monolith, is seen only through what it does to that variable; to   *)
(* keep the model small it only comes up beside the plain file source.     *)
(***************************************************************************)
EXTENDS FileSource, NotificationQueue

CONSTANTS
  First,          \* the refresh that createFeatureFlags starts by itself
  Kinds           \* the sources the application may have

ASSUME ApplicationAssumption ==
  First \in Loads /\ Kinds \subseteq {"file", "watch", "queue"}

VARIABLES
  kind,           \* the source: "file", "watch" or "queue"
  app,            \* the Nest module's life
  other,          \* that of the other application's
  bound,          \* activeClient of the decorator: whose client it is
  newest          \* history variable: the module initialised last

appVars == <<kind, app, other, bound, newest>>
vars == <<clientVars, fileVars, queueVars, appVars>>

Lives == {"new", "starting", "failed", "ready", "up", "down"}

TypeOK ==
  /\ ClientTypeOK /\ FileTypeOK /\ QueueTypeOK
  /\ kind \in Kinds
  /\ app \in Lives
  /\ other \in {"new", "up", "down"}
  /\ {bound, newest} \subseteq {"none", "app", "other"}

-----------------------------------------------------------------------------
(* The module's life. *)

\* The client asks its source for a snapshot.
Load(l) ==
  \/ kind # "queue" /\ FileLoad(l) /\ UNCHANGED queueVars
  \/ /\ kind = "queue" /\ QueueLoad(l)
     /\ UNCHANGED <<disk, timer, reload, loading, lastDelivered, muddled>>

\* featureFlagsProvider: createFeatureFlags subscribes and starts to load.
Start ==
  /\ app = "new"
  /\ app' = "starting"
  /\ watching' = (kind = "watch")
  /\ Load(First)
  /\ UNCHANGED <<kind, other, bound, newest>>

\* Application code calls refresh().
Refresh(l) == app = "up" /\ Load(l) /\ UNCHANGED <<watching, appVars>>

\* ready() resolves unless there is no snapshot at all.
Ready(loadedVersion) == loadedVersion # 0

\* The answer to a refresh, and readiness after the first one.
Answer(l) ==
  /\ \/ kind # "queue" /\ (LoadReads(l) \/ LoadEnds(l)) /\ UNCHANGED queueVars
     \/ kind = "queue" /\ LoadGoesOn(l) /\ UNCHANGED fileVars
  /\ app' = IF app # "starting" \/ l # First \/ ticket'[l] # 0 THEN app
            ELSE IF Ready(active'.version) THEN "ready" ELSE "failed"
  /\ UNCHANGED <<kind, other, bound, newest>>

\* close() of the client, and what it does to the source's subscription.
CloseClient == Close /\ Unsubscribe

\* A start that failed closes its client and rethrows.
StartFails ==
  /\ app = "failed"
  /\ CloseClient
  /\ UNCHANGED <<disk, reload, loading, lastDelivered, muddled, queueVars,
                 appVars>>

\* onModuleInit: bindFeatureFlagClient.
ModuleInit ==
  /\ app = "ready"
  /\ app' = "up" /\ bound' = "app" /\ newest' = "app"
  /\ UNCHANGED <<kind, other, clientVars, fileVars, queueVars>>

\* Broken: the variable is cleared whoever's client it holds.
UnbindWhoever(who) == bound' = "none"

\* unbindFeatureFlagClient.
Unbind(who) == bound' = IF bound = who THEN "none" ELSE bound

\* onApplicationShutdown, also when another module's start failed.
Shutdown ==
  /\ app \in {"ready", "up"}
  /\ app' = "down"
  /\ Unbind("app")
  /\ CloseClient
  /\ UNCHANGED <<kind, other, newest, disk, reload, loading, lastDelivered,
                 muddled, queueVars>>

\* The other application comes up, and goes.
OtherInit ==
  /\ other = "new" /\ kind = "file"
  /\ other' = "up" /\ bound' = "other" /\ newest' = "other"
  /\ UNCHANGED <<kind, app, clientVars, fileVars, queueVars>>

OtherShutdown ==
  /\ other = "up"
  /\ other' = "down"
  /\ Unbind("other")
  /\ UNCHANGED <<kind, app, newest, clientVars, fileVars, queueVars>>

-----------------------------------------------------------------------------
\* A reload takes its steps.
Reloading(r) ==
  /\ kind # "queue"
  /\ TimerFires(r) \/ ReloadReads(r) \/ ReloadEnds(r)
  /\ UNCHANGED <<queueVars, appVars>>

Disk == kind # "queue" /\ DiskChanges /\ UNCHANGED <<queueVars, appVars>>

\* What the queue and the jobs do once the subscription has started.
OnQueue(A) == kind = "queue" /\ app # "new" /\ A /\ UNCHANGED <<fileVars, appVars>>

Queue == OnQueue(QueueNext)

Init ==
  /\ ClientInit /\ FileInit /\ QueueInit
  /\ kind \in Kinds
  /\ kind # "queue" => live = 0 /\ Queued = {}
  /\ kind = "queue" => file.version = 0
  /\ app = "new" /\ other = "new" /\ bound = "none" /\ newest = "none"

Next ==
  \/ Start \/ StartFails \/ ModuleInit \/ Shutdown
  \/ OtherInit \/ OtherShutdown
  \/ \E l \in Loads : Refresh(l) \/ Answer(l)
  \/ \E r \in Reloads : Reloading(r)
  \/ Disk
  \/ Queue

Spec == Init /\ [][Next]_vars

\* Files that are read answer, timers fire, an editor at work ends its save,
\* and of SQS: a message that stays in the queue is handed out sometime.
FairSpec ==
  /\ Spec
  /\ WF_vars(Disk /\ EditorEnds)
  /\ \A l \in Loads : WF_vars(Answer(l))
  /\ \A r \in Reloads : WF_vars(Reloading(r))
  /\ WF_vars(StartFails)
  /\ WF_vars(OnQueue(Consumes))
  /\ WF_vars(OnQueue(JobGoesOn))
  /\ WF_vars(OnQueue(StartJob("push")))
  /\ \A i \in Ids : SF_vars(OnQueue(Receive(i)))

-----------------------------------------------------------------------------
(* Properties. *)

Up(who) == IF who = "app" THEN app = "up" ELSE other = "up"

\* The module initialised last, for as long as that one is up.
BoundIsNewest ==
  bound = IF newest # "none" /\ Up(newest) THEN newest ELSE "none"

\* @FeatureFlag methods use the client of the module initialised last for as
\* long as that one is up, whatever order the applications go down in, and
\* afterwards none at all; that client has a snapshot and is open.  A start that
\* failed is never bound, and close() never leaves a client bound.
BoundIsServing ==
  BoundIsNewest /\ (bound = "app" => active.version # 0 /\ ~closed)

\* The client serves that version or a newer one, or was given one in vain: it
\* rejected it, dropped it for its ticket, or a slower refresh took it back.
Given(version) == active.version >= version \/ \E v \in missed : v >= version

\* An announcement leaves the queue only when the client was given the version
\* announced or a newer one, or the subscription has ended: a push that fails, a
\* failed delete, a redelivery out of order, a job that finds its version loaded
\* by load() and a load() that puts back an older one lose no announcement.
DeletedMeansGiven ==
  \A i \in Ids :
    (message[i].place = "deleted" /\ message[i].body # Stray)
      => Given(message[i].body) \/ closed

Busy == {r \in Reloads : reload[r].phase # "idle"}

WindsDown ==
  closed =>
    /\ {r \in Reloads : reload'[r].phase # "idle"} \subseteq Busy
    /\ active' # active =>
         \/ \E r \in Busy : reload'[r].phase = "idle"
         \/ \E l \in Loads : ticket[l] # 0 /\ ticket'[l] = 0
    /\ consumer.phase = "taking" => consumer'.phase \in {"taking", "stopped"}
    /\ job.by = "none" => job'.by = "none"

\* After close() nothing starts any more, no reload, no job, no message: what
\* was in flight ends, and a reload or a refresh among it may still deliver.
ClosedWindsDown == [][WindsDown]_vars

\* The file is only ever incomplete while an editor writes it, or when that
\* editor died: a pull replaces all of it or nothing, also when it dies.
PullIsAtomic ==
  [][file'.whole # file.whole /\ ~file'.whole => saving' # 0]_vars

\* What a save leaves in the file is what the client serves in the end, unless two
\* reloads overlapped, which may deliver in the wrong order (reload() is not
\* serialized), or a refresh brought another text than the last one delivered:
\* back at that text, the file counts as unchanged (`lastDelivered`).
SettlesOnFile ==
  <>[](kind = "watch" =>
         \/ app = "new" \/ closed \/ muddled \/ saves = 0
         \/ ~file.whole \/ file.version \in Rejected
         \/ active.version = file.version)

\* Every message in the queue of a running application is handled and deleted in
\* the end, also when receiving it, the push it starts or its deletion fails: it
\* comes again.
QueueDrains ==
  \A i \in Ids : message[i].place = "queued"
    ~> message[i].place = "deleted" \/ closed \/ app = "new"

-----------------------------------------------------------------------------
(* The inductive invariant behind the safety properties. *)

\* What is read from a whole text is a version.
FileOK ==
  /\ file.whole => file.version # 0
  /\ \A r \in Reloads : reload[r].phase = "segments" => reload[r].version # 0
  /\ \A l \in Loads : loading[l].phase = "segments" => loading[l].version # 0

InHand == {consumer.batch[k] : k \in DOMAIN consumer.batch}

\* The loop works on messages that were sent, and nobody is ahead of the bucket.
QueueOK ==
  /\ consumer.phase \in {"taking", "pushing", "deleting"} => consumer.batch # <<>>
  /\ \A i \in InHand : message[i].place # "unsent"
  /\ \A i \in Ids : message[i].body <= live
  /\ job.version <= live /\ \A l \in Loads : fetch[l].version <= live
  /\ job.by = "none" <=> job.step = "idle"
  /\ job.step = "snapshot" => job.version # 0
  /\ \A l \in Loads :
       fetch[l].step \in {"answered", "snapshot"} => fetch[l].version # 0

\* Messages that were handled: deleted, or about to be.
Handled ==
  {i \in Ids : \/ message[i].place = "deleted"
               \/ consumer.phase = "deleting" /\ i = Head(consumer.batch)}

Announces(i) == message[i].body # Stray

\* The client was given what the source holds and what was announced by
\* messages that were handled; a running job does not take it back behind those;
\* and a push that has its answer is not about to bring less than its message
\* announced.
HandledOK ==
  closed \/
  /\ Given(loaded)
  /\ \A i \in Handled : Announces(i) =>
       /\ Given(message[i].body)
       /\ job.version # 0 => job.version >= message[i].body
  /\ (job.by = "push" /\ job.step \in {"answered", "snapshot"}) =>
       /\ job.version >= message[Head(consumer.batch)].body
       /\ job.version # 0
  /\ job.by = "push" => job.etag = 0

\* Without a queue nothing happens to it.
QueueOff == kind # "queue" => loaded = 0 /\ Handled = {} /\ job = NoJob

\* Only a module that is down or failed has closed its client; one that is
\* ready has a snapshot.
LifeOK ==
  /\ app \in {"new", "starting", "ready", "up"} => ~closed
  /\ app \in {"ready", "up"} => active.version # 0
  /\ bound = "app" => app = "up"
  /\ closed => ~watching /\ ~timer

IInv ==
  TypeOK /\ FileOK /\ QueueOK /\ HandledOK /\ QueueOff /\ LifeOK /\ BoundIsNewest
=============================================================================
