-------------------------- MODULE NotificationQueue --------------------------
(***************************************************************************)
(* Change notifications on their way to a client: the publisher's send to  *)
(* SNS, the SQS queue with its redeliveries, the consumer loop of          *)
(* createSqsNotificationQueue (packages/aws), and the S3 snapshot source:  *)
(* its jobs, pushes and poll ticks, which run one at a time, and the load()*)
(* of each refresh, which runs beside them and shares `loaded` with them.  *)
(*                                                                         *)
(* SQS hands out any message that was not deleted, in any order and any    *)
(* number of times.  The GET of a pointer is two steps, S3's reading of it *)
(* and the source's acting on the answer.  Segments are left out; they are *)
(* in SnapshotDistribution.                                                *)
(***************************************************************************)
EXTENDS FlagClient, Sequences

CONSTANTS
  Ids,            \* the messages there may ever be
  MaxPublishes,   \* bound: versions published
  MaxFaults       \* bound: requests that fail

ASSUME QueueAssumption == MaxPublishes \in Nat \ {0} /\ MaxFaults \in Nat

VARIABLES
  live,           \* the version of the bucket's pointer
  message,        \* each message: its body, and where it is
  consumer,       \* the consumer loop: what it waits for, what it has in hand
  job,            \* the job of the source that is running
  fetch,          \* what the load() of each refresh waits for
  loaded,         \* the version the source holds
  failures,       \* how many requests have failed
  missed          \* history variable: versions the client was given and does
                  \* not serve, or gave up for an older one a refresh brought

sourceVars == <<job, fetch, loaded, missed>>
queueVars == <<live, message, consumer, failures, sourceVars>>

\* A body is the version announced; or it is nothing to this environment: about
\* another one, or no text that parseChangeNotification can read.
Stray  == -1
Bodies == {Stray} \union 1..MaxPublishes

Message == [body : {0} \union Bodies, place : {"unsent", "queued", "deleted"}]
Consumer == [phase : {"receiving", "taking", "pushing", "deleting",
                      "sleeping", "stopped"}, batch : Seq(Ids)]

\* A version is what the pointer said: 0 before the answer, or for a 304.
Step == {"idle", "pointer", "answered", "snapshot"}
Fetch == [step : Step, version : 0..MaxPublishes]
Job == [by : {"none", "tick", "push"}, step : Step, version : 0..MaxPublishes,
        etag : 0..MaxPublishes]  \* IfNoneMatch, as the version it stands for
NoFetch == [step |-> "idle", version |-> 0]
NoJob == [by |-> "none", step |-> "idle", version |-> 0, etag |-> 0]

QueueTypeOK ==
  /\ live \in 0..MaxPublishes
  /\ message \in [Ids -> Message]
  /\ consumer \in Consumer
  /\ job \in Job
  /\ job.by = "push" => consumer.phase = "pushing"
  /\ fetch \in [Loads -> Fetch]
  /\ loaded \in 0..live
  /\ missed \subseteq Nat
  /\ failures \in 0..MaxFaults

Fails == failures < MaxFaults /\ failures' = failures + 1

Queued == {i \in Ids : message[i].place = "queued"}

-----------------------------------------------------------------------------
(* The topic and the queue. *)

Unsent == {i \in Ids : message[i].place = "unsent"}

\* A version goes live; its notification is sent, or lost.
Publish ==
  /\ live < MaxPublishes
  /\ live' = live + 1
  /\ \/ /\ Unsent # {}
        /\ message' = [message EXCEPT ![CHOOSE i \in Unsent : TRUE] =
                         [body |-> live', place |-> "queued"]]
     \/ UNCHANGED message
  /\ UNCHANGED <<consumer, failures, sourceVars, clientVars>>

-----------------------------------------------------------------------------
(* The consumer loop, `run` and `handle`. *)

At(phase) == consumer' = [consumer EXCEPT !.phase = phase]

\* Broken: the loop is not a loop.
NextMessageOnce ==
  consumer' = [phase |-> IF Len(consumer.batch) > 1 THEN "taking" ELSE "stopped",
               batch |-> IF consumer.batch = <<>> THEN <<>> ELSE Tail(consumer.batch)]

\* The loop goes on with the next message in hand, the received ones first.
NextMessage ==
  consumer' = [phase |-> IF Len(consumer.batch) > 1 THEN "taking" ELSE
                         IF closed THEN "stopped" ELSE "receiving",
               batch |-> IF consumer.batch = <<>> THEN <<>> ELSE Tail(consumer.batch)]

\* ReceiveMessage answers with message i first, and perhaps a second one.
Receive(i) ==
  /\ consumer.phase = "receiving" /\ ~closed
  /\ i \in Queued
  /\ \E batch \in {<<i>>} \union {<<i, j>> : j \in Queued \ {i}} :
       consumer' = [phase |-> "taking", batch |-> batch]
  /\ UNCHANGED <<live, message, failures, sourceVars, clientVars>>

\* It fails, and the loop sleeps before it asks again.
ReceiveFails ==
  /\ consumer.phase = "receiving" /\ ~closed
  /\ Fails
  /\ At("sleeping")
  /\ UNCHANGED <<live, message, sourceVars, clientVars>>

SleepEnds ==
  /\ consumer.phase = "sleeping"
  /\ At(IF closed THEN "stopped" ELSE "receiving")
  /\ UNCHANGED <<live, message, failures, sourceVars, clientVars>>

\* for (const message of messages) { if (stopped()) return; ... }
GoesOn == ~closed

\* handle: an unreadable message is deleted, the handler returns at once for
\* another environment, and otherwise queues a push.
Take ==
  /\ consumer.phase = "taking"
  /\ IF ~GoesOn THEN consumer' = [phase |-> "stopped", batch |-> <<>>]
     ELSE IF message[Head(consumer.batch)].body = Stray
     THEN At("deleting")
     ELSE At("pushing")
  /\ UNCHANGED <<live, message, failures, sourceVars, clientVars>>

\* DeleteMessage, of a message that may be in hand a second time.
Delete ==
  /\ consumer.phase = "deleting"
  /\ message' = [message EXCEPT ![Head(consumer.batch)].place = "deleted"]
  /\ NextMessage
  /\ UNCHANGED <<live, failures, sourceVars, clientVars>>

\* It fails: logged, and the message will come again.
DeleteFails ==
  /\ consumer.phase = "deleting"
  /\ Fails
  /\ NextMessage
  /\ UNCHANGED <<live, message, sourceVars, clientVars>>

\* The abort ends a receive in flight.
Aborted ==
  /\ consumer.phase = "receiving" /\ closed
  /\ At("stopped")
  /\ UNCHANGED <<live, message, failures, sourceVars, clientVars>>

-----------------------------------------------------------------------------
(* The source's jobs. *)

\* A job of the subscription starts when the one before it has ended, in the
\* order they were queued: a push waits for one tick at most.  A tick, unless it
\* reconciles, asks for a pointer other than the one in `loaded`.
StartJob(by) ==
  /\ job.by = "none" /\ ~closed
  /\ (by = "push") = (consumer.phase = "pushing")
  /\ \E etag \in IF by = "push" THEN {0} ELSE {0, loaded} :
       job' = [by |-> by, step |-> "pointer", version |-> 0, etag |-> etag]
  /\ UNCHANGED <<live, message, consumer, fetch, loaded, missed, failures, clientVars>>

\* Its turn comes after the end of the subscription: it resolves unrun.
PushSkipped ==
  /\ consumer.phase = "pushing" /\ job.by # "push" /\ closed
  /\ At("deleting")
  /\ UNCHANGED <<live, message, failures, sourceVars, clientVars>>

\* Broken: a failed handler is followed by the deletion all the same.
AfterPushAnyway(ok) == At("deleting")

\* The message is deleted after a push, and left in the queue after a failed one.
AfterPush(ok) == IF ok THEN At("deleting") ELSE NextMessage

\* Broken: the next job waits for ever.
JobEndsHolding(ok) ==
  /\ job' = [NoJob EXCEPT !.by = job.by]
  /\ IF job.by = "push" THEN AfterPush(ok) ELSE UNCHANGED consumer

\* A job settles, and the push's handler with it.
JobEnds(ok) ==
  /\ job' = NoJob
  /\ IF job.by = "push" THEN AfterPush(ok) ELSE UNCHANGED consumer

\* S3 reads the pointer: a 304 when its ETag is the one the job named.
JobPointer ==
  /\ job.step = "pointer" /\ live # 0
  /\ job' = [job EXCEPT !.step = "answered", !.etag = 0,
                        !.version = IF live = job.etag THEN 0 ELSE live]
  /\ UNCHANGED <<live, message, consumer, fetch, loaded, missed, failures, clientVars>>

\* deliver: there is more to do when the answer is not the version held by now.
JobFollows ==
  /\ job.step = "answered"
  /\ IF job.version \in {0, loaded} THEN JobEnds(TRUE)
     ELSE job' = [job EXCEPT !.step = "snapshot"] /\ UNCHANGED consumer
  /\ UNCHANGED <<live, message, fetch, loaded, missed, failures, clientVars>>

\* What the client was given, or had, and is newer than what it serves now.
Misses(versions) == missed' = missed \union {v \in versions : v > active'.version}

\* The snapshot is read and, unless the subscription has ended, delivered.
JobSnapshot ==
  /\ job.step = "snapshot"
  /\ loaded' = job.version
  /\ IF closed THEN UNCHANGED <<missed, clientVars>>
     ELSE /\ Delivered([version |-> job.version, segment |-> 0])
          /\ Misses({job.version})
  /\ JobEnds(TRUE)
  /\ UNCHANGED <<live, message, fetch, failures>>

\* A request fails, or finds no pointer.
Answerless(step) ==
  \/ step \in {"pointer", "snapshot"} /\ Fails
  \/ step = "pointer" /\ live = 0 /\ UNCHANGED failures

JobFails ==
  /\ Answerless(job.step)
  /\ JobEnds(FALSE)
  /\ UNCHANGED <<live, message, fetch, loaded, missed, clientVars>>

-----------------------------------------------------------------------------
(* load(), outside the queue of jobs. *)

QueueLoad(l) ==
  /\ BeginRefresh(l)
  /\ fetch' = [fetch EXCEPT ![l] = [step |-> "pointer", version |-> 0]]
  /\ UNCHANGED <<live, message, consumer, job, loaded, missed, failures>>

LoadPointer(l) ==
  /\ fetch[l].step = "pointer" /\ live # 0
  /\ fetch' = [fetch EXCEPT ![l] = [step |-> "answered", version |-> live]]
  /\ UNCHANGED <<loaded, missed, failures, clientVars>>

\* load() resolves; its ticket says whether the client takes the version.
LoadHandsOver(l, version) ==
  /\ RefreshLoaded(l, [version |-> version, segment |-> 0])
  /\ Misses({version, active.version})
  /\ fetch' = [fetch EXCEPT ![l] = NoFetch]

\* The version held by now resolves at once.
LoadFollows(l) ==
  /\ fetch[l].step = "answered"
  /\ IF fetch[l].version = loaded THEN LoadHandsOver(l, loaded)
     ELSE /\ fetch' = [fetch EXCEPT ![l].step = "snapshot"]
          /\ UNCHANGED <<missed, clientVars>>
  /\ UNCHANGED <<loaded, failures>>

\* The snapshot is read: it is the one held from now on, whatever a job has
\* loaded in the meantime.
LoadSnapshot(l) ==
  /\ fetch[l].step = "snapshot"
  /\ loaded' = fetch[l].version
  /\ LoadHandsOver(l, fetch[l].version)
  /\ UNCHANGED failures

LoadFails(l) ==
  /\ Answerless(fetch[l].step)
  /\ RefreshFailed(l)
  /\ fetch' = [fetch EXCEPT ![l] = NoFetch]
  /\ UNCHANGED <<loaded, missed>>

LoadGoesOn(l) ==
  /\ LoadPointer(l) \/ LoadFollows(l) \/ LoadSnapshot(l) \/ LoadFails(l)
  /\ UNCHANGED <<live, message, consumer, job>>

Consumes == SleepEnds \/ Take \/ Delete \/ Aborted \/ PushSkipped
JobGoesOn == JobPointer \/ JobFollows \/ JobSnapshot

QueueNext ==
  \/ Publish
  \/ \E i \in Ids : Receive(i)
  \/ ReceiveFails \/ DeleteFails \/ JobFails
  \/ StartJob("tick") \/ StartJob("push")
  \/ Consumes \/ JobGoesOn

\* The topic is shared by environments, and anybody may write to the queue:
\* it may hold messages of others before the first step.
QueueInit ==
  /\ live \in 0..1
  /\ message \in [Ids -> {[body |-> 0, place |-> "unsent"]} \union
                         [body : {Stray}, place : {"queued"}]]
  /\ consumer = [phase |-> "receiving", batch |-> <<>>]
  /\ job = NoJob
  /\ fetch = [l \in Loads |-> NoFetch]
  /\ loaded = 0 /\ failures = 0 /\ missed = {}
=============================================================================
