------------------------- MODULE SnapshotPublisher -------------------------
(***************************************************************************)
(* createS3SnapshotPublisher (packages/aws): concurrent publishes and      *)
(* rollbacks of ONE environment, each a process of its own (a CLI run, a   *)
(* dashboard request, a script), against one S3 bucket.                    *)
(*                                                                         *)
(* Every await on S3 is a step, so any other writer can run between two of *)
(* them.  A write whose answer is lost stays on the wire: the SDK may send *)
(* it again, the caller may be told REQUEST_FAILED, and the write itself   *)
(* may reach S3 at any later time, or never.                               *)
(*                                                                         *)
(* Abstractions.  A snapshot's body is one member of Contents.  The ETag   *)
(* of the pointer is its version: the body of current.json is a function   *)
(* of the version (buildCurrentPointer) and versions are never reused.     *)
(* Version 0 stands for "no pointer" and for previousVersion null.         *)
(* LastModified is kept as an age in clock ticks that stops growing at     *)
(* Stale, where an object is past the grace period on every clock, so that *)
(* comparing two ages decides what comparing the two dates decides.        *)
(* Argument checks made before the first request (environment name, body   *)
(* not an object) are left out, and so are objects written by hand: a      *)
(* pointer that does not parse.                                            *)
(***************************************************************************)
EXTENDS Integers, Sequences

CONSTANTS
  Writers,        \* the publishers that may run at once
  Contents,       \* bodies a caller may hand to publish
  ValidContents,  \* those that pass `validate`
  NoBody,         \* the body of a rollback until its target is read
  MaxProbes,      \* MAX_VERSION_PROBES
  Grace,          \* orphanGraceMs, in ticks
  MaxSkew,        \* how far a publisher's clock may be from S3's, in ticks
  Dateless,       \* whether S3 may answer without LastModified
  MaxLegacy,      \* bound: snapshots there before the first step
  MaxLive,        \* bound: no call starts once this many versions were live
  MaxFaults       \* bound: failed or unanswered requests and crashes

ASSUME PublisherAssumption ==
  /\ ValidContents \subseteq Contents
  /\ ValidContents # {}
  /\ NoBody \notin Contents
  /\ MaxProbes \in Nat \ {0}
  /\ Grace \in Nat
  /\ MaxSkew \in Nat
  /\ Dateless \in BOOLEAN
  /\ MaxLegacy \in Nat
  /\ MaxLive \in Nat
  /\ MaxFaults \in Nat

VARIABLES
  stored,         \* snapshots/<n>.json: version -> snapshot
  age,            \* their LastModified: version -> age
  current,        \* current.json: the version it names, 0 when absent
  currentAge,     \* its LastModified
  writer,         \* what each publisher is doing
  wire,           \* writes whose sender stopped waiting for the answer
  faults,         \* how many faults have happened
  history         \* history variable: every version ever live, in order

vars == <<stored, age, current, currentAge, writer, wire, faults, history>>
bucket == <<stored, age, current, currentAge, history>>

Unknown == -1               \* a missing LastModified
Stale   == Grace + MaxSkew  \* at this age every clock sees the grace over
Ages    == 0..Stale
Version == Nat \ {0}

Snapshot == [content : Contents, previous : Nat, restores : Nat]

(***************************************************************************)
(* A publisher's state.  `phase` names the request it waits for: read the  *)
(* rollback target, probe a version with HEAD, write the snapshot, write   *)
(* the pointer, send the notification.                                     *)
(***************************************************************************)
Phase   == {"idle", "target", "probe", "store", "point", "notify"}
Outcome == {"none", "ok", "CONFLICT", "VERSION_EXISTS", "INVALID_SNAPSHOT",
            "INVALID_ROLLBACK_TARGET", "VERSION_PROBE_LIMIT",
            "REQUEST_FAILED", "crashed"}

WriterState ==
  [phase    : Phase,
   outcome  : Outcome,                \* how the last call ended
   expected : Nat,                    \* expectedCurrentVersion, 0: not given
   target   : Nat,                    \* rollback target, 0: a publish
   content  : Contents \union {NoBody},
   base     : Nat,                    \* the pointer version it read
   baseAge  : Ages \union {Unknown},  \* the pointer's LastModified it read
   version  : Nat]                    \* the version it probes or writes

\* A conditional write.  kind "snapshot" is PutObject IfNoneMatch '*' of the
\* snapshot, kind "pointer" PutObject of current.json with IfMatch base, or
\* IfNoneMatch '*' when base is 0.
Request == [kind : {"snapshot", "pointer"}, version : Version, base : Nat,
            expected : Nat, target : Nat, content : Contents]

TypeOK ==
  /\ DOMAIN stored \subseteq Version
  /\ stored \in [DOMAIN stored -> Snapshot]
  /\ age \in [DOMAIN stored -> Ages]
  /\ current \in Nat
  /\ currentAge \in Ages
  /\ writer \in [Writers -> WriterState]
  /\ wire \subseteq Request
  /\ faults \in 0..MaxFaults
  /\ history \in Seq([version : Version, previous : Nat, content : Contents,
                      expected : Nat])

-----------------------------------------------------------------------------
(* The writes, as S3 performs them. *)

RequestOf(w, kind) ==
  [kind     |-> kind,
   version  |-> writer[w].version,
   base     |-> writer[w].base,
   expected |-> writer[w].expected,
   target   |-> writer[w].target,
   content  |-> writer[w].content]

\* Broken: takes the versions to be contiguous.
SnapshotOfContiguous(r) ==
  [content |-> r.content, previous |-> r.version - 1, restores |-> r.target]

\* The stamped body of a snapshot: stampSnapshot over the caller's body, or
\* over buildRollbackSnapshot of the target.
SnapshotOf(r) ==
  [content |-> r.content, previous |-> r.base, restores |-> r.target]

\* Broken: the snapshot write carries no condition.
AdmittedOverwriting(r) == r.kind = "pointer" => current = r.base

\* Broken: the pointer write carries no condition.
AdmittedUnconditional(r) ==
  r.kind = "snapshot" => r.version \notin DOMAIN stored

\* Broken: the pointer is always written with IfNoneMatch '*'.
AdmittedCreateOnly(r) ==
  IF r.kind = "snapshot" THEN r.version \notin DOMAIN stored
                         ELSE current = 0

\* The write condition of r holds.
Admitted(r) ==
  IF r.kind = "snapshot" THEN r.version \notin DOMAIN stored
                         ELSE current = r.base

StoreSnapshot(r) ==
  /\ stored' = [v \in DOMAIN stored \union {r.version} |->
                  IF v = r.version THEN SnapshotOf(r) ELSE stored[v]]
  /\ age' = [v \in DOMAIN stored \union {r.version} |->
               IF v = r.version THEN 0 ELSE age[v]]
  /\ UNCHANGED <<current, currentAge, history>>

MovePointer(r) ==
  /\ current' = r.version
  /\ currentAge' = 0
  /\ history' = Append(history,
                  [version  |-> r.version,
                   previous |-> stored[r.version].previous,
                   content  |-> stored[r.version].content,
                   expected |-> r.expected])
  /\ UNCHANGED <<stored, age>>

Perform(r) == IF r.kind = "snapshot" THEN StoreSnapshot(r) ELSE MovePointer(r)

-----------------------------------------------------------------------------
(* Ending a call. *)

Idle(outcome, base) ==
  [phase |-> "idle", outcome |-> outcome, expected |-> 0, target |-> 0,
   content |-> NoBody, base |-> base, baseAge |-> Unknown, version |-> 0]

\* The call of w ends.
End(w, outcome) ==
  writer' = [writer EXCEPT ![w] = Idle(outcome, 0)]

\* It ends with CONFLICT: the pointer is not at version base, which the
\* caller named or the publisher read.
Conflict(w, base) == writer' = [writer EXCEPT ![w] = Idle("CONFLICT", base)]

-----------------------------------------------------------------------------
(* Reading. *)

\* Broken: the pointer's own version is taken to be free.
FirstVersionSame(base) == base

\* The first version resolveNextVersion probes: nextSnapshotVersion.
FirstVersion(base) == base + 1

\* A call starts: readPointer, and the check of what it read,
\* checkExpectedVersion for a publish and checkRollbackTarget for a rollback.
\* The call depends on nothing before its read, so the two are one step.
Call(w, expected, target, content) ==
  /\ writer[w].phase = "idle"
  /\ Len(history) < MaxLive
  /\ \/ /\ expected \notin {0, current}
        /\ Conflict(w, expected)
     \/ /\ target # 0 /\ current \in {0, target}
        /\ End(w, "INVALID_ROLLBACK_TARGET")
     \/ /\ expected \in {0, current}
        /\ target # 0 => current \notin {0, target}
        /\ \E pointerAge \in (IF current = 0 THEN {} ELSE {currentAge}) \union
                             (IF current = 0 \/ Dateless THEN {Unknown} ELSE {}) :
             writer' = [writer EXCEPT ![w] =
               [phase    |-> IF target = 0 THEN "probe" ELSE "target",
                outcome  |-> "none",
                expected |-> expected,
                target   |-> target,
                content  |-> content,
                base     |-> current,
                baseAge  |-> pointerAge,
                version  |-> FirstVersion(current)]]
  /\ UNCHANGED <<bucket, wire, faults>>

\* publish(environment, snapshot, { expectedCurrentVersion }): a caller that
\* names a version has seen it live.
StartPublish(w) ==
  \E content \in Contents :
  \E expected \in {0} \union {history[i].version : i \in 1..Len(history)} :
    Call(w, expected, 0, content)

\* rollback(environment, targetVersion).
StartRollback(w) ==
  \E target \in (DOMAIN stored \union {current + 1}) : Call(w, 0, target, NoBody)

\* Broken: republishes the version the pointer names.
RestoredBodyOfBase(w) == stored[writer[w].base].content

\* buildRollbackSnapshot: the body a rollback republishes.
RestoredBody(w) == stored[writer[w].target].content

\* readSnapshot of the rollback target, and the validation of it.
ReadTarget(w) ==
  /\ writer[w].phase = "target"
  /\ IF writer[w].target \notin DOMAIN stored
     THEN End(w, "INVALID_ROLLBACK_TARGET")
     ELSE IF stored[writer[w].target].content \notin ValidContents
     THEN End(w, "INVALID_SNAPSHOT")
     ELSE writer' = [writer EXCEPT ![w].phase = "probe",
                                   ![w].content = RestoredBody(w)]
  /\ UNCHANGED <<bucket, wire, faults>>

\* Broken: `<` on the two dates has become `<=`.
SkippableSameAge(seenAge, localAge, pointerAge) ==
  /\ seenAge # Unknown
  /\ \/ pointerAge # Unknown /\ seenAge >= pointerAge
     \/ localAge >= Grace

\* Broken: no grace period, an orphan is kept for ever.
SkippableNever(seenAge, localAge, pointerAge) ==
  seenAge # Unknown /\ pointerAge # Unknown /\ seenAge > pointerAge

\* classifyOccupiedVersion.  seenAge is the snapshot's LastModified on S3's
\* clock, localAge the same date measured with the publisher's clock.
Skippable(seenAge, localAge, pointerAge) ==
  /\ seenAge # Unknown
  /\ \/ pointerAge # Unknown /\ seenAge > pointerAge
     \/ localAge >= Grace

\* One HeadObject of resolveNextVersion: take the version when it is free,
\* step over it when it is skippable, and otherwise refuse.  The body is
\* stamped and validated as soon as a version is found.
Probe(w) ==
  LET v    == writer[w].version
      last == writer[w].base + MaxProbes
  IN
  /\ writer[w].phase = "probe"
  /\ IF v \notin DOMAIN stored
     THEN IF writer[w].content \in ValidContents
          THEN writer' = [writer EXCEPT ![w].phase = "store",
                                        ![w].baseAge = Unknown]
          ELSE End(w, "INVALID_SNAPSHOT")
     ELSE \E seenAge \in {age[v]} \union (IF Dateless THEN {Unknown} ELSE {}) :
          \E skew \in -MaxSkew..MaxSkew :
            IF ~Skippable(seenAge, age[v] + skew, writer[w].baseAge)
            THEN End(w, "VERSION_EXISTS")
            ELSE IF v = last
            THEN End(w, "VERSION_PROBE_LIMIT")
            ELSE writer' = [writer EXCEPT ![w].version = v + 1]
  /\ UNCHANGED <<bucket, wire, faults>>

-----------------------------------------------------------------------------
(* Writing. *)

\* The snapshot write is answered.
PutSnapshot(w) ==
  LET r == RequestOf(w, "snapshot") IN
  /\ writer[w].phase = "store"
  /\ IF Admitted(r)
     THEN /\ Perform(r)
          /\ writer' = [writer EXCEPT ![w].phase = "point"]
     ELSE /\ End(w, "VERSION_EXISTS")
          /\ UNCHANGED bucket
  /\ UNCHANGED <<wire, faults>>

\* The pointer write is answered.
PutPointer(w) ==
  LET r == RequestOf(w, "pointer") IN
  /\ writer[w].phase = "point"
  /\ IF Admitted(r)
     THEN /\ Perform(r)
          /\ writer' = [writer EXCEPT ![w].phase = "notify"]
     ELSE /\ Conflict(w, r.base)
          /\ UNCHANGED bucket
  /\ UNCHANGED <<wire, faults>>

\* notify: sent or failed, the call resolves to the version.
Notify(w) ==
  /\ writer[w].phase = "notify"
  /\ End(w, "ok")
  /\ UNCHANGED <<bucket, wire, faults>>

-----------------------------------------------------------------------------
(* Faults. *)

Fault == faults < MaxFaults /\ faults' = faults + 1

\* The write w waits for, as a set.
Outstanding(w) ==
  IF writer[w].phase = "store" THEN {RequestOf(w, "snapshot")}
  ELSE IF writer[w].phase = "point" THEN {RequestOf(w, "pointer")}
  ELSE {}

\* A read or a HEAD fails, the one of the pointer included.
ReadFails(w) ==
  /\ writer[w].phase \in {"idle", "target", "probe"}
  /\ Fault
  /\ End(w, "REQUEST_FAILED")
  /\ UNCHANGED <<bucket, wire>>

\* No answer to a write: the SDK leaves it on the wire and sends it again.
Resend(w) ==
  /\ writer[w].phase \in {"store", "point"}
  /\ Fault
  /\ wire' = wire \union Outstanding(w)
  /\ UNCHANGED <<bucket, writer>>

\* No answer to a write, and the SDK's attempts are spent.
GiveUp(w) ==
  /\ writer[w].phase \in {"store", "point"}
  /\ Fault
  /\ wire' = wire \union Outstanding(w)
  /\ End(w, "REQUEST_FAILED")
  /\ UNCHANGED bucket

\* The process dies; a write it was waiting for may still arrive.
Crash(w) ==
  /\ writer[w].phase # "idle"
  /\ Fault
  /\ wire' = wire \union Outstanding(w)
  /\ End(w, "crashed")
  /\ UNCHANGED bucket

\* A write nobody waits for any more reaches S3.
Land(r) ==
  /\ r \in wire
  /\ wire' = wire \ {r}
  /\ IF Admitted(r) THEN Perform(r) ELSE UNCHANGED bucket
  /\ UNCHANGED <<writer, faults>>

\* Time passes.
Older(a) == IF a \in Ages /\ a < Stale THEN a + 1 ELSE a

Tick ==
  /\ age' = [v \in DOMAIN stored |-> Older(age[v])]
  /\ currentAge' = IF current = 0 THEN 0 ELSE Older(currentAge)
  /\ writer' = [w \in Writers |->
                  [writer[w] EXCEPT !.baseAge = Older(@)]]
  /\ UNCHANGED <<stored, current, history, wire, faults>>

-----------------------------------------------------------------------------
(* The environment before the first step: never published, or holding the  *)
(* versions 1..top with the pointer on one of them.  A pointer below the   *)
(* top was left by a rollback of the time when rollbacks moved the pointer *)
(* back; it was written no earlier than any snapshot.                      *)

Init ==
  /\ \E top \in 0..MaxLegacy, first \in Contents :
     \E live \in IF top = 0 THEN {0} ELSE 1..top :
     \E snapshotAge \in Ages : \E pointerAge \in 0..snapshotAge :
       /\ stored = [v \in 1..top |->
                      [content |-> first, previous |-> v - 1, restores |-> 0]]
       /\ age = [v \in 1..top |-> snapshotAge]
       /\ current = live
       /\ currentAge = IF live = 0 THEN 0 ELSE pointerAge
       /\ history = IF live = 0 THEN <<>>
                    ELSE <<[version |-> live, previous |-> live - 1,
                            content |-> first, expected |-> 0]>>
  /\ writer = [w \in Writers |-> Idle("none", 0)]
  /\ wire = {}
  /\ faults = 0

\* What a running publisher does by itself.
Advance(w) ==
  \/ ReadTarget(w)
  \/ Probe(w)
  \/ PutSnapshot(w)
  \/ PutPointer(w)
  \/ Notify(w)

Next ==
  \/ \E w \in Writers :
       \/ StartPublish(w)
       \/ StartRollback(w)
       \/ Advance(w)
       \/ ReadFails(w)
       \/ Resend(w)
       \/ GiveUp(w)
       \/ Crash(w)
  \/ \E r \in wire : Land(r)
  \/ Tick

Spec == Init /\ [][Next]_vars

(***************************************************************************)
(* Fairness.  Every promise of a running publisher settles, time passes,   *)
(* and the people who publish do not give up: whenever a publisher is free *)
(* again and again, somebody publishes a valid snapshot unconditionally.   *)
(* Nothing makes a write on the wire ever land.                            *)
(***************************************************************************)
TryPublish(w) == \E content \in ValidContents : Call(w, 0, 0, content)

FairSpec ==
  /\ Spec
  /\ WF_vars(Tick)
  /\ \A w \in Writers : WF_vars(Advance(w)) /\ SF_vars(TryPublish(w))

-----------------------------------------------------------------------------
(* Properties. *)

\* Versions that are, or once were, live.
Lived == {history[i].version : i \in 1..Len(history)}

\* Pointer writes that can still reach S3.
PendingMoves ==
  {r \in wire : r.kind = "pointer"} \union
  {RequestOf(w, "pointer") : w \in {x \in Writers : writer[x].phase = "point"}}

\* The pointer never names a snapshot that is not stored, and no write that
\* is still under way, however late it lands, can make it do so: the write
\* names a stored snapshot above its own base, and that snapshot says it
\* replaces the very version the write is conditional on (the pair of
\* conditional writes in writeNextVersion).
PendingMovesFit ==
  /\ current # 0 => current \in DOMAIN stored
  /\ \A r \in PendingMoves :
       /\ r.version \in DOMAIN stored
       /\ r.version > r.base
       /\ stored[r.version].previous = r.base
       /\ r.expected \in {0, r.base}

\* A snapshot that says it restores version t carries the body of t and was
\* not written while t was live (rollback, checkRollbackTarget), whatever
\* moved between the rollback's two reads and its two writes.
RollbackRestores ==
  \A v \in DOMAIN stored :
    LET t == stored[v].restores IN
    t # 0 => /\ t \in DOMAIN stored
             /\ stored[t].content = stored[v].content
             /\ t # stored[v].previous

\* CONFLICT is never a false alarm: the pointer has gone past the version
\* the caller expected, or the publisher read, and stays past it.
ConflictMeansMoved ==
  \A w \in Writers :
    writer[w].outcome = "CONFLICT" => current > writer[w].base

KeepsSnapshots ==
  \A v \in DOMAIN stored : v \in DOMAIN stored' /\ stored'[v] = stored[v]

\* A stored snapshot is never rewritten or removed (IfNoneMatch '*' on the
\* snapshot write), by late writes either.
SnapshotsNeverChange == [][KeepsSnapshots]_vars

\* If w steps over a young snapshot, no write can move the pointer to it.
SkipsOnlyLosers(w) ==
  LET v == writer[w].version IN
  (/\ writer[w].phase = "probe"
   /\ writer'[w].phase = "probe"
   /\ writer'[w].version = v + 1
   /\ age[v] + MaxSkew < Grace)
  => \A r \in PendingMoves : r.version = v => ~Admitted(r)

SkipsAreSafe == \A w \in Writers : SkipsOnlyLosers(w)

\* A publisher steps over a snapshot younger than the grace period only when
\* no pointer write for it can succeed any more: "older than the pointer"
\* proves that its publisher has lost (classifyOccupiedVersion).
SkipsNoLiveRival == [][SkipsAreSafe]_vars

\* No crash, lost answer or leftover snapshot wedges the environment: those
\* who keep publishing do publish (orphanGraceMs and the skipping it allows).
NeverWedged == <>(Len(history) >= MaxLive)

\* The environment's history is one line of versions (PublishedHistory).
Published == INSTANCE PublishedHistory WITH line <- history
PublishedSpec == Published!Spec

\* What the comment on S3PublishErrorReason says of a publish that fails: it
\* "wrote nothing, or stopped before moving the pointer".
FailureMovedNothing ==
  [][\A w \in Writers :
       (/\ writer[w].phase = "point"
        /\ writer'[w].outcome \in {"CONFLICT", "REQUEST_FAILED"})
       => writer[w].version \notin Lived]_vars

-----------------------------------------------------------------------------
(* The inductive invariant behind the properties.                          *)

\* The version a snapshot restores, when it restores one, is stored with the
\* same body and is not the version it replaces.
Restores(target, content, base) ==
  target # 0 => /\ target \in DOMAIN stored
                /\ stored[target].content = content
                /\ target # base

\* version is stored, and says it replaces base.
Replaces(version, base) ==
  /\ version \in DOMAIN stored
  /\ stored[version].previous = base
  /\ stored[version].content \in ValidContents
  /\ (base = current /\ current # 0) => age[version] <= currentAge

\* A write on the wire.
Sound(r) ==
  /\ r.base <= current
  /\ r.version > r.base
  /\ r.expected \in {0, r.base}
  /\ r.content \in ValidContents
  /\ Restores(r.target, r.content, r.base)
  /\ r.kind = "pointer" => Replaces(r.version, r.base)

\* A publisher in the middle of a call, or after a CONFLICT.
CallOK(s) ==
  /\ s.outcome = "CONFLICT" => s.phase = "idle" /\ s.base < current
  /\ s.baseAge # Unknown => current # 0 /\ s.baseAge >= currentAge
  /\ s.phase \in {"target", "probe", "store", "point"} =>
       /\ s.base <= current
       /\ s.version > s.base
       /\ s.expected \in {0, s.base}
  /\ s.phase = "target" => s.target # 0 /\ s.target # s.base
  /\ s.phase = "probe" => s.content \in Contents
  /\ s.phase \in {"probe", "store", "point"} =>
       Restores(s.target, s.content, s.base)
  /\ s.phase \in {"store", "point"} => s.content \in ValidContents
  /\ s.phase = "point" => Replaces(s.version, s.base)

IInv ==
  /\ TypeOK
  /\ current = IF history = <<>> THEN 0 ELSE history[Len(history)].version
  /\ \A i \in 1..Len(history) : history[i].version <= current
  /\ current # 0 => current \in DOMAIN stored
  /\ \A v \in DOMAIN stored :
       Restores(stored[v].restores, stored[v].content, stored[v].previous)
  /\ \A r \in wire : Sound(r)
  /\ \A w \in Writers : CallOK(writer[w])
=============================================================================
