-------------------------- MODULE ApplicationProofs --------------------------
(***************************************************************************)
(* What Application promises, for every number of messages, reloads,       *)
(* refreshes and versions.  The inductive invariant IInv has one part for  *)
(* each component; a step of the application is a step of at most one of   *)
(* the file and the queue, beside one of the client, and the lemmas below  *)
(* follow that: what a step may do to the client, to the file, to the      *)
(* queue, and then to the module's life.                                   *)
(***************************************************************************)
EXTENDS Application, TLAPS

USE ClientAssumption, FileAssumption, QueueAssumption, ApplicationAssumption

-----------------------------------------------------------------------------
(* The client. *)

\* What sources hand over is a version.
Handed == {p \in Payload : p.version # 0}

\* All that ever happens to the client after its creation.
ClientMoves ==
  \/ UNCHANGED clientVars
  \/ \E l \in Loads : BeginRefresh(l) \/ RefreshFailed(l)
  \/ \E l \in Loads, p \in Handed : RefreshLoaded(l, p)
  \/ \E p \in Handed : Delivered(p)
  \/ Close

\* replace takes a payload whole or leaves the active snapshot alone.
LEMMA ApplyType ==
  ASSUME ClientTypeOK, NEW p \in Handed, NEW t \in Nat, Apply(p, t)
  PROVE  /\ active' \in Payload
         /\ active.version # 0 => active'.version # 0
         /\ appliedTicket' = appliedTicket \/ appliedTicket' = t
         /\ active' # active => active'.version # 0
<1>1. CASE p.version \notin Rejected /\ Newest(t)
  <2>1. active' = Resolved(p) /\ appliedTicket' = t
    BY <1>1 DEF Apply
  <2>2. Resolved(p) \in Payload /\ Resolved(p).version # 0
    BY DEF Resolved, Handed, Payload, ClientTypeOK
  <2>3. QED
    BY <2>1, <2>2
<1>2. CASE ~(p.version \notin Rejected /\ Newest(t))
  BY <1>2 DEF Apply, ClientTypeOK
<1>3. QED
  BY <1>1, <1>2

\* The client stays well typed, is never opened again after close(), and
\* never goes back to having no snapshot.
LEMMA ClientStep ==
  ASSUME ClientTypeOK, ClientMoves
  PROVE  /\ ClientTypeOK'
         /\ closed => closed'
         /\ active.version # 0 => active'.version # 0
<1>1. CASE UNCHANGED clientVars
  BY <1>1 DEF clientVars, ClientTypeOK
<1>2. ASSUME NEW l \in Loads, BeginRefresh(l) \/ RefreshFailed(l)
      PROVE  /\ ClientTypeOK'
             /\ UNCHANGED <<active, closed>>
  BY <1>2 DEF BeginRefresh, RefreshFailed, ClientTypeOK
<1>3. ASSUME NEW l \in Loads, NEW p \in Handed, RefreshLoaded(l, p)
      PROVE  /\ ClientTypeOK'
             /\ UNCHANGED closed
             /\ active.version # 0 => active'.version # 0
  <2>1. ticket[l] \in Nat /\ ticket[l] <= issuedTickets
    BY DEF ClientTypeOK
  <2>2. /\ Apply(p, ticket[l])
        /\ ticket' = [ticket EXCEPT ![l] = 0]
        /\ UNCHANGED <<issuedTickets, closed>>
    BY <1>3 DEF RefreshLoaded
  <2>3. QED
    BY <2>1, <2>2, ApplyType DEF ClientTypeOK
<1>4. ASSUME NEW p \in Handed, Delivered(p)
      PROVE  /\ ClientTypeOK'
             /\ UNCHANGED closed
             /\ active.version # 0 => active'.version # 0
  <2>1. /\ issuedTickets' = issuedTickets + 1
        /\ Apply(p, issuedTickets + 1)
        /\ UNCHANGED <<ticket, closed>>
    BY <1>4 DEF Delivered
  <2>2. issuedTickets + 1 \in Nat
    BY DEF ClientTypeOK
  <2>3. QED
    BY <2>1, <2>2, ApplyType DEF ClientTypeOK
<1>5. CASE Close
  BY <1>5 DEF Close, ClientTypeOK
<1>6. QED
  BY <1>1, <1>2, <1>3, <1>4, <1>5 DEF ClientMoves

-----------------------------------------------------------------------------
(* The file. *)

FileInv == FileTypeOK /\ FileOK

LEMMA VersionsArePayloads ==
  ASSUME NEW v \in Nat \ {0}, NEW s \in Nat
  PROVE  [version |-> v, segment |-> s] \in Handed
BY DEF Handed, Payload

\* Editors, pulls and their deaths.
LEMMA DiskStep ==
  ASSUME FileInv, DiskChanges
  PROVE  /\ FileInv'
         /\ UNCHANGED <<clientVars, watching>>
         /\ ~watching => ~timer' \/ timer' = timer
<1> DEFINE Written == /\ file' \in Text /\ {saving', pulling'} \subseteq 0..MaxVersion
                      /\ file'.whole => file'.version # 0
<1>0. /\ file \in Text /\ saving \in 0..MaxVersion /\ pulling \in 0..MaxVersion
      /\ file.whole => file.version # 0
  BY DEF FileInv, FileTypeOK, FileOK
<1>1. ASSUME NEW v \in 1..MaxVersion, EditorBegins(v) \/ PullBegins(v)
      PROVE  Written /\ timer' = watching
  <2>1. CASE EditorBegins(v)
    <3>1. /\ file' = [version |-> v, whole |-> FALSE]
          /\ saving' = v /\ pulling' = pulling /\ timer' = watching
      BY <2>1 DEF EditorBegins, Touched
    <3>2. QED
      BY <1>0, <3>1 DEF Text
  <2>2. CASE PullBegins(v)
    <3>1. /\ file' = file
          /\ saving' = saving /\ pulling' = v /\ timer' = watching
      BY <2>2 DEF PullBegins, PullsAside, Touched
    <3>2. QED
      BY <1>0, <3>1
  <2>3. QED
    BY <1>1, <2>1, <2>2
<1>2. ASSUME EditorEnds \/ PullEnds
      PROVE  Written /\ timer' = watching
  <2>1. ASSUME NEW v \in (0..MaxVersion) \ {0}, file' = [version |-> v, whole |-> TRUE]
        PROVE  file' \in Text /\ file'.version # 0
    BY <2>1 DEF Text
  <2>2. CASE EditorEnds
    <3>1. /\ saving # 0 /\ file' = [version |-> saving, whole |-> TRUE]
          /\ saving' = 0 /\ pulling' = pulling /\ timer' = watching
      BY <2>2 DEF EditorEnds, Touched
    <3>2. file' \in Text /\ file'.version # 0
      BY <1>0, <2>1, <3>1
    <3>3. QED
      BY <1>0, <3>1, <3>2
  <2>3. CASE PullEnds
    <3>1. /\ pulling # 0 /\ file' = [version |-> pulling, whole |-> TRUE]
          /\ saving' = saving /\ pulling' = 0 /\ timer' = watching
      BY <2>3 DEF PullEnds, Touched
    <3>2. file' \in Text /\ file'.version # 0
      BY <1>0, <2>1, <3>1
    <3>3. QED
      BY <1>0, <3>1, <3>2
  <2>4. QED
    BY <1>2, <2>2, <2>3
<1>3. ASSUME WriterDies
      PROVE  Written /\ timer' = timer
  BY <1>0, <1>3 DEF WriterDies
<1>4. UNCHANGED <<watching, reload, loading, lastDelivered, muddled, clientVars>>
  BY DEF DiskChanges
<1>5. Written /\ (timer' = watching \/ timer' = timer)
  BY <1>1, <1>2, <1>3 DEF DiskChanges
<1>6. QED
  BY <1>4, <1>5 DEF FileInv, FileTypeOK, FileOK

\* A reload that goes on: what it delivers, if it delivers, is a version.
LEMMA ReloadStep ==
  ASSUME FileInv, NEW r \in Reloads, TimerFires(r) \/ ReloadReads(r) \/ ReloadEnds(r)
  PROVE  /\ FileInv'
         /\ ClientMoves
         /\ UNCHANGED <<watching, ticket, closed>>
         /\ ~timer => ~timer'
<1>1. /\ reload \in [Reloads -> Reading] /\ reload[r] \in Reading
      /\ file \in Text /\ file.version \in 0..MaxVersion
      /\ lastDelivered \in 0..MaxVersion
  BY DEF FileInv, FileTypeOK, Text
<1>2. Reads \in Reading /\ Rests \in Reading
  BY DEF Reads, Rests, Reading
<1>3. CASE TimerFires(r)
  <2>1. /\ timer' = FALSE
        /\ reload' = [reload EXCEPT ![r] = Reads]
        /\ UNCHANGED <<file, saving, pulling, watching, loading, lastDelivered,
                       clientVars>>
    BY <1>3 DEF TimerFires, disk
  <2>2. Reads.phase # "segments"
    BY DEF Reads
  <2>3. FileInv'
    BY <1>1, <1>2, <2>1, <2>2 DEF FileInv, FileTypeOK, FileOK
  <2>4. QED
    BY <2>1, <2>3 DEF ClientMoves, clientVars
<1>4. CASE ReloadReads(r)
  <2>1. UNCHANGED <<file, saving, pulling, watching, timer, loading>>
    BY <1>4 DEF ReloadReads, disk
  <2>2. CASE Remembered \/ ~file.whole
    <3>1. reload' = [reload EXCEPT ![r] = Rests] /\ UNCHANGED <<lastDelivered, clientVars>>
      BY <1>4, <2>2 DEF ReloadReads
    <3>2. FileInv'
      BY <1>1, <1>2, <2>1, <3>1 DEF FileInv, FileTypeOK, FileOK, Rests
    <3>3. QED
      BY <2>1, <3>1, <3>2 DEF ClientMoves, clientVars
  <2>3. CASE file.whole /\ ~Remembered /\ file.version \in Referencing
    <3>1. reload' = [reload EXCEPT ![r] = ReadsSegments(file.version)]
          /\ UNCHANGED <<lastDelivered, clientVars>>
      BY <1>4, <2>3 DEF ReloadReads
    <3>2. /\ ReadsSegments(file.version) \in Reading
          /\ ReadsSegments(file.version).version # 0
      BY <1>1, <2>3 DEF ReadsSegments, Reading, FileInv, FileOK
    <3>3. FileInv'
      BY <1>1, <2>1, <3>1, <3>2 DEF FileInv, FileTypeOK, FileOK
    <3>4. QED
      BY <2>1, <3>1, <3>3 DEF ClientMoves, clientVars
  <2>4. CASE file.whole /\ ~Remembered /\ file.version \notin Referencing
    <3>1. /\ reload' = [reload EXCEPT ![r] = Rests]
          /\ lastDelivered' = file.version
          /\ Delivered([version |-> file.version, segment |-> 0])
      BY <1>4, <2>4 DEF ReloadReads, HandsOver
    <3>2. file.version \in Nat \ {0}
      BY <1>1, <2>4 DEF FileInv, FileOK
    <3>3. ClientMoves
      BY <3>1, <3>2, VersionsArePayloads DEF ClientMoves
    <3>4. FileInv'
      BY <1>1, <1>2, <2>1, <3>1 DEF FileInv, FileTypeOK, FileOK, Rests
    <3>5. QED
      BY <2>1, <3>1, <3>3, <3>4 DEF Delivered
  <2>5. QED
    BY <2>2, <2>3, <2>4
<1>5. CASE ReloadEnds(r)
  <2>1. PICK s \in 0..MaxMembers : HandsOver(reload[r].version, s)
    BY <1>5 DEF ReloadEnds
  <2>2. /\ reload' = [reload EXCEPT ![r] = Rests]
        /\ UNCHANGED <<file, saving, pulling, watching, timer, loading>>
    BY <1>5 DEF ReloadEnds, disk
  <2>3. /\ lastDelivered' = reload[r].version
        /\ Delivered([version |-> reload[r].version, segment |-> s])
    BY <2>1 DEF HandsOver
  <2>4. reload[r].version \in 0..MaxVersion /\ reload[r].version # 0 /\ s \in Nat
    BY <1>1, <1>5 DEF ReloadEnds, FileInv, FileOK, Reading
  <2>5. ClientMoves
    BY <2>3, <2>4, VersionsArePayloads DEF ClientMoves
  <2>6. FileInv'
    BY <1>1, <1>2, <2>2, <2>3, <2>4 DEF FileInv, FileTypeOK, FileOK, Rests
  <2>7. QED
    BY <2>2, <2>3, <2>5, <2>6 DEF Delivered
<1>6. QED
  BY <1>3, <1>4, <1>5

\* load() of a refresh is called, and goes on.
LEMMA FileLoadStep ==
  ASSUME FileInv, NEW l \in Loads, FileLoad(l), watching' \in BOOLEAN
  PROVE  FileInv' /\ ClientMoves /\ UNCHANGED <<closed, timer>>
<1>1. /\ loading' = [loading EXCEPT ![l] = Reads]
      /\ UNCHANGED <<file, saving, pulling, timer, reload, lastDelivered>>
  BY DEF FileLoad, disk
<1>2. Reads \in Reading /\ Reads.phase # "segments"
  BY DEF Reads, Reading
<1>3. QED
  BY <1>1, <1>2 DEF FileInv, FileTypeOK, FileOK, ClientMoves, FileLoad, BeginRefresh

LEMMA LoadResolvesStep ==
  ASSUME FileInv, NEW l \in Loads, NEW v \in (0..MaxVersion) \ {0}, NEW s \in Nat,
         LoadResolves(l, v, s),
         UNCHANGED <<disk, watching, timer, reload, lastDelivered>>
  PROVE  FileInv' /\ ClientMoves /\ UNCHANGED closed
<1>1. Rests \in Reading /\ Rests.phase # "segments"
  BY DEF Rests, Reading
<1>2. /\ RefreshLoaded(l, [version |-> v, segment |-> s])
      /\ loading' = [loading EXCEPT ![l] = Rests]
  BY DEF LoadResolves
<1>3. ClientMoves
  BY <1>2, VersionsArePayloads DEF ClientMoves
<1>4. FileInv'
  BY <1>1, <1>2 DEF FileInv, FileTypeOK, FileOK, disk
<1>5. QED
  BY <1>2, <1>3, <1>4 DEF RefreshLoaded

LEMMA LoadStep ==
  ASSUME FileInv, NEW l \in Loads, LoadReads(l) \/ LoadEnds(l)
  PROVE  FileInv' /\ ClientMoves /\ UNCHANGED <<closed, timer, watching>>
<1>1. UNCHANGED <<disk, watching, timer, reload, lastDelivered>>
  BY DEF LoadReads, LoadEnds
<1>2. /\ loading \in [Loads -> Reading] /\ loading[l] \in Reading
      /\ file.version \in 0..MaxVersion
  BY DEF FileInv, FileTypeOK, Text
<1>3. CASE LoadReads(l) /\ file.whole /\ file.version \notin Referencing
  <2>1. LoadResolves(l, file.version, 0)
    BY <1>3 DEF LoadReads
  <2>2. file.version # 0
    BY <1>3 DEF FileInv, FileOK
  <2>3. QED
    BY <1>1, <1>2, <2>1, <2>2, LoadResolvesStep
<1>4. CASE LoadReads(l) /\ file.whole /\ file.version \in Referencing
  <2>1. loading' = [loading EXCEPT ![l] = ReadsSegments(file.version)]
        /\ UNCHANGED clientVars
    BY <1>4 DEF LoadReads
  <2>2. /\ ReadsSegments(file.version) \in Reading
        /\ ReadsSegments(file.version).version # 0
    BY <1>2, <1>4 DEF ReadsSegments, Reading, FileInv, FileOK
  <2>3. QED
    BY <1>1, <1>2, <2>1, <2>2
       DEF FileInv, FileTypeOK, FileOK, ClientMoves, clientVars, disk
<1>5. CASE LoadReads(l) /\ ~file.whole
  <2>1. loading' = [loading EXCEPT ![l] = Rests] /\ RefreshFailed(l)
    BY <1>5 DEF LoadReads
  <2>2. Rests \in Reading /\ Rests.phase # "segments"
    BY DEF Rests, Reading
  <2>3. QED
    BY <1>1, <1>2, <2>1, <2>2
       DEF FileInv, FileTypeOK, FileOK, ClientMoves, RefreshFailed, disk
<1>6. CASE LoadEnds(l)
  <2>1. PICK s \in 0..MaxMembers : LoadResolves(l, loading[l].version, s)
    BY <1>6 DEF LoadEnds
  <2>2. loading[l].version \in (0..MaxVersion) \ {0} /\ s \in Nat
    BY <1>2, <1>6 DEF LoadEnds, FileInv, FileOK, Reading
  <2>3. QED
    BY <1>1, <2>1, <2>2, LoadResolvesStep
<1>7. QED
  BY <1>3, <1>4, <1>5, <1>6

LEMMA FileRests ==
  ASSUME FileInv, UNCHANGED <<disk, reload, loading, lastDelivered>>,
         {timer', watching'} \subseteq BOOLEAN
  PROVE  FileInv'
BY DEF FileInv, FileTypeOK, FileOK, disk

-----------------------------------------------------------------------------
(* The queue. *)

QueueInv == QueueTypeOK /\ QueueOK /\ HandledOK

Working == {"taking", "pushing", "deleting"}

\* The loop at work has a first message in hand, of those sent.
LEMMA FirstInHand ==
  ASSUME QueueTypeOK, QueueOK, consumer.phase \in Working
  PROVE  /\ consumer.batch \in Seq(Ids) /\ consumer.batch # <<>>
         /\ Head(consumer.batch) \in InHand \intersect Ids
         /\ message[Head(consumer.batch)].place # "unsent"
<1>1. consumer.batch \in Seq(Ids) /\ consumer.batch # <<>>
  BY DEF QueueTypeOK, QueueOK, Consumer, Working
<1>2. Head(consumer.batch) = consumer.batch[1] /\ 1 \in DOMAIN consumer.batch
  BY <1>1
<1>3. Head(consumer.batch) \in InHand
  BY <1>2 DEF InHand
<1>4. QED
  BY <1>1, <1>2, <1>3 DEF QueueOK

\* Another phase, the same messages in hand.
LEMMA AtStep ==
  ASSUME QueueTypeOK, NEW phase \in Working \union {"receiving", "sleeping", "stopped"},
         At(phase)
  PROVE  /\ consumer' \in Consumer
         /\ consumer'.phase = phase
         /\ consumer'.batch = consumer.batch
         /\ InHand' = InHand
BY DEF QueueTypeOK, Consumer, Working, At, InHand

\* The loop leaves the first message behind: it has those that are left in
\* hand, and takes the next one if there is one.
LEMMA NextMessageStep ==
  ASSUME QueueTypeOK, QueueOK, consumer.phase \in Working, NextMessage
  PROVE  /\ consumer' \in Consumer
         /\ consumer'.phase \in {"taking", "receiving", "stopped"}
         /\ consumer'.phase = "taking" => consumer'.batch # <<>>
         /\ InHand' \subseteq InHand
<1>1. consumer.batch \in Seq(Ids) /\ consumer.batch # <<>>
  BY FirstInHand
<1>2. /\ consumer'.batch = Tail(consumer.batch)
      /\ consumer'.phase = IF Len(consumer.batch) > 1 THEN "taking" ELSE
                           IF closed THEN "stopped" ELSE "receiving"
      /\ consumer' = [phase |-> consumer'.phase, batch |-> consumer'.batch]
  BY <1>1 DEF NextMessage
<1>3. /\ Tail(consumer.batch) \in Seq(Ids)
      /\ Len(Tail(consumer.batch)) = Len(consumer.batch) - 1
      /\ \A k \in 1..Len(Tail(consumer.batch)) :
           Tail(consumer.batch)[k] = consumer.batch[k + 1]
  BY <1>1
<1>4. InHand' \subseteq InHand
  <2>1. ASSUME NEW k \in DOMAIN consumer'.batch
        PROVE  consumer'.batch[k] \in InHand
    <3>1. k \in 1..(Len(consumer.batch) - 1)
      BY <1>1, <1>2, <1>3
    <3>2. k + 1 \in DOMAIN consumer.batch /\ consumer'.batch[k] = consumer.batch[k + 1]
      BY <1>1, <1>2, <1>3, <3>1
    <3>3. QED
      BY <3>2 DEF InHand
  <2>2. QED
    BY <2>1 DEF InHand
<1>5. consumer'.phase = "taking" => consumer'.batch # <<>>
  <2>1. ASSUME NEW rest \in Seq(Ids), NEW n \in Nat, Len(rest) = n - 1, n > 1
        PROVE  rest # <<>>
    BY <2>1
  <2>2. Len(consumer.batch) \in Nat
    BY <1>1
  <2>3. Len(Tail(consumer.batch)) = Len(consumer.batch) - 1
    BY <1>3
  <2>4. Len(consumer.batch) > 1 => Tail(consumer.batch) # <<>>
    BY <1>3, <2>1, <2>2, <2>3, Zenon
  <2>5. consumer'.phase = "taking" => Len(consumer.batch) > 1
    BY <1>2
  <2>6. QED
    BY <1>2, <2>4, <2>5
<1>6. consumer' \in Consumer
  BY <1>2, <1>3 DEF Consumer
<1>7. QED
  BY <1>2, <1>4, <1>5, <1>6

\* Whoever was given a version was given the older ones.
LEMMA GivenOlder ==
  ASSUME ClientTypeOK, missed \subseteq Nat, NEW v \in Int, NEW w \in Int, w <= v, Given(v)
  PROVE  Given(w)
BY DEF Given, ClientTypeOK, Payload

\* The steps that only move the loop: what is handled stays the same but for
\* the message the loop is about to delete.
LEMMA LoopMoves ==
  ASSUME QueueInv, UNCHANGED <<live, message, sourceVars, clientVars>>,
         failures' \in 0..MaxFaults,
         consumer' \in Consumer,
         consumer'.phase \in Working => consumer'.batch # <<>>,
         \A i \in InHand' : message[i].place # "unsent",
         job.by = "push" => consumer'.phase = "pushing" /\ consumer'.batch = consumer.batch,
         consumer'.phase = "deleting" =>
           closed \/ message[Head(consumer'.batch)].body = Stray
  PROVE  QueueInv'
<1>0. UNCHANGED <<job, fetch, loaded, missed, active, closed>>
  BY DEF sourceVars, clientVars
<1>1. QueueTypeOK'
  BY <1>0 DEF QueueInv, QueueTypeOK
<1>2. QueueOK'
  BY <1>0 DEF QueueInv, QueueOK, Working
<1>3. HandledOK'
  <2>1. SUFFICES ASSUME ~closed PROVE HandledOK'
    BY <1>0 DEF HandledOK
  <2>2. ASSUME NEW i \in Handled', Announces(i)
        PROVE  i \in Handled
    BY <1>0, <2>1, <2>2 DEF Handled, Announces
  <2>3. QED
    BY <1>0, <2>1, <2>2 DEF QueueInv, HandledOK, Announces, Given
<1>4. QED
  BY <1>1, <1>2, <1>3 DEF QueueInv

\* A job that ends leaves the client given what was handled and what is held,
\* and what its push was about if the push is ok.
LEMMA JobStops ==
  ASSUME QueueInv, NEW ok \in BOOLEAN, JobEnds(ok),
         UNCHANGED <<live, message, fetch, closed>>,
         failures' \in 0..MaxFaults, missed' \subseteq Nat,
         job.by # "none", loaded' \in 0..live,
         closed \/ Given(loaded)',
         closed \/ \A i \in Handled : Announces(i) => Given(message[i].body)',
         ok /\ ~closed /\ job.by = "push" => Given(message[Head(consumer.batch)].body)'
  PROVE  QueueInv'
<1>1. /\ job' \in Job /\ job'.by = "none" /\ job'.step = "idle" /\ job'.version = 0
      /\ job'.etag = 0
  BY DEF JobEnds, NoJob, Job, Step, QueueAssumption
<1>2. /\ consumer' \in Consumer
      /\ consumer'.phase \in Working => consumer'.batch # <<>>
      /\ InHand' \subseteq InHand
      /\ consumer'.phase = "deleting" =>
           \/ job.by # "push" /\ consumer' = consumer
           \/ job.by = "push" /\ ok /\ consumer'.batch = consumer.batch
  <2>1. CASE job.by # "push"
    <3>1. consumer' = consumer
      BY <2>1 DEF JobEnds
    <3>2. QED
      BY <2>1, <3>1 DEF QueueInv, QueueTypeOK, QueueOK, Working, InHand
  <2>2. CASE job.by = "push" /\ ok
    <3>1. At("deleting")
      BY <2>2 DEF JobEnds, AfterPush
    <3>2. consumer.phase = "pushing" /\ consumer.batch # <<>>
      BY <2>2 DEF QueueInv, QueueTypeOK, QueueOK
    <3>3. QED
      BY <2>2, <3>1, <3>2, AtStep DEF QueueInv, Working
  <2>3. CASE job.by = "push" /\ ~ok
    <3>1. NextMessage
      BY <2>3 DEF JobEnds, AfterPush
    <3>2. consumer.phase \in Working
      BY <2>3 DEF QueueInv, QueueTypeOK, Working
    <3>3. QED
      BY <3>1, <3>2, NextMessageStep DEF QueueInv, Working
  <2>4. QED
    BY <2>1, <2>2, <2>3
<1>3. QueueTypeOK'
  BY <1>1, <1>2 DEF QueueInv, QueueTypeOK
<1>4. QueueOK'
  <2>1. live \in Nat
    BY DEF QueueInv, QueueTypeOK
  <2>2. \A i \in InHand' : message'[i].place # "unsent"
    BY <1>2 DEF QueueInv, QueueOK
  <2>3. QED
    BY <1>1, <1>2, <2>1, <2>2 DEF QueueInv, QueueOK, Working
<1>5. HandledOK'
  <2>0. closed \/ Given(loaded)'
    OBVIOUS
  <2>1. SUFFICES ASSUME ~closed,
                        NEW i \in Handled', Announces(i)
                 PROVE  Given(message[i].body)'
    BY <1>1, <2>0 DEF HandledOK, Announces
  <2>2. CASE message[i].place = "deleted"
    BY <2>1, <2>2 DEF Handled
  <2>3. CASE consumer'.phase = "deleting" /\ i = Head(consumer'.batch)
    <3>1. CASE job.by # "push" /\ consumer' = consumer
      BY <2>1, <2>3, <3>1 DEF Handled
    <3>2. CASE job.by = "push" /\ ok /\ consumer'.batch = consumer.batch
      BY <2>1, <2>3, <3>2
    <3>3. QED
      BY <1>2, <2>3, <3>1, <3>2
  <2>4. QED
    BY <2>1, <2>2, <2>3 DEF Handled
<1>6. QED
  BY <1>3, <1>4, <1>5 DEF QueueInv

\* A version goes live; a message that was sent nowhere before may announce it.
LEMMA PublishStep ==
  ASSUME QueueInv, Publish
  PROVE  QueueInv'
<1>1. /\ live < MaxPublishes /\ live' = live + 1
      /\ UNCHANGED <<consumer, job, fetch, loaded, missed, failures, active, closed>>
  BY DEF Publish, sourceVars, clientVars
<1>2. live \in Nat /\ live' \in 0..MaxPublishes /\ live <= live'
  BY <1>1 DEF QueueInv, QueueTypeOK
<1>3. InHand' = InHand
  BY <1>1 DEF InHand
<1>4. PICK changed \in SUBSET Unsent :
        \A i \in Ids : message'[i] = IF i \in changed
                                     THEN [body |-> live', place |-> "queued"]
                                     ELSE message[i]
  <2>1. CASE UNCHANGED message
    <3>1. {} \in SUBSET Unsent
      OBVIOUS
    <3>2. QED
      BY <2>1, <3>1
  <2>2. CASE /\ Unsent # {}
             /\ message' = [message EXCEPT ![CHOOSE i \in Unsent : TRUE] =
                              [body |-> live', place |-> "queued"]]
    <3>1. (CHOOSE i \in Unsent : TRUE) \in Unsent
      BY <2>2
    <3>2. message \in [Ids -> Message]
      BY DEF QueueInv, QueueTypeOK
    <3>3. {CHOOSE i \in Unsent : TRUE} \in SUBSET Unsent
      BY <3>1
    <3>4. QED
      BY <2>2, <3>2, <3>3
  <2>3. QED
    BY <2>1, <2>2 DEF Publish
<1>5. message' \in [Ids -> Message]
  <2>1. [body |-> live', place |-> "queued"] \in Message
    BY <1>1, <1>2 DEF Message, Bodies
  <2>2. message \in [Ids -> Message]
    BY DEF QueueInv, QueueTypeOK
  <2>3. message' = [i \in Ids |-> message'[i]]
    BY <2>2 DEF Publish
  <2>4. QED
    BY <1>4, <2>1, <2>2, <2>3
<1>6. QueueTypeOK'
  BY <1>1, <1>2, <1>5 DEF QueueInv, QueueTypeOK
<1>7. \A i \in Ids : message[i].place # "unsent" => message'[i] = message[i]
  BY <1>4 DEF Unsent
<1>8. QueueOK'
  <2>1. \A i \in InHand : i \in Ids
    BY DEF InHand, QueueInv, QueueTypeOK, Consumer
  <2>2. \A i \in InHand : message'[i].place # "unsent"
    BY <1>7, <2>1 DEF QueueInv, QueueOK
  <2>3. ASSUME NEW i \in Ids
        PROVE  message'[i].body <= live'
    <3>1. message[i].body \in Int /\ message[i].body <= live
      BY DEF QueueInv, QueueTypeOK, QueueOK, Message, Bodies, Stray
    <3>2. QED
      BY <1>1, <1>2, <1>4, <3>1
  <2>4. job.version <= live' /\ \A l \in Loads : fetch[l].version <= live'
    BY <1>2 DEF QueueInv, QueueTypeOK, QueueOK, Job, Fetch
  <2>5. QED
    BY <1>1, <1>3, <2>2, <2>3, <2>4 DEF QueueInv, QueueOK
<1>9. HandledOK'
  <2>1. ASSUME consumer.phase \in Working
        PROVE  Head(consumer.batch) \in Ids /\ message[Head(consumer.batch)].place # "unsent"
    BY <2>1, FirstInHand DEF QueueInv
  <2>2. ASSUME NEW i \in Handled'
        PROVE  i \in Handled /\ message'[i] = message[i]
    <3>1. CASE message'[i].place = "deleted"
      BY <1>4, <2>2, <3>1 DEF Handled
    <3>2. CASE consumer.phase = "deleting" /\ i = Head(consumer.batch)
      BY <1>7, <2>1, <3>2 DEF Handled, Working
    <3>3. QED
      BY <1>1, <2>2, <3>1, <3>2 DEF Handled
  <2>3. job.by = "push" => message'[Head(consumer.batch)] = message[Head(consumer.batch)]
    BY <1>7, <2>1 DEF QueueInv, QueueTypeOK, Working
  <2>4. QED
    BY <1>1, <2>2, <2>3 DEF QueueInv, HandledOK, Announces, Given
<1>10. QED
  BY <1>6, <1>8, <1>9 DEF QueueInv

\* The loop's own steps.
LEMMA ReceiveStep ==
  ASSUME QueueInv, NEW i \in Ids, Receive(i)
  PROVE  QueueInv'
<1>1. PICK batch \in {<<i>>} \union {<<i, j>> : j \in Queued \ {i}} :
        consumer' = [phase |-> "taking", batch |-> batch]
  BY DEF Receive
<1>2. /\ UNCHANGED <<live, message, failures, sourceVars, clientVars>>
      /\ i \in Queued /\ consumer.phase = "receiving"
  BY DEF Receive
<1>3. /\ batch \in Seq(Ids) /\ batch # <<>>
      /\ \A k \in DOMAIN batch : batch[k] \in Queued
  <2>1. CASE batch = <<i>>
    BY <1>2, <2>1
  <2>2. ASSUME NEW j \in Queued, batch = <<i, j>>
        PROVE  /\ batch \in Seq(Ids) /\ batch # <<>>
               /\ \A k \in DOMAIN batch : batch[k] \in Queued
    <3>1. j \in Ids
      BY DEF Queued
    <3>2. QED
      BY <1>2, <2>2, <3>1
  <2>3. QED
    BY <2>1, <2>2
<1>4. /\ consumer' \in Consumer /\ consumer'.phase = "taking"
      /\ consumer'.batch # <<>>
  BY <1>1, <1>3 DEF Consumer
<1>5. \A m \in InHand' : message[m].place # "unsent"
  BY <1>1, <1>3 DEF InHand, Queued
<1>6. failures' \in 0..MaxFaults /\ job.by # "push"
  BY <1>2 DEF QueueInv, QueueTypeOK
<1>7. QED
  BY <1>2, <1>4, <1>5, <1>6, LoopMoves

\* Sleeping, taking, aborting, and deciding that a push comes too late.
LEMMA LoopStep ==
  ASSUME QueueInv, ReceiveFails \/ SleepEnds \/ Take \/ Aborted \/ PushSkipped
  PROVE  QueueInv'
<1>1. UNCHANGED <<live, message, sourceVars, clientVars>>
  BY DEF ReceiveFails, SleepEnds, Take, Aborted, PushSkipped
<1>2. failures' \in 0..MaxFaults
  BY DEF ReceiveFails, SleepEnds, Take, Aborted, PushSkipped, Fails, QueueInv, QueueTypeOK
<1>3. job.by # "push"
  BY DEF ReceiveFails, SleepEnds, Take, Aborted, PushSkipped, QueueInv, QueueTypeOK
<1>4. CASE ReceiveFails \/ SleepEnds \/ Aborted
  <2>1. PICK phase \in {"receiving", "sleeping", "stopped"} : At(phase)
    BY <1>4 DEF ReceiveFails, SleepEnds, Aborted
  <2>2. /\ consumer' \in Consumer /\ consumer'.phase = phase /\ InHand' = InHand
    BY <2>1, AtStep DEF QueueInv
  <2>3. QED
    BY <1>1, <1>2, <1>3, <2>2, LoopMoves DEF Working, QueueInv, QueueOK
<1>5. CASE PushSkipped
  <2>1. At("deleting") /\ closed /\ consumer.phase = "pushing"
    BY <1>5 DEF PushSkipped
  <2>2. /\ consumer' \in Consumer /\ consumer'.batch = consumer.batch
        /\ InHand' = InHand
    BY <2>1, AtStep DEF QueueInv, Working
  <2>3. consumer.batch # <<>>
    BY <2>1 DEF QueueInv, QueueOK
  <2>4. QED
    BY <1>1, <1>2, <1>3, <2>1, <2>2, <2>3, LoopMoves DEF QueueInv, QueueOK
<1>6. CASE Take /\ closed
  <2>1. consumer' = [phase |-> "stopped", batch |-> <<>>]
    BY <1>6 DEF Take, GoesOn
  <2>2. <<>> \in Seq(Ids) /\ DOMAIN <<>> = {}
    OBVIOUS
  <2>3. consumer' \in Consumer /\ consumer'.phase = "stopped" /\ InHand' = {}
    BY <2>1, <2>2 DEF Consumer, InHand
  <2>4. QED
    BY <1>1, <1>2, <1>3, <2>3, LoopMoves DEF Working
<1>7. CASE Take /\ ~closed
  <2>1. PICK phase \in {"deleting", "pushing"} :
          /\ At(phase)
          /\ phase = "deleting" =>
               message[Head(consumer.batch)].body = Stray
    BY <1>7 DEF Take, GoesOn
  <2>2. /\ consumer' \in Consumer /\ consumer'.batch = consumer.batch
        /\ consumer'.phase = phase /\ InHand' = InHand
    BY <2>1, AtStep DEF QueueInv, Working
  <2>3. consumer.batch # <<>>
    BY <1>7 DEF Take, QueueInv, QueueOK
  <2>4. QED
    BY <1>1, <1>2, <1>3, <2>1, <2>2, <2>3, LoopMoves DEF QueueInv, QueueOK
<1>8. QED
  BY <1>4, <1>5, <1>6, <1>7

\* A message leaves the queue, or stays in it, and the loop goes on.
LEMMA DeleteStep ==
  ASSUME QueueInv, Delete \/ DeleteFails
  PROVE  QueueInv'
<1>1. /\ consumer.phase = "deleting" /\ NextMessage
      /\ UNCHANGED <<live, sourceVars, clientVars>>
      /\ failures' \in 0..MaxFaults
  BY DEF Delete, DeleteFails, Fails, QueueInv, QueueTypeOK
<1>2. /\ consumer' \in Consumer
      /\ consumer'.phase \in {"taking", "receiving", "stopped"}
      /\ consumer'.phase = "taking" => consumer'.batch # <<>>
      /\ InHand' \subseteq InHand
  BY <1>1, NextMessageStep DEF QueueInv, Working
<1>3. job.by # "push" /\ UNCHANGED <<job, fetch, loaded, missed, active, closed>>
  BY <1>1 DEF QueueInv, QueueTypeOK, sourceVars, clientVars
<1>4. CASE DeleteFails
  <2>1. UNCHANGED message
    BY <1>4 DEF DeleteFails
  <2>2. QED
    BY <1>1, <1>2, <1>3, <2>1, LoopMoves DEF QueueInv, QueueOK, Working
<1>5. CASE Delete
  <2> DEFINE h == Head(consumer.batch)
  <2>1. h \in Ids /\ h \in Handled
    BY <1>1, FirstInHand DEF QueueInv, Working, Handled
  <2>2. message' = [message EXCEPT ![h].place = "deleted"]
    BY <1>5 DEF Delete
  <2>3. message \in [Ids -> Message]
    BY DEF QueueInv, QueueTypeOK
  <2>4. /\ message' \in [Ids -> Message]
        /\ \A i \in Ids : /\ message'[i].body = message[i].body
                          /\ i # h => message'[i] = message[i]
        /\ message'[h].place = "deleted"
    BY <2>1, <2>2, <2>3 DEF Message
  <2> HIDE DEF h
  <2>5. QueueTypeOK'
    BY <1>1, <1>2, <1>3, <2>4 DEF QueueInv, QueueTypeOK
  <2>6. InHand \subseteq Ids
    BY DEF InHand, QueueInv, QueueTypeOK, Consumer
  <2>7. \A i \in InHand' : message'[i].place # "unsent"
    BY <1>2, <2>4, <2>6 DEF QueueInv, QueueOK
  <2>8. QueueOK'
    BY <1>1, <1>2, <1>3, <2>4, <2>7 DEF QueueInv, QueueOK
  <2>9. Handled' \subseteq Handled
    BY <1>2, <2>1, <2>4 DEF Handled
  <2>10. HandledOK'
    BY <1>1, <1>3, <2>4, <2>9 DEF QueueInv, HandledOK, Announces, Handled, Given
  <2>11. QED
    BY <2>5, <2>8, <2>10 DEF QueueInv
<1>6. QED
  BY <1>4, <1>5

\* A job starts, asks for the pointer, acts on the answer, reads the snapshot,
\* fails.
LEMMA StartJobStep ==
  ASSUME QueueInv, NEW by \in {"tick", "push"}, StartJob(by)
  PROVE  QueueInv'
<1>1. PICK etag \in IF by = "push" THEN {0} ELSE {0, loaded} :
        job' = [by |-> by, step |-> "pointer", version |-> 0, etag |-> etag]
  BY DEF StartJob
<1>2. /\ (by = "push") = (consumer.phase = "pushing")
      /\ UNCHANGED <<live, message, consumer, fetch, loaded, missed, failures,
                     active, closed>>
  BY DEF StartJob, clientVars
<1>3. live \in 0..MaxPublishes /\ loaded \in 0..live
  BY DEF QueueInv, QueueTypeOK
<1>4. etag \in 0..MaxPublishes /\ (by = "push" => etag = 0)
  BY <1>3
<1>5. job' \in Job
  BY <1>1, <1>4 DEF Job, Step
<1>6. QueueTypeOK' /\ QueueOK'
  BY <1>1, <1>2, <1>3, <1>5 DEF QueueInv, QueueTypeOK, QueueOK, InHand
<1>7. HandledOK'
  BY <1>1, <1>2, <1>4 DEF QueueInv, HandledOK, Handled, Announces, Given
<1>8. QED
  BY <1>6, <1>7 DEF QueueInv

LEMMA JobPointerStep ==
  ASSUME QueueInv, JobPointer
  PROVE  QueueInv'
<1>1. /\ job.step = "pointer" /\ live # 0
      /\ job' = [job EXCEPT !.step = "answered", !.etag = 0,
                            !.version = IF live = job.etag THEN 0 ELSE live]
      /\ UNCHANGED <<live, message, consumer, fetch, loaded, missed, failures,
                     active, closed>>
  BY DEF JobPointer, clientVars
<1>2. /\ live \in 0..MaxPublishes /\ job \in Job
      /\ \A i \in Ids : message[i].body \in Int /\ message[i].body <= live
  BY DEF QueueInv, QueueTypeOK, QueueOK, Message, Bodies, Stray
<1>3. job.by = "push" => Head(consumer.batch) \in Ids
  BY FirstInHand DEF QueueInv, QueueTypeOK, Working
<1>4. /\ job' \in Job /\ job'.by = job.by /\ job'.step = "answered" /\ job'.etag = 0
      /\ job'.version = 0 \/ job'.version = live
      /\ job.etag = 0 => job'.version = live
  <2>1. PICK v \in 0..MaxPublishes : v = IF live = job.etag THEN 0 ELSE live
    BY <1>2
  <2>2. job' = [job EXCEPT !.step = "answered", !.etag = 0, !.version = v]
    BY <1>1, <2>1
  <2>3. job' = [by |-> job.by, step |-> "answered", version |-> v, etag |-> 0]
    BY <1>2, <2>2 DEF Job
  <2>4. job.by \in {"none", "tick", "push"} /\ 0 \in 0..MaxPublishes
    BY <1>2, QueueAssumption DEF Job
  <2>5. job' \in Job
    BY <2>3, <2>4 DEF Job, Step
  <2>6. QED
    BY <1>1, <2>1, <2>3, <2>5
<1>5. QueueTypeOK'
  BY <1>1, <1>4 DEF QueueInv, QueueTypeOK
<1>6. QueueOK'
  BY <1>1, <1>2, <1>4 DEF QueueInv, QueueOK, InHand
<1>7. HandledOK'
  <2>1. SUFFICES ASSUME ~closed PROVE HandledOK'
    BY <1>1 DEF HandledOK
  <2>2. Given(loaded)' /\ \A i \in Handled : Announces(i) => Given(message[i].body)'
    BY <1>1, <2>1 DEF QueueInv, HandledOK, Given
  <2>3. job.by = "push" => job'.version = live
    BY <1>4, <2>1 DEF QueueInv, HandledOK
  <2>4. QED
    BY <1>1, <1>2, <1>3, <1>4, <2>2, <2>3 DEF HandledOK, Handled, Announces
<1>8. QED
  BY <1>5, <1>6, <1>7 DEF QueueInv

LEMMA JobFollowsStep ==
  ASSUME QueueInv, ClientTypeOK, JobFollows
  PROVE  QueueInv'
<1>1. /\ job.step = "answered" /\ job.by # "none"
      /\ UNCHANGED <<live, message, fetch, loaded, missed, failures, active, closed>>
  BY DEF JobFollows, clientVars, QueueInv, QueueOK
<1>2. /\ live \in Nat /\ loaded \in 0..live /\ missed \subseteq Nat /\ job \in Job
      /\ failures \in 0..MaxFaults
      /\ \A i \in Ids : message[i].body \in Int
  BY DEF QueueInv, QueueTypeOK, Message, Bodies, Stray
<1>3. closed \/ Given(loaded)
  BY DEF QueueInv, HandledOK
<1>4. closed \/ \A i \in Handled : Announces(i) => Given(message[i].body)
  BY DEF QueueInv, HandledOK
<1>5. CASE job.version \in {0, loaded}
  <2>1. JobEnds(TRUE)
    BY <1>5 DEF JobFollows
  <2>2. ~closed /\ job.by = "push" => Given(message[Head(consumer.batch)].body)
    <3>1. SUFFICES ASSUME ~closed, job.by = "push"
                   PROVE  Given(message[Head(consumer.batch)].body)
      OBVIOUS
    <3>2. loaded >= message[Head(consumer.batch)].body
      BY <1>1, <1>5, <3>1 DEF QueueInv, HandledOK
    <3>3. Head(consumer.batch) \in Ids
      BY <3>1, FirstInHand DEF QueueInv, QueueTypeOK, Working
    <3>4. PICK b \in Int : b = message[Head(consumer.batch)].body
      BY <1>2, <3>3
    <3>5. PICK v \in Int : v = loaded
      BY <1>2
    <3>6. Given(v) /\ b <= v
      BY <1>3, <3>1, <3>2, <3>4, <3>5
    <3>7. Given(b)
      BY <1>2, <3>6, GivenOlder
    <3>8. QED
      BY <3>4, <3>7
  <2>3. /\ closed \/ Given(loaded)'
        /\ closed \/ \A i \in Handled : Announces(i) => Given(message[i].body)'
        /\ ~closed /\ job.by = "push" => Given(message[Head(consumer.batch)].body)'
    <3>1. CASE closed
      BY <3>1
    <3>2. CASE ~closed
      <4>1. Given(loaded)'
        BY <1>1, <1>3, <3>2 DEF Given
      <4>2. ASSUME NEW i \in Handled, Announces(i)
            PROVE  Given(message[i].body)'
        BY <1>1, <1>4, <3>2, <4>2 DEF Given
      <4>3. job.by = "push" => Given(message[Head(consumer.batch)].body)'
        <5>1. SUFFICES ASSUME job.by = "push"
                       PROVE  Given(message[Head(consumer.batch)].body)'
          OBVIOUS
        <5>2. consumer'.batch = consumer.batch
          BY <2>1, <5>1 DEF JobEnds, AfterPush, At, QueueInv, QueueTypeOK, Consumer
        <5>3. QED
          BY <1>1, <2>2, <3>2, <5>1, <5>2 DEF Given
      <4>4. QED
        BY <4>1, <4>2, <4>3
    <3>3. QED
      BY <3>1, <3>2
  <2>4. QED
    BY <1>1, <1>2, <2>1, <2>3, JobStops
<1>6. CASE job.version \notin {0, loaded}
  <2>1. job' = [job EXCEPT !.step = "snapshot"] /\ consumer' = consumer
    BY <1>6 DEF JobFollows
  <2>2. /\ job' \in Job /\ job'.by = job.by /\ job'.step = "snapshot"
        /\ job'.version = job.version /\ job'.etag = job.etag
    BY <1>2, <2>1 DEF Job, Step
  <2>3. QueueTypeOK'
    BY <1>1, <2>1, <2>2 DEF QueueInv, QueueTypeOK
  <2>4. QueueOK'
    BY <1>1, <1>6, <2>1, <2>2 DEF QueueInv, QueueOK, InHand
  <2>5. HandledOK'
    BY <1>1, <2>1, <2>2 DEF QueueInv, HandledOK, Handled, Announces, Given
  <2>6. QED
    BY <2>3, <2>4, <2>5 DEF QueueInv
<1>7. QED
  BY <1>5, <1>6

\* What the client is given it serves, or it is among what it missed; refreshes
\* never take from it what it was given.
LEMMA LoadHandsOverGives ==
  ASSUME ClientTypeOK, missed \subseteq Nat, NEW l \in Loads, NEW w \in Nat \ {0},
         LoadHandsOver(l, w)
  PROVE  /\ missed' \subseteq Nat /\ closed' = closed
         /\ \E p \in Handed : RefreshLoaded(l, p)
         /\ active'.version >= w \/ w \in missed'
         /\ active'.version >= active.version \/ active.version \in missed'
         /\ missed \subseteq missed' /\ active'.version \in Nat
<1>1. /\ RefreshLoaded(l, [version |-> w, segment |-> 0])
      /\ missed' = missed \union {v \in {w, active.version} : v > active'.version}
  BY DEF LoadHandsOver, Misses
<1>2. [version |-> w, segment |-> 0] \in Handed
  BY VersionsArePayloads
<1>3. ClientMoves
  BY <1>1, <1>2 DEF ClientMoves
<1>4. active'.version \in Nat /\ active.version \in Nat
  BY <1>3, ClientStep DEF ClientTypeOK, Payload
<1>5. closed' = closed
  BY <1>1 DEF RefreshLoaded
<1>6. /\ active'.version >= w \/ w > active'.version
      /\ active'.version >= active.version \/ active.version > active'.version
  BY <1>4
<1>7. missed' \subseteq Nat
  BY <1>1, <1>4
<1>8. /\ active'.version >= w \/ w \in missed'
      /\ active'.version >= active.version \/ active.version \in missed'
      /\ missed \subseteq missed'
  BY <1>1, <1>6
<1>9. QED
  BY <1>1, <1>2, <1>4, <1>5, <1>7, <1>8

LEMMA JobSnapshotStep ==
  ASSUME QueueInv, ClientTypeOK, JobSnapshot
  PROVE  QueueInv' /\ ClientMoves /\ (closed => UNCHANGED clientVars)
<1> DEFINE w == job.version
<1>1. /\ job.step = "snapshot" /\ loaded' = w
      /\ JobEnds(TRUE)
      /\ UNCHANGED <<live, message, fetch, failures>>
  BY DEF JobSnapshot
<1>2. w \in Nat \ {0} /\ w <= live /\ job.by # "none" /\ missed \subseteq Nat
  BY <1>1 DEF QueueInv, QueueTypeOK, QueueOK, Job
<1>3. \/ closed /\ UNCHANGED <<missed, clientVars>>
      \/ /\ ~closed
         /\ Delivered([version |-> w, segment |-> 0])
         /\ missed' = missed \union {v \in {w} : v > active'.version}
  BY DEF JobSnapshot, Misses
<1>4. ClientMoves /\ UNCHANGED closed
  BY <1>1, <1>2, <1>3, VersionsArePayloads DEF ClientMoves, Delivered, clientVars
<1>5. active'.version \in Nat /\ missed' \subseteq Nat
  <2>1. active'.version \in Nat
    BY <1>4, ClientStep DEF ClientTypeOK, Payload
  <2>2. QED
    BY <1>2, <1>3, <2>1
<1>6. loaded' \in 0..live /\ failures' \in 0..MaxFaults
  BY <1>1, <1>2 DEF QueueInv, QueueTypeOK
<1>7. ASSUME ~closed, NEW b \in Int, b <= w
      PROVE  active'.version >= b \/ \E v \in missed' : v >= b
  <2>1. active'.version >= w \/ w \in missed'
    BY <1>2, <1>3, <1>5, <1>7
  <2>2. QED
    BY <1>2, <1>5, <1>7, <2>1
<1>8. \A i \in Ids : message[i].body \in Int
  BY DEF QueueInv, QueueTypeOK, Message, Bodies, Stray
<1> HIDE DEF w
<1>9. closed \/ Given(loaded)'
  BY <1>1, <1>2, <1>7 DEF Given
<1>10. ASSUME ~closed, NEW i \in Handled, Announces(i)
       PROVE  Given(message[i].body)'
  <2>1. message[i].body \in Int /\ message[i].body <= w
    BY <1>2, <1>8, <1>10 DEF QueueInv, HandledOK, Handled, w
  <2>2. QED
    BY <1>1, <1>7, <1>10, <2>1 DEF Given
<1>11. ~closed /\ job.by = "push" => Given(message[Head(consumer.batch)].body)'
  <2>1. SUFFICES ASSUME ~closed, job.by = "push"
                 PROVE  Given(message[Head(consumer.batch)].body)'
    OBVIOUS
  <2>2. Head(consumer.batch) \in Ids
    BY <2>1, FirstInHand DEF QueueInv, QueueTypeOK, Working
  <2>3. /\ message[Head(consumer.batch)].body \in Int
        /\ message[Head(consumer.batch)].body <= w
    BY <1>1, <1>8, <2>1, <2>2 DEF QueueInv, HandledOK, w
  <2>4. consumer'.batch = consumer.batch
    BY <1>1, <2>1 DEF JobEnds, AfterPush, At, QueueInv, QueueTypeOK, Consumer
  <2>5. QED
    BY <1>1, <1>7, <2>1, <2>3, <2>4 DEF Given
<1>12. QueueInv'
  BY <1>1, <1>2, <1>4, <1>5, <1>6, <1>9, <1>10, <1>11, JobStops
<1>13. QED
  BY <1>3, <1>4, <1>12

LEMMA JobFailsStep ==
  ASSUME QueueInv, JobFails
  PROVE  QueueInv'
<1>1. /\ job.by # "none" /\ JobEnds(FALSE)
      /\ UNCHANGED <<live, message, fetch, loaded, missed, active, closed>>
  BY DEF JobFails, Answerless, clientVars, QueueInv, QueueOK
<1>2. failures' \in 0..MaxFaults /\ loaded \in 0..live /\ missed \subseteq Nat
  BY DEF JobFails, Answerless, Fails, QueueInv, QueueTypeOK
<1>3. closed \/ Given(loaded)'
  BY <1>1 DEF QueueInv, HandledOK, Given
<1>4. closed \/ \A i \in Handled : Announces(i) => Given(message[i].body)'
  BY <1>1 DEF QueueInv, HandledOK, Given
<1>5. QED
  BY <1>1, <1>2, <1>3, <1>4, JobStops

\* Whatever the queue does, it moves the client only by handing it a version,
\* and not at all once the client is closed.
LEMMA QueueStep ==
  ASSUME QueueInv, ClientTypeOK, QueueNext
  PROVE  /\ QueueInv' /\ ClientMoves
         /\ UNCHANGED <<ticket, closed>>
         /\ closed => UNCHANGED clientVars
<1>1. ASSUME \/ Publish \/ ReceiveFails \/ DeleteFails \/ JobFails \/ Consumes
             \/ JobPointer \/ JobFollows
      PROVE  QueueInv' /\ UNCHANGED clientVars
  <2>1. UNCHANGED clientVars
    BY <1>1 DEF Publish, ReceiveFails, DeleteFails, JobFails, Consumes, SleepEnds,
                Take, Delete, Aborted, PushSkipped, JobPointer, JobFollows
  <2>2. QED
    BY <1>1, <2>1, PublishStep, LoopStep, DeleteStep, JobFailsStep, JobPointerStep,
       JobFollowsStep DEF Consumes
<1>2. ASSUME NEW i \in Ids, Receive(i)
      PROVE  QueueInv' /\ UNCHANGED clientVars
  BY <1>2, ReceiveStep DEF Receive
<1>3. ASSUME NEW by \in {"tick", "push"}, StartJob(by)
      PROVE  QueueInv' /\ UNCHANGED clientVars
  BY <1>3, StartJobStep DEF StartJob
<1>4. ASSUME JobSnapshot
      PROVE  /\ QueueInv' /\ ClientMoves /\ UNCHANGED <<ticket, closed>>
             /\ closed => UNCHANGED clientVars
  BY <1>4, JobSnapshotStep DEF JobSnapshot, Delivered, clientVars
<1>5. CASE JobSnapshot
  BY <1>4, <1>5
<1>6. CASE ~JobSnapshot
  <2>1. QueueInv' /\ UNCHANGED clientVars
    BY <1>1, <1>2, <1>3, <1>6 DEF QueueNext, JobGoesOn
  <2>2. QED
    BY <2>1 DEF ClientMoves, clientVars
<1>7. QED
  BY <1>5, <1>6

\* A step of load() that leaves the client what it was given.
LEMMA LoadKeeps ==
  ASSUME QueueInv, UNCHANGED <<live, message, consumer, job, closed>>,
         failures' \in 0..MaxFaults, missed' \subseteq Nat, loaded' \in 0..live,
         NEW l \in Loads, NEW to \in Fetch, fetch' = [fetch EXCEPT ![l] = to],
         to.version <= live, to.step \in {"answered", "snapshot"} => to.version # 0,
         closed \/ Given(loaded)',
         closed \/ \A i \in Handled : Announces(i) => Given(message[i].body)'
  PROVE  QueueInv'
<1>1. fetch \in [Loads -> Fetch]
  BY DEF QueueInv, QueueTypeOK
<1>2. /\ fetch' \in [Loads -> Fetch] /\ fetch'[l] = to
      /\ \A x \in Loads \ {l} : fetch'[x] = fetch[x]
  BY <1>1
<1>3. QueueTypeOK'
  BY <1>2 DEF QueueInv, QueueTypeOK
<1>4. QueueOK'
  <2>1. ASSUME NEW x \in Loads
        PROVE  /\ fetch'[x].version <= live
               /\ fetch'[x].step \in {"answered", "snapshot"} => fetch'[x].version # 0
    BY <1>2 DEF QueueInv, QueueOK
  <2>2. QED
    BY <2>1 DEF QueueInv, QueueOK, InHand
<1>5. HandledOK'
  <2>1. CASE closed
    BY <2>1 DEF HandledOK
  <2>2. CASE ~closed
    <3>1. ASSUME NEW i \in Handled', Announces(i)'
          PROVE  /\ Given(message[i].body)'
                 /\ job'.version # 0 => job'.version >= message'[i].body
      <4>1. i \in Handled /\ Announces(i)
        BY <3>1 DEF Handled, Announces
      <4>2. QED
        BY <2>2, <4>1 DEF QueueInv, HandledOK
    <3>2. Given(loaded)'
      BY <2>2
    <3>3. /\ (job'.by = "push" /\ job'.step \in {"answered", "snapshot"}) =>
               /\ job'.version >= message'[Head(consumer'.batch)].body
               /\ job'.version # 0
          /\ job'.by = "push" => job'.etag = 0
      BY <2>2 DEF QueueInv, HandledOK
    <3>4. QED
      BY <3>1, <3>2, <3>3 DEF HandledOK
  <2>3. QED
    BY <2>1, <2>2
<1>6. QED
  BY <1>3, <1>4, <1>5 DEF QueueInv

LEMMA LoadHandsOverStep ==
  ASSUME QueueInv, ClientTypeOK, NEW l \in Loads, NEW w \in (0..live) \ {0},
         LoadHandsOver(l, w), loaded' = w, UNCHANGED <<live, message, consumer, job, failures>>
  PROVE  QueueInv' /\ ClientMoves /\ UNCHANGED closed
<1>1. /\ live \in Nat /\ missed \subseteq Nat /\ failures \in 0..MaxFaults
      /\ \A i \in Ids : message[i].body \in Int
  BY DEF QueueInv, QueueTypeOK, Message, Bodies, Stray
<1>2. w \in Nat \ {0}
  BY <1>1
<1>3. /\ missed' \subseteq Nat /\ closed' = closed
      /\ \E p \in Handed : RefreshLoaded(l, p)
      /\ active'.version >= w \/ w \in missed'
      /\ active'.version >= active.version \/ active.version \in missed'
      /\ missed \subseteq missed' /\ active'.version \in Nat
  BY <1>1, <1>2, LoadHandsOverGives
<1>4. ClientMoves
  BY <1>3 DEF ClientMoves
<1>5. Given(loaded)'
  BY <1>2, <1>3 DEF Given
<1>6. closed \/ \A i \in Handled : Announces(i) => Given(message[i].body)'
  <2>1. SUFFICES ASSUME ~closed, NEW i \in Handled, Announces(i)
                 PROVE  Given(message[i].body)'
    OBVIOUS
  <2>2. Given(message[i].body) /\ message[i].body \in Int /\ active.version \in Nat
    BY <1>1, <2>1 DEF QueueInv, HandledOK, Handled, ClientTypeOK, Payload
  <2>3. PICK b \in Int : b = message[i].body
    BY <2>2
  <2>4. active.version >= b \/ \E v \in missed : v >= b
    BY <2>2, <2>3 DEF Given
  <2>5. active'.version >= b \/ \E v \in missed' : v >= b
    <3>1. CASE active.version >= b
      <4>1. CASE active'.version >= active.version
        BY <1>3, <2>2, <2>3, <3>1, <4>1
      <4>2. CASE active.version \in missed'
        BY <3>1, <4>2
      <4>3. QED
        BY <1>3, <4>1, <4>2
    <3>2. CASE \E v \in missed : v >= b
      BY <1>3, <3>2
    <3>3. QED
      BY <2>4, <3>1, <3>2
  <2>6. message' = message
    OBVIOUS
  <2>7. QED
    BY <2>3, <2>5, <2>6 DEF Given
<1>7. NoFetch \in Fetch /\ NoFetch.version <= live /\ NoFetch.step = "idle"
  BY <1>1 DEF NoFetch, Fetch, Step
<1>8. fetch' = [fetch EXCEPT ![l] = NoFetch]
  BY DEF LoadHandsOver
<1>9. loaded' \in 0..live
  BY <1>1
<1>10. QueueInv'
  BY <1>1, <1>3, <1>5, <1>6, <1>7, <1>8, <1>9, LoadKeeps
<1>11. QED
  BY <1>3, <1>4, <1>10

\* load() of a refresh is called, and goes on.
LEMMA QueueLoadStep ==
  ASSUME QueueInv, NEW l \in Loads, QueueLoad(l)
  PROVE  QueueInv' /\ ClientMoves /\ UNCHANGED closed
<1> DEFINE to == [step |-> "pointer", version |-> 0]
<1>1. /\ BeginRefresh(l) /\ fetch' = [fetch EXCEPT ![l] = to]
      /\ UNCHANGED <<live, message, consumer, job, loaded, missed, failures, active, closed>>
  BY DEF QueueLoad, BeginRefresh
<1>2. /\ live \in Nat /\ loaded \in 0..live /\ missed \subseteq Nat
      /\ failures \in 0..MaxFaults
  BY DEF QueueInv, QueueTypeOK
<1>3. to \in Fetch /\ to.version <= live /\ to.step = "pointer"
  BY <1>2 DEF Fetch, Step
<1> HIDE DEF to
<1>4. closed \/ Given(loaded)'
  BY <1>1 DEF QueueInv, HandledOK, Given
<1>5. closed \/ \A i \in Handled : Announces(i) => Given(message[i].body)'
  BY <1>1 DEF QueueInv, HandledOK, Given
<1>6. QueueInv'
  BY <1>1, <1>2, <1>3, <1>4, <1>5, LoadKeeps
<1>7. QED
  BY <1>1, <1>6 DEF ClientMoves

LEMMA LoadGoesOnStep ==
  ASSUME QueueInv, ClientTypeOK, NEW l \in Loads, LoadGoesOn(l)
  PROVE  QueueInv' /\ ClientMoves /\ UNCHANGED closed
<1>1. UNCHANGED <<live, message, consumer, job>>
  BY DEF LoadGoesOn
<1>2. /\ live \in 0..MaxPublishes /\ loaded \in 0..live /\ missed \subseteq Nat
      /\ failures \in 0..MaxFaults
      /\ fetch \in [Loads -> Fetch] /\ fetch[l] \in Fetch /\ fetch[l].version <= live
      /\ fetch[l].step \in {"answered", "snapshot"} => fetch[l].version # 0
  BY DEF QueueInv, QueueTypeOK, QueueOK
<1>3. ASSUME NEW to \in Fetch, fetch' = [fetch EXCEPT ![l] = to], to.version <= live,
             to.step \in {"answered", "snapshot"} => to.version # 0,
             UNCHANGED <<loaded, missed, active, closed>>, failures' \in 0..MaxFaults
      PROVE  QueueInv'
  <2>1. closed \/ Given(loaded)'
    BY <1>3 DEF QueueInv, HandledOK, Given
  <2>2. closed \/ \A i \in Handled : Announces(i) => Given(message[i].body)'
    BY <1>1, <1>3 DEF QueueInv, HandledOK, Given
  <2>3. QED
    BY <1>1, <1>2, <1>3, <2>1, <2>2, LoadKeeps
<1>4. CASE LoadPointer(l)
  <2> DEFINE to == [step |-> "answered", version |-> live]
  <2>1. /\ live # 0 /\ fetch' = [fetch EXCEPT ![l] = to]
        /\ UNCHANGED <<loaded, missed, failures, clientVars>>
    BY <1>4 DEF LoadPointer
  <2>2. to \in Fetch /\ to.version <= live /\ to.version # 0
    BY <1>2, <2>1 DEF Fetch, Step
  <2> HIDE DEF to
  <2>3. QueueInv'
    BY <1>2, <1>3, <2>1, <2>2 DEF clientVars
  <2>4. QED
    BY <2>1, <2>3 DEF ClientMoves, clientVars
<1>5. CASE LoadFollows(l) /\ fetch[l].version # loaded
  <2> DEFINE to == [fetch[l] EXCEPT !.step = "snapshot"]
  <2>1. /\ fetch[l].step = "answered" /\ fetch' = [fetch EXCEPT ![l] = to]
        /\ UNCHANGED <<loaded, missed, failures, clientVars>>
    BY <1>2, <1>5 DEF LoadFollows
  <2>2. to \in Fetch /\ to.version <= live /\ to.version # 0
    BY <1>2, <2>1 DEF Fetch, Step
  <2> HIDE DEF to
  <2>3. QueueInv'
    BY <1>2, <1>3, <2>1, <2>2 DEF clientVars
  <2>4. QED
    BY <2>1, <2>3 DEF ClientMoves, clientVars
<1>6. CASE LoadFollows(l) /\ fetch[l].version = loaded
  <2>1. PICK w \in 0..live : w = fetch[l].version
    BY <1>2 DEF Fetch
  <2>2. /\ LoadHandsOver(l, w) /\ loaded' = w /\ w # 0
        /\ UNCHANGED failures
    BY <1>2, <1>6, <2>1 DEF LoadFollows
  <2>3. QED
    BY <1>1, <2>2, LoadHandsOverStep
<1>7. CASE LoadSnapshot(l)
  <2>1. PICK w \in 0..live : w = fetch[l].version
    BY <1>2 DEF Fetch
  <2>2. /\ LoadHandsOver(l, w) /\ loaded' = w /\ w # 0
        /\ UNCHANGED failures
    BY <1>2, <1>7, <2>1 DEF LoadSnapshot
  <2>3. QED
    BY <1>1, <2>2, LoadHandsOverStep
<1>8. CASE LoadFails(l)
  <2>1. /\ RefreshFailed(l) /\ fetch' = [fetch EXCEPT ![l] = NoFetch]
        /\ UNCHANGED <<loaded, missed, active, closed>> /\ failures' \in 0..MaxFaults
    BY <1>2, <1>8 DEF LoadFails, RefreshFailed, Answerless, Fails
  <2>2. NoFetch \in Fetch /\ NoFetch.version <= live /\ NoFetch.step = "idle"
    BY <1>2 DEF NoFetch, Fetch, Step
  <2>3. QueueInv'
    BY <1>3, <2>1, <2>2
  <2>4. QED
    BY <2>1, <2>3 DEF ClientMoves
<1>9. QED
  BY <1>4, <1>5, <1>6, <1>7, <1>8 DEF LoadGoesOn

\* The source rests while the client is closed, or nothing happens to it.
LEMMA QueueRests ==
  ASSUME QueueInv, QueueOff, UNCHANGED <<queueVars, kind, active>>,
         closed' = closed \/ closed'
  PROVE  QueueInv' /\ QueueOff'
<1>0. UNCHANGED <<live, message, consumer, failures, job, fetch, loaded, missed, active>>
  BY DEF queueVars, sourceVars
<1>1. QueueTypeOK' /\ QueueOK'
  BY <1>0 DEF QueueInv, QueueTypeOK, QueueOK, InHand
<1>2. HandledOK'
  BY <1>0 DEF QueueInv, HandledOK, Handled, Announces, Given
<1>3. QueueOff'
  BY <1>0 DEF QueueOff, Handled
<1>4. QED
  BY <1>1, <1>2, <1>3 DEF QueueInv

\* Where there is no queue, the client is told nothing of one.
LEMMA QueueAbsent ==
  ASSUME QueueInv, QueueOff, kind # "queue", UNCHANGED <<queueVars, kind>>,
         ClientTypeOK'
  PROVE  QueueInv' /\ QueueOff'
<1>0. UNCHANGED <<live, message, consumer, failures, job, fetch, loaded, missed>>
  BY DEF queueVars, sourceVars
<1>1. QueueTypeOK' /\ QueueOK'
  BY <1>0 DEF QueueInv, QueueTypeOK, QueueOK, InHand
<1>2. QueueOff' /\ loaded' = 0 /\ Handled' = {} /\ job' = NoJob
  BY <1>0 DEF QueueOff, Handled
<1>3. Given(loaded)'
  BY <1>2 DEF Given, ClientTypeOK, Payload
<1>4. HandledOK'
  BY <1>2, <1>3 DEF HandledOK, NoJob
<1>5. QED
  BY <1>1, <1>2, <1>4 DEF QueueInv

-----------------------------------------------------------------------------
(* The application. *)

LifeTypeOK ==
  /\ kind \in Kinds
  /\ app \in Lives
  /\ other \in {"new", "up", "down"}
  /\ {bound, newest} \subseteq {"none", "app", "other"}

LEMMA InvariantParts ==
  IInv <=> /\ ClientTypeOK /\ FileInv /\ QueueInv /\ QueueOff
           /\ LifeTypeOK /\ LifeOK /\ BoundIsNewest
BY DEF IInv, TypeOK, FileInv, QueueInv, LifeTypeOK

LEMMA InitialInvariant == Init => IInv
<1> SUFFICES ASSUME Init PROVE IInv
  OBVIOUS
<1>1. ClientTypeOK
  <2>1. Nothing \in Payload
    BY DEF Nothing, Payload
  <2>2. ASSUME NEW v \in Fallbacks, NEW s \in Nat
        PROVE  [version |-> v, segment |-> s] \in Payload
    BY DEF Payload
  <2>3. active \in Payload /\ issuedTickets \in Nat /\ appliedTicket \in 0..issuedTickets
    <3>1. CASE issuedTickets = 0 /\ appliedTicket = 0 /\ active = Nothing
      BY <2>1, <3>1
    <3>2. ASSUME NEW v \in Fallbacks, issuedTickets = 1,
                 \/ appliedTicket = 0 /\ active = Nothing
                 \/ /\ appliedTicket = 1
                    /\ \E s \in IF v \in Referencing THEN 0..1 ELSE {0} :
                         active = [version |-> v, segment |-> s]
          PROVE  active \in Payload /\ issuedTickets \in Nat /\ appliedTicket \in 0..issuedTickets
      BY <2>1, <2>2, <3>2
    <3>3. QED
      BY <3>1, <3>2 DEF Init, ClientInit
  <2>4. ticket = [l \in Loads |-> 0] /\ closed = FALSE
    BY DEF Init, ClientInit
  <2>5. ticket \in [Loads -> 0..issuedTickets]
    BY <2>3, <2>4
  <2>6. QED
    BY <2>3, <2>4, <2>5 DEF ClientTypeOK
<1>2. FileInv
  <2>1. Rests \in Reading /\ Rests.phase = "idle"
    BY DEF Rests, Reading
  <2>2. file \in Text /\ (file.whole => file.version # 0)
    <3>1. \/ file = [version |-> 0, whole |-> FALSE]
          \/ file = [version |-> 1, whole |-> TRUE]
      BY DEF Init, FileInit
    <3>2. 0 \in 0..MaxVersion /\ 1 \in 0..MaxVersion
      OBVIOUS
    <3>3. CASE file = [version |-> 0, whole |-> FALSE]
      <4>1. file \in Text
        BY <3>2, <3>3 DEF Text
      <4>2. file.whole = FALSE
        BY <3>3
      <4>3. QED
        BY <4>1, <4>2
    <3>4. CASE file = [version |-> 1, whole |-> TRUE]
      <4>1. file \in Text
        BY <3>2, <3>4 DEF Text
      <4>2. file.version # 0
        BY <3>4
      <4>3. QED
        BY <4>1, <4>2
    <3>5. QED
      BY <3>1, <3>3, <3>4
  <2>3. /\ saving = 0 /\ pulling = 0 /\ lastDelivered = 0
        /\ watching = FALSE /\ timer = FALSE
        /\ reload = [r \in Reloads |-> Rests] /\ loading = [l \in Loads |-> Rests]
    BY DEF Init, FileInit
  <2>4. FileTypeOK
    <3>1. {saving, pulling, lastDelivered} \subseteq 0..MaxVersion
      BY <2>3
    <3>2. {timer, watching} \subseteq BOOLEAN
      BY <2>3
    <3>3. reload \in [Reloads -> Reading] /\ loading \in [Loads -> Reading]
      BY <2>1, <2>3
    <3>4. QED
      BY <2>2, <3>1, <3>2, <3>3 DEF FileTypeOK
  <2>5. FileOK
    BY <2>1, <2>2, <2>3 DEF FileOK
  <2>6. QED
    BY <2>4, <2>5 DEF FileInv
<1>3. QueueInv /\ QueueOff
  <2>1. /\ live \in 0..1 /\ loaded = 0 /\ failures = 0 /\ missed = {}
        /\ fetch = [l \in Loads |-> NoFetch]
        /\ consumer = [phase |-> "receiving", batch |-> <<>>]
        /\ job = NoJob
        /\ message \in [Ids -> {[body |-> 0, place |-> "unsent"]} \union
                               [body : {Stray}, place : {"queued"}]]
    BY DEF Init, QueueInit
  <2>2. consumer \in Consumer /\ job \in Job /\ InHand = {}
    <3>1. <<>> \in Seq(Ids) /\ DOMAIN <<>> = {}
      OBVIOUS
    <3>2. QED
      BY <2>1, <3>1 DEF Consumer, Job, NoJob, Step, InHand
  <2>3. ASSUME NEW i \in Ids
        PROVE  /\ message[i] \in Message /\ message[i].body <= 0
               /\ message[i].place # "deleted"
    <3>1. message[i] \in {[body |-> 0, place |-> "unsent"]} \union
                         [body : {Stray}, place : {"queued"}]
      BY <2>1
    <3>2. QED
      BY <3>1 DEF Message, Bodies, Stray
  <2>4. message \in [Ids -> Message]
    BY <2>1, <2>3
  <2>5. NoFetch \in Fetch /\ NoFetch.version = 0 /\ NoFetch.step = "idle"
    BY DEF NoFetch, Fetch, Step
  <2>6. QueueTypeOK
    BY <2>1, <2>2, <2>4, <2>5 DEF QueueTypeOK, NoJob
  <2>7. QueueOK
    <3>1. \A i \in Ids : message[i].body <= live
      BY <2>1, <2>3 DEF Message, Bodies, Stray
    <3>2. QED
      BY <2>1, <2>2, <2>5, <3>1 DEF QueueOK, NoJob
  <2>8. Handled = {}
    BY <2>1, <2>3 DEF Handled
  <2>9. HandledOK
    BY <1>1, <2>1, <2>8 DEF HandledOK, NoJob, Given, ClientTypeOK, Payload
  <2>10. QED
    BY <2>1, <2>6, <2>7, <2>8, <2>9 DEF QueueInv, QueueOff
<1>4. LifeTypeOK /\ LifeOK /\ BoundIsNewest
  BY DEF Init, ClientInit, LifeTypeOK, Lives, LifeOK, BoundIsNewest
<1>5. QED
  BY <1>1, <1>2, <1>3, <1>4, InvariantParts

Components == ClientTypeOK /\ FileInv /\ QueueInv /\ QueueOff

\* A refresh asks its source.
LEMMA LoadCall ==
  ASSUME Components, NEW l \in Loads, Load(l), watching' \in BOOLEAN, kind' = kind
  PROVE  Components' /\ ClientMoves /\ UNCHANGED <<closed, timer>>
<1>1. CASE kind # "queue" /\ FileLoad(l) /\ UNCHANGED queueVars
  <2>1. FileInv' /\ ClientMoves /\ UNCHANGED <<closed, timer>>
    BY <1>1, FileLoadStep DEF Components
  <2>2. ClientTypeOK'
    BY <2>1, ClientStep DEF Components
  <2>3. QED
    BY <1>1, <2>1, <2>2, QueueAbsent DEF Components
<1>2. CASE /\ kind = "queue" /\ QueueLoad(l)
           /\ UNCHANGED <<disk, timer, reload, loading, lastDelivered, muddled>>
  <2>1. QueueInv' /\ ClientMoves /\ UNCHANGED closed
    BY <1>2, QueueLoadStep DEF Components
  <2>2. timer \in BOOLEAN
    BY DEF Components, FileInv, FileTypeOK
  <2>3. FileInv'
    BY <1>2, <2>2, FileRests DEF Components
  <2>4. QED
    BY <1>2, <2>1, <2>3, ClientStep DEF Components, QueueOff
<1>3. QED
  BY <1>1, <1>2 DEF Load

\* A refresh goes on, and has its answer.
LEMMA AnswerCall ==
  ASSUME Components, NEW l \in Loads, Answer(l)
  PROVE  Components' /\ ClientMoves /\ UNCHANGED <<closed, timer, watching>>
<1>0. kind' = kind
  BY DEF Answer
<1>1. CASE kind # "queue" /\ (LoadReads(l) \/ LoadEnds(l)) /\ UNCHANGED queueVars
  <2>1. FileInv' /\ ClientMoves /\ UNCHANGED <<closed, timer, watching>>
    BY <1>1, LoadStep DEF Components
  <2>2. ClientTypeOK'
    BY <2>1, ClientStep DEF Components
  <2>3. QED
    BY <1>0, <1>1, <2>1, <2>2, QueueAbsent DEF Components
<1>2. CASE kind = "queue" /\ LoadGoesOn(l) /\ UNCHANGED fileVars
  <2>1. QueueInv' /\ ClientMoves /\ UNCHANGED closed
    BY <1>2, LoadGoesOnStep DEF Components
  <2>2. {timer, watching} \subseteq BOOLEAN
    BY DEF Components, FileInv, FileTypeOK
  <2>3. FileInv' /\ UNCHANGED <<timer, watching>>
    BY <1>2, <2>2, FileRests DEF Components, fileVars, disk
  <2>4. QED
    BY <1>0, <1>2, <2>1, <2>3, ClientStep DEF Components, QueueOff
<1>3. QED
  BY <1>1, <1>2 DEF Answer

\* close() of the client, when a start failed or at the shutdown.
LEMMA CloseCall ==
  ASSUME Components, CloseClient, kind' = kind,
         UNCHANGED <<disk, reload, loading, lastDelivered, muddled, queueVars>>
  PROVE  /\ Components' /\ ClientMoves
         /\ closed' = TRUE /\ watching' = FALSE /\ timer' = FALSE
<1>1. /\ ClientMoves /\ UNCHANGED active
      /\ closed' = TRUE /\ watching' = FALSE /\ timer' = FALSE
  BY DEF CloseClient, Close, Unsubscribe, ClientMoves
<1>2. FileInv'
  BY <1>1, FileRests DEF Components
<1>3. QueueInv' /\ QueueOff'
  BY <1>1, QueueRests DEF Components
<1>4. QED
  BY <1>1, <1>2, <1>3, ClientStep DEF Components

\* A step of the file or the queue, while the module lives on as it is.
LEMMA SourceCall ==
  ASSUME Components,
         Disk \/ Queue \/ \E r \in Reloads : Reloading(r)
  PROVE  /\ Components' /\ ClientMoves
         /\ UNCHANGED <<appVars, ticket, closed, watching>>
         /\ ~watching /\ ~timer => ~timer'
<1>1. CASE Disk
  <2>1. /\ FileInv' /\ UNCHANGED <<clientVars, watching>>
        /\ ~watching => ~timer' \/ timer' = timer
        /\ UNCHANGED <<queueVars, appVars>>
    BY <1>1, DiskStep DEF Disk, Components
  <2>2. ClientMoves /\ UNCHANGED <<active, ticket, closed>>
    BY <2>1 DEF ClientMoves, clientVars
  <2>3. QueueInv' /\ QueueOff'
    BY <2>1, <2>2, QueueRests DEF Components, appVars
  <2>4. QED
    BY <2>1, <2>2, <2>3, ClientStep DEF Components
<1>2. CASE Queue
  <2>1. /\ QueueInv' /\ ClientMoves /\ UNCHANGED <<ticket, closed>>
        /\ UNCHANGED <<fileVars, appVars>> /\ kind = "queue"
    BY <1>2, QueueStep DEF Queue, OnQueue, Components
  <2>2. {timer, watching} \subseteq BOOLEAN
    BY DEF Components, FileInv, FileTypeOK
  <2>3. FileInv' /\ UNCHANGED <<timer, watching>>
    BY <2>1, <2>2, FileRests DEF Components, fileVars, disk
  <2>4. QueueOff'
    BY <2>1 DEF QueueOff, appVars
  <2>5. QED
    BY <2>1, <2>3, <2>4, ClientStep DEF Components
<1>3. ASSUME NEW r \in Reloads, Reloading(r)
      PROVE  /\ Components' /\ ClientMoves
             /\ UNCHANGED <<appVars, ticket, closed, watching>>
             /\ ~timer => ~timer'
  <2>1. /\ FileInv' /\ ClientMoves /\ UNCHANGED <<watching, ticket, closed>>
        /\ ~timer => ~timer'
    BY <1>3, ReloadStep DEF Reloading, Components
  <2>2. UNCHANGED <<queueVars, appVars>> /\ kind # "queue"
    BY <1>3 DEF Reloading
  <2>3. ClientTypeOK'
    BY <2>1, ClientStep DEF Components
  <2>4. QueueInv' /\ QueueOff'
    BY <2>2, <2>3, QueueAbsent DEF Components, appVars
  <2>5. QED
    BY <2>1, <2>2, <2>3, <2>4 DEF Components
<1>4. QED
  BY <1>1, <1>2, <1>3

\* What a step of the module leaves true of its client and its sources.
LEMMA ComponentsStep ==
  ASSUME Components, [Next]_vars, LifeTypeOK
  PROVE  Components' /\ ClientMoves
<1>1. ASSUME Start
      PROVE  Components' /\ ClientMoves
  <2>1. First \in Loads /\ Load(First) /\ watching' \in BOOLEAN /\ kind' = kind
    BY <1>1 DEF Start
  <2>2. QED
    BY <2>1, LoadCall
<1>2. ASSUME NEW l \in Loads, Refresh(l)
      PROVE  Components' /\ ClientMoves
  <2>1. Load(l) /\ watching' \in BOOLEAN /\ kind' = kind
    BY <1>2 DEF Refresh, appVars, Components, FileInv, FileTypeOK
  <2>2. QED
    BY <2>1, LoadCall
<1>3. ASSUME NEW l \in Loads, Answer(l)
      PROVE  Components' /\ ClientMoves
  BY <1>3, AnswerCall
<1>4. ASSUME StartFails \/ Shutdown
      PROVE  Components' /\ ClientMoves
  <2>1. /\ CloseClient /\ kind' = kind
        /\ UNCHANGED <<disk, reload, loading, lastDelivered, muddled, queueVars>>
    BY <1>4 DEF StartFails, Shutdown, appVars
  <2>2. QED
    BY <2>1, CloseCall
<1>5. ASSUME ModuleInit \/ OtherInit \/ OtherShutdown \/ UNCHANGED vars
      PROVE  Components' /\ ClientMoves
  <2>1. UNCHANGED <<clientVars, fileVars, queueVars, kind>>
    BY <1>5 DEF ModuleInit, OtherInit, OtherShutdown, vars, appVars
  <2>2. {timer, watching} \subseteq BOOLEAN
    BY DEF Components, FileInv, FileTypeOK
  <2>3. FileInv'
    BY <2>1, <2>2, FileRests DEF Components, fileVars, disk
  <2>4. ClientMoves /\ UNCHANGED <<active, closed>>
    BY <2>1 DEF ClientMoves, clientVars
  <2>5. QueueInv' /\ QueueOff'
    BY <2>1, <2>4, QueueRests DEF Components
  <2>6. QED
    BY <2>3, <2>4, <2>5, ClientStep DEF Components
<1>6. ASSUME Disk \/ Queue \/ \E r \in Reloads : Reloading(r)
      PROVE  Components' /\ ClientMoves
  BY <1>6, SourceCall
<1>7. QED
  BY <1>1, <1>2, <1>3, <1>4, <1>5, <1>6 DEF Next

\* What a step of the module does to its own life.
LEMMA LifeStep ==
  ASSUME IInv, [Next]_vars
  PROVE  LifeTypeOK' /\ LifeOK' /\ BoundIsNewest'
<1> DEFINE Goal == LifeTypeOK' /\ LifeOK' /\ BoundIsNewest'
<1>0. /\ Components /\ LifeTypeOK /\ LifeOK /\ BoundIsNewest /\ ClientTypeOK
      /\ watching \in BOOLEAN /\ timer \in BOOLEAN
  BY InvariantParts DEF Components, FileInv, FileTypeOK
<1>1. /\ closed => closed'
      /\ active.version # 0 => active'.version # 0
  BY <1>0, ComponentsStep, ClientStep
<1>2. ASSUME Start
      PROVE  Goal
  <2>1. /\ app = "new" /\ app' = "starting" /\ watching' \in BOOLEAN
        /\ UNCHANGED <<kind, other, bound, newest>>
        /\ First \in Loads /\ Load(First)
    BY <1>2 DEF Start
  <2>2. UNCHANGED <<closed, timer>>
    BY <1>0, <2>1, LoadCall
  <2>3. QED
    BY <1>0, <2>1, <2>2 DEF LifeTypeOK, Lives, LifeOK, BoundIsNewest, Up
<1>3. ASSUME NEW l \in Loads, Refresh(l)
      PROVE  Goal
  <2>1. Load(l) /\ UNCHANGED <<watching, appVars, kind>>
    BY <1>3 DEF Refresh, appVars
  <2>2. UNCHANGED <<closed, timer>>
    BY <1>0, <2>1, LoadCall
  <2>3. QED
    BY <1>0, <1>1, <2>1, <2>2 DEF appVars, LifeTypeOK, Lives, LifeOK, BoundIsNewest, Up
<1>4. ASSUME NEW l \in Loads, Answer(l)
      PROVE  Goal
  <2>1. /\ UNCHANGED <<closed, timer, watching>>
        /\ UNCHANGED <<kind, other, bound, newest>>
    BY <1>0, <1>4, AnswerCall DEF Answer
  <2>2. \/ app' = app
        \/ app = "starting" /\ app' = "failed"
        \/ app = "starting" /\ app' = "ready" /\ active'.version # 0
    BY <1>4 DEF Answer, Ready
  <2>3. QED
    BY <1>0, <1>1, <2>1, <2>2 DEF LifeTypeOK, Lives, LifeOK, BoundIsNewest, Up
<1>5. ASSUME StartFails
      PROVE  Goal
  <2>1. /\ app = "failed" /\ UNCHANGED <<appVars, kind>>
        /\ CloseClient
        /\ UNCHANGED <<disk, reload, loading, lastDelivered, muddled, queueVars>>
    BY <1>5 DEF StartFails, appVars
  <2>2. watching' = FALSE /\ timer' = FALSE
    BY <1>0, <2>1, CloseCall
  <2>3. QED
    BY <1>0, <2>1, <2>2 DEF appVars, LifeTypeOK, Lives, LifeOK, BoundIsNewest, Up
<1>6. ASSUME Shutdown
      PROVE  Goal
  <2>1. /\ app \in {"ready", "up"} /\ app' = "down"
        /\ bound' = IF bound = "app" THEN "none" ELSE bound
        /\ UNCHANGED <<kind, other, newest>>
        /\ CloseClient
        /\ UNCHANGED <<disk, reload, loading, lastDelivered, muddled, queueVars>>
    BY <1>6 DEF Shutdown, Unbind
  <2>2. watching' = FALSE /\ timer' = FALSE
    BY <1>0, <2>1, CloseCall
  <2>3. QED
    BY <1>0, <2>1, <2>2 DEF LifeTypeOK, Lives, LifeOK, BoundIsNewest, Up
<1>7. ASSUME ModuleInit \/ OtherInit
      PROVE  Goal
  <2>1. UNCHANGED <<active, closed, timer, watching, kind>>
    BY <1>7 DEF ModuleInit, OtherInit, clientVars, fileVars
  <2>2. CASE ModuleInit
    BY <1>0, <2>1, <2>2 DEF ModuleInit, LifeTypeOK, Lives, LifeOK, BoundIsNewest, Up
  <2>3. CASE OtherInit
    BY <1>0, <2>1, <2>3 DEF OtherInit, LifeTypeOK, Lives, LifeOK, BoundIsNewest, Up
  <2>4. QED
    BY <1>7, <2>2, <2>3
<1>8. ASSUME OtherShutdown
      PROVE  Goal
  BY <1>0, <1>8 DEF OtherShutdown, Unbind, clientVars, fileVars,
                    LifeTypeOK, Lives, LifeOK, BoundIsNewest, Up
<1>9. ASSUME Disk \/ Queue \/ \E r \in Reloads : Reloading(r)
      PROVE  Goal
  <2>1. /\ UNCHANGED <<appVars, closed, watching>>
        /\ ~watching /\ ~timer => ~timer'
    BY <1>0, <1>9, SourceCall
  <2>2. QED
    BY <1>0, <1>1, <2>1 DEF appVars, LifeTypeOK, Lives, LifeOK, BoundIsNewest, Up
<1>10. ASSUME UNCHANGED vars
       PROVE  Goal
  BY <1>0, <1>10 DEF vars, appVars, clientVars, fileVars,
                     LifeTypeOK, Lives, LifeOK, BoundIsNewest, Up
<1>11. QED
  BY <1>2, <1>3, <1>4, <1>5, <1>6, <1>7, <1>8, <1>9, <1>10 DEF Next

-----------------------------------------------------------------------------
(* The theorems. *)

\* The inductive invariant holds in every state.
THEOREM ApplicationInvariance == Spec => []IInv
<1>1. Init => IInv
  BY InitialInvariant
<1>2. IInv /\ [Next]_vars => IInv'
  <2>1. SUFFICES ASSUME IInv, [Next]_vars PROVE IInv'
    OBVIOUS
  <2>2. LifeTypeOK' /\ LifeOK' /\ BoundIsNewest'
    BY <2>1, LifeStep
  <2>3. Components'
    BY <2>1, InvariantParts, ComponentsStep DEF Components
  <2>4. QED
    BY <2>2, <2>3 DEF IInv, TypeOK, Components, FileInv, QueueInv, LifeTypeOK
<1>3. QED
  BY <1>1, <1>2, PTL DEF Spec

\* Every state of the application, its client, its file and its queue is of
\* the type the code gives it.
THEOREM ApplicationTypeCorrect == Spec => []TypeOK
<1>1. IInv => TypeOK
  BY DEF IInv
<1>2. QED
  BY <1>1, ApplicationInvariance, PTL

\* The client @FeatureFlag uses is that of the module initialised last, has a
\* snapshot and is open, in any order of starts, failed starts and shutdowns.
THEOREM DecoratorAlwaysServed == Spec => []BoundIsServing
<1>1. IInv => BoundIsServing
  BY DEF IInv, LifeOK, BoundIsServing
<1>2. QED
  BY <1>1, ApplicationInvariance, PTL

\* No announcement is lost: its message is deleted only when the client was given
\* the version announced or a newer one, or the subscription has ended, whatever
\* the jobs and the load() of refreshes do to each other's `loaded`.
THEOREM NoAnnouncementLost == Spec => []DeletedMeansGiven
<1>1. IInv => DeletedMeansGiven
  BY DEF IInv, HandledOK, Handled, Announces, DeletedMeansGiven
<1>2. QED
  BY <1>1, ApplicationInvariance, PTL

\* After close() nothing starts any more, whatever was in flight.
THEOREM NothingStartsAfterClose == Spec => ClosedWindsDown
<1>1. IInv /\ [Next]_vars => [WindsDown]_vars
  <2>1. SUFFICES ASSUME IInv, Next, closed
                 PROVE  WindsDown
    BY DEF WindsDown
  <2>2. /\ reload \in [Reloads -> Reading] /\ loading \in [Loads -> Reading]
        /\ ticket \in [Loads -> 0..issuedTickets]
        /\ ~timer /\ app \notin {"new", "starting", "ready", "up"}
        /\ job \in Job
    BY <2>1 DEF IInv, TypeOK, FileTypeOK, ClientTypeOK, QueueTypeOK, LifeOK
  <2>3. ASSUME UNCHANGED <<reload, active, consumer, job>>
        PROVE  WindsDown
    BY <2>3 DEF WindsDown, Busy
  <2>4. ASSUME Start \/ Shutdown \/ ModuleInit \/ \E l \in Loads : Refresh(l)
        PROVE  FALSE
    BY <2>2, <2>4 DEF Start, Shutdown, ModuleInit, Refresh
  <2>5. ASSUME StartFails \/ OtherInit \/ OtherShutdown \/ Disk
        PROVE  UNCHANGED <<reload, active, consumer, job>>
    <3>1. CASE StartFails
      BY <2>1, <3>1 DEF StartFails, CloseClient, Close
    <3>2. CASE OtherInit \/ OtherShutdown
      BY <3>2 DEF OtherInit, OtherShutdown, clientVars, fileVars, queueVars, sourceVars
    <3>3. CASE Disk
      BY <3>3 DEF Disk, DiskChanges, clientVars, queueVars, sourceVars
    <3>4. QED
      BY <2>5, <3>1, <3>2, <3>3
  <2>6. ASSUME NEW l \in Loads, Answer(l)
        PROVE  WindsDown
    <3>1. UNCHANGED <<reload, consumer, job>>
      BY <2>6 DEF Answer, LoadReads, LoadEnds, LoadGoesOn, fileVars, queueVars, sourceVars
    <3>2. active' = active \/ (ticket[l] # 0 /\ ticket'[l] = 0)
      BY <2>2, <2>6 DEF Answer, LoadReads, LoadEnds, LoadResolves, LoadGoesOn, LoadPointer,
                        LoadFollows, LoadSnapshot, LoadFails, LoadHandsOver,
                        RefreshLoaded, RefreshFailed, clientVars
    <3>3. QED
      BY <3>1, <3>2 DEF WindsDown, Busy
  <2>7. ASSUME NEW r \in Reloads, Reloading(r)
        PROVE  WindsDown
    <3>1. ReloadReads(r) \/ ReloadEnds(r)
      BY <2>2, <2>7 DEF Reloading, TimerFires
    <3>2. UNCHANGED <<consumer, job>>
      BY <2>7 DEF Reloading, queueVars, sourceVars
    <3>3. reload[r].phase # "idle"
      BY <3>1 DEF ReloadReads, ReloadEnds
    <3>4. \/ reload' = [reload EXCEPT ![r] = Rests]
          \/ \E v : reload' = [reload EXCEPT ![r] = ReadsSegments(v)] /\ active' = active
      BY <3>1 DEF ReloadReads, ReloadEnds, clientVars
    <3>5. \A x \in Reloads : x # r => reload'[x] = reload[x]
      BY <2>2, <3>4
    <3>6. active' = active \/ reload'[r].phase = "idle"
      BY <2>2, <3>4 DEF Rests
    <3>7. QED
      BY <3>2, <3>3, <3>5, <3>6 DEF WindsDown, Busy
  <2>8. ASSUME Queue
        PROVE  WindsDown
    <3>1. QueueNext /\ UNCHANGED fileVars
      BY <2>8 DEF Queue, OnQueue
    <3>2. UNCHANGED <<reload, active>>
      <4>1. UNCHANGED clientVars
        BY <2>1, <3>1, InvariantParts, QueueStep
      <4>2. QED
        BY <3>1, <4>1 DEF fileVars, clientVars
    <3>3. job.by = "none" => job'.by = "none"
      <4>1. SUFFICES ASSUME job.by = "none"
                     PROVE  UNCHANGED job
        OBVIOUS
      <4>2. job.step = "idle"
        BY <2>1, <4>1 DEF IInv, QueueOK
      <4>3. ~(JobFails \/ JobGoesOn \/ StartJob("tick") \/ StartJob("push"))
        BY <2>1, <4>2 DEF JobFails, Answerless, JobGoesOn, JobPointer, JobFollows,
                          JobSnapshot, StartJob
      <4>4. QED
        BY <3>1, <4>3 DEF QueueNext, Publish, Receive, ReceiveFails, DeleteFails,
           Consumes, SleepEnds, Take, Delete, Aborted, PushSkipped, sourceVars
    <3>4. consumer.phase = "taking" => consumer'.phase \in {"taking", "stopped"}
      <4>1. SUFFICES ASSUME consumer.phase = "taking"
                     PROVE  consumer'.phase \in {"taking", "stopped"}
        OBVIOUS
      <4>2. job.by # "push"
        BY <2>1, <4>1 DEF IInv, TypeOK, QueueTypeOK
      <4>3. CASE Take
        BY <2>1, <4>3 DEF Take, GoesOn
      <4>4. CASE ~Take
        <5>1. UNCHANGED consumer
          BY <2>1, <3>1, <4>1, <4>2, <4>4
             DEF QueueNext, Publish, Receive, ReceiveFails, DeleteFails, JobFails,
                 StartJob, Consumes, SleepEnds, Delete, Aborted, PushSkipped, JobGoesOn,
                 JobPointer, JobFollows, JobSnapshot, JobEnds
        <5>2. QED
          BY <4>1, <5>1
      <4>5. QED
        BY <4>3, <4>4
    <3>5. QED
      BY <3>2, <3>3, <3>4 DEF WindsDown, Busy
  <2>9. QED
    BY <2>1, <2>3, <2>4, <2>5, <2>6, <2>7, <2>8 DEF Next
<1>2. QED
  BY <1>1, ApplicationInvariance, PTL DEF Spec, ClosedWindsDown

\* The file is torn only by an editor at work: no pull, whenever it dies,
\* leaves half a snapshot where a whole one was.
THEOREM PullNeverTears == Spec => PullIsAtomic
<1>1. [Next]_vars => [file'.whole # file.whole /\ ~file'.whole => saving' # 0]_vars
  <2>1. SUFFICES ASSUME Next, file' # file
                 PROVE  file'.whole \/ saving' # 0
    OBVIOUS
  <2>2. Disk
    BY <2>1 DEF Next, Start, StartFails, ModuleInit, Shutdown, OtherInit, OtherShutdown,
       Refresh, Load, FileLoad, Answer, LoadReads, LoadEnds, Reloading, TimerFires,
       ReloadReads, ReloadEnds, Queue, OnQueue, fileVars, disk
  <2>3. ASSUME NEW v \in 1..MaxVersion, EditorBegins(v) \/ PullBegins(v)
        PROVE  saving' # 0
    BY <2>1, <2>3 DEF EditorBegins, PullBegins, PullsAside
  <2>4. ASSUME EditorEnds \/ PullEnds \/ WriterDies
        PROVE  file'.whole
    BY <2>1, <2>4 DEF EditorEnds, PullEnds, WriterDies
  <2>5. QED
    BY <2>2, <2>3, <2>4 DEF Disk, DiskChanges
<1>2. QED
  BY <1>1, PTL DEF Spec, PullIsAtomic
=============================================================================
