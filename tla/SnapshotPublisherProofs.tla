---------------------- MODULE SnapshotPublisherProofs ----------------------
(***************************************************************************)
(* Theorems about SnapshotPublisher, for every number of publishers, every *)
(* set of bodies, every grace period and clock skew, and every bound.      *)
(*                                                                         *)
(* The argument: what a write under way says about itself stays true until *)
(* it lands (Sound, CallOK), because snapshots are only added and the      *)
(* pointer only grows.  WriterStep, StoreStep and MoveStep say so for the  *)
(* three kinds of step there are; Inductive goes through the actions.      *)
(***************************************************************************)
EXTENDS SnapshotPublisher, TLAPS

USE PublisherAssumption DEF Version, Ages, Stale, Unknown

-----------------------------------------------------------------------------
(* Steps that leave the bucket alone. *)

\* A call that moves on to a state that is itself in order, perhaps leaving
\* its write on the wire, preserves the invariant.
LEMMA WriterStep ==
  ASSUME IInv, NEW w \in Writers, NEW s \in WriterState, CallOK(s),
         writer' = [writer EXCEPT ![w] = s],
         UNCHANGED bucket,
         wire' \in SUBSET Request, \A r \in wire' : Sound(r),
         faults' \in 0..MaxFaults
  PROVE  IInv'
<1>1. TypeOK'
  BY DEF IInv, TypeOK, bucket
<1>2. \A x \in Writers : writer'[x] = IF x = w THEN s ELSE writer[x]
  BY DEF IInv, TypeOK
<1>3. \A x \in Writers : CallOK(writer[x])' <=> CallOK(writer'[x])
  BY DEF CallOK, Restores, Replaces, bucket
<1>4. \A x \in Writers : CallOK(writer'[x])
  BY <1>2 DEF IInv
<1>5. (\A x \in Writers : CallOK(writer[x]))'
  BY <1>3, <1>4
<1>6. (\A r \in wire : Sound(r))'
  BY DEF Sound, Restores, Replaces, bucket
<1>7. QED
  BY <1>1, <1>5, <1>6 DEF IInv, bucket, Restores

\* Between calls there is nothing to be in order but a CONFLICT.
LEMMA IdleState ==
  ASSUME NEW outcome \in Outcome, NEW base \in Nat, current \in Nat,
         outcome = "CONFLICT" => base < current
  PROVE  /\ Idle(outcome, base) \in WriterState
         /\ CallOK(Idle(outcome, base))
BY DEF Idle, WriterState, Outcome, Phase, CallOK

\* A call that ends, other than with CONFLICT, leaving its write on the wire
\* or not, preserves the invariant.
LEMMA EndStep ==
  ASSUME IInv, NEW w \in Writers, NEW outcome \in Outcome \ {"CONFLICT"},
         End(w, outcome),
         UNCHANGED bucket,
         wire' \in SUBSET Request, \A r \in wire' : Sound(r),
         faults' \in 0..MaxFaults
  PROVE  IInv'
<1>1. current \in Nat
  BY DEF IInv, TypeOK
<1>2. /\ Idle(outcome, 0) \in WriterState
      /\ CallOK(Idle(outcome, 0))
  BY <1>1, IdleState
<1>3. QED
  BY <1>2, WriterStep DEF End

\* A write a publisher waits for is in order.
LEMMA OutstandingSound ==
  ASSUME IInv, NEW w \in Writers
  PROVE  /\ Outstanding(w) \subseteq Request
         /\ \A r \in Outstanding(w) : Sound(r)
<1>1. writer[w] \in WriterState /\ CallOK(writer[w])
  BY DEF IInv, TypeOK
<1>2. CASE writer[w].phase = "store"
  BY <1>1, <1>2 DEF Outstanding, RequestOf, Request, Sound, CallOK, WriterState
<1>3. CASE writer[w].phase = "point"
  BY <1>1, <1>3 DEF Outstanding, RequestOf, Request, Sound, CallOK, WriterState
<1>4. CASE writer[w].phase \notin {"store", "point"}
  BY <1>4 DEF Outstanding
<1>5. QED
  BY <1>2, <1>3, <1>4

-----------------------------------------------------------------------------
(* Steps that write to the bucket. *)

\* A new snapshot disturbs nothing that was said of the old ones, and a
\* pointer write for it is in order.
LEMMA StoreStep ==
  ASSUME IInv, NEW r \in Request, Sound(r), r.kind = "snapshot", Admitted(r),
         StoreSnapshot(r)
  PROVE  /\ DOMAIN stored' = DOMAIN stored \union {r.version}
         /\ \A v \in DOMAIN stored : stored'[v] = stored[v]
         /\ stored' \in [DOMAIN stored' -> Snapshot]
         /\ age' \in [DOMAIN stored' -> Ages]
         /\ \A v \in DOMAIN stored' :
              Restores(stored[v].restores, stored[v].content,
                       stored[v].previous)'
         /\ Replaces(r.version, r.base)'
         /\ \A q \in Request : Sound(q) => Sound(q)'
         /\ \A s \in WriterState : CallOK(s) => CallOK(s)'
<1> USE DEF StoreSnapshot, Admitted
<1>1. /\ DOMAIN stored' = DOMAIN stored \union {r.version}
      /\ \A v \in DOMAIN stored : stored'[v] = stored[v]
      /\ stored'[r.version] = SnapshotOf(r)
      /\ \A v \in DOMAIN stored : age'[v] = age[v]
      /\ age'[r.version] = 0
      /\ current' = current /\ currentAge' = currentAge
  OBVIOUS
<1>2. SnapshotOf(r) \in Snapshot /\ r.version \in Nat
  BY DEF SnapshotOf, Snapshot, Request
<1>3. stored' \in [DOMAIN stored' -> Snapshot]
  BY <1>1, <1>2 DEF IInv, TypeOK
<1>4. age' \in [DOMAIN stored' -> Ages]
  BY <1>1 DEF IInv, TypeOK
<1>5. ASSUME NEW t, NEW c, NEW b, Restores(t, c, b)
      PROVE  Restores(t, c, b)'
  BY <1>1, <1>5 DEF Restores
<1>6. ASSUME NEW v, NEW b, Replaces(v, b)
      PROVE  Replaces(v, b)'
  BY <1>1, <1>6 DEF Replaces
<1>7. Replaces(r.version, r.base)'
  <2>1. currentAge \in Ages
    BY DEF IInv, TypeOK
  <2>2. SnapshotOf(r).previous = r.base /\ SnapshotOf(r).content = r.content
    BY DEF SnapshotOf
  <2>3. QED
    BY <1>1, <2>1, <2>2 DEF Replaces, Sound
<1>8. ASSUME NEW v \in DOMAIN stored'
      PROVE  Restores(stored[v].restores, stored[v].content,
                      stored[v].previous)'
  <2>1. CASE v \in DOMAIN stored
    BY <1>1, <1>5, <2>1 DEF IInv
  <2>2. CASE v = r.version
    <3>1. Restores(r.target, r.content, r.base)
      BY DEF Sound
    <3>2. /\ SnapshotOf(r).restores = r.target
          /\ SnapshotOf(r).content = r.content
          /\ SnapshotOf(r).previous = r.base
      BY DEF SnapshotOf
    <3>3. QED
      BY <1>1, <1>5, <2>2, <3>1, <3>2
  <2>3. QED
    BY <1>1, <2>1, <2>2
<1>9. ASSUME NEW q \in Request, Sound(q)
      PROVE  Sound(q)'
  BY <1>1, <1>5, <1>6, <1>9 DEF Sound
<1>10. ASSUME NEW s \in WriterState, CallOK(s)
       PROVE  CallOK(s)'
  BY <1>1, <1>5, <1>6, <1>10 DEF CallOK
<1>11. QED
  BY <1>1, <1>3, <1>4, <1>7, <1>8, <1>9, <1>10

\* An element of a sequence over S is in S.
LEMMA SeqElement ==
  ASSUME NEW S, NEW q \in Seq(S), NEW i \in 1..Len(q)
  PROVE  q[i] \in S
OBVIOUS

\* The pointer only moves up, so nothing that was said of a version at or
\* below it becomes false.
LEMMA MoveStep ==
  ASSUME IInv, NEW r \in Request, Sound(r), r.kind = "pointer", Admitted(r),
         MovePointer(r)
  PROVE  /\ current' > current
         /\ current' \in DOMAIN stored
         /\ currentAge' \in Ages
         /\ history' \in Seq([version : Version, previous : Nat,
                              content : Contents, expected : Nat])
         /\ current' = IF history' = <<>> THEN 0
                       ELSE history'[Len(history')].version
         /\ \A i \in 1..Len(history') : history'[i].version <= current'
         /\ \A q \in Request : Sound(q) => Sound(q)'
         /\ \A s \in WriterState : CallOK(s) => CallOK(s)'
<1> USE DEF MovePointer, Admitted
<1> DEFINE Row == [version : Version, previous : Nat, content : Contents,
                   expected : Nat]
           e == [version  |-> r.version,
                 previous |-> stored[r.version].previous,
                 content  |-> stored[r.version].content,
                 expected |-> r.expected]
<1>1. /\ current' = r.version /\ currentAge' = 0 /\ r.base = current
      /\ UNCHANGED <<stored, age>>
  OBVIOUS
<1>2. current \in Nat /\ r.version \in Nat /\ r.version > current
  BY <1>1 DEF IInv, TypeOK, Sound, Request
<1>3. r.version \in DOMAIN stored
  BY DEF Sound, Replaces
<1>4. e \in Row
  <2>1. stored[r.version] \in Snapshot
    BY <1>3 DEF IInv, TypeOK
  <2>2. QED
    BY <2>1 DEF Snapshot, Request
<1>5. history \in Seq(Row) /\ history' = Append(history, e)
  BY DEF IInv, TypeOK
<1>6. history' \in Seq(Row)
  BY <1>4, <1>5
<1>7. Len(history') = Len(history) + 1 /\ Len(history) \in Nat
  BY <1>4, <1>5
<1>8. history'[Len(history')] = e
  BY <1>4, <1>5, <1>7
<1>9. \A i \in 1..Len(history) : history'[i] = history[i]
  BY <1>4, <1>5
<1>10. current' = IF history' = <<>> THEN 0
                  ELSE history'[Len(history')].version
  <2>1. history' # <<>>
    BY <1>7
  <2>2. QED
    BY <1>1, <1>8, <2>1
<1>11. ASSUME NEW i \in 1..Len(history')
       PROVE  history'[i].version <= current'
  <2>1. CASE i \in 1..Len(history)
    <3>1. history[i].version <= current
      BY <2>1 DEF IInv
    <3>2. history[i] \in Row
      BY <1>5, <2>1, SeqElement
    <3>3. history[i].version \in Nat
      BY <3>2
    <3>4. history'[i] = history[i]
      BY <1>9, <2>1
    <3>5. QED
      BY <1>1, <1>2, <3>1, <3>3, <3>4
  <2>2. CASE i = Len(history')
    BY <1>1, <1>2, <1>8, <2>2
  <2>3. QED
    BY <1>7, <2>1, <2>2
<1>12. ASSUME NEW v, NEW b \in Nat, b <= current, Replaces(v, b)
       PROVE  Replaces(v, b)'
  BY <1>1, <1>2, <1>12 DEF Replaces
<1>13. ASSUME NEW t, NEW c, NEW b, Restores(t, c, b)
       PROVE  Restores(t, c, b)'
  BY <1>1, <1>13 DEF Restores
<1>14. ASSUME NEW q \in Request, Sound(q)
       PROVE  Sound(q)'
  BY <1>1, <1>2, <1>12, <1>13, <1>14 DEF Sound, Request
<1>15. ASSUME NEW s \in WriterState, CallOK(s)
       PROVE  CallOK(s)'
  BY <1>1, <1>2, <1>12, <1>13, <1>15 DEF CallOK, WriterState
<1>16. current' > current /\ current' \in DOMAIN stored /\ currentAge' \in Ages
  BY <1>1, <1>2, <1>3
<1> HIDE DEF MovePointer, Admitted, e
<1>17. QED
  BY <1>6, <1>10, <1>11, <1>14, <1>15, <1>16

-----------------------------------------------------------------------------
(* The actions. *)

\* A call that ends with CONFLICT was overtaken.
LEMMA ConflictStep ==
  ASSUME IInv, NEW w \in Writers, NEW base \in Nat, base < current,
         Conflict(w, base), UNCHANGED <<bucket, wire, faults>>
  PROVE  IInv'
<1>1. current \in Nat /\ wire \subseteq Request /\ faults \in 0..MaxFaults
  BY DEF IInv, TypeOK
<1>2. "CONFLICT" \in Outcome
  BY DEF Outcome
<1>3. /\ Idle("CONFLICT", base) \in WriterState
      /\ CallOK(Idle("CONFLICT", base))
  BY <1>1, <1>2, IdleState
<1>4. \A r \in wire' : Sound(r)
  BY DEF IInv
<1>5. QED
  BY <1>1, <1>3, <1>4, WriterStep DEF Conflict

LEMMA CallStep ==
  ASSUME IInv, NEW w \in Writers, NEW expected \in Nat, NEW target \in Nat,
         NEW content \in Contents \union {NoBody}, expected <= current,
         \/ target = 0 /\ content \in Contents
         \/ target # 0 /\ content = NoBody /\ expected = 0,
         Call(w, expected, target, content)
  PROVE  IInv'
<1>1. /\ current \in Nat /\ currentAge \in Ages
      /\ wire \subseteq Request /\ faults \in 0..MaxFaults
      /\ \A r \in wire : Sound(r)
  BY DEF IInv, TypeOK
<1>2. /\ UNCHANGED <<bucket, wire, faults>>
      /\ wire' \in SUBSET Request /\ faults' \in 0..MaxFaults
      /\ \A r \in wire' : Sound(r)
  BY <1>1 DEF Call
<1>3. CASE /\ expected \notin {0, current}
           /\ Conflict(w, expected)
  BY <1>1, <1>2, <1>3, ConflictStep
<1>4. CASE /\ target # 0 /\ current \in {0, target}
           /\ End(w, "INVALID_ROLLBACK_TARGET")
  BY <1>2, <1>4, EndStep DEF Outcome
<1>5. ASSUME expected \in {0, current},
             target # 0 => current \notin {0, target},
             NEW pointerAge \in
               (IF current = 0 THEN {} ELSE {currentAge}) \union
               (IF current = 0 \/ Dateless THEN {Unknown} ELSE {}),
             writer' = [writer EXCEPT ![w] =
               [phase    |-> IF target = 0 THEN "probe" ELSE "target",
                outcome  |-> "none",
                expected |-> expected,
                target   |-> target,
                content  |-> content,
                base     |-> current,
                baseAge  |-> pointerAge,
                version  |-> FirstVersion(current)]]
      PROVE  IInv'
  <2> DEFINE s == [phase    |-> IF target = 0 THEN "probe" ELSE "target",
                   outcome  |-> "none",
                   expected |-> expected,
                   target   |-> target,
                   content  |-> content,
                   base     |-> current,
                   baseAge  |-> pointerAge,
                   version  |-> FirstVersion(current)]
  <2>1. pointerAge \in Ages \union {Unknown}
    BY <1>1, <1>5
  <2>2. pointerAge # Unknown => current # 0 /\ pointerAge >= currentAge
    BY <1>1, <1>5
  <2>3. s \in WriterState
    BY <1>1, <2>1 DEF WriterState, Phase, Outcome, FirstVersion
  <2>4. CallOK(s)
    BY <1>1, <1>5, <2>2 DEF CallOK, Restores, FirstVersion
  <2> HIDE DEF s
  <2>5. writer' = [writer EXCEPT ![w] = s]
    BY <1>5 DEF s
  <2>6. QED
    BY <1>2, <2>3, <2>4, <2>5, WriterStep
<1>6. QED
  BY <1>3, <1>4, <1>5 DEF Call

\* A version some caller has seen live is not above the pointer.
LEMMA SeenLive ==
  ASSUME IInv,
         NEW v \in {0} \union {history[i].version : i \in 1..Len(history)}
  PROVE  v \in Nat /\ v <= current
<1>1. CASE v = 0
  BY <1>1 DEF IInv, TypeOK
<1>2. CASE v # 0
  <2>1. PICK i \in 1..Len(history) : v = history[i].version
    BY <1>2
  <2> DEFINE Row == [version : Version, previous : Nat, content : Contents,
                     expected : Nat]
  <2>2. history \in Seq(Row)
    BY DEF IInv, TypeOK
  <2>3. history[i] \in Row
    <3> HIDE DEF Row
    <3>1. QED
      BY <2>2, SeqElement
  <2>4. v \in Nat
    BY <2>1, <2>3
  <2>5. QED
    BY <2>1, <2>4 DEF IInv
<1>3. QED
  BY <1>1, <1>2

LEMMA StartPublishStep ==
  ASSUME IInv, NEW w \in Writers, StartPublish(w)
  PROVE  IInv'
<1>1. PICK content \in Contents,
           expected \in {0} \union {history[i].version : i \in 1..Len(history)} :
        Call(w, expected, 0, content)
  BY DEF StartPublish
<1>2. expected \in Nat /\ expected <= current
  BY SeenLive
<1>3. QED
  BY <1>1, <1>2, CallStep

LEMMA StartRollbackStep ==
  ASSUME IInv, NEW w \in Writers, StartRollback(w)
  PROVE  IInv'
<1>1. PICK target \in DOMAIN stored \union {current + 1} :
        Call(w, 0, target, NoBody)
  BY DEF StartRollback
<1>2. current \in Nat /\ target \in Nat /\ target # 0
  <2>1. current \in Nat /\ DOMAIN stored \subseteq Nat \ {0}
    BY DEF IInv, TypeOK
  <2>2. CASE target \in DOMAIN stored
    BY <2>1, <2>2
  <2>3. CASE target = current + 1
    BY <2>1, <2>3
  <2>4. QED
    BY <2>1, <2>2, <2>3
<1>3. 0 \in Nat /\ 0 <= current
  BY <1>2
<1>4. QED
  BY <1>1, <1>2, <1>3, CallStep

LEMMA ReadTargetStep ==
  ASSUME IInv, NEW w \in Writers, ReadTarget(w)
  PROVE  IInv'
<1> DEFINE c == writer[w]
           t == c.target
<1>1. /\ c \in WriterState /\ CallOK(c) /\ c.phase = "target"
      /\ wire' \in SUBSET Request /\ faults' \in 0..MaxFaults
      /\ \A r \in wire' : Sound(r)
      /\ UNCHANGED bucket
  BY DEF IInv, TypeOK, ReadTarget
<1>2. CASE End(w, "INVALID_ROLLBACK_TARGET") \/ End(w, "INVALID_SNAPSHOT")
  BY <1>1, <1>2, EndStep DEF Outcome
<1>3. CASE /\ t \in DOMAIN stored
           /\ stored[t].content \in ValidContents
           /\ writer' = [writer EXCEPT ![w].phase = "probe",
                                       ![w].content = RestoredBody(w)]
  <2> DEFINE s == [c EXCEPT !.phase = "probe", !.content = stored[t].content]
  <2>1. s \in WriterState
    BY <1>1, <1>3 DEF WriterState, Phase
  <2>2. CallOK(s)
    BY <1>1, <1>3 DEF CallOK, Restores, WriterState
  <2> HIDE DEF s
  <2>3. writer' = [writer EXCEPT ![w] = s]
    BY <1>3 DEF s, RestoredBody, IInv, TypeOK
  <2>4. QED
    BY <1>1, <2>1, <2>2, <2>3, WriterStep
<1>4. QED
  BY <1>2, <1>3 DEF ReadTarget

LEMMA ProbeStep ==
  ASSUME IInv, NEW w \in Writers, Probe(w)
  PROVE  IInv'
<1> DEFINE c == writer[w]
<1>1. /\ c \in WriterState /\ CallOK(c) /\ c.phase = "probe"
      /\ wire' \in SUBSET Request /\ faults' \in 0..MaxFaults
      /\ \A r \in wire' : Sound(r)
      /\ UNCHANGED bucket
  BY DEF IInv, TypeOK, Probe
<1>2. CASE \/ End(w, "INVALID_SNAPSHOT")
           \/ End(w, "VERSION_EXISTS")
           \/ End(w, "VERSION_PROBE_LIMIT")
  BY <1>1, <1>2, EndStep DEF Outcome
<1>3. CASE /\ c.content \in ValidContents
           /\ writer' = [writer EXCEPT ![w].phase = "store",
                                       ![w].baseAge = Unknown]
  <2> DEFINE s == [c EXCEPT !.phase = "store", !.baseAge = Unknown]
  <2>1. s \in WriterState
    BY <1>1 DEF WriterState, Phase
  <2>2. CallOK(s)
    BY <1>1, <1>3 DEF CallOK, WriterState
  <2> HIDE DEF s
  <2>3. writer' = [writer EXCEPT ![w] = s]
    BY <1>3 DEF s, IInv, TypeOK
  <2>4. QED
    BY <1>1, <2>1, <2>2, <2>3, WriterStep
<1>4. CASE writer' = [writer EXCEPT ![w].version = c.version + 1]
  <2> DEFINE s == [c EXCEPT !.version = c.version + 1]
  <2>1. s \in WriterState
    BY <1>1 DEF WriterState
  <2>2. CallOK(s)
    BY <1>1 DEF CallOK, WriterState
  <2> HIDE DEF s
  <2>3. writer' = [writer EXCEPT ![w] = s]
    BY <1>4 DEF s, IInv, TypeOK
  <2>4. QED
    BY <1>1, <2>1, <2>2, <2>3, WriterStep
<1>5. QED
  BY <1>2, <1>3, <1>4 DEF Probe

\* A write S3 performs, for a publisher that waits or for nobody, preserves
\* the invariant, whatever becomes of the publisher that sent it.
LEMMA PerformStep ==
  ASSUME IInv, NEW r \in Request, Sound(r), Admitted(r), Perform(r),
         writer' \in [Writers -> WriterState],
         \A w \in Writers : CallOK(writer[w])',
         wire' \subseteq wire, UNCHANGED faults
  PROVE  IInv'
<1>1. CASE r.kind = "snapshot"
  <2>1. StoreSnapshot(r)
    BY <1>1 DEF Perform
  <2>2. UNCHANGED <<current, currentAge, history>>
    BY <2>1 DEF StoreSnapshot
  <2>3. /\ DOMAIN stored' = DOMAIN stored \union {r.version}
        /\ stored' \in [DOMAIN stored' -> Snapshot]
        /\ age' \in [DOMAIN stored' -> Ages]
        /\ \A v \in DOMAIN stored' :
             Restores(stored[v].restores, stored[v].content,
                      stored[v].previous)'
        /\ \A q \in Request : Sound(q) => Sound(q)'
    BY <1>1, <2>1, StoreStep
  <2>4. TypeOK'
    BY <2>2, <2>3 DEF IInv, TypeOK, Request
  <2>5. \A q \in wire' : Sound(q)'
    BY <2>3 DEF IInv, TypeOK
  <2>6. QED
    BY <2>2, <2>3, <2>4, <2>5 DEF IInv
<1>2. CASE r.kind = "pointer"
  <2>1. MovePointer(r)
    BY <1>2 DEF Perform
  <2>2. UNCHANGED <<stored, age>>
    BY <2>1 DEF MovePointer
  <2>3. /\ current' > current
        /\ current' \in DOMAIN stored
        /\ currentAge' \in Ages
        /\ history' \in Seq([version : Version, previous : Nat,
                             content : Contents, expected : Nat])
        /\ current' = IF history' = <<>> THEN 0
                      ELSE history'[Len(history')].version
        /\ \A i \in 1..Len(history') : history'[i].version <= current'
        /\ \A q \in Request : Sound(q) => Sound(q)'
    BY <1>2, <2>1, MoveStep
  <2>4. TypeOK'
    BY <2>2, <2>3 DEF IInv, TypeOK
  <2>5. \A q \in wire' : Sound(q)'
    BY <2>3 DEF IInv, TypeOK
  <2>6. \A v \in DOMAIN stored' :
          Restores(stored[v].restores, stored[v].content, stored[v].previous)'
    BY <2>2 DEF IInv, Restores
  <2>7. QED
    BY <2>2, <2>3, <2>4, <2>5, <2>6 DEF IInv
<1>3. QED
  BY <1>1, <1>2 DEF Request

\* A call in order stays in order when S3 performs a write.
LEMMA PerformKeepsCalls ==
  ASSUME IInv, NEW r \in Request, Sound(r), Admitted(r), Perform(r),
         NEW s \in WriterState, CallOK(s)
  PROVE  CallOK(s)'
BY StoreStep, MoveStep DEF Perform, Request

LEMMA LandStep ==
  ASSUME IInv, NEW r \in wire, Land(r)
  PROVE  IInv'
<1>1. /\ r \in Request /\ Sound(r)
      /\ writer \in [Writers -> WriterState] /\ writer' = writer
      /\ \A w \in Writers : CallOK(writer[w])
      /\ wire' = wire \ {r} /\ faults' = faults
  BY DEF IInv, TypeOK, Land
<1>2. CASE Admitted(r)
  <2>1. Perform(r)
    BY <1>2 DEF Land
  <2>2. \A w \in Writers : CallOK(writer[w])'
    <3>1. ASSUME NEW w \in Writers PROVE CallOK(writer[w])'
      <4>1. writer[w] \in WriterState /\ CallOK(writer[w])
        BY <1>1
      <4>2. \A s \in WriterState : CallOK(s) => CallOK(s)'
        BY <1>1, <1>2, <2>1, PerformKeepsCalls
      <4> QED
        BY <1>1, <4>1, <4>2
    <3>2. QED
      BY <3>1
  <2>3. QED
    BY <1>1, <1>2, <2>1, <2>2, PerformStep
<1>3. CASE ~Admitted(r)
  <2>1. UNCHANGED <<bucket, writer, faults>> /\ wire' \subseteq wire
    BY <1>1, <1>3 DEF Land
  <2>2. TypeOK'
    BY <2>1 DEF IInv, TypeOK, bucket
  <2>3. QED
    BY <2>1, <2>2
       DEF IInv, bucket, Sound, CallOK, Restores, Replaces
<1>4. QED
  BY <1>2, <1>3

LEMMA PutSnapshotStep ==
  ASSUME IInv, NEW w \in Writers, PutSnapshot(w)
  PROVE  IInv'
<1>1. PICK c \in WriterState : c = writer[w]
  BY DEF IInv, TypeOK
<1>2. PICK r \in Request : r = RequestOf(w, "snapshot") /\ Sound(r)
  BY OutstandingSound DEF Outstanding, PutSnapshot
<1>3. /\ CallOK(c) /\ c.phase = "store"
      /\ r.kind = "snapshot" /\ r.version = c.version /\ r.base = c.base
      /\ writer \in [Writers -> WriterState]
      /\ \A x \in Writers : writer[x] \in WriterState /\ CallOK(writer[x])
      /\ wire' = wire /\ faults' = faults
  BY <1>1, <1>2 DEF IInv, TypeOK, PutSnapshot, RequestOf
<1>4. CASE Admitted(r)
  <2>1. PICK s \in WriterState : s = [c EXCEPT !.phase = "point"]
    BY DEF WriterState, Phase
  <2>2. Perform(r) /\ StoreSnapshot(r)
    BY <1>2, <1>3, <1>4 DEF PutSnapshot, Perform
  <2>3. \A x \in WriterState : CallOK(x) => CallOK(x)'
    BY <1>2, <1>4, <2>2, PerformKeepsCalls
  <2>4. Replaces(c.version, c.base)'
    BY <1>2, <1>3, <1>4, <2>2, StoreStep
  <2>5. CallOK(s)'
    BY <1>3, <2>1, <2>3, <2>4 DEF CallOK, WriterState
  <2>6. writer' = [writer EXCEPT ![w] = s]
    BY <1>1, <1>2, <1>3, <1>4, <2>1 DEF PutSnapshot
  <2>7. /\ writer' \in [Writers -> WriterState]
        /\ \A x \in Writers : writer'[x] = IF x = w THEN s ELSE writer[x]
    BY <1>3, <2>6
  <2>8. \A x \in Writers : CallOK(writer[x])'
    <3>1. ASSUME NEW x \in Writers PROVE CallOK(writer[x])'
      <4>1. PICK y \in WriterState : y = writer[x] /\ CallOK(y)
        BY <1>3
      <4>2. CallOK(y)'
        BY <2>3, <4>1
      <4>3. QED
        BY <2>5, <2>7, <4>1, <4>2
    <3>2. QED
      BY <3>1
  <2>9. QED
    BY <1>2, <1>3, <1>4, <2>2, <2>7, <2>8, PerformStep
<1>5. CASE ~Admitted(r)
  <2>1. End(w, "VERSION_EXISTS") /\ UNCHANGED bucket
    BY <1>2, <1>5 DEF PutSnapshot
  <2>2. /\ wire' \in SUBSET Request /\ faults' \in 0..MaxFaults
        /\ \A q \in wire' : Sound(q)
    BY <1>3 DEF IInv, TypeOK
  <2>3. QED
    BY <2>1, <2>2, EndStep DEF Outcome
<1>6. QED
  BY <1>4, <1>5

LEMMA PutPointerStep ==
  ASSUME IInv, NEW w \in Writers, PutPointer(w)
  PROVE  IInv'
<1>1. PICK c \in WriterState : c = writer[w]
  BY DEF IInv, TypeOK
<1>2. PICK r \in Request : r = RequestOf(w, "pointer") /\ Sound(r)
  BY OutstandingSound DEF Outstanding, PutPointer
<1>3. /\ CallOK(c) /\ c.phase = "point"
      /\ r.kind = "pointer" /\ r.base = c.base
      /\ writer \in [Writers -> WriterState]
      /\ \A x \in Writers : writer[x] \in WriterState /\ CallOK(writer[x])
      /\ wire' = wire /\ faults' = faults
  BY <1>1, <1>2 DEF IInv, TypeOK, PutPointer, RequestOf
<1>4. CASE Admitted(r)
  <2>1. PICK s \in WriterState : s = [c EXCEPT !.phase = "notify"]
    BY DEF WriterState, Phase
  <2>2. Perform(r)
    BY <1>2, <1>4 DEF PutPointer
  <2>3. \A x \in WriterState : CallOK(x) => CallOK(x)'
    BY <1>2, <1>4, <2>2, PerformKeepsCalls
  <2>4. CallOK(s)'
    BY <1>3, <2>1, <2>3 DEF CallOK, WriterState
  <2>5. writer' = [writer EXCEPT ![w] = s]
    BY <1>1, <1>2, <1>4, <2>1 DEF PutPointer
  <2>6. /\ writer' \in [Writers -> WriterState]
        /\ \A x \in Writers : writer'[x] = IF x = w THEN s ELSE writer[x]
    BY <1>3, <2>5
  <2>7. \A x \in Writers : CallOK(writer[x])'
    <3>1. ASSUME NEW x \in Writers PROVE CallOK(writer[x])'
      <4>1. PICK y \in WriterState : y = writer[x] /\ CallOK(y)
        BY <1>3
      <4>2. CallOK(y)'
        BY <2>3, <4>1
      <4>3. QED
        BY <2>4, <2>6, <4>1, <4>2
    <3>2. QED
      BY <3>1
  <2>8. QED
    BY <1>2, <1>3, <1>4, <2>2, <2>6, <2>7, PerformStep
<1>5. CASE ~Admitted(r)
  <2>1. Conflict(w, c.base) /\ UNCHANGED <<bucket, wire, faults>>
    BY <1>2, <1>3, <1>5 DEF PutPointer
  <2>2. c.base \in Nat /\ c.base <= current
    BY <1>3 DEF CallOK, WriterState
  <2>3. current \in Nat /\ c.base # current
    BY <1>3, <1>5 DEF Admitted, IInv, TypeOK
  <2>4. QED
    BY <2>1, <2>2, <2>3, ConflictStep
<1>6. QED
  BY <1>4, <1>5

LEMMA NotifyStep ==
  ASSUME IInv, NEW w \in Writers, Notify(w)
  PROVE  IInv'
BY EndStep DEF Notify, Outcome, IInv, TypeOK

\* Leaving the outstanding write on the wire keeps the wire in order.
LEMMA LeaveOnWire ==
  ASSUME IInv, NEW w \in Writers, wire' = wire \union Outstanding(w)
  PROVE  wire' \in SUBSET Request /\ \A r \in wire' : Sound(r)
BY OutstandingSound DEF IInv, TypeOK

LEMMA FaultStep ==
  ASSUME IInv, NEW w \in Writers,
         ReadFails(w) \/ Resend(w) \/ GiveUp(w) \/ Crash(w)
  PROVE  IInv'
<1>1. faults' \in 0..MaxFaults
  BY DEF IInv, TypeOK, ReadFails, Resend, GiveUp, Crash, Fault
<1>2. CASE ReadFails(w)
  BY <1>1, <1>2, EndStep DEF ReadFails, Outcome, IInv, TypeOK
<1>3. CASE GiveUp(w)
  BY <1>1, <1>3, EndStep, LeaveOnWire DEF GiveUp, Outcome
<1>4. CASE Crash(w)
  BY <1>1, <1>4, EndStep, LeaveOnWire DEF Crash, Outcome
<1>5. CASE Resend(w)
  <2>1. writer[w] \in WriterState /\ CallOK(writer[w])
    BY DEF IInv, TypeOK
  <2>2. writer' = [writer EXCEPT ![w] = writer[w]]
    BY <1>5 DEF Resend, IInv, TypeOK
  <2>3. QED
    BY <1>1, <1>5, <2>1, <2>2, WriterStep, LeaveOnWire DEF Resend
<1>6. QED
  BY <1>2, <1>3, <1>4, <1>5

LEMMA TickStep ==
  ASSUME IInv, Tick
  PROVE  IInv'
<1>1. /\ UNCHANGED <<stored, current, history, wire, faults>>
      /\ age \in [DOMAIN stored -> Ages] /\ currentAge \in Ages
      /\ writer \in [Writers -> WriterState]
      /\ age' = [v \in DOMAIN stored |-> Older(age[v])]
      /\ currentAge' = IF current = 0 THEN 0 ELSE Older(currentAge)
      /\ writer' = [w \in Writers |-> [writer[w] EXCEPT !.baseAge = Older(@)]]
  BY DEF IInv, TypeOK, Tick
<1>2. /\ \A a \in Ages : Older(a) \in Ages
      /\ \A a, b \in Ages : a <= b => Older(a) <= Older(b)
      /\ Older(Unknown) = Unknown
  BY DEF Older
<1>3. age' \in [DOMAIN stored' -> Ages] /\ currentAge' \in Ages
  BY <1>1, <1>2
<1>4. ASSUME NEW s \in WriterState
      PROVE  [s EXCEPT !.baseAge = Older(@)] \in WriterState
  <2>1. Older(s.baseAge) \in Ages \union {Unknown}
    BY <1>2 DEF WriterState
  <2>2. QED
    BY <2>1 DEF WriterState
<1>5. writer' \in [Writers -> WriterState]
  BY <1>1, <1>4
<1>6. TypeOK'
  BY <1>1, <1>3, <1>5 DEF IInv, TypeOK
<1>7. ASSUME NEW v, NEW b, Replaces(v, b)
      PROVE  Replaces(v, b)'
  <2>1. CASE b = current /\ current # 0
    <3>1. age[v] \in Ages /\ age[v] <= currentAge
      BY <1>1, <1>7, <2>1 DEF Replaces
    <3>2. Older(age[v]) <= Older(currentAge)
      BY <1>1, <1>2, <3>1
    <3>3. QED
      BY <1>1, <1>7, <2>1, <3>2 DEF Replaces
  <2>2. CASE ~(b = current /\ current # 0)
    BY <1>1, <1>7, <2>2 DEF Replaces
  <2>3. QED
    BY <2>1, <2>2
<1>8. \A t, c, b : Restores(t, c, b) => Restores(t, c, b)'
  BY <1>1 DEF Restores
<1>9. (\A r \in wire : Sound(r))'
  BY <1>1, <1>7, <1>8 DEF IInv, Sound
<1>10. ASSUME NEW s \in WriterState, CallOK(s)
       PROVE  CallOK([s EXCEPT !.baseAge = Older(@)])'
  <2>1. PICK t \in WriterState : t = [s EXCEPT !.baseAge = Older(@)]
    BY <1>4
  <2>2. t.baseAge = Older(s.baseAge)
    BY <2>1 DEF WriterState
  <2>3. t.baseAge # Unknown => current # 0 /\ t.baseAge >= Older(currentAge)
    <3>1. CASE s.baseAge = Unknown
      BY <1>2, <2>2, <3>1
    <3>2. CASE s.baseAge # Unknown
      <4>1. s.baseAge \in Ages /\ s.baseAge >= currentAge /\ current # 0
        BY <1>10, <3>2 DEF CallOK, WriterState
      <4>2. QED
        BY <1>1, <1>2, <2>2, <4>1
    <3>3. QED
      BY <3>1, <3>2
  <2>4. CallOK(t)'
    BY <1>1, <1>7, <1>8, <1>10, <2>1, <2>3 DEF CallOK, WriterState
  <2>5. QED
    BY <2>1, <2>4
<1>11. \A w \in Writers : CallOK(writer[w])'
  <2>1. ASSUME NEW w \in Writers PROVE CallOK(writer[w])'
    <3>1. PICK s \in WriterState : s = writer[w] /\ CallOK(s)
      BY <1>1 DEF IInv
    <3>2. writer'[w] = [s EXCEPT !.baseAge = Older(@)]
      BY <1>1, <3>1
    <3>3. QED
      BY <1>10, <3>1, <3>2
  <2>2. QED
    BY <2>1
<1>12. QED
  BY <1>1, <1>6, <1>8, <1>9, <1>11 DEF IInv

-----------------------------------------------------------------------------
(* The invariant. *)

LEMMA InitIInv ==
  ASSUME Init
  PROVE  IInv
<1>1. PICK top \in 0..MaxLegacy, first \in Contents :
      \E live \in IF top = 0 THEN {0} ELSE 1..top :
      \E snapshotAge \in Ages : \E pointerAge \in 0..snapshotAge :
        /\ stored = [v \in 1..top |->
                       [content |-> first, previous |-> v - 1, restores |-> 0]]
        /\ age = [v \in 1..top |-> snapshotAge]
        /\ current = live
        /\ currentAge = IF live = 0 THEN 0 ELSE pointerAge
        /\ history = IF live = 0 THEN <<>>
                     ELSE <<[version |-> live, previous |-> live - 1,
                             content |-> first, expected |-> 0]>>
  BY DEF Init
<1>2. PICK live \in (IF top = 0 THEN {0} ELSE 1..top), snapshotAge \in Ages :
      \E pointerAge \in 0..snapshotAge :
        /\ stored = [v \in 1..top |->
                       [content |-> first, previous |-> v - 1, restores |-> 0]]
        /\ age = [v \in 1..top |-> snapshotAge]
        /\ current = live
        /\ currentAge = IF live = 0 THEN 0 ELSE pointerAge
        /\ history = IF live = 0 THEN <<>>
                     ELSE <<[version |-> live, previous |-> live - 1,
                             content |-> first, expected |-> 0]>>
  BY <1>1
<1>3. /\ wire = {} /\ faults = 0
      /\ writer = [w \in Writers |-> Idle("none", 0)]
  BY DEF Init
<1>4. top \in Nat /\ live \in Nat /\ current = live
      /\ (live = 0 <=> top = 0) /\ live <= top
  BY <1>2
<1>5. /\ DOMAIN stored = 1..top
      /\ \A v \in 1..top : stored[v] \in Snapshot /\ stored[v].restores = 0
  BY <1>2 DEF Snapshot
<1>6. age \in [DOMAIN stored -> Ages] /\ currentAge \in Ages
  BY <1>2, <1>4, <1>5
<1>7. writer \in [Writers -> WriterState] /\ \A w \in Writers : CallOK(writer[w])
  BY <1>3, <1>4, IdleState DEF Outcome
<1>8. /\ history \in Seq([version : Version, previous : Nat,
                           content : Contents, expected : Nat])
      /\ current = IF history = <<>> THEN 0 ELSE history[Len(history)].version
      /\ \A i \in 1..Len(history) : history[i].version <= current
  <2>1. CASE live = 0
    BY <1>2, <2>1
  <2>2. CASE live # 0
    <3> DEFINE Row == [version : Version, previous : Nat, content : Contents,
                       expected : Nat]
               e == [version |-> live, previous |-> live - 1,
                     content |-> first, expected |-> 0]
    <3>1. e \in Row /\ history = <<e>>
      BY <1>2, <1>4, <2>2
    <3>2. e.version = live
      OBVIOUS
    <3> HIDE DEF e, Row
    <3>3. history \in Seq(Row) /\ Len(history) = 1 /\ history[1] = e
          /\ history # <<>>
      BY <3>1
    <3>4. QED
      BY <1>4, <3>2, <3>3 DEF Row
  <2>3. QED
    BY <2>1, <2>2
<1>9. TypeOK
  <2>1. stored \in [DOMAIN stored -> Snapshot] /\ DOMAIN stored \subseteq Version
    <3>1. stored = [v \in 1..top |->
                      [content |-> first, previous |-> v - 1, restores |-> 0]]
      BY <1>2
    <3>2. \A v \in 1..top :
            [content |-> first, previous |-> v - 1, restores |-> 0] \in Snapshot
      BY DEF Snapshot
    <3>3. QED
      BY <3>1, <3>2
  <2>2. faults \in 0..MaxFaults /\ wire \subseteq Request
    BY <1>3
  <2>3. QED
    BY <1>4, <1>6, <1>7, <1>8, <2>1, <2>2 DEF TypeOK
<1>10. QED
  BY <1>3, <1>4, <1>5, <1>7, <1>8, <1>9 DEF IInv, Restores

\* Every step of the specification preserves the invariant.
LEMMA Inductive ==
  ASSUME IInv, [Next]_vars
  PROVE  IInv'
<1>1. ASSUME NEW w \in Writers, StartPublish(w) PROVE IInv'
  BY <1>1, StartPublishStep
<1>2. ASSUME NEW w \in Writers, StartRollback(w) PROVE IInv'
  BY <1>2, StartRollbackStep
<1>3. ASSUME NEW w \in Writers, Advance(w) PROVE IInv'
  BY <1>3, ReadTargetStep, ProbeStep, PutSnapshotStep, PutPointerStep, NotifyStep
     DEF Advance
<1>4. ASSUME NEW w \in Writers,
             ReadFails(w) \/ Resend(w) \/ GiveUp(w) \/ Crash(w)
      PROVE  IInv'
  BY <1>4, FaultStep
<1>5. ASSUME NEW r \in wire, Land(r) PROVE IInv'
  BY <1>5, LandStep
<1>6. CASE Tick
  BY <1>6, TickStep
<1>7. CASE UNCHANGED vars
  BY <1>7 DEF vars, IInv, TypeOK, Restores, Replaces, Sound, CallOK
<1>8. QED
  BY <1>1, <1>2, <1>3, <1>4, <1>5, <1>6, <1>7 DEF Next

\* Every reachable state satisfies the invariant, for any set of publishers,
\* any bodies and any grace period.
THEOREM Invariance == Spec => []IInv
<1>1. Init => IInv
  BY InitIInv
<1>2. IInv /\ [Next]_vars => IInv'
  BY Inductive
<1>3. QED
  BY <1>1, <1>2, PTL DEF Spec

-----------------------------------------------------------------------------
(* What follows from it. *)

\* Every variable keeps its type: in particular no publisher ever reaches a
\* phase or an outcome the code does not have.
THEOREM TypeCorrect == Spec => []TypeOK
<1>1. IInv => TypeOK
  BY DEF IInv
<1>2. QED
  BY <1>1, Invariance, PTL

\* However late a pointer write lands, the pointer then names a stored
\* snapshot that says it replaces the version the pointer moved from.
THEOREM PendingMovesAlwaysFit == Spec => []PendingMovesFit
<1>1. IInv => PendingMovesFit
  <2> SUFFICES ASSUME IInv PROVE PendingMovesFit
    OBVIOUS
  <2>1. current # 0 => current \in DOMAIN stored
    BY DEF IInv
  <2>2. ASSUME NEW r \in PendingMoves
        PROVE  Sound(r) /\ r.kind = "pointer"
    <3>1. CASE r \in wire
      <4>1. r.kind = "pointer"
        BY <2>2, <3>1 DEF PendingMoves, RequestOf
      <4>2. QED
        BY <3>1, <4>1 DEF IInv
    <3>2. CASE r \notin wire
      <4>1. PICK w \in Writers :
              writer[w].phase = "point" /\ r = RequestOf(w, "pointer")
        BY <2>2, <3>2 DEF PendingMoves
      <4>2. QED
        BY <4>1, OutstandingSound DEF Outstanding, RequestOf
    <3>3. QED
      BY <3>1, <3>2
  <2>3. QED
    BY <2>1, <2>2 DEF PendingMovesFit, Sound, Replaces
<1>2. QED
  BY <1>1, Invariance, PTL

\* A snapshot that restores an older version carries its body, and was not
\* written while that version was live.
THEOREM RollbackAlwaysRestores == Spec => []RollbackRestores
<1>1. IInv => RollbackRestores
  BY DEF IInv, Restores, RollbackRestores
<1>2. QED
  BY <1>1, Invariance, PTL

\* A publisher is told CONFLICT only when another one has moved the pointer.
THEOREM ConflictAlwaysMeansMoved == Spec => []ConflictMeansMoved
<1>1. IInv => ConflictMeansMoved
  <2> SUFFICES ASSUME IInv, NEW w \in Writers, writer[w].outcome = "CONFLICT"
               PROVE  current > writer[w].base
    BY DEF ConflictMeansMoved
  <2>1. CallOK(writer[w]) /\ writer[w] \in WriterState /\ current \in Nat
    BY DEF IInv, TypeOK
  <2>2. QED
    BY <2>1 DEF CallOK, WriterState
<1>2. QED
  BY <1>1, Invariance, PTL

\* Only an admitted request changes the bucket, apart from time passing.
LEMMA BucketStep ==
  ASSUME IInv, [Next]_vars
  PROVE  \/ UNCHANGED <<stored, current, history>>
         \/ \E r \in Request : Sound(r) /\ Admitted(r) /\ Perform(r)
<1>1. ASSUME NEW w \in Writers, PutSnapshot(w)
      PROVE  \/ UNCHANGED <<stored, current, history>>
             \/ \E r \in Request : Sound(r) /\ Admitted(r) /\ Perform(r)
  <2>1. RequestOf(w, "snapshot") \in Request /\ Sound(RequestOf(w, "snapshot"))
    BY <1>1, OutstandingSound DEF Outstanding, PutSnapshot
  <2>2. QED
    BY <1>1, <2>1 DEF PutSnapshot, bucket
<1>2. ASSUME NEW w \in Writers, PutPointer(w)
      PROVE  \/ UNCHANGED <<stored, current, history>>
             \/ \E r \in Request : Sound(r) /\ Admitted(r) /\ Perform(r)
  <2>1. RequestOf(w, "pointer") \in Request /\ Sound(RequestOf(w, "pointer"))
    BY <1>2, OutstandingSound DEF Outstanding, PutPointer
  <2>2. QED
    BY <1>2, <2>1 DEF PutPointer, bucket
<1>3. ASSUME NEW r \in wire, Land(r)
      PROVE  \/ UNCHANGED <<stored, current, history>>
             \/ \E q \in Request : Sound(q) /\ Admitted(q) /\ Perform(q)
  BY <1>3 DEF Land, bucket, IInv, TypeOK
<1>4. ASSUME NEW w \in Writers, StartPublish(w) \/ StartRollback(w)
      PROVE  UNCHANGED <<stored, current, history>>
  BY <1>4 DEF StartPublish, StartRollback, Call, bucket
<1>5. ASSUME NEW w \in Writers, ReadTarget(w) \/ Probe(w) \/ Notify(w)
      PROVE  UNCHANGED <<stored, current, history>>
  BY <1>5 DEF ReadTarget, Probe, Notify, bucket
<1>6. ASSUME NEW w \in Writers,
             ReadFails(w) \/ Resend(w) \/ GiveUp(w) \/ Crash(w)
      PROVE  UNCHANGED <<stored, current, history>>
  BY <1>6 DEF ReadFails, Resend, GiveUp, Crash, bucket
<1>7. CASE Tick
  BY <1>7 DEF Tick
<1>8. CASE UNCHANGED vars
  BY <1>8 DEF vars
<1>9. QED
  BY <1>1, <1>2, <1>3, <1>4, <1>5, <1>6, <1>7, <1>8 DEF Next, Advance

\* A stored snapshot is never rewritten or removed.
THEOREM SnapshotsNeverEverChange == Spec => SnapshotsNeverChange
<1>1. IInv /\ [Next]_vars => [KeepsSnapshots]_vars
  <2> SUFFICES ASSUME IInv, [Next]_vars, NEW v \in DOMAIN stored
               PROVE  v \in DOMAIN stored' /\ stored'[v] = stored[v]
    BY DEF KeepsSnapshots
  <2>1. CASE UNCHANGED <<stored, current, history>>
    BY <2>1
  <2>2. ASSUME NEW r \in Request, Sound(r), Admitted(r), Perform(r)
        PROVE  v \in DOMAIN stored' /\ stored'[v] = stored[v]
    <3>1. CASE r.kind = "snapshot"
      BY <2>2, <3>1, StoreStep DEF Perform
    <3>2. CASE r.kind # "snapshot"
      BY <2>2, <3>2 DEF Perform, MovePointer
    <3>3. QED
      BY <3>1, <3>2
  <2>3. QED
    BY <2>1, <2>2, BucketStep
<1>2. QED
  BY <1>1, Invariance, PTL DEF Spec, SnapshotsNeverChange

\* Among all steps only a probe leaves a publisher probing at a later version.
LEMMA ProbeOnly ==
  ASSUME IInv, [Next]_vars, NEW w \in Writers,
         writer[w].phase = "probe", writer'[w].phase = "probe",
         writer'[w].version # writer[w].version
  PROVE  Probe(w)
<1>1. writer \in [Writers -> WriterState]
  BY DEF IInv, TypeOK
<1>2. ASSUME NEW x \in Writers, StartPublish(x) \/ StartRollback(x)
      PROVE  writer'[w] = writer[w]
  BY <1>1, <1>2 DEF StartPublish, StartRollback, Call, Conflict, End
<1>3. ASSUME NEW x \in Writers, ReadTarget(x) \/ PutSnapshot(x) \/ PutPointer(x)
      PROVE  writer'[w] = writer[w]
  BY <1>1, <1>3 DEF ReadTarget, PutSnapshot, PutPointer, Conflict, End
<1>4. ASSUME NEW x \in Writers, Notify(x) \/ Resend(x)
      PROVE  writer'[w] = writer[w]
  BY <1>1, <1>4 DEF Notify, Resend, End
<1>5. ASSUME NEW x \in Writers, ReadFails(x) \/ GiveUp(x) \/ Crash(x)
      PROVE  writer'[w] = writer[w]
  BY <1>1, <1>5 DEF ReadFails, GiveUp, Crash, End, Idle
<1>6. ASSUME NEW x \in Writers, Probe(x), x # w
      PROVE  writer'[w] = writer[w]
  BY <1>1, <1>6 DEF Probe, End
<1>7. ASSUME NEW r \in wire, Land(r)
      PROVE  writer'[w] = writer[w]
  BY <1>7 DEF Land
<1>8. CASE Tick
  BY <1>1, <1>8 DEF Tick, WriterState
<1>9. CASE UNCHANGED vars
  BY <1>9 DEF vars
<1>10. QED
  BY <1>2, <1>3, <1>4, <1>5, <1>6, <1>7, <1>8, <1>9 DEF Next, Advance

\* A young snapshot is stepped over only when its publisher has lost: the
\* pointer cannot be moved to it any more.
THEOREM SkipsNeverALiveRival == Spec => SkipsNoLiveRival
<1>1. IInv /\ [Next]_vars => [SkipsAreSafe]_vars
  <2> SUFFICES ASSUME IInv, [Next]_vars, NEW w \in Writers,
                      writer[w].phase = "probe", writer'[w].phase = "probe",
                      writer'[w].version = writer[w].version + 1,
                      age[writer[w].version] + MaxSkew < Grace,
                      NEW r \in PendingMoves, r.version = writer[w].version
               PROVE  ~Admitted(r)
    BY DEF SkipsAreSafe, SkipsOnlyLosers
  <2>1. PICK c \in WriterState, v \in Nat : c = writer[w] /\ v = c.version
    BY DEF IInv, TypeOK, WriterState
  <2>2. CallOK(c) /\ current \in Nat /\ currentAge \in Ages
    BY <2>1 DEF IInv, TypeOK
  <2>3. r.kind = "pointer" /\ Replaces(v, r.base)
    <3>1. CASE r \in wire
      BY <2>1, <3>1 DEF PendingMoves, RequestOf, IInv, Sound
    <3>2. CASE r \notin wire
      <4>1. PICK x \in Writers :
              writer[x].phase = "point" /\ r = RequestOf(x, "pointer")
        BY <3>2 DEF PendingMoves
      <4>2. QED
        BY <2>1, <4>1, OutstandingSound DEF Outstanding, RequestOf, Sound
    <3>3. QED
      BY <3>1, <3>2
  <2>4. Probe(w)
    BY <2>1, ProbeOnly
  <2>5. v \in DOMAIN stored /\ age[v] \in Ages
    BY <2>3 DEF Replaces, IInv, TypeOK
  <2>6. PICK seenAge \in {age[v]} \union (IF Dateless THEN {Unknown} ELSE {}),
             skew \in -MaxSkew..MaxSkew :
          Skippable(seenAge, age[v] + skew, c.baseAge)
    <3>1. End(w, "VERSION_EXISTS") => writer'[w].phase = "idle"
      BY DEF End, Idle, IInv, TypeOK
    <3>2. End(w, "VERSION_PROBE_LIMIT") => writer'[w].phase = "idle"
      BY DEF End, Idle, IInv, TypeOK
    <3>3. QED
      BY <2>1, <2>4, <2>5, <3>1, <3>2 DEF Probe
  <2>7. c.baseAge # Unknown /\ age[v] > c.baseAge
    BY <2>1, <2>5, <2>6 DEF Skippable
  <2>8. c.baseAge \in Nat /\ c.baseAge >= currentAge /\ current # 0
    BY <2>2, <2>7 DEF CallOK, WriterState
  <2>9. r.base # current
    BY <2>3, <2>5, <2>7, <2>8, <2>2 DEF Replaces
  <2>10. QED
    BY <2>3, <2>9 DEF Admitted
<1>2. QED
  BY <1>1, Invariance, PTL DEF Spec, SkipsNoLiveRival

-----------------------------------------------------------------------------
(* The refinement. *)

\* The history starts as PublishedHistory lets it start.
LEMMA InitRefines ==
  ASSUME Init
  PROVE  Published!Init
<1>1. IInv
  BY InitIInv
<1>2. history \in Seq(Published!Entry)
  BY <1>1 DEF IInv, TypeOK, Published!Entry
<1>3. Len(history) <= 1
  BY DEF Init
<1>4. QED
  BY <1>2, <1>3 DEF Published!Init

\* Every step of the publishers is a version going live, or leaves the
\* history alone.
LEMMA StepRefines ==
  ASSUME IInv, [Next]_vars
  PROVE  [Published!GoLive]_history
<1>1. CASE UNCHANGED <<stored, current, history>>
  BY <1>1
<1>2. ASSUME NEW r \in Request, Sound(r), Admitted(r), Perform(r)
      PROVE  [Published!GoLive]_history
  <2>1. CASE r.kind # "pointer"
    BY <1>2, <2>1 DEF Perform, StoreSnapshot, Request
  <2>2. CASE r.kind = "pointer"
    <3>1. PICK e \in Published!Entry :
            /\ history' = Append(history, e)
            /\ e.version = r.version
            /\ e.previous = stored[r.version].previous
            /\ e.content = stored[r.version].content
            /\ e.expected = r.expected
      <4>1. /\ r.version \in Version /\ r.expected \in Nat
            /\ r.version \in DOMAIN stored
        BY <1>2, <2>2 DEF Request, Sound, Replaces
      <4>2. stored[r.version] \in Snapshot
        BY <4>1 DEF IInv, TypeOK
      <4>3. MovePointer(r)
        BY <1>2, <2>2 DEF Perform
      <4>4. QED
        BY <4>1, <4>2, <4>3 DEF MovePointer, Snapshot, Published!Entry
    <3>2. /\ r.base = current /\ r.version > r.base
          /\ r.expected \in {0, r.base}
          /\ e.previous = r.base /\ e.content \in ValidContents
      BY <1>2, <2>2, <3>1 DEF Admitted, Sound, Replaces
    <3>3. history \in Seq(Published!Entry)
      BY DEF IInv, TypeOK, Published!Entry
    <3>4. Published!Latest = current
      BY DEF Published!Latest, IInv
    <3>5. Len(history') = Len(history) + 1 /\ history'[Len(history')] = e
      BY <3>1, <3>3
    <3>6. QED
      BY <3>1, <3>2, <3>4, <3>5 DEF Published!GoLive
  <2>3. QED
    BY <2>1, <2>2
<1>3. QED
  BY <1>1, <1>2, BucketStep

\* The publishers implement PublishedHistory.
THEOREM Refinement == Spec => PublishedSpec
<1>1. Init => Published!Init
  BY InitRefines
<1>2. IInv /\ [Next]_vars => [Published!GoLive]_history
  BY StepRefines
<1>3. QED
  BY <1>1, <1>2, Invariance, PTL DEF Spec, PublishedSpec, Published!Spec
=============================================================================
