----------------------- MODULE SegmentPublisherProofs -----------------------
(***************************************************************************)
(* Theorems about SegmentPublisher, for every number of uploaders, every   *)
(* set of files and drafts, every size limit and every bound.              *)
(*                                                                         *)
(* The argument: every write there is, awaited or on the wire, is for the  *)
(* successor of a version that was live (Sound), objects are never         *)
(* replaced, and the pointer moves up one by one (LineOK); so a write      *)
(* whose base is no longer live can change nothing any more.  CallStep,    *)
(* StoreStep and MoveStep say what the three kinds of step preserve, and   *)
(* the actions are instances of them.                                      *)
(***************************************************************************)
EXTENDS SegmentPublisher, FiniteSetTheorems, TLAPS

USE SegmentAssumption DEF Unasked

-----------------------------------------------------------------------------
(* What the invariant says of a single write. *)

\* The write an uploader waits for.
LEMMA OutstandingType ==
  ASSUME IInv, NEW u \in Uploaders
  PROVE  /\ Outstanding(u) \subseteq Writes
         /\ Outstanding(u) \subseteq Request
         /\ \A r \in Outstanding(u) : Sound(r)
<1>1. Outstanding(u) \subseteq Writes
  BY DEF Writes
<1>2. \A r \in Outstanding(u) : Sound(r)
  BY <1>1 DEF IInv
<1>3. ASSUME NEW r \in Outstanding(u)
      PROVE  r \in Request
  <2>1. upload[u] \in UploadState
    BY DEF IInv, TypeOK
  <2>2. upload[u].phase \in {"object", "pointer"} /\ r = RequestOf(u, upload[u].phase)
    BY DEF Outstanding
  <2>3. r.version = r.base + 1 /\ r.members \in SUBSET Names
    BY <1>2 DEF Sound, ValidMembers
  <2>4. r.version # 0
    BY <2>1, <2>2, <2>3 DEF RequestOf, UploadState, Versions
  <2>5. QED
    BY <2>1, <2>2, <2>3, <2>4 DEF RequestOf, Request, UploadState
<1>4. QED
  BY <1>1, <1>2, <1>3

LEMMA WritesType ==
  ASSUME IInv
  PROVE  Writes \subseteq Request
BY OutstandingType DEF Writes, IInv, TypeOK

\* Only the write for the version next to the live one can be admitted.
LEMMA AdmittedIsNext ==
  ASSUME IInv, NEW r \in Writes, Admitted(r)
  PROVE  /\ r.base = pointer
         /\ r.version = pointer + 1
         /\ r.kind = "object" => pointer + 1 \notin DOMAIN stored
<1>1. r \in Request /\ Sound(r)
  BY WritesType DEF IInv
<1>2. pointer \in Nat /\ r.base \in Nat
  BY <1>1 DEF IInv, TypeOK, Request, Versions
<1>3. CASE r.kind = "object"
  BY <1>1, <1>2, <1>3 DEF Admitted, Sound, IInv, LineOK
<1>4. CASE r.kind # "object"
  BY <1>1, <1>2, <1>4 DEF Admitted, Sound
<1>5. QED
  BY <1>3, <1>4

-----------------------------------------------------------------------------
(* Steps that leave the bucket alone. *)

\* The bound on versions still holds when nobody begins to ask or to write,
\* when one who asked writes instead, and below MaxLive.
LEMMA BoundStep ==
  ASSUME IInv, pointer' = pointer,
         \/ pointer < MaxLive
         \/ Asking' \subseteq Asking /\ Writes' \subseteq Writes
         \/ \E u \in Asking : Asking' \subseteq Asking \ {u}
  PROVE  BoundOK'
<1>1. pointer \in Nat
  BY DEF IInv, TypeOK, Versions
<1>2. CASE pointer < MaxLive
  BY <1>1, <1>2 DEF BoundOK
<1>3. ASSUME pointer >= MaxLive
      PROVE  pointer + Cardinality(Asking) + (IF Moves = {} THEN 0 ELSE 1)
               <= MaxLive + Cardinality(Uploaders)
  BY <1>3 DEF IInv, BoundOK
<1>4. IsFiniteSet(Asking) /\ Cardinality(Asking) \in Nat
  BY FS_Subset, FS_CardinalityType DEF Asking
<1>5. Cardinality(Uploaders) \in Nat
  BY FS_CardinalityType
<1>6. CASE Asking' \subseteq Asking /\ Writes' \subseteq Writes
  <2>1. Cardinality(Asking') <= Cardinality(Asking) /\ Cardinality(Asking') \in Nat
    BY <1>4, <1>6, FS_Subset, FS_CardinalityType
  <2>2. Moves' \subseteq Moves
    BY <1>6 DEF Moves
  <2>3. QED
    BY <1>1, <1>3, <1>4, <1>5, <2>1, <2>2 DEF BoundOK
<1>7. ASSUME NEW u \in Asking, Asking' \subseteq Asking \ {u}
      PROVE  BoundOK'
  <2>1. /\ IsFiniteSet(Asking \ {u})
        /\ Cardinality(Asking \ {u}) = Cardinality(Asking) - 1
    BY <1>4, FS_RemoveElement
  <2>2. Cardinality(Asking') <= Cardinality(Asking) - 1 /\ Cardinality(Asking') \in Nat
    BY <1>4, <1>7, <2>1, FS_Subset, FS_CardinalityType
  <2>3. QED
    BY <1>1, <1>3, <1>4, <1>5, <2>2 DEF BoundOK
<1>8. QED
  BY <1>2, <1>6, <1>7

\* A call that moves on to a state that is itself in order, perhaps leaving
\* its write on the wire, preserves the invariant.
LEMMA CallStep ==
  ASSUME IInv, NEW u \in Uploaders, NEW s \in UploadState,
         upload' = [upload EXCEPT ![u] = s],
         UNCHANGED bucket,
         faults' \in faults..MaxFaults,
         wire' \subseteq wire \union Outstanding(u),
         wire' # wire => faults' > 0,
         CallOK(s) \/ CallOK(s)',
         s.phase = "pointer" => upload[u].phase = "pointer" /\ s.base = upload[u].base,
         \A r \in Outstanding(u)' : Sound(r),
         BoundOK'
  PROVE  IInv'
<1>1. upload \in [Uploaders -> UploadState] /\ faults \in Nat
  BY DEF IInv, TypeOK
<1>2. \A x \in Uploaders : upload'[x] = IF x = u THEN s ELSE upload[x]
  BY <1>1
<1>3. TypeOK'
  BY <1>1, OutstandingType DEF IInv, TypeOK, bucket
<1>4. \A r : Sound(r)' <=> Sound(r)
  BY DEF Sound, bucket
<1>5. \A r \in Writes' : Sound(r)'
  <2>1. ASSUME NEW x \in Uploaders, x # u
        PROVE  Outstanding(x)' = Outstanding(x)
    BY <1>2, <2>1 DEF Outstanding, RequestOf
  <2>2. \A r \in wire' : Sound(r)
    BY OutstandingType DEF IInv, Writes
  <2>3. ASSUME NEW x \in Uploaders
        PROVE  \A r \in Outstanding(x)' : Sound(r)
    BY <2>1, OutstandingType
  <2>4. QED
    BY <1>4, <2>2, <2>3 DEF Writes
<1>6. \A x \in Uploaders : CallOK(upload[x])'
  <2>1. ASSUME NEW t, CallOK(t)
        PROVE  CallOK(t)'
    BY <1>1, <2>1 DEF CallOK, bucket
  <2>2. \A x \in Uploaders : CallOK(upload[x])
    BY DEF IInv
  <2>3. CallOK(s)'
    BY <2>1
  <2>4. QED
    BY <1>2, <2>1, <2>2, <2>3 DEF CallOK
<1>7. LineOK'
  BY DEF IInv, LineOK, bucket
<1>8. FaultlessOK'
  BY <1>1, <1>2 DEF IInv, FaultlessOK, bucket
<1>9. QED
  BY <1>3, <1>5, <1>6, <1>7, <1>8 DEF IInv
\* A call that waits for no write any more, or none yet.
LEMMA QuietStep ==
  ASSUME IInv, NEW u \in Uploaders, NEW s \in UploadState,
         upload' = [upload EXCEPT ![u] = s],
         UNCHANGED bucket,
         faults' \in faults..MaxFaults,
         wire' \subseteq wire \union Outstanding(u),
         wire' # wire => faults' > 0,
         CallOK(s) \/ CallOK(s)',
         s.phase \notin {"object", "pointer"},
         \/ pointer < MaxLive
         \/ s.phase \in {"precheck", "read"} =>
              upload[u].phase \in {"precheck", "read"}
  PROVE  IInv'
<1>1. \A x \in Uploaders : upload'[x] = IF x = u THEN s ELSE upload[x]
  BY DEF IInv, TypeOK
<1>2. Outstanding(u)' = {}
  BY <1>1 DEF Outstanding
<1>3. BoundOK'
  <2>1. pointer' = pointer
    BY DEF bucket
  <2>2. CASE pointer < MaxLive
    BY <2>1, <2>2, BoundStep
  <2>3. CASE s.phase \in {"precheck", "read"} =>
               upload[u].phase \in {"precheck", "read"}
    <3>1. Asking' \subseteq Asking
      BY <1>1, <2>3 DEF Asking
    <3>2. \A x \in Uploaders : Outstanding(x)' \subseteq Outstanding(x)
      BY <1>1, <1>2 DEF Outstanding, RequestOf
    <3>3. Writes' \subseteq Writes
      BY <3>2 DEF Writes
    <3>4. QED
      BY <2>1, <3>1, <3>3, BoundStep
  <2>4. QED
    BY <2>2, <2>3
<1>4. QED
  BY <1>2, <1>3, CallStep

\* The type of what comes out of a call that ends.
LEMMA EndType ==
  ASSUME NEW s \in UploadState, NEW outcome \in Outcomes
  PROVE  /\ End(s, outcome) \in UploadState
         /\ End(s, outcome).phase \in {"idle", "reread"}
<1>1. CASE outcome = "CONFLICT"
  BY <1>1 DEF End, UploadState, Phases
<1>2. CASE outcome # "CONFLICT"
  <2>1. ASSUME NEW shown \in {0} \union Versions
        PROVE  Fresh(shown, outcome) \in UploadState
    BY DEF Fresh, Refused, UploadState, Body, Phases
  <2>2. (IF s.page /\ outcome = "ok" THEN s.version ELSE s.shown)
          \in {0} \union Versions
    BY DEF UploadState
  <2>3. QED
    BY <1>2, <2>1, <2>2 DEF End, UploadState, Phases
<1>3. QED
  BY <1>1, <1>2

\* A call that ends, other than with CONFLICT.
LEMMA EndStep ==
  ASSUME IInv, NEW u \in Uploaders, NEW outcome \in Outcomes \ {"CONFLICT"},
         outcome = "ok" => upload[u].version <= pointer,
         upload' = [upload EXCEPT ![u] = End(upload[u], outcome)],
         UNCHANGED bucket,
         faults' \in faults..MaxFaults,
         wire' \subseteq wire \union Outstanding(u),
         wire' # wire => faults' > 0
  PROVE  IInv'
<1> DEFINE s == End(upload[u], outcome)
<1>1. upload[u] \in UploadState /\ CallOK(upload[u]) /\ pointer \in Nat
  BY DEF IInv, TypeOK, Versions
<1>2. s \in UploadState /\ s.phase \notin {"object", "pointer", "precheck", "read"}
  BY <1>1, EndType
<1>3. CallOK(s)
  BY <1>1 DEF CallOK, End, Fresh, UploadState
<1>4. QED
  BY <1>2, <1>3, QuietStep

-----------------------------------------------------------------------------
(* Steps that write to the bucket. *)

\* An object is stored: nothing said of the other objects changes.
LEMMA StoreStep ==
  ASSUME IInv, NEW r \in Writes, r.kind = "object", Admitted(r), Perform(r)
  PROVE  /\ pointer' = pointer /\ history' = history
         /\ r.version = pointer + 1 /\ r.base = pointer
         /\ DOMAIN stored' = DOMAIN stored \union {r.version}
         /\ stored'[r.version] = r.members
         /\ \A v \in DOMAIN stored : stored'[v] = stored[v]
         /\ stored' \in [DOMAIN stored' -> SUBSET Names]
         /\ DOMAIN stored' \subseteq Versions
         /\ LineOK'
<1>1. /\ r \in Request /\ Sound(r)
      /\ r.base = pointer /\ r.version = pointer + 1
  BY WritesType, AdmittedIsNext DEF IInv
<1>2. /\ pointer' = pointer /\ history' = history
      /\ DOMAIN stored' = DOMAIN stored \union {r.version}
      /\ stored'[r.version] = r.members
      /\ \A v \in DOMAIN stored \ {r.version} : stored'[v] = stored[v]
      /\ stored' = [v \in DOMAIN stored' |-> stored'[v]]
  BY DEF Perform
<1>3. r.version \notin DOMAIN stored
  BY DEF Admitted
<1>4. stored' \in [DOMAIN stored' -> SUBSET Names] /\ DOMAIN stored' \subseteq Versions
  BY <1>1, <1>2 DEF IInv, TypeOK, Request
<1>5. LineOK'
  BY <1>1, <1>2, <1>3 DEF IInv, LineOK, TypeOK, Versions
<1>6. QED
  BY <1>1, <1>2, <1>3, <1>4, <1>5

\* The entry of the history for a pointer write.
LEMMA EntryType ==
  ASSUME IInv, NEW r \in Writes, r.kind = "pointer"
  PROVE  [version |-> r.version, previous |-> r.base,
          content |-> stored[r.version],
          expected |-> IF r.expected = Unasked THEN 0 ELSE r.expected]
           \in Published!Entry
<1>1. r \in Request /\ Sound(r)
  BY WritesType DEF IInv
<1>2. stored[r.version] \in SUBSET Names
  BY <1>1 DEF Sound, IInv, TypeOK
<1>3. /\ r.version \in Nat \ {0} /\ r.base \in Nat
      /\ r.expected # Unasked => r.expected \in Nat
  BY <1>1 DEF Request, Versions
<1>4. QED
  BY <1>2, <1>3 DEF Published!Entry

\* The pointer moves up by one, to an object that is there.
LEMMA MoveStep ==
  ASSUME IInv, NEW r \in Writes, r.kind = "pointer", Admitted(r), Perform(r)
  PROVE  /\ stored' = stored
         /\ pointer' = pointer + 1
         /\ r.version = pointer + 1 /\ r.base = pointer
         /\ pointer' \in Versions
         /\ LineOK'
<1>1. /\ r \in Request /\ Sound(r)
      /\ r.base = pointer /\ r.version = pointer + 1
  BY WritesType, AdmittedIsNext DEF IInv
<1>2. PICK e \in Published!Entry :
        /\ e.version = r.version
        /\ e.content = stored[r.version]
        /\ history' = Append(history, e)
  BY EntryType DEF Perform
<1>3. stored' = stored /\ pointer' = pointer + 1
  BY <1>1 DEF Perform
<1>4. pointer \in Nat /\ history \in Seq(Published!Entry) /\ Len(history) = pointer
  BY DEF IInv, LineOK, TypeOK, Versions
<1>5. /\ history' \in Seq(Published!Entry)
      /\ Len(history') = pointer + 1
      /\ history'[pointer + 1] = e
      /\ \A i \in 1..pointer : history'[i] = history[i]
  BY <1>2, <1>4
<1>6. r.version \in DOMAIN stored
  BY <1>1 DEF Sound
<1>7. LineOK'
  BY <1>1, <1>2, <1>3, <1>4, <1>5, <1>6 DEF IInv, LineOK
<1>8. QED
  BY <1>1, <1>3, <1>7 DEF Request

\* What was said of writes and calls stays true when the bucket changes.
LEMMA BucketKeeps ==
  ASSUME IInv, NEW r \in Writes, Admitted(r), Perform(r), faults' = faults
  PROVE  /\ \A q \in Request : Sound(q) => Sound(q)'
         /\ \A s \in UploadState : CallOK(s) => CallOK(s)'
         /\ LineOK'
         /\ stored' \in [DOMAIN stored' -> SUBSET Names]
         /\ DOMAIN stored' \subseteq Versions
         /\ pointer' \in {0} \union Versions
         /\ r.base = pointer /\ r.version = pointer + 1
         /\ r.kind = "pointer" => pointer' = pointer + 1
         /\ r.kind = "object" => /\ pointer' = pointer
                                 /\ r.version \in DOMAIN stored'
                                 /\ stored'[r.version] = r.members
<1>1. pointer \in Nat /\ 1..pointer \subseteq DOMAIN stored
  BY DEF IInv, TypeOK, LineOK, Versions
<1>2. r.kind \in {"object", "pointer"}
  BY WritesType DEF Request
<1>3. /\ LineOK'
      /\ stored' \in [DOMAIN stored' -> SUBSET Names]
      /\ DOMAIN stored' \subseteq Versions
      /\ pointer' \in {0} \union Versions
      /\ r.base = pointer /\ r.version = pointer + 1
      /\ r.kind = "pointer" => pointer' = pointer + 1
      /\ r.kind = "object" => /\ pointer' = pointer
                              /\ r.version \in DOMAIN stored'
                              /\ stored'[r.version] = r.members
  BY <1>2, StoreStep, MoveStep DEF IInv, TypeOK
<1>4. /\ pointer' >= pointer /\ pointer' \in Nat
      /\ \A v \in DOMAIN stored : v \in DOMAIN stored' /\ stored'[v] = stored[v]
  <2>1. CASE r.kind = "object"
    <3>1. pointer' = pointer /\ \A v \in DOMAIN stored : stored'[v] = stored[v]
      BY <2>1, StoreStep
    <3>2. DOMAIN stored' = DOMAIN stored \union {r.version}
      BY <2>1, StoreStep
    <3>3. QED
      BY <1>1, <3>1, <3>2
  <2>2. CASE r.kind = "pointer"
    <3>1. stored' = stored /\ pointer' = pointer + 1
      BY <2>2, MoveStep
    <3>2. QED
      BY <1>1, <3>1
  <2>3. QED
    BY <1>2, <2>1, <2>2
<1>5. ASSUME NEW q \in Request, Sound(q)
      PROVE  Sound(q)'
  BY <1>1, <1>4, <1>5 DEF Sound, Request, Versions, ValidMembers
<1>6. ASSUME NEW s \in UploadState, CallOK(s)
      PROVE  CallOK(s)'
  BY <1>1, <1>4, <1>6 DEF CallOK, UploadState, Versions
<1>7. QED
  BY <1>3, <1>5, <1>6

\* A write that was possible pays for the version it makes.
LEMMA BoundAfterWrite ==
  ASSUME IInv, NEW r \in Writes, r.base = pointer, Asking' \subseteq Asking,
         pointer' = pointer \/ (pointer' = pointer + 1 /\ Moves' = {})
  PROVE  BoundOK'
<1>1. pointer \in Nat /\ MaxLive \in Nat /\ Cardinality(Uploaders) \in Nat
  BY FS_CardinalityType DEF IInv, TypeOK, Versions
<1>2. IsFiniteSet(Asking) /\ Cardinality(Asking) \in Nat
  BY FS_Subset, FS_CardinalityType DEF Asking
<1>3. /\ Cardinality(Asking') \in Nat
      /\ Cardinality(Asking') <= Cardinality(Asking)
  BY <1>2, FS_Subset, FS_CardinalityType
<1>4. Cardinality(Asking) <= Cardinality(Uploaders)
  BY FS_Subset DEF Asking
<1>5. Moves # {}
  BY DEF Moves
<1>6. pointer >= MaxLive =>
        pointer + Cardinality(Asking) + 1 <= MaxLive + Cardinality(Uploaders)
  BY <1>5 DEF IInv, BoundOK
<1>7. QED
  BY <1>1, <1>2, <1>3, <1>4, <1>6 DEF BoundOK

-----------------------------------------------------------------------------
(* The actions. *)

\* A call starts.
LEMMA StartPreserves ==
  ASSUME IInv, NEW u \in Uploaders,
         NEW phase \in {"precheck", "read"}, NEW body \in Body,
         NEW expected \in {Unasked} \union 0..pointer, NEW page \in BOOLEAN,
         page => expected # Unasked,
         Start(u, phase, body, expected, page)
  PROVE  IInv'
<1> DEFINE s == [Fresh(IF page THEN upload[u].shown ELSE 0, "none") EXCEPT
                   !.phase = phase, !.page = page, !.body = body,
                   !.expected = expected]
           next == IF body.ok \/ phase = "precheck" THEN s ELSE End(s, "INVALID")
<1>1. /\ upload[u] \in UploadState /\ CallOK(upload[u])
      /\ pointer \in Nat /\ pointer \in {0} \union Versions
      /\ faults \in 0..MaxFaults
  BY DEF IInv, TypeOK, Versions
<1>2. expected \in {Unasked, 0} \union Versions
  BY <1>1, FS_CardinalityType DEF Versions
<1>3. s \in UploadState
  <2>1. Fresh(IF page THEN upload[u].shown ELSE 0, "none") \in UploadState
    BY <1>1 DEF Fresh, Refused, UploadState, Body, Phases, Outcomes
  <2>2. QED
    BY <1>2, <2>1 DEF UploadState, Phases
<1>4. CallOK(s)
  BY <1>1 DEF Fresh, CallOK
<1>5. End(s, "INVALID") \in UploadState /\ End(s, "INVALID").phase \in {"idle", "reread"}
  BY <1>3, EndType DEF Outcomes
<1>6. CallOK(End(s, "INVALID"))
  BY <1>1 DEF End, Fresh, CallOK, UploadState, Versions
<1>7. next \in UploadState /\ CallOK(next) /\ next.phase \notin {"object", "pointer"}
  BY <1>3, <1>4, <1>5, <1>6 DEF Fresh
<1>8. /\ pointer < MaxLive
      /\ upload' = [upload EXCEPT ![u] = next]
      /\ UNCHANGED <<bucket, wire, faults>>
  BY DEF Start, Goes
<1>9. faults' \in faults..MaxFaults
  BY <1>1, <1>8
<1>10. QED
  BY <1>7, <1>8, <1>9, QuietStep

\* What the parser accepts.
LEMMA ParseCsvType ==
  ASSUME NEW file \in Files
  PROVE  ParseCsv(file) \in Body
<1>1. file \in Seq(Names \union {TooLong, Header, Quoted, Blank})
  OBVIOUS
<1>2. \A i \in BodyRows(file) :
        file[i] \in (Names \union {TooLong, Header, Quoted}) \ {Blank}
  BY <1>1 DEF BodyRows
<1>3. QED
  BY <1>2 DEF ParseCsv, Accepted, Refused, Body

LEMMA StartingPreserves ==
  ASSUME IInv, NEW u \in Uploaders,
         Create(u) \/ Upload(u) \/ UploadFile(u) \/ UploadDraft(u)
  PROVE  IInv'
<1>1. /\ upload[u].shown \in 0..pointer /\ pointer \in Nat
      /\ upload[u].shown # Unasked
  BY DEF IInv, TypeOK, UploadState, CallOK, Versions
<1>2. CASE Create(u)
  <2>1. PICK file \in Files : Start(u, "precheck", ParseCsv(file), 0, FALSE)
    BY <1>2 DEF Create
  <2>2. ParseCsv(file) \in Body /\ 0 \in {Unasked} \union 0..pointer
    BY <1>1, ParseCsvType
  <2>3. QED
    BY <2>1, <2>2, StartPreserves
<1>3. CASE Upload(u)
  BY <1>1, <1>3, ParseCsvType, StartPreserves DEF Upload
<1>4. CASE UploadFile(u)
  BY <1>1, <1>4, ParseCsvType, StartPreserves DEF UploadFile
<1>5. CASE UploadDraft(u)
  <2>1. ASSUME NEW members \in Drafts PROVE Accepted(members) \in Body
    BY DEF Accepted, Body
  <2>2. QED
    BY <1>1, <1>5, <2>1, StartPreserves DEF UploadDraft
<1>6. QED
  BY <1>2, <1>3, <1>4, <1>5

\* The list page, and the pointer for a page to show.
LEMMA OpenListPreserves ==
  ASSUME IInv, NEW u \in Uploaders, OpenList(u)
  PROVE  IInv'
<1> DEFINE s == [upload[u] EXCEPT !.phase = IF DOMAIN stored = {} THEN "idle"
                                            ELSE "list",
                                  !.shown = 0]
<1>1. /\ upload[u] \in UploadState /\ CallOK(upload[u]) /\ LineOK
      /\ pointer \in Nat /\ faults \in 0..MaxFaults
  BY DEF IInv, TypeOK, Versions
<1>2. s \in UploadState /\ s.phase \notin {"precheck", "read", "object", "pointer"}
  BY <1>1 DEF UploadState, Phases
<1>3. pointer = 0 \/ DOMAIN stored # {}
  BY <1>1 DEF LineOK
<1>4. CallOK(s)
  BY <1>1, <1>3 DEF CallOK, UploadState, Versions
<1>5. upload' = [upload EXCEPT ![u] = s]
  BY <1>1 DEF OpenList, IInv, TypeOK
<1>6. UNCHANGED <<bucket, wire, faults>> /\ faults' \in faults..MaxFaults
  BY <1>1 DEF OpenList
<1>7. QED
  BY <1>2, <1>4, <1>5, <1>6, QuietStep

LEMMA ShowVersionPreserves ==
  ASSUME IInv, NEW u \in Uploaders, ShowVersion(u)
  PROVE  IInv'
<1> DEFINE s == [upload[u] EXCEPT !.phase = "idle", !.shown = pointer]
<1>1. /\ upload[u] \in UploadState /\ CallOK(upload[u])
      /\ pointer \in Nat /\ pointer \in {0} \union Versions
      /\ faults \in 0..MaxFaults
  BY DEF IInv, TypeOK, Versions
<1>2. s \in UploadState /\ s.phase = "idle"
  BY <1>1 DEF UploadState, Phases
<1>3. CallOK(s)
  BY <1>1 DEF CallOK, UploadState, Versions, ShowVersion
<1>4. upload' = [upload EXCEPT ![u] = s]
  BY <1>1 DEF ShowVersion, IInv, TypeOK
<1>5. UNCHANGED <<bucket, wire, faults>> /\ faults' \in faults..MaxFaults
  BY <1>1 DEF ShowVersion
<1>6. QED
  BY <1>2, <1>3, <1>4, <1>5, QuietStep

LEMMA PrecheckPreserves ==
  ASSUME IInv, NEW u \in Uploaders, Precheck(u)
  PROVE  IInv'
<1> DEFINE s == [upload[u] EXCEPT !.phase = "read"]
<1>1. /\ upload[u] \in UploadState /\ CallOK(upload[u]) /\ faults \in 0..MaxFaults
      /\ upload[u].phase = "precheck"
  BY DEF IInv, TypeOK, Precheck
<1>2. s \in UploadState /\ s.phase = "read"
  BY <1>1 DEF UploadState, Phases
<1>3. CallOK(s)
  BY <1>1 DEF CallOK
<1>4. UNCHANGED <<bucket, wire, faults>> /\ faults' \in faults..MaxFaults
  BY <1>1 DEF Precheck
<1>5. CASE upload' = [upload EXCEPT ![u] = s]
  BY <1>1, <1>2, <1>3, <1>4, <1>5, QuietStep
<1>6. CASE Goes(u, End(upload[u], "KEY_IN_USE"))
  BY <1>4, <1>6, EndStep DEF Goes, Outcomes
<1>7. CASE Goes(u, End(upload[u], "INVALID"))
  BY <1>4, <1>7, EndStep DEF Goes, Outcomes
<1>8. upload' = [upload EXCEPT ![u].phase = "read"]
        => upload' = [upload EXCEPT ![u] = s]
  BY DEF IInv, TypeOK
<1>9. QED
  BY <1>5, <1>6, <1>7, <1>8 DEF Precheck

LEMMA ReadPointerPreserves ==
  ASSUME IInv, NEW u \in Uploaders, ReadPointer(u)
  PROVE  IInv'
<1> DEFINE s == [upload[u] EXCEPT !.phase = "object", !.base = pointer,
                                  !.version = pointer + 1]
           e == End(upload[u], "CONFLICT")
<1>1. /\ upload[u] \in UploadState /\ CallOK(upload[u]) /\ faults \in 0..MaxFaults
      /\ upload[u].phase = "read" /\ u \in Asking
      /\ pointer \in Nat /\ pointer \in {0} \union Versions
  BY DEF IInv, TypeOK, ReadPointer, Versions, Asking
<1>2. UNCHANGED <<bucket, wire, faults>> /\ faults' \in faults..MaxFaults
  BY <1>1 DEF ReadPointer
<1>3. CASE ~ExpectedMatches(u) /\ Goes(u, e)
  <2>1. e \in UploadState /\ e.phase \in {"idle", "reread"}
    BY <1>1, EndType DEF Outcomes
  <2>2. upload[u].outcome # "CONFLICT"
    BY <1>1 DEF CallOK
  <2>3. upload[u].version = 0
    BY <1>1 DEF IInv, CallOK
  <2>4. CallOK(e)
    BY <1>1, <1>3, <2>3 DEF CallOK, End, ExpectedMatches, UploadState, Versions
  <2>5. QED
    BY <1>2, <1>3, <2>1, <2>4, QuietStep DEF Goes
<1>4. CASE Goes(u, End(upload[u], "INVALID"))
  BY <1>2, <1>4, EndStep DEF Goes, Outcomes
<1>5. CASE /\ ExpectedMatches(u)
           /\ upload[u].body.members \in ValidMembers
           /\ upload' = [upload EXCEPT ![u].phase = "object",
                                       ![u].base = pointer,
                                       ![u].version = pointer + 1]
  <2>1. upload' = [upload EXCEPT ![u] = s]
    BY <1>1, <1>5 DEF IInv, TypeOK
  <2>2. \A x \in Uploaders : upload'[x] = IF x = u THEN s ELSE upload[x]
    BY <2>1 DEF IInv, TypeOK
  <2>3. Asking' \subseteq Asking \ {u}
    BY <1>1, <2>2 DEF Asking, UploadState
  <2>4. BoundOK'
    BY <1>1, <1>2, <2>3, BoundStep DEF bucket
  <2>5. pointer + 1 \in Versions
    <3>5. Asking \in SUBSET Uploaders /\ u \in Asking
      BY <1>1 DEF Asking
    <3>6. IsFiniteSet(Uploaders)
      BY SegmentAssumption
    <3>3. IsFiniteSet(Asking) /\ Cardinality(Asking) <= Cardinality(Uploaders)
      BY <3>5, <3>6, FS_Subset
    <3>2. Cardinality(Asking) \in Nat /\ Cardinality(Uploaders) \in Nat
      BY <3>3, <3>6, FS_CardinalityType
    <3>7. Cardinality(Asking) # 0
      BY <3>3, <3>5, FS_EmptySet
    <3>1. Cardinality(Asking) >= 1
      BY <3>2, <3>7
    <3>4. QED
      BY <1>1, <3>1, <3>2, <3>3 DEF IInv, BoundOK, Versions
  <2>6. s \in UploadState
    BY <1>1, <2>5 DEF UploadState, Phases
  <2>7. CallOK(s)
    BY <1>1 DEF CallOK
  <2>8. \A r \in Outstanding(u)' : Sound(r)
    <3>1. s.phase = "object" /\ s.base = pointer /\ s.version = pointer + 1
      BY <1>1 DEF UploadState
    <3>2. s.expected = upload[u].expected /\ s.body = upload[u].body
      BY <1>1 DEF UploadState
    <3>3. Outstanding(u)' =
            {[kind |-> "object", version |-> pointer + 1, base |-> pointer,
              expected |-> upload[u].expected, members |-> upload[u].body.members]}
      BY <2>2, <3>1, <3>2 DEF Outstanding, RequestOf
    <3>4. QED
      BY <1>1, <1>5, <3>3 DEF Sound, ExpectedMatches
  <2>9. s.phase # "pointer"
    BY <1>1 DEF UploadState
  <2>10. QED
    BY <1>2, <2>1, <2>4, <2>6, <2>7, <2>8, <2>9, CallStep
<1>6. QED
  BY <1>1, <1>3, <1>4, <1>5 DEF ReadPointer

LEMMA PutObjectPreserves ==
  ASSUME IInv, NEW u \in Uploaders, PutObject(u)
  PROVE  IInv'
<1> DEFINE r == RequestOf(u, "object")
           s == [upload[u] EXCEPT !.phase = "pointer"]
<1>1. /\ upload \in [Uploaders -> UploadState] /\ upload[u] \in UploadState
      /\ CallOK(upload[u]) /\ upload[u].phase = "object"
      /\ faults \in 0..MaxFaults /\ wire \subseteq Request /\ pointer \in Nat
  BY DEF IInv, TypeOK, PutObject, Versions
<1>2. r \in Outstanding(u) /\ r \in Writes /\ r \in Request /\ Sound(r)
  BY <1>1, OutstandingType DEF Outstanding
<1>3. r.kind = "object" /\ r.version = upload[u].version /\ r.base = upload[u].base
  BY DEF RequestOf
<1>4. UNCHANGED <<wire, faults>> /\ faults' \in faults..MaxFaults
  BY <1>1 DEF PutObject
<1>5. CASE Goes(u, End(upload[u], "VERSION_EXISTS")) /\ UNCHANGED bucket
  BY <1>1, <1>4, <1>5, EndStep DEF Goes, Outcomes
<1>6. CASE Admitted(r) /\ Perform(r) /\ upload' = [upload EXCEPT ![u].phase = "pointer"]
  <2>1. upload' = [upload EXCEPT ![u] = s] /\ s \in UploadState
    BY <1>1, <1>6 DEF UploadState, Phases
  <2>2. \A x \in Uploaders : upload'[x] = IF x = u THEN s ELSE upload[x]
    BY <1>1, <2>1
  <2>3. /\ pointer' = pointer
        /\ r.base = pointer /\ r.version = pointer + 1
        /\ pointer + 1 \in DOMAIN stored' /\ stored'[r.version] = r.members
        /\ stored' \in [DOMAIN stored' -> SUBSET Names]
        /\ DOMAIN stored' \subseteq Versions
        /\ LineOK'
    BY <1>2, <1>3, <1>4, <1>6, BucketKeeps
  <2>4. TypeOK'
    BY <1>1, <1>4, <2>1, <2>3 DEF IInv, TypeOK
  <2>5. \A q \in Writes' : Sound(q)'
    <3>1. \A q \in Writes : Sound(q)'
      BY <1>2, <1>4, <1>6, WritesType, BucketKeeps DEF IInv
    <3>2. ASSUME NEW x \in Uploaders, x # u
          PROVE  Outstanding(x)' = Outstanding(x)
      BY <2>2, <3>2 DEF Outstanding, RequestOf
    <3>3. Outstanding(u)' = {[r EXCEPT !.kind = "pointer"]}
      BY <1>1, <2>2 DEF Outstanding, RequestOf, UploadState
    <3>4. ASSUME NEW q \in Outstanding(u)'
          PROVE  Sound(q)'
      <4>1. /\ q.kind = "pointer" /\ q.base = r.base /\ q.version = r.version
            /\ q.expected = r.expected /\ q.members = r.members
        BY <1>2, <3>3 DEF RequestOf
      <4>2. QED
        BY <1>1, <1>2, <2>3, <4>1 DEF Sound
    <3>5. QED
      BY <1>4, <3>1, <3>2, <3>3, <3>4 DEF Writes
  <2>6. \A x \in Uploaders : CallOK(upload[x])'
    <3>1. CallOK(s)
      BY <1>1 DEF CallOK
    <3>2. \A x \in Uploaders : CallOK(upload'[x]) /\ upload'[x] \in UploadState
      BY <1>1, <2>1, <2>2, <3>1 DEF IInv
    <3>3. \A t \in UploadState : CallOK(t) => CallOK(t)'
      BY <1>2, <1>4, <1>6, BucketKeeps
    <3>4. QED
      BY <3>2, <3>3 DEF CallOK
  <2>7. FaultlessOK'
    <3>1. SUFFICES ASSUME faults = 0 PROVE FaultlessOK'
      BY <1>1, <1>4 DEF FaultlessOK
    <3>2. \A x \in Uploaders : upload[x].phase # "pointer"
      <4>1. SUFFICES ASSUME NEW x \in Uploaders, upload[x].phase = "pointer"
                     PROVE  FALSE
        OBVIOUS
      <4>2. RequestOf(x, "pointer") \in Outstanding(x)
        BY <4>1 DEF Outstanding
      <4>3. Sound(RequestOf(x, "pointer"))
        BY <4>2, OutstandingType
      <4>4. upload[x].base = pointer
        BY <3>1, <4>1 DEF IInv, FaultlessOK
      <4>5. pointer + 1 \in DOMAIN stored
        BY <4>3, <4>4 DEF Sound, RequestOf
      <4>6. QED
        BY <1>3, <1>6, <2>3, <4>5 DEF Admitted
    <3>3. s.base = pointer
      BY <1>1, <1>3, <2>3 DEF UploadState
    <3>4. QED
      BY <1>4, <2>2, <2>3, <3>1, <3>2, <3>3 DEF IInv, FaultlessOK
  <2>8. Asking' \subseteq Asking
    BY <1>1, <2>2 DEF Asking, UploadState
  <2>9. QED
    BY <1>2, <2>3, <2>4, <2>5, <2>6, <2>7, <2>8, BoundAfterWrite DEF IInv
<1>7. QED
  BY <1>5, <1>6 DEF PutObject

\* The pointer has moved: what can still be written is for older versions.
LEMMA NoMovesLeft ==
  ASSUME IInv, pointer' = pointer + 1, Writes' \subseteq Writes
  PROVE  Moves' = {}
<1>1. pointer \in Nat
  BY DEF IInv, TypeOK, Versions
<1>2. \A r \in Writes : r.base <= pointer /\ r.base \in Nat
  BY WritesType DEF IInv, Sound, Request, Versions
<1>3. QED
  BY <1>1, <1>2 DEF Moves

LEMMA PutPointerPreserves ==
  ASSUME IInv, NEW u \in Uploaders, PutPointer(u)
  PROVE  IInv'
<1> DEFINE r == RequestOf(u, "pointer")
<1>1. /\ upload \in [Uploaders -> UploadState] /\ upload[u] \in UploadState
      /\ CallOK(upload[u]) /\ upload[u].phase = "pointer"
      /\ faults \in 0..MaxFaults /\ wire \subseteq Request /\ pointer \in Nat
  BY DEF IInv, TypeOK, PutPointer, Versions
<1>2. r \in Outstanding(u) /\ r \in Writes /\ r \in Request /\ Sound(r)
  BY <1>1, OutstandingType DEF Outstanding
<1>3. /\ r.kind = "pointer" /\ r.version = upload[u].version
      /\ r.base = upload[u].base /\ r.members = upload[u].body.members
  BY DEF RequestOf
<1>4. UNCHANGED <<wire, faults>> /\ faults' \in faults..MaxFaults
  BY <1>1 DEF PutPointer
<1>5. CASE ~Admitted(r) /\ Goes(u, End(upload[u], "CONFLICT")) /\ UNCHANGED bucket
  <2> DEFINE s == End(upload[u], "CONFLICT")
  <2>1. s \in UploadState /\ s.phase \in {"idle", "reread"}
    BY <1>1, EndType DEF Outcomes
  <2>2. pointer # upload[u].base
    BY <1>3, <1>5 DEF Admitted
  <2>3. upload[u].version <= pointer /\ upload[u].version # 0
    BY <1>1, <1>2, <1>3, <2>2 DEF Sound, Request, UploadState, Versions
  <2>4. faults > 0
    BY <1>1, <2>2 DEF IInv, FaultlessOK
  <2>5. CallOK(s)
    BY <1>1, <1>2, <1>3, <2>3, <2>4 DEF CallOK, End, Sound
  <2>6. QED
    BY <1>1, <1>4, <1>5, <2>1, <2>5, QuietStep DEF Goes
<1>6. CASE Admitted(r) /\ Perform(r) /\ Goes(u, End(upload[u], "ok"))
  <2> DEFINE s == End(upload[u], "ok")
  <2>1. s \in UploadState /\ s.phase \in {"idle", "reread"}
    BY <1>1, EndType DEF Outcomes
  <2>2. \A x \in Uploaders : upload'[x] = IF x = u THEN s ELSE upload[x]
    BY <1>1, <1>6 DEF Goes
  <2>3. /\ pointer' = pointer + 1
        /\ r.base = pointer /\ r.version = pointer + 1
        /\ stored' \in [DOMAIN stored' -> SUBSET Names]
        /\ DOMAIN stored' \subseteq Versions
        /\ pointer' \in {0} \union Versions
        /\ LineOK'
    BY <1>2, <1>3, <1>4, <1>6, BucketKeeps
  <2>4. TypeOK'
    BY <1>1, <1>4, <1>6, <2>1, <2>3 DEF IInv, TypeOK, Goes
  <2>5. Writes' \subseteq Writes
    <3>1. \A x \in Uploaders : Outstanding(x)' \subseteq Outstanding(x)
      BY <2>1, <2>2 DEF Outstanding, RequestOf
    <3>2. QED
      BY <1>4, <3>1 DEF Writes
  <2>6. \A q \in Writes' : Sound(q)'
    BY <1>2, <1>4, <1>6, <2>5, WritesType, BucketKeeps DEF IInv
  <2>7. \A x \in Uploaders : CallOK(upload[x])'
    <3>1. \A t \in UploadState : CallOK(t) => CallOK(t)'
      BY <1>2, <1>4, <1>6, BucketKeeps
    <3>2. ASSUME NEW x \in Uploaders, x # u
          PROVE  CallOK(upload[x])'
      BY <1>1, <2>2, <3>1, <3>2 DEF IInv, CallOK
    <3>3. CallOK(upload[u])'
      <4>1. PICK t : t = s
        OBVIOUS
      <4>2. CallOK(t)'
        BY <1>1, <1>3, <2>3, <4>1 DEF CallOK, End, Fresh, UploadState, Versions
      <4>3. QED
        BY <2>2, <4>1, <4>2 DEF CallOK
    <3>4. QED
      BY <3>2, <3>3
  <2>8. FaultlessOK'
    <3>1. SUFFICES ASSUME faults = 0 PROVE FaultlessOK'
      BY <1>1, <1>4 DEF FaultlessOK
    <3>2. \A x \in Uploaders : upload'[x].phase # "pointer"
      BY <1>1, <2>1, <2>2, <3>1 DEF IInv, FaultlessOK
    <3>3. QED
      BY <1>4, <3>1, <3>2 DEF IInv, FaultlessOK
  <2>9. Asking' \subseteq Asking
    BY <1>1, <2>1, <2>2 DEF Asking
  <2>10. Moves' = {}
    BY <2>3, <2>5, NoMovesLeft
  <2>11. QED
    BY <1>2, <2>3, <2>4, <2>6, <2>7, <2>8, <2>9, <2>10, BoundAfterWrite DEF IInv
<1>7. QED
  BY <1>5, <1>6 DEF PutPointer

\* A write that nobody waits for arrives.
LEMMA LandPreserves ==
  ASSUME IInv, NEW r \in wire, Land(r)
  PROVE  IInv'
<1>1. /\ upload \in [Uploaders -> UploadState]
      /\ faults \in 0..MaxFaults /\ wire \subseteq Request /\ pointer \in Nat
      /\ r \in Writes /\ r \in Request
  BY DEF IInv, TypeOK, Versions, Writes
<1>2. wire' = wire \ {r} /\ UNCHANGED <<upload, faults>>
  BY DEF Land
<1>3. \A x \in Uploaders : Outstanding(x)' = Outstanding(x)
  BY <1>2 DEF Outstanding, RequestOf
<1>4. Writes' \subseteq Writes /\ Asking' = Asking
  BY <1>2, <1>3 DEF Writes, Asking
<1>5. faults # 0
  BY DEF IInv, FaultlessOK
<1>6. FaultlessOK'
  BY <1>2, <1>5 DEF FaultlessOK
<1>7. CASE UNCHANGED bucket
  <2>1. BoundOK'
    BY <1>4, <1>7, BoundStep DEF bucket
  <2>2. TypeOK' /\ LineOK'
    BY <1>2, <1>7 DEF IInv, TypeOK, LineOK, bucket
  <2>3. \A q \in Writes' : Sound(q)'
    BY <1>4, <1>7 DEF IInv, Sound, bucket
  <2>4. \A x \in Uploaders : CallOK(upload[x])'
    BY <1>2, <1>7 DEF IInv, CallOK, bucket
  <2>5. QED
    BY <1>6, <2>1, <2>2, <2>3, <2>4 DEF IInv
<1>8. CASE Admitted(r) /\ Perform(r)
  <2>1. /\ r.base = pointer
        /\ stored' \in [DOMAIN stored' -> SUBSET Names]
        /\ DOMAIN stored' \subseteq Versions
        /\ pointer' \in {0} \union Versions
        /\ LineOK'
        /\ r.kind = "pointer" => pointer' = pointer + 1
        /\ r.kind = "object" => pointer' = pointer
    BY <1>1, <1>2, <1>8, BucketKeeps
  <2>2. TypeOK'
    BY <1>1, <1>2, <2>1 DEF IInv, TypeOK
  <2>3. \A q \in Writes' : Sound(q)'
    BY <1>1, <1>2, <1>4, <1>8, WritesType, BucketKeeps DEF IInv
  <2>4. \A x \in Uploaders : CallOK(upload[x])'
    <3>1. \A t \in UploadState : CallOK(t) => CallOK(t)'
      BY <1>1, <1>2, <1>8, BucketKeeps
    <3>2. QED
      BY <1>1, <1>2, <3>1 DEF IInv, CallOK
  <2>5. pointer' = pointer \/ (pointer' = pointer + 1 /\ Moves' = {})
    BY <1>1, <1>4, <2>1, NoMovesLeft DEF Request
  <2>6. BoundOK'
    BY <1>1, <1>4, <2>1, <2>5, BoundAfterWrite
  <2>7. QED
    BY <1>6, <2>1, <2>2, <2>3, <2>4, <2>6 DEF IInv
<1>9. QED
  BY <1>7, <1>8 DEF Land

-----------------------------------------------------------------------------
(* Faults. *)

LEMMA RequestFailsPreserves ==
  ASSUME IInv, NEW u \in Uploaders, RequestFails(u)
  PROVE  IInv'
<1> DEFINE s == [upload[u] EXCEPT !.phase = "idle"]
<1>1. /\ upload \in [Uploaders -> UploadState] /\ upload[u] \in UploadState
      /\ CallOK(upload[u]) /\ faults \in 0..MaxFaults
  BY DEF IInv, TypeOK
<1>2. /\ UNCHANGED bucket /\ wire' = wire \union Outstanding(u)
      /\ faults' = faults + 1 /\ faults' \in faults..MaxFaults /\ faults' > 0
  BY <1>1 DEF RequestFails, Fault
<1>3. CASE Goes(u, End(upload[u], "REQUEST_FAILED"))
  BY <1>1, <1>2, <1>3, EndStep DEF Goes, Outcomes
<1>4. CASE upload' = [upload EXCEPT ![u].phase = "idle"]
  <2>1. upload' = [upload EXCEPT ![u] = s] /\ s \in UploadState /\ s.phase = "idle"
    BY <1>1, <1>4 DEF UploadState, Phases
  <2>2. PICK t \in UploadState : t = s
    BY <2>1
  <2>3. CallOK(t)'
    BY <1>1, <1>2, <1>4, <2>2 DEF CallOK, UploadState, bucket
  <2>4. QED
    BY <1>2, <1>4, <2>1, <2>2, <2>3, QuietStep
<1>5. QED
  BY <1>1, <1>2, <1>3, <1>4 DEF RequestFails

LEMMA ResendPreserves ==
  ASSUME IInv, NEW u \in Uploaders, Resend(u)
  PROVE  IInv'
<1>1. /\ upload \in [Uploaders -> UploadState] /\ upload[u] \in UploadState
      /\ CallOK(upload[u]) /\ faults \in 0..MaxFaults
  BY DEF IInv, TypeOK
<1>2. /\ UNCHANGED <<bucket, upload>> /\ wire' = wire \union Outstanding(u)
      /\ faults' = faults + 1 /\ faults' \in faults..MaxFaults /\ faults' > 0
  BY <1>1 DEF Resend, Fault
<1>3. \A x \in Uploaders : Outstanding(x)' = Outstanding(x)
  BY <1>2 DEF Outstanding, RequestOf
<1>4. Writes' \subseteq Writes /\ Asking' = Asking
  BY <1>2, <1>3 DEF Writes, Asking
<1>5. BoundOK'
  BY <1>2, <1>4, BoundStep DEF bucket
<1>6. upload' = [upload EXCEPT ![u] = upload[u]]
  BY <1>1, <1>2
<1>7. \A r \in Outstanding(u)' : Sound(r)
  BY <1>3, OutstandingType
<1>8. QED
  BY <1>1, <1>2, <1>5, <1>6, <1>7, CallStep

LEMMA CrashPreserves ==
  ASSUME IInv, NEW u \in Uploaders, Crash(u)
  PROVE  IInv'
<1> DEFINE s == Fresh(upload[u].shown, "crashed")
<1>1. /\ upload \in [Uploaders -> UploadState] /\ upload[u] \in UploadState
      /\ CallOK(upload[u]) /\ faults \in 0..MaxFaults /\ pointer \in Nat
  BY DEF IInv, TypeOK, Versions
<1>2. /\ UNCHANGED bucket /\ wire' = wire \union Outstanding(u)
      /\ faults' = faults + 1 /\ faults' \in faults..MaxFaults /\ faults' > 0
      /\ upload' = [upload EXCEPT ![u] = s]
  BY <1>1 DEF Crash, Fault, Goes
<1>3. s \in UploadState /\ s.phase = "idle"
  BY <1>1 DEF Fresh, Refused, UploadState, Body, Phases, Outcomes
<1>4. CallOK(s)
  BY <1>1 DEF Fresh, CallOK
<1>5. QED
  BY <1>2, <1>3, <1>4, QuietStep

-----------------------------------------------------------------------------
(* The invariant. *)

LEMMA InitIInv ==
  ASSUME Init
  PROVE  IInv
<1>1. \A u \in Uploaders : upload[u] = Fresh(0, "none")
  BY DEF Init
<1>2. /\ Fresh(0, "none") \in UploadState /\ Fresh(0, "none").phase = "idle"
      /\ CallOK(Fresh(0, "none"))
  BY DEF Init, Fresh, Refused, UploadState, Body, Phases, Outcomes, CallOK
<1>3. TypeOK
  BY <1>2 DEF Init, TypeOK
<1>4. Writes = {}
  BY <1>1, <1>2 DEF Init, Writes, Outstanding
<1>5. Asking = {} /\ Moves = {}
  BY <1>1, <1>2, <1>4 DEF Asking, Moves
<1>6. BoundOK
  BY <1>5, FS_EmptySet, FS_CardinalityType DEF Init, BoundOK
<1>7. LineOK
  BY DEF Init, LineOK
<1>8. QED
  BY <1>1, <1>2, <1>3, <1>4, <1>6, <1>7 DEF Init, IInv, FaultlessOK

LEMMA Inductive ==
  ASSUME IInv, [Next]_vars
  PROVE  IInv'
<1>1. ASSUME NEW u \in Uploaders, OpenList(u)
      PROVE  IInv'
  BY <1>1, OpenListPreserves
<1>2. ASSUME NEW u \in Uploaders, ShowVersion(u)
      PROVE  IInv'
  BY <1>2, ShowVersionPreserves
<1>3. ASSUME NEW u \in Uploaders,
             Create(u) \/ Upload(u) \/ UploadFile(u) \/ UploadDraft(u)
      PROVE  IInv'
  BY <1>3, StartingPreserves
<1>4. ASSUME NEW u \in Uploaders, Advance(u)
      PROVE  IInv'
  BY <1>4, PrecheckPreserves, ReadPointerPreserves, PutObjectPreserves,
     PutPointerPreserves DEF Advance
<1>5. ASSUME NEW u \in Uploaders, RequestFails(u) \/ Resend(u) \/ Crash(u)
      PROVE  IInv'
  BY <1>5, RequestFailsPreserves, ResendPreserves, CrashPreserves
<1>6. ASSUME NEW r \in wire, Land(r)
      PROVE  IInv'
  BY <1>6, LandPreserves
<1>7. CASE UNCHANGED vars
  BY <1>7 DEF vars, IInv, TypeOK, LineOK, FaultlessOK, BoundOK, Writes, Moves,
              Asking, Outstanding, RequestOf, Sound, CallOK
<1>8. QED
  BY <1>1, <1>2, <1>3, <1>4, <1>5, <1>6, <1>7 DEF Next

\* IInv holds in every reachable state, for any uploaders, files and bounds.
THEOREM SegmentInvariance == Spec => []IInv
<1>1. Init => IInv
  BY InitIInv
<1>2. IInv /\ [Next]_vars => IInv'
  BY Inductive
<1>3. QED
  BY <1>1, <1>2, PTL DEF Spec

-----------------------------------------------------------------------------
(* The safety properties. *)

\* Every variable keeps its type; in particular no version is ever above
\* MaxLive by more than the number of uploaders.
THEOREM SegmentTypeCorrect == Spec => []TypeOK
<1>1. IInv => TypeOK
  BY DEF IInv
<1>2. QED
  BY <1>1, SegmentInvariance, PTL

\* The pointer writes under way are among the writes there are.
LEMMA PendingAreWrites ==
  ASSUME IInv, NEW r \in PendingMoves
  PROVE  r \in Writes /\ r.kind = "pointer"
<1>1. CASE r \in wire
  BY <1>1 DEF PendingMoves, Writes, RequestOf
<1>2. ASSUME NEW u \in Uploaders, upload[u].phase = "pointer",
             r = RequestOf(u, "pointer")
      PROVE  r \in Writes /\ r.kind = "pointer"
  BY <1>2 DEF Writes, Outstanding, RequestOf
<1>3. QED
  BY <1>1, <1>2 DEF PendingMoves

\* A pointer write under way, however late it lands, names its own object,
\* made for the one version it can replace.
THEOREM PendingPointerAlwaysFits == Spec => []PendingPointerFits
<1>1. IInv => PendingPointerFits
  BY PendingAreWrites DEF IInv, Sound, PendingPointerFits
<1>2. QED
  BY <1>1, SegmentInvariance, PTL

\* A CONFLICT on the pointer write means that the upload itself went live.
THEOREM LateConflictIsAlwaysOwn == Spec => []LateConflictIsOwn
<1>1. IInv => LateConflictIsOwn
  <2> SUFFICES ASSUME IInv, NEW u \in Uploaders,
                      upload[u].outcome = "CONFLICT", upload[u].version # 0
               PROVE  /\ \E i \in 1..Len(history) :
                           /\ history[i].version = upload[u].version
                           /\ history[i].content = upload[u].body.members
                      /\ faults > 0
    BY DEF LateConflictIsOwn
  <2>1. upload[u].version \in 1..pointer
    BY DEF IInv, TypeOK, UploadState, Versions, CallOK
  <2>2. QED
    BY <2>1 DEF IInv, CallOK, LineOK
<1>2. QED
  BY <1>1, SegmentInvariance, PTL

\* A page whose upload lost to another shows the version that beat it, so the
\* next upload from the page is judged by that one.
THEOREM PageAlwaysCatchesUp == Spec => []PageCatchesUp
<1>1. IInv => PageCatchesUp
  BY DEF IInv, CallOK, PageCatchesUp
<1>2. QED
  BY <1>1, SegmentInvariance, PTL

-----------------------------------------------------------------------------
(* What happens to the bucket. *)

\* A step leaves the bucket alone or performs one of the writes there are.
LEMMA BucketStep ==
  ASSUME IInv, [Next]_vars
  PROVE  \/ UNCHANGED bucket
         \/ \E r \in Writes : Admitted(r) /\ Perform(r) /\ faults' = faults
<1>1. ASSUME NEW u \in Uploaders, PutObject(u)
      PROVE  \/ UNCHANGED bucket
             \/ \E r \in Writes : Admitted(r) /\ Perform(r) /\ faults' = faults
  <2>1. RequestOf(u, "object") \in Writes
    BY <1>1, OutstandingType DEF PutObject, Outstanding
  <2>2. QED
    BY <1>1, <2>1 DEF PutObject
<1>2. ASSUME NEW u \in Uploaders, PutPointer(u)
      PROVE  \/ UNCHANGED bucket
             \/ \E r \in Writes : Admitted(r) /\ Perform(r) /\ faults' = faults
  <2>1. RequestOf(u, "pointer") \in Writes
    BY <1>2, OutstandingType DEF PutPointer, Outstanding
  <2>2. QED
    BY <1>2, <2>1 DEF PutPointer
<1>3. ASSUME NEW r \in wire, Land(r)
      PROVE  \/ UNCHANGED bucket
             \/ \E q \in Writes : Admitted(q) /\ Perform(q) /\ faults' = faults
  BY <1>3 DEF Land, Writes
<1>4. ASSUME NEW u \in Uploaders, OpenList(u) \/ ShowVersion(u)
      PROVE  UNCHANGED bucket
  BY <1>4 DEF OpenList, ShowVersion
<1>5. ASSUME NEW u \in Uploaders,
             Create(u) \/ Upload(u) \/ UploadFile(u) \/ UploadDraft(u)
      PROVE  UNCHANGED bucket
  BY <1>5 DEF Create, Upload, UploadFile, UploadDraft, Start
<1>6. ASSUME NEW u \in Uploaders, Precheck(u) \/ ReadPointer(u)
      PROVE  UNCHANGED bucket
  BY <1>6 DEF Precheck, ReadPointer
<1>7. ASSUME NEW u \in Uploaders, RequestFails(u) \/ Resend(u) \/ Crash(u)
      PROVE  UNCHANGED bucket
  BY <1>7 DEF RequestFails, Resend, Crash
<1>8. CASE UNCHANGED vars
  BY <1>8 DEF vars, bucket
<1>9. QED
  BY <1>1, <1>2, <1>3, <1>4, <1>5, <1>6, <1>7, <1>8 DEF Next, Advance

\* A pointer write is only new when its object has just been stored.
LEMMA NewMovesStoreFirst ==
  ASSUME IInv, [Next]_vars, UNCHANGED bucket
  PROVE  PendingMoves' \subseteq PendingMoves
<1> DEFINE Quiet == /\ \A x \in Uploaders : upload'[x].phase = "pointer" =>
                                              upload'[x] = upload[x]
                    /\ wire' \subseteq wire \union UNION {Outstanding(u) : u \in Uploaders}
<1>1. upload \in [Uploaders -> UploadState]
  BY DEF IInv, TypeOK
<1>2. ASSUME Quiet
      PROVE  PendingMoves' \subseteq PendingMoves
  <2>1. ASSUME NEW x \in Uploaders, upload'[x].phase = "pointer"
        PROVE  RequestOf(x, "pointer")' \in PendingMoves
    <3>1. upload'[x] = upload[x]
      BY <1>2, <2>1
    <3>2. RequestOf(x, "pointer")' = RequestOf(x, "pointer")
      BY <3>1 DEF RequestOf
    <3>3. QED
      BY <2>1, <3>1, <3>2 DEF PendingMoves
  <2>2. ASSUME NEW u \in Uploaders, NEW r \in Outstanding(u), r.kind = "pointer"
        PROVE  r \in PendingMoves
    BY <2>2 DEF Outstanding, PendingMoves, RequestOf
  <2>3. QED
    BY <1>2, <2>1, <2>2 DEF PendingMoves
<1>3. ASSUME NEW s \in UploadState, NEW outcome \in Outcomes
      PROVE  End(s, outcome).phase # "pointer"
  BY EndType
<1>4. ASSUME NEW u \in Uploaders, OpenList(u) \/ ShowVersion(u)
      PROVE  Quiet
  BY <1>1, <1>4 DEF OpenList, ShowVersion, UploadState
<1>5. ASSUME NEW u \in Uploaders, NEW phase \in {"precheck", "read"},
             NEW body, NEW expected, NEW page,
             Start(u, phase, body, expected, page)
      PROVE  Quiet
  BY <1>1, <1>5 DEF Start, Goes, Fresh, End
<1>6. ASSUME NEW u \in Uploaders,
             Create(u) \/ Upload(u) \/ UploadFile(u) \/ UploadDraft(u)
      PROVE  Quiet
  BY <1>5, <1>6 DEF Create, Upload, UploadFile, UploadDraft
<1>7. ASSUME NEW u \in Uploaders, Precheck(u) \/ ReadPointer(u)
      PROVE  Quiet
  BY <1>1, <1>3, <1>7 DEF Precheck, ReadPointer, Goes, Outcomes, UploadState
<1>8. ASSUME NEW u \in Uploaders, PutObject(u)
      PROVE  Quiet
  <2>1. RequestOf(u, "object") \in Writes /\ RequestOf(u, "object").kind = "object"
    BY <1>8, OutstandingType DEF PutObject, Outstanding, RequestOf
  <2>2. ~(Admitted(RequestOf(u, "object")) /\ Perform(RequestOf(u, "object")))
    <3>1. SUFFICES ASSUME Admitted(RequestOf(u, "object")),
                          Perform(RequestOf(u, "object"))
                   PROVE  FALSE
      OBVIOUS
    <3>2. RequestOf(u, "object").version \in DOMAIN stored'
      BY <2>1, <3>1, StoreStep
    <3>3. QED
      BY <2>1, <3>1, <3>2 DEF Admitted, bucket
  <2>3. QED
    BY <1>1, <1>3, <1>8, <2>2 DEF PutObject, Goes, Outcomes
<1>9. ASSUME NEW u \in Uploaders, PutPointer(u)
      PROVE  Quiet
  BY <1>1, <1>3, <1>9 DEF PutPointer, Goes, Outcomes
<1>10. ASSUME NEW u \in Uploaders, RequestFails(u)
       PROVE  Quiet
  BY <1>1, <1>3, <1>10 DEF RequestFails, Goes, Outcomes, UploadState
<1>11. ASSUME NEW u \in Uploaders, Resend(u) \/ Crash(u)
       PROVE  Quiet
  BY <1>1, <1>11 DEF Resend, Crash, Goes, Fresh
<1>12. ASSUME NEW r \in wire, Land(r)
       PROVE  Quiet
  BY <1>12 DEF Land
<1>13. ASSUME UNCHANGED vars
       PROVE  Quiet
  BY <1>13 DEF vars
<1>14. QED
  BY <1>2, <1>4, <1>6, <1>7, <1>8, <1>9, <1>10, <1>11, <1>12, <1>13
     DEF Next, Advance

\* An object left at the next version with nobody to point at it stays there,
\* and keeps every later version from going live.
THEOREM WedgedStaysWedged == Spec => WedgedForEver
<1>1. IInv /\ [Next]_vars => [Wedged => Wedged']_vars
  <2> SUFFICES ASSUME IInv, [Next]_vars, Wedged
               PROVE  Wedged'
    OBVIOUS
  <2>1. ASSUME NEW r \in Writes, Admitted(r)
        PROVE  FALSE
    <3>1. r.base = pointer /\ (r.kind = "object" => pointer + 1 \notin DOMAIN stored)
      BY <2>1, AdmittedIsNext
    <3>2. CASE r.kind = "object"
      BY <3>1, <3>2 DEF Wedged
    <3>3. CASE r.kind = "pointer"
      <4>1. r \in PendingMoves
        BY <3>3 DEF Writes, PendingMoves, Outstanding, RequestOf
      <4>2. QED
        BY <3>1, <4>1 DEF Wedged
    <3>4. QED
      BY <3>2, <3>3, WritesType DEF Request
  <2>2. UNCHANGED bucket
    BY <2>1, BucketStep
  <2>3. QED
    BY <2>2, NewMovesStoreFirst DEF Wedged, bucket
<1>2. QED
  BY <1>1, SegmentInvariance, PTL DEF Spec, WedgedForEver

-----------------------------------------------------------------------------
(* The refinement. *)

\* Every step of the uploaders is a version of the segment going live, or
\* leaves the line of versions alone.
LEMMA SegmentStepRefines ==
  ASSUME IInv, [Next]_vars
  PROVE  [Published!GoLive]_history
<1>1. CASE UNCHANGED bucket
  BY <1>1 DEF bucket
<1>2. ASSUME NEW r \in Writes, Admitted(r), Perform(r)
      PROVE  [Published!GoLive]_history
  <2>1. CASE r.kind = "object"
    BY <1>2, <2>1, StoreStep
  <2>2. CASE r.kind = "pointer"
    <3>1. PICK e \in Published!Entry :
            /\ e.version = r.version
            /\ e.previous = r.base
            /\ e.content = stored[r.version]
            /\ e.expected = IF r.expected = Unasked THEN 0 ELSE r.expected
            /\ history' = Append(history, e)
      BY <1>2, <2>2, EntryType DEF Perform
    <3>2. /\ r.base = pointer /\ r.version = pointer + 1
          /\ r.expected \in {Unasked, r.base}
          /\ stored[r.version] \in ValidMembers
      BY <1>2, <2>2, AdmittedIsNext DEF IInv, Sound
    <3>3. /\ history \in Seq(Published!Entry) /\ pointer \in Nat
          /\ Len(history) = pointer
          /\ \A i \in 1..pointer : history[i].version = i
      BY DEF IInv, LineOK, TypeOK, Versions
    <3>4. Published!Latest = pointer
      BY <3>3 DEF Published!Latest
    <3>5. Len(history') = Len(history) + 1 /\ history'[Len(history')] = e
      BY <3>1, <3>3
    <3>6. QED
      BY <3>1, <3>2, <3>3, <3>4, <3>5 DEF Published!GoLive
  <2>3. QED
    BY <2>1, <2>2, WritesType DEF Request
<1>3. QED
  BY <1>1, <1>2, BucketStep

\* The uploaders implement PublishedHistory.
THEOREM SegmentRefinement == Spec => PublishedSpec
<1>1. Init => Published!Init
  BY DEF Init, Published!Init
<1>2. IInv /\ [Next]_vars => [Published!GoLive]_history
  BY SegmentStepRefines
<1>3. QED
  BY <1>1, <1>2, SegmentInvariance, PTL DEF Spec, PublishedSpec, Published!Spec
=============================================================================
