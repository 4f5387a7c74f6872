-------------------------- MODULE SegmentPublisher --------------------------
(***************************************************************************)
(* createS3SegmentPublisher (packages/aws) and the people who upload the   *)
(* members of ONE segment through it: the dashboard's segment pages, the   *)
(* CLI's "segment upload", a script that calls the publisher.              *)
(*                                                                         *)
(* Every await on S3 is a step.  As in SnapshotPublisher, the pointer's    *)
(* ETag is its version, a write whose answer is lost stays on the wire,    *)
(* and 0 is both "no pointer" and expectedCurrentVersion null.  Unlike a   *)
(* snapshot's, a segment's next version is never probed: it is always the  *)
(* pointer's plus one.  A member is a value of Names; memberAttribute is   *)
(* part of it.  Pointers written by hand that do not parse are left out.   *)
(***************************************************************************)
EXTENDS Integers, Sequences, FiniteSets

CONSTANTS
  Uploaders,     \* the calls that may run at once
  Names,         \* members that satisfy the segment contract
  TooLong,       \* a row, or member, past MAX_SEGMENT_MEMBER_LENGTH
  Header,        \* a row that repeats the member attribute
  Quoted,        \* a row with a quote or a comma
  Blank,         \* an empty row
  Files,         \* the CSV files uploaded, as sequences of rows
  Drafts,        \* the sets of members a script hands to the publisher
  MaxMembers,    \* MAX_SEGMENT_MEMBERS
  MaxLive,       \* bound: no call starts once the pointer is there
  MaxFaults      \* bound: failed or unanswered requests and crashes

ASSUME SegmentAssumption ==
  /\ IsFiniteSet(Uploaders)
  /\ Files \subseteq Seq(Names \union {TooLong, Header, Quoted, Blank})
  /\ Drafts \subseteq SUBSET (Names \union {TooLong})
  /\ {MaxMembers, MaxLive, MaxFaults} \subseteq Nat

VARIABLES
  stored,        \* segments/<key>/<n>.json: version -> set of members
  pointer,       \* segments/<key>/current.json: its version, 0 when absent
  upload,        \* what each uploader is doing
  wire,          \* writes whose sender stopped waiting for the answer
  faults,        \* how many faults have happened
  history        \* history variable: the versions that went live

vars == <<stored, pointer, upload, wire, faults, history>>
bucket == <<stored, pointer, history>>

Unasked == -1        \* expectedCurrentVersion undefined

Versions == 1..(MaxLive + Cardinality(Uploaders))
Phases == {"idle", "list", "precheck", "read", "object", "pointer", "reread"}
Outcomes == {"none", "ok", "INVALID", "KEY_IN_USE", "CONFLICT",
             "VERSION_EXISTS", "REQUEST_FAILED", "crashed"}
Body == [ok : BOOLEAN, members : SUBSET (Names \union {TooLong})]

UploadState ==
  [phase    : Phases,
   page     : BOOLEAN,             \* an upload from the segment's own page
   body     : Body,                \* the parsed file
   expected : {Unasked, 0} \union Versions,
   base     : {0} \union Versions, \* the pointer it read
   version  : {0} \union Versions, \* the version it writes, 0 before that
   shown    : {0} \union Versions, \* the version its page shows
   outcome  : Outcomes]            \* how the last call ended

Request == [kind : {"object", "pointer"}, version : Versions,
            base : {0} \union Versions, expected : {Unasked, 0} \union Versions,
            members : SUBSET Names]

TypeOK ==
  /\ DOMAIN stored \subseteq Versions
  /\ stored \in [DOMAIN stored -> SUBSET Names]
  /\ pointer \in {0} \union Versions
  /\ upload \in [Uploaders -> UploadState]
  /\ wire \subseteq Request
  /\ faults \in 0..MaxFaults

-----------------------------------------------------------------------------
(* The file. *)

Accepted(members) == [ok |-> TRUE, members |-> members]
Refused == [ok |-> FALSE, members |-> {}]

\* The members the segment contract allows.
ValidMembers == {members \in SUBSET Names : Cardinality(members) <= MaxMembers}

\* The rows that are not blank, without a header that comes first.
BodyRows(file) ==
  LET rows == {i \in DOMAIN file : file[i] # Blank} IN
  {i \in rows : file[i] = Header => \E j \in rows : j < i}

\* Broken: what the rows say is left to the publisher.
ParseCsvFirstHeader(file) ==
  LET members == {file[i] : i \in BodyRows(file)} IN
  IF members = {} THEN Refused ELSE Accepted(members)

\* parseSegmentCsv: blank rows are skipped, one header may come first, and a
\* repeated member counts once.  Which of its reasons refuses a file is not
\* told apart: MALFORMED_ROW, HEADER, EMPTY_FILE, TOO_MANY_MEMBERS or
\* INVALID_SEGMENT.
ParseCsv(file) ==
  LET members == {file[i] : i \in BodyRows(file)} IN
  IF /\ {Quoted, Header, TooLong} \intersect members = {}
     /\ members # {}
     /\ Cardinality(members) <= MaxMembers
  THEN Accepted(members) ELSE Refused

-----------------------------------------------------------------------------
(* The writes, as S3 performs them. *)

RequestOf(u, kind) ==
  [kind |-> kind, version |-> upload[u].version, base |-> upload[u].base,
   expected |-> upload[u].expected, members |-> upload[u].body.members]

\* Broken: the object is written whether or not its key exists.
AdmittedOverwriting(r) == r.kind = "object" \/ pointer = r.base

\* Broken: the pointer is written without a condition.
AdmittedUnconditional(r) ==
  r.kind = "object" => r.version \notin DOMAIN stored

\* Broken: the pointer is always written with IfNoneMatch '*'.
AdmittedCreateOnly(r) ==
  IF r.kind = "object" THEN r.version \notin DOMAIN stored ELSE pointer = 0

\* IfNoneMatch '*' for the object; for the pointer, IfMatch of the ETag that
\* was read, or IfNoneMatch '*' when there was none.
Admitted(r) ==
  IF r.kind = "object" THEN r.version \notin DOMAIN stored
                       ELSE pointer = r.base

Perform(r) ==
  IF r.kind = "object"
  THEN /\ stored' = [v \in DOMAIN stored \union {r.version} |->
                       IF v = r.version THEN r.members ELSE stored[v]]
       /\ UNCHANGED <<pointer, history>>
  ELSE /\ pointer' = r.version
       /\ history' = Append(history,
            [version |-> r.version, previous |-> r.base,
             content |-> stored[r.version],
             expected |-> IF r.expected = Unasked THEN 0 ELSE r.expected])
       /\ UNCHANGED stored

-----------------------------------------------------------------------------
(* The calls. *)

Fresh(shown, outcome) ==
  [phase |-> "idle", page |-> FALSE, body |-> Refused, expected |-> Unasked,
   base |-> 0, version |-> 0, shown |-> shown, outcome |-> outcome]

\* Broken: after a failure the page goes on showing the version it was on.
EndStale(s, outcome) ==
  IF outcome = "CONFLICT"
  THEN [s EXCEPT !.outcome = outcome, !.phase = "idle"]
  ELSE Fresh(IF s.page /\ outcome = "ok" THEN s.version ELSE s.shown, outcome)

\* The state of an uploader after its call ended.  A page shows the version
\* it uploaded, and reads the pointer again after a failure.  (What the call
\* was about is only remembered for a CONFLICT.)
End(s, outcome) ==
  IF outcome = "CONFLICT"
  THEN [s EXCEPT !.outcome = outcome,
                 !.phase = IF s.page THEN "reread" ELSE "idle"]
  ELSE [Fresh(IF s.page /\ outcome = "ok" THEN s.version ELSE s.shown, outcome)
          EXCEPT !.phase = IF s.page /\ outcome # "ok" THEN "reread" ELSE "idle"]

\* The call of u goes on in state s.
Goes(u, s) == upload' = [upload EXCEPT ![u] = s]

\* A call starts; a file that does not parse ends it, unless its POST looks
\* at the pointer first.
Start(u, phase, body, expected, page) ==
  LET s == [Fresh(IF page THEN upload[u].shown ELSE 0, "none") EXCEPT
              !.phase = phase, !.page = page, !.body = body,
              !.expected = expected]
  IN
  /\ upload[u].phase = "idle"
  /\ pointer < MaxLive
  /\ Goes(u, IF body.ok \/ phase = "precheck" THEN s ELSE End(s, "INVALID"))
  /\ UNCHANGED <<bucket, wire, faults>>

\* GET of the segment list: the keys under the prefix, then each pointer.
OpenList(u) ==
  /\ upload[u].phase = "idle"
  /\ pointer < MaxLive
  /\ upload' = [upload EXCEPT ![u].phase = IF DOMAIN stored = {} THEN "idle"
                                           ELSE "list",
                              ![u].shown = 0]
  /\ UNCHANGED <<bucket, wire, faults>>

\* GET of the segment's own page, the pointer of a listed key, and the page
\* rendered after a failed upload: readSegmentVersion.
ShowVersion(u) ==
  /\ \/ upload[u].phase \in {"list", "reread"}
     \/ upload[u].phase = "idle" /\ pointer < MaxLive
  /\ upload' = [upload EXCEPT ![u].phase = "idle", ![u].shown = pointer]
  /\ UNCHANGED <<bucket, wire, faults>>

\* The list page's "create" form.
Create(u) == \E file \in Files : Start(u, "precheck", ParseCsv(file), 0, FALSE)

\* The segment page's form, carrying the version the page shows.
Upload(u) ==
  \E file \in Files : Start(u, "read", ParseCsv(file), upload[u].shown, TRUE)

\* The CLI's "segment upload", which expects nothing, and scripts.
UploadFile(u) == \E file \in Files : Start(u, "read", ParseCsv(file), Unasked, FALSE)

UploadDraft(u) ==
  \E members \in Drafts, expected \in {Unasked} \union 0..pointer :
    Start(u, "read", Accepted(members), expected, FALSE)

\* The create form's own look at the pointer.
Precheck(u) ==
  /\ upload[u].phase = "precheck"
  /\ IF pointer # 0 THEN Goes(u, End(upload[u], "KEY_IN_USE"))
     ELSE IF ~upload[u].body.ok THEN Goes(u, End(upload[u], "INVALID"))
     ELSE upload' = [upload EXCEPT ![u].phase = "read"]
  /\ UNCHANGED <<bucket, wire, faults>>

\* Broken: null is taken for "not given".
ExpectedAnyWhenNull(u) == upload[u].expected \in {Unasked, 0, pointer}

\* checkExpectedVersion.
ExpectedMatches(u) == upload[u].expected \in {Unasked, pointer}

\* readPointer, the check of what it read, and parseSegment of the body.
ReadPointer(u) ==
  /\ upload[u].phase = "read"
  /\ IF ~ExpectedMatches(u) THEN Goes(u, End(upload[u], "CONFLICT"))
     ELSE IF upload[u].body.members \notin ValidMembers
     THEN Goes(u, End(upload[u], "INVALID"))
     ELSE upload' = [upload EXCEPT ![u].phase = "object", ![u].base = pointer,
                                   ![u].version = pointer + 1]
  /\ UNCHANGED <<bucket, wire, faults>>

\* The write of the members is answered.
PutObject(u) ==
  LET r == RequestOf(u, "object") IN
  /\ upload[u].phase = "object"
  /\ IF Admitted(r)
     THEN Perform(r) /\ upload' = [upload EXCEPT ![u].phase = "pointer"]
     ELSE Goes(u, End(upload[u], "VERSION_EXISTS")) /\ UNCHANGED bucket
  /\ UNCHANGED <<wire, faults>>

\* The write of the pointer is answered.
PutPointer(u) ==
  LET r == RequestOf(u, "pointer") IN
  /\ upload[u].phase = "pointer"
  /\ IF Admitted(r) THEN Perform(r) /\ Goes(u, End(upload[u], "ok"))
                    ELSE Goes(u, End(upload[u], "CONFLICT")) /\ UNCHANGED bucket
  /\ UNCHANGED <<wire, faults>>

-----------------------------------------------------------------------------
(* Faults. *)

Fault == faults < MaxFaults /\ faults' = faults + 1

Outstanding(u) ==
  IF upload[u].phase \in {"object", "pointer"}
  THEN {RequestOf(u, upload[u].phase)} ELSE {}

\* A request fails, or a write is given up and may still arrive.
RequestFails(u) ==
  /\ upload[u].phase # "idle"
  /\ Fault
  /\ wire' = wire \union Outstanding(u)
  /\ IF upload[u].phase \in {"list", "reread"}
     THEN upload' = [upload EXCEPT ![u].phase = "idle"]
     ELSE Goes(u, End(upload[u], "REQUEST_FAILED"))
  /\ UNCHANGED bucket

\* The SDK sends a write again; the first copy may still arrive.
Resend(u) ==
  /\ Outstanding(u) # {}
  /\ Fault
  /\ wire' = wire \union Outstanding(u)
  /\ UNCHANGED <<bucket, upload>>

\* The process dies.
Crash(u) ==
  /\ upload[u].phase # "idle"
  /\ Fault
  /\ wire' = wire \union Outstanding(u)
  /\ Goes(u, Fresh(upload[u].shown, "crashed"))
  /\ UNCHANGED bucket

\* A write nobody waits for reaches S3.
Land(r) ==
  /\ wire' = wire \ {r}
  /\ IF Admitted(r) THEN Perform(r) ELSE UNCHANGED bucket
  /\ UNCHANGED <<upload, faults>>

-----------------------------------------------------------------------------
Init ==
  /\ stored = <<>>
  /\ pointer = 0
  /\ history = <<>>
  /\ upload = [u \in Uploaders |-> Fresh(0, "none")]
  /\ wire = {}
  /\ faults = 0

Advance(u) == Precheck(u) \/ ReadPointer(u) \/ PutObject(u) \/ PutPointer(u)

Next ==
  \/ \E u \in Uploaders :
       \/ OpenList(u) \/ ShowVersion(u)
       \/ Create(u) \/ Upload(u) \/ UploadFile(u) \/ UploadDraft(u)
       \/ Advance(u)
       \/ RequestFails(u) \/ Resend(u) \/ Crash(u)
  \/ \E r \in wire : Land(r)

Spec == Init /\ [][Next]_vars

\* Every promise of a running upload settles; nothing makes a write on the
\* wire land, and nobody has to upload.
FairSpec == Spec /\ \A u \in Uploaders : WF_vars(Advance(u))

-----------------------------------------------------------------------------
(* Properties. *)

\* The segment's versions form one line, each replacing the one it was built
\* on, and no header, malformed row or oversized list ever goes live: the
\* promise that SnapshotPublisher keeps for snapshots.
Published == INSTANCE PublishedHistory WITH
  line <- history, Contents <- SUBSET Names, ValidContents <- ValidMembers
PublishedSpec == Published!Spec

\* Pointer writes that can still reach S3.
PendingMoves ==
  {r \in wire : r.kind = "pointer"} \union
  {RequestOf(u, "pointer") : u \in {x \in Uploaders : upload[x].phase = "pointer"}}

\* A pointer write under way, however late it lands, names an object that
\* holds its own members and is the one successor of the version it replaces;
\* a caller who named a version, "none" included, replaces that very one.
PendingPointerFits ==
  \A r \in PendingMoves :
    /\ r.version \in DOMAIN stored
    /\ stored[r.version] = r.members
    /\ r.version = r.base + 1
    /\ r.expected \in {Unasked, r.base}

\* A CONFLICT on the pointer write, shown as "Someone else uploaded this
\* segment meanwhile", never means that: the object of base + 1 is the
\* uploader's own, so the pointer left base for the upload itself, sent twice.
LateConflictIsOwn ==
  \A u \in Uploaders :
    (upload[u].outcome = "CONFLICT" /\ upload[u].version # 0) =>
      /\ \E i \in 1..Len(history) :
           /\ history[i].version = upload[u].version
           /\ history[i].content = upload[u].body.members
      /\ faults > 0

\* An object stored at the next version with nobody left to point at it.
Wedged ==
  /\ pointer + 1 \in DOMAIN stored
  /\ \A r \in PendingMoves : r.base # pointer

\* An upload that dies between its two writes wedges its segment: nothing any
\* uploader can do afterwards brings a new version live (no probing here,
\* unlike the snapshot publisher's orphanGraceMs).
WedgedForEver == [][Wedged => Wedged']_vars

\* Only a fault can do that: without one, every object stored becomes the
\* live version, whatever else was uploaded at the same time.
StoredGoesLive ==
  \A v \in Versions : v \in DOMAIN stored ~> (pointer >= v \/ faults > 0)

\* After an upload of the segment page that was turned down, the page shows
\* another version than the one it had expected, so that the next upload of the
\* same page is judged by it: a page that lost to another can simply upload again.
PageCatchesUp ==
  \A u \in Uploaders :
    (/\ upload[u].phase = "idle" /\ upload[u].page /\ upload[u].version = 0
     /\ upload[u].outcome = "CONFLICT")
      => upload[u].shown # upload[u].expected \/ faults > 0

-----------------------------------------------------------------------------
(* The invariant behind these properties: what SegmentPublisherProofs shows *)
(* to be inductive.                                                         *)

\* A write is for the successor of the version its call read, which is still
\* that or an older one by now.
Sound(r) ==
  /\ r.base <= pointer
  /\ r.version = r.base + 1
  /\ r.expected \in {Unasked, r.base}
  /\ r.members \in ValidMembers
  /\ r.kind = "pointer" =>
       r.version \in DOMAIN stored /\ stored[r.version] = r.members

\* What an uploader remembers of the pointer it has seen.
CallOK(s) ==
  /\ s.shown <= pointer
  /\ s.expected <= pointer
  /\ s.page => s.expected # Unasked
  /\ s.phase \in {"precheck", "read"} => s.version = 0
  /\ s.outcome = "CONFLICT" =>
       /\ s.phase \in {"idle", "list", "reread"}
       /\ s.version # 0 =>
            /\ s.version <= pointer /\ faults > 0
            /\ stored[s.version] = s.body.members
       /\ s.version = 0 /\ s.page =>
            /\ s.expected < pointer
            /\ s.phase = "idle" => s.shown # s.expected \/ faults > 0

\* Versions are stored and go live one by one, and only the next can be there
\* before its turn.
LineOK ==
  /\ history \in Seq(Published!Entry)
  /\ Len(history) = pointer
  /\ 1..pointer \subseteq DOMAIN stored
  /\ DOMAIN stored \subseteq 1..pointer + 1
  /\ \A i \in 1..pointer :
       history[i].version = i /\ history[i].content = stored[i]

\* Without a fault nothing is on the wire, and only one uploader has stored an
\* object and not pointed at it yet.
FaultlessOK ==
  faults = 0 =>
    /\ wire = {}
    /\ \A u \in Uploaders : upload[u].phase = "pointer" =>
         /\ upload[u].base = pointer
         /\ \A x \in Uploaders : upload[x].phase = "pointer" => x = u

\* Once the pointer is at MaxLive, every version still to come is that of a
\* call that had started before: this is why Versions is large enough.
Asking == {u \in Uploaders : upload[u].phase \in {"precheck", "read"}}
Writes == wire \union UNION {Outstanding(u) : u \in Uploaders}
Moves == {r \in Writes : r.base = pointer}
BoundOK ==
  pointer >= MaxLive =>
    pointer + Cardinality(Asking) + (IF Moves = {} THEN 0 ELSE 1)
      <= MaxLive + Cardinality(Uploaders)

IInv ==
  /\ TypeOK
  /\ \A r \in Writes : Sound(r)
  /\ \A u \in Uploaders : CallOK(upload[u])
  /\ LineOK
  /\ FaultlessOK
  /\ BoundOK
=============================================================================
