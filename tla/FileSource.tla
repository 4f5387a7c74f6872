----------------------------- MODULE FileSource -----------------------------
(***************************************************************************)
(* createFileSnapshotSource (packages/core) and those who write the file   *)
(* it watches: an editor that saves in several steps, and the CLI's        *)
(* "pull", which writes a temporary file and renames it.                   *)
(*                                                                         *)
(* A text is the version of the snapshot in it and whether all of it is    *)
(* there.  A text that is not whole stands for a missing, unreadable or    *)
(* malformed file, which all end a load or a reload the same way.  The two *)
(* files of a segment are outside the model: reading them finds any        *)
(* version, or nothing.  (They are below segments/, and the watch on the   *)
(* directory is not recursive: a change of theirs wakes nobody.)           *)
(***************************************************************************)
EXTENDS FlagClient

CONSTANTS
  Reloads,        \* reload() calls that may be in flight at once
  MaxVersion,     \* the versions an editor or a pull may write: 1..MaxVersion
  MaxMembers,     \* bound: the versions a segment's files may have
  MaxSaves,       \* bound: saves and pulls
  MaxCrashes      \* bound: writers that die half-way

ASSUME FileAssumption ==
  /\ MaxVersion \in Nat \ {0}
  /\ {MaxMembers, MaxSaves, MaxCrashes} \subseteq Nat

VARIABLES
  file,           \* the snapshot file
  saving,         \* version the editor is half-way through writing, or 0
  pulling,        \* version in the temporary file of a pull, or 0
  watching,       \* the watcher of the subscription is open
  saves, crashes, \* how often each has happened
  timer,          \* the debounce timer is running
  reload,         \* what each reload() waits for
  loading,        \* what the load() of each refresh waits for
  lastDelivered,  \* the text delivered last, as its version; 0 for undefined
  muddled         \* history variable: a reload began while another one ran,
                  \* or a refresh brought another text than lastDelivered

fileVars == <<file, saving, pulling, watching, saves, crashes, timer, reload,
              loading, lastDelivered, muddled>>
disk == <<file, saving, pulling, saves, crashes>>

Text == [version : 0..MaxVersion, whole : BOOLEAN]
Reading == [phase : {"idle", "file", "segments"}, version : 0..MaxVersion]

FileTypeOK ==
  /\ file \in Text
  /\ {saving, pulling, lastDelivered} \subseteq 0..MaxVersion
  /\ {timer, watching} \subseteq BOOLEAN
  /\ reload \in [Reloads -> Reading]
  /\ loading \in [Loads -> Reading]

Rests == [phase |-> "idle", version |-> 0]
Reads == [phase |-> "file", version |-> 0]
ReadsSegments(v) == [phase |-> "segments", version |-> v]

-----------------------------------------------------------------------------
(* Those who write the file. *)

\* Broken: what changes while a reload runs is taken for its own doing.
TouchedUnlessBusy ==
  timer' = (timer \/ (watching /\ \A r \in Reloads : reload[r].phase = "idle"))

\* Something in the watched directory changed: the timer starts afresh.
Touched == timer' = watching

\* Broken: the text is written to the file itself.
PullsInPlace(v) == file' = [version |-> v, whole |-> FALSE]

\* writeAtomically of a pull, first half: the file is left alone.
PullsAside(v) == UNCHANGED file

EditorBegins(v) ==
  /\ saving = 0 /\ saves < MaxSaves
  /\ saving' = v
  /\ saves' = saves + 1
  /\ file' = [version |-> v, whole |-> FALSE]
  /\ Touched
  /\ UNCHANGED <<pulling, crashes>>

EditorEnds ==
  /\ saving # 0
  /\ saving' = 0
  /\ file' = [version |-> saving, whole |-> TRUE]
  /\ Touched
  /\ UNCHANGED <<pulling, saves, crashes>>

\* runPull: the version is fetched and valid, and the temporary file written.
PullBegins(v) ==
  /\ pulling = 0 /\ saves < MaxSaves
  /\ pulling' = v
  /\ saves' = saves + 1
  /\ PullsAside(v)
  /\ Touched
  /\ UNCHANGED <<saving, crashes>>

\* writeAtomically, second half: rename.
PullEnds ==
  /\ pulling # 0
  /\ pulling' = 0
  /\ file' = [version |-> pulling, whole |-> TRUE]
  /\ Touched
  /\ UNCHANGED <<saving, saves, crashes>>

\* The editor, or the pull, dies before its second step.
WriterDies ==
  /\ crashes < MaxCrashes
  /\ crashes' = crashes + 1
  /\ \/ saving # 0 /\ saving' = 0 /\ UNCHANGED pulling
     \/ pulling # 0 /\ pulling' = 0 /\ UNCHANGED saving
  /\ UNCHANGED <<file, saves, timer>>

DiskChanges ==
  /\ \/ \E v \in 1..MaxVersion : EditorBegins(v) \/ PullBegins(v)
     \/ EditorEnds \/ PullEnds \/ WriterDies
  /\ UNCHANGED <<watching, reload, loading, lastDelivered, muddled, clientVars>>

-----------------------------------------------------------------------------
(* The source. *)

\* The debounce timer fires: reload() asks for the text.
TimerFires(r) ==
  /\ timer /\ reload[r].phase = "idle"
  /\ r = CHOOSE x \in Reloads : reload[x].phase = "idle"
  /\ timer' = FALSE
  /\ reload' = [reload EXCEPT ![r] = Reads]
  /\ muddled' = (muddled \/ \E x \in Reloads : reload[x].phase # "idle")
  /\ UNCHANGED <<disk, watching, loading, lastDelivered, clientVars>>

HandsOver(v, s) ==
  /\ lastDelivered' = v
  /\ Delivered([version |-> v, segment |-> s])

\* The text is the one delivered last.
Remembered == file.whole /\ file.version = lastDelivered

\* reload() has the text: nothing new, an error to report, segments to read,
\* or a delivery.
ReloadReads(r) ==
  /\ reload[r].phase = "file"
  /\ IF Remembered \/ ~file.whole
     THEN reload' = [reload EXCEPT ![r] = Rests]
          /\ UNCHANGED <<lastDelivered, clientVars>>
     ELSE IF file.version \in Referencing
     THEN reload' = [reload EXCEPT ![r] = ReadsSegments(file.version)]
          /\ UNCHANGED <<lastDelivered, clientVars>>
     ELSE reload' = [reload EXCEPT ![r] = Rests] /\ HandsOver(file.version, 0)
  /\ UNCHANGED <<disk, watching, timer, loading, muddled>>

\* reload() has the segments, whether or not the subscription has ended.
ReloadEnds(r) ==
  /\ reload[r].phase = "segments"
  /\ \E s \in 0..MaxMembers : HandsOver(reload[r].version, s)
  /\ reload' = [reload EXCEPT ![r] = Rests]
  /\ UNCHANGED <<disk, watching, timer, loading, muddled>>

\* load() resolves.
LoadResolves(l, v, s) ==
  /\ RefreshLoaded(l, [version |-> v, segment |-> s])
  /\ loading' = [loading EXCEPT ![l] = Rests]
  /\ muddled' = (muddled \/ lastDelivered \notin {0, v})

\* load() of a refresh has the text.
LoadReads(l) ==
  /\ loading[l].phase = "file"
  /\ IF file.whole /\ file.version \notin Referencing
     THEN LoadResolves(l, file.version, 0)
     ELSE /\ IF file.whole
             THEN loading' = [loading EXCEPT ![l] = ReadsSegments(file.version)]
                  /\ UNCHANGED clientVars
             ELSE loading' = [loading EXCEPT ![l] = Rests] /\ RefreshFailed(l)
          /\ UNCHANGED muddled
  /\ UNCHANGED <<disk, watching, timer, reload, lastDelivered>>

\* load() has the segments.
LoadEnds(l) ==
  /\ loading[l].phase = "segments"
  /\ \E s \in 0..MaxMembers : LoadResolves(l, loading[l].version, s)
  /\ UNCHANGED <<disk, watching, timer, reload, lastDelivered>>

\* refresh() calls load().
FileLoad(l) ==
  /\ BeginRefresh(l)
  /\ loading' = [loading EXCEPT ![l] = Reads]
  /\ UNCHANGED <<disk, timer, reload, lastDelivered, muddled>>

\* Broken: the timer goes on after the subscription ended.
UnsubscribeKeepsTimer == watching' = FALSE /\ UNCHANGED timer

\* The subscription ends; a reload in flight goes on.
Unsubscribe == watching' = FALSE /\ timer' = FALSE

FileInit ==
  /\ file \in {[version |-> 0, whole |-> FALSE], [version |-> 1, whole |-> TRUE]}
  /\ saving = 0 /\ pulling = 0 /\ saves = 0 /\ crashes = 0
  /\ watching = FALSE
  /\ timer = FALSE
  /\ reload = [r \in Reloads |-> Rests]
  /\ loading = [l \in Loads |-> Rests]
  /\ lastDelivered = 0
  /\ muddled = FALSE
=============================================================================
