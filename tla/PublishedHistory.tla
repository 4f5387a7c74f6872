-------------------------- MODULE PublishedHistory --------------------------
(***************************************************************************)
(* What an environment of the feature-flag store promises to the people    *)
(* who publish to it, whatever number of publishers run at once, crash or  *)
(* lose an answer: the versions that were ever live form one line.  Each   *)
(* version that goes live replaces exactly the version it says it          *)
(* replaced, version numbers only grow, a publish that was built on a      *)
(* given version replaces that version and no other, and nothing invalid   *)
(* goes live.                                                              *)
(*                                                                         *)
(* SnapshotPublisher implements this specification; it is stated from      *)
(* docs/spec/s3-layout.md, "Publishing / write access".                    *)
(***************************************************************************)
EXTENDS Integers, Sequences

CONSTANTS
  Contents,             \* the bodies a snapshot can carry
  ValidContents         \* those that pass validation

VARIABLE line           \* the versions that went live, oldest first

Entry == [version  : Nat \ {0},  \* the version that went live
          previous : Nat,        \* previousVersion in its body, 0 for null
          content  : Contents,
          expected : Nat]        \* the version the caller built on, 0 when
                                 \* the caller did not say

\* The version at the end of the line, 0 when nothing is published.
Latest == IF line = <<>> THEN 0 ELSE line[Len(line)].version

Init == line \in Seq(Entry) /\ Len(line) <= 1

\* One more version becomes the live one.
GoLive ==
  /\ Len(line') = Len(line) + 1
  /\ LET e == line'[Len(line')] IN
     /\ line' = Append(line, e)
     /\ e \in Entry
     /\ e.version > Latest
     /\ e.previous = Latest
     /\ e.content \in ValidContents
     /\ e.expected \in {0, Latest}

Spec == Init /\ [][GoLive]_line
=============================================================================
