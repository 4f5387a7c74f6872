----------------------------- MODULE FlagClient -----------------------------
(***************************************************************************)
(* The in-memory flag client of packages/core: createFeatureFlags and its  *)
(* SnapshotStore, seen from its source.  Answers to refresh() and          *)
(* deliveries of the subscription arrive in any order; a ticket, taken     *)
(* when a refresh starts or a delivery arrives, decides which may become   *)
(* the active snapshot.                                                    *)
(*                                                                         *)
(* Abstractions.  A snapshot is its version, and of the segments a         *)
(* snapshot may reference one is kept: a payload carries the version of    *)
(* that segment's members, 0 when the bundle leaves the segment out.       *)
(* Validation is a fixed set of versions the client rejects (definitions   *)
(* the snapshot violates).  A malformed segment file counts as left out.   *)
(* Queries (isEnabled, get, evaluate, has, getAll, version) read `active`  *)
(* and change nothing; ready() is the outcome of the first refresh.        *)
(***************************************************************************)
EXTENDS Integers

CONSTANTS
  Loads,          \* refresh() calls that may be in flight at once
  Referencing,    \* versions of snapshots that reference the segment
  Rejected,       \* versions that violate the client's definitions
  Fallbacks,      \* versions a fallbackSnapshot may have
  MaxTickets      \* bound: no refresh starts after this many tickets

ASSUME ClientAssumption ==
  /\ Referencing \subseteq Nat \ {0}
  /\ Rejected \subseteq Nat \ {0}
  /\ Fallbacks \subseteq Nat \ {0}
  /\ MaxTickets \in Nat

VARIABLES
  active,         \* store.current: a payload, version 0 for undefined
  appliedTicket,  \* #appliedTicket
  issuedTickets,  \* #issuedTickets
  ticket,         \* ticket of each refresh in flight, 0 when there is none
  closed          \* close() was called

clientVars == <<active, appliedTicket, issuedTickets, ticket, closed>>

Payload == [version : Nat, segment : Nat]
Nothing == [version |-> 0, segment |-> 0]

ClientTypeOK ==
  /\ active \in Payload
  /\ appliedTicket \in 0..issuedTickets
  /\ issuedTickets \in Nat
  /\ ticket \in [Loads -> 0..issuedTickets]
  /\ closed \in BOOLEAN

\* Broken: the segments of a payload are taken as they come.
ResolvedAsDelivered(payload) ==
  [version |-> payload.version,
   segment |-> IF payload.version \in Referencing THEN payload.segment ELSE 0]

\* resolveSegments: a referenced segment the payload leaves out keeps the
\* members the active snapshot holds.
Resolved(payload) ==
  [version |-> payload.version,
   segment |-> IF payload.version \notin Referencing THEN 0
               ELSE IF payload.segment # 0 THEN payload.segment
               ELSE active.segment]

\* Broken: whatever arrives last is active.
NewestAlways(t) == TRUE

\* Broken: off by one, the ticket next to the last applied one is too old.
NewestButOne(t) == t > appliedTicket + 1

\* replace: a ticket not above the last applied one has been overtaken.
Newest(t) == t > appliedTicket

\* apply: validate, then swap the whole snapshot unless it was overtaken.
Apply(payload, t) ==
  IF payload.version \notin Rejected /\ Newest(t)
  THEN /\ active' = Resolved(payload)
       /\ appliedTicket' = t
  ELSE UNCHANGED <<active, appliedTicket>>

\* refresh() is called; the client calls it once by itself.
BeginRefresh(l) ==
  /\ ticket[l] = 0
  /\ issuedTickets < MaxTickets
  /\ issuedTickets' = issuedTickets + 1
  /\ ticket' = [ticket EXCEPT ![l] = issuedTickets']
  /\ UNCHANGED <<active, appliedTicket, closed>>

\* source.load() of a refresh resolves.
RefreshLoaded(l, payload) ==
  /\ ticket[l] # 0
  /\ Apply(payload, ticket[l])
  /\ ticket' = [ticket EXCEPT ![l] = 0]
  /\ UNCHANGED <<issuedTickets, closed>>

\* source.load() of a refresh rejects: the active snapshot is kept.
RefreshFailed(l) ==
  /\ ticket[l] # 0
  /\ ticket' = [ticket EXCEPT ![l] = 0]
  /\ UNCHANGED <<active, appliedTicket, issuedTickets, closed>>

\* The source calls onChange.
Delivered(payload) ==
  /\ issuedTickets' = issuedTickets + 1
  /\ Apply(payload, issuedTickets')
  /\ UNCHANGED <<ticket, closed>>

\* close(): the subscription ends, refreshes in flight go on.
Close ==
  /\ ~closed
  /\ closed' = TRUE
  /\ UNCHANGED <<active, appliedTicket, issuedTickets, ticket>>

\* With allowStaleStartup the client starts by applying the fallback snapshot,
\* which the definitions may reject and which, as a bundle, may bring members.
ClientInit ==
  /\ \/ issuedTickets = 0 /\ appliedTicket = 0 /\ active = Nothing
     \/ \E v \in Fallbacks :
          /\ issuedTickets = 1
          /\ \/ v \in Rejected /\ appliedTicket = 0 /\ active = Nothing
             \/ /\ v \notin Rejected /\ appliedTicket = 1
                /\ \E s \in IF v \in Referencing THEN 0..1 ELSE {0} :
                     active = [version |-> v, segment |-> s]
  /\ ticket = [l \in Loads |-> 0]
  /\ closed = FALSE
=============================================================================
