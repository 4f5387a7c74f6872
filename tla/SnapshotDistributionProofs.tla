--------------------- MODULE SnapshotDistributionProofs ---------------------
(***************************************************************************)
(* What holds of SnapshotDistribution for any number of refreshes, any     *)
(* versions and any bounds: its types, and that a slow refresh never takes *)
(* the client back behind the last delivery.  The invariant DInv is        *)
(* inductive; Progress says what a step of a flow has to establish, and    *)
(* HandOverStep that handing a payload to the client establishes it.       *)
(***************************************************************************)
EXTENDS SnapshotDistribution, TLAPS

USE ClientAssumption, SourceAssumption

\* A flow moves to state s; no other flow moves.
LEMMA Progress ==
  ASSUME DInv, NEW f \in Flows, NEW s \in FlowState,
         flow' = [flow EXCEPT ![f] = s],
         UNCHANGED bucket,
         s.version <= pointer,
         s.step = "snapshot" => s.version # 0,
         f \in Loads => /\ ticket'[f] # 0 <=> s.step # "idle"
                        /\ s.step = "pointer" => s.etag = 0
                        /\ s.step \notin {"idle", "pointer"} => s.version # 0
                        /\ s.step \notin {"idle", "pointer", "answered"} => s.whole
                        /\ (/\ s.step \notin {"idle", "pointer"}
                            /\ ticket'[f] > appliedTicket'
                            /\ delivered' \notin Rejected)
                           => s.version >= delivered',
         \A l \in Loads \ {f} :
           /\ ticket'[l] = ticket[l]
           /\ (ticket[l] > appliedTicket' /\ delivered' \notin Rejected)
              => ticket[l] > appliedTicket /\ delivered' = delivered,
         ClientTypeOK',
         loaded' \in Payload, loaded'.version <= pointer,
         cache' \in Nat, faults' \in 0..MaxFaults,
         delivered' \in Nat, delivered' <= pointer, overtaken' \in BOOLEAN,
         NeverBehindDelivery'
  PROVE  DInv'
<1>1. /\ flow \in [Flows -> FlowState] /\ flow' \in [Flows -> FlowState]
      /\ flow'[f] = s
      /\ \A g \in Flows \ {f} : flow'[g] = flow[g]
      /\ pointer' = pointer /\ segmentPointer' = segmentPointer
      /\ Loads \subseteq Flows
  BY DEF DInv, TypeOK, bucket, Flows
<1>2. TypeOK'
  <2>1. \A g \in Flows : flow'[g].step = "snapshot" => flow'[g].version # 0
    BY <1>1 DEF DInv, TypeOK
  <2>2. \A l \in Loads : ticket'[l] # 0 <=> flow'[l].step # "idle"
    BY <1>1 DEF DInv, TypeOK
  <2>3. pointer' \in 0..MaxVersion /\ segmentPointer' \in 0..MaxSegment
    BY <1>1 DEF DInv, TypeOK
  <2>4. QED
    BY <1>1, <2>1, <2>2, <2>3 DEF TypeOK
<1>3. \A g \in Flows : flow'[g].version <= pointer'
  BY <1>1 DEF DInv
<1>4. \A l \in Loads : /\ flow'[l].step = "pointer" => flow'[l].etag = 0
                       /\ Began(l)' => flow'[l].version # 0
                       /\ Began(l)' /\ flow'[l].step # "answered"
                          => flow'[l].whole
  BY <1>1 DEF DInv, Began
<1>5. ASSUME NEW l \in Loads, Began(l)', ticket'[l] > appliedTicket',
             delivered' \notin Rejected
      PROVE  flow'[l].version >= delivered'
  <2>1. CASE l = f
    BY <1>1, <1>5, <2>1 DEF Began
  <2>2. CASE l # f
    BY <1>1, <1>5, <2>2 DEF Began, DInv
  <2>3. QED
    BY <2>1, <2>2
<1>6. QED
  BY <1>1, <1>2, <1>3, <1>4, <1>5 DEF DInv

LEMMA IdleIsFlow == Idle \in FlowState
BY DEF Idle, FlowState, Step

\* The outcome of apply.
LEMMA ApplyStep ==
  ASSUME DInv, NEW p \in Payload, NEW t \in Nat, Apply(p, t)
  PROVE  \/ /\ p.version \notin Rejected /\ t > appliedTicket
            /\ appliedTicket' = t
            /\ active' \in Payload /\ active'.version = p.version
         \/ /\ p.version \in Rejected \/ t <= appliedTicket
            /\ UNCHANGED <<active, appliedTicket>>
<1>1. active \in Payload /\ appliedTicket \in Nat
  BY DEF DInv, TypeOK, ClientTypeOK
<1>2. Resolved(p) \in Payload /\ Resolved(p).version = p.version
  BY <1>1 DEF Resolved, Payload
<1>3. QED
  BY <1>1, <1>2 DEF Apply, Newest

\* A flow comes to rest.
LEMMA Rests ==
  ASSUME DInv, NEW f \in Flows, Rest(f), UNCHANGED bucket,
         f \in Loads => ticket'[f] = 0,
         \A l \in Loads \ {f} :
           /\ ticket'[l] = ticket[l]
           /\ (ticket[l] > appliedTicket' /\ delivered' \notin Rejected)
              => ticket[l] > appliedTicket /\ delivered' = delivered,
         ClientTypeOK',
         loaded' \in Payload, loaded'.version <= pointer,
         cache' \in Nat, faults' \in 0..MaxFaults,
         delivered' \in Nat, delivered' <= pointer, overtaken' \in BOOLEAN,
         NeverBehindDelivery'
  PROVE  DInv'
<1>1. PICK s \in FlowState : s = Idle /\ s.step = "idle" /\ s.version = 0
  BY IdleIsFlow DEF Idle
<1>2. flow' = [flow EXCEPT ![f] = s]
  BY <1>1 DEF Rest
<1>3. s.version <= pointer
  BY <1>1 DEF DInv, TypeOK
<1>4. QED
  BY <1>1, <1>2, <1>3, Progress

\* A flow ends by handing over a payload that is no older than the last
\* delivery if it can still win.
LEMMA HandOverStep ==
  ASSUME DInv, NEW f \in Flows, NEW p \in Payload, p.version <= pointer,
         (f # Job /\ ticket[f] > appliedTicket /\ delivered \notin Rejected)
         => p.version >= delivered,
         Rest(f), HandOver(f, p),
         loaded' \in Payload, loaded'.version <= pointer, cache' \in Nat,
         UNCHANGED <<bucket, faults>>
  PROVE  DInv'
<1>1. /\ ClientTypeOK /\ pointer \in Nat /\ delivered \in Nat
      /\ faults \in 0..MaxFaults /\ delivered <= pointer
      /\ NeverBehindDelivery
      /\ f # Job => f \in Loads
      /\ f = Job => f \notin Loads
  BY DEF DInv, TypeOK, Flows
<1>2. CASE f = Job /\ Listening
  <2>1. /\ issuedTickets' = issuedTickets + 1 /\ Apply(p, issuedTickets + 1)
        /\ UNCHANGED <<ticket, closed, overtaken>>
        /\ delivered' = p.version
    BY <1>1, <1>2 DEF HandOver, Delivered, Listening
  <2>2. issuedTickets + 1 \in Nat /\ issuedTickets + 1 > appliedTicket
    BY <1>1 DEF ClientTypeOK
  <2>3. \/ /\ p.version \notin Rejected
           /\ appliedTicket' = issuedTickets + 1
           /\ active' \in Payload /\ active'.version = p.version
        \/ /\ p.version \in Rejected
           /\ UNCHANGED <<active, appliedTicket>>
    BY <2>1, <2>2, ApplyStep, <1>1 DEF ClientTypeOK
  <2>4. ClientTypeOK'
    BY <1>1, <2>1, <2>3 DEF ClientTypeOK
  <2>5. NeverBehindDelivery'
    BY <2>1, <2>3 DEF NeverBehindDelivery, Payload
  <2>6. \A l \in Loads :
          /\ ticket'[l] = ticket[l]
          /\ ~(ticket[l] > appliedTicket' /\ delivered' \notin Rejected)
    BY <1>1, <2>1, <2>3 DEF ClientTypeOK
  <2>7. delivered' \in Nat /\ delivered' <= pointer /\ overtaken' \in BOOLEAN
    BY <2>1 DEF Payload, DInv, TypeOK
  <2>8. faults' \in 0..MaxFaults /\ UNCHANGED bucket
    BY <1>1
  <2>9. QED
    BY <1>1, <1>2, <2>4, <2>5, <2>6, <2>7, <2>8, Rests
<1>3. CASE f = Job /\ ~Listening
  <2>1. UNCHANGED <<clientVars, delivered, overtaken>>
    BY <1>3 DEF HandOver
  <2>2. /\ ClientTypeOK' /\ NeverBehindDelivery'
        /\ \A l \in Loads : ticket'[l] = ticket[l]
        /\ appliedTicket' = appliedTicket /\ delivered' = delivered
    BY <1>1, <2>1 DEF ClientTypeOK, NeverBehindDelivery, clientVars
  <2>3. overtaken' \in BOOLEAN
    BY <2>1 DEF DInv, TypeOK
  <2>4. faults' \in 0..MaxFaults /\ UNCHANGED bucket
    BY <1>1
  <2>5. QED
    BY <1>1, <1>3, <2>2, <2>3, <2>4, Rests
<1>4. CASE f # Job
  <2>1. /\ ticket[f] # 0 /\ Apply(p, ticket[f])
        /\ ticket' = [ticket EXCEPT ![f] = 0]
        /\ UNCHANGED <<issuedTickets, closed, delivered>>
        /\ overtaken' = (overtaken \/ ~Newest(ticket[f]))
    BY <1>4 DEF HandOver, RefreshLoaded
  <2>2. ticket[f] \in Nat /\ ticket[f] <= issuedTickets /\ appliedTicket \in Nat
    BY <1>1, <1>4 DEF ClientTypeOK
  <2>3. \/ /\ p.version \notin Rejected /\ ticket[f] > appliedTicket
           /\ appliedTicket' = ticket[f]
           /\ active' \in Payload /\ active'.version = p.version
        \/ UNCHANGED <<active, appliedTicket>>
    BY <2>1, <2>2, ApplyStep
  <2>4. ClientTypeOK'
    BY <1>1, <1>4, <2>1, <2>2, <2>3 DEF ClientTypeOK
  <2>5. NeverBehindDelivery'
    BY <1>1, <1>4, <2>1, <2>3 DEF NeverBehindDelivery
  <2>6. /\ ticket'[f] = 0
        /\ \A l \in Loads \ {f} :
             /\ ticket'[l] = ticket[l]
             /\ ticket[l] > appliedTicket' => ticket[l] > appliedTicket
    BY <1>1, <1>4, <2>1, <2>2, <2>3 DEF ClientTypeOK
  <2>7. overtaken' \in BOOLEAN
    BY <2>1 DEF DInv, TypeOK
  <2>8. faults' \in 0..MaxFaults /\ UNCHANGED bucket
    BY <1>1
  <2>9. QED
    BY <1>1, <1>4, <2>1, <2>4, <2>5, <2>6, <2>7, <2>8, Rests
<1>5. QED
  BY <1>2, <1>3, <1>4

\* A flow moves on without the client.
LEMMA MovesOn ==
  ASSUME DInv, NEW f \in Flows, NEW s \in FlowState,
         flow' = [flow EXCEPT ![f] = s],
         UNCHANGED <<clientVars, loaded, cache, bucket, delivered, overtaken>>,
         faults' \in 0..MaxFaults,
         s.version <= pointer,
         s.step # "idle",
         s.step = "snapshot" => s.version # 0,
         f \in Loads => /\ flow[f].step # "idle"
                        /\ s.step = "pointer" => s.etag = 0
                        /\ s.step \notin {"idle", "pointer"} => s.version # 0
                        /\ s.step \notin {"idle", "pointer", "answered"} => s.whole
                        /\ (/\ s.step \notin {"idle", "pointer"}
                            /\ ticket[f] > appliedTicket
                            /\ delivered \notin Rejected)
                           => s.version >= delivered
  PROVE  DInv'
<1>1. /\ ClientTypeOK /\ loaded \in Payload /\ loaded.version <= pointer
      /\ cache \in Nat /\ delivered \in Nat /\ delivered <= pointer
      /\ overtaken \in BOOLEAN /\ NeverBehindDelivery
      /\ \A l \in Loads : ticket[l] # 0 <=> flow[l].step # "idle"
  BY DEF DInv, TypeOK
<1>2. ClientTypeOK' /\ NeverBehindDelivery'
  BY <1>1 DEF ClientTypeOK, NeverBehindDelivery, clientVars
<1>3. /\ ticket' = ticket /\ appliedTicket' = appliedTicket
      /\ delivered' = delivered /\ loaded' = loaded /\ cache' = cache
      /\ overtaken' = overtaken
  BY DEF clientVars
<1>4. overtaken' \in BOOLEAN
  BY <1>1, <1>3
<1>5. QED
  BY <1>1, <1>2, <1>3, <1>4, Progress

\* The fields of a flow at a step, and the state around it.
LEMMA FlowFacts ==
  ASSUME DInv, NEW f \in Flows
  PROVE  /\ flow[f] \in FlowState /\ flow[f].version <= pointer
         /\ flow[f].step = "snapshot" => flow[f].version # 0
         /\ f \in Loads =>
              /\ flow[f].step = "pointer" => flow[f].etag = 0
              /\ Began(f) => flow[f].version # 0
              /\ Began(f) /\ flow[f].step # "answered" => flow[f].whole
              /\ (Began(f) /\ ticket[f] > appliedTicket
                  /\ delivered \notin Rejected)
                 => flow[f].version >= delivered
         /\ f \notin Loads <=> f = Job
         /\ pointer \in Nat /\ segmentPointer \in Nat /\ cache \in Nat
         /\ loaded \in Payload /\ loaded.version <= pointer
         /\ delivered \in Nat /\ delivered <= pointer
         /\ faults \in 0..MaxFaults
BY DEF DInv, TypeOK, Flows

\* A flow that starts asks for the pointer and has read nothing.
LEMMA Starts ==
  ASSUME NEW f \in Flows, NEW conditional \in BOOLEAN, NEW etag \in Nat,
         AskPointer(f, conditional, etag)
  PROVE  \E s \in FlowState :
           /\ flow' = [flow EXCEPT ![f] = s]
           /\ s.step = "pointer" /\ s.version = 0 /\ s.etag = etag
<1> DEFINE s == [Idle EXCEPT !.step = "pointer",
                             !.conditional = conditional,
                             !.etag = etag]
<1>1. /\ s \in FlowState
      /\ s.step = "pointer" /\ s.version = 0 /\ s.etag = etag
  BY DEF Idle, FlowState, Step
<1>2. flow' = [flow EXCEPT ![f] = s]
  BY DEF AskPointer
<1> HIDE DEF s
<1>3. QED
  BY <1>1, <1>2

LEMMA RefreshStep ==
  ASSUME DInv, NEW l \in Loads, Refresh(l)
  PROVE  DInv'
<1>1. /\ AskPointer(l, TRUE, 0)
      /\ UNCHANGED <<loaded, cache, bucket, faults, delivered, overtaken>>
      /\ issuedTickets' = issuedTickets + 1
      /\ ticket' = [ticket EXCEPT ![l] = issuedTickets + 1]
      /\ UNCHANGED <<active, appliedTicket, closed>>
  BY DEF Refresh, AskPointer, BeginRefresh
<1>2. l \in Flows
  BY DEF Flows
<1>3. PICK s \in FlowState :
        /\ flow' = [flow EXCEPT ![l] = s]
        /\ s.step = "pointer" /\ s.version = 0 /\ s.etag = 0
  BY <1>1, <1>2, Starts
<1>4. ClientTypeOK /\ NeverBehindDelivery /\ overtaken \in BOOLEAN
  BY DEF DInv, TypeOK
<1>5. ClientTypeOK' /\ NeverBehindDelivery'
  BY <1>1, <1>4 DEF ClientTypeOK, NeverBehindDelivery
<1>6. ticket'[l] # 0 /\ \A k \in Loads \ {l} : ticket'[k] = ticket[k]
  BY <1>1, <1>4 DEF ClientTypeOK
<1>7. overtaken' \in BOOLEAN
  BY <1>1, <1>4
<1>8. /\ s.version <= pointer /\ s.step \notin {"idle", "snapshot"}
      /\ loaded' \in Payload /\ loaded'.version <= pointer
      /\ cache' \in Nat /\ faults' \in 0..MaxFaults
      /\ delivered' \in Nat /\ delivered' <= pointer
  BY <1>1, <1>2, <1>3, FlowFacts
<1>9. /\ UNCHANGED <<bucket, delivered, appliedTicket>>
      /\ l \in Loads => /\ ticket'[l] # 0 <=> s.step # "idle"
                        /\ s.step = "pointer" => s.etag = 0
                        /\ s.step \in {"idle", "pointer"}
  BY <1>1, <1>3, <1>6
<1>10. QED
  BY <1>2, <1>3, <1>5, <1>6, <1>7, <1>8, <1>9, Progress

LEMMA JobStartStep ==
  ASSUME DInv, Tick \/ Push
  PROVE  DInv'
<1>1. Job \in Flows /\ Job \notin Loads
  BY DEF Flows
<1>2. PICK conditional \in BOOLEAN, etag \in Nat :
        AskPointer(Job, conditional, etag) /\ UNCHANGED clientVars
  BY <1>1, FlowFacts DEF Tick, Push, Payload
<1>3. PICK s \in FlowState :
        /\ flow' = [flow EXCEPT ![Job] = s]
        /\ s.step = "pointer" /\ s.version = 0
  BY <1>1, <1>2, Starts
<1>4. UNCHANGED <<clientVars, loaded, cache, bucket, faults, delivered, overtaken>>
  BY <1>2 DEF AskPointer
<1>5. /\ s.version <= pointer /\ s.step \notin {"idle", "snapshot"}
      /\ faults' \in 0..MaxFaults
  BY <1>1, <1>3, <1>4, FlowFacts
<1>6. QED
  BY <1>1, <1>3, <1>4, <1>5, MovesOn

LEMMA GivesUpStep ==
  ASSUME DInv, NEW f \in Flows, GivesUp(f), faults' \in 0..MaxFaults
  PROVE  DInv'
<1>1. /\ Rest(f)
      /\ UNCHANGED <<loaded, cache, bucket, delivered, overtaken>>
      /\ UNCHANGED <<active, appliedTicket, issuedTickets, closed>>
      /\ f = Job => UNCHANGED ticket
      /\ f # Job => ticket' = [ticket EXCEPT ![f] = 0]
  BY DEF GivesUp, RefreshFailed, clientVars
<1>2. ClientTypeOK /\ NeverBehindDelivery /\ overtaken \in BOOLEAN
  BY DEF DInv, TypeOK
<1>3. /\ \A l \in Loads \ {f} : ticket'[l] = ticket[l]
      /\ f \in Loads => ticket'[f] = 0
  BY <1>1, <1>2, FlowFacts DEF ClientTypeOK
<1>4. NeverBehindDelivery'
  BY <1>1, <1>2 DEF NeverBehindDelivery
<1>5. ClientTypeOK'
  <2>1. CASE f = Job
    BY <1>1, <1>2, <2>1 DEF ClientTypeOK
  <2>2. CASE f # Job
    BY <1>1, <1>2, <2>2 DEF ClientTypeOK
  <2>3. QED
    BY <2>1, <2>2
<1>6. overtaken' \in BOOLEAN
  BY <1>1, <1>2
<1>7. QED
  BY <1>1, <1>3, <1>4, <1>5, <1>6, FlowFacts, Rests

LEMMA PointerReadStep ==
  ASSUME DInv, NEW f \in Flows, PointerRead(f)
  PROVE  DInv'
<1>1. /\ flow[f].step = "pointer" /\ pointer # 0
      /\ UNCHANGED <<clientVars, loaded, cache, bucket, faults, delivered,
                     overtaken>>
  BY DEF PointerRead
<1>2. PICK s \in FlowState :
        /\ flow' = [flow EXCEPT ![f] = s]
        /\ s.step = "answered"
        /\ s.version = IF pointer = flow[f].etag THEN 0 ELSE pointer
  <2> DEFINE v == IF pointer = flow[f].etag THEN 0 ELSE pointer
             s == [flow[f] EXCEPT !.step = "answered", !.version = v]
  <2>1. s \in FlowState /\ s.step = "answered" /\ s.version = v
    BY FlowFacts DEF FlowState, Step
  <2>2. flow' = [flow EXCEPT ![f] = s]
    BY DEF PointerRead
  <2>3. QED
    BY <2>1, <2>2
<1>3. f \in Loads => s.version = pointer
  BY <1>1, <1>2, FlowFacts
<1>4. s.version <= pointer
  BY <1>2, FlowFacts
<1>5. QED
  BY <1>1, <1>2, <1>3, <1>4, FlowFacts, MovesOn

\* The start of a segment check keeps the version, or takes the loaded one.
LEMMA AskSegmentStep ==
  ASSUME DInv, NEW f \in Flows, NEW version \in Nat, NEW whole \in BOOLEAN,
         AskSegment(f, version, whole), version <= pointer,
         f \in Loads => Began(f) /\ version = flow[f].version /\ whole,
         UNCHANGED <<clientVars, loaded, cache, bucket, faults, delivered,
                     overtaken>>
  PROVE  DInv'
<1>1. PICK s \in FlowState :
        /\ flow' = [flow EXCEPT ![f] = s]
        /\ s.step = "segment" /\ s.version = version /\ s.whole = whole
  <2> DEFINE e == IF flow[f].conditional THEN cache ELSE 0
             s == [flow[f] EXCEPT !.step = "segment", !.version = version,
                                  !.whole = whole, !.cached = cache, !.etag = e]
  <2>1. s \in FlowState /\ s.step = "segment" /\ s.version = version /\ s.whole = whole
    BY FlowFacts DEF FlowState, Step
  <2>2. flow' = [flow EXCEPT ![f] = s]
    BY DEF AskSegment
  <2>3. QED
    BY <2>1, <2>2
<1>2. QED
  BY <1>1, FlowFacts, MovesOn DEF Began

\* A job ends without a delivery.
LEMMA JobRests ==
  ASSUME DInv, Rest(Job), cache' \in Nat,
         UNCHANGED <<clientVars, loaded, bucket, faults, delivered, overtaken>>
  PROVE  DInv'
<1>1. Job \in Flows /\ Job \notin Loads
  BY DEF Flows
<1>2. ClientTypeOK /\ NeverBehindDelivery /\ overtaken \in BOOLEAN
  BY DEF DInv, TypeOK
<1>3. ClientTypeOK' /\ NeverBehindDelivery'
  BY <1>2 DEF ClientTypeOK, NeverBehindDelivery, clientVars
<1>4. overtaken' \in BOOLEAN
  BY <1>2
<1>5. UNCHANGED <<ticket, appliedTicket, loaded, faults, delivered, bucket>>
  BY DEF clientVars
<1>6. QED
  BY <1>1, <1>3, <1>4, <1>5, FlowFacts, Rests

\* The snapshot is asked for: the version of the flow stays.
LEMMA AskSnapshotStep ==
  ASSUME DInv, NEW f \in Flows, flow[f].step = "answered", flow[f].version # 0,
         flow' = [flow EXCEPT ![f].step = "snapshot", ![f].whole = TRUE],
         UNCHANGED <<clientVars, loaded, cache, bucket, faults, delivered,
                     overtaken>>
  PROVE  DInv'
<1>1. PICK s \in FlowState :
        /\ flow' = [flow EXCEPT ![f] = s]
        /\ s.step = "snapshot" /\ s.version = flow[f].version /\ s.whole
  <2> DEFINE s == [flow[f] EXCEPT !.step = "snapshot", !.whole = TRUE]
  <2>1. s \in FlowState /\ s.step = "snapshot" /\ s.version = flow[f].version /\ s.whole
    BY FlowFacts DEF FlowState, Step
  <2>2. flow' = [flow EXCEPT ![f] = s]
    OBVIOUS
  <2>3. QED
    BY <2>1, <2>2
<1>2. QED
  BY <1>1, FlowFacts, MovesOn DEF Began

LEMMA JobFollowsStep ==
  ASSUME DInv, JobFollows
  PROVE  DInv'
<1>1. Job \in Flows /\ Job \notin Loads
  BY DEF Flows
<1>2. /\ UNCHANGED <<clientVars, loaded, cache, bucket, faults, delivered, overtaken>>
      /\ flow[Job].step = "answered"
  BY DEF JobFollows
<1>3. CASE /\ Differs(flow[Job].version)
           /\ flow' = [flow EXCEPT ![Job].step = "snapshot", ![Job].whole = TRUE]
  BY <1>1, <1>2, <1>3, AskSnapshotStep DEF Differs
<1>4. CASE AskSegment(Job, loaded.version, FALSE)
  BY <1>1, <1>2, <1>4, FlowFacts, AskSegmentStep DEF Payload
<1>5. CASE Rest(Job)
  BY <1>1, <1>2, <1>5, JobRests, FlowFacts
<1>6. QED
  BY <1>3, <1>4, <1>5 DEF JobFollows

LEMMA LoadFollowsStep ==
  ASSUME DInv, NEW l \in Loads, LoadFollows(l)
  PROVE  DInv'
<1>1. l \in Flows /\ l # Job /\ flow[l].step = "answered" /\ Began(l)
  BY DEF Flows, LoadFollows, Began
<1>2. CASE flow[l].version = loaded.version /\ Rest(l) /\ HandOver(l, loaded)
  <2>1. PICK p \in Payload : p = loaded
    BY <1>1, FlowFacts
  <2>2. UNCHANGED <<loaded, cache, bucket, faults>>
    BY DEF LoadFollows
  <2>3. QED
    BY <1>1, <1>2, <2>1, <2>2, FlowFacts, HandOverStep
<1>3. CASE /\ flow' = [flow EXCEPT ![l].step = "snapshot", ![l].whole = TRUE]
           /\ UNCHANGED <<clientVars, delivered, overtaken>>
  BY <1>1, <1>3, FlowFacts, AskSnapshotStep DEF LoadFollows
<1>4. QED
  BY <1>2, <1>3 DEF LoadFollows

LEMMA SnapshotReadStep ==
  ASSUME DInv, NEW f \in Flows, SnapshotRead(f)
  PROVE  DInv'
<1>1. /\ flow[f].step = "snapshot" /\ flow[f].version \in Nat /\ Began(f)
      /\ UNCHANGED <<bucket, faults>>
  BY FlowFacts DEF SnapshotRead, FlowState, Began
<1>2. CASE /\ AskSegment(f, flow[f].version, TRUE)
           /\ UNCHANGED <<clientVars, loaded, cache, delivered, overtaken>>
  BY <1>1, <1>2, FlowFacts, AskSegmentStep
<1>3. CASE /\ cache' = 0
           /\ loaded' = [version |-> flow[f].version, segment |-> 0]
           /\ Rest(f) /\ HandOver(f, loaded')
  <2>1. PICK p \in Payload : p = loaded' /\ p.version = flow[f].version
    BY <1>1, <1>3 DEF Payload
  <2>2. QED
    BY <1>1, <1>3, <2>1, FlowFacts, HandOverStep
<1>4. QED
  BY <1>2, <1>3 DEF SnapshotRead

LEMMA SegmentReadStep ==
  ASSUME DInv, NEW f \in Flows, SegmentRead(f) \/ SegmentFails(f)
  PROVE  DInv'
<1>1. PICK seen \in Nat :
        flow' = [flow EXCEPT ![f].step = "checked", ![f].seen = seen]
  BY FlowFacts DEF SegmentRead, SegmentFails
<1>2. /\ flow[f].step = "segment" /\ faults' \in 0..MaxFaults
      /\ UNCHANGED <<clientVars, loaded, cache, bucket, delivered, overtaken>>
  BY FlowFacts DEF SegmentRead, SegmentFails
<1>3. PICK s \in FlowState :
        /\ flow' = [flow EXCEPT ![f] = s]
        /\ s.step = "checked" /\ s.version = flow[f].version
        /\ s.whole = flow[f].whole
  <2> DEFINE s == [flow[f] EXCEPT !.step = "checked", !.seen = seen]
  <2>1. /\ s \in FlowState
        /\ s.step = "checked" /\ s.version = flow[f].version
        /\ s.whole = flow[f].whole
    BY FlowFacts DEF FlowState, Step
  <2>2. flow' = [flow EXCEPT ![f] = s]
    BY <1>1
  <2>3. QED
    BY <2>1, <2>2
<1>4. QED
  BY <1>2, <1>3, FlowFacts, MovesOn DEF Began

LEMMA SegmentFollowsStep ==
  ASSUME DInv, NEW f \in Flows, SegmentFollows(f)
  PROVE  DInv'
<1>1. /\ flow[f] \in FlowState /\ flow[f].step = "checked" /\ Began(f)
      /\ flow[f].version \in Nat /\ cache' \in Nat
      /\ Rest(f) /\ UNCHANGED <<bucket, faults>>
  BY FlowFacts DEF SegmentFollows, FlowState, Began
<1>2. CASE /\ loaded' = [version |-> flow[f].version, segment |-> cache']
           /\ HandOver(f, loaded')
  <2>1. PICK p \in Payload : p = loaded' /\ p.version = flow[f].version
    BY <1>1, <1>2 DEF Payload
  <2>2. QED
    BY <1>1, <1>2, <2>1, FlowFacts, HandOverStep
<1>3. CASE /\ ~flow[f].whole
           /\ UNCHANGED <<clientVars, loaded, delivered, overtaken>>
  <2>1. f = Job
    BY <1>1, <1>3, FlowFacts
  <2>2. QED
    BY <1>1, <1>3, <2>1, JobRests
<1>4. QED
  BY <1>2, <1>3 DEF SegmentFollows

LEMMA AdvanceStep ==
  ASSUME DInv, NEW f \in Flows, Advance(f)
  PROVE  DInv'
<1>1. faults \in 0..MaxFaults
  BY DEF DInv, TypeOK
<1>2. CASE PointerMissing(f)
  BY <1>1, <1>2, GivesUpStep DEF PointerMissing
<1>3. CASE f = Job /\ JobFollows
  BY <1>3, JobFollowsStep
<1>4. CASE f # Job /\ LoadFollows(f)
  BY <1>4, LoadFollowsStep DEF Flows
<1>5. QED
  BY <1>2, <1>3, <1>4, PointerReadStep, SnapshotReadStep, SegmentReadStep,
     SegmentFollowsStep DEF Advance

\* What happens around the flows: the bucket moves up, the client closes.
LEMMA OutsideStep ==
  ASSUME DInv, Publish \/ UploadSegment \/ Unsubscribe \/ UNCHANGED vars
  PROVE  DInv'
<1>1. /\ ClientTypeOK /\ NeverBehindDelivery /\ overtaken \in BOOLEAN
      /\ pointer \in 0..MaxVersion /\ segmentPointer \in 0..MaxSegment
  BY DEF DInv, TypeOK
<1>2. /\ UNCHANGED <<active, appliedTicket, issuedTickets, ticket, loaded,
                     cache, flow, faults, delivered, overtaken>>
      /\ pointer' \in pointer..MaxVersion
      /\ segmentPointer' \in 0..MaxSegment
      /\ closed' \in BOOLEAN
  <2>1. CASE Publish
    BY <1>1, <2>1 DEF Publish, clientVars, sourceVars, ClientTypeOK
  <2>2. CASE UploadSegment
    BY <1>1, <2>2 DEF UploadSegment, clientVars, sourceVars, ClientTypeOK
  <2>3. CASE Unsubscribe
    BY <1>1, <2>3 DEF Unsubscribe, Close, sourceVars, bucket
  <2>4. CASE UNCHANGED vars
    BY <1>1, <2>4 DEF vars, clientVars, sourceVars, bucket, ClientTypeOK
  <2>5. QED
    BY <2>1, <2>2, <2>3, <2>4
<1>3. ClientTypeOK' /\ NeverBehindDelivery'
  BY <1>1, <1>2 DEF ClientTypeOK, NeverBehindDelivery
<1>4. overtaken' \in BOOLEAN
  BY <1>1, <1>2
<1>5. TypeOK'
  BY <1>1, <1>2, <1>3, <1>4 DEF DInv, TypeOK
<1>6. /\ delivered' <= pointer' /\ loaded'.version <= pointer'
      /\ \A f \in Flows : flow'[f].version <= pointer'
  BY <1>1, <1>2 DEF DInv, TypeOK, FlowState, Payload
<1>7. QED
  BY <1>2, <1>3, <1>5, <1>6 DEF DInv, Began

LEMMA InitDInv ==
  ASSUME Init
  PROVE  DInv
<1>1. /\ active \in Payload /\ issuedTickets \in Nat
      /\ appliedTicket \in 0..issuedTickets
      /\ ticket = [l \in Loads |-> 0]
  <2>1. ticket = [l \in Loads |-> 0]
    BY DEF Init, ClientInit
  <2>2. CASE issuedTickets = 0 /\ appliedTicket = 0 /\ active = Nothing
    BY <2>1, <2>2 DEF Nothing, Payload
  <2>3. ASSUME NEW v \in Fallbacks, NEW s \in 0..1, issuedTickets = 1,
               \/ appliedTicket = 0 /\ active = Nothing
               \/ appliedTicket = 1 /\ active = [version |-> v, segment |-> s]
        PROVE  /\ active \in Payload /\ issuedTickets \in Nat
               /\ appliedTicket \in 0..issuedTickets
    BY <2>3 DEF Nothing, Payload
  <2>4. \/ issuedTickets = 0 /\ appliedTicket = 0 /\ active = Nothing
        \/ \E v \in Fallbacks : \E s \in 0..1 :
             /\ issuedTickets = 1
             /\ \/ appliedTicket = 0 /\ active = Nothing
                \/ appliedTicket = 1 /\ active = [version |-> v, segment |-> s]
    BY 0 \in 0..1 DEF Init, ClientInit
  <2>5. QED
    BY <2>1, <2>2, <2>3, <2>4
<1>2. ClientTypeOK
  <2>1. closed \in BOOLEAN
    BY Zenon DEF Init, ClientInit
  <2>2. ticket \in [Loads -> 0..issuedTickets]
    BY <1>1
  <2>3. QED
    BY <1>1, <2>1, <2>2 DEF ClientTypeOK
<1>3. flow \in [Flows -> FlowState]
  BY IdleIsFlow DEF Init
<1>4. \A f \in Flows : flow[f].step = "idle" /\ flow[f].version = 0
  BY DEF Init, Idle
<1>5. /\ pointer \in 0..MaxVersion /\ segmentPointer \in 0..MaxSegment
      /\ loaded \in Payload /\ loaded.version = 0 /\ cache = 0
      /\ faults = 0 /\ delivered = 0
  BY DEF Init, Nothing, Payload
<1>6. TypeOK
  <2>1. \A l \in Loads : ticket[l] # 0 <=> flow[l].step # "idle"
    BY <1>1, <1>4 DEF Flows
  <2>2. \A f \in Flows : flow[f].step = "snapshot" => flow[f].version # 0
    BY <1>4
  <2>3. cache \in Nat /\ faults \in 0..MaxFaults /\ delivered \in Nat
    BY <1>5
  <2>4. overtaken \in BOOLEAN
    BY Zenon DEF Init
  <2>5. QED
    BY <1>2, <1>3, <1>5, <2>1, <2>2, <2>3, <2>4 DEF TypeOK
<1>7. NeverBehindDelivery
  BY <1>1, <1>5 DEF NeverBehindDelivery, Payload
<1>8. QED
  BY <1>4, <1>5, <1>6, <1>7 DEF DInv, Began, Flows

\* Every reachable state satisfies the invariant, for any set of refreshes,
\* any versions referenced or rejected, and any bounds.
THEOREM DistributionInvariance == Spec => []DInv
<1>1. Init => DInv
  BY InitDInv
<1>2. DInv /\ [Next]_vars => DInv'
  <2> SUFFICES ASSUME DInv, [Next]_vars PROVE DInv'
    OBVIOUS
  <2>1. ASSUME NEW f \in Flows, RequestFails(f) PROVE DInv'
    BY <2>1, GivesUpStep DEF RequestFails, DInv, TypeOK
  <2>2. QED
    BY <2>1, OutsideStep, RefreshStep, JobStartStep, AdvanceStep,
       SegmentReadStep DEF Next
<1>3. QED
  BY <1>1, <1>2, PTL DEF Spec

\* Every variable keeps its type: a refresh in flight holds a ticket, and a
\* snapshot is never asked for on a 304.
THEOREM DistributionTypeCorrect == Spec => []TypeOK
<1>1. DInv => TypeOK
  BY DEF DInv
<1>2. QED
  BY <1>1, DistributionInvariance, PTL

\* However slow its requests, a refresh never takes the client back behind
\* what the subscription delivered last.
THEOREM NeverBehind == Spec => []NeverBehindDelivery
<1>1. DInv => NeverBehindDelivery
  BY DEF DInv
<1>2. QED
  BY <1>1, DistributionInvariance, PTL

\* The active snapshot changes only when a flow hands a payload over.
LEMMA ActiveStep ==
  ASSUME [Next]_vars, active' # active
  PROVE  \E f \in Flows : \E p : HandOver(f, p) /\ active' = Resolved(p)
<1>1. \E f \in Flows : \E p : HandOver(f, p)
  <2>1. ASSUME NEW f \in Flows,
               \/ LoadFollows(f) \/ SnapshotRead(f) \/ SegmentFollows(f)
        PROVE  \E p : HandOver(f, p)
    BY <2>1 DEF LoadFollows, SnapshotRead, SegmentFollows, clientVars
  <2>2. ASSUME NEW f \in Flows,
               \/ PointerMissing(f) \/ PointerRead(f) \/ SegmentRead(f)
               \/ SegmentFails(f) \/ RequestFails(f)
        PROVE  FALSE
    BY <2>2 DEF PointerMissing, PointerRead, SegmentRead, SegmentFails,
                RequestFails, GivesUp, RefreshFailed, clientVars
  <2>3. ~ JobFollows
    BY DEF JobFollows, clientVars
  <2>4. ~ \E l \in Loads : Refresh(l)
    BY DEF Refresh, BeginRefresh
  <2>5. ~ (Publish \/ UploadSegment \/ Tick \/ Push \/ Unsubscribe
           \/ UNCHANGED vars)
    BY DEF Publish, UploadSegment, Tick, Push, Unsubscribe, Close, vars,
           clientVars
  <2>6. QED
    BY <2>1, <2>2, <2>3, <2>4, <2>5 DEF Next, Advance
<1>2. ASSUME NEW f \in Flows, NEW p, HandOver(f, p)
      PROVE  active' = Resolved(p)
  BY <1>2 DEF HandOver, Delivered, RefreshLoaded, Apply, clientVars
<1>3. QED
  BY <1>1, <1>2

\* A client never loses the members of a segment while its snapshots
\* reference it, whatever the bundles leave out.
THEOREM MembersAlwaysKept == Spec => MembersKept
<1>1. [Next]_vars => [Keeps]_vars
  <2> SUFFICES ASSUME [Next]_vars PROVE Keeps
    OBVIOUS
  <2>1. CASE active' = active
    BY <2>1 DEF Keeps
  <2>2. CASE active' # active
    <3>1. PICK p : active' = Resolved(p)
      BY <2>2, ActiveStep
    <3>2. QED
      BY <3>1 DEF Resolved, Keeps
  <2>3. QED
    BY <2>1, <2>2
<1>2. QED
  BY <1>1, PTL DEF Spec, MembersKept

\* After close() only a refresh changes the active snapshot.
THEOREM ClosedAlwaysStaysPut == Spec => ClosedStaysPut
<1>1. TypeOK /\ [Next]_vars => [Quiet]_vars
  <2> SUFFICES ASSUME TypeOK, [Next]_vars, closed, active' # active
               PROVE  \E l \in Loads : ticket'[l] # ticket[l]
    BY DEF Quiet
  <2>1. PICK f \in Flows : \E p : HandOver(f, p)
    BY ActiveStep
  <2>2. f # Job /\ \E p : RefreshLoaded(f, p)
    BY <2>1 DEF HandOver, Listening, clientVars
  <2>3. f \in Loads /\ ticket[f] # 0 /\ ticket' = [ticket EXCEPT ![f] = 0]
    BY <2>2 DEF Flows, RefreshLoaded
  <2>4. ticket'[f] # ticket[f]
    BY <2>3 DEF TypeOK, ClientTypeOK
  <2>5. QED
    BY <2>3, <2>4
<1>2. QED
  BY <1>1, DistributionTypeCorrect, PTL DEF Spec, ClosedStaysPut
=============================================================================
