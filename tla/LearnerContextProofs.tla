------------------------ MODULE LearnerContextProofs ------------------------
(***************************************************************************)
(* Proofs about LearnerContext, for any hosts, requests, fields, delays and *)
(* bounds.                                                                  *)
(***************************************************************************)
EXTENDS LearnerContext, SequenceTheorems, TLAPS

\* Everything in the store happened until now, and so did all that a host
\* compacts, although the store may have been cleared since.
Clocked ==
  /\ \A o \in observations : o.at <= clock
  /\ \A e \in active \cup closed : e <= clock
  /\ \A i \in DOMAIN events : events[i].at <= clock
  /\ \A h \in Host : batch[h] # None =>
       /\ \A o \in batch[h].observations : o.at <= clock
       /\ \A x \in batch[h].explanations : x <= clock

-----------------------------------------------------------------------------
(* Types.                                                                   *)

\* The actions of Next, one by one.
LEMMA Steps ==
  ASSUME [Next]_vars
  PROVE  \/ \E h \in Host, O \in SUBSET UncoveredObservations,
               E \in SUBSET ClosedExplanations : Capture(h, O, E)
         \/ \E h \in Host : batch[h] # None
              /\ \E profile \in Profiles(batch[h]) : CommitCheckpoint(h, profile)
         \/ \E h \in Host : CompactionFails(h) \/ TakesOver(h) \/ Notices(h)
         \/ \E h \in Host : Clear(h)
         \/ \E h \in Host, fields \in SUBSET Field, explains \in BOOLEAN :
              Decide(h, fields, explains)
         \/ \E e \in active : Understood(e)
         \/ \E r \in Request : \E edit \in Edits(r) : UpdateLearnerProfile(r, edit)
         \/ UNCHANGED vars
BY Zenon DEF Next

\* What a checkpoint cites, and its generation.
LEMMA EvidenceTypes ==
  ASSUME NEW c, IsCheckpoint(c)
  PROVE  /\ EvidenceOf(c).observations \subseteq Observation
         /\ EvidenceOf(c).ordinals \subseteq Nat
         /\ GenerationOf(c) \in Nat
<1>1. CASE c = None
  BY <1>1 DEF EvidenceOf, GenerationOf
<1>2. ASSUME c # None, NEW D \in SUBSET Dimension, c \in Checkpoint(D)
      PROVE  /\ EvidenceOf(c).observations \subseteq Observation
             /\ EvidenceOf(c).ordinals \subseteq Nat
             /\ GenerationOf(c) \in Nat
  <2>1. \A d \in DOMAIN c.profile : c.profile[d] \in Evidence
    BY <1>2 DEF Checkpoint
  <2> QED
    BY <1>2, <2>1, BoundAssumption DEF EvidenceOf, GenerationOf, Evidence, Checkpoint
<1> QED
  BY <1>1, <1>2 DEF IsCheckpoint

\* What a checkpoint cites of a batch, and what the store must still hold.
LEMMA CommittedEvidence ==
  ASSUME NEW b, NEW profile \in Profiles(b), NEW c, c # None, c.profile = profile
  PROVE  /\ \E D \in SUBSET Dimension :
              profile \in [D -> [observations: Cited(Allowed(b).observations),
                                 ordinals: Cited(Allowed(b).ordinals)]]
         /\ EvidenceOf(c).observations \subseteq Allowed(b).observations
         /\ EvidenceOf(c).ordinals \subseteq Allowed(b).ordinals
         /\ \A d \in DOMAIN profile :
              /\ profile[d].observations \subseteq EvidenceOf(c).observations
              /\ profile[d].ordinals \subseteq EvidenceOf(c).ordinals
<1>1. PICK D \in SUBSET Dimension :
        profile \in [D -> [observations: Cited(Allowed(b).observations),
                           ordinals: Cited(Allowed(b).ordinals)]]
  BY DEF Profiles
<1>2. \A d \in DOMAIN profile :
        /\ profile[d].observations \in SUBSET Allowed(b).observations
        /\ profile[d].ordinals \in SUBSET Allowed(b).ordinals
  BY <1>1 DEF Cited
<1>3. /\ EvidenceOf(c).observations = UNION {profile[d].observations : d \in DOMAIN profile}
      /\ EvidenceOf(c).ordinals = UNION {profile[d].ordinals : d \in DOMAIN profile}
  BY DEF EvidenceOf
<1> QED
  BY <1>1, <1>2, <1>3

\* The revision never goes back, so what was sent was sent below it.
SentBelow ==
  \A r \in Request :
    sent[r] # None => sent[r].expected \in Instant /\ sent[r].expected < storeRevision

\* A step that sends nothing keeps it.
LEMMA SentStaysBelow ==
  ASSUME TypeOK, UNCHANGED sent, storeRevision' \in Instant, storeRevision <= storeRevision'
  PROVE  SentBelow'
BY BoundAssumption DEF TypeOK, SentBelow, Instant

\* What a host is compacting stays as it was captured, or is dropped.
Batched ==
  /\ DOMAIN batch = Host
  /\ \A h \in Host : batch[h] = None \/
       /\ batch[h].contextGeneration \in Instant
       /\ IsCheckpoint(batch[h].previous)
       /\ batch[h].observations \subseteq Observation
       /\ batch[h].explanations \subseteq Instant /\ batch[h].ordinals \subseteq Nat

\* A step that captures nothing keeps it.
LEMMA BatchedStays ==
  ASSUME TypeOK, DOMAIN batch' = Host,
         \A h \in Host : batch'[h] = None \/ batch'[h] = batch[h]
  PROVE  Batched'
<1>1. ASSUME NEW h \in Host, batch'[h] # None
      PROVE  /\ batch'[h].contextGeneration \in Instant
             /\ IsCheckpoint(batch'[h].previous)
             /\ batch'[h].observations \subseteq Observation
             /\ batch'[h].explanations \subseteq Instant
             /\ batch'[h].ordinals \subseteq Nat
  <2>1. batch'[h] = batch[h] /\ batch[h] # None
    BY <1>1
  <2> QED
    BY <2>1 DEF TypeOK
<1> QED
  BY <1>1 DEF Batched

\* A step that leaves the rest alone keeps the type of what it changes.
LEMMA ClearTypes == ASSUME TypeOK, NEW h \in Host, Clear(h) PROVE TypeOK'
<1> USE DEF inputVars, checkpointVars, profileVars, leaseVars, Instant
<1>1. storeRevision' = storeRevision + 1 /\ storeRevision' \in Instant
  BY BoundAssumption DEF Clear, TypeOK
<1>2. /\ 0 \in Instant /\ GenerationOf(None) = 0
      /\ UNCHANGED <<clock, owner, running, batch, sent>>
  BY BoundAssumption DEF Clear, GenerationOf
<1>3. DeleteAll /\ contextGeneration' = 0
  BY DEF Clear
<1>4. IsCheckpoint(checkpoint') /\ GenerationOf(checkpoint') = 0
  BY <1>3 DEF DeleteAll, IsCheckpoint, GenerationOf
<1>5. /\ observations' \subseteq Observation
      /\ entries' \in Seq([explanation: Instant, at: Instant])
      /\ active' \cup closed' \subseteq Instant /\ active' \cap closed' = {}
      /\ override' \in [Field -> Request \cup {None}]
      /\ suppressed' \in [Field -> Instant \cup {None}]
      /\ events' \in Seq([request: Request, at: Instant])
  BY <1>3 DEF DeleteAll
<1>6. Batched' /\ SentBelow'
  BY <1>1, <1>2, BatchedStays, SentStaysBelow DEF TypeOK, Instant
<1> QED
  BY <1>1, <1>2, <1>3, <1>4, <1>5, <1>6, BoundAssumption DEF TypeOK, Batched, SentBelow

\* A batch is made of what the store holds.
LEMMA CaptureTypes ==
  ASSUME TypeOK, NEW h \in Host, NEW O \in SUBSET UncoveredObservations,
         NEW E \in SUBSET ClosedExplanations, Capture(h, O, E)
  PROVE  TypeOK'
<1> USE DEF inputVars, checkpointVars, profileVars, leaseVars
<1>1. /\ O \subseteq Observation /\ E \subseteq Instant
  BY DEF TypeOK, UncoveredObservations, ClosedExplanations
<1>2. Ordinals(E) \subseteq Nat
  BY DEF TypeOK, Ordinals
<1>3. /\ DOMAIN batch' = Host
      /\ batch'[h].contextGeneration = contextGeneration
      /\ batch'[h].previous = checkpoint
      /\ batch'[h].observations = O /\ batch'[h].explanations = E
      /\ batch'[h].ordinals = Ordinals(E)
      /\ \A g \in Host : g # h => batch'[g] = batch[g]
  BY DEF Capture, TypeOK
<1> QED
  BY <1>1, <1>2, <1>3 DEF Capture, TypeOK, GenerationOf, IsCheckpoint, Instant

\* The new checkpoint cites what its batch and its predecessor allow, and is a
\* checkpoint for the next one.
LEMMA CommitTypes ==
  ASSUME TypeOK, NEW h \in Host, batch[h] # None,
         NEW profile \in Profiles(batch[h]), CommitCheckpoint(h, profile)
  PROVE  /\ TypeOK'
         /\ checkpoint' # None /\ checkpoint'.profile = profile
         /\ GenerationOf(checkpoint') = GenerationOf(checkpoint) + 1
<1> USE DEF inputVars, checkpointVars, profileVars, leaseVars
<1> DEFINE b == batch[h]
           next == [generation |-> GenerationOf(checkpoint) + 1, at |-> clock + 1,
                    profile |-> profile]
<1>1. /\ GenerationOf(checkpoint) \in Nat /\ GenerationOf(checkpoint) <= storeRevision
      /\ clock \in Nat /\ storeRevision \in Nat /\ storeRevision < MaxRevision
      /\ clock <= storeRevision
  BY EvidenceTypes, BoundAssumption DEF TypeOK, Instant, CommitCheckpoint
<1>2. /\ next.generation \in 1..MaxRevision /\ next.at \in Instant
  BY <1>1, BoundAssumption DEF Instant
<1>3. /\ checkpoint' = next /\ clock' = clock + 1 /\ storeRevision' = storeRevision + 1
      /\ batch' = [batch EXCEPT ![h] = None]
      /\ UNCHANGED <<inputVars, profileVars, contextGeneration, leaseVars, sent>>
      /\ Exists(EvidenceOf(next))
  BY DEF CommitCheckpoint
<1>4. \E D \in SUBSET Dimension : next \in Checkpoint(D)
  <2> USE DEF Evidence
  <2>1. PICK D \in SUBSET Dimension :
          profile \in [D -> [observations: Cited(Allowed(b).observations),
                             ordinals: Cited(Allowed(b).ordinals)]]
    BY DEF Profiles
  <2>2. /\ b.observations \subseteq Observation /\ b.ordinals \subseteq Nat
        /\ IsCheckpoint(b.previous)
    BY DEF TypeOK
  <2>3. /\ Allowed(b).observations \subseteq Observation
        /\ Allowed(b).ordinals \subseteq Nat
    BY <2>2, EvidenceTypes DEF Allowed
  <2>4. profile \in [D -> Evidence]
    BY <2>1, <2>3 DEF Cited
  <2> QED
    BY <1>2, <2>4 DEF Checkpoint
<1>5. next # None
  BY <1>4, CheckpointAssumption
<1>6. GenerationOf(checkpoint') = GenerationOf(checkpoint) + 1
  BY <1>3, <1>5 DEF GenerationOf
<1>7. /\ clock' \in Instant /\ storeRevision' \in Instant
      /\ storeRevision <= storeRevision' /\ clock' <= storeRevision'
      /\ contextGeneration' \in Instant /\ contextGeneration' <= storeRevision'
      /\ GenerationOf(checkpoint') <= storeRevision'
  BY <1>1, <1>2, <1>3, <1>6, BoundAssumption DEF TypeOK, Instant
<1>8. IsCheckpoint(checkpoint')
  BY <1>3, <1>4 DEF IsCheckpoint
<1>9. /\ DOMAIN batch' = Host
      /\ \A g \in Host : batch'[g] = None \/ batch'[g] = batch[g]
  BY <1>3 DEF TypeOK
<1>10. Batched' /\ SentBelow'
  BY <1>3, <1>7, <1>9, BatchedStays, SentStaysBelow
<1> QED
  BY <1>3, <1>5, <1>6, <1>7, <1>8, <1>10 DEF TypeOK, Batched, SentBelow

\* A compaction that fails and a host that comes or goes write nothing.
LEMMA HostTypes ==
  ASSUME TypeOK, NEW h \in Host, CompactionFails(h) \/ TakesOver(h) \/ Notices(h)
  PROVE  TypeOK'
<1> USE DEF inputVars, checkpointVars, profileVars, leaseVars
<1>1. /\ UNCHANGED <<inputVars, checkpointVars, profileVars, contextGeneration,
                     storeRevision, clock, sent>>
      /\ owner' \in running' /\ running' \subseteq Host
  BY DEF CompactionFails, TakesOver, Notices, TypeOK
<1>2. /\ DOMAIN batch' = Host
      /\ \A g \in Host : batch'[g] = None \/ batch'[g] = batch[g]
  BY DEF CompactionFails, TakesOver, Notices, TypeOK
<1>3. Batched' /\ SentBelow'
  BY <1>1, <1>2, BatchedStays, SentStaysBelow, BoundAssumption DEF TypeOK, Instant
<1>4. IsCheckpoint(checkpoint') /\ GenerationOf(checkpoint') <= storeRevision'
  BY <1>1 DEF TypeOK
<1> QED
  BY <1>1, <1>3, <1>4 DEF TypeOK, Batched, SentBelow

\* Whoever commits one more revision is within the bounds.
LEMMA Advanced ==
  ASSUME TypeOK, storeRevision < MaxRevision, storeRevision' = storeRevision + 1,
         clock' \in {clock, clock + 1},
         contextGeneration' \in {contextGeneration, contextGeneration + 1},
         UNCHANGED <<checkpointVars, batch>>
  PROVE  /\ clock' \in Instant /\ storeRevision' \in Instant /\ clock' <= storeRevision'
         /\ storeRevision <= storeRevision' /\ clock <= clock'
         /\ contextGeneration' \in Instant /\ contextGeneration' <= storeRevision'
         /\ IsCheckpoint(checkpoint') /\ GenerationOf(checkpoint') <= storeRevision'
         /\ Batched'
<1>1. GenerationOf(checkpoint) \in Nat
  BY EvidenceTypes DEF TypeOK
<1>2. Batched'
  BY BatchedStays DEF TypeOK
<1>3. checkpoint' = checkpoint
  BY DEF checkpointVars
<1>4. IsCheckpoint(checkpoint) /\ GenerationOf(checkpoint) <= storeRevision
  BY DEF TypeOK
<1>5. GenerationOf(checkpoint') <= storeRevision'
  BY <1>1, <1>3, <1>4, BoundAssumption DEF TypeOK, Instant
<1> QED
  BY <1>2, <1>3, <1>4, <1>5, BoundAssumption DEF TypeOK, Instant

\* A decision's explanation and observations have an instant of their own.
LEMMA DecideTypes ==
  ASSUME TypeOK, Clocked, NEW h \in Host, NEW fields \in SUBSET Field, NEW explains \in BOOLEAN,
         Decide(h, fields, explains)
  PROVE  TypeOK'
<1> USE DEF leaseVars, profileVars
<1>1. /\ storeRevision' = storeRevision + 1 /\ clock' = clock + 1
      /\ UNCHANGED <<closed, checkpointVars, profileVars, leaseVars, batch, sent>>
      /\ contextGeneration' \in {contextGeneration, contextGeneration + 1}
      /\ storeRevision < MaxRevision
  BY DEF Decide
<1>2. /\ clock' \in Instant /\ storeRevision' \in Instant /\ clock' <= storeRevision'
      /\ storeRevision <= storeRevision'
      /\ contextGeneration' \in Instant /\ contextGeneration' <= storeRevision'
      /\ IsCheckpoint(checkpoint') /\ GenerationOf(checkpoint') <= storeRevision'
      /\ Batched'
  BY <1>1, Advanced
<1>3. SentBelow'
  BY <1>1, <1>2, SentStaysBelow
<1>4. observations' \subseteq Observation
  <2>1. observations' = observations \cup [field: fields, at: {clock + 1}]
    BY DEF Decide
  <2>2. [field: fields, at: {clock + 1}] \subseteq Observation
    BY <1>1, <1>2 DEF Observation
  <2> QED
    BY <2>1, <2>2 DEF TypeOK
<1>5. entries' \in Seq([explanation: Instant, at: Instant])
  <2>1. [explanation |-> clock + 1, at |-> clock + 1] \in [explanation: Instant, at: Instant]
    BY <1>1, <1>2
  <2>2. entries \in Seq([explanation: Instant, at: Instant])
    BY DEF TypeOK
  <2>3. \/ entries' = entries
        \/ entries' = Append(entries, [explanation |-> clock + 1, at |-> clock + 1])
    BY DEF Decide
  <2>4. Append(entries, [explanation |-> clock + 1, at |-> clock + 1])
          \in Seq([explanation: Instant, at: Instant])
    BY <2>1, <2>2, AppendProperties
  <2> QED
    BY <2>2, <2>3, <2>4
<1>6. /\ active' \cup closed' \subseteq Instant /\ active' \cap closed' = {}
  <2>1. clock + 1 \notin closed
    BY BoundAssumption DEF Clocked, TypeOK, Instant
  <2> QED
    BY <1>1, <1>2, <2>1 DEF Decide, TypeOK
<1> QED
  BY <1>1, <1>2, <1>3, <1>4, <1>5, <1>6 DEF TypeOK, Batched, SentBelow

\* A learner acts at the instant of the last write or at the next.
LEMMA LaterIsSoon ==
  ASSUME clock \in Nat, NEW t \in Later
  PROVE  t \in {clock, clock + 1}
<1>1. PICK d \in Delay : t = clock + d
  BY DEF Later
<1> QED
  BY <1>1, DelayAssumption

\* Feedback moves an explanation from the active to the closed.
LEMMA UnderstoodTypes ==
  ASSUME TypeOK, NEW e \in active, Understood(e)
  PROVE  TypeOK'
<1> USE DEF leaseVars, profileVars
<1>1. /\ storeRevision' = storeRevision + 1 /\ clock' \in {clock, clock + 1}
      /\ UNCHANGED <<observations, checkpointVars, profileVars, leaseVars, batch, sent>>
      /\ contextGeneration' = contextGeneration + 1
      /\ storeRevision < MaxRevision
  <2>1. clock' \in {clock, clock + 1}
    BY LaterIsSoon DEF Understood, TypeOK, Instant
  <2> QED
    BY <2>1 DEF Understood
<1>2. /\ clock' \in Instant /\ storeRevision' \in Instant /\ clock' <= storeRevision'
      /\ storeRevision <= storeRevision'
      /\ contextGeneration' \in Instant /\ contextGeneration' <= storeRevision'
      /\ IsCheckpoint(checkpoint') /\ GenerationOf(checkpoint') <= storeRevision'
      /\ Batched'
  BY <1>1, Advanced
<1>3. SentBelow'
  BY <1>1, <1>2, SentStaysBelow
<1>4. entries' \in Seq([explanation: Instant, at: Instant])
  BY <1>1, <1>2 DEF Understood, TypeOK
<1>5. /\ active' \cup closed' \subseteq Instant /\ active' \cap closed' = {}
  BY DEF Understood, TypeOK
<1> QED
  BY <1>1, <1>2, <1>3, <1>4, <1>5 DEF TypeOK, Batched, SentBelow

\* What an edit that is sent for the first time may be.
LEMMA EditTypes ==
  ASSUME NEW r \in Request, NEW edit \in Edits(r), sent[r] = None
  PROVE  /\ edit.field \in Field /\ edit.expected = storeRevision
         /\ \/ edit.action = "set" /\ edit.authority \in {"correction", "explicit"}
            \/ edit.action = "forget" /\ edit.authority = None
BY DEF Edits

\* A request that has been answered is not at the revision it names any more.
LEMMA AcceptedOnce ==
  ASSUME TypeOK, NEW r \in Request, NEW edit \in Edits(r), UpdateLearnerProfile(r, edit)
  PROVE  sent[r] = None
<1> SUFFICES ASSUME sent[r] # None PROVE FALSE
  OBVIOUS
<1>1. edit = sent[r]
  BY DEF Edits
<1> QED
  BY <1>1, BoundAssumption DEF UpdateLearnerProfile, Current, TypeOK, Instant

\* An accepted edit changes the profile and leaves the rest alone.
LEMMA UpdateTypes ==
  ASSUME TypeOK, DOMAIN sent = Request,
         NEW r \in Request, NEW edit \in Edits(r), UpdateLearnerProfile(r, edit)
  PROVE  TypeOK'
<1> USE DEF leaseVars, inputVars
<1>1. /\ storeRevision' = storeRevision + 1 /\ clock' \in {clock, clock + 1}
      /\ UNCHANGED <<inputVars, checkpointVars, leaseVars, batch>>
      /\ contextGeneration' = contextGeneration + 1
      /\ storeRevision < MaxRevision
  <2>1. clock' \in Later
    BY DEF UpdateLearnerProfile
  <2>2. clock' \in {clock, clock + 1}
    BY <2>1, LaterIsSoon DEF TypeOK, Instant
  <2> QED
    BY <2>2 DEF UpdateLearnerProfile
<1>2. /\ clock' \in Instant /\ storeRevision' \in Instant /\ clock' <= storeRevision'
      /\ storeRevision <= storeRevision'
      /\ contextGeneration' \in Instant /\ contextGeneration' <= storeRevision'
      /\ IsCheckpoint(checkpoint') /\ GenerationOf(checkpoint') <= storeRevision'
      /\ Batched'
  BY <1>1, Advanced
<1>3. edit.field \in Field /\ edit.expected = storeRevision
  BY AcceptedOnce, EditTypes
<1>4. SentBelow'
  <2>1. sent' = [sent EXCEPT ![r] = edit]
    BY DEF UpdateLearnerProfile
  <2>2. ASSUME NEW q \in Request
        PROVE  sent'[q] # None =>
                 sent'[q].expected \in Instant /\ sent'[q].expected < storeRevision'
    BY <1>1, <1>2, <1>3, <2>1, BoundAssumption DEF TypeOK, Instant
  <2> QED
    BY <2>2 DEF SentBelow
<1>5. override' \in [Field -> Request \cup {None}]
  BY DEF UpdateLearnerProfile, Set, Forget, TypeOK
<1>6. suppressed' \in [Field -> Instant \cup {None}]
  BY <1>2 DEF UpdateLearnerProfile, Set, Forget, TypeOK
<1>7. events' \in Seq([request: Request, at: Instant])
  BY <1>2 DEF UpdateLearnerProfile, TypeOK
<1> QED
  BY <1>1, <1>2, <1>4, <1>5, <1>6, <1>7 DEF TypeOK, Batched, SentBelow

\* The empty store has its types.
LEMMA InitTypes == Init => TypeOK /\ Clocked /\ DOMAIN sent = Request
<1> SUFFICES ASSUME Init PROVE TypeOK /\ Clocked /\ DOMAIN sent = Request
  OBVIOUS
<1>1. IsCheckpoint(checkpoint) /\ GenerationOf(checkpoint) = 0
  BY DEF Init, IsCheckpoint, GenerationOf
<1>2. TypeOK
  BY <1>1, BoundAssumption DEF Init, TypeOK, Instant
<1> QED
  BY <1>2 DEF Init, Clocked

\* Every step keeps the types.
LEMMA TypeStep ==
  ASSUME TypeOK, Clocked, DOMAIN sent = Request, [Next]_vars
  PROVE  TypeOK' /\ DOMAIN sent' = Request
<1>1. DOMAIN sent' = Request
  <2>1. \/ UNCHANGED sent
        \/ \E r \in Request : \E edit \in Edits(r) : UpdateLearnerProfile(r, edit)
    BY Steps DEF Capture, CommitCheckpoint, CompactionFails, TakesOver, Notices, Clear,
                 Decide, Understood, vars
  <2>2. ASSUME NEW r \in Request, NEW edit \in Edits(r), UpdateLearnerProfile(r, edit)
        PROVE  DOMAIN sent' = Request
    BY <2>2 DEF UpdateLearnerProfile
  <2> QED
    BY <2>1, <2>2
<1>2. CASE UNCHANGED vars
  <2>1. UNCHANGED <<observations, entries, active, closed, checkpoint, override, suppressed,
                    events, contextGeneration, storeRevision, clock, owner, running,
                    batch, sent>>
    BY <1>2 DEF vars, inputVars, checkpointVars, profileVars, leaseVars
  <2>2. Batched' /\ SentBelow'
    BY <2>1, BatchedStays, SentStaysBelow, BoundAssumption DEF TypeOK, Instant
  <2>3. IsCheckpoint(checkpoint') /\ GenerationOf(checkpoint') <= storeRevision'
    BY <2>1 DEF TypeOK
  <2> QED
    BY <2>1, <2>2, <2>3 DEF TypeOK, Batched, SentBelow
<1> QED
  BY <1>1, <1>2, Steps, CaptureTypes, CommitTypes, HostTypes, ClearTypes, DecideTypes,
     UnderstoodTypes, UpdateTypes

\* An audit event names its request and its instant.
LEMMA EventTypes ==
  ASSUME TypeOK, NEW i \in DOMAIN events
  PROVE  events[i].request \in Request /\ events[i].at \in Instant
<1>1. events \in Seq([request: Request, at: Instant])
  BY DEF TypeOK
<1>2. i \in 1..Len(events)
  BY <1>1
<1>3. events[i] \in [request: Request, at: Instant]
  BY <1>1, <1>2, ElementOfSeq
<1> QED
  BY <1>3

\* Time goes on, and a batch is dropped or stays as it is.
LEMMA ClockedStays ==
  ASSUME TypeOK, Clocked, clock' \in Nat, clock <= clock',
         \A o \in observations' : o \in observations \/ o.at = clock',
         \A e \in active' \cup closed' : e \in active \cup closed \/ e = clock',
         \A i \in DOMAIN events' :
           (i \in DOMAIN events /\ events'[i] = events[i]) \/ events'[i].at = clock',
         \A h \in Host : batch'[h] = None \/ batch'[h] = batch[h]
  PROVE  Clocked'
<1>1. clock \in Nat
  BY BoundAssumption DEF TypeOK, Instant
<1>2. \A o \in observations' : o.at <= clock'
  BY <1>1 DEF TypeOK, Clocked, Observation, Instant
<1>3. \A e \in active' \cup closed' : e <= clock'
  BY <1>1 DEF TypeOK, Clocked, Instant
<1>4. \A i \in DOMAIN events' : events'[i].at <= clock'
  <2>1. \A i \in DOMAIN events : events[i].at \in Nat
    BY EventTypes, BoundAssumption DEF Instant
  <2> QED
    BY <1>1, <2>1 DEF Clocked
<1>5. ASSUME NEW h \in Host, batch'[h] # None
      PROVE  /\ \A o \in batch'[h].observations : o.at <= clock'
             /\ \A x \in batch'[h].explanations : x <= clock'
  <2>1. batch'[h] = batch[h] /\ batch[h] # None
    BY <1>5
  <2>2. /\ batch[h].observations \subseteq Observation /\ batch[h].explanations \subseteq Instant
        /\ \A o \in batch[h].observations : o.at <= clock
        /\ \A x \in batch[h].explanations : x <= clock
    BY <2>1 DEF TypeOK, Clocked
  <2> QED
    BY <1>1, <2>1, <2>2 DEF Observation, Instant
<1> QED
  BY <1>2, <1>3, <1>4, <1>5 DEF Clocked

\* Every step keeps the store in the past.
LEMMA ClockedStep ==
  ASSUME TypeOK, Clocked, [Next]_vars
  PROVE  Clocked'
<1> USE DEF inputVars, checkpointVars, profileVars, leaseVars
<1>0. clock \in Nat
  BY BoundAssumption DEF TypeOK, Instant
<1>1. ASSUME NEW h \in Host, NEW O \in SUBSET UncoveredObservations,
             NEW E \in SUBSET ClosedExplanations, Capture(h, O, E)
      PROVE  Clocked'
  <2>1. O \subseteq observations /\ E \subseteq closed
    BY DEF UncoveredObservations, ClosedExplanations
  <2>2. /\ batch'[h].observations = O /\ batch'[h].explanations = E
        /\ \A g \in Host : g # h => batch'[g] = batch[g]
        /\ UNCHANGED <<observations, active, closed, events, clock>>
    BY <1>1 DEF Capture, TypeOK
  <2>3. ASSUME NEW g \in Host, batch'[g] # None
        PROVE  /\ \A o \in batch'[g].observations : o.at <= clock'
               /\ \A x \in batch'[g].explanations : x <= clock'
    <3>1. CASE g = h
      BY <2>1, <2>2, <3>1 DEF Clocked
    <3>2. CASE g # h
      BY <2>2, <2>3, <3>2 DEF Clocked
    <3> QED
      BY <3>1, <3>2
  <2> QED
    BY <2>2, <2>3 DEF Clocked
<1>2. ASSUME NEW h \in Host, NEW profile, CommitCheckpoint(h, profile)
      PROVE  Clocked'
  BY <1>0, <1>2, ClockedStays DEF CommitCheckpoint, TypeOK
<1>3. ASSUME NEW h \in Host, CompactionFails(h) \/ TakesOver(h) \/ Notices(h)
      PROVE  Clocked'
  BY <1>0, <1>3, ClockedStays DEF CompactionFails, TakesOver, Notices, TypeOK
<1>4. ASSUME NEW h \in Host, Clear(h)
      PROVE  Clocked'
  BY <1>0, <1>4, ClockedStays DEF Clear, DeleteAll
<1>5. ASSUME NEW h \in Host, NEW fields \in SUBSET Field, NEW explains \in BOOLEAN,
             Decide(h, fields, explains)
      PROVE  Clocked'
  BY <1>0, <1>5, ClockedStays DEF Decide
<1>6. ASSUME NEW e \in active, Understood(e)
      PROVE  Clocked'
  <2>1. clock' \in {clock, clock + 1}
    BY <1>0, <1>6, LaterIsSoon DEF Understood
  <2> QED
    BY <1>0, <1>6, <2>1, ClockedStays DEF Understood
<1>7. ASSUME NEW r \in Request, NEW edit \in Edits(r), UpdateLearnerProfile(r, edit)
      PROVE  Clocked'
  <2>1. clock' \in {clock, clock + 1}
    BY <1>0, <1>7, LaterIsSoon DEF UpdateLearnerProfile
  <2>2. events \in Seq([request: Request, at: Instant])
    BY DEF TypeOK
  <2>3. \A i \in DOMAIN events' :
          (i \in DOMAIN events /\ events'[i] = events[i]) \/ events'[i].at = clock'
    BY <1>7, <2>2 DEF UpdateLearnerProfile
  <2> QED
    BY <1>0, <1>7, <2>1, <2>3, ClockedStays DEF UpdateLearnerProfile
<1>8. CASE UNCHANGED vars
  BY <1>0, <1>8, ClockedStays DEF vars
<1> QED
  BY <1>1, <1>2, <1>3, <1>4, <1>5, <1>6, <1>7, <1>8, Steps

\* Observations, explanations, profile, lease and compactions have their types
\* in every reachable state (schema.ts:79-110 and 186-221).
THEOREM Types == Spec => []TypeOK
<1>1. TypeOK /\ Clocked /\ DOMAIN sent = Request /\ [Next]_vars
        => (TypeOK /\ Clocked /\ DOMAIN sent = Request)'
  BY TypeStep, ClockedStep
<1> QED
  BY <1>1, InitTypes, PTL DEF Spec

-----------------------------------------------------------------------------
(* Compactions and clears. A batch that still touches the store was captured  *)
(* since the last clear, so its numbers mean what they meant then; one from   *)
(* before the clear touches nothing, and nothing it names comes back.         *)

\* What a batch of the present era says of the generations and checkpoints.
OfThisEra(b) ==
  /\ b.contextGeneration <= contextGeneration
  /\ b.contextGeneration = contextGeneration => b.controls = Controls
  /\ GenerationOf(b.previous) <= GenerationOf(checkpoint)
  /\ SamePrevious(b) => b.previous = checkpoint /\ CoveredOnce(b)
  /\ b.ordinals \subseteq Ordinals(b.explanations)

\* A batch names something that is still in the store.
Touches(b) ==
  b.observations \cap observations # {} \/ b.explanations \cap closed # {}

\* A batch is of the present era or touches nothing.
Eras ==
  \A h \in Host : batch[h] # None =>
    /\ batch[h].observations # {} \/ batch[h].explanations # {}
    /\ batch[h].explanations \cap active = {}
    /\ Touches(batch[h]) => OfThisEra(batch[h])

\* A step that brings back nothing a batch names, and that counts every change
\* of the context and every checkpoint, keeps the batches in their eras.
LEMMA EraKept ==
  ASSUME TypeOK, Eras,
         \A h \in Host : batch'[h] = None \/ batch'[h] = batch[h],
         \A h \in Host : batch[h] # None =>
           /\ batch[h].observations \cap observations' \subseteq observations
           /\ batch[h].explanations \cap closed' \subseteq closed
           /\ batch[h].explanations \cap active' = {},
         contextGeneration' \in Nat, contextGeneration <= contextGeneration',
         contextGeneration' = contextGeneration => Controls' = Controls,
         \/ UNCHANGED checkpointVars
         \/ /\ GenerationOf(checkpoint') = GenerationOf(checkpoint) + 1,
         DOMAIN entries \subseteq DOMAIN entries',
         \A i \in DOMAIN entries : entries'[i] = entries[i]
  PROVE  Eras'
<1> SUFFICES ASSUME NEW h \in Host, batch'[h] # None
             PROVE  /\ batch'[h].observations # {} \/ batch'[h].explanations # {}
                    /\ batch'[h].explanations \cap active' = {}
                    /\ Touches(batch[h])' => OfThisEra(batch[h])'
  BY DEF Eras
<1> DEFINE b == batch[h]
<1>1. batch'[h] = b /\ b # None
  OBVIOUS
<1>2. /\ b.observations # {} \/ b.explanations # {}
      /\ b.explanations \cap active' = {}
      /\ Touches(b) => OfThisEra(b)
  BY <1>1 DEF Eras
<1>3. /\ b.contextGeneration \in Nat /\ contextGeneration \in Nat
      /\ GenerationOf(b.previous) \in Nat /\ GenerationOf(checkpoint) \in Nat
  BY <1>1, EvidenceTypes, BoundAssumption DEF TypeOK, Instant
<1>4. ASSUME Touches(batch[h])'
      PROVE  OfThisEra(batch[h])'
  <2>1. b.observations \cap observations' # {} \/ b.explanations \cap closed' # {}
    BY <1>1, <1>4 DEF Touches
  <2>2. Touches(b)
    BY <1>1, <2>1 DEF Touches
  <2>3. OfThisEra(b)
    BY <1>2, <2>2
  <2>4. /\ b.contextGeneration <= contextGeneration'
        /\ b.contextGeneration = contextGeneration' => b.controls = Controls'
    BY <1>3, <2>3 DEF OfThisEra
  <2>5. b.ordinals \subseteq {i \in DOMAIN entries' : entries'[i].explanation \in b.explanations}
    BY <2>3 DEF OfThisEra, Ordinals
  <2>6. CASE UNCHANGED checkpointVars
    <3>1. UNCHANGED <<checkpoint, observationCoverage, contextCoverage>>
      BY <2>6 DEF checkpointVars
    <3> QED
      BY <1>1, <2>3, <2>4, <2>5, <3>1 DEF OfThisEra, SamePrevious, CoveredOnce, Ordinals
  <2>7. CASE GenerationOf(checkpoint') = GenerationOf(checkpoint) + 1
    <3>1. /\ GenerationOf(b.previous) <= GenerationOf(checkpoint')
          /\ GenerationOf(b.previous) # GenerationOf(checkpoint')
      BY <1>3, <2>3, <2>7 DEF OfThisEra
    <3> QED
      BY <1>1, <2>4, <2>5, <3>1 DEF OfThisEra, SamePrevious, Ordinals
  <2> QED
    BY <2>6, <2>7
<1> QED
  BY <1>1, <1>2, <1>4

\* Log entries are only ever added, between two clears.
LEMMA EntriesGrow ==
  ASSUME TypeOK, NEW e, entries' = entries \/ entries' = Append(entries, e)
  PROVE  /\ DOMAIN entries \subseteq DOMAIN entries'
         /\ \A i \in DOMAIN entries : entries'[i] = entries[i]
<1>1. entries \in Seq([explanation: Instant, at: Instant])
  BY DEF TypeOK
<1>2. CASE entries' = Append(entries, e)
  BY <1>1, <1>2
<1> QED
  BY <1>2

\* Every step keeps the batches in their eras.
LEMMA EraStep ==
  ASSUME TypeOK, Clocked, Eras, [Next]_vars
  PROVE  Eras'
<1> USE DEF inputVars, checkpointVars, profileVars, leaseVars
<1>0. clock \in Nat /\ contextGeneration \in Nat
  BY BoundAssumption DEF TypeOK, Instant
<1>1. \A h \in Host : batch[h] # None => batch[h].explanations \cap active = {}
  BY DEF Eras
<1>2. ASSUME NEW h \in Host, NEW O \in SUBSET UncoveredObservations,
             NEW E \in SUBSET ClosedExplanations, Capture(h, O, E)
      PROVE  Eras'
  <2>1. /\ O \cap observationCoverage = {}
        /\ E \subseteq closed /\ E \cap contextCoverage = {}
        /\ O # {} \/ E # {}
    BY <1>2 DEF Capture, Fits, UncoveredObservations, ClosedExplanations
  <2>2. /\ UNCHANGED <<inputVars, checkpointVars, profileVars, contextGeneration>>
        /\ batch' = [batch EXCEPT ![h] =
             [contextGeneration |-> contextGeneration, previous |-> checkpoint,
              observations |-> O, explanations |-> E, ordinals |-> Ordinals(E),
              controls |-> Controls]]
        /\ h \in DOMAIN batch
    BY <1>2 DEF Capture, TypeOK
  <2>3. /\ batch'[h].observations = O /\ batch'[h].explanations = E
        /\ batch'[h].contextGeneration = contextGeneration
        /\ batch'[h].previous = checkpoint /\ batch'[h].controls = Controls
        /\ batch'[h].ordinals = Ordinals(E)
    BY <2>2
  <2>4. \A g \in Host : g # h => batch'[g] = batch[g]
    BY <2>2
  <2>5. Controls' = Controls
    BY <2>2 DEF Controls
  <2>6. OfThisEra(batch[h])'
    <3>1. GenerationOf(checkpoint) \in Nat
      BY EvidenceTypes DEF TypeOK
    <3> QED
      BY <1>0, <2>1, <2>2, <2>3, <2>5, <3>1
         DEF OfThisEra, SamePrevious, CoveredOnce, Ordinals
  <2>7. ASSUME NEW g \in Host, batch'[g] # None
        PROVE  /\ batch'[g].observations # {} \/ batch'[g].explanations # {}
               /\ batch'[g].explanations \cap active' = {}
               /\ Touches(batch[g])' => OfThisEra(batch[g])'
    <3>1. CASE g = h
      BY <2>1, <2>2, <2>3, <2>6, <3>1 DEF TypeOK
    <3>2. CASE g # h
      <4>1. batch'[g] = batch[g]
        BY <2>4, <3>2
      <4>2. Touches(batch[g])' = Touches(batch[g])
        BY <2>2, <4>1 DEF Touches
      <4>3. OfThisEra(batch[g])' = OfThisEra(batch[g])
        BY <2>2, <2>5, <4>1 DEF OfThisEra, SamePrevious, CoveredOnce, Ordinals
      <4> QED
        BY <2>2, <2>7, <4>1, <4>2, <4>3 DEF Eras
    <3> QED
      BY <3>1, <3>2
  <2> QED
    BY <2>7 DEF Eras
<1>3. ASSUME NEW h \in Host, batch[h] # None, NEW profile \in Profiles(batch[h]),
             CommitCheckpoint(h, profile)
      PROVE  Eras'
  <2>1. GenerationOf(checkpoint') = GenerationOf(checkpoint) + 1
    BY <1>3, CommitTypes
  <2>2. \A g \in Host : batch'[g] = None \/ batch'[g] = batch[g]
    BY <1>3 DEF CommitCheckpoint, TypeOK
  <2>3. UNCHANGED <<inputVars, profileVars, contextGeneration>>
    BY <1>3 DEF CommitCheckpoint
  <2> QED
    BY <1>0, <1>1, <2>1, <2>2, <2>3, EraKept DEF Controls
<1>4. ASSUME NEW h \in Host, CompactionFails(h) \/ TakesOver(h) \/ Notices(h)
      PROVE  Eras'
  <2>1. \A g \in Host : batch'[g] = None \/ batch'[g] = batch[g]
    BY <1>4 DEF CompactionFails, TakesOver, Notices, TypeOK
  <2>2. UNCHANGED <<inputVars, checkpointVars, profileVars, contextGeneration>>
    BY <1>4 DEF CompactionFails, TakesOver, Notices
  <2> QED
    BY <1>0, <1>1, <2>1, <2>2, EraKept DEF Controls
<1>5. ASSUME NEW h \in Host, Clear(h)
      PROVE  Eras'
  <2>1. observations' = {} /\ closed' = {} /\ active' = {} /\ batch' = batch
    BY <1>5 DEF Clear, DeleteAll
  <2> QED
    BY <2>1 DEF Eras, Touches
<1>6. ASSUME NEW h \in Host, NEW fields \in SUBSET Field, NEW explains \in BOOLEAN,
             Decide(h, fields, explains)
      PROVE  Eras'
  <2>1. \A g \in Host : batch[g] # None =>
          /\ \A o \in batch[g].observations : o.at <= clock
          /\ \A x \in batch[g].explanations : x <= clock
    BY DEF Clocked
  <2>2. /\ observations' = observations \cup [field: fields, at: {clock + 1}]
        /\ active' \subseteq active \cup {clock + 1}
        /\ contextGeneration' = IF fields # {} THEN contextGeneration + 1
                                ELSE contextGeneration
        /\ UNCHANGED <<closed, checkpointVars, profileVars, batch>>
        /\ \/ entries' = entries
           \/ entries' = Append(entries, [explanation |-> clock + 1, at |-> clock + 1])
    BY <1>6 DEF Decide
  <2>3. \A o \in observations' : o \in observations \/ o.at = clock + 1
    BY <2>2
  <2>4. \A g \in Host : batch[g] # None =>
          /\ batch[g].observations \cap observations' \subseteq observations
          /\ batch[g].explanations \cap closed' \subseteq closed
          /\ batch[g].explanations \cap active' = {}
    BY <1>0, <1>1, <2>1, <2>2, <2>3
  <2>5. /\ DOMAIN entries \subseteq DOMAIN entries'
        /\ \A i \in DOMAIN entries : entries'[i] = entries[i]
    BY <2>2, EntriesGrow
  <2> QED
    BY <1>0, <2>2, <2>4, <2>5, EraKept DEF Controls
<1>7. ASSUME NEW e \in active, Understood(e)
      PROVE  Eras'
  <2>1. /\ entries' = Append(entries, [explanation |-> e, at |-> clock'])
        /\ active' \subseteq active /\ closed' = closed \cup {e}
        /\ contextGeneration' = contextGeneration + 1
        /\ UNCHANGED <<observations, checkpointVars, profileVars, batch>>
    BY <1>7 DEF Understood
  <2>2. /\ DOMAIN entries \subseteq DOMAIN entries'
        /\ \A i \in DOMAIN entries : entries'[i] = entries[i]
    BY <2>1, EntriesGrow
  <2>3. \A g \in Host : batch[g] # None =>
          /\ batch[g].observations \cap observations' \subseteq observations
          /\ batch[g].explanations \cap closed' \subseteq closed
          /\ batch[g].explanations \cap active' = {}
    BY <1>1, <2>1
  <2> QED
    BY <1>0, <2>1, <2>2, <2>3, EraKept
<1>8. ASSUME NEW r \in Request, NEW edit \in Edits(r), UpdateLearnerProfile(r, edit)
      PROVE  Eras'
  <2>1. /\ contextGeneration' = contextGeneration + 1
        /\ UNCHANGED <<inputVars, checkpointVars, batch>>
    BY <1>8 DEF UpdateLearnerProfile
  <2> QED
    BY <1>0, <1>1, <2>1, EraKept
<1>9. CASE UNCHANGED vars
  BY <1>0, <1>1, <1>9, EraKept DEF vars, Controls
<1> QED
  BY <1>2, <1>3, <1>4, <1>5, <1>6, <1>7, <1>8, <1>9, Steps

\* A batch that passes the checks of the commit is of this era.
LEMMA FreshIsOfThisEra ==
  ASSUME Eras, NEW h \in Host, batch[h] # None, Fresh(batch[h]), References(batch[h])
  PROVE  OfThisEra(batch[h])
<1>1. /\ batch[h].observations # {} \/ batch[h].explanations # {}
      /\ Touches(batch[h]) => OfThisEra(batch[h])
  BY DEF Eras
<1>2. batch[h].observations \subseteq observations /\ batch[h].explanations \subseteq closed
  BY DEF Fresh, StillClosed, References
<1> QED
  BY <1>1, <1>2 DEF Touches

\* The store only grows between two clears, and so do its log entries.
LEMMA CoverageKept ==
  ASSUME TypeOK, NothingSurvivesClear, UNCHANGED checkpointVars,
         observations \subseteq observations', closed \subseteq closed',
         DOMAIN entries \subseteq DOMAIN entries',
         \A i \in DOMAIN entries : entries'[i] = entries[i]
  PROVE  NothingSurvivesClear'
<1>1. UNCHANGED <<checkpoint, observationCoverage, contextCoverage>>
  BY DEF checkpointVars
<1>2. Ordinals(contextCoverage) \subseteq Ordinals(contextCoverage)'
  BY <1>1 DEF Ordinals
<1>3. EvidenceOf(checkpoint)' = EvidenceOf(checkpoint)
  BY <1>1 DEF EvidenceOf
<1> QED
  BY <1>1, <1>2, <1>3 DEF NothingSurvivesClear

\* Every step keeps what is covered in the store.
LEMMA CoverageStep ==
  ASSUME TypeOK, Eras, NothingSurvivesClear, [Next]_vars
  PROVE  NothingSurvivesClear'
<1> USE DEF inputVars, checkpointVars, profileVars, leaseVars
<1>1. ASSUME NEW h \in Host, NEW O \in SUBSET UncoveredObservations,
             NEW E \in SUBSET ClosedExplanations, Capture(h, O, E)
      PROVE  NothingSurvivesClear'
  <2>1. UNCHANGED <<inputVars, checkpointVars>>
    BY <1>1 DEF Capture
  <2> QED
    BY <2>1, CoverageKept
<1>2. ASSUME NEW h \in Host, batch[h] # None, NEW profile \in Profiles(batch[h]),
             CommitCheckpoint(h, profile)
      PROVE  NothingSurvivesClear'
  <2> DEFINE b == batch[h]
  <2>1. /\ Fresh(b) /\ References(b)
        /\ observationCoverage' = observationCoverage \cup b.observations
        /\ contextCoverage' = contextCoverage \cup b.explanations
        /\ UNCHANGED inputVars
    BY <1>2 DEF CommitCheckpoint
  <2>2. /\ b.observations \subseteq observations /\ b.explanations \subseteq closed
        /\ SamePrevious(b)
    BY <2>1 DEF Fresh, StillClosed, References
  <2>3. /\ b.previous = checkpoint /\ b.ordinals \subseteq Ordinals(b.explanations)
    BY <1>2, <2>1, <2>2, FreshIsOfThisEra DEF OfThisEra
  <2>4. /\ EvidenceOf(checkpoint).observations \subseteq observationCoverage
        /\ EvidenceOf(checkpoint).ordinals \subseteq Ordinals(contextCoverage)
    BY DEF NothingSurvivesClear, EvidenceOf
  <2>5. /\ EvidenceOf(checkpoint').observations \subseteq Allowed(b).observations
        /\ EvidenceOf(checkpoint').ordinals \subseteq Allowed(b).ordinals
    BY <1>2, CommitTypes, CommittedEvidence
  <2>6. EvidenceOf(checkpoint').observations \subseteq observationCoverage'
    BY <2>1, <2>3, <2>4, <2>5 DEF Allowed
  <2>7. EvidenceOf(checkpoint').ordinals \subseteq Ordinals(contextCoverage)'
    <3>1. Ordinals(contextCoverage)' = Ordinals(contextCoverage) \cup Ordinals(b.explanations)
      BY <2>1 DEF Ordinals
    <3> QED
      BY <2>3, <2>4, <2>5, <3>1 DEF Allowed
  <2>8. EvidenceOf(checkpoint)' = EvidenceOf(checkpoint')
    BY DEF EvidenceOf
  <2> QED
    BY <2>1, <2>2, <2>6, <2>7, <2>8 DEF NothingSurvivesClear
<1>3. ASSUME NEW h \in Host, CompactionFails(h) \/ TakesOver(h) \/ Notices(h)
      PROVE  NothingSurvivesClear'
  <2>1. UNCHANGED <<inputVars, checkpointVars>>
    BY <1>3 DEF CompactionFails, TakesOver, Notices
  <2> QED
    BY <2>1, CoverageKept
<1>4. ASSUME NEW h \in Host, Clear(h)
      PROVE  NothingSurvivesClear'
  BY <1>4 DEF Clear, DeleteAll, NothingSurvivesClear
<1>5. ASSUME NEW h \in Host, NEW fields \in SUBSET Field, NEW explains \in BOOLEAN,
             Decide(h, fields, explains)
      PROVE  NothingSurvivesClear'
  <2>1. /\ observations \subseteq observations'
        /\ UNCHANGED <<closed, checkpointVars>>
        /\ \/ entries' = entries
           \/ entries' = Append(entries, [explanation |-> clock + 1, at |-> clock + 1])
    BY <1>5 DEF Decide
  <2> QED
    BY <2>1, EntriesGrow, CoverageKept
<1>6. ASSUME NEW e \in active, Understood(e)
      PROVE  NothingSurvivesClear'
  <2>1. /\ closed \subseteq closed' /\ UNCHANGED <<observations, checkpointVars>>
        /\ entries' = Append(entries, [explanation |-> e, at |-> clock'])
    BY <1>6 DEF Understood
  <2> QED
    BY <2>1, EntriesGrow, CoverageKept
<1>7. ASSUME NEW r \in Request, NEW edit \in Edits(r), UpdateLearnerProfile(r, edit)
      PROVE  NothingSurvivesClear'
  <2>1. UNCHANGED <<inputVars, checkpointVars>>
    BY <1>7 DEF UpdateLearnerProfile
  <2> QED
    BY <2>1, CoverageKept
<1>8. CASE UNCHANGED vars
  BY <1>8, CoverageKept DEF vars
<1> QED
  BY <1>1, <1>2, <1>3, <1>4, <1>5, <1>6, <1>7, <1>8, Steps

\* Types, times, eras and coverage, which every step keeps together.
Covered ==
  /\ TypeOK /\ Clocked /\ DOMAIN sent = Request
  /\ Eras /\ NothingSurvivesClear

\* They hold always.
LEMMA CoveredAlways == Spec => []Covered
<1>1. Init => Covered
  BY InitTypes DEF Init, Covered, Eras, NothingSurvivesClear
<1>2. Covered /\ [Next]_vars => Covered'
  BY TypeStep, ClockedStep, EraStep, CoverageStep DEF Covered
<1> QED
  BY <1>1, <1>2, PTL DEF Spec

\* Nothing a clear deleted gets into a checkpoint, whichever host cleared and
\* whichever was compacting (commitCheckpoint, store.ts:814-888).
THEOREM DeletedStaysDeleted == Spec => []NothingSurvivesClear
BY CoveredAlways, PTL DEF Covered

\* The checks of commitCheckpoint leave nothing for the UNIQUE columns of the
\* coverage tables to refuse (store.ts:875).
THEOREM CoverageIsUnique == Spec => []NeverCoveredTwice
<1>1. ASSUME Covered PROVE NeverCoveredTwice
  <2> SUFFICES ASSUME NEW h \in Host, batch[h] # None, Fresh(batch[h])
               PROVE  CoveredOnce(batch[h])
    BY DEF NeverCoveredTwice
  <2>1. Eras /\ NothingSurvivesClear
    BY <1>1 DEF Covered
  <2>2. CASE Touches(batch[h])
    BY <2>1, <2>2 DEF Eras, OfThisEra, Fresh
  <2>3. CASE ~Touches(batch[h])
    BY <2>1, <2>3 DEF Touches, NothingSurvivesClear, CoveredOnce
  <2> QED
    BY <2>2, <2>3
<1> QED
  BY <1>1, CoveredAlways, PTL

\* A checkpoint is made with the controls, from the checkpoint and of the closed
\* explanations of the moment it is committed (store.ts:825-827).
THEOREM CheckpointIsFresh == Spec => FreshCheckpoint
<1>1. ASSUME Covered, [Next]_vars, NEW h \in Host, batch[h] # None,
             checkpoint' # checkpoint, checkpoint' # None, owner = h
      PROVE  /\ batch[h].controls = Controls /\ batch[h].previous = checkpoint
             /\ batch[h].explanations \subseteq closed
  <2>1. PICK g \in Host : batch[g] # None
          /\ \E profile \in Profiles(batch[g]) : CommitCheckpoint(g, profile)
    <3>1. \A g \in Host : ~Clear(g)
      BY <1>1 DEF Clear, DeleteAll
    <3> QED
      BY <1>1, <3>1, Steps DEF Capture, CompactionFails, TakesOver, Notices, Decide,
         Understood, UpdateLearnerProfile, vars, checkpointVars
  <2>2. g = h /\ Fresh(batch[h]) /\ References(batch[h])
    BY <1>1, <2>1 DEF CommitCheckpoint
  <2>3. OfThisEra(batch[h])
    BY <1>1, <2>2, FreshIsOfThisEra DEF Covered
  <2> QED
    BY <2>2, <2>3 DEF OfThisEra, Fresh, SameContext, StillClosed
<1>2. Covered /\ [Next]_vars =>
        [\A h \in Host :
           batch[h] # None /\ checkpoint' # checkpoint /\ checkpoint' # None /\ owner = h
             => /\ batch[h].controls = Controls
                /\ batch[h].previous = checkpoint
                /\ batch[h].explanations \subseteq closed]_vars
  BY <1>1
<1> QED
  BY <1>2, CoveredAlways, PTL DEF Spec, FreshCheckpoint

-----------------------------------------------------------------------------
(* The profile and its audit.                                               *)

\* The edit an audit event stands for.
Edit(i) == sent[events[i].request]
\* The events about a field, and the last of them.
About(f) == {i \in DOMAIN events : Edit(i).field = f}
Last(f, i) == i \in About(f) /\ \A j \in About(f) : j <= i

\* A recorded edit is one of those a learner may send.
Sent ==
  \A r \in Request : r \in Recorded =>
    /\ sent[r].field \in Field
    /\ \/ sent[r].action = "set" /\ sent[r].authority \in {"correction", "explicit"}
       \/ sent[r].action = "forget" /\ sent[r].authority = None

\* A field that was edited has a last edit.
HasLast == \A f \in Field : About(f) # {} => \E i \in About(f) : Last(f, i)

\* A forgotten field without a value of its own hides the inferences through at
\* least the instant it was forgotten.
Hidden ==
  \A i \in DOMAIN events :
    Edit(i).action = "forget" /\ override[Edit(i).field] = None =>
      /\ suppressed[Edit(i).field] # None
      /\ suppressed[Edit(i).field] >= events[i].at

\* AuditTells in the terms above.
Audited(f) ==
  /\ override[f] = None <=> \A i \in About(f) : Last(f, i) => Edit(i).action = "forget"
  /\ \A i \in About(f) :
       Last(f, i) /\ Edit(i).action = "set" => override[f] = events[i].request
  /\ \A i, j \in About(f) :
       i < j /\ Edit(i).authority = "explicit" /\ Edit(j).authority = "correction"
         => \E k \in About(f) : i < k /\ k < j /\ Edit(k).action = "forget"

\* The two are the same.
LEMMA AuditIs == AuditTells <=> \A f \in Field : Audited(f)
BY DEF AuditTells, Audited, About, Last, Edit

\* Only an edit and a clear touch the profile.
LEMMA ProfileSteps ==
  ASSUME [Next]_vars
  PROVE  \/ UNCHANGED <<override, suppressed, events, sent>>
         \/ DeleteAll /\ UNCHANGED sent
         \/ \E r \in Request : \E edit \in Edits(r) : UpdateLearnerProfile(r, edit)
BY Steps DEF Capture, CommitCheckpoint, CompactionFails, TakesOver, Notices, Clear, Decide,
             Understood, vars, profileVars

\* What an accepted edit adds to the audit and leaves of it.
LEMMA Accepted ==
  ASSUME TypeOK, DOMAIN sent = Request,
         NEW r \in Request, NEW edit \in Edits(r), UpdateLearnerProfile(r, edit),
         NEW n, n = Len(events) + 1
  PROVE  /\ sent[r] = None /\ r \notin Recorded
         /\ Recorded' = Recorded \cup {r}
         /\ sent'[r] = edit /\ \A q \in Recorded : sent'[q] = sent[q]
         /\ n \in Nat /\ DOMAIN events = 1..(n - 1)
         /\ DOMAIN events' = DOMAIN events \cup {n}
         /\ \A i \in DOMAIN events : events'[i] = events[i] /\ Edit(i)' = Edit(i)
         /\ events'[n] = [request |-> r, at |-> clock']
         /\ Edit(n)' = edit
<1>1. sent[r] = None /\ r \notin Recorded
  BY AcceptedOnce DEF UpdateLearnerProfile
<1>2. /\ events' = Append(events, [request |-> r, at |-> clock'])
      /\ sent' = [sent EXCEPT ![r] = edit]
  BY DEF UpdateLearnerProfile
<1>3. /\ n \in Nat /\ n > 0 /\ DOMAIN events = 1..(n - 1) /\ DOMAIN events' = 1..n
      /\ \A i \in DOMAIN events : events'[i] = events[i]
      /\ events'[n] = [request |-> r, at |-> clock']
  <2>1. events \in Seq([request: Request, at: Instant])
    BY DEF TypeOK
  <2> QED
    BY <1>2, <2>1
<1>4. DOMAIN events' = DOMAIN events \cup {n}
  BY <1>3
<1>5. Recorded' = Recorded \cup {r}
  <2>1. Recorded' = {events'[i].request : i \in DOMAIN events}
                      \cup {events'[n].request}
    BY <1>4 DEF Recorded
  <2> QED
    BY <1>3, <2>1 DEF Recorded
<1>6. sent'[r] = edit /\ \A q \in Recorded : sent'[q] = sent[q]
  <2>1. Recorded \subseteq Request
    BY EventTypes DEF Recorded
  <2> QED
    BY <1>1, <1>2, <2>1
<1>7. \A i \in DOMAIN events : Edit(i)' = Edit(i)
  BY <1>3, <1>6 DEF Edit, Recorded
<1>8. Edit(n)' = edit
  BY <1>3, <1>6 DEF Edit
<1> QED
  BY <1>1, <1>3, <1>4, <1>5, <1>6, <1>7, <1>8

\* What the audit names was sent as an edit of a field.
LEMMA SentStep ==
  ASSUME TypeOK, DOMAIN sent = Request, Sent, [Next]_vars
  PROVE  Sent'
<1>1. CASE UNCHANGED <<override, suppressed, events, sent>>
  BY <1>1 DEF Sent, Recorded
<1>2. CASE DeleteAll /\ UNCHANGED sent
  BY <1>2 DEF Sent, Recorded, DeleteAll
<1>3. ASSUME NEW r \in Request, NEW edit \in Edits(r), UpdateLearnerProfile(r, edit)
      PROVE  Sent'
  <2>1. /\ Recorded' = Recorded \cup {r} /\ sent[r] = None
        /\ sent'[r] = edit /\ \A q \in Recorded : sent'[q] = sent[q]
    BY <1>3, Accepted
  <2>2. /\ edit.field \in Field
        /\ \/ edit.action = "set" /\ edit.authority \in {"correction", "explicit"}
           \/ edit.action = "forget" /\ edit.authority = None
    BY <2>1, EditTypes
  <2> QED
    BY <2>1, <2>2 DEF Sent
<1> QED
  BY <1>1, <1>2, <1>3, ProfileSteps

\* The new event is the last about its field, and the others stay as they were.
LEMMA AboutStep ==
  ASSUME TypeOK, DOMAIN sent = Request,
         NEW r \in Request, NEW edit \in Edits(r), UpdateLearnerProfile(r, edit),
         NEW n, n = Len(events) + 1, NEW f \in Field
  PROVE  /\ edit.field = f => /\ About(f)' = About(f) \cup {n}
                              /\ \A i \in About(f)' : Last(f, i)' <=> i = n
         /\ edit.field # f => /\ About(f)' = About(f)
                              /\ \A i \in About(f) : Last(f, i)' <=> Last(f, i)
         /\ \A i \in About(f) : i \in Nat /\ i < n /\ Edit(i)' = Edit(i)
                                /\ events'[i] = events[i]
<1>1. /\ n \in Nat /\ DOMAIN events = 1..(n - 1)
      /\ DOMAIN events' = DOMAIN events \cup {n}
      /\ \A i \in DOMAIN events : events'[i] = events[i] /\ Edit(i)' = Edit(i)
      /\ Edit(n)' = edit
  BY Accepted
<1>2. \A i \in About(f) : i \in Nat /\ i < n /\ Edit(i)' = Edit(i) /\ events'[i] = events[i]
  BY <1>1 DEF About
<1>3. About(f)' = {i \in DOMAIN events' : Edit(i)'.field = f}
  BY DEF About
<1>4. ASSUME edit.field = f
      PROVE  /\ About(f)' = About(f) \cup {n}
             /\ \A i \in About(f)' : Last(f, i)' <=> i = n
  <2>1. About(f)' = About(f) \cup {n}
    BY <1>1, <1>3, <1>4 DEF About
  <2> QED
    BY <1>1, <1>2, <2>1 DEF Last
<1>5. ASSUME edit.field # f
      PROVE  /\ About(f)' = About(f)
             /\ \A i \in About(f) : Last(f, i)' <=> Last(f, i)
  <2>1. About(f)' = About(f)
    BY <1>1, <1>3, <1>5 DEF About
  <2> QED
    BY <2>1 DEF Last
<1> QED
  BY <1>2, <1>4, <1>5

\* The audit of a field has a last event.
LEMMA HasLastStep ==
  ASSUME TypeOK, DOMAIN sent = Request, HasLast, [Next]_vars
  PROVE  HasLast'
<1>1. CASE UNCHANGED <<override, suppressed, events, sent>>
  BY <1>1 DEF HasLast, About, Last, Edit
<1>2. CASE DeleteAll /\ UNCHANGED sent
  BY <1>2 DEF HasLast, About, DeleteAll
<1>3. ASSUME NEW r \in Request, NEW edit \in Edits(r), UpdateLearnerProfile(r, edit)
      PROVE  HasLast'
  <2> DEFINE n == Len(events) + 1
  <2> SUFFICES ASSUME NEW f \in Field, About(f)' # {}
               PROVE  \E i \in About(f)' : Last(f, i)'
    BY DEF HasLast
  <2>1. CASE edit.field = f
    BY <1>3, <2>1, AboutStep
  <2>2. CASE edit.field # f
    BY <1>3, <2>2, AboutStep DEF HasLast
  <2> QED
    BY <2>1, <2>2
<1> QED
  BY <1>1, <1>2, <1>3, ProfileSteps

\* A forget hides at least what was there, until a value is set again.
LEMMA HiddenStep ==
  ASSUME TypeOK, Clocked, DOMAIN sent = Request, Sent, Hidden, [Next]_vars
  PROVE  Hidden'
<1>1. CASE UNCHANGED <<override, suppressed, events, sent>>
  BY <1>1 DEF Hidden, Edit
<1>2. CASE DeleteAll /\ UNCHANGED sent
  BY <1>2 DEF Hidden, DeleteAll
<1>3. ASSUME NEW r \in Request, NEW edit \in Edits(r), UpdateLearnerProfile(r, edit)
      PROVE  Hidden'
  <2>0. PICK n : n = Len(events) + 1
    OBVIOUS
  <2>1. /\ sent[r] = None
        /\ DOMAIN events' = DOMAIN events \cup {n}
        /\ \A i \in DOMAIN events : events'[i] = events[i] /\ Edit(i)' = Edit(i)
        /\ events'[n] = [request |-> r, at |-> clock'] /\ Edit(n)' = edit
    BY <1>3, <2>0, Accepted
  <2>2. /\ clock \in Nat /\ clock' \in Nat /\ clock <= clock'
    <3>1. clock \in Nat
      BY BoundAssumption DEF TypeOK, Instant
    <3>2. clock' \in {clock, clock + 1}
      BY <1>3, <3>1, LaterIsSoon DEF UpdateLearnerProfile
    <3> QED
      BY <3>1, <3>2
  <2>3. edit.field \in Field
    BY <1>3, <2>1, EditTypes
  <2>4. /\ edit.action = "set" => Set(edit.field, r)
        /\ edit.action = "forget" => Forget(edit.field, clock')
        /\ edit.action \in {"set", "forget"}
    BY <1>3 DEF UpdateLearnerProfile
  <2>5. override \in [Field -> Request \cup {None}] /\ DOMAIN suppressed = Field
    BY DEF TypeOK
  <2> SUFFICES ASSUME NEW i \in DOMAIN events', Edit(i)'.action = "forget",
                      override'[Edit(i)'.field] = None
               PROVE  /\ suppressed'[Edit(i)'.field] # None
                      /\ suppressed'[Edit(i)'.field] >= events'[i].at
    BY DEF Hidden
  <2>6. CASE Edit(i)'.field = edit.field
    <3>1. edit.action = "forget"
      <4>1. ASSUME edit.action = "set" PROVE FALSE
        <5>1. override'[edit.field] = r
          BY <2>3, <2>4, <2>5, <4>1 DEF Set
        <5> QED
          BY <2>6, <5>1, NoneAssumption
      <4> QED
        BY <2>4, <4>1
    <3>2. suppressed'[edit.field] = clock'
      BY <2>3, <2>4, <2>5, <3>1 DEF Forget
    <3>3. clock' # None
      BY <2>2, NoneAssumption
    <3>4. events'[i].at \in Nat /\ events'[i].at <= clock'
      <4>1. CASE i \in DOMAIN events
        BY <2>1, <2>2, <4>1, EventTypes, BoundAssumption DEF Clocked, Instant
      <4>2. CASE i = n
        BY <2>1, <2>2, <4>2
      <4> QED
        BY <2>1, <4>1, <4>2
    <3> QED
      BY <2>2, <2>6, <3>2, <3>3, <3>4
  <2>7. CASE Edit(i)'.field # edit.field
    <3>1. i \in DOMAIN events /\ Edit(i)' = Edit(i) /\ events'[i] = events[i]
      BY <2>1, <2>7
    <3>2. Edit(i).field \in Field
      BY <3>1, EventTypes DEF Edit, Sent, Recorded
    <3>3. /\ override'[Edit(i).field] = override[Edit(i).field]
          /\ suppressed'[Edit(i).field] = suppressed[Edit(i).field]
      BY <2>4, <2>5, <2>7, <3>1, <3>2 DEF Set, Forget
    <3> QED
      BY <3>1, <3>3 DEF Hidden
  <2> QED
    BY <2>6, <2>7
<1> QED
  BY <1>1, <1>2, <1>3, ProfileSteps

\* A set or a forget is the last word about its field; a correction comes over
\* an explicit preference only after a forget between the two.
LEMMA AuditedStep ==
  ASSUME TypeOK, DOMAIN sent = Request, Sent, HasLast, NEW f \in Field, Audited(f),
         NEW r \in Request, NEW edit \in Edits(r), UpdateLearnerProfile(r, edit)
  PROVE  Audited(f)'
<1>0. PICK n : n = Len(events) + 1
  OBVIOUS
<1>1. /\ sent[r] = None /\ sent'[r] = edit
      /\ events'[n] = [request |-> r, at |-> clock'] /\ Edit(n)' = edit
      /\ n \in Nat
  BY <1>0, Accepted
<1>2. /\ edit.field = f => /\ About(f)' = About(f) \cup {n}
                           /\ \A i \in About(f)' : Last(f, i)' <=> i = n
      /\ edit.field # f => /\ About(f)' = About(f)
                           /\ \A i \in About(f) : Last(f, i)' <=> Last(f, i)
      /\ \A i \in About(f) : i \in Nat /\ i < n /\ Edit(i)' = Edit(i)
                             /\ events'[i] = events[i]
  BY <1>0, AboutStep
<1>3. /\ edit.field \in Field
      /\ \/ edit.action = "set" /\ edit.authority \in {"correction", "explicit"}
         \/ edit.action = "forget" /\ edit.authority = None
  BY <1>1, EditTypes
<1>4. /\ edit.action = "set" => Set(edit.field, r)
      /\ edit.action = "forget" => Forget(edit.field, clock')
      /\ override \in [Field -> Request \cup {None}]
  BY DEF UpdateLearnerProfile, TypeOK
<1>5. CASE edit.field # f
  <2>1. override'[f] = override[f]
    BY <1>3, <1>4, <1>5 DEF Set, Forget
  <2> QED
    BY <1>2, <1>5, <2>1 DEF Audited
<1>6. CASE edit.field = f
  <2>1. /\ edit.action = "set" => override'[f] = r
        /\ edit.action = "forget" => override'[f] = None
    BY <1>3, <1>4, <1>6 DEF Set, Forget
  <2>2. override'[f] = None <=> edit.action = "forget"
    BY <1>3, <2>1, NoneAssumption
  <2>3. \A i \in About(f)' : Last(f, i)' <=> i = n
    BY <1>2, <1>6
  <2>4. n \in About(f)'
    BY <1>2, <1>6
  <2>5. override'[f] = None
          <=> \A i \in About(f)' : Last(f, i)' => Edit(i)'.action = "forget"
    BY <1>1, <2>2, <2>3, <2>4
  <2>6. \A i \in About(f)' :
          Last(f, i)' /\ Edit(i)'.action = "set" => override'[f] = events'[i].request
    BY <1>1, <2>1, <2>3
  <2>7. ASSUME NEW i \in About(f)', NEW j \in About(f)', i < j,
               Edit(i)'.authority = "explicit", Edit(j)'.authority = "correction"
        PROVE  \E k \in About(f)' : i < k /\ k < j /\ Edit(k)'.action = "forget"
    <3>1. i \in About(f)
      BY <1>1, <1>2, <1>6, <2>7
    <3>2. CASE j \in About(f)
      <4>1. \E k \in About(f) : i < k /\ k < j /\ Edit(k).action = "forget"
        BY <1>2, <2>7, <3>1, <3>2 DEF Audited
      <4> QED
        BY <1>2, <1>6, <4>1
    <3>3. CASE j = n
      <4>1. edit.authority = "correction" /\ Edit(i).authority = "explicit"
        BY <1>1, <1>2, <2>7, <3>1, <3>3
      <4>2. PICK last \in About(f) : Last(f, last)
        BY <3>1 DEF HasLast
      <4>3. i <= last /\ last < n /\ i \in Nat /\ last \in Nat
        BY <1>2, <3>1, <4>2 DEF Last
      <4>4. \A k \in About(f) :
              \/ Edit(k).action = "set" /\ Edit(k).authority \in {"correction", "explicit"}
              \/ Edit(k).action = "forget" /\ Edit(k).authority = None
        BY EventTypes DEF About, Edit, Sent, Recorded
      <4>5. CASE Edit(last).action = "forget"
        <5>1. i # last
          BY <4>1, <4>4, <4>5, NoneAssumption
        <5>2. Edit(last)' = Edit(last) /\ last \in About(f)'
          BY <1>2, <1>6
        <5> QED
          BY <3>3, <4>3, <4>5, <5>1, <5>2
      <4>6. CASE Edit(last).action = "set"
        <5>1. override[f] = events[last].request
          BY <4>2, <4>6 DEF Audited
        <5>2. override[f] # None
          BY <5>1, EventTypes, NoneAssumption DEF About
        <5>3. Edit(last).authority # "explicit"
          BY <1>6, <4>1, <5>1, <5>2 DEF UpdateLearnerProfile, BelowExplicit, Edit
        <5>4. Edit(last).authority = "correction"
          BY <4>4, <4>6, <5>3
        <5>5. i < last
          BY <4>1, <4>3, <5>3
        <5>6. PICK k \in About(f) : i < k /\ k < last /\ Edit(k).action = "forget"
          BY <3>1, <4>1, <5>4, <5>5 DEF Audited
        <5>7. Edit(k)' = Edit(k) /\ k \in About(f)' /\ k \in Nat
          BY <1>2, <1>6
        <5> QED
          BY <1>1, <3>3, <4>3, <5>6, <5>7
      <4> QED
        BY <4>4, <4>5, <4>6
    <3> QED
      BY <1>2, <1>6, <3>2, <3>3
  <2> QED
    BY <2>5, <2>6, <2>7 DEF Audited
<1> QED
  BY <1>5, <1>6

\* Types, times, accepted requests and what the audit says of every field.
Profiled ==
  /\ TypeOK /\ Clocked /\ DOMAIN sent = Request
  /\ Sent /\ HasLast /\ Hidden /\ AuditTells

\* They hold always.
LEMMA ProfiledAlways == Spec => []Profiled
<1>1. Init => Profiled
  <2> SUFFICES ASSUME Init PROVE Profiled
    OBVIOUS
  <2>1. events = <<>> /\ override = [f \in Field |-> None] /\ DOMAIN events = {}
    BY DEF Init
  <2>2. Sent /\ HasLast /\ Hidden
    BY <2>1 DEF Sent, Recorded, HasLast, About, Hidden
  <2>3. \A f \in Field : Audited(f)
    BY <2>1 DEF Audited, About
  <2> QED
    BY <2>2, <2>3, InitTypes, AuditIs DEF Profiled
<1>2. ASSUME Profiled, [Next]_vars
      PROVE  AuditTells'
  <2> SUFFICES ASSUME NEW f \in Field PROVE Audited(f)'
    BY DEF AuditTells, Audited, About, Last, Edit
  <2>1. Audited(f)
    BY <1>2, AuditIs DEF Profiled
  <2>2. CASE UNCHANGED <<override, suppressed, events, sent>>
    BY <2>1, <2>2 DEF Audited, About, Last, Edit
  <2>3. CASE DeleteAll /\ UNCHANGED sent
    BY <2>3 DEF DeleteAll, Audited, About
  <2>4. ASSUME NEW r \in Request, NEW edit \in Edits(r), UpdateLearnerProfile(r, edit)
        PROVE  Audited(f)'
    BY <1>2, <2>1, <2>4, AuditedStep DEF Profiled
  <2> QED
    BY <1>2, <2>2, <2>3, <2>4, ProfileSteps
<1>3. Profiled /\ [Next]_vars => Profiled'
  BY <1>2, TypeStep, ClockedStep, SentStep, HasLastStep, HiddenStep DEF Profiled
<1> QED
  BY <1>1, <1>3, PTL DEF Spec

\* The value in force is the one the audit says was set last and not forgotten
\* since, and no correction comes over an explicit preference that was not
\* forgotten first (updateLearnerProfile, store.ts:1211-1270).
THEOREM AuditTellsTheProfile == Spec => []AuditTells
BY ProfiledAlways, PTL DEF Profiled

\* The instants of evidence are instants.
LEMMA TimesTypes ==
  ASSUME TypeOK, NEW evidence
  PROVE  Times(evidence) \subseteq Nat
<1>1. \A i \in DOMAIN entries : entries[i].at \in Instant
  <2>1. entries \in Seq([explanation: Instant, at: Instant])
    BY DEF TypeOK
  <2>2. \A i \in 1..Len(entries) : entries[i] \in [explanation: Instant, at: Instant]
    BY <2>1, ElementOfSeq
  <2> QED
    BY <2>1, <2>2
<1> QED
  BY <1>1, BoundAssumption DEF Times, TypeOK, Observation, Instant

\* What the learner told to forget is not inferred again from evidence of before
\* (store.ts:1246-1252, 1757-1762 and 1796).
THEOREM ForgottenStaysForgotten == Spec => []ForgetStays
<1>1. ASSUME Profiled PROVE ForgetStays
  <2> SUFFICES ASSUME NEW i \in DOMAIN events,
                      Edit(i).action = "forget", override[Edit(i).field] = None,
                      NEW e \in Visible(Edit(i).field)
               PROVE  \E t \in Times(e) : t > events[i].at
    BY DEF ForgetStays, Edit
  <2>1. TypeOK /\ Sent /\ Hidden
    BY <1>1 DEF Profiled
  <2>2. /\ suppressed[Edit(i).field] # None
        /\ suppressed[Edit(i).field] >= events[i].at
    BY <2>1 DEF Hidden
  <2>3. Edit(i).field \in Field /\ events[i].at \in Nat
    BY <2>1, EventTypes, BoundAssumption DEF Edit, Sent, Recorded, Instant
  <2>4. suppressed[Edit(i).field] \in Nat
    BY <2>1, <2>2, <2>3, BoundAssumption DEF TypeOK, Instant
  <2>5. PICK t \in Times(e) : t > suppressed[Edit(i).field]
    BY <2>2 DEF Visible
  <2>6. t \in Nat
    BY <2>1, TimesTypes
  <2> QED
    BY <2>2, <2>3, <2>4, <2>5, <2>6
<1> QED
  BY <1>1, ProfiledAlways, PTL

\* A request takes effect once, however often it is sent, also after a clear has
\* deleted the record of it (store.ts:1182-1201 and 1300).
THEOREM EditsApplyOnce == Spec => AppliedOnce
<1>1. ASSUME Profiled, [Next]_vars, NEW r \in Request, sent[r] # None, r \in Recorded'
      PROVE  r \in Recorded
  <2>1. CASE UNCHANGED <<override, suppressed, events, sent>>
    BY <1>1, <2>1 DEF Recorded
  <2>2. CASE DeleteAll /\ UNCHANGED sent
    BY <1>1, <2>2 DEF Recorded, DeleteAll
  <2>3. ASSUME NEW q \in Request, NEW edit \in Edits(q), UpdateLearnerProfile(q, edit)
        PROVE  r \in Recorded
    <3>1. PICK n : n = Len(events) + 1
      OBVIOUS
    <3>2. sent[q] = None /\ Recorded' = Recorded \cup {q}
      BY <1>1, <2>3, <3>1, Accepted DEF Profiled
    <3> QED
      BY <1>1, <3>2
  <2> QED
    BY <1>1, <2>1, <2>2, <2>3, ProfileSteps
<1>2. Profiled /\ [Next]_vars
        => [\A r \in Request : sent[r] # None /\ r \in Recorded' => r \in Recorded]_vars
  BY <1>1
<1> QED
  BY <1>2, ProfiledAlways, PTL DEF Spec, AppliedOnce

\* Whatever changes what the overview shows advances the revision that the long
\* poll and the edits go by (store.ts:881 and 1275).
THEOREM ChangesAreSignalled == Spec => EveryChangeSignals
<1>1. ASSUME Covered, [Next]_vars
      PROVE  \/ storeRevision' > storeRevision
             \/ \A f \in Field : Shown(f)' = Shown(f)
  <2>1. storeRevision \in Nat
    BY <1>1, BoundAssumption DEF Covered, TypeOK, Instant
  <2>2. \/ storeRevision' = storeRevision + 1
        \/ UNCHANGED <<observations, entries, checkpoint, override, suppressed, sent>>
    BY <1>1, Steps DEF Capture, CommitCheckpoint, CompactionFails, TakesOver, Notices, Clear,
       Decide, Understood, UpdateLearnerProfile, vars, inputVars, checkpointVars, profileVars
  <2>3. ASSUME UNCHANGED <<observations, entries, checkpoint, override, suppressed, sent>>,
               NEW f \in Field
        PROVE  Shown(f)' = Shown(f)
    BY <2>3 DEF Shown, Visible, Inferred, Times, Just, Newest, Of
  <2> QED
    BY <2>1, <2>2, <2>3
<1>2. Covered /\ [Next]_vars => [\/ storeRevision' > storeRevision
                                 \/ \A f \in Field : Shown(f)' = Shown(f)]_vars
  BY <1>1
<1> QED
  BY <1>2, CoveredAlways, PTL DEF Spec, EveryChangeSignals
=============================================================================
