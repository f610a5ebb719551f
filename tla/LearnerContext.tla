--------------------------- MODULE LearnerContext ---------------------------
(***************************************************************************)
(* The learner's context in store.ts: observations and closed explanations, *)
(* the checkpoints that compactor.ts makes of them, and the profile that    *)
(* the learner may correct or forget. Several hosts share the database; a   *)
(* host compacts or decides one thing at a time (the scheduler's single     *)
(* flight), while profile edits, feedback and clears come at any moment.    *)
(* An observation is identified by its field and the instant of the answer  *)
(* it came with, an explanation by the instant it was made. Texts, values   *)
(* and confidence are left out, and so is throughOrdinal, which nothing     *)
(* reads but the next checkpoint.                                           *)
(***************************************************************************)
EXTENDS Naturals, Sequences, FiniteSets

CONSTANTS Host, Request,
          Dimension,    \* fields of the dialogue preference
          Topic,        \* fields of the topic familiarity
          None,
          Delay,        \* how long after a model's answer a learner may act
          MaxEvidence,  \* pieces of evidence of each kind (8 in the code)
          MaxRevision   \* bound on committed writes

ASSUME FieldAssumption == Dimension \cap Topic = {}
ASSUME DelayAssumption == Delay \subseteq {0, 1}
ASSUME NoneAssumption ==
  None \notin Host \cup Request \cup Nat \cup {"correction", "explicit"}
ASSUME BoundAssumption == MaxRevision \in Nat /\ MaxEvidence \in Nat

VARIABLES observations, entries,
          active, closed,                        \* explanations
          checkpoint,                            \* the latest checkpoint
          observationCoverage, contextCoverage,  \* what checkpoints cover
          override,    \* override[f]: the request whose value is in force
          suppressed,  \* suppressed[f]: inferences through here are hidden
          events,      \* the audit, in the order of its commits
          contextGeneration, storeRevision, clock,
          owner, running,                        \* the lease and who believes
          batch,       \* batch[h]: what host h is compacting
          sent         \* sent[r]: a profile request that was accepted once, and
                       \* may come again

inputVars == <<observations, entries, active, closed>>
checkpointVars == <<checkpoint, observationCoverage, contextCoverage>>
profileVars == <<override, suppressed, events>>
leaseVars == <<owner, running>>
vars == <<inputVars, checkpointVars, profileVars, contextGeneration, storeRevision, clock,
          leaseVars, batch, sent>>

Later == {clock + d : d \in Delay}
Field == Dimension \cup Topic
Instant == 0..MaxRevision
Observation == [field: Field, at: Instant]
Evidence == [observations: SUBSET Observation, ordinals: SUBSET Nat]
Checkpoint(D) == [generation: 1..MaxRevision, at: Instant, profile: [D -> Evidence]]
ASSUME CheckpointAssumption == \A D \in SUBSET Dimension : None \notin Checkpoint(D)
IsCheckpoint(c) == c = None \/ \E D \in SUBSET Dimension : c \in Checkpoint(D)
Ordinals(explanations) ==
  {i \in DOMAIN entries : entries[i].explanation \in explanations}

-----------------------------------------------------------------------------
(* What the learner sees.                                                   *)

Recorded == {events[i].request : i \in DOMAIN events}

Of(f) == {o \in observations : o.field = f}
Newest(f) == CHOOSE o \in Of(f) : \A p \in Of(f) : p.at <= o.at
Just(o) == [observations |-> {o}, ordinals |-> {}]

\* profileEvidence: evidence whose row is gone is left out.
Times(evidence) ==
  {o.at : o \in evidence.observations \cap observations}
    \cup {entries[i].at : i \in evidence.ordinals \cap DOMAIN entries}

\* The newest observation replaces the checkpoint's judgement when it is newer.
Inferred(f) ==
  IF Of(f) # {} /\ (f \in Topic \/ checkpoint = None \/ Newest(f).at > checkpoint.at)
  THEN {Just(Newest(f))}
  ELSE IF f \in Dimension /\ checkpoint # None /\ f \in DOMAIN checkpoint.profile
       THEN {checkpoint.profile[f]}
       ELSE {}

Visible(f) ==
  {e \in Inferred(f) :
     suppressed[f] # None => \E t \in Times(e) : t > suppressed[f]}

\* effectiveDialogueProfile and effectiveTopicFamiliarities, field by field.
Shown(f) ==
  IF override[f] # None
  THEN [by |-> override[f],
        evidence |-> {Just(o) : o \in {sent[override[f]].source} \cap observations}]
  ELSE [by |-> None, evidence |-> Visible(f)]

\* learnerProfileControls
Controls == <<override, suppressed>>

-----------------------------------------------------------------------------
(* Compaction.                                                              *)

AllObservations == observations
UncoveredObservations == observations \ observationCoverage
ClosedExplanations == closed \ contextCoverage

\* fitBatch drops explanations first, then observations, the latest first.
FirstExplanations ==
  {E \in SUBSET ClosedExplanations :
     \A x \in E, y \in ClosedExplanations \ E : x <= y}
FirstObservations ==
  {O \in SUBSET UncoveredObservations :
     \A x \in O, y \in UncoveredObservations \ O : x.at <= y.at}
Fits(O, E) ==
  /\ O \in FirstObservations
  /\ E \in FirstExplanations
  /\ O # {} \/ E # {}
  /\ E # {} => O = UncoveredObservations

GenerationOf(c) == IF c = None THEN 0 ELSE c.generation
EvidenceOf(c) ==
  IF c = None
  THEN [observations |-> {}, ordinals |-> {}]
  ELSE [observations |-> UNION {c.profile[d].observations : d \in DOMAIN c.profile},
        ordinals |-> UNION {c.profile[d].ordinals : d \in DOMAIN c.profile}]

\* compactionBatch, fitted: nobody asks for the lease before the commit.
Capture(h, O, E) ==
  /\ storeRevision < MaxRevision
  /\ h \in running
  /\ batch[h] = None
  /\ Fits(O, E)
  /\ batch' = [batch EXCEPT ![h] =
       [contextGeneration |-> contextGeneration, previous |-> checkpoint,
        observations |-> O, explanations |-> E, ordinals |-> Ordinals(E),
        controls |-> Controls]]
  /\ UNCHANGED <<inputVars, checkpointVars, profileVars, contextGeneration, storeRevision,
                 clock, leaseVars, sent>>

ContextNotOlder(b) == b.contextGeneration <= contextGeneration
SameContext(b) == contextGeneration = b.contextGeneration
SamePrevious(b) == GenerationOf(checkpoint) = GenerationOf(b.previous)
StillClosed(b) == b.explanations \subseteq closed
\* The references and the UNIQUE columns of the two coverage tables.
ReferencesUnchecked(b) == b # None
References(b) == b.observations \subseteq observations
CoveredOnce(b) ==
  /\ b.observations \cap observationCoverage = {}
  /\ b.explanations \cap contextCoverage = {}

Fresh(b) == SameContext(b) /\ SamePrevious(b) /\ StillClosed(b)

Allowed(b) ==
  [observations |-> EvidenceOf(b.previous).observations \cup b.observations,
   ordinals |-> EvidenceOf(b.previous).ordinals \cup b.ordinals]
Cited(S) == {T \in SUBSET S : Cardinality(T) <= MaxEvidence}
Profiles(b) ==
  UNION {[D -> [observations: Cited(Allowed(b).observations),
                ordinals: Cited(Allowed(b).ordinals)]] : D \in SUBSET Dimension}
Exists(evidence) ==
  evidence.observations \subseteq observations /\ evidence.ordinals \subseteq DOMAIN entries

\* The model's answer is a fresh instant: a call takes longer than a millisecond.
CommitCheckpoint(h, profile) ==
  LET b == batch[h]
      next == [generation |-> GenerationOf(checkpoint) + 1, at |-> clock + 1, profile |-> profile]
  IN
  /\ storeRevision < MaxRevision
  /\ owner = h
  /\ Fresh(b)
  /\ Exists(EvidenceOf(next))
  /\ References(b) /\ CoveredOnce(b)
  /\ clock' = clock + 1
  /\ checkpoint' = next
  /\ observationCoverage' = observationCoverage \cup b.observations
  /\ contextCoverage' = contextCoverage \cup b.explanations
  /\ storeRevision' = storeRevision + 1
  /\ batch' = [batch EXCEPT ![h] = None]
  /\ UNCHANGED <<inputVars, profileVars, contextGeneration, leaseVars, sent>>

\* The call fails or is aborted, the commit finds the batch stale, or raises.
CompactionFails(h) ==
  /\ batch[h] # None
  /\ batch' = [batch EXCEPT ![h] = None]
  /\ UNCHANGED <<inputVars, checkpointVars, profileVars, contextGeneration, storeRevision,
                 clock, leaseVars, sent>>

-----------------------------------------------------------------------------
(* What there is to compact.                                                *)

\* commitDecision, and with no fields commitManualExplanation.
Decide(h, fields, explains) ==
  /\ storeRevision < MaxRevision
  /\ owner = h
  /\ batch[h] = None
  /\ fields # {} \/ explains
  /\ clock' = clock + 1
  /\ observations' = observations \cup [field: fields, at: {clock + 1}]
  /\ active' = IF explains THEN active \cup {clock + 1} ELSE active
  /\ entries' = IF explains
                THEN Append(entries, [explanation |-> clock + 1, at |-> clock + 1])
                ELSE entries
  /\ contextGeneration' = IF fields # {} THEN contextGeneration + 1 ELSE contextGeneration
  /\ storeRevision' = storeRevision + 1
  /\ UNCHANGED <<closed, checkpointVars, profileVars, leaseVars, batch, sent>>

\* applyFeedback with understood: it needs no lease.
UnderstoodStaysActive(e) ==
  /\ storeRevision < MaxRevision
  /\ e \in active
  /\ clock' \in Later
  /\ entries' = Append(entries, [explanation |-> e, at |-> clock'])
  /\ closed' = closed \cup {e}
  /\ contextGeneration' = contextGeneration + 1
  /\ storeRevision' = storeRevision + 1
  /\ UNCHANGED <<active, observations, checkpointVars, profileVars, leaseVars, batch, sent>>
Understood(e) ==
  /\ storeRevision < MaxRevision
  /\ e \in active
  /\ clock' \in Later
  /\ entries' = Append(entries, [explanation |-> e, at |-> clock'])
  /\ active' = active \ {e}
  /\ closed' = closed \cup {e}
  /\ contextGeneration' = contextGeneration + 1
  /\ storeRevision' = storeRevision + 1
  /\ UNCHANGED <<observations, checkpointVars, profileVars, leaseVars, batch, sent>>

-----------------------------------------------------------------------------
(* The profile.                                                             *)

\* What a view may send: an edit of what it shows, with an observation that is
\* shown as its source, at the revision it was read at; or once more a request
\* whose answer was lost.
Sources(f) ==
  LET shown == UNION {e.observations : e \in Shown(f).evidence} IN
  IF shown = {} THEN {None} ELSE shown
Edits(r) ==
  IF sent[r] # None
  THEN {sent[r]}
  ELSE (UNION {[field: {f}, action: {"set"}, authority: {"correction", "explicit"},
                source: Sources(f), expected: {storeRevision}] : f \in Field})
       \cup [field: Field, action: {"forget"}, authority: {None}, source: {None},
             expected: {storeRevision}]

Current(edit) == storeRevision = edit.expected
SourceMatches(edit) == edit.source # None => edit.source \in Of(edit.field)
BelowCorrection(edit) ==
  /\ edit.authority = "correction"
  /\ override[edit.field] # None
  /\ sent[override[edit.field]].authority = "correction"
BelowExplicit(edit) ==
  /\ edit.authority = "correction"
  /\ override[edit.field] # None
  /\ sent[override[edit.field]].authority = "explicit"

Set(f, r) ==
  /\ override' = [override EXCEPT ![f] = r]
  /\ suppressed' = [suppressed EXCEPT ![f] = None]
ForgetOverrideFirst(f, now) ==
  IF override[f] # None
  THEN override' = [override EXCEPT ![f] = None] /\ UNCHANGED suppressed
  ELSE suppressed' = [suppressed EXCEPT ![f] = now] /\ UNCHANGED override
Forget(f, now) ==
  /\ override' = [override EXCEPT ![f] = None]
  /\ suppressed' = [suppressed EXCEPT ![f] = now]

\* updateLearnerProfile of a request that is not recorded yet; a request that
\* is recorded or refused changes nothing. A request that comes late is refused
\* like one that comes again, because storeRevision never goes back, so only the
\* instant at which it is accepted counts.
UpdateLearnerProfile(r, edit) ==
  /\ storeRevision < MaxRevision
  /\ r \notin Recorded
  /\ Current(edit)
  /\ SourceMatches(edit)
  /\ ~BelowExplicit(edit)
  /\ clock' \in Later
  /\ \/ edit.action = "set" /\ Set(edit.field, r)
     \/ edit.action = "forget" /\ Forget(edit.field, clock')
  /\ events' = Append(events, [request |-> r, at |-> clock'])
  /\ contextGeneration' = contextGeneration + 1
  /\ storeRevision' = storeRevision + 1
  /\ sent' = [sent EXCEPT ![r] = edit]
  /\ UNCHANGED <<inputVars, checkpointVars, leaseVars, batch>>

-----------------------------------------------------------------------------
\* clearLearningData, after the clearing host's own work has ended. It needs
\* no lease, so another host may be at work. storeRevision goes on.
DeleteAll ==
  /\ observations' = {} /\ entries' = <<>>
  /\ active' = {} /\ closed' = {}
  /\ checkpoint' = None
  /\ observationCoverage' = {} /\ contextCoverage' = {}
  /\ override' = [f \in Field |-> None]
  /\ suppressed' = [f \in Field |-> None]
  /\ events' = <<>>

ClearFromZero(h) ==
  /\ storeRevision < MaxRevision
  /\ batch[h] = None
  /\ DeleteAll
  /\ contextGeneration' = 0 /\ storeRevision' = 0
  /\ UNCHANGED <<clock, leaseVars, batch, sent>>
Clear(h) ==
  /\ storeRevision < MaxRevision
  /\ batch[h] = None
  /\ DeleteAll
  /\ contextGeneration' = 0
  /\ storeRevision' = storeRevision + 1
  /\ UNCHANGED <<clock, leaseVars, batch, sent>>

\* A host that starts acquires the lease once it has expired; the earlier
\* owner goes on until its heartbeat notices.
TakesOver(h) ==
  /\ storeRevision < MaxRevision
  /\ h \notin running
  /\ owner' = h
  /\ running' = running \cup {h}
  /\ UNCHANGED <<inputVars, checkpointVars, profileVars, contextGeneration, storeRevision,
                 clock, batch, sent>>

\* The heartbeat of a host that lost its lease aborts its work.
Notices(h) ==
  /\ h \in running /\ owner # h
  /\ running' = running \ {h}
  /\ batch' = [batch EXCEPT ![h] = None]
  /\ UNCHANGED <<inputVars, checkpointVars, profileVars, contextGeneration, storeRevision,
                 clock, owner, sent>>

-----------------------------------------------------------------------------
Init ==
  /\ observations = {} /\ entries = <<>> /\ active = {} /\ closed = {}
  /\ checkpoint = None /\ observationCoverage = {} /\ contextCoverage = {}
  /\ override = [f \in Field |-> None]
  /\ suppressed = [f \in Field |-> None]
  /\ events = <<>>
  /\ contextGeneration = 0 /\ storeRevision = 0 /\ clock = 0
  /\ owner \in Host /\ running = {owner}
  /\ batch = [h \in Host |-> None]
  /\ sent = [r \in Request |-> None]

Next ==
  \/ \E h \in Host, O \in SUBSET UncoveredObservations, E \in SUBSET ClosedExplanations :
       Capture(h, O, E)
  \/ \E h \in {g \in Host : batch[g] # None} : \E profile \in Profiles(batch[h]) :
       CommitCheckpoint(h, profile)
  \/ \E h \in Host : CompactionFails(h) \/ Clear(h) \/ TakesOver(h) \/ Notices(h)
  \/ \E h \in Host, fields \in SUBSET Field, explains \in BOOLEAN :
       Decide(h, fields, explains)
  \/ \E e \in active : Understood(e)
  \/ \E r \in Request : \E edit \in Edits(r) : UpdateLearnerProfile(r, edit)

Spec == Init /\ [][Next]_vars
-----------------------------------------------------------------------------
(* Properties.                                                              *)

\* The state has its type, and an explanation is active or closed (the CHECK
\* constraints of schema.ts:79-110 and 186-221).
TypeOK ==
  /\ observations \subseteq Observation
  /\ entries \in Seq([explanation: Instant, at: Instant])
  /\ active \cup closed \subseteq Instant /\ active \cap closed = {}
  /\ override \in [Field -> Request \cup {None}]
  /\ suppressed \in [Field -> Instant \cup {None}]
  /\ events \in Seq([request: Request, at: Instant])
  /\ contextGeneration \in Instant /\ storeRevision \in Instant /\ clock \in Instant
  /\ contextGeneration <= storeRevision /\ clock <= storeRevision
  /\ owner \in running /\ running \subseteq Host
  /\ IsCheckpoint(checkpoint) /\ GenerationOf(checkpoint) <= storeRevision
  /\ DOMAIN batch = Host
  /\ \A h \in Host : batch[h] = None \/
       /\ batch[h].contextGeneration \in Instant
       /\ IsCheckpoint(batch[h].previous)
       /\ batch[h].observations \subseteq Observation
       /\ batch[h].explanations \subseteq Instant /\ batch[h].ordinals \subseteq Nat
  /\ \A r \in Request :
       sent[r] # None => sent[r].expected \in Instant /\ sent[r].expected < storeRevision

\* Nothing that a clear deleted gets into a checkpoint: what is covered is in the
\* store, and the evidence of the checkpoint is covered, although ordinals and
\* both generations start over and a clear on one host does not stop a compaction
\* of another (store.ts:1282-1330 against 814-888).
NothingSurvivesClear ==
  /\ observationCoverage \subseteq observations
  /\ contextCoverage \subseteq closed
  /\ checkpoint # None =>
       /\ EvidenceOf(checkpoint).observations \subseteq observationCoverage
       /\ EvidenceOf(checkpoint).ordinals \subseteq Ordinals(contextCoverage)

\* A batch that passes the checks of commitCheckpoint covers nothing that is
\* covered already: the commit never fails on a UNIQUE column (store.ts:875).
NeverCoveredTwice ==
  \A h \in Host : batch[h] # None /\ owner = h /\ Fresh(batch[h]) => CoveredOnce(batch[h])

\* A checkpoint is made with the corrections, the preferences and the waters
\* of forgetting in force at its commit, and from the checkpoint it replaces
\* (store.ts:825-827): an edit during the model call makes it stale.
FreshCheckpoint ==
  [][\A h \in Host :
       batch[h] # None /\ checkpoint' # checkpoint /\ checkpoint' # None /\ owner = h
         => /\ batch[h].controls = Controls
            /\ batch[h].previous = checkpoint
            /\ batch[h].explanations \subseteq closed]_vars

\* What the learner told to forget does not come back from evidence of before,
\* in whatever order sets, forgets, observations and checkpoints follow
\* (store.ts:1246-1252, 1757-1762 and 1796).
ForgetStays ==
  \A i \in DOMAIN events :
    LET edit == sent[events[i].request] IN
    edit.action = "forget" /\ override[edit.field] = None =>
      \A e \in Visible(edit.field) : \E t \in Times(e) : t > events[i].at

\* The value in force is the one the audit says was set last and not forgotten
\* since, and no correction came over an explicit preference (store.ts:1211-1270).
AuditTells ==
  \A f \in Field :
    LET about == {i \in DOMAIN events : sent[events[i].request].field = f}
        edit(i) == sent[events[i].request]
        last(i) == i \in about /\ \A j \in about : j <= i
    IN
    /\ override[f] = None <=> \A i \in about : last(i) => edit(i).action = "forget"
    /\ \A i \in about : last(i) /\ edit(i).action = "set" => override[f] = events[i].request
    /\ \A i, j \in about :
         i < j /\ edit(i).authority = "explicit" /\ edit(j).authority = "correction"
           => \E k \in about : i < k /\ k < j /\ edit(k).action = "forget"

\* Whatever changes what the overview shows advances the store revision, which
\* the views' long poll and the edits' compare-and-swap go by (store.ts:881, 1275).
EveryChangeSignals ==
  [][\/ storeRevision' > storeRevision
     \/ \A f \in Field : Shown(f)' = Shown(f)]_vars

\* An edit takes effect once, however often it is sent, even when a clear has
\* deleted the record of it in between (store.ts:1182-1201 and 1300).
AppliedOnce ==
  [][\A r \in Request : sent[r] # None /\ r \in Recorded' => r \in Recorded]_vars

\* "forget only hides the inferences of before; a new observation with a source
\* can still form a new judgement" (docs/ARCHITECTURE.md:104): the newest
\* observation after a forget is shown as long as no checkpoint covers it.
NewJudgementForms ==
  \A f \in Dimension :
    /\ override[f] = None /\ suppressed[f] # None
    /\ Of(f) # {} /\ Newest(f).at > suppressed[f]
    /\ Newest(f) \notin observationCoverage
    => \E e \in Visible(f) : Newest(f) \in e.observations
=============================================================================
