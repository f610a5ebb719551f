----------------------- MODULE ExplainSchedulerProofs -----------------------
(***************************************************************************)
(* Proofs about ExplainScheduler, for any Sessions, jobs, questions, caps   *)
(* and bounds. Each invariant is about a few variables; a lemma says what   *)
(* the steps can do to those, and the invariant is proved from that.        *)
(***************************************************************************)
EXTENDS ExplainScheduler, FiniteSetTheorems, SequenceTheorems,
        WellFoundedInduction, TLAPS

-----------------------------------------------------------------------------
(* The queue itself: what CandidateQueue guarantees for every set of         *)
(* sources, every cap and every number of turns, whoever follows its         *)
(* protocol.                                                                 *)

\* A nonempty set of naturals has a least element.
LEMMA LeastNatural ==
  ASSUME NEW T \in SUBSET Nat, T # {}
  PROVE  \E x \in T : \A y \in T : x <= y
<1>1. PICK x \in T : \A y \in T : ~ (<<y, x>> \in OpToRel(<, Nat))
  BY WFMin, NatLessThanWellFounded
<1>2. \A y \in T : ~(y < x)
  BY <1>1 DEF OpToRel
<1>3. QED
  BY <1>2

\* Among finitely or infinitely many queued candidates with distinct sequence
\* numbers one is earlier than all others: compareCandidates always has a head.
LEMMA EarliestExists ==
  ASSUME NEW p \in [Source -> Candidate \cup {NoCandidate}],
         NEW K \in SUBSET Queued(p), K # {},
         \A s, t \in K : p[s].sequence = p[t].sequence => s = t
  PROVE  \E m \in K : \A t \in K \ {m} : Earlier(p[m], p[t])
<1>1. \A s \in K : p[s] \in Candidate
  BY DEF Queued
<1>2. \A s \in K : p[s].observedAt \in Nat /\ p[s].sequence \in Nat
  BY <1>1, InstantAssumption DEF Candidate
<1> DEFINE A == {p[s].observedAt : s \in K}
<1>3. PICK a \in A : \A b \in A : a <= b
  <2>1. A \in SUBSET Nat /\ A # {}
    BY <1>2
  <2> HIDE DEF A
  <2>2. QED
    BY <2>1, LeastNatural
<1> DEFINE First == {s \in K : p[s].observedAt = a}
           N == {p[s].sequence : s \in First}
<1>4. PICK q \in N : \A r \in N : q <= r
  <2>1. N \in SUBSET Nat /\ N # {}
    BY <1>2, <1>3
  <2> HIDE DEF N
  <2>2. QED
    BY <2>1, LeastNatural
<1>5. PICK m \in First : p[m].sequence = q
  BY <1>4
<1>6. ASSUME NEW t \in K \ {m}
      PROVE  Earlier(p[m], p[t])
  <2>1. CASE t \in First
    <3>1. q <= p[t].sequence
      BY <2>1, <1>4
    <3>2. q # p[t].sequence
      BY <1>5, <1>6
    <3>3. QED
      BY <3>1, <3>2, <1>2, <1>5, <2>1 DEF Earlier
  <2>2. CASE t \notin First
    <3>1. a <= p[t].observedAt /\ a # p[t].observedAt
      BY <1>3, <2>2
    <3>2. QED
      BY <3>1, <1>2, <1>5 DEF Earlier
  <2>3. QED
    BY <2>1, <2>2
<1>7. QED
  BY <1>5, <1>6

\* trim leaves at most cap candidates, whatever it is given: the loop
\* "while (pending.size > limit)" reaches its bound.
LEMMA TrimBound ==
  ASSUME IsFiniteSet(Source),
         NEW p \in [Source -> Candidate \cup {NoCandidate}],
         NEW bound \in Nat,
         \A s, t \in Queued(p) : p[s].sequence = p[t].sequence => s = t
  PROVE  Cardinality(Queued(p) \ Evicted(p, bound)) <= bound
<1> DEFINE K == Queued(p) \ Evicted(p, bound)
           Younger(s) == {t \in Queued(p) : Earlier(p[s], p[t])}
<1>1. IsFiniteSet(Queued(p)) /\ IsFiniteSet(K)
  BY FS_Subset DEF Queued
<1>2. CASE K = {}
  <2>1. Cardinality(K) = 0
    BY <1>2, FS_EmptySet
  <2>2. QED
    BY <2>1
<1>3. CASE K # {}
  <2>1. PICK m \in K : \A t \in K \ {m} : Earlier(p[m], p[t])
    BY <1>3, EarliestExists
  <2>2. K \ {m} \subseteq Younger(m)
    BY <2>1
  <2>3. IsFiniteSet(Younger(m)) /\ Cardinality(Younger(m)) \in Nat
    BY <1>1, FS_Subset, FS_CardinalityType
  <2>4. Cardinality(K \ {m}) <= Cardinality(Younger(m))
    BY <2>2, <2>3, FS_Subset
  <2>5. ~(Cardinality(Younger(m)) >= bound)
    BY DEF Evicted
  <2>6. Cardinality(K \ {m}) = Cardinality(K) - 1
    BY <1>1, FS_RemoveElement
  <2>7. Cardinality(K) \in Nat
    BY <1>1, FS_CardinalityType
  <2>8. QED
    BY <2>3, <2>4, <2>5, <2>6, <2>7
<1>4. QED
  BY <1>2, <1>3

\* The shape of a queue and its retained numbers.
QueueShape(p, l) ==
  /\ p \in [Source -> Candidate \cup {NoCandidate}]
  /\ l \in [Source -> Nat]

\* trim keeps a consistent queue consistent, respects its cap, only removes,
\* and forgets the number of every source it evicts.
LEMMA TrimEffect ==
  ASSUME NEW p, NEW l, NEW n \in Nat, NEW bound \in Nat,
         QueueShape(p, l), Consistent(p, l, n), TrimTo(p, l, bound)
  PROVE  /\ QueueShape(pending', latest')
         /\ Consistent(pending', latest', n)
         /\ Cardinality(Queued(pending')) <= limit'
         /\ limit' = bound
         /\ \A s \in Queued(pending') : s \in Queued(p) /\ pending'[s] = p[s]
         /\ \A s \in Source : latest'[s] \in {l[s], 0}
         /\ \A s \in Source : s \notin Queued(p) => latest'[s] = l[s]
         /\ \A s \in Queued(p) : s \notin Queued(pending') => latest'[s] = 0
<1> USE DEF QueueShape
<1>1. QueueShape(pending', latest')
  BY DEF TrimTo
<1>2. limit' = bound
  BY DEF TrimTo
<1>3. Queued(pending') = Queued(p) \ Evicted(p, bound)
  BY DEF TrimTo, Queued, Evicted
<1>4. \A s \in Queued(pending') : s \in Queued(p) /\ pending'[s] = p[s] /\ latest'[s] = l[s]
  BY <1>3 DEF TrimTo, Queued
<1>5. \A s \in Source : latest'[s] \in {l[s], 0}
  BY DEF TrimTo
<1>6. \A s \in Source : s \notin Queued(p) => latest'[s] = l[s]
  BY DEF TrimTo, Evicted
<1>7. \A s \in Queued(p) : s \notin Queued(pending') => latest'[s] = 0
  <2>1. \A s \in Queued(p) \ Queued(pending') :
           s \in Source /\ s \in Evicted(p, bound) /\ l[s] = p[s].sequence
    BY <1>3 DEF Consistent, Queued
  <2>2. QED
    BY <2>1 DEF TrimTo
<1>8. Consistent(pending', latest', n)
  <2>1. \A s \in Queued(pending') : pending'[s].source = s /\ latest'[s] = pending'[s].sequence
    BY <1>4 DEF Consistent
  <2>2. \A s, t \in Source : latest'[s] # 0 /\ latest'[s] = latest'[t] => s = t
    BY <1>5 DEF Consistent
  <2>3. \A s \in Source : latest'[s] < n
    <3>1. \A s \in Source : l[s] < n /\ l[s] \in Nat
      BY DEF Consistent
    <3>2. QED
      BY <3>1, <1>5
  <2>4. QED
    BY <2>1, <2>2, <2>3 DEF Consistent
<1>9. Cardinality(Queued(pending')) <= limit'
  <2>1. \A s, t \in Queued(p) : p[s].sequence = p[t].sequence => s = t
    <3>1. \A s \in Queued(p) : s \in Source /\ l[s] = p[s].sequence /\ p[s].sequence # 0
      BY DEF Consistent, Queued, Candidate
    <3>2. QED
      BY <3>1 DEF Consistent
  <2>2. QED
    BY <2>1, <1>2, <1>3, TrimBound, SourceAssumption
<1>10. QED
  BY <1>1, <1>2, <1>4, <1>5, <1>6, <1>7, <1>8, <1>9

\* Live numbers only ever come from the previous ones or from a fresh push,
\* so nothing that stopped being live can return.
LEMMA RememberEffect ==
  ASSUME Remember, dropped \cap Live = {},
         \A n \in dropped : n < nextSequence,
         \A n \in Live : n < nextSequence',
         nextSequence' \in Nat, nextSequence \in Nat,
         dropped \subseteq Nat, Live \subseteq Nat,
         nextSequence <= nextSequence',
         \A n \in Live' : n \in Live \/ n = nextSequence
  PROVE  /\ dropped' \subseteq Nat
         /\ dropped' \cap Live' = {}
         /\ \A n \in dropped' : n < nextSequence'
<1> HIDE DEF Live
<1>1. dropped' = dropped \cup (Live \ Live')
  BY DEF Remember
<1>2. \A n \in dropped : n # nextSequence
  OBVIOUS
<1>3. \A n \in dropped : n < nextSequence'
  OBVIOUS
<1>4. QED
  BY <1>1, <1>2, <1>3

\* The numbers a consistent queue answers for were handed out before.
LEMMA LiveBound ==
  ASSUME QueueInv
  PROVE  /\ Live \subseteq Nat
         /\ \A n \in Live : n < nextSequence
<1>1. \A s \in Queued(pending) : pending[s].sequence \in Nat
                               /\ pending[s].sequence < nextSequence
  <2>1. \A s \in Queued(pending) : s \in Source /\ pending[s] \in Candidate
    BY DEF Queued, QueueInv, QueueTypeOK
  <2>2. QED
    BY <2>1 DEF QueueInv, Consistent, Candidate
<1>2. held # NoCandidate => held.sequence \in Nat /\ held.sequence < nextSequence
  BY DEF QueueInv, QueueTypeOK, HeldOK, Candidate
<1>3. QED
  BY <1>1, <1>2 DEF Live

\* One argument for push, trim, retry and defer: each hands trim a consistent
\* queue that differs from the old one in at most one source, and leaves the
\* candidate in flight alone.
LEMMA TrimStep ==
  ASSUME QueueInv, NEW p, NEW l, NEW bound \in Nat,
         QueueShape(p, l), Consistent(p, l, nextSequence'), TrimTo(p, l, bound),
         \A s \in Queued(p) : p[s].sequence \in Live \/ p[s].sequence = nextSequence,
         \A s \in Source \ Queued(p) : s \notin Queued(pending) /\ l[s] = latest[s],
         nextSequence' \in Nat \ {0}, nextSequence <= nextSequence',
         held' = held, phase' \in {"idle", "running", "returned"},
         phase' = "idle" <=> phase = "idle",
         Remember
  PROVE  QueueInv'
<1>1. /\ QueueShape(pending', latest')
      /\ Consistent(pending', latest', nextSequence')
      /\ Cardinality(Queued(pending')) <= limit'
      /\ limit' = bound
      /\ \A s \in Queued(pending') : s \in Queued(p) /\ pending'[s] = p[s]
      /\ \A s \in Source : latest'[s] \in {l[s], 0}
      /\ \A s \in Source : s \notin Queued(p) => latest'[s] = l[s]
      /\ \A s \in Queued(p) : s \notin Queued(pending') => latest'[s] = 0
  BY TrimEffect
<1>2. Live \subseteq Nat /\ \A n \in Live : n < nextSequence
  BY LiveBound
<1>3. nextSequence \in Nat /\ dropped \subseteq Nat /\ dropped \cap Live = {}
        /\ \A n \in dropped : n < nextSequence
  BY DEF QueueInv, QueueTypeOK
<1>4. held # NoCandidate => /\ held \in Candidate
                            /\ held.source \in Source
                            /\ held.sequence \in Nat \ {0}
                            /\ held.sequence < nextSequence
  BY DEF QueueInv, QueueTypeOK, HeldOK, Candidate
<1>5. HeldOK'
  <2> SUFFICES ASSUME held # NoCandidate,
                      held.source \notin Queued(pending')
               PROVE  latest'[held.source] \in {0, held.sequence}
    <3>1. held # NoCandidate => held.sequence < nextSequence'
      BY <1>3, <1>4
    <3>2. QED
      BY <3>1 DEF HeldOK
  <2>1. CASE held.source \in Queued(p)
    BY <2>1, <1>1
  <2>2. CASE held.source \notin Queued(p)
    BY <2>2, <1>1, <1>4 DEF QueueInv, HeldOK
  <2>3. QED
    BY <2>1, <2>2
<1>6. Retained' \subseteq Queued(pending') \cup {c.source : c \in {held'} \ {NoCandidate}}
  <2> SUFFICES ASSUME NEW s \in Source, latest'[s] # 0, s \notin Queued(pending')
               PROVE  s \in {c.source : c \in {held} \ {NoCandidate}}
    BY DEF Retained
  <2>1. s \notin Queued(p)
    BY <1>1
  <2>2. s \notin Queued(pending) /\ latest[s] # 0
    BY <1>1, <2>1
  <2>3. QED
    BY <2>2 DEF QueueInv, Retained
<1>7. \A n \in Live' : n \in Live \/ n = nextSequence
  <2>1. \A s \in Queued(pending') :
          pending'[s].sequence \in Live \/ pending'[s].sequence = nextSequence
    BY <1>1
  <2>2. ASSUME held # NoCandidate, latest'[held.source] = held.sequence
        PROVE  held.sequence \in Live \/ held.sequence = nextSequence
    <3>1. l[held.source] = held.sequence
      BY <1>1, <1>4, <2>2
    <3>2. CASE held.source \in Queued(p)
      <4>1. p[held.source].sequence = held.sequence
        BY <3>1, <3>2 DEF Consistent
      <4>2. QED
        BY <4>1, <3>2
    <3>3. CASE held.source \notin Queued(p)
      <4>1. latest[held.source] = held.sequence
        BY <2>2, <3>1, <3>3, <1>4
      <4>2. QED
        BY <4>1, <2>2 DEF Live, IsLatest
    <3>4. QED
      BY <3>2, <3>3
  <2>3. QED
    BY <2>1, <2>2 DEF Live, IsLatest
<1>8. /\ dropped' \subseteq Nat
      /\ dropped' \cap Live' = {}
      /\ \A n \in dropped' : n < nextSequence'
  <2>1. \A n \in Live : n < nextSequence'
    BY <1>2, <1>3
  <2>2. QED
    BY <2>1, <1>2, <1>3, <1>7, RememberEffect
<1>9. QueueTypeOK'
  BY <1>1, <1>8 DEF QueueTypeOK, QueueShape, QueueInv
<1>10. QED
  BY <1>1, <1>5, <1>6, <1>8, <1>9 DEF QueueInv, CapHolds

\* A new turn takes a fresh number, so it replaces whatever its source had.
LEMMA PushStep ==
  ASSUME QueueInv, NEW s \in Source, NEW at \in Instant, NEW bound \in Caps, Push(s, at, bound)
  PROVE  QueueInv'
<1> DEFINE c == [source |-> s, observedAt |-> at, sequence |-> nextSequence, attempts |-> 0]
           p == [pending EXCEPT ![s] = c]
           l == [latest EXCEPT ![s] = nextSequence]
<1>1. /\ TrimTo(p, l, bound) /\ Remember
      /\ nextSequence' = nextSequence + 1
      /\ held' = held /\ phase' = phase
  BY DEF Push
<1>2. c \in Candidate /\ bound \in Nat /\ nextSequence \in Nat \ {0} /\ c # NoCandidate
  BY AttemptsAssumption, CapsAssumption,
     NoCandidateAssumption DEF QueueInv, QueueTypeOK, Candidate
<1>3. QueueShape(p, l)
  BY <1>2 DEF QueueShape, QueueInv, QueueTypeOK
<1>4. Queued(p) = Queued(pending) \cup {s}
  BY <1>2 DEF Queued, QueueInv, QueueTypeOK
<1>5. Consistent(p, l, nextSequence')
  <2>1. \A t \in Queued(p) : p[t].source = t /\ l[t] = p[t].sequence
    BY <1>4 DEF QueueInv, QueueTypeOK, Consistent, Queued
  <2>2. \A t \in Source : latest[t] \in Nat /\ latest[t] < nextSequence
    BY DEF QueueInv, QueueTypeOK, Consistent
  <2>3. \A t, u \in Source : l[t] # 0 /\ l[t] = l[u] => t = u
    BY <1>2, <2>2 DEF QueueInv, QueueTypeOK, Consistent
  <2>4. \A t \in Source : l[t] < nextSequence'
    BY <1>1, <1>2, <2>2 DEF QueueInv, QueueTypeOK
  <2>5. QED
    BY <2>1, <2>3, <2>4 DEF Consistent
<1>6. \A t \in Queued(p) : p[t].sequence \in Live \/ p[t].sequence = nextSequence
  BY <1>4 DEF Live, Queued, QueueInv, QueueTypeOK
<1>7. \A t \in Source \ Queued(p) : t \notin Queued(pending) /\ l[t] = latest[t]
  BY <1>4 DEF QueueInv, QueueTypeOK
<1>8. phase \in {"idle", "running", "returned"}
  BY DEF QueueInv, QueueTypeOK
<1> HIDE DEF c, p, l
<1>9. QED
  BY <1>1, <1>2, <1>3, <1>5, <1>6, <1>7, <1>8, TrimStep

\* A trim alone only removes.
LEMMA TrimOnlyStep ==
  ASSUME QueueInv, NEW bound \in Caps, Trim(bound)
  PROVE  QueueInv'
<1>1. /\ TrimTo(pending, latest, bound) /\ Remember
      /\ nextSequence' = nextSequence /\ held' = held /\ phase' = phase
  BY DEF Trim
<1>2. bound \in Nat /\ nextSequence \in Nat \ {0} /\ phase \in {"idle", "running", "returned"}
  BY CapsAssumption DEF QueueInv, QueueTypeOK
<1>3. QueueShape(pending, latest) /\ Consistent(pending, latest, nextSequence')
  BY <1>1 DEF QueueShape, QueueInv, QueueTypeOK
<1>4. \A t \in Queued(pending) : pending[t].sequence \in Live
  BY DEF Live
<1>5. QED
  BY <1>1, <1>2, <1>3, <1>4, TrimStep

\* Retry and defer: a candidate given back is the latest of its source or is
\* ignored.
LEMMA GiveBackStep ==
  ASSUME QueueInv, held # NoCandidate, NEW c \in Candidate,
         c.source = held.source, c.sequence = held.sequence,
         GiveBack(c), phase' = "returned", phase = "running",
         nextSequence' = nextSequence, held' = held, Remember
  PROVE  QueueInv'
<1> DEFINE p == [pending EXCEPT ![c.source] = c]
<1>1. /\ c.source \in Source /\ c # NoCandidate /\ c.sequence # 0
      /\ limit \in Nat /\ nextSequence \in Nat \ {0}
  BY NoCandidateAssumption DEF Candidate, QueueInv, QueueTypeOK
<1>2. CASE IsLatest(c)
  <2>1. TrimTo(p, latest, limit)
    BY <1>2 DEF GiveBack
  <2>2. QueueShape(p, latest)
    BY <1>1 DEF QueueShape, QueueInv, QueueTypeOK
  <2>3. Queued(p) = Queued(pending) \cup {c.source}
    BY <1>1 DEF Queued, QueueInv, QueueTypeOK
  <2>4. Consistent(p, latest, nextSequence')
    <3>1. \A t \in Queued(p) : p[t].source = t /\ latest[t] = p[t].sequence
      BY <1>1, <1>2, <2>3 DEF QueueInv, QueueTypeOK, Consistent, Queued, IsLatest
    <3>2. QED
      BY <3>1 DEF Consistent, QueueInv
  <2>5. \A t \in Queued(p) : p[t].sequence \in Live
    <3>1. c.sequence \in Live
      BY <1>2 DEF Live, IsLatest
    <3>2. QED
      BY <3>1, <2>3, <1>1 DEF Live, Queued, QueueInv, QueueTypeOK
  <2>6. \A t \in Source \ Queued(p) : t \notin Queued(pending)
    BY <2>3
  <2> HIDE DEF p
  <2>7. QED
    BY <1>1, <2>1, <2>2, <2>4, <2>5, <2>6, TrimStep
<1>3. CASE ~IsLatest(c)
  <2>1. UNCHANGED <<pending, latest, limit, nextSequence, held>>
    BY <1>3 DEF GiveBack
  <2>2. Live' = Live /\ dropped' = dropped
    BY <2>1 DEF Live, IsLatest, Remember
  <2>3. QED
    BY <2>1, <2>2 DEF QueueInv, QueueTypeOK, Consistent, HeldOK, Retained, CapHolds
<1>4. QED
  BY <1>2, <1>3

\* A retry hands back the candidate in flight with one attempt more.
LEMMA RetryStep ==
  ASSUME QueueInv, Retry PROVE QueueInv'
<1> DEFINE c == [held EXCEPT !.attempts = @ + 1]
<1>1. held \in Candidate /\ held # NoCandidate
  BY DEF Retry, QueueInv, QueueTypeOK
<1>2. c \in Candidate /\ c.source = held.source /\ c.sequence = held.sequence
  BY <1>1, AttemptsAssumption DEF Retry, Candidate
<1>3. QED
  BY <1>1, <1>2, GiveBackStep DEF Retry

\* A deferral hands it back as it was.
LEMMA DeferStep ==
  ASSUME QueueInv, Defer PROVE QueueInv'
<1>1. held \in Candidate /\ held # NoCandidate
  BY DEF Defer, QueueInv, QueueTypeOK
<1>2. QED
  BY <1>1, GiveBackStep DEF Defer

\* Taking moves a candidate from the queue to the drain, its number still live.
LEMMA TakeStep ==
  ASSUME QueueInv, NEW blocked \in SUBSET Source, Take(blocked) PROVE QueueInv'
<1>1. PICK s \in Queued(pending) \ blocked :
        /\ held' = pending[s]
        /\ pending' = [pending EXCEPT ![s] = NoCandidate]
  BY DEF Take
<1>2. /\ phase = "idle" /\ phase' = "running" /\ Remember /\ held = NoCandidate
      /\ UNCHANGED <<latest, nextSequence, limit>>
  BY DEF Take, QueueInv, QueueTypeOK
<1>3. /\ s \in Source /\ pending[s] \in Candidate /\ pending[s] # NoCandidate
      /\ pending[s].source = s /\ latest[s] = pending[s].sequence
      /\ pending[s].sequence < nextSequence
  BY DEF Queued, QueueInv, QueueTypeOK, Consistent
<1>4. Queued(pending') = Queued(pending) \ {s}
  BY <1>1, <1>3 DEF Queued, QueueInv, QueueTypeOK
<1>5. \A t \in Queued(pending') : pending'[t] = pending[t]
  BY <1>1, <1>4 DEF Queued, QueueInv, QueueTypeOK
<1>6. /\ dropped' \subseteq Nat
      /\ dropped' \cap Live' = {}
      /\ \A n \in dropped' : n < nextSequence'
  <2>1. \A t \in Queued(pending') : pending'[t].sequence \in Live
    BY <1>4, <1>5 DEF Live
  <2>2. held'.sequence \in Live
    BY <1>1 DEF Live
  <2>3. \A n \in Live' : n \in Live
    BY <2>1, <2>2 DEF Live
  <2>4. Live \subseteq Nat /\ \A n \in Live : n < nextSequence'
    BY <1>2, LiveBound
  <2>5. /\ dropped \subseteq Nat /\ dropped \cap Live = {} /\ nextSequence \in Nat
        /\ \A n \in dropped : n < nextSequence
    BY DEF QueueInv, QueueTypeOK
  <2>6. QED
    BY <2>3, <2>4, <2>5, <1>2, RememberEffect
<1>7. QueueTypeOK'
  BY <1>1, <1>2, <1>3, <1>6 DEF QueueTypeOK, QueueInv
<1>8. Consistent(pending', latest', nextSequence')
  BY <1>2, <1>4, <1>5 DEF Consistent, QueueInv
<1>9. HeldOK'
  BY <1>1, <1>2, <1>3 DEF HeldOK
<1>10. Retained' \subseteq Queued(pending') \cup {c.source : c \in {held'} \ {NoCandidate}}
  BY <1>1, <1>2, <1>3, <1>4 DEF QueueInv, Retained
<1>11. CapHolds'
  <2>1. IsFiniteSet(Queued(pending)) /\ Queued(pending') \subseteq Queued(pending)
    BY <1>4, FS_Subset, SourceAssumption DEF Queued
  <2>2. /\ Cardinality(Queued(pending')) <= Cardinality(Queued(pending))
        /\ Cardinality(Queued(pending')) \in Nat /\ Cardinality(Queued(pending)) \in Nat
    BY <2>1, FS_Subset, FS_CardinalityType
  <2>3. QED
    BY <2>2, <1>2 DEF CapHolds, QueueInv, QueueTypeOK
<1>12. QED
  BY <1>6, <1>7, <1>8, <1>9, <1>10, <1>11 DEF QueueInv

\* The end of a run leaves the queue alone.
LEMMA CompleteStep ==
  ASSUME QueueInv, Complete PROVE QueueInv'
<1>1. UNCHANGED <<pending, latest, nextSequence, limit, held>> /\ Remember
        /\ phase = "running" /\ phase' = "returned"
  BY DEF Complete
<1>2. Live' = Live /\ dropped' = dropped
  BY <1>1 DEF Live, IsLatest, Remember
<1>3. QED
  BY <1>1, <1>2 DEF QueueInv, QueueTypeOK, Consistent, HeldOK, Retained, CapHolds

\* Finishing releases the identity nothing queued answers for any more.
LEMMA FinishStep ==
  ASSUME QueueInv, Finish PROVE QueueInv'
<1>1. /\ held \in Candidate /\ held # NoCandidate /\ held.source \in Source
      /\ held.sequence # 0 /\ held' = NoCandidate /\ phase' = "idle"
      /\ UNCHANGED <<pending, nextSequence, limit>> /\ Remember
      /\ latest' = IF held.source \notin Queued(pending) /\ IsLatest(held)
                   THEN [latest EXCEPT ![held.source] = 0] ELSE latest
  BY DEF Finish, QueueInv, QueueTypeOK, Candidate
<1>2. \A t \in Source : latest'[t] \in {latest[t], 0}
  BY <1>1 DEF QueueInv, QueueTypeOK
<1>3. \A t \in Queued(pending) : latest'[t] = latest[t]
  BY <1>1 DEF QueueInv, QueueTypeOK, Queued
<1>4. \A n \in Live' : n \in Live
  BY <1>1 DEF Live
<1>5. /\ dropped' \subseteq Nat
      /\ dropped' \cap Live' = {}
      /\ \A n \in dropped' : n < nextSequence'
  <2>1. Live \subseteq Nat /\ \A n \in Live : n < nextSequence'
    BY <1>1, LiveBound
  <2>2. /\ dropped \subseteq Nat /\ dropped \cap Live = {} /\ nextSequence \in Nat
        /\ \A n \in dropped : n < nextSequence
    BY DEF QueueInv, QueueTypeOK
  <2>3. QED
    BY <2>1, <2>2, <1>1, <1>4, RememberEffect
<1>6. QueueTypeOK'
  BY <1>1, <1>5 DEF QueueInv, QueueTypeOK
<1>7. Consistent(pending', latest', nextSequence')
  <2>1. \A t \in Source : latest'[t] < nextSequence'
    BY <1>1, <1>2 DEF QueueInv, QueueTypeOK, Consistent
  <2>2. QED
    BY <2>1, <1>1, <1>2, <1>3 DEF QueueInv, Consistent
<1>8. Retained' \subseteq Queued(pending')
  <2> SUFFICES ASSUME NEW t \in Source, latest'[t] # 0, t \notin Queued(pending)
               PROVE  FALSE
    BY <1>1 DEF Retained
  <2>1. latest[t] # 0
    BY <1>2
  <2>2. t = held.source
    BY <2>1 DEF QueueInv, Retained
  <2>3. latest[t] = held.sequence
    BY <2>1, <2>2, <1>1 DEF QueueInv, HeldOK
  <2>4. QED
    BY <2>2, <2>3, <1>1 DEF IsLatest, QueueInv, QueueTypeOK
<1>9. QED
  BY <1>1, <1>5, <1>6, <1>7, <1>8 DEF QueueInv, HeldOK, CapHolds

\* A clear forgets every identity; the candidate in flight finds none.
LEMMA ClearStep ==
  ASSUME QueueInv, NEW bound \in Caps \cup {limit}, Clear(bound) PROVE QueueInv'
<1>1. /\ pending' = [s \in Source |-> NoCandidate]
      /\ latest' = [s \in Source |-> 0]
      /\ limit' = bound
      /\ UNCHANGED <<nextSequence, held, phase>> /\ Remember
  BY DEF Clear
<1>2. Queued(pending') = {} /\ Retained' = {}
  BY <1>1 DEF Queued, Retained
<1>3. nextSequence \in Nat \ {0} /\ bound \in Nat
        /\ (held # NoCandidate => held \in Candidate)
  BY CapsAssumption DEF QueueInv, QueueTypeOK
<1>4. \A n \in Live' : n \in Live
  BY <1>1, <1>2, <1>3 DEF Live, IsLatest, Candidate
<1>5. /\ dropped' \subseteq Nat
      /\ dropped' \cap Live' = {}
      /\ \A n \in dropped' : n < nextSequence'
  <2>1. Live \subseteq Nat /\ \A n \in Live : n < nextSequence'
    BY <1>1, LiveBound
  <2>2. /\ dropped \subseteq Nat /\ dropped \cap Live = {} /\ nextSequence \in Nat
        /\ \A n \in dropped : n < nextSequence
    BY DEF QueueInv, QueueTypeOK
  <2>3. QED
    BY <2>1, <2>2, <1>1, <1>4, RememberEffect
<1>6. QueueTypeOK'
  BY <1>1, <1>3, <1>5 DEF QueueInv, QueueTypeOK
<1>7. Consistent(pending', latest', nextSequence')
  BY <1>1, <1>2, <1>3 DEF Consistent
<1>8. HeldOK'
  BY <1>1, <1>3 DEF QueueInv, HeldOK, Candidate
<1>9. CapHolds'
  BY <1>1, <1>2, <1>3, FS_EmptySet DEF CapHolds
<1>10. QED
  BY <1>2, <1>5, <1>6, <1>7, <1>8, <1>9 DEF QueueInv

\* The empty queue is consistent.
LEMMA QueueInitInv == QueueInit => QueueInv
<1> SUFFICES ASSUME QueueInit PROVE QueueInv
  OBVIOUS
<1>1. Queued(pending) = {} /\ Retained = {} /\ Live = {}
  BY DEF QueueInit, Queued, Retained, Live
<1>2. CapHolds
  BY <1>1, FS_EmptySet DEF CapHolds, QueueInit
<1>3. QueueTypeOK
  BY DEF QueueInit, QueueTypeOK
<1>4. Consistent(pending, latest, nextSequence) /\ HeldOK
  BY <1>1 DEF QueueInit, Consistent, HeldOK
<1>5. QED
  BY <1>1, <1>2, <1>3, <1>4 DEF QueueInit, QueueInv

\* Every step of the protocol preserves the inductive invariant.
LEMMA QueueNextInv == QueueInv /\ [QueueNext]_queueVars => QueueInv'
<1> SUFFICES ASSUME QueueInv, [QueueNext]_queueVars PROVE QueueInv'
  OBVIOUS
<1>1. CASE \E s \in Source, at \in Instant, bound \in Caps : Push(s, at, bound)
  BY <1>1, PushStep
<1>2. CASE \E bound \in Caps : Trim(bound)
  BY <1>2, TrimOnlyStep
<1>3. CASE \E blocked \in SUBSET Source : Take(blocked)
  BY <1>3, TakeStep
<1>4. CASE Retry
  BY <1>4, RetryStep
<1>5. CASE Defer
  BY <1>5, DeferStep
<1>6. CASE Complete
  BY <1>6, CompleteStep
<1>7. CASE Finish
  BY <1>7, FinishStep
<1>8. CASE \E bound \in Caps \cup {limit} : Clear(bound)
  BY <1>8, ClearStep
<1>9. CASE UNCHANGED queueVars
  BY <1>9 DEF queueVars, QueueInv, QueueTypeOK, Consistent, HeldOK, Retained, CapHolds,
              Live,
              Queued, IsLatest
<1>10. QED
  BY <1>1, <1>2, <1>3, <1>4, <1>5, <1>6, <1>7, <1>8, <1>9 DEF QueueNext

\* The inductive invariant holds of every behaviour of the queue.
THEOREM QueueInvariant == QueueSpec => []QueueInv
<1>1. QED
  BY QueueInitInv, QueueNextInv, PTL DEF QueueSpec

\* The variables keep their types: attempts stay below maxAttempts, and the
\* drain holds a candidate exactly between take and finish.
THEOREM QueueIsTyped == QueueSpec => []QueueTypeOK
<1>1. QueueInv => QueueTypeOK
  BY DEF QueueInv
<1>2. QED
  BY <1>1, QueueInvariant, PTL

\* The live cap bounds the queue after every operation, for every number of
\* sources and every sequence of cap changes.
THEOREM QueueStaysInCap == QueueSpec => []CapHolds
<1>1. QueueInv => CapHolds
  BY DEF QueueInv
<1>2. QED
  BY <1>1, QueueInvariant, PTL

\* No replaced, evicted or cleared candidate is ever queued again.
THEOREM QueueResurrectsNone == QueueSpec => []NoResurrection
<1>1. QueueInv => NoResurrection
  BY DEF QueueInv, NoResurrection, Live
<1>2. QED
  BY <1>1, QueueInvariant, PTL

\* The retained identities are those queued and at most the one in flight, so
\* there are at most limit + 1 of them.
THEOREM QueueRetainsFew == QueueSpec => []RetainedBounded
<1>1. ASSUME QueueInv PROVE RetainedBounded
  <2> DEFINE H == {c.source : c \in {held} \ {NoCandidate}}
  <2>1. Retained \subseteq Queued(pending) \cup H
    BY <1>1 DEF QueueInv
  <2>2. IsFiniteSet(Queued(pending)) /\ Cardinality(Queued(pending)) \in Nat
    BY FS_Subset, FS_CardinalityType, SourceAssumption DEF Queued
  <2>3. Queued(pending) \cup H \subseteq Queued(pending) \cup {held.source}
    OBVIOUS
  <2>4. /\ IsFiniteSet(Queued(pending) \cup {held.source})
        /\ Cardinality(Queued(pending) \cup {held.source}) <= Cardinality(Queued(pending)) + 1
        /\ Cardinality(Queued(pending) \cup {held.source}) \in Nat
    BY <2>2, FS_AddElement, FS_CardinalityType
  <2>5. /\ IsFiniteSet(Retained)
        /\ Cardinality(Retained) <= Cardinality(Queued(pending) \cup {held.source})
        /\ Cardinality(Retained) \in Nat
    <3>1. Retained \in SUBSET (Queued(pending) \cup {held.source})
      BY <2>1, <2>3
    <3>2. QED
      BY <3>1, <2>4, FS_Subset, FS_CardinalityType
  <2>6. Cardinality(Queued(pending)) <= limit /\ limit \in Nat
    BY <1>1 DEF QueueInv, CapHolds, QueueTypeOK
  <2>7. Cardinality(Retained) <= limit + 1
    BY <2>2, <2>4, <2>5, <2>6
  <2>8. QED
    BY <2>1, <2>7 DEF RetainedBounded
<1>2. QED
  BY <1>1, QueueInvariant, PTL

-----------------------------------------------------------------------------
(* The queue's protocol.                                                    *)

\* Who touches the queue: a captured turn, a change of settings and a clear,
\* and the drain with the candidate it holds.
LEMMA QueueByUser ==
  ASSUME UserStep
  PROVE  UNCHANGED queueVars \/ \E s \in Source, at \in Instant : Push(s, at, cap)
BY DEF UserStep, RequestManual, RequestReviewAnswer, CallerAborts, TurnEnds, TurnCaptured,
       Understood, NotUnderstood, NotUnderstoodAgain, ReopenTopic, LearningStateChanged

\* The host's events trim it to a cap or clear it.
LEMMA QueueByHost ==
  ASSUME HostStep
  PROVE  \/ UNCHANGED queueVars
         \/ \E c \in Caps \cup {cap} : Trim(c)
         \/ \E c \in {cap, limit} : Clear(c)
BY DEF HostStep, Disable, Enable, ChangeRoute, AdaptersUpdated, ChangePrompt, ChangeLimits,
       RouteOutdated, RouteResolved, RouteRejected, RefreshLeaves, LeaseLost, ResetBegins,
       ResetEnds, Dispose, BudgetTimer, IdleTimer

\* The drain's steps are the protocol of taking, returning and finishing.
LEMMA QueueByLoop ==
  ASSUME LoopStep
  PROVE  UNCHANGED queueVars \/ Take(open) \/ Complete \/ Finish
BY DEF LoopStep, TakeManual, TakeReview, TakeCandidate, TakeIdle, TakeRephrase,
       SummaryInvalid, DrainRests, DrainQuits, DrainThrows, DrainEnds, CandidateThrown,
       CandidateFinished

\* A request in flight hands its candidate back or lets it go.
LEMMA QueueByRun ==
  ASSUME RunStep
  PROVE  UNCHANGED queueVars \/ Defer \/ Complete \/ Retry
BY DEF RunStep, Relieved, CandidateRelieved, CandidateAnswered, CandidateFails,
       ManualAnswered, ReviewAnswered, ExplicitFails, RephraseAnswered, RephraseFails,
       IdleEnds, GiveUp

Capped == cap \in Caps

\* Only a change of maxPendingCandidates changes the cap.
LEMMA CapStep ==
  ASSUME Capped, [Next]_vars
  PROVE  Capped'
BY DEF Capped, Next, UserStep, RequestManual, RequestReviewAnswer, CallerAborts,
       TurnEnds, TurnCaptured,
       Understood, NotUnderstood, NotUnderstoodAgain, ReopenTopic, LearningStateChanged,
       HostStep, Disable, Enable, ChangeRoute, AdaptersUpdated, ChangePrompt, ChangeLimits,
       RouteOutdated, RouteResolved, RouteRejected, RefreshLeaves, LeaseLost, ResetBegins,
       ResetEnds, Dispose, BudgetTimer, IdleTimer,
       LoopStep, TakeManual, TakeReview, TakeCandidate, TakeIdle, TakeRephrase,
       SummaryInvalid, DrainRests, DrainQuits, DrainThrows, DrainEnds, CandidateThrown,
       CandidateFinished,
       RunStep, Relieved, CandidateRelieved, CandidateAnswered, CandidateFails,
       ManualAnswered, ReviewAnswered, ExplicitFails, RephraseAnswered, RephraseFails,
       IdleEnds, settingVars, vars

\* Every step of the scheduler is one that the queue's protocol allows, or
\* leaves the queue alone.
LEMMA QueueStep ==
  ASSUME Capped, [Next]_vars
  PROVE  [QueueNext]_queueVars
<1>1. CASE UNCHANGED queueVars
  BY <1>1 DEF queueVars, queueVars
<1>2. CASE UserStep
  BY <1>1, <1>2, QueueByUser DEF QueueNext, Capped
<1>3. CASE HostStep
  BY <1>1, <1>3, QueueByHost DEF QueueNext, Capped
<1>4. CASE LoopStep
  <2>1. Take(open) => Take(open \cap Source)
    <3>1. Queued(pending) \ open = Queued(pending) \ (open \cap Source)
      BY DEF Queued
    <3> QED
      BY <3>1 DEF Take
  <2> QED
    BY <1>1, <1>4, <2>1, QueueByLoop DEF QueueNext
<1>5. CASE RunStep
  BY <1>1, <1>5, QueueByRun DEF QueueNext
<1>6. CASE UNCHANGED vars
  BY <1>1, <1>6 DEF vars
<1> QED
  BY <1>2, <1>3, <1>4, <1>5, <1>6 DEF Next

\* In all that the scheduler does, it takes, hands back and finishes candidates
\* as queue.ts demands: the scheduler implements the protocol of CandidateQueue.
THEOREM KeepsTheProtocol == Spec => QueueProtocol
<1>1. Init => QueueInit /\ Capped
  BY DEF Init, Capped
<1>2. Capped /\ [Next]_vars => Capped' /\ [QueueNext]_queueVars
  BY CapStep, QueueStep
<1> QED
  BY <1>1, <1>2, PTL DEF Spec, QueueProtocol, QueueSpec

\* What is shown of the protocol holds of the queue in the scheduler.
LEMMA QueueAlways == Spec => []QueueInv
BY KeepsTheProtocol, QueueInvariant, PTL DEF QueueProtocol

\* In the scheduler too, the queue stays within its cap, what it gave up on
\* never comes back, and a candidate is held exactly while its turn runs.
THEOREM QueueKeepsItsPromises ==
  Spec => [](CapHolds /\ NoResurrection /\ QueueTypeOK)
<1>1. QueueInv => CapHolds /\ NoResurrection /\ QueueTypeOK
  BY DEF QueueInv, NoResurrection, Live, Queued
<1> QED
  BY <1>1, QueueAlways, PTL

-----------------------------------------------------------------------------
(* The lines of explicit requests.                                          *)

\* Splicing j out leaves the rest of the line, in its order.
LEMMA SplicedLine ==
  ASSUME NEW J, NEW queue \in Seq(J), NEW j
  PROVE  /\ Spliced(queue, j) \in Seq(J)
         /\ \/ Spliced(queue, j) = queue /\ \A i \in DOMAIN queue : queue[i] # j
            \/ \E at \in DOMAIN queue :
                 /\ queue[at] = j
                 /\ DOMAIN Spliced(queue, j) = 1..Len(queue) - 1
                 /\ \A i \in 1..Len(queue) - 1 :
                      Spliced(queue, j)[i] = queue[IF i < at THEN i ELSE i + 1]
<1>1. CASE ~\E i \in DOMAIN queue : queue[i] = j
  BY <1>1 DEF Spliced
<1>2. CASE \E i \in DOMAIN queue : queue[i] = j
  <2> DEFINE at == CHOOSE i \in DOMAIN queue : queue[i] = j
             rest == [i \in 1..Len(queue) - 1 |->
                        IF i < at THEN queue[i] ELSE queue[i + 1]]
  <2>1. at \in DOMAIN queue /\ queue[at] = j
    BY <1>2
  <2>2. Spliced(queue, j) = rest
    BY <1>2 DEF Spliced
  <2>3. Len(queue) \in Nat /\ DOMAIN queue = 1..Len(queue)
    BY LenProperties
  <2>4. \A i \in 1..Len(queue) - 1 : rest[i] = queue[IF i < at THEN i ELSE i + 1]
    BY <2>3
  <2>5. \A i \in 1..Len(queue) - 1 : rest[i] \in J
    BY <2>3, <2>4, <2>1, ElementOfSeq
  <2>6. rest \in Seq(J)
    BY <2>1, <2>3, <2>5, IsASeq
  <2> QED
    BY <2>1, <2>2, <2>4, <2>6
<1> QED
  BY <1>1, <1>2

\* The types of what the proofs below are about.
Shape ==
  /\ run \in Run \cup {NoRun} /\ world \in Nat
  /\ open \subseteq Source /\ rephrasing \subseteq open
  /\ manualQueue \in Seq(ManualJob) /\ reviewQueue \in Seq(ReviewJob)
  /\ state \in [Job -> {"new", "queued", "active", "ok", "failed"}]

\* An aborted request is the same request.
LEMMA AbortedRun ==
  ASSUME run \in Run \cup {NoRun}, NEW keeps \in BOOLEAN
  PROVE  /\ Aborted(keeps) \in Run \cup {NoRun}
         /\ Aborted(keeps) = NoRun <=> run = NoRun
         /\ run # NoRun => /\ Aborted(keeps).kind = run.kind /\ Aborted(keeps).of = run.of
                           /\ Aborted(keeps).stage = run.stage
                           /\ Aborted(keeps).aborted
BY NoRunAssumption DEF Aborted, Run

\* Users and the host never take the request or the candidate from the drain:
\* they abort the request, and wake the drain when there is none.
LEMMA BesideTheDrain ==
  ASSUME UserStep \/ HostStep
  PROVE  /\ run' = run \/ \E keeps \in BOOLEAN : run' = Aborted(keeps)
         /\ drain' = drain \/ (drain = "none" /\ drain' = "entered")
         /\ UNCHANGED <<held, phase>>
<1>1. CASE UserStep
  BY <1>1
  DEF UserStep, RequestManual, RequestReviewAnswer, CallerAborts, TurnEnds, TurnCaptured,
      Understood, NotUnderstood, NotUnderstoodAgain, ReopenTopic, LearningStateChanged,
      CancelCurrent, Preempt, Kick, Push, queueVars
<1>2. CASE HostStep
  BY <1>2
  DEF HostStep, Disable, Enable, ChangeRoute, AdaptersUpdated, ChangePrompt, ChangeLimits,
      RouteOutdated, RouteResolved, RouteRejected, RefreshLeaves, LeaseLost, ResetBegins,
      ResetEnds, Dispose, BudgetTimer, IdleTimer,
      CancelCurrent, Kick, Reschedule, Trim, Clear, queueVars
<1> QED
  BY <1>1, <1>2

\* mustRoute: with a route a request is in flight, without one the run throws.
LEMMA Started ==
  ASSUME Shape, NEW kind \in {"manual", "review", "rephrase", "auto", "idle"},
         NEW of \in Job \cup Source \cup {NoRun}, NEW stage \in {"relieving", "asking"},
         Start(kind, of, stage)
  PROVE  \/ run' = NoRun /\ drain' = "throwing"
         \/ /\ run' \in Run /\ run' # NoRun /\ run'.kind = kind /\ run'.of = of
            /\ run'.basis = world /\ ~run'.aborted
            /\ drain' = "running"
<1> DEFINE r == [kind |-> kind, of |-> of, aborted |-> FALSE, fresh |-> TRUE,
                 stage |-> stage, basis |-> world]
<1>1. r \in Run
  BY DEF Shape, Run
<1>2. r # NoRun
  BY <1>1, NoRunAssumption
<1>3. CASE routed
  <2>1. run' = r /\ drain' = "running"
    BY <1>3 DEF Start
  <2>2. r.kind = kind /\ r.of = of /\ r.basis = world /\ r.aborted = FALSE
    OBVIOUS
  <2> HIDE DEF r
  <2> QED
    BY <1>1, <1>2, <2>1, <2>2
<1>4. CASE ~routed
  BY <1>4 DEF Start
<1> QED
  BY <1>3, <1>4

\* The jobs at the heads of the lines.
LEMMA Heads ==
  ASSUME Shape
  PROVE  /\ manualQueue # <<>> => Head(manualQueue) \in ManualJob
         /\ reviewQueue # <<>> => Head(reviewQueue) \in ReviewJob
BY HeadTailProperties DEF Shape

\* A turn of the drain starts one request, or moves on without one.
LEMMA TurnOfTheDrain ==
  ASSUME Shape, LoopStep
  PROVE  \/ /\ AtTop /\ Going
            /\ \E kind \in {"manual", "review", "rephrase", "idle"},
                  of \in Job \cup Source \cup {NoRun}, stage \in {"relieving", "asking"} :
                 Start(kind, of, stage)
            /\ UNCHANGED <<held, phase>>
         \/ /\ AtTop /\ Going /\ Start("auto", NoRun, "relieving") /\ phase' = "running"
         \/ /\ AtTop /\ run' = run /\ drain' \in {"entered", "ending"} /\ UNCHANGED <<held, phase>>
         \/ /\ drain = "throwing" /\ run' = run /\ drain' = drain
            /\ phase = "running" /\ phase' = "returned"
         \/ /\ drain \in {"throwing", "ending"} /\ (drain = "throwing" => phase = "idle")
            /\ run' = run /\ drain' \in {"entered", "none", "ending"}
            /\ UNCHANGED <<held, phase>>
         \/ /\ drain \in {"loop", "throwing"} /\ run' = run /\ drain' \in {"entered", "ending"}
            /\ phase = "returned" /\ phase' = "idle"
<1>1. CASE TakeManual \/ TakeReview
  BY <1>1, Heads DEF TakeManual, TakeReview, Job, queueVars
<1>2. CASE \E s \in Source : TakeRephrase(s)
  <2>1. rephrasing \subseteq Source
    BY DEF Shape
  <2> QED
    BY <1>2, <2>1 DEF TakeRephrase, PendingRephrases, queueVars
<1>3. CASE TakeIdle
  BY <1>3 DEF TakeIdle, NothingToAnswer, queueVars
<1>4. CASE TakeCandidate
  BY <1>4 DEF TakeCandidate, Take
<1> QED
  BY <1>1, <1>2, <1>3, <1>4
  DEF LoopStep, SummaryInvalid, DrainRests, DrainQuits, DrainThrows, DrainEnds,
      CandidateThrown, CandidateFinished, NothingToAnswer, Complete, Finish, queueVars

\* A request in flight goes on, or ends and takes its candidate with it.
LEMMA StepOfTheRequest ==
  ASSUME RunStep
  PROVE  /\ drain = "running" /\ UNCHANGED held
         /\ \/ run' = [run EXCEPT !.stage = "asking"] /\ drain' = drain /\ phase' = phase
            \/ /\ run' = NoRun /\ drain' = "loop"
               /\ IF run.kind = "auto" THEN phase = "running" /\ phase' = "returned"
                                       ELSE phase' = phase
BY DEF RunStep, Relieved, CandidateRelieved, CandidateAnswered, CandidateFails,
       ManualAnswered, ReviewAnswered, ExplicitFails, RephraseAnswered, RephraseFails,
       IdleEnds, EndRequest, InFlight, GiveUp, Complete, Defer, Retry, queueVars

\* The drain runs exactly while a request is in flight, and holds a candidate
\* only while that candidate's turn lasts.
Placed ==
  /\ run # NoRun <=> drain = "running"
  /\ drain \in {"none", "entered", "loop", "running", "throwing", "ending"}
  /\ phase = "running" =>
       drain = "throwing" \/ (drain = "running" /\ run.kind = "auto")
  /\ phase = "returned" => drain \in {"loop", "throwing"}
  /\ drain = "running" /\ run.kind = "auto" => phase = "running"

\* Every step keeps the job in flight and the candidate where the drain is.
LEMMA PlacedStep ==
  ASSUME Shape, Placed, phase \in {"idle", "running", "returned"}, [Next]_vars
  PROVE  Placed'
<1>1. CASE UserStep \/ HostStep
  <2>1. CASE run' = run
    BY <1>1, <2>1, BesideTheDrain DEF Placed
  <2>2. ASSUME NEW keeps \in BOOLEAN, run' = Aborted(keeps)
        PROVE  Placed'
    BY <1>1, <2>2, BesideTheDrain, AbortedRun DEF Placed, Shape
  <2> QED
    BY <1>1, <2>1, <2>2, BesideTheDrain
<1>2. CASE LoopStep
  BY <1>2, TurnOfTheDrain, Started DEF Placed, AtTop
<1>3. CASE RunStep
  BY <1>3, StepOfTheRequest, NoRunAssumption DEF Placed, Shape, Run
<1>4. CASE UNCHANGED vars
  BY <1>4 DEF Placed, vars, queueVars
<1> QED
  BY <1>1, <1>2, <1>3, <1>4 DEF Next

-----------------------------------------------------------------------------
(* The lines of explicit requests and what their callers are told.          *)

\* A line holds the queued jobs of its kind, each of them once; st is what
\* their callers see.
Lined(queue, st, J) ==
  /\ queue \in Seq(J)
  /\ \A i \in DOMAIN queue : st[queue[i]] = "queued"
  /\ \A i, k \in DOMAIN queue : queue[i] = queue[k] => i = k
  /\ \A j \in J : st[j] = "queued" => \E i \in DOMAIN queue : queue[i] = j

\* What a job's caller sees.
JobState == {"new", "queued", "active", "ok", "failed"}

\* A new job joins the end of its line.
LEMMA JoinsTheLine ==
  ASSUME NEW J \in SUBSET Job, NEW queue, NEW st \in [Job -> JobState],
         Lined(queue, st, J), NEW j \in J, st[j] = "new"
  PROVE  Lined(Append(queue, j), [st EXCEPT ![j] = "queued"], J)
<1> DEFINE longer == Append(queue, j)
           st2 == [st EXCEPT ![j] = "queued"]
<1>1. queue \in Seq(J)
  BY DEF Lined
<1>2. /\ longer \in Seq(J) /\ Len(queue) \in Nat
      /\ DOMAIN longer = 1..Len(queue) + 1 /\ DOMAIN queue = 1..Len(queue)
      /\ \A i \in 1..Len(queue) : longer[i] = queue[i]
      /\ longer[Len(queue) + 1] = j
  BY <1>1, AppendProperties, LenProperties
<1>3. \A i \in 1..Len(queue) : queue[i] # j /\ queue[i] \in J
  BY <1>1, <1>2, ElementOfSeq DEF Lined
<1>4. \A k \in Job : st2[k] = IF k = j THEN "queued" ELSE st[k]
  OBVIOUS
<1> HIDE DEF longer, st2
<1>5. \A i \in DOMAIN longer : st2[longer[i]] = "queued"
  BY <1>2, <1>3, <1>4 DEF Lined
<1>6. \A i, k \in DOMAIN longer : longer[i] = longer[k] => i = k
  BY <1>2, <1>3 DEF Lined
<1>7. \A k \in J : st2[k] = "queued" => \E i \in DOMAIN longer : longer[i] = k
  BY <1>2, <1>4 DEF Lined
<1>8. Lined(longer, st2, J)
  BY <1>2, <1>5, <1>6, <1>7 DEF Lined
<1> QED
  BY <1>8 DEF longer, st2

\* The drain takes the job at the head.
LEMMA LeavesTheLine ==
  ASSUME NEW J \in SUBSET Job, NEW queue, NEW st \in [Job -> JobState],
         Lined(queue, st, J), queue # <<>>
  PROVE  Lined(Tail(queue), [st EXCEPT ![Head(queue)] = "active"], J)
<1> DEFINE j == Head(queue)
           rest == Tail(queue)
           st2 == [st EXCEPT ![j] = "active"]
<1>1. queue \in Seq(J)
  BY DEF Lined
<1>2. /\ rest \in Seq(J) /\ Len(queue) \in Nat \ {0} /\ j \in J
      /\ DOMAIN rest = 1..Len(queue) - 1 /\ DOMAIN queue = 1..Len(queue)
      /\ \A i \in 1..Len(queue) - 1 : rest[i] = queue[i + 1]
      /\ j = queue[1]
  BY <1>1, HeadTailProperties, LenProperties, EmptySeq
<1>3. \A i \in 1..Len(queue) : queue[i] \in J
  BY <1>1, <1>2, ElementOfSeq
<1>4. \A k \in Job : st2[k] = IF k = j THEN "active" ELSE st[k]
  OBVIOUS
<1> HIDE DEF j, rest, st2
<1>5. \A i \in 1..Len(queue) - 1 : queue[i + 1] # j /\ i + 1 \in 1..Len(queue)
  BY <1>2 DEF Lined
<1>6. \A i \in DOMAIN rest : st2[rest[i]] = "queued"
  BY <1>2, <1>3, <1>4, <1>5 DEF Lined
<1>7. ASSUME NEW i \in DOMAIN rest, NEW k \in DOMAIN rest, rest[i] = rest[k]
      PROVE  i = k
  <2>1. /\ i \in 1..Len(queue) - 1 /\ k \in 1..Len(queue) - 1
        /\ i + 1 \in DOMAIN queue /\ k + 1 \in DOMAIN queue
    BY <1>2
  <2>2. queue[i + 1] = queue[k + 1]
    BY <1>2, <1>7, <2>1
  <2>3. i + 1 = k + 1
    BY <2>1, <2>2 DEF Lined
  <2> QED
    BY <1>2, <2>1, <2>3
<1>8. ASSUME NEW k \in J, st2[k] = "queued"
      PROVE  \E i \in DOMAIN rest : rest[i] = k
  <2>1. PICK i \in 1..Len(queue) : queue[i] = k
    BY <1>2, <1>4, <1>8 DEF Lined
  <2>2. i # 1
    BY <2>1, <1>2, <1>4, <1>8
  <2>3. i - 1 \in DOMAIN rest /\ rest[i - 1] = k
    BY <2>1, <2>2, <1>2
  <2> QED
    BY <2>3
<1>9. Lined(rest, st2, J)
  BY <1>2, <1>6, <1>7, <1>8 DEF Lined
<1> QED
  BY <1>9 DEF j, rest, st2

\* A caller who gives up takes its job out of the line.
LEMMA GivesUpTheLine ==
  ASSUME NEW J \in SUBSET Job, NEW queue, NEW st \in [Job -> JobState],
         Lined(queue, st, J), NEW j \in Job
  PROVE  Lined(Spliced(queue, j), [st EXCEPT ![j] = "failed"], J)
<1> DEFINE rest == Spliced(queue, j)
           st2 == [st EXCEPT ![j] = "failed"]
<1>1. queue \in Seq(J)
  BY DEF Lined
<1>2. DOMAIN queue = 1..Len(queue) /\ Len(queue) \in Nat
      /\ \A i \in 1..Len(queue) : queue[i] \in J
  BY <1>1, LenProperties, ElementOfSeq
<1>3. \A k \in Job : st2[k] = IF k = j THEN "failed" ELSE st[k]
  OBVIOUS
<1>4. rest \in Seq(J)
  BY <1>1, SplicedLine
<1>0. \/ rest = queue /\ \A i \in DOMAIN queue : queue[i] # j
      \/ \E at \in DOMAIN queue :
           /\ queue[at] = j
           /\ DOMAIN rest = 1..Len(queue) - 1
           /\ \A i \in 1..Len(queue) - 1 :
                rest[i] = queue[IF i < at THEN i ELSE i + 1]
  BY <1>1, SplicedLine
<1> HIDE DEF rest, st2
<1>5. ASSUME rest = queue, \A i \in DOMAIN queue : queue[i] # j
      PROVE  Lined(rest, st2, J)
  <2>1. \A i \in DOMAIN rest : st2[rest[i]] = "queued"
    BY <1>2, <1>3, <1>5 DEF Lined
  <2>2. ASSUME NEW k \in J, st2[k] = "queued"
        PROVE  \E i \in DOMAIN rest : rest[i] = k
    <3>1. k # j /\ st[k] = "queued"
      BY <1>3, <2>2
    <3>2. \E i \in DOMAIN queue : queue[i] = k
      BY <3>1 DEF Lined
    <3> QED
      BY <1>5, <3>2
  <2> QED
    BY <1>4, <1>5, <2>1, <2>2 DEF Lined
<1>6. ASSUME NEW at \in DOMAIN queue, queue[at] = j,
             DOMAIN rest = 1..Len(queue) - 1,
             \A i \in 1..Len(queue) - 1 : rest[i] = queue[IF i < at THEN i ELSE i + 1]
      PROVE  Lined(rest, st2, J)
  <2> DEFINE from(i) == IF i < at THEN i ELSE i + 1
  <2>1. \A i \in DOMAIN rest : /\ from(i) \in DOMAIN queue /\ from(i) # at
                               /\ rest[i] = queue[from(i)]
    BY <1>2, <1>6
  <2>2. \A i, k \in DOMAIN rest : from(i) = from(k) => i = k
    BY <1>2, <1>6
  <2>3. ASSUME NEW k \in DOMAIN queue, k # at
        PROVE  \E i \in DOMAIN rest : from(i) = k
    <3>1. CASE k < at
      BY <1>2, <1>6, <2>3, <3>1
    <3>2. CASE k > at
      <4>1. k - 1 \in DOMAIN rest /\ from(k - 1) = k
        BY <1>2, <1>6, <2>3, <3>2
      <4> QED
        BY <4>1
    <3> QED
      BY <1>2, <2>3, <3>1, <3>2
  <2> HIDE DEF from
  <2>4. \A i \in DOMAIN rest : st2[rest[i]] = "queued"
    BY <1>2, <1>3, <1>6, <2>1 DEF Lined
  <2>5. \A i, k \in DOMAIN rest : rest[i] = rest[k] => i = k
    BY <2>1, <2>2 DEF Lined
  <2>6. \A k \in J : st2[k] = "queued" => \E i \in DOMAIN rest : rest[i] = k
    BY <1>3, <1>6, <2>1, <2>3 DEF Lined
  <2> QED
    BY <1>4, <2>4, <2>5, <2>6 DEF Lined
<1>7. Lined(rest, st2, J)
  BY <1>0, <1>5, <1>6
<1> QED
  BY <1>7 DEF rest, st2

\* What becomes of a job outside the line does not touch it.
LEMMA LineApart ==
  ASSUME NEW J \in SUBSET Job, NEW queue, NEW st \in [Job -> JobState],
         Lined(queue, st, J), NEW j \in Job, NEW v \in JobState,
         j \notin J \/ (st[j] # "queued" /\ v # "queued")
  PROVE  Lined(queue, [st EXCEPT ![j] = v], J)
<1> DEFINE st2 == [st EXCEPT ![j] = v]
<1>1. \A k \in Job : st2[k] = IF k = j THEN v ELSE st[k]
  OBVIOUS
<1>2. queue \in Seq(J) /\ \A i \in DOMAIN queue : queue[i] \in J
  BY LenProperties, ElementOfSeq DEF Lined
<1> HIDE DEF st2
<1>3. Lined(queue, st2, J)
  BY <1>1, <1>2 DEF Lined
<1> QED
  BY <1>3 DEF st2

\* What the callers see, and what of it is written: requests and their callers
\* giving up, ...
LEMMA JobsByUser ==
  ASSUME UserStep
  PROVE  /\ UNCHANGED written
         /\ \/ UNCHANGED jobVars
            \/ \E j \in ManualJob :
                 /\ state[j] = "new" /\ Going /\ routed
                 /\ manualQueue' = Append(manualQueue, j) /\ UNCHANGED reviewQueue
                 /\ state' = [state EXCEPT ![j] = "queued"]
            \/ \E j \in ReviewJob :
                 /\ state[j] = "new" /\ Going /\ routed
                 /\ reviewQueue' = Append(reviewQueue, j) /\ UNCHANGED manualQueue
                 /\ state' = [state EXCEPT ![j] = "queued"]
            \/ \E j \in Job :
                 /\ state[j] = "new" /\ UNCHANGED <<manualQueue, reviewQueue>>
                 /\ state' = [state EXCEPT ![j] = "failed"]
            \/ \E j \in Job :
                 /\ state[j] = "queued"
                 /\ manualQueue' = Spliced(manualQueue, j)
                 /\ reviewQueue' = Spliced(reviewQueue, j)
                 /\ state' = [state EXCEPT ![j] = "failed"]
BY DEF UserStep, RequestManual, RequestReviewAnswer, CallerAborts, TurnEnds, TurnCaptured,
       Understood, NotUnderstood, NotUnderstoodAgain, ReopenTopic, LearningStateChanged,
       jobVars, storeVars

\* ... changes of settings, a lost lease, a clear and the end, ...
LEMMA JobsByHost ==
  ASSUME HostStep
  PROVE  UNCHANGED written /\ (UNCHANGED jobVars \/ SettleQueued)
BY DEF HostStep, Disable, Enable, ChangeRoute, AdaptersUpdated, ChangePrompt, ChangeLimits,
       RouteOutdated, RouteResolved, RouteRejected, RefreshLeaves, LeaseLost, ResetBegins,
       ResetEnds, Dispose, BudgetTimer, IdleTimer, storeVars

\* ... the turns of the drain, ...
LEMMA JobsByLoop ==
  ASSUME LoopStep
  PROVE  /\ UNCHANGED written
         /\ \/ /\ UNCHANGED jobVars
               /\ \/ run' = run
                  \/ \E kind \in {"rephrase", "auto", "idle"}, of \in Job \cup Source \cup {NoRun},
                        stage \in {"relieving", "asking"} : Start(kind, of, stage)
            \/ /\ manualQueue # <<>> /\ manualQueue' = Tail(manualQueue)
               /\ state' = [state EXCEPT ![Head(manualQueue)] = "active"]
               /\ UNCHANGED reviewQueue
               /\ Start("manual", Head(manualQueue), "relieving")
            \/ /\ reviewQueue # <<>> /\ reviewQueue' = Tail(reviewQueue)
               /\ state' = [state EXCEPT ![Head(reviewQueue)] = "active"]
               /\ UNCHANGED manualQueue
               /\ Start("review", Head(reviewQueue), "asking")
BY DEF LoopStep, TakeManual, TakeReview, TakeCandidate, TakeIdle, TakeRephrase,
       SummaryInvalid, DrainRests, DrainQuits, DrainThrows, DrainEnds, CandidateThrown,
       CandidateFinished, NothingToAnswer, jobVars, storeVars

\* ... and the end of a request.
LEMMA JobsByRun ==
  ASSUME RunStep
  PROVE  /\ drain = "running" /\ UNCHANGED <<manualQueue, reviewQueue>>
         /\ \/ UNCHANGED <<state, written>>
            \/ /\ run.kind \in {"manual", "review"} /\ run' = NoRun
               /\ \/ /\ state' = [state EXCEPT ![run.of] = "ok"]
                     /\ written' = written \cup {run.of}
                  \/ state' = [state EXCEPT ![run.of] = "failed"] /\ UNCHANGED written
         /\ run' = NoRun \/ run' = [run EXCEPT !.stage = "asking"]
BY DEF RunStep, Relieved, CandidateRelieved, CandidateAnswered, CandidateFails,
       ManualAnswered, ReviewAnswered, ExplicitFails, RephraseAnswered, RephraseFails,
       IdleEnds, EndRequest, InFlight, Refused, Settle, jobVars, storeVars

\* Every queued job is in its line, and the job of the request in flight is
\* the active one.
Jobs ==
  /\ state \in [Job -> JobState]
  /\ Lined(manualQueue, state, ManualJob)
  /\ Lined(reviewQueue, state, ReviewJob)
  /\ run # NoRun /\ run.kind = "manual" =>
       run.of \in ManualJob /\ state[run.of] = "active"
  /\ run # NoRun /\ run.kind = "review" =>
       run.of \in ReviewJob /\ state[run.of] = "active"

\* An aborted request, or one that goes on, is for the same job.
LEMMA SameJob ==
  ASSUME Shape, Jobs, Shape',
         UNCHANGED state \/ \A j \in Job : state[j] = "active" => state'[j] = "active",
         \/ run' = run \/ \E keeps \in BOOLEAN : run' = Aborted(keeps)
         \/ run' = NoRun \/ (run # NoRun /\ run' = [run EXCEPT !.stage = "asking"])
  PROVE  /\ run' # NoRun /\ run'.kind = "manual" =>
              run'.of \in ManualJob /\ state'[run'.of] = "active"
         /\ run' # NoRun /\ run'.kind = "review" =>
              run'.of \in ReviewJob /\ state'[run'.of] = "active"
<1>1. run \in Run \cup {NoRun}
  BY DEF Shape
<1>2. CASE run' = [run EXCEPT !.stage = "asking"] /\ run # NoRun
  BY <1>1, <1>2 DEF Run, Jobs, Job
<1>3. CASE \E keeps \in BOOLEAN : run' = Aborted(keeps)
  <2>1. run' = NoRun \/ (run # NoRun /\ run'.kind = run.kind /\ run'.of = run.of)
    BY <1>1, <1>3, AbortedRun
  <2> QED
    BY <2>1 DEF Jobs, Job
<1>4. CASE run' = run \/ run' = NoRun
  BY <1>4 DEF Jobs, Job
<1> QED
  BY <1>2, <1>3, <1>4

\* Every step keeps each explicit job in one place, with the state of that
\* place.
LEMMA JobsStep ==
  ASSUME Shape, Shape', Placed, Jobs, [Next]_vars
  PROVE  Jobs'
<1> USE DEF Jobs
<1> DEFINE Sets(j, v) == state' = [state EXCEPT ![j] = v]
<1>0. ManualJob \in SUBSET Job /\ ReviewJob \in SUBSET Job
  BY DEF Job
<1>1. CASE UserStep
  <2>0. run' = run \/ \E keeps \in BOOLEAN : run' = Aborted(keeps)
    BY <1>1, BesideTheDrain
  <2>1. CASE UNCHANGED jobVars
    BY <2>0, <2>1, SameJob DEF jobVars, Shape, Lined
  <2>2. ASSUME NEW j \in ManualJob, state[j] = "new", Sets(j, "queued"),
               manualQueue' = Append(manualQueue, j), UNCHANGED reviewQueue
        PROVE  Jobs'
    <3>1. Lined(manualQueue', state', ManualJob)
      BY <1>0, <2>2, JoinsTheLine
    <3>2. Lined(reviewQueue', state', ReviewJob)
      BY <1>0, <2>2, LineApart, JobAssumption DEF JobState
    <3>3. \A k \in Job : state[k] = "active" => state'[k] = "active"
      BY <1>0, <2>2
    <3> QED
      BY <2>0, <3>1, <3>2, <3>3, SameJob DEF Shape, JobState
  <2>3. ASSUME NEW j \in ReviewJob, state[j] = "new", Sets(j, "queued"),
               reviewQueue' = Append(reviewQueue, j), UNCHANGED manualQueue
        PROVE  Jobs'
    <3>1. Lined(reviewQueue', state', ReviewJob)
      BY <1>0, <2>3, JoinsTheLine
    <3>2. Lined(manualQueue', state', ManualJob)
      BY <1>0, <2>3, LineApart, JobAssumption DEF JobState
    <3>3. \A k \in Job : state[k] = "active" => state'[k] = "active"
      BY <1>0, <2>3
    <3> QED
      BY <2>0, <3>1, <3>2, <3>3, SameJob DEF Shape, JobState
  <2>4. ASSUME NEW j \in Job, state[j] = "new", UNCHANGED <<manualQueue, reviewQueue>>,
               Sets(j, "failed")
        PROVE  Jobs'
    <3>1. Lined(manualQueue', state', ManualJob) /\ Lined(reviewQueue', state', ReviewJob)
      BY <1>0, <2>4, LineApart DEF JobState
    <3>2. \A k \in Job : state[k] = "active" => state'[k] = "active"
      BY <2>4
    <3> QED
      BY <2>0, <3>1, <3>2, SameJob DEF Shape, JobState
  <2>5. ASSUME NEW j \in Job, state[j] = "queued", Sets(j, "failed"),
               manualQueue' = Spliced(manualQueue, j), reviewQueue' = Spliced(reviewQueue, j)
        PROVE  Jobs'
    <3>1. Lined(manualQueue', state', ManualJob) /\ Lined(reviewQueue', state', ReviewJob)
      BY <1>0, <2>5, GivesUpTheLine
    <3>2. \A k \in Job : state[k] = "active" => state'[k] = "active"
      BY <2>5
    <3> QED
      BY <2>0, <3>1, <3>2, SameJob DEF Shape, JobState
  <2> QED
    BY <1>1, <2>1, <2>2, <2>3, <2>4, <2>5, JobsByUser
<1>2. CASE HostStep
  <2>0. run' = run \/ \E keeps \in BOOLEAN : run' = Aborted(keeps)
    BY <1>2, BesideTheDrain
  <2>1. CASE UNCHANGED jobVars
    BY <2>0, <2>1, SameJob DEF jobVars, Shape, Lined
  <2>2. CASE SettleQueued
    <3>1. \A j \in Job : /\ state'[j] # "queued"
                         /\ state[j] = "active" => state'[j] = "active"
      BY <2>2 DEF SettleQueued
    <3>2. Lined(manualQueue', state', ManualJob) /\ Lined(reviewQueue', state', ReviewJob)
      BY <2>2, <3>1 DEF SettleQueued, Lined, Shape, Job
    <3> QED
      BY <2>0, <3>1, <3>2, SameJob DEF Shape, JobState
  <2> QED
    BY <1>2, <2>1, <2>2, JobsByHost
<1>3. CASE LoopStep
  <2>1. CASE UNCHANGED jobVars /\ run' = run
    BY <2>1, SameJob DEF jobVars, Shape, Lined
  <2>2. ASSUME UNCHANGED jobVars, NEW kind \in {"rephrase", "auto", "idle"},
               NEW of \in Job \cup Source \cup {NoRun}, NEW stage \in {"relieving", "asking"},
               Start(kind, of, stage)
        PROVE  Jobs'
    <3>1. run' = NoRun \/ run'.kind = kind
      BY <2>2, Started
    <3> QED
      BY <2>2, <3>1 DEF jobVars, Shape, Lined
  <2>3. ASSUME manualQueue # <<>>, manualQueue' = Tail(manualQueue), UNCHANGED reviewQueue,
               Sets(Head(manualQueue), "active"), Start("manual", Head(manualQueue), "relieving")
        PROVE  Jobs'
    <3> DEFINE j == Head(manualQueue)
    <3>1. j \in ManualJob
      BY <2>3, Heads
    <3>2. Lined(manualQueue', state', ManualJob)
      BY <1>0, <2>3, LeavesTheLine
    <3>3. Lined(reviewQueue', state', ReviewJob)
      BY <1>0, <2>3, <3>1, LineApart, JobAssumption DEF JobState
    <3>4. run' = NoRun \/ (run'.kind = "manual" /\ run'.of = j)
      BY <2>3, <3>1, Started DEF Job
    <3>5. state'[j] = "active"
      BY <1>0, <2>3, <3>1
    <3> QED
      BY <3>1, <3>2, <3>3, <3>4, <3>5 DEF Shape, JobState
  <2>4. ASSUME reviewQueue # <<>>, reviewQueue' = Tail(reviewQueue), UNCHANGED manualQueue,
               Sets(Head(reviewQueue), "active"), Start("review", Head(reviewQueue), "asking")
        PROVE  Jobs'
    <3> DEFINE j == Head(reviewQueue)
    <3>1. j \in ReviewJob
      BY <2>4, Heads
    <3>2. Lined(reviewQueue', state', ReviewJob)
      BY <1>0, <2>4, LeavesTheLine
    <3>3. Lined(manualQueue', state', ManualJob)
      BY <1>0, <2>4, <3>1, LineApart, JobAssumption DEF JobState
    <3>4. run' = NoRun \/ (run'.kind = "review" /\ run'.of = j)
      BY <2>4, <3>1, Started DEF Job
    <3>5. state'[j] = "active"
      BY <1>0, <2>4, <3>1
    <3> QED
      BY <3>1, <3>2, <3>3, <3>4, <3>5 DEF Shape, JobState
  <2> QED
    BY <1>3, <2>1, <2>2, <2>3, <2>4, JobsByLoop
<1>4. CASE RunStep
  <2>1. CASE UNCHANGED state
    BY <1>4, <2>1, JobsByRun, SameJob DEF Placed, Shape, Lined
  <2>2. ASSUME NEW v \in {"ok", "failed"}, run.kind \in {"manual", "review"}, run' = NoRun,
               Sets(run.of, v), drain = "running"
        PROVE  Jobs'
    <3>1. run # NoRun
      BY <2>2 DEF Placed
    <3>2. run.of \in Job /\ state[run.of] = "active"
      BY <2>2, <3>1 DEF Job
    <3>3. Lined(manualQueue, state', ManualJob) /\ Lined(reviewQueue, state', ReviewJob)
      BY <1>0, <2>2, <3>2, LineApart DEF JobState
    <3> QED
      BY <1>4, <2>2, <3>3, JobsByRun DEF Shape, JobState
  <2> QED
    BY <1>4, <2>1, <2>2, JobsByRun
<1>5. CASE UNCHANGED vars
  BY <1>5 DEF vars, jobVars, Lined
<1> QED
  BY <1>1, <1>2, <1>3, <1>4, <1>5 DEF Next

-----------------------------------------------------------------------------
(* The learning state and the settings a request was made under.            *)

\* A request that nothing aborted was made under the current settings and
\* learning state, and a rephrase is still wanted.
Based ==
  run # NoRun /\ ~run.aborted =>
    /\ run.basis = world
    /\ run.kind = "rephrase" => run.of \in rephrasing

\* Whoever changes the settings or the learning state aborts the request.
LEMMA ChangesAbort ==
  ASSUME Placed, UserStep \/ HostStep
  PROVE  \/ UNCHANGED <<world, rephrasing>>
         \/ \E keeps \in BOOLEAN : run' = Aborted(keeps)
         \/ run = NoRun /\ run' = NoRun
<1>1. CASE UserStep
  BY <1>1
  DEF UserStep, RequestManual, RequestReviewAnswer, CallerAborts, TurnEnds, TurnCaptured,
      Understood, NotUnderstood, NotUnderstoodAgain, ReopenTopic, LearningStateChanged,
      CancelCurrent, storeVars
<1>2. CASE HostStep
  BY <1>2
  DEF HostStep, Disable, Enable, ChangeRoute, AdaptersUpdated, ChangePrompt, ChangeLimits,
      RouteOutdated, RouteResolved, RouteRejected, RefreshLeaves, LeaseLost, ResetBegins,
      ResetEnds, ResetReady, Dispose, BudgetTimer, IdleTimer, CancelCurrent, Placed, storeVars
<1> QED
  BY <1>1, <1>2

\* The drain bases a request on what it finds.
LEMMA DrainBases ==
  ASSUME Shape, LoopStep
  PROVE  /\ UNCHANGED <<world, rephrasing, open>>
         /\ \/ run' = run
            \/ run' = NoRun
            \/ /\ run' # NoRun /\ run'.basis = world /\ ~run'.aborted
               /\ run'.kind = "rephrase" => run'.of \in rephrasing
<1>1. UNCHANGED <<world, rephrasing, open>>
  BY DEF LoopStep, TakeManual, TakeReview, TakeCandidate, TakeIdle, TakeRephrase,
       SummaryInvalid, DrainRests, DrainQuits, DrainThrows, DrainEnds, CandidateThrown,
       CandidateFinished, storeVars
<1>2. CASE TakeManual \/ TakeReview
  BY <1>1, <1>2, Heads, Started DEF TakeManual, TakeReview, Job
<1>3. ASSUME NEW s \in Source, TakeRephrase(s)
      PROVE  \/ run' = NoRun
             \/ /\ run' # NoRun /\ run'.basis = world /\ ~run'.aborted
                /\ run'.kind = "rephrase" => run'.of \in rephrasing
  BY <1>3, Started DEF TakeRephrase, PendingRephrases
<1>4. CASE TakeIdle \/ TakeCandidate
  BY <1>1, <1>4, Started DEF TakeIdle, TakeCandidate
<1> QED
  BY <1>1, <1>2, <1>3, <1>4
  DEF LoopStep, SummaryInvalid, DrainRests, DrainQuits, DrainThrows, DrainEnds,
      CandidateThrown, CandidateFinished

\* A request's basis is the world as long as nothing has aborted it.
LEMMA BasedStep ==
  ASSUME Shape, Placed, Based, [Next]_vars
  PROVE  Based'
<1>1. CASE UserStep \/ HostStep
  <2>1. CASE \E keeps \in BOOLEAN : run' = Aborted(keeps)
    BY <2>1, AbortedRun DEF Based, Shape
  <2>2. CASE run' = run /\ UNCHANGED <<world, rephrasing>>
    BY <2>2 DEF Based
  <2> QED
    BY <1>1, <2>1, <2>2, ChangesAbort, BesideTheDrain DEF Based
<1>2. CASE LoopStep
  BY <1>2, DrainBases DEF Based
<1>3. CASE RunStep
  <2>1. run' = NoRun \/ (run' = [run EXCEPT !.stage = "asking"] /\ UNCHANGED <<world, rephrasing>>)
    BY <1>3 DEF RunStep, Relieved, CandidateRelieved, CandidateAnswered, CandidateFails,
       ManualAnswered, ReviewAnswered, ExplicitFails, RephraseAnswered, RephraseFails,
       IdleEnds, EndRequest, storeVars
  <2>2. run \in Run
    BY <1>3, StepOfTheRequest DEF Placed, Shape
  <2> QED
    BY <2>1, <2>2, NoRunAssumption DEF Based, Run
<1>4. CASE UNCHANGED vars
  BY <1>4 DEF Based, vars, storeVars
<1> QED
  BY <1>1, <1>2, <1>3, <1>4 DEF Next

\* The explanations stay among the Sessions, the pending rephrases among the
\* explanations.
LEMMA OpenStep ==
  ASSUME Shape, Placed, Jobs, QueueTypeOK, [Next]_vars
  PROVE  open' \subseteq Source /\ rephrasing' \subseteq open' /\ world' \in Nat
<1>0. open \subseteq Source /\ rephrasing \subseteq open /\ world \in Nat
  BY DEF Shape
<1>1. CASE UserStep
  <2>1. \/ UNCHANGED <<open, rephrasing, world>>
        \/ /\ world' = world + 1
           /\ \/ UNCHANGED <<open, rephrasing>>
              \/ \E s \in open : open' = open \ {s} /\ rephrasing' = rephrasing \ {s}
              \/ \E s \in open : open' = open /\ rephrasing' = rephrasing \cup {s}
    BY <1>1
    DEF UserStep, RequestManual, RequestReviewAnswer, CallerAborts, TurnEnds, TurnCaptured,
        Understood, NotUnderstood, NotUnderstoodAgain, ReopenTopic, storeVars
  <2> QED
    BY <1>0, <2>1
<1>2. CASE HostStep
  <2>1. \/ UNCHANGED <<open, rephrasing, world>>
        \/ world' = world + 1 /\ UNCHANGED <<open, rephrasing>>
        \/ open' = {} /\ rephrasing' = {} /\ world' = world + 1
    BY <1>2
    DEF HostStep, Disable, Enable, ChangeRoute, AdaptersUpdated, ChangePrompt, ChangeLimits,
        RouteOutdated, RouteResolved, RouteRejected, RefreshLeaves, LeaseLost, ResetBegins,
        ResetEnds, Dispose, BudgetTimer, IdleTimer, storeVars
  <2> QED
    BY <1>0, <2>1
<1>3. CASE LoopStep
  BY <1>0, <1>3, DrainBases
<1>4. CASE RunStep
  <2>1. CASE ManualAnswered
    <3>1. run.of \in ManualJob
      BY <2>1 DEF ManualAnswered, InFlight, Placed, Jobs
    <3>2. Subject[run.of] \in Source
      BY <3>1, SubjectAssumption DEF Job
    <3> QED
      BY <1>0, <2>1, <3>2 DEF ManualAnswered, Refused
  <2>2. CASE CandidateAnswered
    <3>1. phase = "running"
      BY <2>2 DEF CandidateAnswered, InFlight, Placed
    <3>2. held.source \in Source
      BY <3>1 DEF QueueTypeOK, Candidate
    <3> QED
      BY <1>0, <2>2, <3>2 DEF CandidateAnswered
  <2> QED
    BY <1>0, <1>4, <2>1, <2>2
    DEF RunStep, Relieved, CandidateRelieved, CandidateFails, ReviewAnswered, ExplicitFails,
        RephraseAnswered, RephraseFails, IdleEnds, storeVars
<1>5. CASE UNCHANGED vars
  BY <1>0, <1>5 DEF vars, storeVars
<1> QED
  BY <1>1, <1>2, <1>3, <1>4, <1>5 DEF Next

\* The shapes of the queues and of the request in flight.
LEMMA ShapeStep ==
  ASSUME Shape, Placed, Jobs, QueueTypeOK, [Next]_vars
  PROVE  Shape'
<1>0. ManualJob \subseteq Job /\ ReviewJob \subseteq Job
  BY DEF Job
<1>1. run' \in Run \cup {NoRun}
  <2>1. CASE UserStep \/ HostStep
    BY <2>1, BesideTheDrain, AbortedRun DEF Shape
  <2>2. CASE LoopStep
    BY <2>2, TurnOfTheDrain, Started DEF Shape
  <2>3. CASE RunStep
    BY <2>3, StepOfTheRequest DEF Placed, Shape, Run
  <2>4. CASE UNCHANGED vars
    BY <2>4 DEF vars, Shape
  <2> QED
    BY <2>1, <2>2, <2>3, <2>4 DEF Next
<1>2. manualQueue' \in Seq(ManualJob) /\ reviewQueue' \in Seq(ReviewJob)
  <2>1. CASE UserStep
    <3>1. /\ \/ manualQueue' = manualQueue
             \/ \E j \in ManualJob : manualQueue' = Append(manualQueue, j)
             \/ \E j \in Job : manualQueue' = Spliced(manualQueue, j)
          /\ \/ reviewQueue' = reviewQueue
             \/ \E j \in ReviewJob : reviewQueue' = Append(reviewQueue, j)
             \/ \E j \in Job : reviewQueue' = Spliced(reviewQueue, j)
      BY <2>1, JobsByUser DEF jobVars
    <3>2. /\ \A j \in ManualJob : Append(manualQueue, j) \in Seq(ManualJob)
          /\ \A j \in ReviewJob : Append(reviewQueue, j) \in Seq(ReviewJob)
      BY AppendProperties DEF Shape
    <3>3. \A j \in Job : /\ Spliced(manualQueue, j) \in Seq(ManualJob)
                         /\ Spliced(reviewQueue, j) \in Seq(ReviewJob)
      BY SplicedLine DEF Shape
    <3> QED
      BY <3>1, <3>2, <3>3 DEF Shape
  <2>2. CASE HostStep
    BY <2>2, JobsByHost, EmptySeq DEF Shape, jobVars, SettleQueued
  <2>3. CASE LoopStep
    <3>1. /\ manualQueue # <<>> => Tail(manualQueue) \in Seq(ManualJob)
          /\ reviewQueue # <<>> => Tail(reviewQueue) \in Seq(ReviewJob)
      BY HeadTailProperties DEF Shape
    <3> QED
      BY <2>3, <3>1, JobsByLoop DEF Shape, jobVars
  <2>4. CASE RunStep
    BY <2>4, JobsByRun DEF Shape
  <2>5. CASE UNCHANGED vars
    BY <2>5 DEF vars, Shape, jobVars
  <2> QED
    BY <2>1, <2>2, <2>3, <2>4, <2>5 DEF Next
<1>3. state' \in [Job -> {"new", "queued", "active", "ok", "failed"}]
  <2>1. CASE UserStep
    BY <1>0, <2>1, JobsByUser DEF Shape, jobVars
  <2>2. CASE HostStep
    BY <2>2, JobsByHost DEF Shape, jobVars, SettleQueued
  <2>3. CASE LoopStep
    BY <1>0, <2>3, JobsByLoop, Heads DEF Shape, jobVars
  <2>4. CASE RunStep
    BY <2>4, JobsByRun DEF Shape, jobVars
  <2>5. CASE UNCHANGED vars
    BY <2>5 DEF vars, Shape, jobVars
  <2> QED
    BY <2>1, <2>2, <2>3, <2>4, <2>5 DEF Next
<1> QED
  BY <1>1, <1>2, <1>3, OpenStep DEF Shape

\* A failure mark is set on a pending rephrase and goes with it.
LEMMA MarksStep ==
  ASSUME Shape, Placed, Based, FailedArePending, [Next]_vars
  PROVE  FailedArePending'
<1> USE DEF FailedArePending
<1>1. CASE UserStep
  BY <1>1
  DEF UserStep, RequestManual, RequestReviewAnswer, CallerAborts, TurnEnds, TurnCaptured,
      Understood, NotUnderstood, NotUnderstoodAgain, ReopenTopic, LearningStateChanged,
      Forgive, storeVars
<1>2. CASE HostStep
  BY <1>2
  DEF HostStep, Disable, Enable, ChangeRoute, AdaptersUpdated, ChangePrompt, ChangeLimits,
      RouteOutdated, RouteResolved, RouteRejected, RefreshLeaves, LeaseLost, ResetBegins,
      ResetEnds, Dispose, BudgetTimer, IdleTimer, storeVars
<1>3. CASE LoopStep
  BY <1>3
  DEF LoopStep, TakeManual, TakeReview, TakeCandidate, TakeIdle, TakeRephrase,
      SummaryInvalid, DrainRests, DrainQuits, DrainThrows, DrainEnds, CandidateThrown,
      CandidateFinished, PendingRephrases, storeVars
<1>4. CASE RunStep
  <2>1. CASE RephraseFails
    BY <2>1 DEF RephraseFails, InFlight, Based, Placed, storeVars
  <2> QED
    BY <1>4, <2>1
    DEF RunStep, Relieved, CandidateRelieved, CandidateAnswered, CandidateFails,
        ManualAnswered, ReviewAnswered, ExplicitFails, RephraseAnswered, IdleEnds, storeVars
<1>5. CASE UNCHANGED vars
  BY <1>5 DEF vars, storeVars
<1> QED
  BY <1>1, <1>2, <1>3, <1>4, <1>5 DEF Next

-----------------------------------------------------------------------------
(* No wakeup is lost.                                                       *)

\* A disabled runtime has no route, and no refresh resolves for one.
Routed ==
  /\ ~enabled => ~routed
  /\ refresh = "resolving" => enabled /\ ~stopped

\* A disabled scheduler has no route, and none is looked up for it.
LEMMA RoutedStep ==
  ASSUME Routed, [Next]_vars
  PROVE  Routed'
<1> USE DEF Routed
<1>1. CASE UserStep
  <2>1. ASSUME NEW j, RequestManual(j) PROVE Routed'
    BY <2>1 DEF RequestManual, settingVars, routeVars, lifeVars
  <2>2. ASSUME NEW j, RequestReviewAnswer(j) PROVE Routed'
    BY <2>2 DEF RequestReviewAnswer, settingVars, routeVars, lifeVars
  <2>3. ASSUME NEW j, CallerAborts(j) PROVE Routed'
    BY <2>3 DEF CallerAborts, settingVars, routeVars, lifeVars
  <2>4. ASSUME NEW s, TurnEnds(s) PROVE Routed'
    BY <2>4 DEF TurnEnds, settingVars, routeVars, lifeVars
  <2>5. ASSUME NEW s, TurnCaptured(s) PROVE Routed'
    BY <2>5 DEF TurnCaptured, settingVars, routeVars, lifeVars
  <2>6. ASSUME NEW s, Understood(s) PROVE Routed'
    BY <2>6 DEF Understood, LearningStateChanged, OutdatedRefresh, settingVars
  <2>7. ASSUME NEW s, NotUnderstood(s) PROVE Routed'
    BY <2>7 DEF NotUnderstood, LearningStateChanged, OutdatedRefresh, settingVars
  <2>8. ASSUME NEW s, NotUnderstoodAgain(s) PROVE Routed'
    BY <2>8 DEF NotUnderstoodAgain, LearningStateChanged, OutdatedRefresh, settingVars
  <2>9. CASE ReopenTopic
    BY <2>9 DEF ReopenTopic, LearningStateChanged, OutdatedRefresh, settingVars
  <2> QED
    BY <1>1, <2>1, <2>2, <2>3, <2>4, <2>5, <2>6, <2>7, <2>8, <2>9 DEF UserStep
<1>2. CASE HostStep
  <2>1. CASE Disable
    BY <2>1 DEF Disable, MayConfigure, OutdatedRefresh, lifeVars
  <2>2. CASE Enable
    BY <2>2 DEF Enable, MayConfigure, JoinRefresh, OutdatedRefresh, lifeVars
  <2>3. CASE ChangeRoute
    BY <2>3
    DEF ChangeRoute, MayConfigure, JoinRefresh, OutdatedRefresh, settingVars, lifeVars
  <2>4. CASE AdaptersUpdated
    BY <2>4 DEF AdaptersUpdated, JoinRefresh, OutdatedRefresh, settingVars, lifeVars
  <2>5. CASE RouteOutdated
    BY <2>5 DEF RouteOutdated, settingVars, lifeVars
  <2>6. CASE RouteResolved
    BY <2>6 DEF RouteResolved, settingVars, lifeVars
  <2>7. CASE RouteRejected
    BY <2>7 DEF RouteRejected, settingVars, lifeVars
  <2>8. CASE RefreshLeaves
    BY <2>8 DEF RefreshLeaves, settingVars, lifeVars
  <2>9. CASE LeaseLost
    BY <2>9 DEF LeaseLost, OutdatedRefresh, settingVars, lifeVars
  <2>10. CASE ResetBegins
    BY <2>10 DEF ResetBegins, OutdatedRefresh, settingVars
  <2>11. CASE ResetEnds
    BY <2>11 DEF ResetEnds, settingVars, routeVars
  <2>12. CASE Dispose
    BY <2>12 DEF Dispose, MayConfigure, OutdatedRefresh, settingVars
  <2>13. CASE BudgetTimer
    BY <2>13 DEF BudgetTimer, routeVars, lifeVars
  <2>14. CASE IdleTimer
    BY <2>14 DEF IdleTimer, settingVars, routeVars, lifeVars
  <2>15. ASSUME NEW b, ChangePrompt(b) PROVE Routed'
    BY <2>15
    DEF ChangePrompt, MayConfigure, JoinRefresh, OutdatedRefresh, settingVars, lifeVars
  <2>16. ASSUME NEW b, ChangeLimits(b) PROVE Routed'
    BY <2>16 DEF ChangeLimits, MayConfigure, JoinRefresh, OutdatedRefresh, lifeVars
  <2> QED
    BY <1>2, <2>1, <2>2, <2>3, <2>4, <2>5, <2>6, <2>7, <2>8, <2>9, <2>10, <2>11, <2>12,
       <2>13, <2>14, <2>15, <2>16
    DEF HostStep
<1>3. CASE LoopStep
  BY <1>3
  DEF LoopStep, TakeManual, TakeReview, TakeCandidate, TakeIdle, TakeRephrase,
      SummaryInvalid, DrainRests, DrainQuits, DrainThrows, DrainEnds, CandidateThrown,
      CandidateFinished, settingVars, routeVars, lifeVars
<1>4. CASE RunStep
  BY <1>4
  DEF RunStep, Relieved, CandidateRelieved, CandidateAnswered, CandidateFails,
      ManualAnswered, ReviewAnswered, ExplicitFails, RephraseAnswered, RephraseFails,
      IdleEnds, settingVars, routeVars, lifeVars
<1>5. CASE UNCHANGED vars
  BY <1>5 DEF vars, settingVars, routeVars, lifeVars
<1> QED
  BY <1>1, <1>2, <1>3, <1>4, <1>5 DEF Next

\* What a ready scheduler could run.
Work == Explicit \/ PendingRephrases # {} \/ (budgetOpen /\ Executable # {})

\* A trim and a clear bring no candidate into the queue.
LEMMA TrimShrinks ==
  ASSUME NEW c, Trim(c) \/ Clear(c)
  PROVE  Queued(pending') \subseteq Queued(pending)
BY DEF Trim, Clear, TrimTo, Queued

\* A user's step that leaves a ready scheduler asleep brings no work ...
SleptByUser ==
  /\ drain = "none" /\ Going /\ routed
  /\ UNCHANGED <<pending, budgetOpen, open, rephrasing, failedRephrases>>
  /\ \/ UNCHANGED <<manualQueue, reviewQueue>>
     \/ \E j \in Job : /\ manualQueue' = Spliced(manualQueue, j)
                       /\ reviewQueue' = Spliced(reviewQueue, j)

\* A user's step that leaves the drain at rest has brought no work.
LEMMA SleepByUser ==
  ASSUME Shape, QueueTypeOK, UserStep, drain' = "none", Going', routed'
  PROVE  SleptByUser
<1>1. ASSUME NEW j \in Job, RequestManual(j) PROVE SleptByUser
  <2>1. CASE state'[j] = "queued"
    BY <1>1, <2>1 DEF RequestManual, Kick, Going, settingVars, routeVars, lifeVars
  <2>2. CASE state'[j] # "queued"
    <3>1. UNCHANGED <<manualQueue, reviewQueue, drain>>
      BY <1>1, <2>2 DEF RequestManual, Shape
    <3> QED
      BY <1>1, <3>1 DEF SleptByUser, RequestManual, Going, queueVars, settingVars,
                        routeVars,
                       lifeVars, storeVars
  <2> QED
    BY <2>1, <2>2
<1>2. ASSUME NEW j \in Job, RequestReviewAnswer(j) PROVE SleptByUser
  <2>1. CASE state'[j] = "queued"
    BY <1>2, <2>1 DEF RequestReviewAnswer, Kick, Going, settingVars, routeVars, lifeVars
  <2>2. CASE state'[j] # "queued"
    <3>1. UNCHANGED <<manualQueue, reviewQueue, drain>>
      BY <1>2, <2>2 DEF RequestReviewAnswer, Shape
    <3> QED
      BY <1>2, <3>1 DEF SleptByUser, RequestReviewAnswer, Going, queueVars,
                        settingVars, routeVars,
                       lifeVars, storeVars
  <2> QED
    BY <2>1, <2>2
<1>3. ASSUME NEW j \in Job, CallerAborts(j) PROVE SleptByUser
  BY <1>3 DEF SleptByUser, CallerAborts, Kick, Going, queueVars,
              settingVars, routeVars, lifeVars, jobVars, storeVars
<1>4. ASSUME NEW s \in Source, TurnEnds(s) PROVE SleptByUser
  BY <1>4 DEF SleptByUser, TurnEnds, Kick, Going, queueVars,
              settingVars, routeVars, lifeVars, jobVars, storeVars
<1>5. ASSUME NEW s \in Source, TurnCaptured(s) PROVE SleptByUser
  <2>1. CASE capture[s] = "current" /\ Going
    <3>1. nextSequence' # nextSequence
      <4>1. PICK at \in Instant : Push(s, at, cap)
        BY <1>5, <2>1 DEF TurnCaptured
      <4>2. nextSequence' = nextSequence + 1
        BY <4>1 DEF Push
      <4> QED
        BY <4>2 DEF QueueTypeOK
    <3> QED
      BY <1>5, <3>1 DEF TurnCaptured, Kick, Going, settingVars, routeVars, lifeVars
  <2>2. CASE ~(capture[s] = "current" /\ Going)
    <3>1. UNCHANGED <<queueVars, drain>>
      BY <1>5, <2>2 DEF TurnCaptured, queueVars
    <3> QED
      BY <1>5, <3>1 DEF SleptByUser, TurnCaptured, Going, queueVars, settingVars,
                        routeVars,
                       lifeVars, jobVars, storeVars
  <2> QED
    BY <2>1, <2>2
<1>6. ASSUME NEW s \in Source, Understood(s) PROVE SleptByUser
  BY <1>6 DEF SleptByUser, Understood, LearningStateChanged, Kick, Going, queueVars,
              settingVars, routeVars, lifeVars, jobVars, storeVars
<1>7. ASSUME NEW s \in Source, NotUnderstood(s) PROVE SleptByUser
  BY <1>7 DEF SleptByUser, NotUnderstood, LearningStateChanged, Kick, Going, queueVars,
              settingVars, routeVars, lifeVars, jobVars, storeVars
<1>8. ASSUME NEW s \in Source, NotUnderstoodAgain(s) PROVE SleptByUser
  BY <1>8 DEF SleptByUser, NotUnderstoodAgain, LearningStateChanged, Kick, Going,
              queueVars,
              settingVars, routeVars, lifeVars, jobVars, storeVars
<1>9. CASE ReopenTopic
  BY <1>9 DEF SleptByUser, ReopenTopic, LearningStateChanged, Kick, Going, queueVars,
              settingVars, routeVars, lifeVars, jobVars, storeVars
<1> QED
  BY <1>1, <1>2, <1>3, <1>4, <1>5, <1>6, <1>7, <1>8, <1>9 DEF UserStep

\* ... and neither does the host's.
SleptByHost ==
  /\ drain = "none" /\ Going /\ routed
  /\ UNCHANGED pending \/ \E c : Trim(c) \/ Clear(c)
  /\ UNCHANGED <<budgetOpen, open, rephrasing, failedRephrases>>
  /\ SettleQueued \/ UNCHANGED jobVars

\* Nor has a step of the host, unless it dropped work.
LEMMA SleepByHost ==
  ASSUME Routed, HostStep, drain' = "none", Going', routed'
  PROVE  SleptByHost
<1>1. CASE Disable
  BY <1>1 DEF SleptByHost, Disable, Routed, Reschedule, Kick, Going,
              queueVars, settingVars, routeVars, lifeVars, storeVars
<1>2. CASE Enable
  BY <1>2 DEF SleptByHost, Enable, Routed, Reschedule, Kick, Going,
              queueVars, settingVars, routeVars, lifeVars, storeVars
<1>3. CASE ChangeRoute
  BY <1>3 DEF SleptByHost, ChangeRoute, Routed, Reschedule, Kick, Going,
              queueVars, settingVars, routeVars, lifeVars, storeVars
<1>4. CASE AdaptersUpdated
  BY <1>4 DEF SleptByHost, AdaptersUpdated, Routed, Reschedule, Kick, Going,
              queueVars, settingVars, routeVars, lifeVars, storeVars
<1>5. CASE RouteOutdated
  BY <1>5 DEF SleptByHost, RouteOutdated, Routed, Reschedule, Kick, Going,
              queueVars, settingVars, routeVars, lifeVars, storeVars
<1>6. CASE RouteResolved
  BY <1>6 DEF SleptByHost, RouteResolved, Routed, Reschedule, Kick, Going,
              queueVars, settingVars, routeVars, lifeVars, storeVars
<1>7. CASE RouteRejected
  BY <1>7 DEF SleptByHost, RouteRejected, Routed, Reschedule, Kick, Going,
              queueVars, settingVars, routeVars, lifeVars, storeVars
<1>8. CASE RefreshLeaves
  BY <1>8 DEF SleptByHost, RefreshLeaves, Routed, Reschedule, Kick, Going,
              queueVars, settingVars, routeVars, lifeVars, storeVars
<1>9. CASE LeaseLost
  BY <1>9 DEF SleptByHost, LeaseLost, Routed, Reschedule, Kick, Going,
              queueVars, settingVars, routeVars, lifeVars, storeVars
<1>10. CASE ResetBegins
  BY <1>10 DEF SleptByHost, ResetBegins, Routed, Reschedule, Kick, Going,
              queueVars, settingVars, routeVars, lifeVars, storeVars
<1>11. CASE ResetEnds
  BY <1>11 DEF SleptByHost, ResetEnds, Routed, Reschedule, Kick, Going,
              queueVars, settingVars, routeVars, lifeVars, storeVars
<1>12. CASE Dispose
  BY <1>12 DEF SleptByHost, Dispose, Routed, Reschedule, Kick, Going,
              queueVars, settingVars, routeVars, lifeVars, storeVars
<1>13. CASE BudgetTimer
  BY <1>13 DEF SleptByHost, BudgetTimer, Routed, Reschedule, Kick, Going,
              queueVars, settingVars, routeVars, lifeVars, storeVars
<1>14. CASE IdleTimer
  BY <1>14 DEF SleptByHost, IdleTimer, Routed, Reschedule, Kick, Going,
              queueVars, settingVars, routeVars, lifeVars, storeVars
<1>15. ASSUME NEW b \in BOOLEAN, ChangePrompt(b) PROVE SleptByHost
  BY <1>15 DEF SleptByHost, ChangePrompt, Routed, Reschedule, Kick, Going,
              queueVars, settingVars, routeVars, lifeVars, storeVars
<1>16. ASSUME NEW c \in Caps, ChangeLimits(c) PROVE SleptByHost
  BY <1>16 DEF SleptByHost, ChangeLimits, Routed, Reschedule, Kick, Going,
              queueVars, settingVars, routeVars, lifeVars, storeVars
<1> QED
  BY <1>1, <1>2, <1>3, <1>4, <1>5, <1>6, <1>7, <1>8, <1>9, <1>10, <1>11, <1>12, <1>13,
     <1>14, <1>15, <1>16
  DEF HostStep

\* A wakeup is not lost.
LEMMA WakeupStep ==
  ASSUME Shape, Placed, Routed, QueueTypeOK, NoLostWakeup, [Next]_vars
  PROVE  NoLostWakeup'
<1> SUFFICES ASSUME drain' = "none", Going', routed'
             PROVE  ~Work'
  BY DEF NoLostWakeup, Work
<1>0. drain = "none" /\ Going /\ routed => ~Work
  BY DEF NoLostWakeup, Work
<1>1. CASE UserStep
  <2>1. SleptByUser
    BY <1>1, SleepByUser
  <2>2. Explicit' => Explicit
    <3>1. ASSUME NEW J, NEW queue \in Seq(J), NEW j, queue = <<>>
          PROVE  Spliced(queue, j) = <<>>
      BY <3>1 DEF Spliced
    <3> QED
      BY <2>1, <3>1 DEF SleptByUser, Explicit, Shape
  <2> QED
    BY <1>0, <2>1, <2>2 DEF SleptByUser, Work, PendingRephrases, Executable, Queued
<1>2. CASE HostStep
  <2>1. SleptByHost
    BY <1>2, SleepByHost
  <2>2. Queued(pending') \subseteq Queued(pending)
    BY <2>1, TrimShrinks DEF SleptByHost
  <2>3. Explicit' => Explicit
    BY <2>1 DEF SleptByHost, Explicit, SettleQueued, jobVars
  <2> QED
    BY <1>0, <2>1, <2>2, <2>3 DEF SleptByHost, Work, PendingRephrases, Executable
<1>3. CASE LoopStep
  <2>1. DrainEnds
    BY <1>3
    DEF LoopStep, TakeManual, TakeReview, TakeCandidate, TakeIdle, TakeRephrase, Start,
        SummaryInvalid, DrainRests, DrainQuits, DrainThrows, CandidateThrown, CandidateFinished
  <2>2. /\ Going /\ ~ImmediateWork
        /\ UNCHANGED <<queueVars, settingVars, jobVars, failedRephrases, storeVars>>
    BY <2>1 DEF DrainEnds, Going, settingVars, routeVars, lifeVars
  <2> QED
    BY <2>2 DEF ImmediateWork, Work, Explicit, PendingRephrases, Executable, queueVars,
                settingVars, jobVars, storeVars
<1>4. CASE RunStep
  BY <1>4, StepOfTheRequest
<1>5. CASE UNCHANGED vars
  BY <1>0, <1>5 DEF vars, queueVars, settingVars, routeVars, lifeVars, jobVars,
                    storeVars, Work,
              Explicit, PendingRephrases, Executable, Queued, Going
<1> QED
  BY <1>1, <1>2, <1>3, <1>4, <1>5 DEF Next

-----------------------------------------------------------------------------
(* Every job is answered by what the store did.                             *)

\* Only what the store accepted is told as accepted.
LEMMA OutcomeStep ==
  ASSUME Shape, Placed, Jobs, OutcomeMatchesStore, [Next]_vars
  PROVE  OutcomeMatchesStore'
<1> USE DEF OutcomeMatchesStore
<1>0. state \in [Job -> JobState]
  BY DEF Jobs
<1>1. CASE UserStep
  BY <1>0, <1>1, JobsByUser DEF jobVars, Job
<1>2. CASE HostStep
  BY <1>0, <1>2, JobsByHost DEF jobVars, SettleQueued
<1>3. CASE LoopStep
  <2>1. /\ manualQueue # <<>> => state[Head(manualQueue)] = "queued" /\ Head(manualQueue) \in Job
        /\ reviewQueue # <<>> => state[Head(reviewQueue)] = "queued" /\ Head(reviewQueue) \in Job
    <3>1. ASSUME NEW J, NEW queue, Lined(queue, state, J), queue # <<>>
          PROVE  state[Head(queue)] = "queued"
      <4>1. 1 \in DOMAIN queue /\ Head(queue) = queue[1]
        BY <3>1, HeadTailProperties, LenProperties, EmptySeq DEF Lined
      <4> QED
        BY <3>1, <4>1 DEF Lined
    <3> QED
      BY <3>1, Heads DEF Jobs, Job
  <2> QED
    BY <1>0, <1>3, <2>1, JobsByLoop DEF jobVars
<1>4. CASE RunStep
  <2>1. run.kind \in {"manual", "review"} => run.of \in Job /\ state[run.of] = "active"
    BY <1>4, StepOfTheRequest DEF Placed, Jobs, Job
  <2> QED
    BY <1>0, <1>4, <2>1, JobsByRun
<1>5. CASE UNCHANGED vars
  BY <1>5 DEF vars, jobVars, storeVars
<1> QED
  BY <1>1, <1>2, <1>3, <1>4, <1>5 DEF Next

\* The host keeps the scheduler going, or settles every queued job; a clear is
\* done only when there is no drain.
KeepsGoing ==
  \/ SettleQueued
  \/ /\ UNCHANGED state
     /\ Going /\ routed => (Going' /\ routed') \/ drain = "none"

\* A host's step lets the drain go on, or settles what it held.
LEMMA HostKeepsGoing ==
  ASSUME HostStep
  PROVE  KeepsGoing
<1>1. CASE Disable
  BY <1>1 DEF KeepsGoing, Disable, Going, ResetReady, settingVars,
              routeVars, lifeVars, jobVars
<1>2. CASE Enable
  BY <1>2 DEF KeepsGoing, Enable, Going, ResetReady, settingVars,
              routeVars, lifeVars, jobVars
<1>3. CASE ChangeRoute
  BY <1>3 DEF KeepsGoing, ChangeRoute, Going, ResetReady, settingVars,
              routeVars, lifeVars, jobVars
<1>4. CASE AdaptersUpdated
  BY <1>4 DEF KeepsGoing, AdaptersUpdated, Going, ResetReady, settingVars,
              routeVars, lifeVars, jobVars
<1>5. CASE RouteOutdated
  BY <1>5 DEF KeepsGoing, RouteOutdated, Going, ResetReady, settingVars,
              routeVars, lifeVars, jobVars
<1>6. CASE RouteResolved
  BY <1>6 DEF KeepsGoing, RouteResolved, Going, ResetReady, settingVars,
              routeVars, lifeVars, jobVars
<1>7. CASE RouteRejected
  BY <1>7 DEF KeepsGoing, RouteRejected, Going, ResetReady, settingVars,
              routeVars, lifeVars, jobVars
<1>8. CASE RefreshLeaves
  BY <1>8 DEF KeepsGoing, RefreshLeaves, Going, ResetReady, settingVars,
              routeVars, lifeVars, jobVars
<1>9. CASE LeaseLost
  BY <1>9 DEF KeepsGoing, LeaseLost, Going, ResetReady, settingVars,
              routeVars, lifeVars, jobVars
<1>10. CASE ResetBegins
  BY <1>10 DEF KeepsGoing, ResetBegins, Going, ResetReady, settingVars,
              routeVars, lifeVars, jobVars
<1>11. CASE ResetEnds
  BY <1>11 DEF KeepsGoing, ResetEnds, Going, ResetReady, settingVars,
              routeVars, lifeVars, jobVars
<1>12. CASE Dispose
  BY <1>12 DEF KeepsGoing, Dispose, Going, ResetReady, settingVars,
              routeVars, lifeVars, jobVars
<1>13. CASE BudgetTimer
  BY <1>13 DEF KeepsGoing, BudgetTimer, Going, ResetReady, settingVars,
              routeVars, lifeVars, jobVars
<1>14. CASE IdleTimer
  BY <1>14 DEF KeepsGoing, IdleTimer, Going, ResetReady, settingVars,
              routeVars, lifeVars, jobVars
<1>15. ASSUME NEW b \in BOOLEAN, ChangePrompt(b) PROVE KeepsGoing
  BY <1>15 DEF KeepsGoing, ChangePrompt, Going, ResetReady, settingVars,
              routeVars, lifeVars, jobVars
<1>16. ASSUME NEW c \in Caps, ChangeLimits(c) PROVE KeepsGoing
  BY <1>16 DEF KeepsGoing, ChangeLimits, Going, ResetReady, settingVars,
              routeVars, lifeVars, jobVars
<1> QED
  BY <1>1, <1>2, <1>3, <1>4, <1>5, <1>6, <1>7, <1>8, <1>9, <1>10, <1>11, <1>12, <1>13,
     <1>14, <1>15, <1>16
  DEF HostStep

\* The others do not stop it.
LEMMA OthersKeepGoing ==
  ASSUME UserStep \/ LoopStep \/ RunStep, Going, routed
  PROVE  Going' /\ routed'
<1>1. UNCHANGED <<enabled, failed, stopped, routed>>
  BY DEF UserStep, RequestManual, RequestReviewAnswer, CallerAborts, TurnEnds, TurnCaptured,
       Understood, NotUnderstood, NotUnderstoodAgain, ReopenTopic, LearningStateChanged,
       LoopStep, TakeManual, TakeReview, TakeCandidate, TakeIdle, TakeRephrase,
       SummaryInvalid, DrainRests, DrainQuits, DrainThrows, DrainEnds, CandidateThrown,
       CandidateFinished, RunStep, Relieved, CandidateRelieved, CandidateAnswered,
       CandidateFails, ManualAnswered, ReviewAnswered, ExplicitFails, RephraseAnswered,
       RephraseFails, IdleEnds, settingVars, routeVars, lifeVars
<1>2. resetting = "no" => resetting' = "no"
  BY DEF UserStep, RequestManual, RequestReviewAnswer, CallerAborts, TurnEnds, TurnCaptured,
       Understood, NotUnderstood, NotUnderstoodAgain, ReopenTopic, LearningStateChanged,
       LoopStep, TakeManual, TakeReview, TakeCandidate, TakeIdle, TakeRephrase,
       SummaryInvalid, DrainRests, DrainQuits, DrainThrows, DrainEnds, CandidateThrown,
       CandidateFinished, RunStep, Relieved, CandidateRelieved, CandidateAnswered,
       CandidateFails, ManualAnswered, ReviewAnswered, ExplicitFails, RephraseAnswered,
       RephraseFails, IdleEnds, lifeVars, StoreWritten, CheckpointMayCommit
<1> QED
  BY <1>1, <1>2 DEF Going

\* A request that is accepted wakes the drain.
LEMMA AcceptedWakes ==
  ASSUME Shape, UserStep, NEW j \in Job, state[j] # "queued", state'[j] = "queued"
  PROVE  Going /\ routed /\ drain' # "none"
<1>1. ASSUME NEW k \in Job, RequestManual(k)
      PROVE  Going /\ routed /\ drain' # "none"
  <2>1. k = j /\ state[k] = "new" /\ Going /\ routed
    BY <1>1 DEF RequestManual, Shape
  <2> QED
    BY <1>1, <2>1 DEF RequestManual, Kick, Going, settingVars, routeVars, lifeVars
<1>2. ASSUME NEW k \in Job, RequestReviewAnswer(k)
      PROVE  Going /\ routed /\ drain' # "none"
  <2>1. k = j /\ state[k] = "new" /\ Going /\ routed
    BY <1>2 DEF RequestReviewAnswer, Shape
  <2> QED
    BY <1>2, <2>1 DEF RequestReviewAnswer, Kick, Going, settingVars, routeVars, lifeVars
<1>3. ASSUME NEW k \in Job, CallerAborts(k)
      PROVE  FALSE
  BY <1>3 DEF CallerAborts, Shape, jobVars
<1>4. CASE state' = state
  BY <1>4
<1> QED
  BY <1>1, <1>2, <1>3, <1>4
  DEF UserStep, TurnEnds, TurnCaptured, Understood, NotUnderstood, NotUnderstoodAgain,
      ReopenTopic, LearningStateChanged, jobVars

\* No job is left in a runtime that does not run it.
LEMMA OrphansStep ==
  ASSUME Shape, Placed, Jobs, NoOrphanJobs, [Next]_vars
  PROVE  NoOrphanJobs'
<1> SUFFICES ASSUME NEW j \in Job, state'[j] = "queued"
             PROVE  Going' /\ routed' /\ drain' # "none"
  BY DEF NoOrphanJobs
<1>0. state[j] = "queued" => Going /\ routed /\ drain # "none"
  BY DEF NoOrphanJobs
<1>1. CASE UserStep
  BY <1>0, <1>1, AcceptedWakes, OthersKeepGoing, BesideTheDrain
<1>2. CASE HostStep
  BY <1>0, <1>2, HostKeepsGoing, BesideTheDrain DEF KeepsGoing, SettleQueued
<1>3. CASE LoopStep
  <2>1. state[j] = "queued"
    BY <1>3, JobsByLoop, Heads DEF Shape, Job, jobVars
  <2>2. Explicit
    <3>1. CASE j \in ManualJob
      BY <2>1, <3>1, LenProperties, EmptySeq DEF Jobs, Lined, Explicit
    <3>2. CASE j \in ReviewJob
      BY <2>1, <3>2, LenProperties, EmptySeq DEF Jobs, Lined, Explicit
    <3> QED
      BY <3>1, <3>2 DEF Job
  <2>3. drain' # "none"
    BY <1>0, <1>3, <2>1, <2>2
    DEF LoopStep, TakeManual, TakeReview, TakeCandidate, TakeIdle, TakeRephrase, Start,
        SummaryInvalid, DrainRests, DrainQuits, DrainThrows, DrainEnds, CandidateThrown,
        CandidateFinished, ImmediateWork, Explicit
  <2> QED
    BY <1>0, <1>3, <2>1, <2>3, OthersKeepGoing
<1>4. CASE RunStep
  <2>1. state[j] = "queued"
    BY <1>4, JobsByRun DEF Shape
  <2> QED
    BY <1>0, <1>4, <2>1, StepOfTheRequest, OthersKeepGoing
<1>5. CASE UNCHANGED vars
  BY <1>0, <1>5 DEF vars, settingVars, routeVars, lifeVars, jobVars, Going
<1> QED
  BY <1>1, <1>2, <1>3, <1>4, <1>5 DEF Next

-----------------------------------------------------------------------------
(* A clear finds the scheduler quiet.                                       *)

\* Once a clear has begun, no turn that was being read will be accepted.
Fenced ==
  /\ capture \in [Source -> {"none", "current", "stale"}]
  /\ resetting # "no" => \A s \in Source : capture[s] # "current"

\* A clear finds no capture under way, from its first step to its last.
LEMMA FencedStep ==
  ASSUME Fenced, [Next]_vars
  PROVE  Fenced'
<1>1. ASSUME NEW keeps, CancelCurrent(keeps)
      PROVE  Fenced'
  BY <1>1 DEF Fenced, CancelCurrent
<1>2. CASE UNCHANGED capture /\ (resetting = "no" => resetting' = "no")
  BY <1>2 DEF Fenced
<1>3. ASSUME NEW s \in Source, TurnEnds(s)
      PROVE  Fenced'
  BY <1>3 DEF TurnEnds, Fenced, Going, lifeVars
<1>4. ASSUME NEW s \in Source, TurnCaptured(s)
      PROVE  Fenced'
  BY <1>4 DEF TurnCaptured, Fenced, lifeVars
<1>5. CASE UserStep
  BY <1>1, <1>2, <1>3, <1>4, <1>5
  DEF UserStep, RequestManual, RequestReviewAnswer, CallerAborts, Understood, NotUnderstood,
      NotUnderstoodAgain, ReopenTopic, LearningStateChanged, lifeVars
<1>6. CASE HostStep
  BY <1>1, <1>2, <1>6
  DEF HostStep, Disable, Enable, ChangeRoute, AdaptersUpdated, ChangePrompt, ChangeLimits,
      RouteOutdated, RouteResolved, RouteRejected, RefreshLeaves, LeaseLost, ResetBegins,
      ResetEnds, Dispose, BudgetTimer, IdleTimer, lifeVars
<1>7. CASE LoopStep
  BY <1>2, <1>7
  DEF LoopStep, TakeManual, TakeReview, TakeCandidate, TakeIdle, TakeRephrase,
      SummaryInvalid, DrainRests, DrainQuits, DrainThrows, DrainEnds, CandidateThrown,
      CandidateFinished, lifeVars
<1>8. CASE RunStep
  BY <1>2, <1>8
  DEF RunStep, Relieved, CandidateRelieved, CandidateAnswered, CandidateFails,
      ManualAnswered, ReviewAnswered, ExplicitFails, RephraseAnswered, RephraseFails,
      IdleEnds, CheckpointMayCommit, StoreWritten, lifeVars
<1>9. CASE UNCHANGED vars
  BY <1>2, <1>9 DEF vars, lifeVars
<1> QED
  BY <1>5, <1>6, <1>7, <1>8, <1>9 DEF Next

\* Only the end of a clear ends a clear.
LEMMA ClearEndsBy ==
  ASSUME [Next]_vars, resetting # "no", resetting' = "no"
  PROVE  ResetEnds
<1>1. CASE UserStep
  BY <1>1
  DEF UserStep, RequestManual, RequestReviewAnswer, CallerAborts, TurnEnds, TurnCaptured,
      Understood, NotUnderstood, NotUnderstoodAgain, ReopenTopic, StoreWritten, lifeVars
<1>2. CASE HostStep
  BY <1>2
  DEF HostStep, Disable, Enable, ChangeRoute, AdaptersUpdated, ChangePrompt, ChangeLimits,
      RouteOutdated, RouteResolved, RouteRejected, RefreshLeaves, LeaseLost, ResetBegins,
      Dispose, BudgetTimer, IdleTimer, lifeVars
<1>3. CASE LoopStep
  BY <1>3
  DEF LoopStep, TakeManual, TakeReview, TakeCandidate, TakeIdle, TakeRephrase,
      SummaryInvalid, DrainRests, DrainQuits, DrainThrows, DrainEnds, CandidateThrown,
      CandidateFinished, lifeVars
<1>4. CASE RunStep
  BY <1>4
  DEF RunStep, Relieved, CandidateRelieved, CandidateAnswered, CandidateFails,
      ManualAnswered, ReviewAnswered, ExplicitFails, RephraseAnswered, RephraseFails,
      IdleEnds, CheckpointMayCommit, StoreWritten, lifeVars
<1>5. CASE UNCHANGED vars
  BY <1>5 DEF vars, lifeVars
<1> QED
  BY <1>1, <1>2, <1>3, <1>4, <1>5 DEF Next

\* The step by which the store is cleared.
QuietClear ==
  resetting # "no" /\ resetting' = "no" =>
    /\ drain = "none" /\ run = NoRun
    /\ held = NoCandidate /\ Queued(pending') = {}
    /\ \A s \in Source : capture[s] # "current"

\* When the clear deletes the data, nothing is under way.
LEMMA QuietStep ==
  ASSUME Placed, Fenced, QueueTypeOK, [Next]_vars
  PROVE  QuietClear
<1> SUFFICES ASSUME resetting # "no", resetting' = "no"
             PROVE  /\ drain = "none" /\ run = NoRun
                    /\ held = NoCandidate /\ Queued(pending') = {}
                    /\ \A s \in Source : capture[s] # "current"
  BY DEF QuietClear
<1>1. drain = "none" /\ Clear(limit)
  BY ClearEndsBy DEF ResetEnds, ResetReady
<1>2. run = NoRun /\ phase = "idle" /\ held = NoCandidate
  BY <1>1 DEF Placed, QueueTypeOK
<1>3. Queued(pending') = {}
  BY <1>1 DEF Clear, Queued
<1> QED
  BY <1>1, <1>2, <1>3 DEF Fenced

-----------------------------------------------------------------------------
(* An answer is written only while it is about the present.                 *)

\* The step by which an answer reaches the store.
FreshCommit ==
  \/ written' # written
  \/ open' \ open # {}
  \/ \E s \in rephrasing \ rephrasing' : s \in open'
  => run.basis = world

\* What a step commits was made of the world as it is.
LEMMA FreshStep ==
  ASSUME Shape, Placed, Based, [Next]_vars
  PROVE  FreshCommit
<1>1. CASE UserStep
  <2>1. UNCHANGED written /\ \/ UNCHANGED <<open, rephrasing>>
                             \/ \E s \in open : open' = open \ {s} /\ rephrasing' = rephrasing \ {s}
                             \/ open' = open /\ rephrasing \subseteq rephrasing'
    BY <1>1
    DEF UserStep, RequestManual, RequestReviewAnswer, CallerAborts, TurnEnds, TurnCaptured,
        Understood, NotUnderstood, NotUnderstoodAgain, ReopenTopic, LearningStateChanged,
        storeVars
  <2> QED
    BY <2>1 DEF FreshCommit
<1>2. CASE HostStep
  <2>1. UNCHANGED written /\ (UNCHANGED <<open, rephrasing>> \/ open' = {})
    BY <1>2
    DEF HostStep, Disable, Enable, ChangeRoute, AdaptersUpdated, ChangePrompt, ChangeLimits,
        RouteOutdated, RouteResolved, RouteRejected, RefreshLeaves, LeaseLost, ResetBegins,
        ResetEnds, Dispose, BudgetTimer, IdleTimer, storeVars
  <2> QED
    BY <2>1 DEF FreshCommit
<1>3. CASE LoopStep
  BY <1>3, DrainBases, JobsByLoop DEF FreshCommit
<1>4. CASE RunStep
  <2>1. UNCHANGED <<written, open, rephrasing>> \/ ~run.aborted
    BY <1>4
    DEF RunStep, Relieved, CandidateRelieved, CandidateAnswered, CandidateFails,
        ManualAnswered, ReviewAnswered, ExplicitFails, RephraseAnswered, RephraseFails,
        IdleEnds, Refused, Current, storeVars
  <2>2. run # NoRun
    BY <1>4, StepOfTheRequest DEF Placed
  <2> QED
    BY <2>1, <2>2 DEF Based, FreshCommit
<1>5. CASE UNCHANGED vars
  BY <1>5 DEF FreshCommit, vars, storeVars
<1> QED
  BY <1>1, <1>2, <1>3, <1>4, <1>5 DEF Next

-----------------------------------------------------------------------------
(* The theorems.                                                            *)

\* The inductive invariant, beside the queue's.
Scheduled ==
  /\ Shape /\ Placed /\ Jobs /\ Based /\ Routed /\ Fenced
  /\ FailedArePending /\ NoLostWakeup /\ OutcomeMatchesStore /\ NoOrphanJobs

\* The whole invariant holds at the start, ...
LEMMA InitScheduled == Init => Scheduled
<1> SUFFICES ASSUME Init
             PROVE  Scheduled
  OBVIOUS
<1>1. Shape
  BY EmptySeq DEF Init, Shape
<1>2. Placed
  BY DEF Init, QueueInit, Placed
<1>3. Jobs
  BY <1>1 DEF Init, Jobs, Shape, Lined, JobState, Job
<1>4. Based /\ Fenced /\ FailedArePending
  BY DEF Init, Based, Fenced, FailedArePending
<1>5. Routed
  BY DEF Init, Routed
<1>6. NoLostWakeup
  BY DEF Init, NoLostWakeup
<1>7. OutcomeMatchesStore /\ NoOrphanJobs
  BY DEF Init, OutcomeMatchesStore, NoOrphanJobs
<1> QED
  BY <1>1, <1>2, <1>3, <1>4, <1>5, <1>6, <1>7 DEF Scheduled

\* ... and every step keeps it, given the queue's types.
LEMMA NextScheduled == Scheduled /\ QueueTypeOK /\ [Next]_vars => Scheduled'
<1> SUFFICES ASSUME Scheduled, QueueTypeOK, [Next]_vars
             PROVE  Scheduled'
  OBVIOUS
<1> USE DEF Scheduled
<1>1. Shape'
  BY ShapeStep
<1>2. Placed'
  BY PlacedStep DEF QueueTypeOK
<1>3. Jobs'
  BY <1>1, JobsStep
<1>4. Based'
  BY BasedStep
<1>5. Routed'
  BY RoutedStep
<1>6. Fenced'
  BY FencedStep
<1>7. FailedArePending'
  BY MarksStep
<1>8. NoLostWakeup'
  BY WakeupStep
<1>9. OutcomeMatchesStore'
  BY OutcomeStep
<1>10. NoOrphanJobs'
  BY OrphansStep
<1> QED
  BY <1>1, <1>2, <1>3, <1>4, <1>5, <1>6, <1>7, <1>8, <1>9, <1>10

\* Together with the queue's types, which the protocol gives.
THEOREM SchedulerInvariant == Spec => [](Scheduled /\ QueueTypeOK)
<1>1. QueueInv => QueueTypeOK
  BY DEF QueueInv
<1> QED
  BY <1>1, QueueAlways, InitScheduled, NextScheduled, PTL DEF Spec

\* A ready scheduler whose drain has exited has nothing it could run: every
\* path that brings work, a slot or a route kicks the drain, and the finally of
\* kick looks once more.
THEOREM WakeupsAreKept == Spec => []NoLostWakeup
BY SchedulerInvariant, PTL DEF Scheduled

\* No explicit request waits in a runtime that is not on its way to it.
THEOREM JobsAreServed == Spec => []NoOrphanJobs
BY SchedulerInvariant, PTL DEF Scheduled

\* A caller is told ok exactly when the store accepted its result.
THEOREM OutcomesAreTrue == Spec => []OutcomeMatchesStore
BY SchedulerInvariant, PTL DEF Scheduled

\* The failure marks are among the rephrases that are still pending.
THEOREM MarksArePending == Spec => []FailedArePending
BY SchedulerInvariant, PTL DEF Scheduled

\* What reaches the store was asked under the settings and the learning state
\* of the moment it is written in.
THEOREM CommitsAreFresh == Spec => FreshCommits
<1>1. Scheduled /\ [Next]_vars =>
        [ \/ written' # written
          \/ open' \ open # {}
          \/ \E s \in rephrasing \ rephrasing' : s \in open'
          => run.basis = world ]_vars
  BY FreshStep DEF Scheduled, FreshCommit
<1> QED
  BY <1>1, SchedulerInvariant, PTL DEF Spec, FreshCommits

\* A clear of the store finds no drain, no request, no candidate and no turn
\* that could still be accepted.
THEOREM ClearsAreQuiet == Spec => ClearIsQuiescent
<1>1. Scheduled /\ QueueTypeOK /\ [Next]_vars =>
        [ resetting # "no" /\ resetting' = "no" =>
            /\ drain = "none" /\ run = NoRun
            /\ held = NoCandidate /\ Queued(pending') = {}
            /\ \A s \in Source : capture[s] # "current" ]_vars
  BY QuietStep DEF Scheduled, QuietClear
<1> QED
  BY <1>1, SchedulerInvariant, PTL DEF Spec, ClearIsQuiescent

-----------------------------------------------------------------------------
(* Types.                                                                   *)

\* The types of the variables that say whether the scheduler may run, ...
RouteTypes ==
  /\ enabled \in BOOLEAN /\ routed \in BOOLEAN /\ failed \in BOOLEAN
  /\ stopped \in BOOLEAN

\* No step leaves them.
LEMMA RouteTypesStep == RouteTypes /\ [Next]_vars => RouteTypes'
<1> SUFFICES ASSUME RouteTypes, [Next]_vars PROVE RouteTypes'
  OBVIOUS
<1> USE CompactsAssumption DEF RouteTypes
<1>1. CASE UserStep
  BY <1>1
  DEF UserStep, RequestManual, RequestReviewAnswer, CallerAborts, TurnEnds, TurnCaptured,
      Understood, NotUnderstood, NotUnderstoodAgain, ReopenTopic, settingVars, routeVars,
      lifeVars, LearningStateChanged
<1>2. CASE HostStep
  BY <1>2
  DEF HostStep, Disable, Enable, ChangeRoute, AdaptersUpdated, RouteOutdated, RouteResolved,
      RouteRejected, RefreshLeaves, LeaseLost, ResetBegins, ResetEnds, Dispose, BudgetTimer,
      IdleTimer, ChangePrompt, ChangeLimits, settingVars, routeVars, lifeVars
<1>3. CASE LoopStep
  BY <1>3
  DEF LoopStep, TakeManual, TakeReview, TakeCandidate, TakeIdle, TakeRephrase, SummaryInvalid,
      DrainRests, DrainQuits, DrainThrows, DrainEnds, CandidateThrown, CandidateFinished,
      settingVars, routeVars, lifeVars
<1>4. CASE RunStep
  BY <1>4
  DEF RunStep, Relieved, CandidateRelieved, CandidateAnswered, CandidateFails, ManualAnswered,
      ReviewAnswered, ExplicitFails, RephraseAnswered, RephraseFails, IdleEnds, settingVars,
      routeVars, lifeVars
<1>5. CASE UNCHANGED vars
  BY <1>5 DEF vars, settingVars, routeVars, lifeVars, timerVars, storeVars
<1> QED
  BY <1>1, <1>2, <1>3, <1>4, <1>5 DEF Next

\* ... of the stages of a refresh, a configuration and a clear, ...
StageTypes ==
  /\ refresh \in {"none", "resolving", "outdated", "leaving"}
  /\ configuring \in {"no", "enabling", "changing"}
  /\ resetting \in {"no", "now", "waiting", "stale"}

\* No step leaves them.
LEMMA StageTypesStep == StageTypes /\ [Next]_vars => StageTypes'
<1> SUFFICES ASSUME StageTypes, [Next]_vars PROVE StageTypes'
  OBVIOUS
<1> USE CompactsAssumption DEF StageTypes
<1>1. CASE UserStep
  BY <1>1
  DEF UserStep, RequestManual, RequestReviewAnswer, CallerAborts, TurnEnds, TurnCaptured,
      Understood, NotUnderstood, NotUnderstoodAgain, ReopenTopic, OutdatedRefresh,
      JoinRefresh, StoreWritten, CheckpointMayCommit, Reschedule, routeVars, lifeVars,
      LearningStateChanged
<1>2. CASE HostStep
  BY <1>2
  DEF HostStep, Disable, Enable, ChangeRoute, AdaptersUpdated, RouteOutdated, RouteResolved,
      RouteRejected, RefreshLeaves, LeaseLost, ResetBegins, ResetEnds, Dispose, BudgetTimer,
      IdleTimer, ChangePrompt, ChangeLimits, OutdatedRefresh, JoinRefresh, StoreWritten,
      CheckpointMayCommit, Reschedule, routeVars, lifeVars
<1>3. CASE LoopStep
  BY <1>3
  DEF LoopStep, TakeManual, TakeReview, TakeCandidate, TakeIdle, TakeRephrase, SummaryInvalid,
      DrainRests, DrainQuits, DrainThrows, DrainEnds, CandidateThrown, CandidateFinished,
      OutdatedRefresh, JoinRefresh, StoreWritten, CheckpointMayCommit, Reschedule,
      routeVars, lifeVars
<1>4. CASE RunStep
  BY <1>4
  DEF RunStep, Relieved, CandidateRelieved, CandidateAnswered, CandidateFails, ManualAnswered,
      ReviewAnswered, ExplicitFails, RephraseAnswered, RephraseFails, IdleEnds,
      OutdatedRefresh, JoinRefresh, StoreWritten, CheckpointMayCommit, Reschedule,
      routeVars, lifeVars
<1>5. CASE UNCHANGED vars
  BY <1>5 DEF vars, settingVars, routeVars, lifeVars, timerVars, storeVars
<1> QED
  BY <1>1, <1>2, <1>3, <1>4, <1>5 DEF Next

\* ... of the limits, ...
SlotTypes ==
  /\ cap \in Caps /\ budgetOpen \in BOOLEAN /\ compactable \in BOOLEAN

\* No step leaves them.
LEMMA SlotTypesStep == SlotTypes /\ [Next]_vars => SlotTypes'
<1> SUFFICES ASSUME SlotTypes, [Next]_vars PROVE SlotTypes'
  OBVIOUS
<1> USE CompactsAssumption DEF SlotTypes
<1>1. CASE UserStep
  BY <1>1
  DEF UserStep, RequestManual, RequestReviewAnswer, CallerAborts, TurnEnds, TurnCaptured,
      Understood, NotUnderstood, NotUnderstoodAgain, ReopenTopic, CheckpointMayCommit,
      Refused, settingVars, storeVars, LearningStateChanged
<1>2. CASE HostStep
  BY <1>2
  DEF HostStep, Disable, Enable, ChangeRoute, AdaptersUpdated, RouteOutdated, RouteResolved,
      RouteRejected, RefreshLeaves, LeaseLost, ResetBegins, ResetEnds, Dispose, BudgetTimer,
      IdleTimer, ChangePrompt, ChangeLimits, CheckpointMayCommit, Refused, settingVars,
      storeVars
<1>3. CASE LoopStep
  BY <1>3
  DEF LoopStep, TakeManual, TakeReview, TakeCandidate, TakeIdle, TakeRephrase, SummaryInvalid,
      DrainRests, DrainQuits, DrainThrows, DrainEnds, CandidateThrown, CandidateFinished,
      CheckpointMayCommit, Refused, settingVars, storeVars
<1>4. CASE RunStep
  BY <1>4
  DEF RunStep, Relieved, CandidateRelieved, CandidateAnswered, CandidateFails, ManualAnswered,
      ReviewAnswered, ExplicitFails, RephraseAnswered, RephraseFails, IdleEnds,
      CheckpointMayCommit, Refused, settingVars, storeVars
<1>5. CASE UNCHANGED vars
  BY <1>5 DEF vars, settingVars, routeVars, lifeVars, timerVars, storeVars
<1> QED
  BY <1>1, <1>2, <1>3, <1>4, <1>5 DEF Next

\* ... of the idle clock, ...
IdleTypes ==
  /\ idleTime \in BOOLEAN /\ attempted \in BOOLEAN

\* No step leaves them.
LEMMA IdleTypesStep == IdleTypes /\ RouteTypes /\ [Next]_vars => IdleTypes'
<1> SUFFICES ASSUME IdleTypes, routed \in BOOLEAN, [Next]_vars PROVE IdleTypes'
  BY DEF RouteTypes
<1> USE DEF IdleTypes
<1>1. CASE UserStep
  BY <1>1
  DEF UserStep, RequestManual, RequestReviewAnswer, CallerAborts, TurnEnds, TurnCaptured,
      Understood, NotUnderstood, NotUnderstoodAgain, ReopenTopic, Refused, timerVars,
      LearningStateChanged
<1>2. CASE HostStep
  BY <1>2
  DEF HostStep, Disable, Enable, ChangeRoute, AdaptersUpdated, RouteOutdated, RouteResolved,
      RouteRejected, RefreshLeaves, LeaseLost, ResetBegins, ResetEnds, Dispose, BudgetTimer,
      IdleTimer, ChangePrompt, ChangeLimits, Refused, timerVars
<1>3. CASE LoopStep
  BY <1>3
  DEF LoopStep, TakeManual, TakeReview, TakeCandidate, TakeIdle, TakeRephrase, SummaryInvalid,
      DrainRests, DrainQuits, DrainThrows, DrainEnds, CandidateThrown, CandidateFinished,
      Refused, timerVars
<1>4. CASE RunStep
  BY <1>4
  DEF RunStep, Relieved, CandidateRelieved, CandidateAnswered, CandidateFails, ManualAnswered,
      ReviewAnswered, ExplicitFails, RephraseAnswered, RephraseFails, IdleEnds, Refused,
      timerVars
<1>5. CASE UNCHANGED vars
  BY <1>5 DEF vars, settingVars, routeVars, lifeVars, timerVars, storeVars
<1> QED
  BY <1>1, <1>2, <1>3, <1>4, <1>5 DEF Next

\* ... of the timers, ...
TimerTypes ==
  /\ budgetTimer \in BOOLEAN /\ idleTimer \in BOOLEAN

\* No step leaves them.
LEMMA TimerTypesStep == TimerTypes /\ [Next]_vars => TimerTypes'
<1> SUFFICES ASSUME TimerTypes, [Next]_vars PROVE TimerTypes'
  OBVIOUS
<1> USE CompactsAssumption DEF TimerTypes
<1>1. CASE UserStep
  BY <1>1
  DEF UserStep, RequestManual, RequestReviewAnswer, CallerAborts, TurnEnds, TurnCaptured,
      Understood, NotUnderstood, NotUnderstoodAgain, ReopenTopic, ScheduleIdle, Reschedule,
      ClearTimers, NothingToAnswer, Refused, timerVars, LearningStateChanged
<1>2. CASE HostStep
  BY <1>2
  DEF HostStep, Disable, Enable, ChangeRoute, AdaptersUpdated, RouteOutdated, RouteResolved,
      RouteRejected, RefreshLeaves, LeaseLost, ResetBegins, ResetEnds, Dispose, BudgetTimer,
      IdleTimer, ChangePrompt, ChangeLimits, ScheduleIdle, Reschedule, ClearTimers,
      NothingToAnswer, Refused, timerVars
<1>3. CASE LoopStep
  BY <1>3
  DEF LoopStep, TakeManual, TakeReview, TakeCandidate, TakeIdle, TakeRephrase, SummaryInvalid,
      DrainRests, DrainQuits, DrainThrows, DrainEnds, CandidateThrown, CandidateFinished,
      ScheduleIdle, Reschedule, ClearTimers, NothingToAnswer, Refused, timerVars
<1>4. CASE RunStep
  BY <1>4
  DEF RunStep, Relieved, CandidateRelieved, CandidateAnswered, CandidateFails, ManualAnswered,
      ReviewAnswered, ExplicitFails, RephraseAnswered, RephraseFails, IdleEnds,
      ScheduleIdle, Reschedule, ClearTimers, NothingToAnswer, Refused, timerVars
<1>5. CASE UNCHANGED vars
  BY <1>5 DEF vars, settingVars, routeVars, lifeVars, timerVars, storeVars
<1> QED
  BY <1>1, <1>2, <1>3, <1>4, <1>5 DEF Next

\* ... and of the sets of jobs and questions.
SetTypes ==
  /\ signalled \subseteq Job /\ written \subseteq Job /\ questions \subseteq Question

\* No step leaves them: a job in flight or settled is a job.
LEMMA SetTypesStep == SetTypes /\ Placed /\ Jobs /\ [Next]_vars => SetTypes'
<1> SUFFICES ASSUME SetTypes, Placed, Jobs, [Next]_vars PROVE SetTypes'
  OBVIOUS
<1> USE DEF SetTypes
<1>1. CASE UserStep
  BY <1>1
  DEF UserStep, RequestManual, RequestReviewAnswer, CallerAborts, TurnEnds, TurnCaptured,
      Understood, NotUnderstood, NotUnderstoodAgain, ReopenTopic, Refused, Settle,
      storeVars, LearningStateChanged
<1>2. CASE HostStep
  BY <1>2
  DEF HostStep, Disable, Enable, ChangeRoute, AdaptersUpdated, RouteOutdated, RouteResolved,
      RouteRejected, RefreshLeaves, LeaseLost, ResetBegins, ResetEnds, Dispose, BudgetTimer,
      IdleTimer, ChangePrompt, ChangeLimits, Refused, Settle, storeVars
<1>3. CASE LoopStep
  BY <1>3
  DEF LoopStep, TakeManual, TakeReview, TakeCandidate, TakeIdle, TakeRephrase, SummaryInvalid,
      DrainRests, DrainQuits, DrainThrows, DrainEnds, CandidateThrown, CandidateFinished,
      Refused, Settle, storeVars
<1>4. CASE RunStep
  <2>1. run.kind \in {"manual", "review"} => run.of \in Job
    BY <1>4, StepOfTheRequest DEF Placed, Jobs, Job
  <2>2. written' \subseteq Job
    BY <1>4, <2>1, JobsByRun
  <2>3. signalled' \subseteq signalled
    BY <1>4
    DEF RunStep, Relieved, CandidateRelieved, CandidateAnswered, CandidateFails, ManualAnswered,
        ReviewAnswered, ExplicitFails, RephraseAnswered, RephraseFails, IdleEnds, Refused, Settle
  <2>4. questions' \subseteq questions
    BY <1>4
    DEF RunStep, Relieved, CandidateRelieved, CandidateAnswered, CandidateFails, ManualAnswered,
        ReviewAnswered, ExplicitFails, RephraseAnswered, RephraseFails, IdleEnds, Refused, storeVars
  <2> QED
    BY <2>2, <2>3, <2>4
<1>5. CASE UNCHANGED vars
  BY <1>5 DEF vars, settingVars, routeVars, lifeVars, timerVars, storeVars
<1> QED
  BY <1>1, <1>2, <1>3, <1>4, <1>5 DEF Next

\* All of the types that the invariant does not hold already.
Typed ==
  /\ RouteTypes /\ StageTypes /\ SlotTypes /\ IdleTypes /\ TimerTypes /\ SetTypes

\* Every variable keeps its type.
THEOREM TypeCorrect == Spec => []TypeOK
<1>1. Init => Typed
  BY CompactsAssumption
  DEF Init, Typed, RouteTypes, StageTypes, SlotTypes, IdleTypes, TimerTypes, SetTypes
<1>2. Scheduled /\ Typed /\ [Next]_vars => Typed'
  BY RouteTypesStep, StageTypesStep, SlotTypesStep, IdleTypesStep, TimerTypesStep, SetTypesStep
  DEF Scheduled, Typed
<1>3. Scheduled /\ QueueTypeOK /\ Typed => TypeOK
  BY DEF Scheduled, Shape, Placed, Fenced, FailedArePending, Typed, RouteTypes, StageTypes,
         SlotTypes, IdleTypes, TimerTypes, SetTypes, TypeOK
<1> QED
  BY <1>1, <1>2, <1>3, SchedulerInvariant, PTL DEF Spec
=============================================================================
