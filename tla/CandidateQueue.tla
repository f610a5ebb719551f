--------------------------- MODULE CandidateQueue ---------------------------
(***************************************************************************)
(* The per-source, latest-wins queue of autonomous candidates              *)
(* (src/src/queue.ts), together with the protocol its only caller follows: *)
(* the scheduler's drain takes one candidate, runs it, hands it back with  *)
(* retry or defer or not at all, and calls finish one microtask later.     *)
(* Pushes, trims and clears may fall anywhere between those steps. The     *)
(* scheduler extends this module: hence names that say they are the        *)
(* queue's.                                                                *)
(***************************************************************************)
EXTENDS Naturals, FiniteSets

CONSTANTS Source,       \* source Sessions
          Instant,      \* observedAt values of captured turns
          Caps,         \* values of the maxPendingCandidates setting
          MaxAttempts,  \* the maxAttempts setting
          MaxSequence,  \* bound on the number of pushes
          NoCandidate   \* the value undefined

ASSUME SourceAssumption == IsFiniteSet(Source)
ASSUME CapsAssumption == Caps \subseteq Nat \ {0}
ASSUME InstantAssumption == Instant \subseteq Nat
ASSUME AttemptsAssumption == MaxAttempts \in Nat \ {0}
ASSUME SequenceAssumption == MaxSequence \in Nat

Candidate == [source : Source, observedAt : Instant,
              sequence : Nat \ {0}, attempts : 0..MaxAttempts - 1]

ASSUME NoCandidateAssumption == NoCandidate \notin Candidate

VARIABLES pending,       \* pending[s]: the queued candidate of s, or NoCandidate
          latest,        \* latest[s]: the retained sequence number of s, 0 when absent
          nextSequence,
          limit,         \* the cap that retry and defer enforce
          held,          \* the candidate the drain has taken, or NoCandidate
          phase,         \* where the drain is with it
          dropped        \* history: sequence numbers the queue gave up on

queueVars == <<pending, latest, nextSequence, limit, held, phase, dropped>>

-----------------------------------------------------------------------------
Queued(p) == {s \in Source : p[s] # NoCandidate}
Retained  == {s \in Source : latest[s] # 0}

\* compareCandidates: by observation time, then by arrival.
Earlier(c, d) == \/ c.observedAt < d.observedAt
                 \/ c.observedAt = d.observedAt /\ c.sequence < d.sequence

IsLatest(c) == latest[c.source] = c.sequence

\* The sequence numbers the queue still answers for: the queued ones, and
\* the one in flight while nothing replaced, evicted or cleared it.
Live == {pending[s].sequence : s \in Queued(pending)}
          \cup {c.sequence : c \in {d \in {held} : d # NoCandidate /\ IsLatest(d)}}

QueueTypeOK ==
  /\ pending \in [Source -> Candidate \cup {NoCandidate}]
  /\ latest \in [Source -> Nat]
  /\ nextSequence \in Nat \ {0}
  /\ limit \in Nat
  /\ held \in Candidate \cup {NoCandidate}
  /\ phase \in {"idle", "running", "returned"}
  /\ dropped \subseteq Nat
  /\ (phase = "idle") <=> (held = NoCandidate)

-----------------------------------------------------------------------------
QueueInit ==
  /\ pending = [s \in Source |-> NoCandidate]
  /\ latest = [s \in Source |-> 0]
  /\ nextSequence = 1
  /\ limit = 0
  /\ held = NoCandidate
  /\ phase = "idle"
  /\ dropped = {}

\* The sources trim evicts from p: those with at least cap younger candidates.
Evicted(p, cap) ==
  {s \in Queued(p) :
     Cardinality({t \in Queued(p) : Earlier(p[s], p[t])}) >= cap}

\* What trim leaves of the queue p with the retained numbers l.
TrimTo(p, l, cap) ==
  LET gone == Evicted(p, cap) IN
  /\ pending' = [s \in Source |-> IF s \in gone THEN NoCandidate ELSE p[s]]
  /\ latest' = [s \in Source |->
                  IF s \in gone /\ l[s] = p[s].sequence THEN 0 ELSE l[s]]
  /\ limit' = cap

\* Every action ends with this: history remembers what stopped being live.
Remember == dropped' = dropped \cup (Live \ Live')

Push(s, at, cap) ==
  /\ nextSequence <= MaxSequence
  /\ LET c == [source |-> s, observedAt |-> at,
               sequence |-> nextSequence, attempts |-> 0]
     IN TrimTo([pending EXCEPT ![s] = c],
               [latest EXCEPT ![s] = nextSequence], cap)
  /\ nextSequence' = nextSequence + 1
  /\ UNCHANGED <<held, phase>>
  /\ Remember

Trim(cap) ==
  /\ TrimTo(pending, latest, cap)
  /\ UNCHANGED <<nextSequence, held, phase>>
  /\ Remember

Take(blocked) ==
  /\ phase = "idle"
  /\ \E s \in Queued(pending) \ blocked :
       /\ \A t \in Queued(pending) \ blocked : ~Earlier(pending[t], pending[s])
       /\ held' = pending[s]
       /\ pending' = [pending EXCEPT ![s] = NoCandidate]
  /\ phase' = "running"
  /\ UNCHANGED <<latest, nextSequence, limit>>
  /\ Remember

\* Put c back within the cap if nothing newer replaced it. The faults put it
\* back without trimming, and without asking whether it is the latest.
GiveBackUncapped(c) ==
  /\ pending' = IF IsLatest(c) THEN [pending EXCEPT ![c.source] = c] ELSE pending
  /\ UNCHANGED <<latest, limit>>
GiveBackUnchecked(c) == TrimTo([pending EXCEPT ![c.source] = c], latest, limit)
GiveBack(c) ==
  IF IsLatest(c)
  THEN TrimTo([pending EXCEPT ![c.source] = c], latest, limit)
  ELSE UNCHANGED <<pending, latest, limit>>

\* A failed attempt; the fault retries without end.
RetryForever ==
  /\ phase = "running"
  /\ GiveBack([held EXCEPT !.attempts = @ + 1])
  /\ phase' = "returned"
  /\ UNCHANGED <<nextSequence, held>>
  /\ Remember
Retry ==
  /\ phase = "running"
  /\ held.attempts + 1 < MaxAttempts
  /\ GiveBack([held EXCEPT !.attempts = @ + 1])
  /\ phase' = "returned"
  /\ UNCHANGED <<nextSequence, held>>
  /\ Remember

Defer ==
  /\ phase = "running"
  /\ GiveBack(held)
  /\ phase' = "returned"
  /\ UNCHANGED <<nextSequence, held>>
  /\ Remember

\* The run ends with a commit, a terminal failure or a stale result.
Complete ==
  /\ phase = "running"
  /\ phase' = "returned"
  /\ UNCHANGED <<pending, latest, nextSequence, limit, held>>
  /\ Remember

\* The candidate's identity is released unless it was put back or replaced; the
\* fault keeps it.
FinishKeepsIdentity ==
  /\ phase = "returned"
  /\ held' = NoCandidate /\ phase' = "idle"
  /\ UNCHANGED <<pending, latest, nextSequence, limit>>
  /\ Remember
Finish ==
  /\ phase = "returned"
  /\ latest' = IF held.source \notin Queued(pending) /\ IsLatest(held)
               THEN [latest EXCEPT ![held.source] = 0] ELSE latest
  /\ held' = NoCandidate
  /\ phase' = "idle"
  /\ UNCHANGED <<pending, nextSequence, limit>>
  /\ Remember

\* configure trims to the new cap before it clears; resetLearningData does not.
Clear(cap) ==
  /\ pending' = [s \in Source |-> NoCandidate]
  /\ latest' = [s \in Source |-> 0]
  /\ limit' = cap
  /\ UNCHANGED <<nextSequence, held, phase>>
  /\ Remember

QueueNext ==
  \/ \E s \in Source, at \in Instant, cap \in Caps : Push(s, at, cap)
  \/ \E cap \in Caps : Trim(cap)
  \/ \E blocked \in SUBSET Source : Take(blocked)
  \/ Retry
  \/ Defer
  \/ Complete
  \/ Finish
  \/ \E cap \in Caps \cup {limit} : Clear(cap)

QueueSpec == QueueInit /\ [][QueueNext]_queueVars

-----------------------------------------------------------------------------
\* The cap holds after every operation, retries and deferrals included: a
\* handed-back candidate is subject to the same eviction as a new turn.
CapHolds == Cardinality(Queued(pending)) <= limit

\* The identities kept for latest-wins checks do not outlive their purpose:
\* one per queued candidate plus at most the one in flight.
RetainedBounded ==
  /\ Retained \subseteq Queued(pending) \cup {c.source : c \in {held} \ {NoCandidate}}
  /\ Cardinality(Retained) <= limit + 1

\* A candidate that was replaced by a newer turn, evicted or cleared never
\* comes back, whatever the request it was taken for still does with it.
NoResurrection ==
  \A s \in Queued(pending) : pending[s].sequence \notin dropped

-----------------------------------------------------------------------------
\* The inductive invariant. A queue p with retained numbers l is consistent
\* below n when every queued candidate is its source's latest, no two sources
\* share a number, and all numbers were handed out before n.
Consistent(p, l, n) ==
  /\ \A s \in Queued(p) : p[s].source = s /\ l[s] = p[s].sequence
  /\ \A s, t \in Source : l[s] # 0 /\ l[s] = l[t] => s = t
  /\ \A s \in Source : l[s] < n

\* What an in-flight candidate may find when it comes back: itself still the
\* latest, a newer turn queued, or nothing retained at all.
HeldOK ==
  held # NoCandidate =>
    /\ held.sequence < nextSequence
    /\ held.source \notin Queued(pending) =>
         latest[held.source] \in {0, held.sequence}

QueueInv ==
  /\ QueueTypeOK
  /\ Consistent(pending, latest, nextSequence)
  /\ HeldOK
  /\ Retained \subseteq Queued(pending) \cup {c.source : c \in {held} \ {NoCandidate}}
  /\ CapHolds
  /\ dropped \cap Live = {}
  /\ \A n \in dropped : n < nextSequence

=============================================================================
