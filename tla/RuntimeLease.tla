---------------------------- MODULE RuntimeLease ----------------------------
(***************************************************************************)
(* The runtime lease and the rolling budget of autonomous requests: what    *)
(* several hosts sharing one database may write. A host is one scheduler    *)
(* object; its owner id is a fresh UUID, so a restarted process is another  *)
(* host. Every action is one synchronous SQLite transaction or one step of  *)
(* a host's event loop; a host that takes no step is a suspended process.   *)
(***************************************************************************)
EXTENDS Naturals, FiniteSets

CONSTANTS Host,         \* schedulers that may start on the database
          Ttl,          \* LEASE_TTL_MS
          DayMs,        \* DAY_MS, the width of the budget window
          Limit,        \* the maxAutoRequestsPerDay setting
          MaxClock,     \* bound on the wall clock
          MaxRequests,  \* bound on autonomous requests sent
          NoRow         \* no row in runtime_lease

ASSUME TtlAssumption == Ttl \in Nat \ {0}
ASSUME DayAssumption == DayMs \in Nat \ {0}
ASSUME LimitAssumption == Limit \in Nat \ {0}
ASSUME LeaseBoundAssumption == MaxClock \in Nat /\ MaxRequests \in Nat

Row == [owner : Host, generation : Nat \ {0}, expiresAt : Nat]
ASSUME NoRowAssumption == NoRow \notin Row

VARIABLES clock,
          row,         \* the single runtime_lease row, or NoRow
          generation,  \* generation[h]: the fencing token h was given, 0 before
          status,      \* status[h]: the life of the scheduler h
          flight,      \* flight[h]: the request h has in flight
          usage,       \* the rows of auto_request_usage
          sent,        \* history: every autonomous request ever dispatched
          takeovers,   \* history: number of acquisitions so far
          order,       \* history: order[h] is the rank of h's acquisition
          fencedBy,    \* history: rank of the last host with a fenced commit
          writtenBy    \* history: rank of the last host with any commit

hostVars == <<generation, status, flight>>
leaseHistory == <<takeovers, order>>
writeHistory == <<fencedBy, writtenBy>>
budgetVars == <<usage, sent>>
leaseVars == <<clock, row, hostVars, budgetVars, leaseHistory, writeHistory>>

Request == [id : Nat, at : Nat]

LeaseTypeOK ==
  /\ clock \in Nat
  /\ row \in Row \cup {NoRow}
  /\ generation \in [Host -> Nat]
  /\ status \in [Host -> {"off", "running", "failed", "stopping", "stopped"}]
  /\ flight \in [Host -> {"none", "auto", "sent", "explicit", "review"}]
  /\ usage \subseteq Request /\ sent \subseteq Request /\ IsFiniteSet(sent)
  /\ takeovers \in Nat /\ order \in [Host -> Nat]
  /\ fencedBy \in Nat /\ writtenBy \in Nat

LeaseInit ==
  /\ clock = 0
  /\ row = NoRow
  /\ generation = [h \in Host |-> 0]
  /\ status = [h \in Host |-> "off"]
  /\ flight = [h \in Host |-> "none"]
  /\ usage = {} /\ sent = {}
  /\ takeovers = 0 /\ order = [h \in Host |-> 0]
  /\ fencedBy = 0 /\ writtenBy = 0

-----------------------------------------------------------------------------
\* The WHERE clause of renewLease and releaseLease; the fault compares the
\* fencing token alone.
OwnsGeneration(h) == row # NoRow /\ row.generation = generation[h]
Owns(h) == /\ row # NoRow
           /\ row.owner = h
           /\ row.generation = generation[h]

\* assertLease.
LeaseHeld(h) == Owns(h) /\ row.expiresAt > clock

\* The fencing token of an acquisition; the fault starts at zero.
GenerationFromZero == IF row = NoRow THEN 0 ELSE row.generation + 1
NextGeneration == IF row = NoRow THEN 1 ELSE row.generation + 1

\* The constructor: acquireLease succeeds on an absent or expired row and
\* throws on another owner's live one, which fails the load of the plugin.
Acquire(h) ==
  /\ status[h] = "off"
  /\ IF row # NoRow /\ row.expiresAt > clock
     THEN /\ status' = [status EXCEPT ![h] = "stopped"]
          /\ UNCHANGED <<row, generation, leaseHistory>>
     ELSE /\ row' = [owner |-> h, generation |-> NextGeneration,
                     expiresAt |-> clock + Ttl]
          /\ generation' = [generation EXCEPT ![h] = NextGeneration]
          /\ status' = [status EXCEPT ![h] = "running"]
          /\ takeovers' = takeovers + 1
          /\ order' = [order EXCEPT ![h] = takeovers + 1]
  /\ UNCHANGED <<clock, flight, budgetVars, writeHistory>>

\* The heartbeat. An expired row is renewed too as long as nobody took it.
\* Losing it, or a transaction that throws, fails the runtime and cancels the
\* request in flight.
\* The fault only logs it.
RenewQuietly(h) ==
  /\ status[h] \in {"running", "failed"}
  /\ row' = IF Owns(h) THEN [row EXCEPT !.expiresAt = clock + Ttl] ELSE row
  /\ UNCHANGED <<clock, hostVars, budgetVars, leaseHistory, writeHistory>>
Renew(h) ==
  /\ status[h] \in {"running", "failed"}
  /\ \/ /\ Owns(h)
        /\ row' = [row EXCEPT !.expiresAt = clock + Ttl]
        /\ UNCHANGED <<status, flight>>
     \/ /\ status' = [status EXCEPT ![h] = "failed"]
        /\ flight' = [flight EXCEPT ![h] = "none"]
        /\ UNCHANGED row
  /\ UNCHANGED <<clock, generation, budgetVars, leaseHistory, writeHistory>>

\* A later successful route refresh clears the failure, whatever caused it;
\* refreshRoute also cancels the request in flight.
Recover(h) ==
  /\ status[h] = "failed"
  /\ status' = [status EXCEPT ![h] = "running"]
  /\ flight' = [flight EXCEPT ![h] = "none"]
  /\ UNCHANGED <<clock, row, generation, budgetVars, leaseHistory, writeHistory>>

\* dispose: cancel, then release once the drain is quiet.
Stop(h) ==
  /\ status[h] \in {"running", "failed"}
  /\ status' = [status EXCEPT ![h] = "stopping"]
  /\ flight' = [flight EXCEPT ![h] = "none"]
  /\ UNCHANGED <<clock, row, generation, budgetVars, leaseHistory, writeHistory>>

Release(h) ==
  /\ status[h] = "stopping"
  /\ status' = [status EXCEPT ![h] = "stopped"]
  /\ row' = IF Owns(h) THEN NoRow ELSE row
  /\ UNCHANGED <<clock, generation, flight, budgetVars, leaseHistory, writeHistory>>

\* The process dies; the row and the usage rows stay.
Crash(h) ==
  /\ status[h] \in {"running", "failed", "stopping"}
  /\ status' = [status EXCEPT ![h] = "stopped"]
  /\ flight' = [flight EXCEPT ![h] = "none"]
  /\ UNCHANGED <<clock, row, generation, budgetVars, leaseHistory, writeHistory>>

-----------------------------------------------------------------------------
\* beginRequest: "auto" must still reserve its budget, "explicit" stands for
\* manual explanations, rephrases and compaction.
Begin(h, kind) ==
  /\ status[h] = "running" /\ flight[h] = "none"
  /\ flight' = [flight EXCEPT ![h] = kind]
  /\ UNCHANGED <<clock, row, generation, status, budgetVars, leaseHistory, writeHistory>>

\* The usage rows reserveAutoRequest keeps: those inside the window; the fault
\* drops a row one instant too early.
InShortWindow(rows) == {r \in rows : r.at + DayMs > clock + 1}
InWindow(rows) == {r \in rows : r.at + DayMs > clock}

\* reserveAutoRequest: fenced, and recorded before the request is dispatched.
\* A refused reservation defers the candidate; an invalid lease rolls back.
Reserve(h) ==
  /\ flight[h] = "auto"
  /\ Cardinality(sent) < MaxRequests
  /\ IF LeaseHeld(h) /\ Cardinality(InWindow(usage)) < Limit
     THEN LET r == [id |-> Cardinality(sent) + 1, at |-> clock] IN
          /\ usage' = InWindow(usage) \cup {r}
          /\ sent' = sent \cup {r}
          /\ flight' = [flight EXCEPT ![h] = "sent"]
     ELSE /\ usage' = IF LeaseHeld(h) THEN InWindow(usage) ELSE usage
          /\ flight' = [flight EXCEPT ![h] = "none"]
          /\ UNCHANGED sent
  /\ UNCHANGED <<clock, row, generation, status, leaseHistory, writeHistory>>

\* commitAutoDecision, commitManualExplanation, commitRephrase and
\* commitCheckpoint: all assert the lease inside their transaction.
CommitFenced(h) ==
  /\ flight[h] \in {"sent", "explicit"}
  /\ flight' = [flight EXCEPT ![h] = "none"]
  /\ IF LeaseHeld(h)
     THEN fencedBy' = order[h] /\ writtenBy' = order[h]
     ELSE UNCHANGED writeHistory
  /\ UNCHANGED <<clock, row, generation, status, budgetVars, leaseHistory>>

\* commitReviewAnswer takes no lease token.
CommitReview(h) ==
  /\ flight[h] = "review"
  /\ flight' = [flight EXCEPT ![h] = "none"]
  /\ writtenBy' = order[h]
  /\ UNCHANGED <<clock, row, generation, status, budgetVars, leaseHistory, fencedBy>>

\* The model request fails or is cancelled: nothing is written.
Abort(h) ==
  /\ flight[h] # "none"
  /\ flight' = [flight EXCEPT ![h] = "none"]
  /\ UNCHANGED <<clock, row, generation, status, budgetVars, leaseHistory, writeHistory>>

Tick ==
  /\ clock < MaxClock
  /\ clock' = clock + 1
  /\ UNCHANGED <<row, hostVars, budgetVars, leaseHistory, writeHistory>>

LeaseNext ==
  \/ Tick
  \/ \E h \in Host :
       \/ Acquire(h) \/ Renew(h) \/ Recover(h)
       \/ Stop(h) \/ Release(h) \/ Crash(h)
       \/ \E kind \in {"auto", "explicit", "review"} : Begin(h, kind)
       \/ Reserve(h) \/ CommitFenced(h) \/ CommitReview(h) \/ Abort(h)

LeaseSpec == LeaseInit /\ [][LeaseNext]_leaseVars

\* The heartbeat interval of a process that is neither stopped nor dead fires.
LeaseFairSpec == LeaseSpec /\ \A h \in Host : WF_leaseVars(Renew(h))

-----------------------------------------------------------------------------
\* Once a later owner has committed, no earlier owner's fenced commit gets in,
\* however long that owner was suspended and however often the lease row was
\* deleted in between.
FencedSuccession == [][fencedBy' >= fencedBy]_leaseVars

\* In no window of a day, at any time and across crashes, restarts and
\* takeovers, are more autonomous requests dispatched than the limit.
RollingBudget ==
  \A r \in sent :
    Cardinality({q \in sent : q.at <= r.at /\ q.at + DayMs > r.at}) <= Limit

\* A runtime whose lease was taken over does not stay ready: its heartbeat
\* notices, unless it stops or dies first.
LoserNotices ==
  \A h \in Host : (status[h] = "running" /\ ~Owns(h)) ~> (status[h] # "running")

-----------------------------------------------------------------------------
\* Inductive invariants: the row's owner is the latest to acquire; the usage
\* table still holds every dispatched request inside the current window.
LeaseInv ==
  /\ LeaseTypeOK
  /\ row # NoRow => order[row.owner] = takeovers
  /\ fencedBy <= takeovers

BudgetInv ==
  /\ LeaseTypeOK
  /\ \A r \in sent : r.at <= clock
  /\ usage \subseteq sent
  /\ InWindow(sent) \subseteq usage
  /\ RollingBudget

-----------------------------------------------------------------------------
\* docs/ARCHITECTURE.md: every commit of a model result checks owner and
\* generation, so an old owner that resumes cannot commit.
OldOwnerNeverCommits == [][writtenBy' >= writtenBy]_leaseVars

=============================================================================
