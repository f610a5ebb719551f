--------------------------- MODULE ExplainSettings ---------------------------
(***************************************************************************)
(* The settings of src/src/runtime.ts: one section of the host's settings    *)
(* document with a revision, and its writers. A settings page saves a draft  *)
(* by compare-and-swap, /explain on and off write one key blindly, other     *)
(* programs edit the document, and after an upgrade the old section is       *)
(* imported once. Every write makes the runtime synchronize, one change of   *)
(* the scheduler at a time. The document itself is the host's.               *)
(***************************************************************************)
EXTENDS Naturals, Sequences

CONSTANTS Page,        \* settings pages, each with one draft
          Command,     \* calls of /explain on and /explain off
          Route,       \* provider and model, as one value
          Resolvable,  \* the routes whose context window is known
          Advanced,    \* values of the fields no page shows
          Legacy,      \* the old section
          Unset, Blank, \* no override; an override with the empty string
          Event,       \* a synchronization nobody waits for
          MaxRevision, MaxRestarts

ASSUME RouteAssumption == Resolvable \subseteq Route
ASSUME MarksAssumption == Unset \notin Route /\ Blank \notin Route
                          /\ Unset # Blank /\ Unset \notin BOOLEAN
ASSUME WriterAssumption ==
  Page \cap Command = {} /\ Event \notin Page \cup Command
ASSUME BoundAssumption == MaxRevision \in Nat /\ MaxRestarts \in Nat

Writer == Page \cup Command
Document == [enabled : BOOLEAN \cup {Unset},
             route : Route \cup {Unset, Blank},
             advanced : Advanced \cup {Unset}]
Key == {"enabled", "route", "advanced"}
ASSUME LegacyAssumption == Legacy \in Document

\* normalizeSettings over the schema's defaults; the fault keeps the blank.
KeepBlank(d) ==
  [enabled |-> d.enabled = TRUE, route |-> d.route, advanced |-> d.advanced]
Normal(d) == [enabled |-> d.enabled = TRUE,
              route |-> IF d.route = Blank THEN Unset ELSE d.route,
              advanced |-> d.advanced]

VARIABLES document, revision,
          current,     \* the settings the runtime has applied
          jobs,        \* synchronizeTail: who waits for each job
          configuring, \* the first of them awaits the scheduler
          at,          \* at[w]: where w's request is
          draft,       \* draft[p]: the revision a page was filled from
          want,        \* want[w]: what w is about to write
          migration,   \* where the import of this start is
          missing,     \* the keys it found missing, at a revision
          marker,      \* the file that says it is done
          applied,     \* history: the revision of current
          committed,   \* history: the revision that w's write made
          loaded,      \* history: loaded[p]: the document p was filled from
          imported,    \* history: keys an import has written
          reset,       \* history: those the user has reset since
          restarts

hostVars == <<document, revision>>
syncVars == <<current, jobs, configuring, applied>>
writerVars == <<at, draft, want, committed, loaded>>
migrationVars == <<migration, missing, marker, imported, reset, restarts>>
vars == <<hostVars, syncVars, writerVars, migrationVars>>

Settled == {"idle", "ok", "failed", "stale"}
Place == Settled \cup {"resolving", "writing", "written", "waiting"}
Want == [enabled : BOOLEAN, route : Route \cup {Unset, Blank}]
None == [enabled |-> FALSE, route |-> Unset]
Nothing == [keys |-> {}, revision |-> 0]

TypeOK ==
  /\ document \in Document /\ revision \in 0..MaxRevision
  /\ current \in [enabled : BOOLEAN, route : Route \cup {Unset},
                  advanced : Advanced \cup {Unset}]
  /\ jobs \in Seq(Writer \cup {Event}) /\ configuring \in BOOLEAN
  /\ (configuring => jobs # <<>>)
  /\ at \in [Writer -> Place]
  /\ draft \in [Page -> 0..MaxRevision] /\ loaded \in [Page -> Document]
  /\ want \in [Writer -> Want]
  /\ migration \in {"none", "due", "read", "written"}
  /\ missing \in [keys : SUBSET Key, revision : 0..MaxRevision]
  /\ marker \in BOOLEAN /\ imported \subseteq Key /\ reset \subseteq imported
  /\ applied \in 0..MaxRevision /\ committed \in [Writer -> 0..MaxRevision]
  /\ restarts \in 0..MaxRestarts

\* The plugin has been loaded on a document that may hold overrides.
Init ==
  /\ document \in Document /\ revision = 0
  /\ current = Normal(document) /\ applied = 0
  /\ jobs = <<>> /\ configuring = FALSE
  /\ at = [w \in Writer |-> "idle"] /\ want = [w \in Writer |-> None]
  /\ draft = [p \in Page |-> 0] /\ loaded = [p \in Page |-> document]
  /\ committed = [w \in Writer |-> 0]
  /\ marker \in BOOLEAN /\ migration = (IF marker THEN "none" ELSE "due")
  /\ missing = Nothing
  /\ imported = {} /\ reset = {} /\ restarts = 0

-----------------------------------------------------------------------------
\* A write of the host merges the keys, raises the revision, and notifies.
Commit(d) ==
  /\ revision < MaxRevision
  /\ document' = d /\ revision' = revision + 1
  /\ jobs' = Append(jobs, Event)

\* The user edits the document, or resets a key to its default.
Edit ==
  /\ \E k \in Key, d \in Document :
       /\ \A o \in Key \ {k} : d[o] = document[o]
       /\ d[k] # document[k]
       /\ Commit(d)
       /\ reset' = (IF d[k] = Unset THEN reset \cup ({k} \cap imported)
                    ELSE reset)
  /\ UNCHANGED <<current, configuring, applied, writerVars, migration, missing,
                 marker, imported, restarts>>

-----------------------------------------------------------------------------
\* The settings page is filled from the document, its user changes what it
\* shows, and it is submitted against the revision it was filled from.
Fill(p) ==
  /\ at[p] \in Settled /\ draft[p] # revision
  /\ draft' = [draft EXCEPT ![p] = revision]
  /\ loaded' = [loaded EXCEPT ![p] = document]
  /\ at' = [at EXCEPT ![p] = "idle"]
  /\ UNCHANGED <<hostVars, syncVars, want, committed, migrationVars>>

\* updateConfiguration resolves the route whenever the draft is enabled; the
\* fault, only when it is being switched on.
ResolvesWhenSwitched(e) == e /\ ~current.enabled
Resolves(e) == e

Submit(p) ==
  /\ at[p] \in Settled
  /\ \E e \in BOOLEAN, r \in Route \cup {Blank} :
       IF draft[p] # revision
       THEN at' = [at EXCEPT ![p] = "stale"] /\ UNCHANGED want
       ELSE /\ want' = [want EXCEPT ![p] = [enabled |-> e, route |-> r]]
            /\ at' = [at EXCEPT ![p] =
                         IF Resolves(e) THEN "resolving" ELSE "writing"]
  /\ UNCHANGED <<hostVars, syncVars, draft, committed, loaded, migrationVars>>

\* setEnabled resolves the route it believes in.
Switch(c) ==
  /\ at[c] \in Settled
  /\ \E e \in BOOLEAN :
       /\ want' = [want EXCEPT ![c] = [enabled |-> e, route |-> current.route]]
       /\ at' = [at EXCEPT ![c] = IF e THEN "resolving" ELSE "writing"]
  /\ UNCHANGED <<hostVars, syncVars, draft, committed, loaded, migrationVars>>

\* The request goes on to s, and what it wanted is done with.
Leaves(w, s) ==
  /\ at' = [at EXCEPT ![w] = s]
  /\ want' = [want EXCEPT ![w] = None]

Resolve(w) ==
  /\ at[w] = "resolving"
  /\ IF want[w].route \in Resolvable
     THEN at' = [at EXCEPT ![w] = "writing"] /\ UNCHANGED want
     ELSE Leaves(w, "failed")
  /\ UNCHANGED <<hostVars, syncVars, draft, committed, loaded, migrationVars>>

\* The page's fields are merged if the revision is still the draft's. The
\* fault merges them anyway.
Merged(p) == [document EXCEPT !.enabled = want[p].enabled,
                              !.route = want[p].route]
SaveBlindly(p) ==
  /\ at[p] = "writing" /\ p \in Page
  /\ Commit(Merged(p)) /\ Leaves(p, "written")
  /\ committed' = [committed EXCEPT ![p] = revision']
  /\ UNCHANGED <<current, configuring, applied, draft, loaded, migrationVars>>
Save(p) ==
  /\ at[p] = "writing" /\ p \in Page /\ draft[p] = revision
  /\ Commit(Merged(p)) /\ Leaves(p, "written")
  /\ committed' = [committed EXCEPT ![p] = revision']
  /\ UNCHANGED <<current, configuring, applied, draft, loaded, migrationVars>>

Conflict(p) ==
  /\ at[p] = "writing" /\ p \in Page /\ draft[p] # revision
  /\ Leaves(p, "stale")
  /\ UNCHANGED <<hostVars, syncVars, draft, committed, loaded, migrationVars>>

\* The command writes one key, whatever the revision.
WriteSwitch(c) ==
  /\ at[c] = "writing" /\ c \in Command
  /\ Commit([document EXCEPT !.enabled = want[c].enabled])
  /\ Leaves(c, "written")
  /\ committed' = [committed EXCEPT ![c] = revision']
  /\ UNCHANGED <<current, configuring, applied, draft, loaded, migrationVars>>

\* The host could not write.
WriteFails(w) ==
  /\ at[w] = "writing" /\ Leaves(w, "failed")
  /\ UNCHANGED <<hostVars, syncVars, draft, committed, loaded, migrationVars>>

\* The writer synchronizes too, and waits for its own job; the fault is content
\* with a job that is already there.
JoinSynchronize(w) ==
  /\ at[w] = "written"
  /\ IF jobs = <<>>
     THEN jobs' = <<w>> /\ at' = [at EXCEPT ![w] = "waiting"]
     ELSE at' = [at EXCEPT ![w] = "ok"] /\ UNCHANGED jobs
  /\ UNCHANGED <<hostVars, current, configuring, applied, draft, want,
                 committed, loaded, migrationVars>>
Synchronize(w) ==
  /\ at[w] = "written"
  /\ jobs' = Append(jobs, w) /\ at' = [at EXCEPT ![w] = "waiting"]
  /\ UNCHANGED <<hostVars, current, configuring, applied, draft, want,
                 committed, loaded, migrationVars>>

-----------------------------------------------------------------------------
\* The chain of jobs. A job reads the settings when its turn comes, and hands
\* them to the scheduler, which awaits the route if that may have changed.
\* The fault answers nobody.
AnsweredNever(w, s) == UNCHANGED at
Answered(w, s) ==
  at' = IF w = Event THEN at ELSE [at EXCEPT ![w] = s]

AwaitsRoute(d) ==
  d.enabled /\ (~current.enabled \/ d.route # current.route)
MayAwaitRoute(d) == d.enabled /\ d # current  \* it has none, though enabled

\* Equal settings end the job at once: telling them again changes nothing.
RunJob ==
  /\ jobs # <<>> /\ ~configuring
  /\ current' = Normal(document) /\ applied' = revision
  /\ \/ /\ MayAwaitRoute(current')
        /\ configuring' = TRUE /\ UNCHANGED <<jobs, at>>
     \/ /\ ~AwaitsRoute(current')
        /\ jobs' = Tail(jobs) /\ Answered(Head(jobs), "ok")
        /\ UNCHANGED configuring
  /\ UNCHANGED <<hostVars, draft, want, committed, loaded, migrationVars>>

\* A fault: whatever came meanwhile is taken for served as well.
ConfigureServesAll ==
  /\ configuring /\ configuring' = FALSE
  /\ jobs' = <<>>
  /\ at' = [w \in Writer |-> IF at[w] = "waiting" THEN "ok" ELSE at[w]]
  /\ UNCHANGED <<hostVars, current, applied, draft, want, committed, loaded,
                 migrationVars>>
\* The store may fail to record the enabling; the next job goes on.
ConfigureEnds ==
  /\ configuring /\ configuring' = FALSE
  /\ jobs' = Tail(jobs)
  /\ \E s \in {"ok", "failed"} : Answered(Head(jobs), s)
  /\ UNCHANGED <<hostVars, current, applied, draft, want, committed, loaded,
                 migrationVars>>

-----------------------------------------------------------------------------
\* migrateLegacySettings. It reads the files and the document, imports the keys
\* that have no override, and leaves a marker.
MigrationReads ==
  /\ migration = "due" /\ migration' = "read"
  /\ missing' =
       [keys |-> {k \in Key : Legacy[k] # Unset /\ document[k] = Unset},
        revision |-> revision]
  /\ UNCHANGED <<hostVars, syncVars, writerVars, marker, imported, reset,
                 restarts>>

Import == [k \in Key |-> IF k \in missing.keys THEN Legacy[k] ELSE document[k]]

\* The fault does not name the revision it has read.
MigrationWritesBlindly ==
  /\ migration = "read" /\ missing.keys # {}
  /\ Commit(Import)
  /\ migration' = "written" /\ imported' = imported \cup missing.keys
  /\ UNCHANGED <<current, configuring, applied, writerVars, missing, marker,
                 reset, restarts>>
MigrationWrites ==
  /\ migration = "read" /\ missing.keys # {} /\ missing.revision = revision
  /\ Commit(Import)
  /\ migration' = "written" /\ imported' = imported \cup missing.keys
  /\ UNCHANGED <<current, configuring, applied, writerVars, missing, marker,
                 reset, restarts>>

\* A conflict: nothing is written and no marker left.
MigrationGivesUp ==
  /\ migration = "read" /\ missing.keys # {} /\ missing.revision # revision
  /\ migration' = "none" /\ missing' = Nothing
  /\ UNCHANGED <<hostVars, syncVars, writerVars, marker, imported,
                 reset, restarts>>

MigrationMarks ==
  /\ \/ migration = "written"
     \/ migration = "read" /\ missing.keys = {}
  /\ migration' = "none" /\ marker' = TRUE /\ missing' = Nothing
  /\ UNCHANGED <<hostVars, syncVars, writerVars, imported, reset,
                 restarts>>

\* The plugin stops, wherever it is, and is loaded again.
Restart ==
  /\ restarts < MaxRestarts /\ restarts' = restarts + 1
  /\ current' = Normal(document) /\ applied' = revision
  /\ jobs' = <<>> /\ configuring' = FALSE
  /\ at' = [w \in Writer |->
              IF at[w] \in {"resolving", "writing", "written", "waiting"}
              THEN "failed" ELSE at[w]]
  /\ want' = [w \in Writer |-> None]
  /\ migration' = IF marker THEN "none" ELSE "due"
  /\ missing' = Nothing
  /\ UNCHANGED <<hostVars, draft, committed, loaded, marker, imported, reset>>

-----------------------------------------------------------------------------
Users ==
  \/ Edit
  \/ \E p \in Page : Fill(p) \/ Submit(p)
  \/ \E c \in Command : Switch(c)
Serve(w) ==
  \/ Resolve(w) \/ Save(w) \/ Conflict(w) \/ WriteSwitch(w) \/ WriteFails(w)
  \/ Synchronize(w)
Chain == RunJob \/ ConfigureEnds
Migrate ==
  \/ MigrationReads \/ MigrationWrites \/ MigrationGivesUp \/ MigrationMarks

Next == Users \/ (\E w \in Writer : Serve(w)) \/ Chain \/ Migrate \/ Restart
Spec == Init /\ [][Next]_vars

\* Route lookups and host writes settle, and the chain of promises goes on.
FairSpec ==
  /\ Spec
  /\ \A w \in Writer : WF_vars(Serve(w))
  /\ WF_vars(Chain)

-----------------------------------------------------------------------------
Saves(w) == at[w] = "writing" /\ at'[w] = "written"

\* A page that saves overwrites nothing its user has not seen: the document is
\* still the one the draft was filled from, key for key, after whatever other
\* pages, commands, edits and imports have done (runtime.ts:171-180).
FormLosesNothing == [][\A p \in Page : Saves(p) => document = loaded[p]]_vars

\* A page never leaves learning on with a route that could not be resolved, be
\* it switched on or on already with another route chosen (runtime.ts:162).
FormEnablesResolved ==
  [][\A p \in Page :
       Saves(p) /\ document'.enabled = TRUE =>
         document'.route \in Resolvable]_vars

\* Who is told that a write is done, finds it applied: the runtime has read the
\* settings since, however many jobs were in the chain (runtime.ts:181, 265).
ToldIsApplied ==
  \A w \in Writer : at[w] = "ok" => applied >= committed[w]

\* When the chain is empty the runtime holds the document's settings: no change
\* is lost to a job that was already reading (runtime.ts:264-277).
ChainAgrees == jobs = <<>> => current = Normal(document)

\* The import overwrites no key that has an override, though it reads the files
\* and the document long before it writes (settings-migration.ts:44-47).
OverridesSurvive ==
  [][migration = "read" /\ migration' = "written" =>
       \A k \in Key : document[k] # Unset => document'[k] = document[k]]_vars

\* Every request of a page or a command is answered (runtime.ts:147, 186).
RequestsSettle == \A w \in Writer : at[w] \notin Settled ~> at[w] \in Settled

\* "A separate marker prevents a later intentional reset from importing old
\* values again" (settings-migration.ts:49).
ResetStaysReset ==
  [][migration = "read" /\ migration' = "written" =>
       missing.keys \cap reset = {}]_vars

\* Enabling checks the provider and the model, then persists (ARCHITECTURE.md's
\* steps of enabling): the route it turns on is one it has resolved.
CommandEnablesResolved ==
  [][\A c \in Command :
       Saves(c) /\ document'.enabled = TRUE =>
         Normal(document').route \in Resolvable]_vars
=============================================================================
