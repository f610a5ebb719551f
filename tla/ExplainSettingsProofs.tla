------------------------ MODULE ExplainSettingsProofs ------------------------
(***************************************************************************)
(* No change of the settings is lost, and nobody is told too early, for    *)
(* every number of pages, commands, routes and revisions.                  *)
(***************************************************************************)
EXTENDS ExplainSettings, SequenceTheorems, TLAPS

\* A draft filled from the current revision shows the current document.
Seen ==
  \A p \in Page : draft[p] <= revision
                  /\ (draft[p] = revision => loaded[p] = document)

\* A page that is about to switch on has resolved its route.
Resolved ==
  \A p \in Page : at[p] = "writing" /\ want[p].enabled
                    => want[p].route \in Resolvable

\* The keys found missing are missing as long as the revision is the one read.
Fresh ==
  /\ missing.revision <= revision
  /\ migration = "read" /\ missing.revision = revision =>
       \A k \in missing.keys : document[k] = Unset

\* The last job in the chain leaves the runtime with the document's settings.
LastAgrees ==
  jobs = <<>> \/ (configuring /\ Len(jobs) = 1) => current = Normal(document)

\* A writer has one job, and waits for it; the one being served has been read.
Past == applied <= revision /\ \A w \in Writer : committed[w] <= revision
Queued ==
  \A i \in 1..Len(jobs) : jobs[i] \in Writer =>
    /\ at[jobs[i]] = "waiting"
    /\ \A j \in 1..Len(jobs) : jobs[j] = jobs[i] => j = i
Served ==
  configuring /\ jobs[1] \in Writer => applied >= committed[jobs[1]]

-----------------------------------------------------------------------------
\* An import that is not under way has found nothing.
LEMMA NothingType == Nothing \in [keys : SUBSET Key, revision : 0..MaxRevision]
BY BoundAssumption DEF Nothing

\* A document with a key taken from elsewhere is a document.
LEMMA DocumentType ==
  /\ \A d \in Document, p \in Page, e \in BOOLEAN, r \in Route \cup {Unset, Blank} :
       [d EXCEPT !.enabled = e, !.route = r] \in Document
  /\ \A d \in Document, e \in BOOLEAN : [d EXCEPT !.enabled = e] \in Document
  /\ \A d \in Document :
       Normal(d) \in [enabled : BOOLEAN, route : Route \cup {Unset},
                      advanced : Advanced \cup {Unset}]
  /\ \A d \in Document, ks \in SUBSET Key :
       [k \in Key |-> IF k \in ks THEN Legacy[k] ELSE d[k]] \in Document
<1>1. \A d \in Document, e \in BOOLEAN, r \in Route \cup {Unset, Blank} :
        [d EXCEPT !.enabled = e, !.route = r] \in Document
  BY DEF Document
<1>2. \A d \in Document, e \in BOOLEAN : [d EXCEPT !.enabled = e] \in Document
  BY DEF Document
<1>3. \A d \in Document :
        Normal(d) \in [enabled : BOOLEAN, route : Route \cup {Unset},
                       advanced : Advanced \cup {Unset}]
  BY DEF Document, Normal
<1>4. ASSUME NEW d \in Document, NEW ks \in SUBSET Key
      PROVE  [k \in Key |-> IF k \in ks THEN Legacy[k] ELSE d[k]] \in Document
  <2> DEFINE m == [k \in Key |-> IF k \in ks THEN Legacy[k] ELSE d[k]]
  <2>1. m = [enabled |-> m.enabled, route |-> m.route, advanced |-> m.advanced]
    BY DEF Key
  <2>2. /\ m.enabled \in BOOLEAN \cup {Unset}
        /\ m.route \in Route \cup {Unset, Blank}
        /\ m.advanced \in Advanced \cup {Unset}
    BY LegacyAssumption DEF Key, Document
  <2>3. QED
    BY <2>1, <2>2 DEF Document
<1>5. QED
  BY <1>1, <1>2, <1>3, <1>4

\* A commit raises the revision by one, within the bound, for a document.
LEMMA CommitType ==
  ASSUME TypeOK, NEW d \in Document, Commit(d)
  PROVE  /\ document' \in Document /\ revision' \in 0..MaxRevision
         /\ revision' = revision + 1
         /\ jobs' \in Seq(Writer \cup {Event}) /\ jobs' # <<>>
         /\ \A n \in 0..revision : n \in 0..MaxRevision
BY BoundAssumption DEF TypeOK, Commit

\* Every action keeps the types.
LEMMA TypeStep == TypeOK /\ [Next]_vars => TypeOK'
<1> SUFFICES ASSUME TypeOK, [Next]_vars PROVE TypeOK'
  OBVIOUS
<1> USE DEF hostVars, syncVars, writerVars, migrationVars
<1>0. /\ Page \subseteq Writer /\ Command \subseteq Writer
      /\ None \in Want
      /\ "idle" \in Place /\ "ok" \in Place /\ "failed" \in Place
      /\ "stale" \in Place /\ "resolving" \in Place /\ "writing" \in Place
      /\ "written" \in Place /\ "waiting" \in Place
      /\ \A u \in Place, w \in Writer : [at EXCEPT ![w] = u] \in [Writer -> Place]
      /\ \A u \in Want, w \in Writer : [want EXCEPT ![w] = u] \in [Writer -> Want]
  BY DEF TypeOK, None, Want, Writer, Settled, Place
<1>1. CASE Edit
  <2>1. PICK d \in Document : Commit(d)
    BY <1>1 DEF Edit
  <2>2. reset' \subseteq imported' /\ imported' = imported
    BY <1>1 DEF Edit, TypeOK
  <2>3. QED
    BY <1>1, <2>1, <2>2, CommitType DEF Edit, TypeOK
<1>2. ASSUME NEW p \in Page, Fill(p) PROVE TypeOK'
  BY <1>0, <1>2 DEF Fill, TypeOK
<1>3. ASSUME NEW p \in Page, Submit(p) PROVE TypeOK'
  <2>1. PICK e \in BOOLEAN, r \in Route \cup {Blank} :
          \/ at' = [at EXCEPT ![p] = "stale"] /\ want' = want
          \/ /\ want' = [want EXCEPT ![p] = [enabled |-> e, route |-> r]]
             /\ at' = [at EXCEPT ![p] =
                          IF Resolves(e) THEN "resolving" ELSE "writing"]
    BY <1>3 DEF Submit
  <2>2. [enabled |-> e, route |-> r] \in Want
    BY DEF Want
  <2>3. at' \in [Writer -> Place]
    BY <1>0, <2>1
  <2>4. want' \in [Writer -> Want]
    BY <1>0, <2>1, <2>2 DEF TypeOK
  <2>5. QED
    BY <1>3, <2>3, <2>4 DEF Submit, TypeOK
<1>4. ASSUME NEW c \in Command, Switch(c) PROVE TypeOK'
  <2>1. PICK e \in BOOLEAN :
          /\ want' = [want EXCEPT ![c] = [enabled |-> e, route |-> current.route]]
          /\ at' = [at EXCEPT ![c] = IF e THEN "resolving" ELSE "writing"]
    BY <1>4 DEF Switch
  <2>2. [enabled |-> e, route |-> current.route] \in Want
    BY DEF TypeOK, Want
  <2>3. at' \in [Writer -> Place]
    BY <1>0, <2>1
  <2>4. want' \in [Writer -> Want]
    BY <1>0, <2>1, <2>2
  <2>5. QED
    BY <1>4, <2>3, <2>4 DEF Switch, TypeOK
<1>5. ASSUME NEW w \in Writer, Resolve(w) \/ Conflict(w) \/ WriteFails(w)
      PROVE  TypeOK'
  <2>1. PICK u \in {"writing", "failed", "stale"} :
          at' = [at EXCEPT ![w] = u]
    BY <1>5 DEF Resolve, Conflict, WriteFails, Leaves
  <2>2. want' = want \/ want' = [want EXCEPT ![w] = None]
    BY <1>5 DEF Resolve, Conflict, WriteFails, Leaves
  <2>3. UNCHANGED <<hostVars, syncVars, draft, committed, loaded, migrationVars>>
    BY <1>5 DEF Resolve, Conflict, WriteFails
  <2>4. at' \in [Writer -> Place]
    BY <1>0, <2>1
  <2>5. want' \in [Writer -> Want]
    BY <1>0, <2>2 DEF TypeOK
  <2>6. QED
    BY <2>3, <2>4, <2>5 DEF TypeOK
<1>6. ASSUME NEW w \in Writer, Save(w) PROVE TypeOK'
  <2>1. Merged(w) \in Document
    <3>1. want[w].enabled \in BOOLEAN /\ want[w].route \in Route \cup {Unset, Blank}
      BY DEF TypeOK, Want
    <3>2. QED
      BY <1>6, <3>1, DocumentType DEF Save, Merged, TypeOK
  <2>2. Commit(Merged(w))
    BY <1>6 DEF Save
  <2>3. at' \in [Writer -> Place] /\ want' \in [Writer -> Want]
    BY <1>0, <1>6 DEF Save, Leaves
  <2>4. committed' \in [Writer -> 0..MaxRevision]
    BY <1>6, <2>1, <2>2, CommitType DEF Save, TypeOK
  <2>5. QED
    BY <1>6, <2>1, <2>2, <2>3, <2>4, CommitType DEF Save, TypeOK
<1>7. ASSUME NEW w \in Writer, WriteSwitch(w) PROVE TypeOK'
  <2>1. [document EXCEPT !.enabled = want[w].enabled] \in Document
    BY DocumentType DEF TypeOK, Want
  <2>2. Commit([document EXCEPT !.enabled = want[w].enabled])
    BY <1>7 DEF WriteSwitch
  <2>3. at' \in [Writer -> Place] /\ want' \in [Writer -> Want]
    BY <1>0, <1>7 DEF WriteSwitch, Leaves
  <2>4. committed' \in [Writer -> 0..MaxRevision]
    BY <1>7, <2>1, <2>2, CommitType DEF WriteSwitch, TypeOK
  <2>5. QED
    BY <1>7, <2>1, <2>2, <2>3, <2>4, CommitType DEF WriteSwitch, TypeOK
<1>8. ASSUME NEW w \in Writer, Synchronize(w) PROVE TypeOK'
  BY <1>0, <1>8 DEF Synchronize, TypeOK
<1>9. CASE RunJob
  <2>1. current' \in [enabled : BOOLEAN, route : Route \cup {Unset},
                      advanced : Advanced \cup {Unset}]
    BY <1>9, DocumentType DEF RunJob, TypeOK
  <2>2. /\ Head(jobs) \in Writer \cup {Event}
        /\ Tail(jobs) \in Seq(Writer \cup {Event})
    BY <1>9 DEF RunJob, TypeOK
  <2>3. at' \in [Writer -> Place]
    BY <1>0, <1>9, <2>2 DEF RunJob, Answered, TypeOK
  <2>4. /\ jobs' \in Seq(Writer \cup {Event}) /\ configuring' \in BOOLEAN
        /\ (configuring' => jobs' # <<>>)
    <3>1. CASE MayAwaitRoute(current') /\ configuring' = TRUE /\ jobs' = jobs
      BY <1>9, <3>1 DEF RunJob, TypeOK
    <3>2. CASE jobs' = Tail(jobs) /\ configuring' = FALSE
      BY <2>2, <3>2
    <3>3. QED
      BY <1>9, <3>1, <3>2 DEF RunJob, TypeOK
  <2>5. /\ applied' = revision
        /\ UNCHANGED <<hostVars, draft, want, committed, loaded, migrationVars>>
    BY <1>9 DEF RunJob
  <2>6. QED
    BY <2>1, <2>3, <2>4, <2>5 DEF TypeOK
<1>10. CASE ConfigureEnds
  <2>1. /\ Head(jobs) \in Writer \cup {Event}
        /\ Tail(jobs) \in Seq(Writer \cup {Event})
    BY <1>10 DEF ConfigureEnds, TypeOK
  <2>2. at' \in [Writer -> Place]
    BY <1>0, <1>10, <2>1 DEF ConfigureEnds, Answered, TypeOK
  <2>3. QED
    BY <1>10, <2>1, <2>2 DEF ConfigureEnds, TypeOK
<1>11. CASE MigrationReads
  BY <1>11 DEF MigrationReads, TypeOK
<1>12. CASE MigrationWrites
  <2>1. Import \in Document
    BY DocumentType DEF Import, TypeOK
  <2>2. Commit(Import)
    BY <1>12 DEF MigrationWrites
  <2>3. QED
    BY <1>12, <2>1, <2>2, CommitType DEF MigrationWrites, TypeOK
<1>13. CASE MigrationGivesUp \/ MigrationMarks
  <2>1. migration' = "none" /\ marker' \in BOOLEAN
    BY <1>13 DEF MigrationGivesUp, MigrationMarks, TypeOK
  <2>2. /\ missing' = Nothing
        /\ UNCHANGED <<hostVars, syncVars, writerVars, imported, reset, restarts>>
    BY <1>13 DEF MigrationGivesUp, MigrationMarks
  <2>3. QED
    BY <2>1, <2>2, NothingType DEF TypeOK
<1>14. CASE Restart
  <2>1. Normal(document) \in [enabled : BOOLEAN, route : Route \cup {Unset},
                              advanced : Advanced \cup {Unset}]
    BY DocumentType DEF TypeOK
  <2>2. restarts' \in 0..MaxRestarts
    BY <1>14, BoundAssumption DEF Restart, TypeOK
  <2>3. at' \in [Writer -> Place]
    BY <1>0, <1>14 DEF Restart, TypeOK
  <2>4. migration' \in {"none", "due", "read", "written"}
    BY <1>14 DEF Restart
  <2>5. jobs' \in Seq(Writer \cup {Event})
    BY <1>14 DEF Restart
  <2>6. want' \in [Writer -> Want]
    BY <1>0, <1>14 DEF Restart
  <2>7. /\ UNCHANGED <<hostVars, draft, committed, loaded, marker, imported, reset>>
        /\ missing' = Nothing
        /\ current' = Normal(document) /\ applied' = revision
        /\ configuring' = FALSE
    BY <1>14 DEF Restart
  <2>8. QED
    BY <2>1, <2>2, <2>3, <2>4, <2>5, <2>6, <2>7, NothingType
       DEF TypeOK
<1>15. CASE UNCHANGED vars
  BY <1>15 DEF vars, TypeOK
<1>16. QED
  BY <1>1, <1>2, <1>3, <1>4, <1>5, <1>6, <1>7, <1>8, <1>9, <1>10, <1>11, <1>12,
     <1>13, <1>14, <1>15 DEF Next, Users, Serve, Chain, Migrate

\* Whatever document the host starts with, the state has its types.
LEMMA InitTypes == Init => TypeOK
<1> SUFFICES ASSUME Init PROVE TypeOK
  OBVIOUS
<1>1. Normal(document) \in [enabled : BOOLEAN, route : Route \cup {Unset},
                            advanced : Advanced \cup {Unset}]
  BY DocumentType DEF Init
<1>2. None \in Want /\ "idle" \in Place
  BY DEF None, Want, Place, Settled
<1>3. /\ 0 \in 0..MaxRevision /\ 0 \in 0..MaxRestarts
      /\ {} \subseteq Key /\ <<>> \in Seq(Writer \cup {Event})
      /\ migration \in {"none", "due", "read", "written"}
  BY BoundAssumption DEF Init
<1>4. QED
  BY <1>1, <1>2, <1>3, NothingType DEF Init, TypeOK

\* Settings, requests, jobs and histories have their types (runtime.ts:83-280).
THEOREM Types == Spec => []TypeOK
BY InitTypes, TypeStep, PTL DEF Spec

-----------------------------------------------------------------------------
\* A commit changes neither the requests nor the order of the jobs, and appends
\* an event; every other action leaves document and revision alone.
LEMMA DraftStep == TypeOK /\ Seen /\ [Next]_vars => Seen'
<1> SUFFICES ASSUME TypeOK, Seen, [Next]_vars PROVE Seen'
  OBVIOUS
<1> USE DEF Seen, hostVars, syncVars, writerVars, migrationVars
<1>0. revision \in Nat /\ \A p \in Page : draft[p] \in Nat
  BY BoundAssumption DEF TypeOK
<1>1. ASSUME revision' = revision + 1, UNCHANGED <<draft, loaded>> PROVE Seen'
  BY <1>0, <1>1
<1>2. ASSUME NEW p \in Page, Fill(p) PROVE Seen'
  BY <1>0, <1>2 DEF Fill, TypeOK
<1>3. CASE UNCHANGED <<hostVars, draft, loaded>>
  BY <1>3
<1>4. CASE Edit
  BY <1>1, <1>4 DEF Edit, Commit
<1>5. ASSUME NEW w \in Writer, Save(w) \/ WriteSwitch(w) PROVE Seen'
  BY <1>1, <1>5 DEF Save, WriteSwitch, Commit
<1>6. CASE MigrationWrites
  BY <1>1, <1>6 DEF MigrationWrites, Commit
<1>7. ASSUME NEW p \in Page, Submit(p) PROVE Seen'
  BY <1>3, <1>7 DEF Submit
<1>8. ASSUME NEW w \in Writer,
             Resolve(w) \/ Conflict(w) \/ WriteFails(w) \/ Synchronize(w) \/ Switch(w)
      PROVE  Seen'
  BY <1>3, <1>8 DEF Resolve, Conflict, WriteFails, Synchronize, Switch
<1>9. CASE RunJob \/ ConfigureEnds
  BY <1>3, <1>9 DEF RunJob, ConfigureEnds
<1>10. CASE MigrationReads \/ MigrationGivesUp \/ MigrationMarks \/ Restart
  BY <1>3, <1>10 DEF MigrationReads, MigrationGivesUp, MigrationMarks, Restart
<1>11. CASE UNCHANGED vars
  BY <1>3, <1>11 DEF vars
<1>12. QED
  BY <1>2, <1>4, <1>5, <1>6, <1>7, <1>8, <1>9, <1>10, <1>11
     DEF Next, Users, Serve, Chain, Migrate, Writer

\* Only a save takes a page from writing to written.
LEMMA SavingIsSave ==
  ASSUME TypeOK, [Next]_vars, NEW p \in Page, Saves(p)
  PROVE  Save(p)
<1> USE DEF Saves, hostVars, syncVars, writerVars, migrationVars
<1>0. /\ p \in Writer /\ at \in [Writer -> Place] /\ p # Event /\ p \notin Command
      /\ Page \subseteq Writer /\ Command \subseteq Writer
  BY WriterAssumption DEF TypeOK, Writer
<1>1. ASSUME NEW q \in Page, Fill(q) \/ Submit(q) PROVE FALSE
  <2>1. at[q] \in Settled
    BY <1>1 DEF Fill, Submit
  <2>2. q # p
    BY <2>1 DEF Settled
  <2>3. at'[p] = at[p]
    BY <1>0, <1>1, <2>2 DEF Fill, Submit
  <2>4. QED
    BY <2>3
<1>2. ASSUME NEW c \in Command, Switch(c) PROVE FALSE
  BY <1>0, <1>2 DEF Switch
<1>3. ASSUME NEW w \in Writer,
             Resolve(w) \/ Conflict(w) \/ WriteFails(w) \/ Synchronize(w)
      PROVE  FALSE
  BY <1>0, <1>3 DEF Resolve, Conflict, WriteFails, Synchronize, Leaves
<1>4. ASSUME NEW w \in Writer, WriteSwitch(w) PROVE FALSE
  BY <1>0, <1>4 DEF WriteSwitch, Leaves
<1>5. ASSUME NEW w \in Writer, Save(w) PROVE Save(p)
  <2>1. w = p
    BY <1>0, <1>5 DEF Save, Leaves
  <2>2. QED
    BY <1>5, <2>1
<1>6. ASSUME RunJob \/ ConfigureEnds PROVE FALSE
  <2>1. at'[p] \in {at[p], "ok", "failed"}
    BY <1>0, <1>6 DEF RunJob, ConfigureEnds, Answered
  <2>2. QED
    BY <2>1
<1>7. ASSUME Restart PROVE FALSE
  BY <1>0, <1>7 DEF Restart
<1>8. ASSUME Edit \/ Migrate \/ UNCHANGED vars PROVE FALSE
  BY <1>8 DEF Edit, Migrate, MigrationReads, MigrationWrites, MigrationGivesUp,
              MigrationMarks, vars
<1>9. QED
  <2>1. ~Users \/ Edit
    BY <1>1, <1>2 DEF Users
  <2>2. \A w \in Writer : Serve(w) => Save(p)
    BY <1>3, <1>4, <1>5 DEF Serve
  <2>3. ~Chain
    BY <1>6 DEF Chain
  <2>4. QED
    BY <1>7, <1>8, <2>1, <2>2, <2>3 DEF Next

\* A page that saves overwrites nothing its user has not seen (runtime.ts:148).
THEOREM SavesWhatWasSeen == Spec => FormLosesNothing
<1>1. Init => Seen
  <2> SUFFICES ASSUME Init, NEW p \in Page
               PROVE  draft[p] <= revision
                      /\ (draft[p] = revision => loaded[p] = document)
    BY DEF Seen
  <2>1. draft[p] = 0 /\ revision = 0 /\ loaded[p] = document
    BY DEF Init
  <2>2. QED
    BY <2>1
<1>2. Init => TypeOK
  BY InitTypes
<1>3. TypeOK /\ Seen /\ [Next]_vars
        => [\A p \in Page : Saves(p) => document = loaded[p]]_vars
  <2> SUFFICES ASSUME TypeOK, Seen, [Next]_vars, NEW p \in Page, Saves(p)
               PROVE  document = loaded[p]
    OBVIOUS
  <2>1. Save(p)
    BY SavingIsSave
  <2>2. QED
    BY <2>1 DEF Save, Seen
<1>4. QED
  BY <1>1, <1>2, <1>3, TypeStep, DraftStep, PTL DEF Spec, FormLosesNothing

-----------------------------------------------------------------------------
\* The route a page is about to switch on is one it has resolved.
LEMMA ResolvedStep == TypeOK /\ Resolved /\ [Next]_vars => Resolved'
<1> SUFFICES ASSUME TypeOK, Resolved, [Next]_vars PROVE Resolved'
  OBVIOUS
<1> USE DEF Resolved, hostVars, syncVars, writerVars, migrationVars
<1>0. /\ at \in [Writer -> Place] /\ want \in [Writer -> Want]
      /\ Page \subseteq Writer /\ Command \subseteq Writer
      /\ Page \cap Command = {}
  BY WriterAssumption DEF TypeOK, Writer
<1>1. CASE UNCHANGED <<at, want>>
  BY <1>1
<1>2. ASSUME NEW w \in Writer, NEW s \in {"written", "failed", "stale"}, Leaves(w, s)
      PROVE  Resolved'
  BY <1>0, <1>2 DEF Leaves
<1>3. ASSUME NEW w \in Writer, NEW s \in {"idle", "waiting", "ok", "failed"},
             at' = [at EXCEPT ![w] = s], UNCHANGED want
      PROVE  Resolved'
  BY <1>0, <1>3
<1>4. ASSUME NEW p \in Page, Submit(p) PROVE Resolved'
  <2>1. PICK e \in BOOLEAN, r \in Route \cup {Blank} :
          \/ at' = [at EXCEPT ![p] = "stale"] /\ want' = want
          \/ /\ want' = [want EXCEPT ![p] = [enabled |-> e, route |-> r]]
             /\ at' = [at EXCEPT ![p] = IF e THEN "resolving" ELSE "writing"]
    BY <1>4 DEF Submit, Resolves
  <2>2. at'[p] = "writing" => ~want'[p].enabled
    BY <1>0, <1>4, <2>1 DEF Settled, Submit
  <2>3. \A q \in Page \ {p} : at'[q] = at[q] /\ want'[q] = want[q]
    BY <1>0, <2>1
  <2>4. QED
    BY <2>2, <2>3
<1>5. ASSUME NEW c \in Command, Switch(c) PROVE Resolved'
  <2>1. \A q \in Page : at'[q] = at[q] /\ want'[q] = want[q]
    BY <1>0, <1>5 DEF Switch
  <2>2. QED
    BY <2>1
<1>6. ASSUME NEW w \in Writer, Resolve(w) PROVE Resolved'
  <2>1. CASE want[w].route \in Resolvable
    BY <1>0, <1>6, <2>1 DEF Resolve
  <2>2. CASE want[w].route \notin Resolvable
    BY <1>2, <1>6, <2>2 DEF Resolve
  <2>3. QED
    BY <2>1, <2>2
<1>7. ASSUME NEW w \in Writer,
             Save(w) \/ Conflict(w) \/ WriteSwitch(w) \/ WriteFails(w)
      PROVE  Resolved'
  BY <1>2, <1>7 DEF Save, Conflict, WriteSwitch, WriteFails
<1>8. ASSUME NEW w \in Writer, Fill(w) \/ Synchronize(w) PROVE Resolved'
  BY <1>3, <1>8 DEF Fill, Synchronize
<1>9. CASE RunJob \/ ConfigureEnds
  <2>1. /\ \/ at' = at
           \/ \E w \in Writer, s \in {"ok", "failed"} : at' = [at EXCEPT ![w] = s]
        /\ want' = want
    <3>1. jobs # <<>>
      BY <1>9 DEF RunJob, ConfigureEnds, TypeOK
    <3>2. Head(jobs) \in Writer \cup {Event}
      BY <3>1 DEF TypeOK
    <3>3. QED
      BY <1>9, <3>2 DEF RunJob, ConfigureEnds, Answered
  <2>2. QED
    BY <1>1, <1>3, <2>1
<1>10. CASE Edit \/ Migrate
  BY <1>1, <1>10 DEF Edit, Migrate, MigrationReads, MigrationWrites,
                     MigrationGivesUp, MigrationMarks
<1>11. CASE Restart
  <2>1. \A p \in Page : ~want'[p].enabled
    BY <1>0, <1>11 DEF Restart, None
  <2>2. QED
    BY <2>1
<1>12. CASE UNCHANGED vars
  BY <1>1, <1>12 DEF vars
<1>13. QED
  BY <1>0, <1>4, <1>5, <1>6, <1>7, <1>8, <1>9, <1>10, <1>11, <1>12
     DEF Next, Users, Serve, Chain

\* A page never leaves learning on with a route it has not resolved
\* (runtime.ts:139-146).
THEOREM EnablesWhatWasResolved == Spec => FormEnablesResolved
<1>1. Init => Resolved
  BY DEF Init, Resolved, Writer
<1>2. TypeOK /\ Resolved /\ [Next]_vars
        => [\A p \in Page : Saves(p) /\ document'.enabled = TRUE
              => document'.route \in Resolvable]_vars
  <2> SUFFICES ASSUME TypeOK, Resolved, [Next]_vars, NEW p \in Page, Saves(p),
                      document'.enabled = TRUE
               PROVE  document'.route \in Resolvable
    OBVIOUS
  <2>1. Save(p) /\ document' = Merged(p) /\ at[p] = "writing"
    BY SavingIsSave DEF Save, Commit
  <2>2. document'.enabled = want[p].enabled /\ document'.route = want[p].route
    BY <2>1 DEF Merged, TypeOK, Document
  <2>3. QED
    BY <2>1, <2>2 DEF Resolved
<1>3. QED
  BY <1>1, <1>2, InitTypes, TypeStep, ResolvedStep, PTL
     DEF Spec, FormEnablesResolved

-----------------------------------------------------------------------------
\* What is found missing stays missing while the revision is the one read.
LEMMA FreshStep == TypeOK /\ Fresh /\ [Next]_vars => Fresh'
<1> SUFFICES ASSUME TypeOK, Fresh, [Next]_vars PROVE Fresh'
  OBVIOUS
<1> USE DEF Fresh, hostVars, syncVars, writerVars, migrationVars
<1>0. revision \in Nat /\ missing.revision \in Nat
  BY BoundAssumption DEF TypeOK
<1>1. CASE revision' = revision + 1 /\ missing' = missing
  <2>1. missing'.revision # revision' /\ missing'.revision <= revision'
    BY <1>0, <1>1
  <2>2. QED
    BY <2>1
<1>2. CASE UNCHANGED <<hostVars, missing>> /\ (migration' = "read" => migration = "read")
  BY <1>2
<1>3. CASE Edit
  BY <1>1, <1>3 DEF Edit, Commit
<1>4. ASSUME NEW w \in Writer, Save(w) \/ WriteSwitch(w) PROVE Fresh'
  BY <1>1, <1>4 DEF Save, WriteSwitch, Commit
<1>5. CASE MigrationWrites
  BY <1>1, <1>5 DEF MigrationWrites, Commit
<1>6. CASE MigrationReads
  <2>1. /\ missing'.revision = revision /\ UNCHANGED hostVars
        /\ \A k \in missing'.keys : document[k] = Unset
    BY <1>6 DEF MigrationReads
  <2>2. QED
    BY <1>0, <2>1
<1>7. CASE MigrationGivesUp \/ MigrationMarks \/ Restart
  <2>1. migration' # "read" /\ missing' = Nothing /\ UNCHANGED hostVars
    BY <1>7 DEF MigrationGivesUp, MigrationMarks, Restart
  <2>2. QED
    BY <1>0, <2>1 DEF Nothing
<1>8. ASSUME NEW w \in Writer,
             \/ Fill(w) \/ Submit(w) \/ Switch(w) \/ Resolve(w) \/ Conflict(w)
             \/ WriteFails(w) \/ Synchronize(w)
      PROVE  Fresh'
  BY <1>2, <1>8
     DEF Fill, Submit, Switch, Resolve, Conflict, WriteFails, Synchronize
<1>9. CASE RunJob \/ ConfigureEnds
  BY <1>2, <1>9 DEF RunJob, ConfigureEnds
<1>10. CASE UNCHANGED vars
  BY <1>2, <1>10 DEF vars
<1>11. QED
  BY <1>3, <1>4, <1>5, <1>6, <1>7, <1>8, <1>9, <1>10
     DEF Next, Users, Serve, Chain, Migrate, Writer

\* Only the import's write takes it from read to written.
LEMMA ImportingIsImport ==
  ASSUME [Next]_vars, migration = "read", migration' = "written"
  PROVE  MigrationWrites
<1> USE DEF migrationVars
<1>1. ~Users
  BY DEF Users, Edit, Fill, Submit, Switch
<1>2. \A w \in Writer : ~Serve(w)
  BY DEF Serve, Resolve, Save, Conflict, WriteSwitch, WriteFails, Synchronize
<1>3. ~Chain /\ ~Restart /\ ~UNCHANGED vars
  BY DEF Chain, RunJob, ConfigureEnds, Restart, vars
<1>4. ~MigrationReads /\ ~MigrationGivesUp /\ ~MigrationMarks
  BY DEF MigrationReads, MigrationGivesUp, MigrationMarks
<1>5. QED
  BY <1>1, <1>2, <1>3, <1>4 DEF Next, Migrate

\* The import overwrites no key that has an override (settings-migration.ts:44).
THEOREM ImportKeepsOverrides == Spec => OverridesSurvive
<1>1. Init => Fresh
  BY DEF Init, Fresh, Nothing
<1>2. TypeOK /\ Fresh /\ [Next]_vars
        => [migration = "read" /\ migration' = "written" =>
              \A k \in Key : document[k] # Unset => document'[k] = document[k]]_vars
  <2> SUFFICES ASSUME TypeOK, Fresh, [Next]_vars, migration = "read",
                      migration' = "written", NEW k \in Key, document[k] # Unset
               PROVE  document'[k] = document[k]
    OBVIOUS
  <2>1. MigrationWrites
    BY ImportingIsImport
  <2>2. k \notin missing.keys
    BY <2>1 DEF MigrationWrites, Fresh
  <2>3. document' = Import
    BY <2>1 DEF MigrationWrites, Commit
  <2>4. QED
    BY <2>2, <2>3 DEF Import
<1>3. QED
  BY <1>1, <1>2, InitTypes, TypeStep, FreshStep, PTL DEF Spec, OverridesSurvive

-----------------------------------------------------------------------------
\* What appending a job to the chain, and serving its first one, make of it.
LEMMA Appended ==
  ASSUME TypeOK, NEW w \in Writer \cup {Event}, jobs' = Append(jobs, w)
  PROVE  /\ Len(jobs) \in Nat /\ Len(jobs') = Len(jobs) + 1 /\ jobs' # <<>>
         /\ \A i \in 1..Len(jobs) : jobs'[i] = jobs[i]
         /\ jobs'[Len(jobs) + 1] = w
         /\ jobs # <<>> => Len(jobs) >= 1 /\ jobs'[1] = jobs[1]
BY DEF TypeOK

\* Taking the head off the queue of jobs moves every other job up by one.
LEMMA Tailed ==
  ASSUME TypeOK, jobs # <<>>, jobs' = Tail(jobs)
  PROVE  /\ Len(jobs) \in Nat \ {0} /\ Len(jobs') = Len(jobs) - 1
         /\ \A i \in 1..Len(jobs') : jobs'[i] = jobs[i + 1]
         /\ Head(jobs) = jobs[1] /\ jobs[1] \in Writer \cup {Event}
         /\ jobs' = <<>> => Len(jobs) = 1
<1>1. /\ Len(jobs) \in Nat \ {0} /\ Len(jobs') = Len(jobs) - 1
      /\ \A i \in 1..Len(jobs') : jobs'[i] = jobs[i + 1]
      /\ Head(jobs) = jobs[1]
  BY DEF TypeOK
<1>2. jobs[1] \in Writer \cup {Event}
  BY <1>1 DEF TypeOK
<1>3. jobs' = <<>> => Len(jobs') = 0
  OBVIOUS
<1>4. QED
  BY <1>1, <1>2, <1>3

\* Every change of the document appends a job, and the job that was read last is
\* alone in the chain only if nothing has changed since.
LEMMA AgreesStep == TypeOK /\ LastAgrees /\ [Next]_vars => LastAgrees'
<1> SUFFICES ASSUME TypeOK, LastAgrees, [Next]_vars PROVE LastAgrees'
  OBVIOUS
<1> USE DEF LastAgrees, hostVars, syncVars, writerVars, migrationVars
<1>0. configuring \in BOOLEAN /\ (configuring => jobs # <<>>)
  BY DEF TypeOK
<1>1. ASSUME NEW w \in Writer \cup {Event}, jobs' = Append(jobs, w),
             UNCHANGED configuring
      PROVE  LastAgrees'
  <2>1. jobs' # <<>> /\ (configuring => Len(jobs') # 1)
    BY <1>0, <1>1, Appended
  <2>2. QED
    BY <1>1, <2>1
<1>2. CASE UNCHANGED <<document, current, jobs, configuring>>
  BY <1>2
<1>3. CASE Edit
  BY <1>1, <1>3 DEF Edit, Commit
<1>4. ASSUME NEW w \in Writer, Save(w) \/ WriteSwitch(w) PROVE LastAgrees'
  BY <1>1, <1>4 DEF Save, WriteSwitch, Commit
<1>5. CASE MigrationWrites
  BY <1>1, <1>5 DEF MigrationWrites, Commit
<1>6. ASSUME NEW w \in Writer, Synchronize(w) PROVE LastAgrees'
  <2>1. jobs' = Append(jobs, w) /\ UNCHANGED configuring
    BY <1>6 DEF Synchronize
  <2>2. QED
    BY <1>1, <2>1
<1>7. CASE RunJob
  BY <1>7 DEF RunJob
<1>8. CASE ConfigureEnds
  <2>1. jobs' = <<>> => Len(jobs) = 1
    BY <1>0, <1>8, Tailed DEF ConfigureEnds
  <2>2. QED
    BY <1>8, <2>1 DEF ConfigureEnds
<1>9. CASE Restart
  BY <1>9 DEF Restart
<1>10. CASE MigrationReads \/ MigrationGivesUp \/ MigrationMarks
  BY <1>2, <1>10 DEF MigrationReads, MigrationGivesUp, MigrationMarks
<1>11. ASSUME NEW w \in Writer,
              \/ Fill(w) \/ Submit(w) \/ Switch(w) \/ Resolve(w) \/ Conflict(w)
              \/ WriteFails(w)
       PROVE  LastAgrees'
  BY <1>2, <1>11 DEF Fill, Submit, Switch, Resolve, Conflict, WriteFails
<1>12. CASE UNCHANGED vars
  BY <1>2, <1>12 DEF vars
<1>13. QED
  BY <1>3, <1>4, <1>5, <1>6, <1>7, <1>8, <1>9, <1>10, <1>11, <1>12
     DEF Next, Users, Serve, Chain, Migrate, Writer

\* No change is lost to a job that was already reading (runtime.ts:266-278).
THEOREM NoChangeLost == Spec => []ChainAgrees
<1>1. Init => LastAgrees
  BY DEF Init, LastAgrees
<1>2. LastAgrees => ChainAgrees
  BY DEF LastAgrees, ChainAgrees
<1>3. QED
  BY <1>1, <1>2, InitTypes, TypeStep, AgreesStep, PTL DEF Spec

-----------------------------------------------------------------------------
\* A writer has one job, waits for it, and is told when it has been served.
ToldInv == Past /\ Queued /\ Served /\ ToldIsApplied

\* Serving the first job keeps the others in order, and answers its writer.
LEMMA ServedFirst ==
  ASSUME TypeOK, Queued, jobs # <<>>, jobs' = Tail(jobs),
         NEW s \in {"ok", "failed"}, Answered(Head(jobs), s)
  PROVE  /\ Queued'
         /\ \A w \in Writer : at'[w] = "ok" => at[w] = "ok" \/ jobs[1] = w
<1> USE DEF Queued
<1>1. at \in [Writer -> Place] /\ Event \notin Writer
  BY WriterAssumption DEF TypeOK, Writer
<1>2. /\ Len(jobs) \in Nat \ {0} /\ Len(jobs') = Len(jobs) - 1
      /\ \A i \in 1..Len(jobs') : jobs'[i] = jobs[i + 1]
      /\ Head(jobs) = jobs[1] /\ jobs[1] \in Writer \cup {Event}
  BY Tailed
<1>3. at' = IF jobs[1] = Event THEN at ELSE [at EXCEPT ![jobs[1]] = s]
  BY <1>2 DEF Answered
<1>4. \A i \in 1..Len(jobs') :
        i + 1 \in 1..Len(jobs) /\ 1 \in 1..Len(jobs) /\ i + 1 # 1
  BY <1>2
<1>5. ASSUME NEW i \in 1..Len(jobs'), jobs'[i] \in Writer
      PROVE  /\ at'[jobs'[i]] = "waiting"
             /\ \A j \in 1..Len(jobs') : jobs'[j] = jobs'[i] => j = i
  <2>1. at[jobs[i + 1]] = "waiting" /\ jobs[i + 1] # jobs[1]
    BY <1>2, <1>4, <1>5
  <2>2. at'[jobs'[i]] = "waiting"
    BY <1>1, <1>2, <1>3, <1>5, <2>1
  <2>3. ASSUME NEW j \in 1..Len(jobs'), jobs'[j] = jobs'[i] PROVE j = i
    <3>1. j + 1 = i + 1
      BY <1>2, <1>4, <1>5, <2>3
    <3>2. QED
      BY <1>2, <3>1
  <2>4. QED
    BY <2>2, <2>3
<1>6. \A w \in Writer : at'[w] = "ok" => at[w] = "ok" \/ jobs[1] = w
  BY <1>1, <1>2, <1>3
<1>7. QED
  BY <1>5, <1>6

\* Every step keeps a notification on its way for what is not yet applied.
LEMMA ToldStep == TypeOK /\ ToldInv /\ [Next]_vars => ToldInv'
<1> SUFFICES ASSUME TypeOK, ToldInv, [Next]_vars PROVE ToldInv'
  OBVIOUS
<1> USE DEF ToldInv, hostVars, syncVars, writerVars, migrationVars
<1>0. /\ at \in [Writer -> Place] /\ committed \in [Writer -> 0..MaxRevision]
      /\ revision \in Nat /\ applied \in Nat /\ Event \notin Writer
      /\ \A w \in Writer : committed[w] \in Nat
      /\ (configuring => jobs # <<>>)
      /\ Page \subseteq Writer /\ Command \subseteq Writer
  BY WriterAssumption, BoundAssumption DEF TypeOK, Writer
<1>1. ASSUME NEW w \in Writer, at[w] # "waiting"
      PROVE  \A i \in 1..Len(jobs) : jobs[i] # w
  BY <1>1 DEF Queued
<1>2. ASSUME revision' = revision + 1, jobs' = Append(jobs, Event),
             UNCHANGED <<at, committed, applied, configuring>>
      PROVE  ToldInv'
  <2>1. Past' /\ ToldIsApplied'
    BY <1>0, <1>2 DEF Past, ToldIsApplied
  <2>2. Queued'
    BY <1>0, <1>2, Appended DEF Queued
  <2>3. Served'
    BY <1>0, <1>2, Appended DEF Served
  <2>4. QED
    BY <2>1, <2>2, <2>3
<1>3. ASSUME NEW w \in Writer, Save(w) \/ WriteSwitch(w) PROVE ToldInv'
  <2>1. /\ at[w] = "writing" /\ at' = [at EXCEPT ![w] = "written"]
        /\ committed' = [committed EXCEPT ![w] = revision']
        /\ revision' = revision + 1 /\ jobs' = Append(jobs, Event)
        /\ UNCHANGED <<applied, configuring>>
    BY <1>3 DEF Save, WriteSwitch, Commit, Leaves
  <2>2. \A i \in 1..Len(jobs) : jobs[i] # w
    BY <1>1, <2>1
  <2>3. Past' /\ ToldIsApplied'
    BY <1>0, <2>1 DEF Past, ToldIsApplied
  <2>4. Queued'
    BY <1>0, <2>1, <2>2, Appended DEF Queued
  <2>5. configuring /\ jobs[1] \in Writer => jobs[1] # w
    BY <1>0, <2>1, <2>2, Appended
  <2>6. Served'
    BY <1>0, <2>1, <2>5, Appended DEF Served
  <2>7. QED
    BY <2>3, <2>4, <2>6
<1>4. ASSUME NEW w \in Writer, Synchronize(w) PROVE ToldInv'
  <2>1. /\ at[w] = "written" /\ at' = [at EXCEPT ![w] = "waiting"]
        /\ jobs' = Append(jobs, w)
        /\ UNCHANGED <<revision, committed, applied, configuring>>
    BY <1>4 DEF Synchronize
  <2>2. \A i \in 1..Len(jobs) : jobs[i] # w
    BY <1>1, <2>1
  <2>3. Past' /\ ToldIsApplied'
    BY <1>0, <2>1 DEF Past, ToldIsApplied
  <2>4. Queued'
    BY <1>0, <2>1, <2>2, Appended DEF Queued
  <2>5. Served'
    BY <1>0, <2>1, Appended DEF Served
  <2>6. QED
    BY <2>3, <2>4, <2>5
<1>5. ASSUME NEW w \in Writer, NEW u \in Place \ {"ok"}, at[w] # "waiting",
             at' = [at EXCEPT ![w] = u],
             UNCHANGED <<revision, jobs, configuring, committed, applied>>
      PROVE  ToldInv'
  <2>1. \A i \in 1..Len(jobs) : jobs[i] # w
    BY <1>1, <1>5
  <2>2. Past' /\ Served' /\ ToldIsApplied'
    BY <1>0, <1>5 DEF Past, Served, ToldIsApplied
  <2>3. Queued'
    BY <1>0, <1>5, <2>1 DEF Queued
  <2>4. QED
    BY <2>2, <2>3
<1>6. ASSUME NEW w \in Writer,
             \/ (w \in Page /\ (Fill(w) \/ Submit(w))) \/ (w \in Command /\ Switch(w))
             \/ Resolve(w) \/ Conflict(w) \/ WriteFails(w)
      PROVE  ToldInv'
  <2>1. at[w] # "waiting"
    BY <1>6 DEF Fill, Submit, Switch, Resolve, Conflict, WriteFails, Settled
  <2>2. \E u \in {"idle", "resolving", "writing", "failed", "stale"} :
          at' = [at EXCEPT ![w] = u]
    BY <1>6 DEF Fill, Submit, Switch, Resolve, Conflict, WriteFails, Leaves
  <2>3. UNCHANGED <<revision, jobs, configuring, committed, applied>>
    BY <1>6 DEF Fill, Submit, Switch, Resolve, Conflict, WriteFails
  <2>4. {"idle", "resolving", "writing", "failed", "stale"} \subseteq Place \ {"ok"}
    BY DEF Place, Settled
  <2>5. QED
    BY <1>5, <2>1, <2>2, <2>3, <2>4
<1>7. CASE RunJob
  <2>1. applied' = revision /\ UNCHANGED <<revision, committed>> /\ jobs # <<>>
    BY <1>7 DEF RunJob
  <2>2. Past' /\ Served' /\ ToldIsApplied'
    BY <1>0, <1>7, <2>1, Tailed DEF Past, Served, ToldIsApplied, RunJob
  <2>3. Queued'
    <3>1. CASE UNCHANGED <<jobs, at>>
      BY <3>1 DEF Queued
    <3>2. CASE jobs' = Tail(jobs) /\ Answered(Head(jobs), "ok")
      BY <2>1, <3>2, ServedFirst
    <3>3. QED
      BY <1>7, <3>1, <3>2 DEF RunJob
  <2>4. QED
    BY <2>2, <2>3
<1>8. CASE ConfigureEnds
  <2>1. /\ configuring /\ ~configuring' /\ jobs # <<>> /\ jobs' = Tail(jobs)
        /\ \E s \in {"ok", "failed"} : Answered(Head(jobs), s)
        /\ UNCHANGED <<revision, committed, applied>>
    BY <1>0, <1>8 DEF ConfigureEnds
  <2>2. Queued' /\ \A w \in Writer : at'[w] = "ok" => at[w] = "ok" \/ jobs[1] = w
    BY <2>1, ServedFirst
  <2>3. Past' /\ Served'
    BY <2>1 DEF Past, Served
  <2>4. ToldIsApplied'
    BY <2>1, <2>2 DEF Served, ToldIsApplied
  <2>5. QED
    BY <2>2, <2>3, <2>4
<1>9. CASE Restart
  <2>1. /\ jobs' = <<>> /\ configuring' = FALSE /\ applied' = revision
        /\ UNCHANGED <<revision, committed>>
    BY <1>9 DEF Restart
  <2>2. Past' /\ Served' /\ ToldIsApplied'
    BY <1>0, <2>1 DEF Past, Served, ToldIsApplied
  <2>3. Queued'
    BY <2>1 DEF Queued
  <2>4. QED
    BY <2>2, <2>3
<1>10. CASE Edit \/ MigrationWrites
  BY <1>2, <1>10 DEF Edit, MigrationWrites, Commit
<1>11. CASE \/ MigrationReads \/ MigrationGivesUp \/ MigrationMarks
            \/ UNCHANGED vars
  <2>1. UNCHANGED <<revision, jobs, configuring, at, committed, applied>>
    BY <1>11 DEF MigrationReads, MigrationGivesUp, MigrationMarks, vars
  <2>2. QED
    BY <2>1 DEF Past, Queued, Served, ToldIsApplied
<1>12. QED
  <2>1. CASE Users
    BY <1>0, <1>6, <1>10, <2>1 DEF Users
  <2>2. ASSUME NEW w \in Writer, Serve(w) PROVE ToldInv'
    BY <1>3, <1>4, <1>6, <2>2 DEF Serve
  <2>3. CASE Chain \/ Migrate
    BY <1>7, <1>8, <1>10, <1>11, <2>3 DEF Chain, Migrate
  <2>4. QED
    BY <1>9, <1>11, <2>1, <2>2, <2>3 DEF Next

\* Who is told that a write is done, finds it applied (runtime.ts:162, 266).
THEOREM ToldMeansApplied == Spec => []ToldIsApplied
<1>1. Init => ToldInv
  <2> SUFFICES ASSUME Init PROVE ToldInv
    OBVIOUS
  <2>1. Past /\ Served /\ ToldIsApplied
    BY DEF Init, Past, Served, ToldIsApplied
  <2>2. Queued
    BY DEF Init, Queued
  <2>3. QED
    BY <2>1, <2>2 DEF ToldInv
<1>2. ToldInv => ToldIsApplied
  BY DEF ToldInv
<1>3. QED
  BY <1>1, <1>2, InitTypes, TypeStep, ToldStep, PTL DEF Spec
=============================================================================
