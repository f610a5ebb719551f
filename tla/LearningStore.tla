--------------------------- MODULE LearningStore ---------------------------
(***************************************************************************)
(* The browser's GlobalLearningStore (client/learning-store.ts) and what it *)
(* sees of the host through typed Remote: the long poll, the coalesced      *)
(* refresh, paging back, and the mutations of the learning views.           *)
(* The data the host shows is as new as its view cursor, so data is the     *)
(* cursor it was read at; only the thread's entries are kept one by one,    *)
(* because paging depends on them. Reads travel on one connection: the host *)
(* handles them in the order of the calls and its answers keep their order. *)
(* Zero is the cursor of a view that has no status yet.                     *)
(***************************************************************************)
EXTENDS Naturals, Sequences, FiniteSets, Functions

CONSTANTS Mutation,      \* a subset of AllMutations: what the views submit
          PageSize,      \* entries of a page
          MaxRevision,   \* bound on changes of the host's view
          MaxEntries,    \* bound on entries since the last clear
          MaxMounts,     \* views mounted at a time
          MaxGeneration, \* bound on first mounts and last unmounts
          MaxFailures,   \* bound on failed calls
          OlderCall,     \* calls of loadOlder that can wait at a time
          NoRefresh      \* no refresh in flight

\* feedback: feedback and reopenTopic, by mutate. answer: startReview,
\* submitReviewAnswer and updateLearnerProfile. settings: updateConfiguration.
AllMutations == {"feedback", "answer", "settings", "clear"}
ASSUME MutationAssumption == Mutation \subseteq AllMutations
ASSUME BoundAssumption ==
  /\ {PageSize, MaxRevision} \subseteq Nat \ {0}
  /\ {MaxEntries, MaxMounts, MaxGeneration, MaxFailures} \subseteq Nat
ASSUME RefreshAssumption == NoRefresh \notin [cursor : Nat, seen : Nat]

VARIABLES revision,   \* the host's view cursor
          era, count, \* clears so far, and the thread's entries since
          asked,      \* reads on their way to the host
          answers,    \* what the host answered, on its way back
          polls,      \* polls[g]: the cursor the long poll of loop g waits on
          view,       \* the snapshot the views render
          mounts, watching, watchGeneration, disposed,
          loop,       \* loop[g]: where the watch loop of generation g is
          controller, \* the loop that watchController belongs to
          refresh,    \* the refresh in flight
          mutation,   \* mutation[k]: how far a mutation has come
          older,      \* the calls of loadOlder that wait for a page
          failures,
          committed,  \* history: when the host accepted a pending mutation
          adopted     \* history: the last cursor taken from a mutation's answer

hostVars == <<revision, era, count>>
mountVars == <<mounts, watching, watchGeneration, disposed>>
watchVars == <<loop, polls, controller>>
historyVars == <<committed, adopted>>
vars == <<hostVars, asked, answers, view, mountVars, watchVars, refresh, mutation, older, failures, historyVars>>

Generation == 1..MaxGeneration
Thread == {<<era, i>> : i \in 1..count}
Ordinals(entries) == {e[2] : e \in entries}
Oldest(entries) ==
  CHOOSE i \in Ordinals(entries) : \A j \in Ordinals(entries) : i <= j

\* threadPage: the newest entries below an ordinal, and whether there are more.
\* The fault reads no row beyond them and cannot tell.
Below(before) == {e \in Thread : e[2] < before}
PageBlind(before, limit) ==
  [entries |-> {e \in Below(before) :
                  Cardinality({f \in Below(before) : f[2] > e[2]}) < limit},
   more |-> FALSE]
Page(before, limit) ==
  [entries |-> {e \in Below(before) :
                  Cardinality({f \in Below(before) : f[2] > e[2]}) < limit},
   more |-> Cardinality(Below(before)) > limit]

\* readPages: as many whole pages as hold the entries already shown.
ReadPages(minimum) ==
  Page(count + 1, IF minimum > PageSize THEN minimum ELSE PageSize)

View == [phase : {"loading", "ready", "error"}, cursor : 0..MaxRevision,
         seen : 0..MaxRevision, entries : SUBSET ((0..era) \X (1..MaxEntries)),
         more : BOOLEAN]

TypeOK ==
  /\ revision \in 1..MaxRevision /\ era \in Nat /\ count \in 0..MaxEntries
  /\ view \in View
  /\ mounts \in 0..MaxMounts /\ watchGeneration \in 0..MaxGeneration
  /\ disposed \in BOOLEAN /\ watching = (mounts > 0 /\ ~disposed)
  /\ loop \in [Generation -> {"none", "starting", "polling", "aborted",
                 "refreshing", "loading", "pausing", "delayed",
                 "recovering"}]
  /\ polls \in [Generation -> 0..MaxRevision] /\ controller \in 0..MaxGeneration
  /\ refresh \in [cursor : 0..MaxRevision, seen : 0..MaxRevision] \cup {NoRefresh}
  /\ mutation \in [Mutation -> {"idle", "asked", "answered", "waiting", "refreshing"}]
  /\ older \subseteq OlderCall /\ adopted \in 0..MaxRevision /\ failures \in 0..MaxFailures
  /\ committed \in [Mutation -> 0..MaxRevision]

Init ==
  /\ revision = 1 /\ era = 0 /\ count \in 0..MaxEntries
  /\ asked = <<>> /\ answers = <<>>
  /\ view = [phase |-> "loading", cursor |-> 0, seen |-> 0, entries |-> {}, more |-> FALSE]
  /\ mounts = 0 /\ watching = FALSE /\ watchGeneration = 0 /\ disposed = FALSE
  /\ loop = [g \in Generation |-> "none"] /\ polls = [g \in Generation |-> 0]
  /\ controller = 0
  /\ refresh = NoRefresh
  /\ mutation = [k \in Mutation |-> "idle"] /\ older = {}
  /\ failures = 0
  /\ committed = [k \in Mutation |-> 0] /\ adopted = 0
-----------------------------------------------------------------------------
\* The calls of refreshNow: status first, then everything else with the pages;
\* the fault asks for the status last.
StatusLast(minimum) == <<[kind |-> "data", minimum |-> minimum], [kind |-> "status"]>>
StatusFirst(minimum) == <<[kind |-> "status"], [kind |-> "data", minimum |-> minimum]>>

\* A connection without some of its messages.
Without(messages, gone) ==
  LET kept[i \in 0..Len(messages)] ==
        IF i = 0 THEN <<>>
        ELSE IF messages[i] \in gone THEN kept[i - 1]
        ELSE Append(kept[i - 1], messages[i])
  IN  kept[Len(messages)]
OfKind(messages, kinds) == {m \in Range(messages) : m.kind \in kinds}

Reads == {"status", "data", "pages"}
Others(messages) == Without(messages, OfKind(messages, Reads))

StartRefresh(shown) ==
  /\ refresh' = [cursor |-> 0, seen |-> 0]
  /\ asked' = Others(asked) \o StatusFirst(Cardinality(shown.entries))

\* refresh: whoever comes while one is in flight shares it.
JoinRefresh ==
  IF refresh = NoRefresh THEN StartRefresh(view) ELSE UNCHANGED <<refresh, asked>>

IsWatching(g) == watching /\ watchGeneration = g

\* The head of the watch loop: poll from the snapshot's cursor, or try to get one.
LoopTop(g, shown) ==
  IF ~IsWatching(g) THEN "none" ELSE IF shown.cursor = 0 THEN "delayed" ELSE "polling"

\* What follows a changed view; a model catalog that was loaded for the settings
\* page is loaded again first.
AfterChange(g, shown) == IF shown.phase = "error" THEN "pausing" ELSE LoopTop(g, shown)

\* Loops go on; one that polls anew owns the controller from now on.
Advance(next, shown) ==
  LET polling == {g \in Generation : next[g] = "polling" /\ loop[g] # "polling"} IN
  /\ loop' = next
  /\ polls' = [g \in Generation |->
                 IF g \in polling THEN shown.cursor
                 ELSE IF next[g] \in {"polling", "aborted"} THEN polls[g] ELSE 0]
  /\ controller' = IF polling = {} THEN controller
                   ELSE CHOOSE g \in polling : TRUE

\* A refresh has ended, well or not: everyone who awaited it goes on, and those
\* who only waited for it to end share a new one.
EndRefresh(shown) ==
  /\ view' = shown
  /\ mutation' = [k \in Mutation |->
                    CASE mutation[k] = "refreshing" -> "idle"
                      [] mutation[k] = "waiting" -> "refreshing"
                      [] OTHER -> mutation[k]]
  /\ committed' = [k \in Mutation |-> IF mutation[k] = "refreshing" THEN 0 ELSE committed[k]]
  /\ IF \E k \in Mutation : mutation[k] = "waiting"
     THEN StartRefresh(shown)
     ELSE refresh' = NoRefresh /\ asked' = Others(asked)
  /\ \E reloads \in BOOLEAN :
       Advance([g \in Generation |->
                  CASE loop[g] \in {"starting", "recovering"} -> LoopTop(g, shown)
                    [] loop[g] = "refreshing" ->
                         IF reloads THEN "loading" ELSE AfterChange(g, shown)
                    [] OTHER -> loop[g]], shown)

Failing(shown) == [shown EXCEPT !.phase = "error"]
MayFail == failures < MaxFailures
-----------------------------------------------------------------------------
\* mount and its disposer, and dispose of the whole store.
Mount ==
  /\ ~disposed /\ mounts < MaxMounts /\ watchGeneration < MaxGeneration
  /\ mounts' = mounts + 1
  /\ IF mounts = 0
     THEN /\ watching' = TRUE /\ watchGeneration' = watchGeneration + 1
          /\ loop' = [loop EXCEPT ![watchGeneration'] = "starting"]
          /\ JoinRefresh
     ELSE UNCHANGED <<watching, watchGeneration, loop, refresh, asked>>
  /\ UNCHANGED <<hostVars, answers, polls, view, disposed, controller,
                 mutation, older, failures, historyVars>>

\* Abort the poll that watchController belongs to; the fault forgets it.
AbortNothing == UNCHANGED loop
AbortPoll ==
  loop' = [g \in Generation |-> IF g = controller /\ loop[g] = "polling"
                                THEN "aborted" ELSE loop[g]]

\* The fault takes every call of a disposer for the first.
UnmountAgain ==
  /\ ~watching /\ mounts' = mounts - 1
  /\ UNCHANGED <<hostVars, asked, answers, polls, view, watching, watchGeneration,
                 loop, disposed, controller, refresh, mutation, older, failures,
                 historyVars>>

Unmount ==
  /\ mounts > 0 /\ watchGeneration < MaxGeneration
  /\ mounts' = mounts - 1
  /\ IF mounts = 1
     THEN watching' = FALSE /\ watchGeneration' = watchGeneration + 1 /\ AbortPoll
     ELSE UNCHANGED <<watching, watchGeneration, loop>>
  /\ UNCHANGED <<hostVars, asked, answers, polls, view, disposed, controller,
                 refresh, mutation, older, failures, historyVars>>

Dispose ==
  /\ ~disposed /\ watchGeneration < MaxGeneration
  /\ disposed' = TRUE /\ watching' = FALSE
  /\ watchGeneration' = watchGeneration + 1
  /\ AbortPoll
  /\ UNCHANGED <<hostVars, asked, answers, polls, view, mounts, controller,
                 refresh, mutation, older, failures, historyVars>>

\* The button a view shows with an error.
RetryClicked ==
  /\ watching /\ view.phase = "error"
  /\ refresh = NoRefresh
  /\ JoinRefresh
  /\ UNCHANGED <<hostVars, answers, view, mountVars, watchVars, mutation,
                 older, failures, historyVars>>

\* The reload of the model catalog that a loop awaits has ended, well or not.
CatalogSettles(g) ==
  /\ loop[g] = "loading"
  /\ Advance([loop EXCEPT ![g] = AfterChange(g, view)], view)
  /\ UNCHANGED <<hostVars, asked, answers, view, mountVars, refresh, mutation,
                 older, failures, historyVars>>
-----------------------------------------------------------------------------
\* The host: its own changes, and the reads in the order of the calls.
HostChanges ==
  /\ revision < MaxRevision
  /\ revision' = revision + 1
  /\ count' \in {n \in {count, count + 1} : n <= MaxEntries}
  /\ UNCHANGED <<era, asked, answers, view, mountVars, watchVars, refresh, mutation, older, failures, historyVars>>

PagesFor(call) ==
  IF call.kind = "older"
  THEN [kind |-> "older", page |-> Page(call.before, PageSize), of |-> call.of]
  ELSE [kind |-> call.kind, page |-> ReadPages(call.minimum)]

HostReads ==
  /\ asked # <<>>
  /\ asked' = Tail(asked)
  /\ LET call == Head(asked) IN
     IF call.kind = "status"
     THEN refresh' = [refresh EXCEPT !.cursor = revision] /\ UNCHANGED answers
     ELSE /\ answers' = Append(answers, PagesFor(call))
          /\ refresh' = IF call.kind = "data" THEN [refresh EXCEPT !.seen = revision]
                        ELSE refresh
  /\ UNCHANGED <<hostVars, view, mountVars, watchVars, mutation, older,
                 failures, historyVars>>

Arrives(kind) == answers # <<>> /\ Head(answers).kind = kind

\* Pages that are fewer than what loadOlder has appended meanwhile are read again.
TooFew(page) == page.more /\ Cardinality(page.entries) < Cardinality(view.entries)

\* The view takes over the pages it read; the fault keeps what it had as well.
MergedEntries(page) == page.entries \cup view.entries
ReadEntries(page) == page.entries

\* refreshNow, when one of its answers arrives.
ReadArrives ==
  /\ Arrives("data") \/ Arrives("pages")
  /\ refresh.cursor # 0
  /\ answers' = Tail(answers)
  /\ LET page == Head(answers).page IN
     IF TooFew(page)
     THEN /\ asked' = Append(asked, [kind |-> "pages", minimum |-> Cardinality(view.entries)])
          /\ UNCHANGED <<view, watchVars, refresh, mutation, historyVars>>
     ELSE /\ EndRefresh([phase |-> "ready", cursor |-> refresh.cursor, seen |-> refresh.seen,
                         entries |-> ReadEntries(page), more |-> page.more])
          /\ UNCHANGED adopted
  /\ UNCHANGED <<hostVars, mountVars, older, failures>>

\* One of its calls fails; the answers to the others are ignored.
RefreshFails ==
  /\ refresh # NoRefresh /\ MayFail
  /\ failures' = failures + 1
  /\ answers' = Others(answers)
  /\ EndRefresh(Failing(view))
  /\ UNCHANGED <<hostVars, mountVars, older, adopted>>

\* loadOlder: a page below the oldest entry the view had when it was asked.
\* Nothing keeps the reader from asking again meanwhile.
LoadOlder ==
  /\ watching /\ view.more /\ view.entries # {}
  /\ \E c \in OlderCall \ older :
       /\ older' = older \cup {c}
       /\ asked' = Append(asked, [kind |-> "older", before |-> Oldest(view.entries), of |-> c])
  /\ UNCHANGED <<hostVars, answers, view, mountVars, watchVars, refresh,
                 mutation, failures, historyVars>>

OlderArrives ==
  /\ Arrives("older")
  /\ answers' = Tail(answers) /\ older' = older \ {Head(answers).of}
  /\ LET page == Head(answers).page IN
     view' = [view EXCEPT !.phase = "ready", !.entries = @ \cup page.entries,
                          !.more = page.more]
  /\ UNCHANGED <<hostVars, asked, mountVars, watchVars, refresh,
                 mutation, failures, historyVars>>

OlderFails ==
  /\ MayFail /\ failures' = failures + 1
  /\ \E c \in older :
       LET gone(messages) == {m \in OfKind(messages, {"older"}) : m.of = c} IN
       /\ older' = older \ {c}
       /\ asked' = Without(asked, gone(asked))
       /\ answers' = Without(answers, gone(answers))
  /\ view' = Failing(view)
  /\ UNCHANGED <<hostVars, mountVars, watchVars, refresh, mutation,
                 historyVars>>
-----------------------------------------------------------------------------
\* The mutations. The views disable the one that is pending.
Submit(k) ==
  /\ watching /\ mutation[k] = "idle" /\ revision < MaxRevision
  /\ k = "feedback" => view.entries # {}
  /\ k # "feedback" => view.cursor # 0
  /\ mutation' = [mutation EXCEPT ![k] = "asked"]
  /\ UNCHANGED <<hostVars, asked, answers, view, mountVars, watchVars, refresh, older, failures, historyVars>>

Answer(k, result) ==
  /\ mutation[k] = "asked"
  /\ mutation' = [mutation EXCEPT ![k] = "answered"]
  /\ answers' = Append(answers, [kind |-> "mutation", of |-> k, result |-> result,
                                 cursor |-> revision'])
  /\ UNCHANGED <<asked, view, mountVars, watchVars, refresh, older,
                 failures, adopted>>

\* A feedback or an answer may leave an entry in the thread; a clear empties it.
HostAccepts(k) ==
  /\ revision < MaxRevision
  /\ revision' = revision + 1
  /\ committed' = [committed EXCEPT ![k] = revision']
  /\ IF k = "clear"
     THEN era' = era + 1 /\ count' = 0
     ELSE /\ UNCHANGED era
          /\ count' \in {n \in {count} \cup (IF k = "feedback" THEN {count + 1} ELSE {}) :
                         n <= MaxEntries}
  /\ Answer(k, "ok")

\* Refused; as stale where the host compares a revision the view had shown.
HostRefuses(k, result) ==
  /\ result = "stale" => k \in {"answer", "settings", "clear"}
  /\ UNCHANGED <<hostVars, committed>>
  /\ Answer(k, result)

\* refreshAfterCurrent: a refresh that starts after the one in flight; the
\* fault shares that one.
RefreshSharing(k, shown) ==
  JoinRefresh /\ mutation' = [mutation EXCEPT ![k] = "refreshing"]
RefreshAfterCurrent(k, shown) ==
  IF refresh = NoRefresh
  THEN StartRefresh(shown) /\ mutation' = [mutation EXCEPT ![k] = "refreshing"]
  ELSE UNCHANGED <<refresh, asked>> /\ mutation' = [mutation EXCEPT ![k] = "waiting"]

\* updateConfiguration and clearLearningData take the cursor over with the status.
MutationAnswered ==
  /\ Arrives("mutation")
  /\ answers' = Tail(answers)
  /\ LET a == Head(answers)
         k == a.of
         shown == IF a.result = "ok" /\ k \in {"settings", "clear"}
                  THEN [view EXCEPT !.cursor = a.cursor]
                  ELSE IF k = "feedback" /\ a.result # "ok" THEN Failing(view) ELSE view
     IN
     /\ view' = shown
     /\ adopted' = IF shown.cursor # view.cursor THEN shown.cursor ELSE adopted
     /\ IF a.result = "refused"
        THEN mutation' = [mutation EXCEPT ![k] = "idle"] /\ UNCHANGED <<refresh, asked>>
        ELSE IF k = "feedback"
        THEN RefreshSharing(k, shown)
        ELSE RefreshAfterCurrent(k, shown)
  /\ UNCHANGED <<hostVars, mountVars, watchVars, older, failures, committed>>

\* The call fails, before or after the host took it; nobody repeats it.
MutationFails(k) ==
  /\ mutation[k] \in {"asked", "answered"} /\ MayFail
  /\ failures' = failures + 1
  /\ mutation' = [mutation EXCEPT ![k] = "idle"]
  /\ committed' = [committed EXCEPT ![k] = 0]
  /\ answers' = Without(answers, {a \in OfKind(answers, {"mutation"}) : a.of = k})
  /\ view' = IF k = "feedback" THEN Failing(view) ELSE view
  /\ UNCHANGED <<hostVars, asked, mountVars, watchVars, refresh, older,
                 adopted>>
-----------------------------------------------------------------------------
\* The long poll. The host answers at once when its cursor is another one; the
\* answer to an aborted poll may still come through.
PollChanged(g) ==
  /\ loop[g] \in {"polling", "aborted"} /\ polls[g] # revision
  /\ JoinRefresh
  /\ loop' = [loop EXCEPT ![g] = "refreshing"] /\ polls' = [polls EXCEPT ![g] = 0]
  /\ UNCHANGED <<hostVars, answers, view, mountVars, controller,
                 mutation, older, failures, historyVars>>

\* Nothing has changed for 25 seconds: the loop polls again from what the
\* snapshot says by now.
PollTimesOut(g) ==
  /\ loop[g] = "polling" /\ polls[g] = revision
  /\ polls' = [polls EXCEPT ![g] = view.cursor]
  /\ controller' = g
  /\ UNCHANGED <<hostVars, asked, answers, view, mountVars, loop, refresh,
                 mutation, older, failures, historyVars>>

PollRejected(g) ==
  /\ loop[g] = "aborted"
  /\ loop' = [loop EXCEPT ![g] = "none"] /\ polls' = [polls EXCEPT ![g] = 0]
  /\ UNCHANGED <<hostVars, asked, answers, view, mountVars, controller,
                 refresh, mutation, older, failures, historyVars>>

\* A failed poll is repeated after a while; the fault leaves the loop.
LeaveLoop(g) == loop' = [loop EXCEPT ![g] = "none"]
RetryLater(g) == loop' = [loop EXCEPT ![g] = "delayed"]

PollFails(g) ==
  /\ loop[g] = "polling" /\ MayFail
  /\ failures' = failures + 1
  /\ view' = Failing(view)
  /\ RetryLater(g) /\ polls' = [polls EXCEPT ![g] = 0]
  /\ UNCHANGED <<hostVars, asked, answers, mountVars, controller, refresh, mutation, older, historyVars>>

\* RETRY_MS have passed, after an error shown or without anything to poll from.
DelayEnds(g) ==
  /\ \/ /\ loop[g] = "pausing"
        /\ Advance([loop EXCEPT ![g] = LoopTop(g, view)], view)
        /\ UNCHANGED <<refresh, asked>>
     \/ /\ loop[g] = "delayed"
        /\ IF IsWatching(g)
           THEN JoinRefresh /\ loop' = [loop EXCEPT ![g] = "recovering"]
           ELSE LeaveLoop(g) /\ UNCHANGED <<refresh, asked>>
        /\ UNCHANGED <<polls, controller>>
  /\ UNCHANGED <<hostVars, answers, view, mountVars, mutation, older,
                 failures, historyVars>>
-----------------------------------------------------------------------------
UserStep ==
  \/ Mount \/ Unmount \/ Dispose \/ RetryClicked \/ LoadOlder
  \/ \E k \in Mutation : Submit(k)

FailureStep ==
  \/ RefreshFails \/ OlderFails
  \/ \E k \in Mutation : MutationFails(k)
  \/ \E g \in Generation : PollFails(g)

Progress ==
  \/ HostReads \/ ReadArrives \/ OlderArrives \/ MutationAnswered
  \/ \E k \in Mutation : \/ HostAccepts(k)
                         \/ \E result \in {"stale", "refused"} : HostRefuses(k, result)
  \/ \E g \in Generation : \/ PollChanged(g) \/ PollTimesOut(g) \/ PollRejected(g)
                           \/ DelayEnds(g) \/ CatalogSettles(g)

Next == UserStep \/ FailureStep \/ HostChanges \/ Progress

Spec == Init /\ [][Next]_vars

-----------------------------------------------------------------------------
Watched == mounts > 0 /\ ~disposed

\* All mounted views share one long poll, and no view means none: the poll of
\* an earlier mount has always been aborted.
OneLongPoll ==
  Cardinality({g \in Generation : loop[g] = "polling"}) <= (IF Watched THEN 1 ELSE 0)

\* A mutation that ends with a refresh of its own has its effect on display
\* when it is no longer pending, whatever refresh was in flight before.
SettledIsShown ==
  [][ \A k \in Mutation \ {"feedback"} :
        mutation[k] = "refreshing" /\ mutation'[k] = "idle" /\ view'.phase = "ready"
        => view'.seen >= committed[k] ]_vars

\* What is on display and still in the thread leaves the view only at its far
\* end: at least as many newer entries have taken its place, and asking for older
\* ones brings it back.
NothingSlipsOut ==
  [][ \A e \in (view.entries \cap Thread') \ view'.entries :
        /\ view'.more
        /\ \A f \in view'.entries : e[2] < f[2]
        /\ Cardinality(view'.entries) >= Cardinality(view.entries) ]_vars

\* A view that has seen everything shows no entry of a cleared thread.
NoGhosts == view.seen = revision => view.entries \subseteq Thread

\* Everything the browser asked for has come back, no delay runs, and the long
\* poll would repeat itself: the views stay as they are until the host or the
\* reader does something.
AtRest ==
  /\ asked = <<>> /\ answers = <<>>
  /\ \A k \in Mutation : mutation[k] # "asked"
  /\ \A g \in Generation :
       /\ loop[g] \notin {"aborted", "loading", "pausing", "delayed"}
       /\ loop[g] = "polling" => polls[g] = revision /\ view.cursor = polls[g]

\* A watched view at rest has caught up: its loop polls from the host's cursor,
\* and the data is as new as that, unless the cursor was a mutation's answer.
CaughtUp ==
  Watched /\ AtRest =>
    /\ \E g \in Generation : loop[g] = "polling" /\ polls[g] = revision
    /\ view.seen = revision \/ adopted = revision

\* docs/ARCHITECTURE.md: after a mutation the watch is responsible for
\* converging with the host.
Converged == Watched /\ AtRest => view.seen = revision
=============================================================================
