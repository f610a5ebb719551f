---------------------------- MODULE SourceCapture ----------------------------
(***************************************************************************)
(* Source observation: src/src/observer.ts and its two callers in          *)
(* src/src/index.ts. A session's history only grows; the host hands it out *)
(* backwards, a page at a time, below a cursor and up to a cut. A turn     *)
(* that ends while learning is on is captured beside those captured        *)
(* already; a command looks for the latest turn, for one turn, or for the  *)
(* turn its selection is from. The runtime's generation may move on at any *)
(* moment. The queue and the model are left out: see CandidateQueue.       *)
(***************************************************************************)
EXTENDS Naturals, FiniteSets, FiniteSetsExt, SequencesExt

CONSTANTS Session, Command,
          Scripts,    \* histories: sequences of events
          PageSize,   \* records of a page at most
          Texts,      \* what a user may select
          LoadedOn,   \* whether learning may be on when the plugin is loaded
          MaxEpoch, None

Event == [type : {"start", "step", "user", "context", "say", "chunk", "end"},
          turn : Nat, text : STRING]
ASSUME ScriptAssumption == Scripts \subseteq Seq(Event)
ASSUME BoundAssumption == PageSize \in Nat \ {0} /\ MaxEpoch \in Nat
ASSUME NoneAssumption == None \notin Nat
ASSUME LoadedAssumption == LoadedOn \subseteq BOOLEAN
\* The capture of a command is never taken for that of a turn's end.
ASSUME CommandAssumption == Command \cap (Session \X Nat) = {}

VARIABLES script,   \* script[s]: what will happen in s
          seq,      \* seq[s]: how much of it has happened
          stalls,   \* whether the host's pages stop going lower
          enabled, epoch, failed, resetting, stopped,
          seen,     \* seen[s]: the last end of a turn that was admitted
          reads,    \* the captures under way
          answer,   \* answer[c]: what became of the command c
          pending,  \* pending[s]: the candidate of s, with its generation
          swept,    \* history: the generation of the last disabling or reset
          pushed    \* history: pushed[s]: the ends that have been queued

hostVars == <<script, seq, stalls>>
runtimeVars == <<enabled, epoch, failed, resetting, stopped, swept>>
queueVars == <<pending, pushed>>
vars == <<hostVars, runtimeVars, queueVars, seen, reads, answer>>

EventAt(s, n) == script[s][n + 1]
Kind(s, n) == EventAt(s, n).type
Turn(s, n) == EventAt(s, n).turn

Init ==
  /\ script \in [Session -> Scripts] /\ seq = [s \in Session |-> 0]
  /\ stalls \in BOOLEAN
  /\ enabled \in LoadedOn /\ epoch = 0 /\ failed = FALSE
  /\ resetting = FALSE /\ stopped = FALSE /\ swept = 0
  /\ seen = [s \in Session |-> None]
  /\ reads = {} /\ answer = [c \in Command |-> "none"]
  /\ pending = [s \in Session |-> None] /\ pushed = [s \in Session |-> <<>>]

-----------------------------------------------------------------------------
\* eventsBefore: a reader yields its buffer, then turns to the page below its
\* cursor while there is more.
Reader(n) == [cursor |-> n, more |-> n > 0, buffer |-> <<>>]
Turns(r) == r.buffer = <<>> /\ r.more

\* The host's pages: records low..high. Some reach above the cursor; one that
\* says there is more without going lower has stalled. The fault does not ask.
Pages(r, cut) ==
  {p \in [low : 0..r.cursor, high : {r.cursor - 1, r.cursor} \cap 0..cut - 1] :
     /\ p.high < p.low + PageSize
     /\ stalls <=> p.low = r.cursor}
NeverStalled(r, p) == FALSE
Stalled(r, p) == p.low >= r.cursor

\* Those of the records that are in S, in their order.
Those(records, S) ==
  LET kept[i \in 0..Len(records)] ==
        IF i = 0 THEN <<>>
        ELSE IF records[i] \in S THEN Append(kept[i - 1], records[i])
        ELSE kept[i - 1]
  IN  kept[Len(records)]

\* Records above the cursor have been seen, and packed chunks are no events.
\* The faults: to keep those above it; to go on one below the page.
Records(low, high) == [i \in 1..high + 1 - low |-> low + i - 1]
Settled(s, low, high) == {n \in low..high : Kind(s, n) # "chunk"}
EventsAgain(s, r, p) ==
  Those(Records(p.low, p.high), Settled(s, p.low, p.high))
Events(s, r, p) ==
  Those(Records(p.low, p.high), {n \in Settled(s, p.low, p.high) : n < r.cursor})
OneBelow(p) == IF p.low = 0 THEN 0 ELSE p.low - 1
Below(p) == p.low
Turned(s, r, p) ==
  [cursor |-> Below(p), more |-> Below(p) > 0,
   buffer |-> Reverse(Events(s, r, p))]

-----------------------------------------------------------------------------
\* What a capture makes of the events it has collected, first to last: a turn
\* with a step and with text of the assistant.
Capsule(s, slice, end) ==
  LET of(kind) == {n \in ToSet(slice) :
                     Kind(s, n) = kind /\ Turn(s, n) = Turn(s, end)}
  IN  IF of("step") = {} \/ \A n \in of("say") : EventAt(s, n).text = ""
      THEN None
      ELSE [turn |-> Turn(s, end), end |-> end, slice |-> slice]

Reason(s, end) == EventAt(s, end).text
Automatic == {"completed"}
Explicit == {"completed", "max-tokens"}

\* A capture under way. It collects the turn that ends at "end"; looking for
\* one, it reads "outer" in a mode.
Capture(id, s, mode, want, end, cut) ==
  [id |-> id, session |-> s, generation |-> epoch, asked |-> <<mode, want>>,
   mode |-> mode, want |-> want, outer |-> Reader(cut), end |-> end,
   inner |-> Reader(0), got |-> <<>>, cut |-> cut, status |-> "reading",
   capsule |-> None]

Resolved(j, capsule) == [j EXCEPT !.status = "resolved", !.capsule = capsule]
Collecting(j) == j.end # None

\* It found the end of a turn: it collects the turn. The fault starts above it.
CollectFromAbove(j, end) ==
  [j EXCEPT !.end = end, !.inner = Reader(end + 2), !.got = <<>>]
Collect(j, end) ==
  [j EXCEPT !.end = end, !.inner = Reader(end + 1), !.got = <<>>]

\* What was collected comes to nothing, or is it: who looks for the latest
\* turn, or for the one before a message, looks further.
Collected(j, capsule) ==
  IF capsule = None /\ j.mode \in {"latest", "before"}
  THEN [j EXCEPT !.end = None]
  ELSE Resolved(j, capsule)

Becomes(j, next) == reads' = (reads \ {j}) \cup {next}

-----------------------------------------------------------------------------
\* session/event. The end of a turn is admitted once; its capture is a
\* microtask. The fault admits it again.
AdmitsAgain(s, n) == enabled
Admits(s, n) == enabled /\ (seen[s] = None \/ seen[s] < n)

Dispatch(s, n) ==
  IF Kind(s, n) = "end" /\ Admits(s, n)
  THEN /\ seen' = [seen EXCEPT ![s] = n]
       /\ reads' = reads \cup
            {[Capture(<<s, n>>, s, "end", None, n, 0) EXCEPT !.status = "queued"]}
  ELSE UNCHANGED <<seen, reads>>

Happens(s) ==
  /\ seq[s] < Len(script[s]) /\ ~stopped
  /\ seq' = [seq EXCEPT ![s] = @ + 1]
  /\ Dispatch(s, seq[s])
  /\ UNCHANGED <<script, stalls, runtimeVars, queueVars, answer>>

\* The host tells an event again.
Redispatch(s) ==
  /\ ~stopped /\ \E n \in 0..seq[s] - 1 : Kind(s, n) = "end" /\ Dispatch(s, n)
  /\ reads' # reads
  /\ UNCHANGED <<hostVars, runtimeVars, queueVars, answer>>

Accepting == enabled /\ ~failed /\ ~stopped /\ ~resetting
Accepts(generation) == generation = epoch /\ Accepting

\* The microtask: observeSession fixes the cut, captureSourceCapsule the reason.
Begin(j) ==
  /\ j.status = "queued"
  /\ IF ~Accepts(j.generation) THEN reads' = reads \ {j}
     ELSE IF Reason(j.session, j.end) \notin Automatic
     THEN Becomes(j, Resolved(j, None))
     ELSE Becomes(j, Collect([j EXCEPT !.cut = seq[j.session],
                                       !.status = "reading"], j.end))
  /\ UNCHANGED <<hostVars, runtimeVars, queueVars, seen, answer>>

\* /explain, from a session, with nothing, with the number of a turn, or with a
\* selection.
Ask(c) ==
  /\ answer[c] = "none" /\ ~stopped
  /\ \E s \in Session :
       /\ \/ reads' = reads \cup {Capture(c, s, "latest", None, None, seq[s])}
          \/ \E t \in {Turn(s, n) : n \in 0..seq[s] - 1} :
               reads' = reads \cup {Capture(c, s, "turn", t, None, seq[s])}
          \/ \E x \in Texts :
               reads' = reads \cup {Capture(c, s, "search", x, None, seq[s])}
  /\ answer' = [answer EXCEPT ![c] = "reading"]
  /\ UNCHANGED <<hostVars, runtimeVars, queueVars, seen>>

-----------------------------------------------------------------------------
\* captureEligibleSourceCapsule: it collects back to the start of the turn.
Collects(j, r) ==
  LET s == j.session
      starts == {i \in DOMAIN r.buffer : Kind(s, r.buffer[i]) = "start"
                                         /\ Turn(s, r.buffer[i]) = Turn(s, j.end)}
      upto == IF starts = {} THEN Len(r.buffer) ELSE Min(starts)
      got == Reverse(SubSeq(r.buffer, 1, upto)) \o j.got
  IN  IF starts # {} THEN Collected(j, Capsule(s, got, j.end))
      ELSE IF ~r.more THEN Collected(j, None)
      ELSE [j EXCEPT !.got = got, !.inner = [r EXCEPT !.buffer = <<>>]]

\* The next page of the reader that is being read; a stalled page is an error,
\* and so is any page once the plugin is being unloaded.
Reading(j) == IF Collecting(j) THEN j.inner ELSE j.outer
Failed(j) ==
  /\ reads' = reads \ {j}
  /\ answer' = IF j.id \in Command THEN [answer EXCEPT ![j.id] = "failed"]
               ELSE answer
Fetch(j) ==
  /\ j.status = "reading" /\ Turns(Reading(j))
  /\ \E p \in Pages(Reading(j), j.cut) :
       IF Stalled(Reading(j), p) \/ (stopped /\ j.id \notin Command)
       THEN Failed(j)
       ELSE \E next \in {Turned(j.session, Reading(j), p)} :
            /\ Becomes(j, IF Collecting(j) THEN Collects(j, next)
                          ELSE [j EXCEPT !.outer = next])
            /\ UNCHANGED answer
  /\ UNCHANGED <<hostVars, runtimeVars, queueVars, seen>>

\* The command's signal is aborted.
Abort(j) ==
  /\ j.id \in Command /\ j.status = "reading" /\ Turns(Reading(j)) /\ Failed(j)
  /\ UNCHANGED <<hostVars, runtimeVars, queueVars, seen>>

\* latestSourceCapsule, previousSourceCapsule, sourceCapsuleForTurn and
\* selectionSourceCapsule: what each looks for, and what it does about it.
Matches(s, n, x) ==
  Kind(s, n) \in {"user", "context", "say"} /\ EventAt(s, n).text = x
Reasons(mode) == IF mode = "latest" THEN Automatic ELSE Explicit
Wanted(j, n) ==
  LET s == j.session IN
  CASE j.mode \in {"latest", "before"} ->
         Kind(s, n) = "end" /\ Reason(s, n) \in Reasons(j.mode)
    [] j.mode = "turn" -> Kind(s, n) = "end" /\ Turn(s, n) = j.want
    [] j.mode = "search" -> Matches(s, n, j.want)
Found(j, n) ==
  LET s == j.session IN
  CASE j.mode \in {"latest", "before"} -> Collect(j, n)
    [] j.mode = "turn" ->
         IF Reason(s, n) \in Explicit THEN Collect(j, n) ELSE Resolved(j, None)
    [] j.mode = "search" ->
         IF Kind(s, n) = "say"
         THEN [j EXCEPT !.mode = "turn", !.want = Turn(s, n),
                        !.outer = Reader(j.cut)]
         ELSE [j EXCEPT !.mode = "before", !.outer = Reader(n)]

Look(j) ==
  LET b == j.outer.buffer
      hits == {i \in DOMAIN b : Wanted(j, b[i])}
      after(i) == [j EXCEPT !.outer.buffer = SubSeq(b, i + 1, Len(b))] IN
  /\ j.status = "reading" /\ ~Collecting(j) /\ ~Turns(j.outer)
  /\ Becomes(j, IF hits # {} THEN Found(after(Min(hits)), b[Min(hits)])
                ELSE IF j.outer.more THEN after(Len(b))
                ELSE Resolved(j, None))
  /\ UNCHANGED <<hostVars, runtimeVars, queueVars, seen, answer>>

\* The capture of a turn has ended: it is queued if the generation is still its
\* own. The fault asks only before the capture.
QueuesAlways(j) == enabled
Queues(j) == Accepts(j.generation)
Push(j) ==
  /\ j.status = "resolved" /\ j.mode = "end" /\ reads' = reads \ {j}
  /\ IF j.capsule # None /\ Queues(j)
     THEN /\ pending' = [pending EXCEPT ![j.session] =
                           [end |-> j.end, generation |-> j.generation]]
          /\ pushed' = [pushed EXCEPT ![j.session] = Append(@, j.end)]
     ELSE UNCHANGED queueVars
  /\ UNCHANGED <<hostVars, runtimeVars, seen, answer>>

\* The command has its target. Only a turn that is asked for by number may not
\* be missing.
Request(j) ==
  /\ j.status = "resolved" /\ j.mode # "end" /\ reads' = reads \ {j}
  /\ answer' = [answer EXCEPT ![j.id] =
       IF j.asked[1] = "turn" /\ j.capsule = None THEN "unavailable"
       ELSE IF j.generation # epoch THEN "cancelled"
       ELSE IF ~enabled THEN "disabled"
       ELSE IF ~Accepting THEN "refused" ELSE "requested"]
  /\ UNCHANGED <<hostVars, runtimeVars, queueVars, seen>>

-----------------------------------------------------------------------------
\* The scheduler. Every change moves the generation on; disabling and a reset
\* sweep the queue, and so does another maxSourceChars.
Moves == epoch < MaxEpoch /\ epoch' = epoch + 1
Clears == pending' = [s \in Session |-> None]

Disable ==
  /\ enabled /\ Moves /\ Clears
  /\ enabled' = FALSE /\ failed' = FALSE /\ swept' = epoch'
  /\ UNCHANGED resetting
Enable ==
  /\ ~enabled /\ Moves /\ enabled' = TRUE
  /\ UNCHANGED <<failed, resetting, swept, pending>>
Change ==
  /\ enabled /\ Moves /\ (Clears \/ UNCHANGED pending)
  /\ UNCHANGED <<enabled, failed, resetting, swept>>
Fail ==
  /\ ~failed /\ failed' = TRUE
  /\ UNCHANGED <<enabled, epoch, resetting, swept, pending>>
Recover ==
  /\ failed /\ enabled /\ failed' = FALSE
  /\ UNCHANGED <<enabled, epoch, resetting, swept, pending>>

\* resetLearningData, which waits for the drain in between.
ResetBegins ==
  /\ ~resetting /\ Moves /\ Clears /\ resetting' = TRUE /\ swept' = epoch'
  /\ UNCHANGED <<enabled, failed>>
ResetEnds ==
  /\ resetting /\ Clears /\ resetting' = FALSE
  /\ UNCHANGED <<enabled, epoch, failed, swept>>

Take(s) ==
  /\ Accepting /\ pending[s] # None /\ pending' = [pending EXCEPT ![s] = None]
  /\ UNCHANGED <<enabled, epoch, failed, resetting, swept>>
Schedule ==
  /\ ~stopped
  /\ \/ Disable \/ Enable \/ Change \/ Fail \/ Recover
     \/ ResetBegins \/ ResetEnds \/ \E s \in Session : Take(s)
  /\ UNCHANGED <<hostVars, stopped, seen, reads, answer, pushed>>

\* The plugin is unloaded.
Stop ==
  /\ ~stopped /\ stopped' = TRUE /\ epoch' = epoch + 1
  /\ UNCHANGED <<hostVars, enabled, failed, resetting, swept, queueVars, seen,
                 reads, answer>>

-----------------------------------------------------------------------------
Sessions == \E s \in Session : Happens(s) \/ Redispatch(s)
Serve(j) == Begin(j) \/ Fetch(j) \/ Look(j) \/ Push(j) \/ Request(j)
Captures == \E j \in reads : Serve(j)

Next ==
  \/ Sessions \/ Captures \/ Schedule \/ Stop
  \/ \E c \in Command : Ask(c)
  \/ \E j \in reads : Abort(j)
Spec == Init /\ [][Next]_vars

\* Pages arrive, and a capture that is under way goes on.
FairSpec == Spec /\ WF_vars(Captures)

-----------------------------------------------------------------------------
TypeOK ==
  /\ script \in [Session -> Scripts] /\ stalls \in BOOLEAN
  /\ \A s \in Session : seq[s] \in 0..Len(script[s])
  /\ enabled \in BOOLEAN /\ failed \in BOOLEAN /\ resetting \in BOOLEAN
  /\ stopped \in BOOLEAN
  /\ epoch \in 0..MaxEpoch + 1 /\ swept \in 0..epoch
  /\ \A s \in Session :
       /\ seen[s] = None \/ seen[s] \in 0..seq[s] - 1
       /\ pushed[s] \in Seq(0..seq[s] - 1)
       /\ pending[s] = None
          \/ pending[s] \in [end : 0..seq[s] - 1, generation : 0..epoch]
  /\ answer \in [Command -> {"none", "reading", "failed", "unavailable",
                             "cancelled", "disabled", "refused",
                             "requested"}]
  /\ \A j \in reads :
       /\ j.session \in Session /\ j.generation \in 0..epoch
       /\ j.status \in {"queued", "reading", "resolved"}
       /\ j.cut \in 0..seq[j.session]
       /\ \A r \in {j.outer, j.inner} :
            r.cursor <= j.cut /\ ToSet(r.buffer) \subseteq r.cursor..j.cut - 1
       /\ (j.id \in Command => answer[j.id] = "reading")

\* The turn that ends at "end", in the order it happened; what a capture of it
\* makes of it; and what a search below "cut" should find.
Starts(s, end) ==
  {n \in 0..end : Kind(s, n) = "start" /\ Turn(s, n) = Turn(s, end)}
Slice(s, end) ==
  LET start == Max(Starts(s, end)) IN
  Those(Records(start, end), Settled(s, start, end))
Captured(s, end) ==
  IF Starts(s, end) = {} THEN None ELSE Capsule(s, Slice(s, end), end)

Latest(S, Made(_)) == IF S = {} THEN None ELSE Made(Max(S))
LastEnd(s, cut, reasons) ==
  Latest({n \in 0..cut - 1 : Kind(s, n) = "end" /\ Reason(s, n) \in reasons
                           /\ Captured(s, n) # None},
       LAMBDA n : Captured(s, n))
EndOf(s, cut, turn) ==
  Latest({n \in 0..cut - 1 : Kind(s, n) = "end" /\ Turn(s, n) = turn},
       LAMBDA n : IF Reason(s, n) \in Explicit THEN Captured(s, n) ELSE None)
Selected(s, cut, x) ==
  Latest({n \in 0..cut - 1 : Matches(s, n, x)},
       LAMBDA n : IF Kind(s, n) = "say" THEN EndOf(s, cut, Turn(s, n))
                  ELSE LastEnd(s, n, Explicit))

\* A capture holds the whole turn once, in order, whatever the pages and whatever
\* has happened in the session meanwhile (observer.ts:29-42, 67-84).
WholeTurn ==
  \A j \in reads : j.status = "resolved" /\ j.capsule # None =>
    j.capsule.slice = Slice(j.session, j.capsule.end)

\* A search finds what was there to find when it was asked for: it neither skips
\* a turn at the edge of a page nor sees one that came later (observer.ts:206-267).
ReadsOneCut ==
  \A j \in reads : j.status = "resolved" /\ j.mode # "end" =>
    j.capsule = CASE j.asked[1] = "latest" -> LastEnd(j.session, j.cut, Automatic)
                  [] j.asked[1] = "turn" -> EndOf(j.session, j.cut, j.asked[2])
                  [] j.asked[1] = "search" ->
                       Selected(j.session, j.cut, j.asked[2])

\* No candidate outlives the disabling or the reset it was captured across: it
\* would be work from before (index.ts:73-82).
NothingFromBefore ==
  \A s \in Session : pending[s] # None => pending[s].generation >= swept

\* A turn is queued once, however often its end is told (index.ts:69-70).
QueuedOnce ==
  \A s \in Session : \A i, k \in DOMAIN pushed[s] :
    pushed[s][i] = pushed[s][k] => i = k

\* Every capture comes to an end: also of a host that stalls (observer.ts:33).
CapturesEnd == (reads # {}) ~> (reads = {})
CommandsAnswered ==
  \A c \in Command : (answer[c] = "reading") ~> (answer[c] # "reading")

\* Latest wins: a candidate never replaces, or follows, one of a later turn
\* (queue.ts:12, ARCHITECTURE.md's queue rules).
LatestWins ==
  \A s \in Session : \A i, k \in DOMAIN pushed[s] :
    i < k => pushed[s][i] < pushed[s][k]
=============================================================================
