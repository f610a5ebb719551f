------------------------- MODULE LearningStoreProofs -------------------------
(***************************************************************************)
(* Proofs about LearningStore, for any mutations, sizes of a page and       *)
(* bounds. First what Without does to a connection, then the types, then    *)
(* one invariant for each of: the reads, the answers, how old the pages     *)
(* are, what they cover, the mutations that wait, the long poll, what a     *)
(* refresh brings and who goes on, and how new the view is.                 *)
(***************************************************************************)
EXTENDS LearningStore, SequenceTheorems, FiniteSetTheorems, TLAPS

-----------------------------------------------------------------------------
(* Taking messages off a connection.                                        *)

\* A set of numbers with zero and with every successor has them all.
LEMMA Induction ==
  ASSUME NEW S, 0 \in S, \A n \in Nat : n \in S => n + 1 \in S
  PROVE  Nat \subseteq S
<1> SUFFICES ASSUME Nat \ S # {} PROVE FALSE
  OBVIOUS
<1> DEFINE D == Nat \ S
<1>1. D \subseteq Nat /\ D # {}
  OBVIOUS
<1> HIDE DEF D
<1>2. PICK n \in D : \A m \in D : ~ (<<m, n>> \in OpToRel(<, Nat))
  BY <1>1, WFMin, NatLessThanWellFounded
<1>3. \A m \in D : ~(m < n)
  BY <1>1, <1>2 DEF OpToRel
<1>4. n \in Nat /\ n \notin S
  BY <1>2 DEF D
<1>5. n # 0 /\ n - 1 \in Nat /\ n - 1 < n /\ (n - 1) + 1 = n
  BY <1>4
<1>6. n - 1 \in S
  BY <1>3, <1>5 DEF D
<1> QED
  BY <1>4, <1>5, <1>6

\* What Without keeps of the first i messages, given what it keeps of fewer.
Kept(line, gone, i, kept) ==
  IF i = 0 THEN <<>>
  ELSE IF line[i] \in gone THEN kept[i - 1]
  ELSE Append(kept[i - 1], line[i])

\* The recursion of Without defines a function.
LEMMA KeptExists ==
  ASSUME NEW T, NEW line \in Seq(T), NEW gone
  PROVE  \E kept : kept = [i \in 0..Len(line) |-> Kept(line, gone, i, kept)]
<1> DEFINE S == {n \in Nat : \E kept : kept = [i \in 0..n |-> Kept(line, gone, i, kept)]}
<1>1. 0 \in S
  <2> DEFINE kept == [i \in 0..0 |-> <<>>]
  <2>1. kept = [i \in 0..0 |-> Kept(line, gone, i, kept)]
    BY DEF Kept
  <2> QED
    BY <2>1
<1>2. ASSUME NEW n \in Nat, n \in S
      PROVE  n + 1 \in S
  <2>1. PICK kept : kept = [i \in 0..n |-> Kept(line, gone, i, kept)]
    BY <1>2
  <2> DEFINE more == [i \in 0..(n + 1) |->
                        IF i = n + 1 THEN Kept(line, gone, i, kept) ELSE kept[i]]
  <2>2. ASSUME NEW i \in 0..(n + 1)
        PROVE  more[i] = Kept(line, gone, i, more)
    <3>1. i # 0 => i - 1 \in 0..n /\ more[i - 1] = kept[i - 1]
      OBVIOUS
    <3>2. i # n + 1 => i \in 0..n
      OBVIOUS
    <3>3. Kept(line, gone, i, more) = Kept(line, gone, i, kept)
      BY <3>1 DEF Kept
    <3> QED
      BY <2>1, <3>2, <3>3
  <2>3. more = [i \in 0..(n + 1) |-> Kept(line, gone, i, more)]
    BY <2>2
  <2> HIDE DEF more
  <2>4. \E k : k = [i \in 0..(n + 1) |-> Kept(line, gone, i, k)]
    BY <2>3
  <2> QED
    BY <2>4
<1> HIDE DEF S
<1>3. Len(line) \in S
  BY <1>1, <1>2, Induction
<1> QED
  BY <1>3 DEF S

\* s consists of those of the first n messages that are not gone, in order;
\* at[i] is where the i-th of them was.
Keeps(s, line, n, gone, at) ==
  /\ at \in [1..Len(s) -> 1..n]
  /\ \A i \in 1..Len(s) : s[i] = line[at[i]] /\ line[at[i]] \notin gone
  /\ \A i, j \in 1..Len(s) : i < j => at[i] < at[j]
  /\ \A m \in 1..n : line[m] \notin gone => \E i \in 1..Len(s) : at[i] = m

\* Without keeps the messages that are not gone, in order.
LEMMA WithoutKeeps ==
  ASSUME NEW T, NEW line \in Seq(T), NEW gone
  PROVE  /\ Without(line, gone) \in Seq(T)
         /\ \E at : Keeps(Without(line, gone), line, Len(line), gone, at)
<1> DEFINE kept == CHOOSE k : k = [i \in 0..Len(line) |-> Kept(line, gone, i, k)]
<1>1. kept = [i \in 0..Len(line) |-> Kept(line, gone, i, kept)]
  BY KeptExists
<1>2. Without(line, gone) = kept[Len(line)]
  BY DEF Without, Kept
<1> HIDE DEF kept
<1>3. kept[0] = <<>>
  BY <1>1 DEF Kept
<1>4. \A n \in 1..Len(line) :
        kept[n] = IF line[n] \in gone THEN kept[n - 1] ELSE Append(kept[n - 1], line[n])
  <2> SUFFICES ASSUME NEW n \in 1..Len(line)
               PROVE  kept[n] = IF line[n] \in gone THEN kept[n - 1]
                                ELSE Append(kept[n - 1], line[n])
    OBVIOUS
  <2>1. n \in 0..Len(line) /\ n # 0
    BY LenProperties
  <2>2. kept[n] = Kept(line, gone, n, kept)
    BY <1>1, <2>1
  <2> QED
    BY <2>1, <2>2 DEF Kept
<1> DEFINE S == {n \in Nat : n <= Len(line) =>
                   kept[n] \in Seq(T) /\ \E at : Keeps(kept[n], line, n, gone, at)}
<1>5. 0 \in S
  <2>1. kept[0] \in Seq(T) /\ Len(kept[0]) = 0
    BY <1>3, EmptySeq
  <2>2. Keeps(kept[0], line, 0, gone, <<>>)
    BY <2>1 DEF Keeps
  <2> QED
    BY <2>1, <2>2
<1>6. ASSUME NEW n \in Nat, n \in S
      PROVE  n + 1 \in S
  <2> SUFFICES ASSUME n + 1 <= Len(line)
               PROVE  kept[n + 1] \in Seq(T)
                      /\ \E at : Keeps(kept[n + 1], line, n + 1, gone, at)
    OBVIOUS
  <2>1. n + 1 \in 1..Len(line) /\ (n + 1) - 1 = n
    BY LenProperties
  <2>2. kept[n] \in Seq(T) /\ line[n + 1] \in T
    BY <1>6, <2>1, ElementOfSeq
  <2>3. PICK at : Keeps(kept[n], line, n, gone, at)
    BY <1>6, <2>1
  <2>4. Len(kept[n]) \in Nat
    BY <2>2, LenProperties
  <2>5. CASE line[n + 1] \in gone
    <3>1. kept[n + 1] = kept[n]
      BY <1>4, <2>1, <2>5
    <3>2. Keeps(kept[n], line, n + 1, gone, at)
      BY <2>3, <2>4, <2>5 DEF Keeps
    <3> QED
      BY <2>2, <3>1, <3>2
  <2>6. CASE line[n + 1] \notin gone
    <3> DEFINE s == kept[n]
               l == Len(kept[n])
               new == [i \in 1..(l + 1) |-> IF i = l + 1 THEN n + 1 ELSE at[i]]
    <3>1. kept[n + 1] = Append(s, line[n + 1])
      BY <1>4, <2>1, <2>6
    <3>2. /\ Append(s, line[n + 1]) \in Seq(T) /\ Len(Append(s, line[n + 1])) = l + 1
          /\ \A i \in 1..l : Append(s, line[n + 1])[i] = s[i]
          /\ Append(s, line[n + 1])[l + 1] = line[n + 1]
      BY <2>2, AppendProperties
    <3>3. \A i \in 1..l : at[i] \in 1..n
      BY <2>3 DEF Keeps
    <3>4. Keeps(Append(s, line[n + 1]), line, n + 1, gone, new)
      <4>1. new \in [1..(l + 1) -> 1..(n + 1)]
        BY <2>4, <3>3
      <4>2. \A i \in 1..(l + 1) : /\ Append(s, line[n + 1])[i] = line[new[i]]
                                  /\ line[new[i]] \notin gone
        BY <2>3, <2>4, <2>6, <3>2 DEF Keeps
      <4>3. ASSUME NEW i \in 1..(l + 1), NEW j \in 1..(l + 1), i < j
            PROVE  new[i] < new[j]
        <5>1. i \in 1..l /\ new[i] = at[i] /\ at[i] \in 1..n
          BY <2>4, <3>3, <4>3
        <5>2. CASE j = l + 1
          BY <5>1, <5>2
        <5>3. CASE j # l + 1
          <6>1. j \in 1..l
            BY <2>4, <5>3
          <6> QED
            BY <2>3, <4>3, <5>1, <5>3, <6>1 DEF Keeps
        <5> QED
          BY <5>2, <5>3
      <4>4. ASSUME NEW m \in 1..(n + 1), line[m] \notin gone
            PROVE  \E i \in 1..(l + 1) : new[i] = m
        <5>1. CASE m = n + 1
          <6>1. l + 1 \in 1..(l + 1) /\ new[l + 1] = n + 1
            BY <2>4
          <6> QED
            BY <5>1, <6>1
        <5>2. CASE m # n + 1
          <6>1. PICK i \in 1..l : at[i] = m
            BY <2>3, <4>4, <5>2 DEF Keeps
          <6> QED
            BY <2>4, <6>1
        <5> QED
          BY <5>1, <5>2
      <4> HIDE DEF new
      <4> QED
        BY <3>2, <4>1, <4>2, <4>3, <4>4 DEF Keeps
    <3> QED
      BY <3>1, <3>2, <3>4
  <2> QED
    BY <2>5, <2>6
<1> HIDE DEF S
<1>7. Len(line) \in S
  BY <1>5, <1>6, Induction, LenProperties
<1> QED
  BY <1>2, <1>7, LenProperties DEF S

-----------------------------------------------------------------------------
(* What is on the connection.                                               *)

\* What a read brings, and what a mutation is answered.
Pages == [entries : SUBSET ((0..era) \X (1..MaxEntries)), more : BOOLEAN]
Reply == [kind : {"data", "pages"}, page : Pages]
         \cup [kind : {"older"}, page : Pages, of : OlderCall]
         \cup [kind : {"mutation"}, of : Mutation, result : {"ok", "stale", "refused"},
               cursor : 1..MaxRevision]
Call == [kind : {"status"}] \cup [kind : {"data", "pages"}, minimum : Nat]
        \cup [kind : {"older"}, before : Nat, of : OlderCall]

\* The types of the variables and of the two lines.
Typed == TypeOK /\ asked \in Seq(Call) /\ answers \in Seq(Reply)

\* A page is made of entries of the thread.
LEMMA PageOfThread ==
  ASSUME Typed, NEW before, NEW limit
  PROVE  /\ Page(before, limit) \in Pages
         /\ Page(before, limit).entries \subseteq Thread
<1>1. Thread \subseteq (0..era) \X (1..MaxEntries)
  <2>1. /\ era \in Nat /\ count \in Nat /\ count <= MaxEntries /\ MaxEntries \in Nat
    BY BoundAssumption DEF Typed, TypeOK
  <2>2. era \in 0..era /\ \A i \in 1..count : i \in 1..MaxEntries
    BY <2>1
  <2>3. \A i \in 1..count : <<era, i>> \in (0..era) \X (1..MaxEntries)
    BY <2>2
  <2> QED
    BY <2>3 DEF Thread
<1>2. Page(before, limit).entries \subseteq Thread
  BY DEF Page, Below
<1>3. Page(before, limit).more \in BOOLEAN
  BY DEF Page
<1> QED
  BY <1>1, <1>2, <1>3 DEF Page, Pages

\* The host answers a call with pages of its kind.
LEMMA PagesForCall ==
  ASSUME Typed, NEW call \in Call, call.kind # "status"
  PROVE  /\ PagesFor(call) \in Reply /\ PagesFor(call).kind = call.kind
         /\ PagesFor(call).page.entries \subseteq Thread
<1>1. CASE call.kind = "older"
  <2>1. call.of \in OlderCall
    BY <1>1 DEF Call
  <2> QED
    BY <1>1, <2>1, PageOfThread DEF PagesFor, Reply
<1>2. CASE call.kind # "older"
  <2>1. call.kind \in {"data", "pages"}
    BY <1>2 DEF Call
  <2> QED
    BY <1>2, <2>1, PageOfThread DEF PagesFor, ReadPages, Reply
<1> QED
  BY <1>1, <1>2

\* What a view or a page shows is finite.
LEMMA EntriesAreFinite ==
  ASSUME Typed, NEW E \in SUBSET ((0..era) \X (1..MaxEntries))
  PROVE  IsFiniteSet(E) /\ Cardinality(E) \in Nat
<1>1. era \in Int /\ 0 \in Int /\ 1 \in Int /\ MaxEntries \in Int
  BY BoundAssumption DEF Typed, TypeOK
<1>2. IsFiniteSet(0..era) /\ IsFiniteSet(1..MaxEntries)
  BY <1>1, FS_Interval
<1>3. IsFiniteSet((0..era) \X (1..MaxEntries))
  BY <1>2, FS_Product
<1> QED
  BY <1>3, FS_Subset, FS_CardinalityType

\* The oldest entry of a view has an ordinal.
LEMMA OldestIsThere ==
  ASSUME Typed, view.entries # {}
  PROVE  Oldest(view.entries) \in Nat
<1> DEFINE O == Ordinals(view.entries)
<1>1. view.entries \subseteq (0..era) \X (1..MaxEntries)
  BY DEF Typed, TypeOK, View
<1>2. O \subseteq Nat /\ O # {}
  BY <1>1, BoundAssumption DEF Ordinals
<1> HIDE DEF O
<1>3. PICK i \in O : \A j \in O : ~ (<<j, i>> \in OpToRel(<, Nat))
  BY <1>2, WFMin, NatLessThanWellFounded
<1>4. \A j \in O : ~(j < i)
  BY <1>2, <1>3 DEF OpToRel
<1> DEFINE o == CHOOSE m \in O : \A j \in O : m <= j
<1>5. \E m \in O : \A j \in O : m <= j
  BY <1>2, <1>4
<1>6. o \in O
  BY <1>5
<1> QED
  BY <1>2, <1>6 DEF Oldest, O

\* The present pages, views and replies are also those of a later era.
LEMMA EraGrows ==
  ASSUME era \in Nat, era' \in {era, era + 1}
  PROVE  Pages \subseteq Pages' /\ View \subseteq View' /\ Seq(Reply) \subseteq Seq(Reply')
<1>1. (0..era) \subseteq (0..era')
  OBVIOUS
<1>2. Pages \subseteq Pages' /\ View \subseteq View'
  BY <1>1 DEF Pages, View
<1>3. Reply \subseteq Reply'
  BY <1>2 DEF Reply
<1> QED
  BY <1>2, <1>3, SeqMonotonic

\* The calls of a new refresh are added to those of others.
LEMMA StartTypes ==
  ASSUME Typed, NEW shown \in View, StartRefresh(shown)
  PROVE  asked' \in Seq(Call) /\ refresh' = [cursor |-> 0, seen |-> 0]
<1>1. Others(asked) \in Seq(Call)
  BY WithoutKeeps DEF Others, Typed
<1>2. Cardinality(shown.entries) \in Nat
  BY EntriesAreFinite DEF View
<1>3. StatusFirst(Cardinality(shown.entries)) \in Seq(Call)
  BY <1>2 DEF StatusFirst, Call
<1> QED
  BY <1>1, <1>3, ConcatProperties DEF StartRefresh

\* Whoever wants a refresh gets one, new or in flight.
LEMMA JoinTypes ==
  ASSUME Typed, JoinRefresh
  PROVE  /\ asked' \in Seq(Call)
         /\ refresh' \in [cursor : 0..MaxRevision, seen : 0..MaxRevision]
<1>1. refresh \in [cursor : 0..MaxRevision, seen : 0..MaxRevision] \cup {NoRefresh}
      /\ asked \in Seq(Call) /\ view \in View /\ MaxRevision \in Nat
  BY BoundAssumption DEF Typed, TypeOK
<1> QED
  BY <1>1, StartTypes DEF JoinRefresh

\* Where a loop can be.
Stages == {"none", "starting", "polling", "aborted", "refreshing", "loading", "pausing",
           "delayed", "recovering"}

\* Loops that go on stay within their stages.
LEMMA AdvanceTypes ==
  ASSUME Typed, NEW shown, shown.cursor \in 0..MaxRevision,
         NEW next \in [Generation -> Stages], Advance(next, shown)
  PROVE  /\ loop' \in [Generation -> Stages]
         /\ polls' \in [Generation -> 0..MaxRevision]
         /\ controller' \in 0..MaxGeneration
<1>1. polls \in [Generation -> 0..MaxRevision] /\ controller \in 0..MaxGeneration
      /\ MaxRevision \in Nat
  BY BoundAssumption DEF Typed, TypeOK
<1>2. Generation \subseteq 0..MaxGeneration
  BY DEF Generation
<1> DEFINE polling == {g \in Generation : next[g] = "polling" /\ loop[g] # "polling"}
<1>3. /\ loop' = next
      /\ polls' = [g \in Generation |->
                     IF g \in polling THEN shown.cursor
                     ELSE IF next[g] \in {"polling", "aborted"} THEN polls[g] ELSE 0]
      /\ controller' = IF polling = {} THEN controller ELSE CHOOSE g \in polling : TRUE
  BY DEF Advance
<1>4. polling # {} => (CHOOSE g \in polling : TRUE) \in Generation
  OBVIOUS
<1> HIDE DEF polling
<1>5. 0 \in 0..MaxRevision
  BY <1>1
<1> QED
  BY <1>1, <1>2, <1>3, <1>4, <1>5

\* The end of a refresh keeps the types.
LEMMA EndTypes ==
  ASSUME Typed, NEW shown \in View, EndRefresh(shown)
  PROVE  /\ view' \in View
         /\ asked' \in Seq(Call)
         /\ refresh' \in [cursor : 0..MaxRevision, seen : 0..MaxRevision] \cup {NoRefresh}
         /\ mutation' \in [Mutation -> {"idle", "asked", "answered", "waiting", "refreshing"}]
         /\ committed' \in [Mutation -> 0..MaxRevision]
         /\ loop' \in [Generation -> Stages]
         /\ polls' \in [Generation -> 0..MaxRevision]
         /\ controller' \in 0..MaxGeneration
<1>1. /\ mutation \in [Mutation -> {"idle", "asked", "answered", "waiting", "refreshing"}]
      /\ committed \in [Mutation -> 0..MaxRevision] /\ MaxRevision \in Nat
      /\ loop \in [Generation -> Stages] /\ asked \in Seq(Call)
      /\ shown.cursor \in 0..MaxRevision
  BY BoundAssumption DEF Typed, TypeOK, Stages, View
<1>2. view' \in View
  BY DEF EndRefresh
<1>3. mutation' \in [Mutation -> {"idle", "asked", "answered", "waiting", "refreshing"}]
  BY <1>1 DEF EndRefresh
<1>4. committed' \in [Mutation -> 0..MaxRevision]
  BY <1>1 DEF EndRefresh
<1>5. Others(asked) \in Seq(Call)
  BY <1>1, WithoutKeeps DEF Others
<1>6. /\ asked' \in Seq(Call)
      /\ refresh' \in [cursor : 0..MaxRevision, seen : 0..MaxRevision] \cup {NoRefresh}
  BY <1>1, <1>5, StartTypes DEF EndRefresh
<1>7. /\ loop' \in [Generation -> Stages]
      /\ polls' \in [Generation -> 0..MaxRevision]
      /\ controller' \in 0..MaxGeneration
  <2>1. PICK reloads \in BOOLEAN :
          Advance([g \in Generation |->
                     CASE loop[g] \in {"starting", "recovering"} -> LoopTop(g, shown)
                       [] loop[g] = "refreshing" ->
                            IF reloads THEN "loading" ELSE AfterChange(g, shown)
                       [] OTHER -> loop[g]], shown)
    BY DEF EndRefresh
  <2>2. \A g \in Generation : LoopTop(g, shown) \in Stages /\ AfterChange(g, shown) \in Stages
    BY DEF LoopTop, AfterChange, Stages
  <2>3. [g \in Generation |->
           CASE loop[g] \in {"starting", "recovering"} -> LoopTop(g, shown)
             [] loop[g] = "refreshing" ->
                  IF reloads THEN "loading" ELSE AfterChange(g, shown)
             [] OTHER -> loop[g]] \in [Generation -> Stages]
    BY <1>1, <2>2 DEF Stages
  <2> QED
    BY <1>1, <2>1, <2>3, AdvanceTypes
<1> QED
  BY <1>2, <1>3, <1>4, <1>6, <1>7

-----------------------------------------------------------------------------
(* What moves what.                                                         *)

\* The host's view.
LEMMA HostMoves ==
  ASSUME [Next]_vars
  PROVE  \/ UNCHANGED hostVars
         \/ HostChanges
         \/ \E k \in Mutation : HostAccepts(k)
BY DEF Next, UserStep, FailureStep, Progress, vars, hostVars, mountVars, watchVars,
       historyVars, Mount, Unmount, Dispose, RetryClicked, LoadOlder, Submit,
       RefreshFails, OlderFails, MutationFails, PollFails, HostReads, ReadArrives,
       OlderArrives, MutationAnswered, HostRefuses, PollChanged, PollTimesOut,
       PollRejected, DelayEnds, CatalogSettles, Answer

\* Whether anyone watches.
LEMMA MountMoves ==
  ASSUME [Next]_vars
  PROVE  \/ UNCHANGED mountVars
         \/ Mount \/ Unmount \/ Dispose
BY DEF Next, UserStep, FailureStep, Progress, vars, hostVars, mountVars, watchVars,
       historyVars, RetryClicked, LoadOlder, Submit, RefreshFails, OlderFails,
       MutationFails, PollFails, HostChanges, HostReads, ReadArrives, OlderArrives,
       MutationAnswered, HostAccepts, HostRefuses, PollChanged, PollTimesOut,
       PollRejected, DelayEnds, CatalogSettles, Answer

\* The loops and their polls.
LEMMA LoopMoves ==
  ASSUME [Next]_vars
  PROVE  \/ UNCHANGED watchVars
         \/ Mount \/ Unmount \/ Dispose \/ RefreshFails \/ ReadArrives
         \/ \E g \in Generation :
              \/ PollFails(g) \/ PollChanged(g) \/ PollTimesOut(g) \/ PollRejected(g)
              \/ DelayEnds(g) \/ CatalogSettles(g)
BY DEF Next, UserStep, FailureStep, Progress, vars, hostVars, mountVars, watchVars,
       historyVars, RetryClicked, LoadOlder, Submit, OlderFails, MutationFails,
       HostChanges, HostReads, OlderArrives, MutationAnswered, HostAccepts, HostRefuses,
       Answer

\* The refresh in flight and what it asks for.
LEMMA CallMoves ==
  ASSUME [Next]_vars
  PROVE  \/ UNCHANGED <<refresh, asked>>
         \/ Mount \/ RetryClicked \/ LoadOlder \/ RefreshFails \/ OlderFails
         \/ HostReads \/ ReadArrives \/ MutationAnswered
         \/ \E g \in Generation : PollChanged(g) \/ DelayEnds(g)
BY DEF Next, UserStep, FailureStep, Progress, vars, hostVars, mountVars, watchVars,
       historyVars, Unmount, Dispose, Submit, MutationFails, PollFails, HostChanges,
       OlderArrives, HostAccepts, HostRefuses, PollTimesOut, PollRejected,
       CatalogSettles, Answer

\* What the views render.
LEMMA ViewMoves ==
  ASSUME [Next]_vars
  PROVE  \/ UNCHANGED view
         \/ RefreshFails \/ OlderFails \/ ReadArrives \/ OlderArrives
         \/ MutationAnswered
         \/ \E k \in Mutation : MutationFails(k)
         \/ \E g \in Generation : PollFails(g)
BY DEF Next, UserStep, FailureStep, Progress, vars, hostVars, mountVars, watchVars,
       historyVars, Mount, Unmount, Dispose, RetryClicked, LoadOlder, Submit,
       HostChanges, HostReads, HostAccepts, HostRefuses, PollChanged, PollTimesOut,
       PollRejected, DelayEnds, CatalogSettles, Answer

\* What the host answers.
LEMMA ReplyMoves ==
  ASSUME [Next]_vars
  PROVE  \/ UNCHANGED answers
         \/ RefreshFails \/ OlderFails \/ HostReads \/ ReadArrives \/ OlderArrives
         \/ MutationAnswered
         \/ \E k \in Mutation :
              \/ MutationFails(k) \/ HostAccepts(k)
              \/ \E result \in {"stale", "refused"} : HostRefuses(k, result)
BY DEF Next, UserStep, FailureStep, Progress, vars, hostVars, mountVars, watchVars,
       historyVars, Mount, Unmount, Dispose, RetryClicked, LoadOlder, Submit, PollFails,
       HostChanges, PollChanged, PollTimesOut, PollRejected, DelayEnds, CatalogSettles

\* The mutations.
LEMMA MutationMoves ==
  ASSUME [Next]_vars
  PROVE  \/ UNCHANGED <<mutation, committed>>
         \/ RefreshFails \/ ReadArrives \/ MutationAnswered
         \/ \E k \in Mutation :
              \/ Submit(k) \/ MutationFails(k) \/ HostAccepts(k)
              \/ \E result \in {"stale", "refused"} : HostRefuses(k, result)
BY DEF Next, UserStep, FailureStep, Progress, vars, hostVars, mountVars, watchVars,
       historyVars, Mount, Unmount, Dispose, RetryClicked, LoadOlder, OlderFails,
       PollFails, HostChanges, HostReads, OlderArrives, PollChanged, PollTimesOut,
       PollRejected, DelayEnds, CatalogSettles

\* The flags and counters.
LEMMA FlagMoves ==
  ASSUME [Next]_vars
  PROVE  \/ UNCHANGED <<older, adopted, failures>>
         \/ LoadOlder \/ RefreshFails \/ OlderFails \/ OlderArrives
         \/ MutationAnswered
         \/ \E k \in Mutation : MutationFails(k)
         \/ \E g \in Generation : PollFails(g)
BY DEF Next, UserStep, FailureStep, Progress, vars, hostVars, mountVars, watchVars,
       historyVars, Mount, Unmount, Dispose, RetryClicked, Submit, HostChanges,
       HostReads, ReadArrives, HostAccepts, HostRefuses, PollChanged, PollTimesOut,
       PollRejected, DelayEnds, CatalogSettles, Answer
-----------------------------------------------------------------------------
(* Every step keeps the types.                                              *)

\* The bounds are numbers.
LEMMA Bounds ==
  /\ MaxRevision \in Nat \ {0} /\ MaxEntries \in Nat /\ MaxMounts \in Nat
  /\ MaxGeneration \in Nat /\ MaxFailures \in Nat /\ PageSize \in Nat \ {0}
BY BoundAssumption

\* The calls and answers that bring the pages of a refresh.
Paging == {"data", "pages"}
PagesAt(line) == {i \in DOMAIN line : line[i].kind \in Paging}

\* What is read is read for a refresh.
Reading ==
  /\ PagesAt(answers) # {} => refresh # NoRefresh
  /\ \A i \in DOMAIN asked : asked[i].kind \in Reads => refresh # NoRefresh

\* The first message of a line.
LEMMA Heads ==
  ASSUME NEW T, NEW line \in Seq(T), line # <<>>
  PROVE  /\ 1 \in DOMAIN line /\ Head(line) = line[1] /\ line[1] \in T
         /\ Tail(line) \in Seq(T) /\ Len(Tail(line)) = Len(line) - 1
         /\ \A i \in 1..Len(Tail(line)) : i + 1 \in 1..Len(line) /\ Tail(line)[i] = line[i + 1]
<1>1. Len(line) \in Nat /\ Len(line) # 0 /\ DOMAIN line = 1..Len(line)
  BY EmptySeq, LenProperties
<1>2. /\ Head(line) \in T /\ Tail(line) \in Seq(T) /\ Len(Tail(line)) = Len(line) - 1
      /\ \A i \in 1..Len(Tail(line)) : Tail(line)[i] = line[i + 1]
  BY HeadTailProperties
<1>3. Head(line) = line[1]
  BY <1>1
<1> QED
  BY <1>1, <1>2, <1>3

\* The types in groups, as the steps move them.
HostTypes == revision \in 1..MaxRevision /\ era \in Nat /\ count \in 0..MaxEntries
MountTypes ==
  /\ mounts \in 0..MaxMounts /\ watchGeneration \in 0..MaxGeneration
  /\ disposed \in BOOLEAN /\ watching = (mounts > 0 /\ ~disposed)
LoopTypes ==
  /\ loop \in [Generation -> Stages]
  /\ polls \in [Generation -> 0..MaxRevision] /\ controller \in 0..MaxGeneration
CallTypes ==
  /\ refresh \in [cursor : 0..MaxRevision, seen : 0..MaxRevision] \cup {NoRefresh}
  /\ asked \in Seq(Call)
ViewTypes == view \in View
ReplyTypes == answers \in Seq(Reply)
MutationTypes ==
  /\ mutation \in [Mutation -> {"idle", "asked", "answered", "waiting", "refreshing"}]
  /\ committed \in [Mutation -> 0..MaxRevision]
FlagTypes == older \subseteq OlderCall /\ adopted \in 0..MaxRevision /\ failures \in 0..MaxFailures

\* The types fall into one group for each part of the store.
LEMMA Groups ==
  Typed <=> /\ HostTypes /\ MountTypes /\ LoopTypes /\ CallTypes
            /\ ViewTypes /\ ReplyTypes /\ MutationTypes /\ FlagTypes
BY DEF Typed, TypeOK, HostTypes, MountTypes, LoopTypes, CallTypes, ViewTypes, ReplyTypes,
       MutationTypes, FlagTypes, Stages

\* What a view shows when the pages it asked for arrive.
Shown(page) ==
  [phase |-> "ready", cursor |-> refresh.cursor, seen |-> refresh.seen,
   entries |-> ReadEntries(page), more |-> page.more]

\* The pages that arrive are pages, and they arrive for a refresh in flight.
LEMMA ReadEnds ==
  ASSUME Typed, Reading, Arrives("data") \/ Arrives("pages")
  PROVE  /\ refresh \in [cursor : 0..MaxRevision, seen : 0..MaxRevision]
         /\ Head(answers).page \in Pages
         /\ Shown(Head(answers).page) \in View
<1>1. /\ answers \in Seq(Reply) /\ answers # <<>> /\ Head(answers).kind \in Paging
      /\ refresh \in [cursor : 0..MaxRevision, seen : 0..MaxRevision] \cup {NoRefresh}
  BY DEF Typed, TypeOK, Arrives, Paging
<1>2. Head(answers) = answers[1] /\ 1 \in DOMAIN answers /\ answers[1] \in Reply
  BY <1>1, Heads
<1>3. refresh # NoRefresh
  BY <1>1, <1>2 DEF Reading, PagesAt
<1>4. Head(answers).page \in Pages
  BY <1>1, <1>2 DEF Reply, Paging
<1> QED
  BY <1>1, <1>3, <1>4 DEF Shown, View, Pages, ReadEntries

\* The host's side keeps its types; an era only ever follows another.
LEMMA HostStep ==
  ASSUME Typed, [Next]_vars
  PROVE  HostTypes' /\ era' \in {era, era + 1}
<1>1. HostTypes
  BY Groups
<1>2. CASE UNCHANGED hostVars
  BY <1>1, <1>2 DEF hostVars, HostTypes
<1>3. CASE HostChanges
  BY <1>1, <1>3, Bounds DEF HostChanges, HostTypes
<1>4. ASSUME NEW k \in Mutation, HostAccepts(k)
      PROVE  HostTypes' /\ era' \in {era, era + 1}
  BY <1>1, <1>4, Bounds DEF HostAccepts, HostTypes
<1> QED
  BY <1>2, <1>3, <1>4, HostMoves

\* So do the mounts and the watch they keep.
LEMMA MountStep ==
  ASSUME Typed, [Next]_vars
  PROVE  MountTypes'
<1>1. MountTypes
  BY Groups
<1>2. CASE UNCHANGED mountVars
  BY <1>1, <1>2 DEF mountVars, MountTypes
<1>3. CASE Mount
  <2>1. /\ mounts' \in 0..MaxMounts /\ watchGeneration' \in 0..MaxGeneration
        /\ mounts' > 0 /\ (mounts # 0 => mounts > 0)
    BY <1>1, <1>3, Bounds DEF Mount, MountTypes
  <2>2. disposed' = disposed /\ ~disposed /\ watching' = IF mounts = 0 THEN TRUE ELSE watching
    BY <1>3 DEF Mount
  <2> QED
    BY <1>1, <2>1, <2>2, Zenon DEF MountTypes
<1>4. CASE Unmount
  <2>1. /\ mounts' \in 0..MaxMounts /\ watchGeneration' \in 0..MaxGeneration
        /\ mounts > 0 /\ (mounts' > 0 <=> mounts # 1)
    BY <1>1, <1>4, Bounds DEF Unmount, MountTypes
  <2>2. disposed' = disposed /\ watching' = IF mounts = 1 THEN FALSE ELSE watching
    BY <1>4 DEF Unmount
  <2> QED
    BY <1>1, <2>1, <2>2, Zenon DEF MountTypes
<1>5. CASE Dispose
  <2>1. mounts' \in 0..MaxMounts /\ watchGeneration' \in 0..MaxGeneration
    BY <1>1, <1>5, Bounds DEF Dispose, MountTypes
  <2>2. disposed' = TRUE /\ watching' = FALSE
    BY <1>5 DEF Dispose
  <2> QED
    BY <1>1, <2>1, <2>2, Zenon DEF MountTypes
<1> QED
  BY <1>2, <1>3, <1>4, <1>5, MountMoves

\* A loop that goes on.
LEMMA AfterTypes ==
  ASSUME NEW g, NEW shown
  PROVE  LoopTop(g, shown) \in Stages /\ AfterChange(g, shown) \in Stages
BY DEF LoopTop, AfterChange, Stages

\* A loop goes from one stage to another.
LEMMA LoopStep ==
  ASSUME Typed, Reading, [Next]_vars
  PROVE  LoopTypes'
<1>1. LoopTypes /\ ViewTypes /\ MountTypes
  BY Groups
<1>2. view.cursor \in 0..MaxRevision
  BY <1>1 DEF ViewTypes, View
<1>3. CASE UNCHANGED watchVars
  BY <1>1, <1>3 DEF watchVars, LoopTypes
<1>4. CASE Mount
  BY <1>1, <1>4 DEF Mount, LoopTypes, Stages, watchVars
<1>5. CASE Unmount \/ Dispose
  BY <1>1, <1>5 DEF Unmount, Dispose, AbortPoll, LoopTypes, Stages
<1>6. ASSUME NEW g \in Generation, CatalogSettles(g)
      PROVE  LoopTypes'
  <2>1. [loop EXCEPT ![g] = AfterChange(g, view)] \in [Generation -> Stages]
    BY <1>1, AfterTypes DEF LoopTypes
  <2> QED
    BY <1>2, <1>6, <2>1, AdvanceTypes DEF CatalogSettles, LoopTypes
<1>7. CASE RefreshFails
  BY <1>1, <1>7, EndTypes DEF RefreshFails, Failing, ViewTypes, View, LoopTypes
<1>8. CASE ReadArrives
  BY <1>1, <1>8, ReadEnds, EndTypes DEF ReadArrives, Shown, LoopTypes, watchVars
<1>9. ASSUME NEW g \in Generation,
             PollChanged(g) \/ PollTimesOut(g) \/ PollRejected(g) \/ PollFails(g)
      PROVE  LoopTypes'
  <2>1. 0 \in 0..MaxRevision /\ g \in 0..MaxGeneration
    BY Bounds DEF Generation
  <2> QED
    BY <1>1, <1>2, <1>9, <2>1
    DEF PollChanged, PollTimesOut, PollRejected, PollFails, RetryLater, LoopTypes, Stages
<1>10. ASSUME NEW g \in Generation, DelayEnds(g)
       PROVE  LoopTypes'
  <2>1. [loop EXCEPT ![g] = LoopTop(g, view)] \in [Generation -> Stages]
    BY <1>1, AfterTypes DEF LoopTypes
  <2>2. CASE Advance([loop EXCEPT ![g] = LoopTop(g, view)], view)
    BY <1>2, <2>1, <2>2, AdvanceTypes DEF LoopTypes
  <2>3. CASE UNCHANGED <<polls, controller>>
             /\ loop' \in {[loop EXCEPT ![g] = "recovering"], [loop EXCEPT ![g] = "none"]}
    BY <1>1, <2>3 DEF LoopTypes, Stages
  <2> QED
    BY <1>10, <2>2, <2>3 DEF DelayEnds, LeaveLoop
<1> QED
  BY <1>3, <1>4, <1>5, <1>6, <1>7, <1>8, <1>9, <1>10, LoopMoves

\* Calls are only added by the store and taken by the host.
LEMMA CallStep ==
  ASSUME Typed, Reading, [Next]_vars
  PROVE  CallTypes'
<1>1. /\ CallTypes /\ ViewTypes /\ HostTypes /\ asked \in Seq(Call)
      /\ refresh \in [cursor : 0..MaxRevision, seen : 0..MaxRevision] \cup {NoRefresh}
  BY Groups DEF CallTypes
<1>2. CASE UNCHANGED <<refresh, asked>>
  BY <1>1, <1>2 DEF CallTypes
<1>3. CASE JoinRefresh
  BY <1>3, JoinTypes DEF CallTypes
<1>4. CASE Mount \/ RetryClicked
  BY <1>2, <1>3, <1>4 DEF Mount, RetryClicked
<1>5. CASE HostReads
  <2>1. asked' \in Seq(Call) /\ Head(asked) = asked[1] /\ 1 \in DOMAIN asked /\ asked[1] \in Call
    BY <1>1, <1>5, Heads DEF HostReads
  <2>2. Head(asked).kind \in {"status", "data"}
        => refresh \in [cursor : 0..MaxRevision, seen : 0..MaxRevision]
    BY <1>1, <2>1 DEF Reading, Reads
  <2>3. revision \in 0..MaxRevision
    BY <1>1, Bounds DEF HostTypes
  <2>4. refresh' \in {refresh, [refresh EXCEPT !.cursor = revision],
                      [refresh EXCEPT !.seen = revision]}
    BY <1>5 DEF HostReads
  <2>5. Head(asked).kind \notin {"status", "data"} => refresh' = refresh
    BY <1>5 DEF HostReads
  <2> QED
    BY <1>1, <2>1, <2>2, <2>3, <2>4, <2>5 DEF CallTypes
<1>6. CASE ReadArrives
  <2>1. Shown(Head(answers).page) \in View
    BY <1>6, ReadEnds DEF ReadArrives
  <2>2. CASE TooFew(Head(answers).page)
    <3>1. Cardinality(view.entries) \in Nat
      BY <1>1, EntriesAreFinite DEF ViewTypes, View
    <3>2. [kind |-> "pages", minimum |-> Cardinality(view.entries)] \in Call
      BY <3>1 DEF Call
    <3> QED
      BY <1>1, <1>6, <2>2, <3>2, AppendProperties DEF ReadArrives, CallTypes
  <2>3. CASE ~TooFew(Head(answers).page)
    <3>1. EndRefresh(Shown(Head(answers).page))
      BY <1>6, <2>3 DEF ReadArrives, Shown
    <3> QED
      BY <2>1, <3>1, EndTypes DEF CallTypes
  <2> QED
    BY <2>2, <2>3
<1>7. CASE RefreshFails
  BY <1>1, <1>7, EndTypes DEF RefreshFails, Failing, ViewTypes, View, CallTypes
<1>8. CASE LoadOlder
  <2>1. PICK c \in OlderCall :
          asked' = Append(asked, [kind |-> "older", before |-> Oldest(view.entries), of |-> c])
    BY <1>8 DEF LoadOlder
  <2>2. [kind |-> "older", before |-> Oldest(view.entries), of |-> c] \in Call
    BY <1>8, OldestIsThere DEF LoadOlder, Call
  <2> QED
    BY <1>1, <1>8, <2>1, <2>2, AppendProperties DEF LoadOlder, CallTypes
<1>9. CASE OlderFails
  BY <1>1, <1>9, WithoutKeeps DEF OlderFails, CallTypes
<1>10. CASE MutationAnswered
  <2>1. PICK shown : /\ shown \in {view, Failing(view),
                                   [view EXCEPT !.cursor = Head(answers).cursor]}
                     /\ \/ UNCHANGED <<refresh, asked>>
                        \/ JoinRefresh \/ StartRefresh(shown)
    BY <1>10 DEF MutationAnswered, RefreshSharing, RefreshAfterCurrent
  <2>2. StartRefresh(shown) => StartRefresh(view)
    BY <1>1, <2>1 DEF StartRefresh, Failing, ViewTypes, View
  <2> QED
    BY <1>1, <1>2, <1>3, <2>1, <2>2, StartTypes, Bounds DEF CallTypes, ViewTypes
<1>11. ASSUME NEW g \in Generation, PollChanged(g) \/ DelayEnds(g)
       PROVE  CallTypes'
  BY <1>2, <1>3, <1>11 DEF PollChanged, DelayEnds
<1> QED
  BY <1>2, <1>4, <1>5, <1>6, <1>7, <1>8, <1>9, <1>10, <1>11, CallMoves

\* What a mutation is answered.
LEMMA AnswerTypes ==
  ASSUME Typed, Arrives("mutation")
  PROVE  /\ Head(answers).of \in Mutation /\ Head(answers).cursor \in 0..MaxRevision
         /\ Tail(answers) \in Seq(Reply)
<1>1. answers \in Seq(Reply) /\ answers # <<>> /\ Head(answers).kind = "mutation"
  BY DEF Typed, Arrives
<1>2. Head(answers) \in Reply /\ Tail(answers) \in Seq(Reply)
  BY <1>1, Heads
<1> QED
  BY <1>1, <1>2, Bounds DEF Reply

\* What the views show after it.
LEMMA ViewOfAnswer ==
  ASSUME Typed, MutationAnswered
  PROVE  view' \in View
<1>1. view' \in {view, Failing(view), [view EXCEPT !.cursor = Head(answers).cursor]}
  BY DEF MutationAnswered
<1>2. Head(answers).cursor \in 0..MaxRevision /\ view \in View
  BY AnswerTypes DEF MutationAnswered, Typed, TypeOK
<1> QED
  BY <1>1, <1>2 DEF Failing, View

\* What the view shows is a page the host sent, or what it showed before.
LEMMA ViewStep ==
  ASSUME Typed, Reading, [Next]_vars
  PROVE  ViewTypes'
<1>1. ViewTypes /\ HostTypes /\ answers \in Seq(Reply)
  BY Groups DEF ReplyTypes
<1>2. View \subseteq View'
  BY <1>1, EraGrows, HostStep DEF HostTypes
<1> SUFFICES view' \in View
  BY <1>2 DEF ViewTypes
<1>3. CASE UNCHANGED view
  BY <1>1, <1>3 DEF ViewTypes
<1>4. Failing(view) \in View
  BY <1>1 DEF ViewTypes, Failing, View
<1>5. CASE ReadArrives
  BY <1>1, <1>3, <1>5, ReadEnds, EndTypes DEF ReadArrives, Shown
<1>6. CASE RefreshFails
  BY <1>4, <1>6, EndTypes DEF RefreshFails
<1>7. CASE OlderArrives
  <2>1. Head(answers).page \in Pages
    <3>1. Head(answers) \in Reply /\ Head(answers).kind = "older"
      BY <1>1, <1>7, Heads DEF OlderArrives, Arrives
    <3> QED
      BY <3>1 DEF Reply
  <2> QED
    BY <1>1, <1>7, <2>1 DEF OlderArrives, ViewTypes, View, Pages
<1>8. CASE OlderFails
  BY <1>4, <1>8 DEF OlderFails
<1>9. CASE MutationAnswered
  BY <1>9, ViewOfAnswer
<1>10. ASSUME NEW k \in Mutation, MutationFails(k)
       PROVE  view' \in View
  BY <1>1, <1>4, <1>10 DEF MutationFails, ViewTypes
<1>11. ASSUME NEW g \in Generation, PollFails(g)
       PROVE  view' \in View
  BY <1>4, <1>11 DEF PollFails
<1> QED
  BY <1>3, <1>5, <1>6, <1>7, <1>8, <1>9, <1>10, <1>11, ViewMoves

\* Answers carry pages as the host read them.
LEMMA ReplyStep ==
  ASSUME Typed, Reading, [Next]_vars
  PROVE  ReplyTypes'
<1>1. /\ HostTypes /\ answers \in Seq(Reply)
      /\ \A gone : Without(answers, gone) \in Seq(Reply)
  BY Groups, WithoutKeeps DEF ReplyTypes
<1>2. Seq(Reply) \subseteq Seq(Reply')
  BY <1>1, EraGrows, HostStep DEF HostTypes
<1>3. HostTypes' /\ MaxRevision \in Nat
  BY HostStep, Bounds
<1>4. answers # <<>> => Tail(answers) \in Seq(Reply)
  BY <1>1, Heads
<1> SUFFICES answers' \in Seq(Reply) \cup Seq(Reply')
  BY <1>2 DEF ReplyTypes
<1>5. CASE UNCHANGED answers
  BY <1>1, <1>5
<1>6. CASE HostReads
  <2>1. Head(asked) \in Call
    BY <1>6, Heads DEF Typed, HostReads
  <2>2. answers' = IF Head(asked).kind = "status" THEN answers
                   ELSE Append(answers, PagesFor(Head(asked)))
    BY <1>6 DEF HostReads
  <2> QED
    BY <1>1, <2>1, <2>2, PagesForCall, AppendProperties
<1>7. CASE ReadArrives \/ OlderArrives \/ MutationAnswered
  BY <1>4, <1>7 DEF ReadArrives, OlderArrives, MutationAnswered, Arrives
<1>8. CASE RefreshFails \/ OlderFails
  BY <1>1, <1>8 DEF RefreshFails, OlderFails, Others
<1>9. ASSUME NEW k \in Mutation, MutationFails(k)
      PROVE  answers' \in Seq(Reply)
  BY <1>1, <1>9 DEF MutationFails
<1>10. ASSUME NEW k \in Mutation, NEW result \in {"ok", "stale", "refused"}, Answer(k, result)
       PROVE  answers' \in Seq(Reply')
  <2>1. [kind |-> "mutation", of |-> k, result |-> result, cursor |-> revision'] \in Reply'
    BY <1>3 DEF Reply, HostTypes
  <2> QED
    BY <1>1, <1>2, <1>10, <2>1, AppendProperties DEF Answer
<1>11. ASSUME NEW k \in Mutation,
              \/ HostAccepts(k)
              \/ \E result \in {"stale", "refused"} : HostRefuses(k, result)
       PROVE  answers' \in Seq(Reply')
  BY <1>10, <1>11 DEF HostAccepts, HostRefuses
<1> QED
  BY <1>5, <1>6, <1>7, <1>8, <1>9, <1>11, ReplyMoves

\* A mutation is committed at a revision the host has reached.
LEMMA MutationStep ==
  ASSUME Typed, Reading, [Next]_vars
  PROVE  MutationTypes'
<1>1. MutationTypes /\ ViewTypes /\ MaxRevision \in Nat
  BY Groups, Bounds
<1>2. CASE UNCHANGED <<mutation, committed>>
  BY <1>1, <1>2 DEF MutationTypes
<1>3. ASSUME NEW k \in Mutation, Submit(k)
      PROVE  MutationTypes'
  BY <1>1, <1>3 DEF Submit, historyVars, MutationTypes
<1>4. ASSUME NEW k \in Mutation, NEW result, Answer(k, result),
             \/ UNCHANGED committed
             \/ committed' = [committed EXCEPT ![k] = revision'] /\ revision' \in 0..MaxRevision
      PROVE  MutationTypes'
  BY <1>1, <1>4 DEF Answer, MutationTypes
<1>5. revision' \in 0..MaxRevision
  BY <1>1, HostStep DEF HostTypes
<1>6. ASSUME NEW k \in Mutation,
             \/ HostAccepts(k)
             \/ \E result \in {"stale", "refused"} : HostRefuses(k, result)
      PROVE  MutationTypes'
  BY <1>4, <1>5, <1>6 DEF HostAccepts, HostRefuses
<1>7. CASE ReadArrives
  BY <1>2, <1>7, ReadEnds, EndTypes DEF ReadArrives, Shown, historyVars, MutationTypes
<1>8. CASE RefreshFails
  BY <1>1, <1>8, EndTypes DEF RefreshFails, Failing, ViewTypes, View, MutationTypes
<1>9. CASE MutationAnswered
  <2>1. committed' = committed
    BY <1>9 DEF MutationAnswered
  <2>2. Head(answers).of \in Mutation
    BY <1>9, AnswerTypes DEF MutationAnswered
  <2>3. \E stage \in {"idle", "refreshing", "waiting"} :
          mutation' = [mutation EXCEPT ![Head(answers).of] = stage]
    BY <1>9 DEF MutationAnswered, RefreshSharing, RefreshAfterCurrent
  <2> QED
    BY <1>1, <2>1, <2>2, <2>3 DEF MutationTypes
<1>10. ASSUME NEW k \in Mutation, MutationFails(k)
       PROVE  MutationTypes'
  <2>1. 0 \in 0..MaxRevision
    BY <1>1
  <2> QED
    BY <1>1, <1>10, <2>1 DEF MutationFails, MutationTypes
<1> QED
  BY <1>2, <1>3, <1>6, <1>7, <1>8, <1>9, <1>10, MutationMoves

\* The adopted cursor and the failures stay within their bounds.
LEMMA FlagStep ==
  ASSUME Typed, Reading, [Next]_vars
  PROVE  FlagTypes'
<1>1. FlagTypes /\ MaxFailures \in Nat
  BY Groups, Bounds
<1>2. CASE UNCHANGED <<older, adopted, failures>>
  BY <1>1, <1>2 DEF FlagTypes
<1>3. CASE LoadOlder \/ OlderArrives
  BY <1>1, <1>3 DEF LoadOlder, OlderArrives, FlagTypes, historyVars
<1>4. CASE RefreshFails \/ OlderFails
  <2>1. failures' = failures + 1 /\ failures < MaxFailures /\ UNCHANGED adopted
    BY <1>4 DEF RefreshFails, OlderFails, MayFail, historyVars
  <2>2. failures' \in 0..MaxFailures
    BY <1>1, <2>1 DEF FlagTypes
  <2>3. older' \subseteq older
    BY <1>4 DEF RefreshFails, OlderFails
  <2> QED
    BY <1>1, <2>1, <2>2, <2>3, Zenon DEF FlagTypes
<1>5. ASSUME NEW k \in Mutation, MutationFails(k)
      PROVE  FlagTypes'
  BY <1>1, <1>5 DEF MutationFails, MayFail, FlagTypes
<1>6. ASSUME NEW g \in Generation, PollFails(g)
      PROVE  FlagTypes'
  BY <1>1, <1>6 DEF PollFails, MayFail, FlagTypes, historyVars
<1>7. CASE MutationAnswered
  <2>1. view'.cursor \in 0..MaxRevision
    BY ViewStep DEF ViewTypes, View
  <2>2. adopted' \in {view'.cursor, adopted} /\ UNCHANGED <<older, failures>>
    BY <1>7 DEF MutationAnswered
  <2> QED
    BY <1>1, <2>1, <2>2 DEF FlagTypes
<1> QED
  BY <1>2, <1>3, <1>4, <1>5, <1>6, <1>7, FlagMoves

\* Every step keeps every group, hence the types.
LEMMA TypedStep ==
  ASSUME Typed, Reading, [Next]_vars
  PROVE  Typed'
<1>1. /\ HostTypes' /\ MountTypes' /\ LoopTypes' /\ CallTypes'
      /\ ViewTypes' /\ ReplyTypes' /\ MutationTypes' /\ FlagTypes'
  BY HostStep, MountStep, LoopStep, CallStep, ViewStep, ReplyStep, MutationStep, FlagStep
<1> QED
  BY <1>1 DEF Typed, TypeOK, HostTypes, MountTypes, LoopTypes, CallTypes, ViewTypes,
              ReplyTypes, MutationTypes, FlagTypes, Stages

\* So do the first states.
LEMMA TypedInit ==
  ASSUME Init
  PROVE  Typed
<1>1. revision \in 1..MaxRevision /\ era \in Nat /\ count \in 0..MaxEntries /\ view \in View
  BY Bounds DEF Init, View
<1>2. asked \in Seq(Call) /\ answers \in Seq(Reply)
  BY EmptySeq DEF Init
<1>3. 0 \in 0..MaxRevision /\ 0 \in 0..MaxGeneration /\ 0 \in 0..MaxMounts
      /\ 0 \in 0..MaxFailures /\ ~(0 > 0)
  BY Bounds
<1>4. LoopTypes
  BY <1>3 DEF Init, LoopTypes, Stages
<1>5. MutationTypes /\ FlagTypes
  BY <1>3 DEF Init, MutationTypes, FlagTypes
<1>6. MountTypes
  BY <1>3, Zenon DEF Init, MountTypes
<1>7. refresh = NoRefresh
  BY DEF Init
<1> QED
  BY <1>1, <1>2, <1>4, <1>5, <1>6, <1>7, Groups DEF HostTypes, CallTypes, ViewTypes, ReplyTypes

-----------------------------------------------------------------------------
(* A refresh has one read of pages under way.                               *)

\* Everything of these kinds was on the old line too, in the same order.
Fewer(new, old, kinds) ==
  \E at : /\ \A i \in DOMAIN new : new[i].kind \in kinds =>
               at[i] \in DOMAIN old /\ new[i] = old[at[i]]
          /\ \A i, j \in DOMAIN new :
               new[i].kind \in kinds /\ new[j].kind \in kinds /\ i < j => at[i] < at[j]

\* The positions of a line are numbers.
LEMMA Positions ==
  ASSUME NEW T, NEW line \in Seq(T)
  PROVE  Len(line) \in Nat /\ DOMAIN line = 1..Len(line) /\ DOMAIN line \subseteq Nat \ {0}
BY LenProperties

\* A line has no more of anything than it has.
LEMMA FewerSame ==
  ASSUME NEW T, NEW line \in Seq(T), NEW kinds
  PROVE  Fewer(line, line, kinds)
<1> DEFINE at == [i \in DOMAIN line |-> i]
<1>1. \A i \in DOMAIN line : at[i] = i
  OBVIOUS
<1> HIDE DEF at
<1> QED
  BY <1>1 DEF Fewer

\* Nor has what is left when its head is served,
LEMMA FewerTail ==
  ASSUME NEW T, NEW line \in Seq(T), line # <<>>, NEW kinds
  PROVE  Fewer(Tail(line), line, kinds)
<1> DEFINE at == [i \in DOMAIN Tail(line) |-> i + 1]
<1>1. /\ DOMAIN Tail(line) = 1..Len(Tail(line)) /\ DOMAIN Tail(line) \subseteq Nat
      /\ DOMAIN line = 1..Len(line)
      /\ \A i \in 1..Len(Tail(line)) : i + 1 \in 1..Len(line) /\ Tail(line)[i] = line[i + 1]
  BY Heads, Positions
<1>2. \A i \in DOMAIN Tail(line) : at[i] = i + 1
  OBVIOUS
<1>3. \A i \in DOMAIN Tail(line) : at[i] \in DOMAIN line /\ Tail(line)[i] = line[at[i]]
  BY <1>1, <1>2
<1>4. \A i, j \in DOMAIN Tail(line) : i < j => at[i] < at[j]
  BY <1>1, <1>2
<1> HIDE DEF at
<1> QED
  BY <1>3, <1>4 DEF Fewer

\* or when messages are taken off it,
LEMMA FewerWithout ==
  ASSUME NEW T, NEW line \in Seq(T), NEW gone, NEW kinds
  PROVE  Fewer(Without(line, gone), line, kinds)
<1> DEFINE s == Without(line, gone)
<1>1. s \in Seq(T) /\ \E at : Keeps(s, line, Len(line), gone, at)
  BY WithoutKeeps
<1>2. PICK at : Keeps(s, line, Len(line), gone, at)
  BY <1>1
<1> HIDE DEF s
<1>3. DOMAIN s = 1..Len(s) /\ DOMAIN line = 1..Len(line)
  BY <1>1, Positions
<1>4. \A i \in DOMAIN s : at[i] \in DOMAIN line /\ s[i] = line[at[i]]
  BY <1>2, <1>3 DEF Keeps
<1>5. \A i, j \in DOMAIN s : i < j => at[i] < at[j]
  BY <1>2, <1>3 DEF Keeps
<1>6. Fewer(s, line, kinds)
  BY <1>4, <1>5 DEF Fewer
<1> QED
  BY <1>6 DEF s

\* What is appended.
LEMMA Appended ==
  ASSUME NEW T, NEW line \in Seq(T), NEW T2, NEW new \in T2, T \subseteq T2
  PROVE  /\ DOMAIN Append(line, new) = DOMAIN line \cup {Len(line) + 1}
         /\ Append(line, new)[Len(line) + 1] = new
         /\ \A i \in DOMAIN line : Append(line, new)[i] = line[i] /\ i < Len(line) + 1
<1>1. line \in Seq(T2) /\ Len(line) \in Nat /\ DOMAIN line = 1..Len(line)
  BY SeqMonotonic, Positions
<1>2. /\ Append(line, new) \in Seq(T2) /\ Len(Append(line, new)) = Len(line) + 1
      /\ \A i \in 1..Len(line) : Append(line, new)[i] = line[i]
      /\ Append(line, new)[Len(line) + 1] = new
  BY <1>1, AppendProperties
<1>3. DOMAIN Append(line, new) = 1..(Len(line) + 1)
  BY <1>2, Positions
<1> QED
  BY <1>1, <1>2, <1>3

\* or when a message of another kind joins it.
LEMMA FewerAppend ==
  ASSUME NEW T, NEW line \in Seq(T), NEW new, NEW kinds, new.kind \notin kinds
  PROVE  Fewer(Append(line, new), line, kinds)
<1> DEFINE s == Append(line, new)
           at == [i \in DOMAIN line |-> i]
<1>1. /\ DOMAIN s = DOMAIN line \cup {Len(line) + 1}
      /\ s[Len(line) + 1] = new /\ \A i \in DOMAIN line : s[i] = line[i]
  <2>1. new \in T \cup {new} /\ T \subseteq T \cup {new}
    OBVIOUS
  <2> QED
    BY <2>1, Appended
<1>2. \A i \in DOMAIN line : at[i] = i
  OBVIOUS
<1> HIDE DEF s, at
<1>3. \A i \in DOMAIN s : s[i].kind \in kinds => i \in DOMAIN line
  BY <1>1
<1>4. \A i \in DOMAIN s : s[i].kind \in kinds => at[i] \in DOMAIN line /\ s[i] = line[at[i]]
  BY <1>1, <1>2, <1>3
<1>5. \A i, j \in DOMAIN s : s[i].kind \in kinds /\ s[j].kind \in kinds /\ i < j => at[i] < at[j]
  BY <1>2, <1>3
<1>6. Fewer(s, line, kinds)
  BY <1>4, <1>5 DEF Fewer
<1> QED
  BY <1>6 DEF s

\* A refresh in flight has at most one read of pages on its way, with the status
\* before it if that is still to be read; without a refresh there is none.
OneRead ==
  /\ \A i, j \in PagesAt(asked) : i = j
  /\ \A i, j \in PagesAt(answers) : i = j
  /\ \A i \in DOMAIN asked, j \in PagesAt(asked) : asked[i].kind = "status" => i < j
  /\ PagesAt(answers) # {} => \A i \in DOMAIN asked : asked[i].kind \notin Reads
  /\ PagesAt(answers) # {} => refresh # NoRefresh /\ refresh.seen # 0
  /\ \A i \in DOMAIN asked :
       /\ asked[i].kind \in Reads => refresh # NoRefresh
       /\ asked[i].kind = "pages" => refresh.seen # 0

\* Fewer pages are still at most one.
LEMMA FewerPages ==
  ASSUME NEW T, NEW new \in Seq(T), NEW S, NEW old \in Seq(S), Fewer(new, old, Reads)
  PROVE  /\ PagesAt(old) = {} => PagesAt(new) = {}
         /\ (\A i, j \in PagesAt(old) : i = j) => \A i, j \in PagesAt(new) : i = j
<1>1. PICK at : /\ \A i \in DOMAIN new : new[i].kind \in Reads =>
                     at[i] \in DOMAIN old /\ new[i] = old[at[i]]
                /\ \A i, j \in DOMAIN new :
                     new[i].kind \in Reads /\ new[j].kind \in Reads /\ i < j => at[i] < at[j]
  BY DEF Fewer
<1>2. \A i \in PagesAt(new) : i \in DOMAIN new /\ new[i].kind \in Reads /\ at[i] \in PagesAt(old)
  BY <1>1 DEF PagesAt, Paging, Reads
<1>3. ASSUME NEW i \in PagesAt(new), NEW j \in PagesAt(new), at[i] = at[j]
      PROVE  i = j
  <2>1. i \in Nat /\ j \in Nat /\ at[i] \in Nat
    BY <1>2, Positions DEF PagesAt
  <2>2. ~(i < j) /\ ~(j < i)
    BY <1>1, <1>2, <1>3, <2>1
  <2> QED
    BY <2>1, <2>2
<1> QED
  BY <1>2, <1>3

\* Fewer reads for the same refresh.
LEMMA OneReadFewer ==
  ASSUME Typed, Typed', OneRead,
         Fewer(asked', asked, Reads), Fewer(answers', answers, Reads),
         refresh # NoRefresh => refresh' # NoRefresh /\ refresh'.seen = refresh.seen
  PROVE  OneRead'
<1>1. /\ asked \in Seq(Call) /\ asked' \in Seq(Call)
      /\ answers \in Seq(Reply) /\ answers' \in Seq(Reply')
  BY DEF Typed
<1>2. /\ \A i, j \in PagesAt(asked)' : i = j
      /\ \A i, j \in PagesAt(answers)' : i = j
      /\ PagesAt(answers)' # {} => PagesAt(answers) # {}
  BY <1>1, FewerPages DEF OneRead, PagesAt
<1>3. PICK at : /\ \A i \in DOMAIN asked' : asked'[i].kind \in Reads =>
                     at[i] \in DOMAIN asked /\ asked'[i] = asked[at[i]]
                /\ \A i, j \in DOMAIN asked' :
                     asked'[i].kind \in Reads /\ asked'[j].kind \in Reads /\ i < j
                     => at[i] < at[j]
  BY DEF Fewer
<1>4. ASSUME NEW i \in DOMAIN asked', NEW j \in PagesAt(asked'), asked'[i].kind = "status"
      PROVE  i < j
  <2>1. /\ j \in DOMAIN asked' /\ asked'[j].kind \in Reads /\ asked'[i].kind \in Reads
        /\ asked'[j].kind # "status"
    BY <1>4 DEF PagesAt, Paging, Reads
  <2>2. at[i] < at[j]
    BY <1>3, <1>4, <2>1 DEF OneRead, PagesAt
  <2>3. i \in Nat /\ j \in Nat /\ at[i] \in Nat /\ at[j] \in Nat
    BY <1>1, <1>3, <2>1, Positions
  <2>4. ~(j < i)
    BY <1>3, <2>1, <2>2, <2>3
  <2> QED
    BY <1>4, <2>1, <2>3, <2>4
<1>5. \A i \in DOMAIN asked' : asked'[i].kind \in Reads =>
        \E j \in DOMAIN asked : asked[j].kind = asked'[i].kind
  BY <1>3
<1>6. PagesAt(answers)' # {} =>
        /\ \A i \in DOMAIN asked' : asked'[i].kind \notin Reads
        /\ refresh' # NoRefresh /\ refresh'.seen # 0
  BY <1>2, <1>5 DEF OneRead
<1>7. \A i \in DOMAIN asked' :
        /\ asked'[i].kind \in Reads => refresh' # NoRefresh
        /\ asked'[i].kind = "pages" => refresh'.seen # 0
  BY <1>5 DEF OneRead, Reads
<1> QED
  BY <1>2, <1>4, <1>6, <1>7 DEF OneRead, PagesAt

\* Nothing of a kind that was taken off a line is left on it.
LEMMA WithoutKinds ==
  ASSUME NEW T, NEW line \in Seq(T), NEW kinds
  PROVE  /\ Without(line, OfKind(line, kinds)) \in Seq(T)
         /\ \A i \in DOMAIN Without(line, OfKind(line, kinds)) :
              Without(line, OfKind(line, kinds))[i].kind \notin kinds
<1> DEFINE gone == OfKind(line, kinds)
           s == Without(line, gone)
<1>1. s \in Seq(T) /\ \E at : Keeps(s, line, Len(line), gone, at)
  BY WithoutKeeps
<1>2. PICK at : Keeps(s, line, Len(line), gone, at)
  BY <1>1
<1>3. \A m \in DOMAIN line : line[m].kind \in kinds => line[m] \in gone
  BY DEF OfKind, Range
<1> HIDE DEF s, gone
<1>4. DOMAIN s = 1..Len(s) /\ DOMAIN line = 1..Len(line)
  BY <1>1, Positions
<1>5. \A i \in DOMAIN s : s[i].kind \notin kinds
  BY <1>2, <1>3, <1>4 DEF Keeps
<1> QED
  BY <1>1, <1>5 DEF s, gone

\* What the connection has after a refresh has started.
LEMMA StartLine ==
  ASSUME Typed, NEW shown \in View, StartRefresh(shown)
  PROVE  \E n \in Nat :
           /\ DOMAIN asked' = 1..(n + 2)
           /\ \A i \in 1..n : asked'[i].kind \notin Reads
           /\ asked'[n + 1].kind = "status" /\ asked'[n + 2].kind = "data"
<1> DEFINE s == Others(asked)
           c == StatusFirst(Cardinality(shown.entries))
<1>1. /\ s \in Seq(Call) /\ \A i \in DOMAIN s : s[i].kind \notin Reads
  BY WithoutKinds DEF Others, Typed
<1>2. Cardinality(shown.entries) \in Nat
  BY EntriesAreFinite DEF View
<1>3. c \in Seq(Call) /\ Len(c) = 2 /\ c[1].kind = "status" /\ c[2].kind = "data"
  BY <1>2 DEF StatusFirst, Call
<1>4. asked' = s \o c
  BY DEF StartRefresh
<1> HIDE DEF s, c
<1>5. /\ s \o c \in Seq(Call) /\ Len(s \o c) = Len(s) + 2
      /\ \A i \in 1..(Len(s) + 2) : (s \o c)[i] = IF i <= Len(s) THEN s[i] ELSE c[i - Len(s)]
  <2>1. /\ s \o c \in Seq(Call) /\ Len(s \o c) = Len(s) + Len(c)
        /\ \A i \in 1..(Len(s) + Len(c)) :
             (s \o c)[i] = IF i <= Len(s) THEN s[i] ELSE c[i - Len(s)]
    BY <1>1, <1>3, ConcatProperties
  <2>2. Len(c) = 2
    BY <1>3
  <2> QED
    BY <2>1, <2>2
<1>6. Len(s) \in Nat /\ DOMAIN s = 1..Len(s) /\ DOMAIN (s \o c) = 1..(Len(s) + 2)
  BY <1>1, <1>5, Positions
<1>7. /\ \A i \in 1..Len(s) : (s \o c)[i] = s[i]
      /\ (s \o c)[Len(s) + 1] = c[1] /\ (s \o c)[Len(s) + 2] = c[2]
  BY <1>5, <1>6
<1>8. /\ Len(s) \in Nat /\ DOMAIN asked' = 1..(Len(s) + 2)
      /\ \A i \in 1..Len(s) : asked'[i].kind \notin Reads
      /\ asked'[Len(s) + 1].kind = "status" /\ asked'[Len(s) + 2].kind = "data"
  BY <1>1, <1>3, <1>4, <1>6, <1>7
<1> HIDE <1>4
<1> QED
  BY <1>8

\* A record for a refresh is one.
LEMMA Refreshing ==
  ASSUME NEW r \in [cursor : 0..MaxRevision, seen : 0..MaxRevision]
  PROVE  r # NoRefresh
BY RefreshAssumption, Bounds

\* A new refresh, while no pages are on their way back.
LEMMA OneReadStart ==
  ASSUME Typed, NEW shown \in View, StartRefresh(shown), PagesAt(answers') = {}
  PROVE  OneRead'
<1>1. PICK n \in Nat :
        /\ DOMAIN asked' = 1..(n + 2)
        /\ \A i \in 1..n : asked'[i].kind \notin Reads
        /\ asked'[n + 1].kind = "status" /\ asked'[n + 2].kind = "data"
  BY StartLine
<1>2. refresh' # NoRefresh
  <2>1. refresh' \in [cursor : 0..MaxRevision, seen : 0..MaxRevision]
    BY StartTypes, Bounds
  <2> QED
    BY <2>1, Refreshing
<1>3. PagesAt(asked') = {n + 2}
  BY <1>1 DEF PagesAt, Paging, Reads
<1>4. \A i \in DOMAIN asked' : asked'[i].kind = "status" => i < n + 2
  BY <1>1
<1>5. \A i \in DOMAIN asked' : asked'[i].kind # "pages"
  BY <1>1 DEF Reads
<1> QED
  BY <1>2, <1>3, <1>4, <1>5 DEF OneRead, PagesAt

\* No refresh, and nothing read.
LEMMA OneReadNone ==
  ASSUME Typed, asked' = Others(asked), PagesAt(answers') = {}
  PROVE  OneRead'
<1>1. \A i \in DOMAIN asked' : asked'[i].kind \notin Reads
  BY WithoutKinds DEF Others, Typed
<1> QED
  BY <1>1 DEF OneRead, PagesAt, Paging, Reads

\* The end of a refresh.
LEMMA OneReadEnd ==
  ASSUME Typed, NEW shown \in View, EndRefresh(shown), PagesAt(answers') = {}
  PROVE  OneRead'
BY OneReadStart, OneReadNone DEF EndRefresh

\* Sharing a refresh, while what comes back for it gets fewer.
LEMMA OneReadJoin ==
  ASSUME Typed, Typed', OneRead, NEW shown \in View, Fewer(answers', answers, Reads),
         \/ UNCHANGED <<refresh, asked>>
         \/ JoinRefresh
         \/ refresh = NoRefresh /\ StartRefresh(shown)
  PROVE  OneRead'
<1>1. /\ asked \in Seq(Call) /\ answers \in Seq(Reply) /\ answers' \in Seq(Reply')
      /\ view \in View
  BY DEF Typed, TypeOK
<1>2. CASE UNCHANGED <<refresh, asked>>
  BY <1>1, <1>2, FewerSame, OneReadFewer
<1>3. CASE refresh = NoRefresh
  <2>1. PagesAt(answers') = {}
    BY <1>1, <1>3, FewerPages DEF OneRead
  <2> QED
    BY <1>1, <1>2, <1>3, <2>1, OneReadStart DEF JoinRefresh
<1> QED
  BY <1>2, <1>3 DEF JoinRefresh

\* The answer that arrives.
LEMMA FirstAnswer ==
  ASSUME Typed, OneRead, Arrives("data") \/ Arrives("pages"), answers' = Tail(answers)
  PROVE  /\ 1 \in PagesAt(answers) /\ Head(answers) = answers[1]
         /\ PagesAt(answers') = {}
<1>1. answers \in Seq(Reply) /\ answers # <<>> /\ Head(answers).kind \in Paging
  BY DEF Typed, Arrives, Paging
<1>2. /\ 1 \in DOMAIN answers /\ Head(answers) = answers[1]
      /\ \A i \in 1..Len(Tail(answers)) :
           i + 1 \in 1..Len(answers) /\ Tail(answers)[i] = answers[i + 1]
      /\ DOMAIN answers = 1..Len(answers) /\ Tail(answers) \in Seq(Reply)
      /\ DOMAIN Tail(answers) = 1..Len(Tail(answers))
  BY <1>1, Heads, Positions
<1>3. 1 \in PagesAt(answers)
  BY <1>1, <1>2 DEF PagesAt
<1>4. ASSUME NEW i \in PagesAt(answers')
      PROVE  FALSE
  <2>1. i \in 1..Len(Tail(answers)) /\ i + 1 \in PagesAt(answers) /\ i \in Nat \ {0}
    BY <1>2, <1>4, Positions DEF PagesAt
  <2>2. i + 1 = 1
    BY <1>3, <2>1 DEF OneRead
  <2> QED
    BY <2>1, <2>2
<1> QED
  BY <1>2, <1>3, <1>4

\* The host answers a call.
LEMMA OneReadHost ==
  ASSUME Typed, Typed', OneRead, HostReads
  PROVE  OneRead'
<1> DEFINE call == Head(asked)
           rest == Tail(asked)
<1>1. /\ asked \in Seq(Call) /\ asked # <<>> /\ asked' = rest
      /\ answers \in Seq(Reply) /\ answers' \in Seq(Reply')
      /\ refresh \in [cursor : 0..MaxRevision, seen : 0..MaxRevision] \cup {NoRefresh}
      /\ revision \in 1..MaxRevision
  BY DEF Typed, TypeOK, HostReads
<1>2. /\ 1 \in DOMAIN asked /\ call = asked[1] /\ call \in Call
      /\ \A i \in 1..Len(rest) : i + 1 \in 1..Len(asked) /\ rest[i] = asked[i + 1]
      /\ DOMAIN asked = 1..Len(asked) /\ rest \in Seq(Call) /\ DOMAIN rest = 1..Len(rest)
  BY <1>1, Heads, Positions
<1>3. Fewer(asked', asked, Reads)
  BY <1>1, FewerTail
<1>4. CASE call.kind = "status"
  <2>1. refresh' = [refresh EXCEPT !.cursor = revision] /\ answers' = answers
    BY <1>4 DEF HostReads
  <2>2. refresh # NoRefresh
    BY <1>2, <1>4 DEF OneRead, Reads
  <2>3. refresh' \in [cursor : 0..MaxRevision, seen : 0..MaxRevision]
        /\ refresh'.seen = refresh.seen
    BY <1>1, <2>1, <2>2
  <2>4. Fewer(answers', answers, Reads)
    BY <1>1, <2>1, FewerSame
  <2> QED
    BY <1>3, <2>3, <2>4, OneReadFewer, Refreshing
<1>5. CASE call.kind = "older"
  <2>1. PICK new : answers' = Append(answers, new) /\ new.kind = "older"
    BY <1>2, <1>5, PagesForCall DEF HostReads
  <2>2. Fewer(answers', answers, Reads)
    BY <1>1, <2>1, FewerAppend DEF Reads
  <2>3. refresh' = refresh
    BY <1>5 DEF HostReads
  <2> QED
    BY <1>3, <2>2, <2>3, OneReadFewer
<1>6. CASE call.kind \in Paging
  <2>1. 1 \in PagesAt(asked)
    BY <1>2, <1>6 DEF PagesAt
  <2>2. ASSUME NEW i \in 1..Len(rest)
        PROVE  rest[i].kind \notin Reads
    <3>1. i + 1 \in DOMAIN asked /\ rest[i] = asked[i + 1] /\ i \in Nat \ {0} /\ i + 1 # 1
      BY <1>2, Positions
    <3>2. i + 1 \notin PagesAt(asked)
      BY <2>1, <3>1 DEF OneRead
    <3>3. asked[i + 1].kind # "status"
      BY <2>1, <3>1 DEF OneRead
    <3> QED
      BY <3>1, <3>2, <3>3 DEF PagesAt, Paging, Reads
  <2>3. PagesAt(answers) = {} /\ refresh # NoRefresh
    BY <1>2, <1>6 DEF OneRead, Reads, Paging
  <2>4. refresh' # NoRefresh /\ refresh'.seen # 0
    <3>1. CASE call.kind = "data"
      <4>1. refresh' = [refresh EXCEPT !.seen = revision]
        BY <3>1 DEF HostReads
      <4>2. revision \in 0..MaxRevision /\ revision # 0
        BY <1>1, Bounds
      <4>3. refresh' \in [cursor : 0..MaxRevision, seen : 0..MaxRevision]
            /\ refresh'.seen = revision
        BY <1>1, <2>3, <4>1, <4>2
      <4> QED
        BY <4>2, <4>3, Refreshing
    <3>2. CASE call.kind = "pages"
      BY <1>2, <2>3, <3>2 DEF HostReads, OneRead
    <3> QED
      BY <1>6, <3>1, <3>2 DEF Paging
  <2>5. PICK new : answers' = Append(answers, new)
    BY <1>6 DEF HostReads, Paging
  <2>6. \A i, j \in PagesAt(answers') : i = j
    <3>1. DOMAIN answers' = DOMAIN answers \cup {Len(answers) + 1}
          /\ \A i \in DOMAIN answers : answers'[i] = answers[i]
      <4>1. new \in Reply \cup {new} /\ Reply \subseteq Reply \cup {new}
        OBVIOUS
      <4> QED
        BY <1>1, <2>5, <4>1, Appended
    <3>2. PagesAt(answers') \subseteq {Len(answers) + 1}
      BY <2>3, <3>1 DEF PagesAt
    <3> QED
      BY <3>2
  <2>7. /\ PagesAt(asked') = {}
        /\ \A i \in DOMAIN asked' : asked'[i].kind \notin Reads
    BY <1>1, <1>2, <2>2 DEF PagesAt, Paging, Reads
  <2> QED
    BY <2>4, <2>6, <2>7 DEF OneRead, PagesAt, Reads
<1>7. call.kind \in {"status", "older"} \cup Paging
  BY <1>2 DEF Call, Paging
<1> QED
  BY <1>4, <1>5, <1>6, <1>7

\* The pages that arrive are read again, and nothing else is.
LEMMA OneReadAgain ==
  ASSUME Typed, OneRead, ReadArrives, TooFew(Head(answers).page)
  PROVE  OneRead'
<1>1. /\ asked \in Seq(Call) /\ answers' = Tail(answers) /\ UNCHANGED refresh
      /\ asked' = Append(asked, [kind |-> "pages", minimum |-> Cardinality(view.entries)])
  BY DEF Typed, ReadArrives
<1>2. 1 \in PagesAt(answers) /\ PagesAt(answers') = {}
  BY <1>1, FirstAnswer DEF ReadArrives
<1> DEFINE new == [kind |-> "pages", minimum |-> Cardinality(view.entries)]
<1>3. new \in Call \cup {new} /\ new.kind = "pages"
  OBVIOUS
<1> HIDE DEF new
<1>4. /\ DOMAIN asked' = DOMAIN asked \cup {Len(asked) + 1}
      /\ asked'[Len(asked) + 1] = new
      /\ \A i \in DOMAIN asked : asked'[i] = asked[i]
  BY <1>1, <1>3, Appended DEF new
<1>5. /\ \A i \in DOMAIN asked : asked[i].kind \notin Reads
      /\ refresh # NoRefresh /\ refresh.seen # 0
  BY <1>2 DEF OneRead
<1>6. PagesAt(asked') = {Len(asked) + 1}
  BY <1>3, <1>4, <1>5 DEF PagesAt, Paging, Reads
<1>7. \A i \in DOMAIN asked' : asked'[i].kind # "status"
  BY <1>3, <1>4, <1>5 DEF Reads
<1> QED
  BY <1>1, <1>2, <1>5, <1>6, <1>7 DEF OneRead, PagesAt

\* OneRead is kept.
LEMMA OneReadStep ==
  ASSUME Typed, OneRead, [Next]_vars
  PROVE  OneRead'
<1>1. Reading
  BY DEF OneRead, Reading
<1>2. Typed'
  BY <1>1, TypedStep
<1>3. /\ asked \in Seq(Call) /\ answers \in Seq(Reply) /\ view \in View
      /\ Failing(view) \in View
  BY DEF Typed, TypeOK, Failing, View
<1>4. Fewer(asked, asked, Reads) /\ Fewer(answers, answers, Reads)
  BY <1>3, FewerSame
<1>5. CASE UNCHANGED <<refresh, asked>> /\ Fewer(answers', answers, Reads)
  BY <1>2, <1>3, <1>5, OneReadJoin
<1>6. CASE UNCHANGED answers /\ (JoinRefresh \/ UNCHANGED <<refresh, asked>>)
  BY <1>2, <1>3, <1>4, <1>6, OneReadJoin
<1>7. CASE Mount \/ RetryClicked
  BY <1>6, <1>7 DEF Mount, RetryClicked
<1>8. ASSUME NEW g \in Generation, PollChanged(g) \/ DelayEnds(g)
      PROVE  OneRead'
  BY <1>6, <1>8 DEF PollChanged, DelayEnds
<1>9. CASE HostReads
  BY <1>2, <1>9, OneReadHost
<1>10. CASE ReadArrives
  <2>1. PagesAt(answers') = {} /\ Shown(Head(answers).page) \in View
    BY <1>1, <1>10, FirstAnswer, ReadEnds DEF ReadArrives
  <2> QED
    BY <1>10, <2>1, OneReadAgain, OneReadEnd DEF ReadArrives, Shown
<1>11. CASE RefreshFails
  <2>1. PagesAt(answers') = {}
    BY <1>3, <1>11, WithoutKinds DEF RefreshFails, Others, PagesAt, Paging, Reads
  <2> QED
    BY <1>3, <1>11, <2>1, OneReadEnd DEF RefreshFails
<1>12. CASE LoadOlder
  <2>1. Fewer(asked', asked, Reads)
    BY <1>3, <1>12, FewerAppend DEF LoadOlder, Reads
  <2> QED
    BY <1>2, <1>4, <1>12, <2>1, OneReadFewer DEF LoadOlder
<1>13. CASE OlderFails
  BY <1>2, <1>3, <1>13, FewerWithout, OneReadFewer DEF OlderFails
<1>14. CASE OlderArrives
  BY <1>3, <1>5, <1>14, FewerTail DEF OlderArrives, Arrives
<1>15. CASE MutationAnswered
  <2>1. Fewer(answers', answers, Reads)
    BY <1>3, <1>15, FewerTail DEF MutationAnswered, Arrives
  <2>2. \E shown \in View : \/ UNCHANGED <<refresh, asked>>
                            \/ JoinRefresh
                            \/ refresh = NoRefresh /\ StartRefresh(shown)
    <3>1. \E shown : /\ shown = view'
                     /\ \/ UNCHANGED <<refresh, asked>>
                        \/ JoinRefresh
                        \/ refresh = NoRefresh /\ StartRefresh(shown)
      BY <1>15 DEF MutationAnswered, RefreshSharing, RefreshAfterCurrent
    <3> QED
      BY <1>15, <3>1, ViewOfAnswer DEF MutationAnswered
  <2> QED
    BY <1>2, <2>1, <2>2, OneReadJoin
<1>16. ASSUME NEW k \in Mutation,
              \/ HostAccepts(k) \/ MutationFails(k)
              \/ \E result \in {"stale", "refused"} : HostRefuses(k, result)
       PROVE  OneRead'
  <2>1. UNCHANGED <<refresh, asked>>
    BY <1>16 DEF HostAccepts, HostRefuses, Answer, MutationFails
  <2>2. CASE MutationFails(k)
    BY <1>3, <1>5, <2>1, <2>2, FewerWithout DEF MutationFails
  <2>3. ASSUME NEW result, Answer(k, result)
        PROVE  Fewer(answers', answers, Reads)
    BY <1>3, <2>3, FewerAppend DEF Answer, Reads
  <2> QED
    BY <1>5, <1>16, <2>1, <2>2, <2>3 DEF HostAccepts, HostRefuses
<1>17. CASE UNCHANGED <<refresh, asked>> /\ UNCHANGED answers
  BY <1>6, <1>17
<1> QED
  BY <1>7, <1>8, <1>9, <1>10, <1>11, <1>12, <1>13, <1>14, <1>15, <1>16, <1>17,
     CallMoves, ReplyMoves

\* It holds at the start.
LEMMA OneReadInit ==
  ASSUME Init
  PROVE  OneRead
<1>1. DOMAIN asked = {} /\ DOMAIN answers = {}
  BY DEF Init
<1> QED
  BY <1>1 DEF OneRead, PagesAt

-----------------------------------------------------------------------------
(* A mutation is answered once.                                             *)

\* A mutation that was answered has one answer on its way, no other has any.
AnswersOf(k) == {i \in DOMAIN answers : answers[i].kind = "mutation" /\ answers[i].of = k}
OneAnswer ==
  /\ \A k \in Mutation : \A i, j \in AnswersOf(k) : i = j
  /\ \A k \in Mutation : AnswersOf(k) # {} => mutation[k] = "answered"

\* Fewer answers, for the same mutation.
LEMMA OneAnswerFewer ==
  ASSUME Typed, Typed', OneAnswer, Fewer(answers', answers, {"mutation"}),
         \A k \in Mutation : mutation[k] = "answered" =>
           mutation'[k] = "answered" \/ AnswersOf(k)' = {}
  PROVE  OneAnswer'
<1>1. /\ DOMAIN answers' \subseteq Nat /\ DOMAIN answers \subseteq Nat
  BY Positions DEF Typed
<1>2. PICK at : /\ \A i \in DOMAIN answers' : answers'[i].kind \in {"mutation"} =>
                     at[i] \in DOMAIN answers /\ answers'[i] = answers[at[i]]
                /\ \A i, j \in DOMAIN answers' :
                     /\ answers'[i].kind \in {"mutation"}
                     /\ answers'[j].kind \in {"mutation"} /\ i < j
                     => at[i] < at[j]
  BY DEF Fewer
<1>3. ASSUME NEW k \in Mutation, NEW i \in AnswersOf(k)'
      PROVE  /\ at[i] \in AnswersOf(k) /\ i \in Nat /\ at[i] \in Nat
             /\ i \in DOMAIN answers' /\ answers'[i].kind = "mutation"
  BY <1>1, <1>2, <1>3 DEF AnswersOf
<1>4. ASSUME NEW k \in Mutation, NEW i \in AnswersOf(k)', NEW j \in AnswersOf(k)'
      PROVE  i = j
  <2>1. at[i] = at[j]
    BY <1>3, <1>4 DEF OneAnswer
  <2>2. ~(i < j) /\ ~(j < i)
    BY <1>2, <1>3, <1>4, <2>1
  <2> QED
    BY <1>3, <1>4, <2>2
<1>5. ASSUME NEW k \in Mutation, AnswersOf(k)' # {}
      PROVE  mutation'[k] = "answered"
  BY <1>3, <1>5 DEF OneAnswer
<1> QED
  BY <1>4, <1>5 DEF OneAnswer

\* The answer that arrives is the only one of its mutation.
LEMMA OnlyAnswer ==
  ASSUME Typed, OneAnswer, Arrives("mutation"), answers' = Tail(answers),
         NEW k \in Mutation, Head(answers).of = k
  PROVE  mutation[k] = "answered" /\ AnswersOf(k)' = {}
<1>1. answers \in Seq(Reply) /\ answers # <<>> /\ Head(answers).kind = "mutation"
  BY DEF Typed, Arrives
<1>2. /\ 1 \in DOMAIN answers /\ Head(answers) = answers[1]
      /\ \A i \in 1..Len(Tail(answers)) :
           i + 1 \in 1..Len(answers) /\ Tail(answers)[i] = answers[i + 1]
      /\ DOMAIN answers = 1..Len(answers) /\ Tail(answers) \in Seq(Reply)
      /\ DOMAIN Tail(answers) = 1..Len(Tail(answers))
  BY <1>1, Heads, Positions
<1>3. 1 \in AnswersOf(k)
  BY <1>1, <1>2 DEF AnswersOf
<1>4. ASSUME NEW i \in AnswersOf(k)'
      PROVE  FALSE
  <2>1. i \in 1..Len(Tail(answers)) /\ i + 1 \in AnswersOf(k)
    BY <1>2, <1>4 DEF AnswersOf
  <2>2. i \in Nat \ {0}
    BY <1>2, <2>1, Positions
  <2>3. i + 1 = 1
    BY <1>3, <2>1 DEF OneAnswer
  <2> QED
    BY <2>2, <2>3
<1> QED
  BY <1>3, <1>4 DEF OneAnswer

\* An answer that the host gives.
LEMMA OneAnswerGiven ==
  ASSUME Typed, Typed', OneAnswer, NEW k \in Mutation, NEW result, Answer(k, result)
  PROVE  OneAnswer'
<1> DEFINE new == [kind |-> "mutation", of |-> k, result |-> result, cursor |-> revision']
<1>1. /\ answers \in Seq(Reply) /\ answers' = Append(answers, new)
      /\ mutation[k] = "asked" /\ mutation' = [mutation EXCEPT ![k] = "answered"]
      /\ mutation \in [Mutation -> {"idle", "asked", "answered", "waiting", "refreshing"}]
      /\ new.of = k /\ new \in Reply \cup {new}
  BY DEF Typed, TypeOK, Answer
<1> HIDE DEF new
<1>2. /\ DOMAIN answers' = DOMAIN answers \cup {Len(answers) + 1}
      /\ answers'[Len(answers) + 1] = new
      /\ \A i \in DOMAIN answers : answers'[i] = answers[i]
  BY <1>1, Appended
<1>3. AnswersOf(k) = {}
  BY <1>1 DEF OneAnswer
<1>4. AnswersOf(k)' \subseteq {Len(answers) + 1}
  BY <1>2, <1>3 DEF AnswersOf
<1>5. ASSUME NEW m \in Mutation, m # k
      PROVE  AnswersOf(m)' \subseteq AnswersOf(m) /\ mutation'[m] = mutation[m]
  BY <1>1, <1>2, <1>5 DEF AnswersOf
<1>6. mutation'[k] = "answered"
  BY <1>1
<1>7. ASSUME NEW m \in Mutation
      PROVE  /\ \A i, j \in AnswersOf(m)' : i = j
             /\ AnswersOf(m)' # {} => mutation'[m] = "answered"
  <2>1. CASE m = k
    BY <1>4, <1>6, <2>1
  <2>2. CASE m # k
    BY <1>5, <2>2 DEF OneAnswer
  <2> QED
    BY <2>1, <2>2
<1> QED
  BY <1>7 DEF OneAnswer

\* OneAnswer is kept.
LEMMA OneAnswerStep ==
  ASSUME Typed, OneRead, OneAnswer, [Next]_vars
  PROVE  OneAnswer'
<1>1. Typed'
  BY TypedStep DEF OneRead, Reading
<1>2. /\ answers \in Seq(Reply)
      /\ mutation \in [Mutation -> {"idle", "asked", "answered", "waiting", "refreshing"}]
  BY DEF Typed, TypeOK
<1>3. Fewer(answers, answers, {"mutation"})
  BY <1>2, FewerSame
<1>4. CASE Fewer(answers', answers, {"mutation"}) /\ UNCHANGED mutation
  BY <1>1, <1>4, OneAnswerFewer
<1>5. ASSUME NEW shown, EndRefresh(shown), Fewer(answers', answers, {"mutation"})
      PROVE  OneAnswer'
  <2>1. \A k \in Mutation : mutation[k] = "answered" => mutation'[k] = "answered"
    BY <1>2, <1>5 DEF EndRefresh
  <2> QED
    BY <1>1, <1>5, <2>1, OneAnswerFewer
<1>6. CASE ReadArrives \/ OlderArrives
  <2>1. answers # <<>> /\ answers' = Tail(answers)
    BY <1>6 DEF ReadArrives, OlderArrives, Arrives
  <2>2. Fewer(answers', answers, {"mutation"})
    BY <1>2, <2>1, FewerTail
  <2> QED
    BY <1>4, <1>5, <1>6, <2>2 DEF ReadArrives, OlderArrives
<1>7. CASE RefreshFails \/ OlderFails
  <2>1. PICK gone : answers' = Without(answers, gone)
    BY <1>7 DEF RefreshFails, OlderFails, Others
  <2>2. Fewer(answers', answers, {"mutation"})
    BY <1>2, <2>1, FewerWithout
  <2> QED
    BY <1>4, <1>5, <1>7, <2>2 DEF RefreshFails, OlderFails
<1>8. CASE HostReads
  <2>1. Head(asked) \in Call /\ Head(asked).kind # "mutation"
    <3>1. Head(asked) \in Call
      BY <1>8, Heads DEF Typed, HostReads
    <3> QED
      BY <3>1 DEF Call
  <2>2. \/ UNCHANGED answers
        \/ \E new : answers' = Append(answers, new) /\ new.kind = Head(asked).kind
    BY <1>8, <2>1, PagesForCall DEF HostReads
  <2>3. Fewer(answers', answers, {"mutation"})
    BY <1>2, <1>3, <2>1, <2>2, FewerAppend
  <2> QED
    BY <1>4, <1>8, <2>3 DEF HostReads
<1>9. CASE MutationAnswered
  <2>1. PICK k \in Mutation : Head(answers).of = k
    BY <1>9, AnswerTypes DEF MutationAnswered
  <2>2. AnswersOf(k)' = {}
    BY <1>9, <2>1, OnlyAnswer DEF MutationAnswered
  <2>3. \E stage : mutation' = [mutation EXCEPT ![k] = stage]
    BY <1>9, <2>1 DEF MutationAnswered, RefreshSharing, RefreshAfterCurrent
  <2>4. Fewer(answers', answers, {"mutation"})
    BY <1>2, <1>9, FewerTail DEF MutationAnswered, Arrives
  <2> QED
    BY <1>1, <1>2, <2>2, <2>3, <2>4, OneAnswerFewer
<1>10. ASSUME NEW k \in Mutation, Submit(k)
       PROVE  OneAnswer'
  <2>1. /\ answers' = answers /\ mutation[k] = "idle"
        /\ mutation' = [mutation EXCEPT ![k] = "asked"]
    BY <1>10 DEF Submit
  <2> QED
    BY <1>1, <1>2, <1>3, <2>1, OneAnswerFewer
<1>11. ASSUME NEW k \in Mutation,
              \/ HostAccepts(k) \/ \E result \in {"stale", "refused"} : HostRefuses(k, result)
       PROVE  OneAnswer'
  BY <1>1, <1>11, OneAnswerGiven DEF HostAccepts, HostRefuses
<1>12. ASSUME NEW k \in Mutation, MutationFails(k)
       PROVE  OneAnswer'
  <2> DEFINE gone == {a \in OfKind(answers, {"mutation"}) : a.of = k}
  <2>1. /\ answers' = Without(answers, gone)
        /\ mutation' = [mutation EXCEPT ![k] = "idle"]
    BY <1>12 DEF MutationFails
  <2>2. \A m \in DOMAIN answers :
          answers[m].kind = "mutation" /\ answers[m].of = k => answers[m] \in gone
    BY DEF OfKind, Range
  <2> HIDE DEF gone
  <2>3. PICK at : Keeps(answers', answers, Len(answers), gone, at)
    BY <1>2, <2>1, WithoutKeeps
  <2>4. DOMAIN answers' = 1..Len(answers') /\ DOMAIN answers = 1..Len(answers)
    BY <1>1, <1>2, Positions DEF Typed
  <2>5. AnswersOf(k)' = {}
    BY <2>2, <2>3, <2>4 DEF AnswersOf, Keeps
  <2>6. Fewer(answers', answers, {"mutation"})
    BY <1>2, <2>1, FewerWithout
  <2> QED
    BY <1>1, <1>2, <2>1, <2>5, <2>6, OneAnswerFewer
<1>13. CASE UNCHANGED answers /\ UNCHANGED <<mutation, committed>>
  BY <1>3, <1>4, <1>13
<1> QED
  BY <1>6, <1>7, <1>8, <1>9, <1>10, <1>11, <1>12, <1>13, MutationMoves, ReplyMoves

\* At first there are no answers.
LEMMA OneAnswerInit ==
  ASSUME Init
  PROVE  OneAnswer
<1>1. DOMAIN answers = {}
  BY DEF Init
<1> QED
  BY <1>1 DEF OneAnswer, AnswersOf

-----------------------------------------------------------------------------
(* How old the pages are.                                                   *)

\* Pages read before a change that took entries away.
Stale(a) == a.kind # "mutation" /\ ~(a.page.entries \subseteq Thread)
Clean(line) == \A i \in DOMAIN line : ~Stale(line[i])

\* Whatever is stale on the line is followed by the data of a refresh.
Renewed(line) ==
  \A i \in DOMAIN line : Stale(line[i]) =>
    \E j \in DOMAIN line : i < j /\ line[j].kind = "data"

\* What was read at the present cursor is followed by nothing stale, on the view
\* and on the connection.
ViewIsNew ==
  /\ view.seen <= revision
  /\ view.seen = revision => view.entries \subseteq Thread /\ Clean(answers)
RefreshIsNew ==
  refresh # NoRefresh =>
    refresh.seen <= revision /\ (refresh.seen = revision => Renewed(answers))
Ghostless == ViewIsNew /\ RefreshIsNew

\* While the host's view stays, so does what is stale.
LEMMA SameThread ==
  ASSUME UNCHANGED hostVars
  PROVE  /\ Thread' = Thread
         /\ Clean(answers') => Clean(answers)'
         /\ Renewed(answers') => Renewed(answers)'
<1>1. Thread' = Thread
  BY DEF hostVars, Thread
<1> QED
  BY <1>1 DEF Clean, Renewed, Stale

\* Fewer answers have no more stale ones.
LEMMA TailIsClean ==
  ASSUME Typed, answers # <<>>, answers' = Tail(answers)
  PROVE  /\ Clean(answers) => Clean(answers')
         /\ Renewed(answers) => Renewed(answers')
<1>1. answers \in Seq(Reply)
  BY DEF Typed
<1>2. /\ \A i \in 1..Len(Tail(answers)) :
           i + 1 \in 1..Len(answers) /\ Tail(answers)[i] = answers[i + 1]
      /\ DOMAIN answers = 1..Len(answers) /\ DOMAIN Tail(answers) = 1..Len(Tail(answers))
      /\ Len(answers) \in Nat /\ Len(Tail(answers)) = Len(answers) - 1
  BY <1>1, Heads, Positions
<1>4. Clean(answers) => Clean(answers')
  BY <1>2 DEF Clean
<1>5. ASSUME Renewed(answers), NEW i \in DOMAIN answers', Stale(answers'[i])
      PROVE  \E j \in DOMAIN answers' : i < j /\ answers'[j].kind = "data"
  <2>1. i \in 1..Len(Tail(answers)) /\ i + 1 \in DOMAIN answers
        /\ answers'[i] = answers[i + 1]
    BY <1>2
  <2>2. Stale(answers[i + 1])
    BY <1>5, <2>1
  <2>3. PICK j \in DOMAIN answers : i + 1 < j /\ answers[j].kind = "data"
    BY <1>5, <2>1, <2>2 DEF Renewed
  <2>4. j - 1 \in 1..Len(Tail(answers)) /\ i < j - 1 /\ (j - 1) + 1 = j
    BY <1>2, <2>1, <2>3
  <2> QED
    BY <1>2, <2>3, <2>4
<1> QED
  BY <1>4, <1>5 DEF Renewed

\* Taking answers off the connection makes none of the others stale.
LEMMA WithoutIsClean ==
  ASSUME Typed, NEW gone, answers' = Without(answers, gone)
  PROVE  /\ Clean(answers) => Clean(answers')
         /\ Renewed(answers) /\ (\A a \in gone : a.kind # "data") => Renewed(answers')
<1>1. answers \in Seq(Reply)
  BY DEF Typed
<1>2. answers' \in Seq(Reply)
      /\ \E at : Keeps(answers', answers, Len(answers), gone, at)
  BY <1>1, WithoutKeeps
<1>3. PICK at : Keeps(answers', answers, Len(answers), gone, at)
  BY <1>2
<1>4. /\ DOMAIN answers = 1..Len(answers) /\ Len(answers) \in Nat
      /\ DOMAIN answers' = 1..Len(answers') /\ Len(answers') \in Nat
  BY <1>1, <1>2, Positions
<1>6. \A i \in DOMAIN answers' : at[i] \in DOMAIN answers /\ answers'[i] = answers[at[i]]
  BY <1>3, <1>4 DEF Keeps
<1>7. Clean(answers) => Clean(answers')
  BY <1>6 DEF Clean
<1>8. ASSUME Renewed(answers), \A a \in gone : a.kind # "data",
             NEW i \in DOMAIN answers', Stale(answers'[i])
      PROVE  \E j \in DOMAIN answers' : i < j /\ answers'[j].kind = "data"
  <2>1. Stale(answers[at[i]])
    BY <1>6, <1>8
  <2>2. PICK m \in DOMAIN answers : at[i] < m /\ answers[m].kind = "data"
    BY <1>6, <1>8, <2>1 DEF Renewed
  <2>3. answers[m] \notin gone
    BY <1>8, <2>2
  <2>4. PICK j \in DOMAIN answers' : at[j] = m
    BY <1>3, <1>4, <2>2, <2>3 DEF Keeps
  <2>5. i \in Nat /\ j \in Nat /\ at[i] \in Nat /\ at[j] \in Nat
    BY <1>4, <1>6
  <2>6. i < j
    <3>1. j < i => at[j] < at[i]
      BY <1>3, <1>4 DEF Keeps
    <3>2. i # j
      BY <2>2, <2>4, <2>5
    <3> QED
      BY <2>2, <2>4, <2>5, <3>1, <3>2
  <2> QED
    BY <1>6, <2>2, <2>4, <2>6
<1> QED
  BY <1>7, <1>8 DEF Renewed

\* So has an answer that is not stale itself.
LEMMA AppendIsClean ==
  ASSUME Typed, NEW new, answers' = Append(answers, new), ~Stale(new)
  PROVE  /\ Clean(answers) => Clean(answers')
         /\ Renewed(answers) \/ new.kind = "data" => Renewed(answers')
<1>1. answers \in Seq(Reply) /\ new \in Reply \cup {new}
  BY DEF Typed
<1>2. /\ DOMAIN answers' = DOMAIN answers \cup {Len(answers) + 1}
      /\ answers'[Len(answers) + 1] = new
      /\ \A i \in DOMAIN answers : answers'[i] = answers[i] /\ i < Len(answers) + 1
  BY <1>1, Appended
<1>4. \A i \in DOMAIN answers' : Stale(answers'[i]) =>
        i \in DOMAIN answers /\ Stale(answers[i])
  BY <1>2
<1>5. Clean(answers) => Clean(answers')
  BY <1>4 DEF Clean
<1>6. Renewed(answers) => Renewed(answers')
  BY <1>2, <1>4 DEF Renewed
<1>7. new.kind = "data" => Renewed(answers')
  BY <1>2, <1>4 DEF Renewed
<1> QED
  BY <1>5, <1>6, <1>7

\* The end of a refresh leaves none in flight, or one that has read nothing.
LEMMA EndIsNew ==
  ASSUME Typed, NEW shown \in View, EndRefresh(shown), UNCHANGED hostVars
  PROVE  RefreshIsNew'
<1>1. refresh' = NoRefresh \/ refresh' = [cursor |-> 0, seen |-> 0]
  BY StartTypes DEF EndRefresh
<1>2. revision' \in Nat \ {0}
  BY Bounds DEF hostVars, Typed, TypeOK
<1> QED
  BY <1>1, <1>2 DEF RefreshIsNew

\* Whoever wants a refresh gets the one in flight, or one that has read nothing.
LEMMA JoinIsNew ==
  ASSUME Typed, RefreshIsNew, UNCHANGED hostVars, NEW shown \in View,
         Renewed(answers) => Renewed(answers'),
         \/ UNCHANGED refresh \/ JoinRefresh \/ StartRefresh(shown)
  PROVE  RefreshIsNew'
<1>1. view \in View /\ revision' = revision /\ revision \in Nat \ {0}
  BY Bounds DEF hostVars, Typed, TypeOK
<1>2. refresh' = refresh \/ refresh' = [cursor |-> 0, seen |-> 0]
  BY <1>1, StartTypes DEF JoinRefresh
<1> QED
  BY <1>1, <1>2, SameThread DEF RefreshIsNew

\* A view whose data stays as it is.
LEMMA SameIsNew ==
  ASSUME ViewIsNew, UNCHANGED hostVars, view'.seen = view.seen,
         view'.entries = view.entries, Clean(answers) => Clean(answers')
  PROVE  ViewIsNew'
BY SameThread DEF ViewIsNew, hostVars

\* The host reads its thread as it is.
LEMMA GhostlessHost ==
  ASSUME Typed, Ghostless, OneRead, HostReads
  PROVE  Ghostless'
<1>1. /\ UNCHANGED hostVars /\ UNCHANGED view /\ asked \in Seq(Call) /\ asked # <<>>
      /\ refresh \in [cursor : 0..MaxRevision, seen : 0..MaxRevision] \cup {NoRefresh}
      /\ revision \in 1..MaxRevision
  BY DEF HostReads, Typed, TypeOK
<1> DEFINE call == Head(asked)
<1>2. call \in Call /\ call = asked[1] /\ 1 \in DOMAIN asked
  BY <1>1, Heads
<1>3. CASE call.kind = "status"
  <2>1. refresh' = [refresh EXCEPT !.cursor = revision] /\ answers' = answers
    BY <1>3 DEF HostReads
  <2>2. refresh # NoRefresh
    BY <1>2, <1>3 DEF OneRead, Reads
  <2>3. refresh'.seen = refresh.seen
    BY <1>1, <2>1, <2>2
  <2> QED
    BY <1>1, <2>1, <2>2, <2>3, SameIsNew, SameThread
    DEF Ghostless, RefreshIsNew, hostVars
<1>4. CASE call.kind # "status"
  <2> DEFINE new == PagesFor(call)
  <2>1. answers' = Append(answers, new)
    BY <1>4 DEF HostReads
  <2>2. ~Stale(new) /\ new.kind = call.kind
    BY <1>2, <1>4, PagesForCall DEF Stale
  <2> HIDE DEF new
  <2>3. /\ Clean(answers) => Clean(answers')
        /\ Renewed(answers) \/ call.kind = "data" => Renewed(answers')
    BY <2>1, <2>2, AppendIsClean
  <2>4. ViewIsNew'
    BY <1>1, <2>3, SameIsNew DEF Ghostless
  <2>5. CASE call.kind = "data"
    <3>1. refresh # NoRefresh /\ refresh' = [refresh EXCEPT !.seen = revision]
      BY <1>2, <2>5 DEF OneRead, Reads, HostReads
    <3>2. refresh'.seen = revision /\ revision' = revision /\ revision \in Nat
      BY <1>1, <3>1, Bounds DEF hostVars
    <3> QED
      BY <1>1, <2>3, <2>4, <2>5, <3>2, SameThread DEF Ghostless, RefreshIsNew
  <2>6. CASE call.kind # "data"
    <3>1. refresh' = refresh
      BY <1>4, <2>6 DEF HostReads
    <3> QED
      BY <1>1, <2>3, <2>4, <3>1, SameThread DEF Ghostless, RefreshIsNew, hostVars
  <2> QED
    BY <2>5, <2>6
<1> QED
  BY <1>3, <1>4

\* The pages that end a refresh are not stale if they are those of the present.
LEMMA GhostlessEnd ==
  ASSUME Typed, Ghostless, OneRead, ReadArrives, ~TooFew(Head(answers).page)
  PROVE  Ghostless'
<1>1. /\ answers \in Seq(Reply) /\ answers # <<>> /\ UNCHANGED hostVars
      /\ answers' = Tail(answers) /\ EndRefresh(Shown(Head(answers).page))
      /\ Head(answers).kind \in Paging
  BY DEF Typed, ReadArrives, Arrives, Shown, Paging
<1>2. /\ 1 \in PagesAt(answers) /\ Head(answers) = answers[1]
      /\ 1 \in DOMAIN answers /\ DOMAIN answers \subseteq Nat
  BY <1>1, FirstAnswer, Heads, Positions DEF ReadArrives
<1>3. Shown(Head(answers).page) \in View
  BY ReadEnds DEF ReadArrives, OneRead, Reading
<1>4. /\ view'.seen = refresh.seen /\ view'.entries = Head(answers).page.entries
      /\ refresh # NoRefresh
  BY <1>1, <1>2 DEF EndRefresh, Shown, ReadEntries, OneRead
<1>5. refresh.seen = revision => Clean(answers)
  <2> SUFFICES ASSUME refresh.seen = revision, NEW i \in DOMAIN answers, Stale(answers[i])
               PROVE  FALSE
    BY DEF Clean
  <2>1. PICK j \in DOMAIN answers : i < j /\ answers[j].kind = "data"
    BY <1>4 DEF Ghostless, RefreshIsNew, Renewed
  <2>2. j = 1
    BY <1>2, <2>1 DEF OneRead, PagesAt, Paging
  <2>3. i \in 1..Len(answers)
    BY <1>1, Positions
  <2> QED
    BY <2>1, <2>2, <2>3
<1>6. refresh.seen = revision =>
        Head(answers).page.entries \subseteq Thread /\ Clean(answers')
  <2>1. Head(answers).kind # "mutation"
    BY <1>1 DEF Paging
  <2>2. Clean(answers) => Head(answers).page.entries \subseteq Thread
    BY <1>2, <2>1 DEF Clean, Stale
  <2> QED
    BY <1>1, <1>5, <2>2, TailIsClean
<1>7. ViewIsNew'
  BY <1>1, <1>4, <1>6, SameThread DEF ViewIsNew, Ghostless, RefreshIsNew, hostVars
<1>8. RefreshIsNew'
  BY <1>1, <1>3, EndIsNew
<1> QED
  BY <1>7, <1>8 DEF Ghostless

\* A new revision makes what was read before older than it.
LEMMA GhostlessChange ==
  ASSUME Typed, Ghostless, revision' = revision + 1, UNCHANGED <<view, refresh>>
  PROVE  Ghostless'
<1>1. revision \in Nat /\ view.seen \in Nat
      /\ (refresh # NoRefresh => refresh.seen \in Nat)
  BY Bounds DEF Typed, TypeOK, View
<1> QED
  BY <1>1 DEF Ghostless, ViewIsNew, RefreshIsNew

\* Ghostless is kept.
LEMMA GhostlessStep ==
  ASSUME Typed, OneRead, Ghostless, [Next]_vars
  PROVE  Ghostless'
<1>1. /\ view \in View /\ answers \in Seq(Reply)
      /\ Failing(view) \in View /\ Failing(view).seen = view.seen
      /\ Failing(view).entries = view.entries
  BY DEF Typed, TypeOK, Failing, View
<1>2. CASE /\ UNCHANGED hostVars /\ view'.seen = view.seen /\ view'.entries = view.entries
           /\ Clean(answers) => Clean(answers')
           /\ Renewed(answers) => Renewed(answers')
           /\ UNCHANGED refresh \/ JoinRefresh \/ \E shown \in View : StartRefresh(shown)
  <2>1. ViewIsNew'
    BY <1>2, SameIsNew DEF Ghostless
  <2>2. RefreshIsNew'
    BY <1>1, <1>2, JoinIsNew DEF Ghostless
  <2> QED
    BY <2>1, <2>2 DEF Ghostless
<1>3. ASSUME NEW k \in Mutation, HostAccepts(k)
      PROVE  Ghostless'
  BY <1>3, GhostlessChange DEF HostAccepts, Answer
<1>4. CASE HostChanges
  BY <1>4, GhostlessChange DEF HostChanges
<1>5. CASE HostReads
  BY <1>5, GhostlessHost
<1>6. CASE ReadArrives
  <2>1. CASE TooFew(Head(answers).page)
    <3>1. UNCHANGED <<hostVars, view, refresh>> /\ answers # <<>> /\ answers' = Tail(answers)
      BY <1>6, <2>1 DEF ReadArrives, Arrives
    <3> QED
      BY <1>2, <3>1, TailIsClean
  <2> QED
    BY <1>6, <2>1, GhostlessEnd
<1>7. CASE RefreshFails
  <2>1. /\ UNCHANGED hostVars /\ answers' = Others(answers) /\ EndRefresh(Failing(view))
        /\ view' = Failing(view)
    BY <1>7 DEF RefreshFails, EndRefresh
  <2>2. Clean(answers) => Clean(answers')
    BY <2>1, WithoutIsClean DEF Others
  <2> QED
    BY <1>1, <2>1, <2>2, SameIsNew, EndIsNew DEF Ghostless
<1>8. CASE OlderArrives
  <2>1. /\ answers # <<>> /\ answers' = Tail(answers) /\ UNCHANGED <<hostVars, refresh>>
        /\ Head(answers).kind = "older" /\ Head(answers) = answers[1] /\ 1 \in DOMAIN answers
    BY <1>1, <1>8, Heads DEF OlderArrives, Arrives
  <2>2. /\ view'.seen = view.seen
        /\ view'.entries = view.entries \cup Head(answers).page.entries
    BY <1>1, <1>8 DEF OlderArrives, View
  <2>3. Clean(answers) => Head(answers).page.entries \subseteq Thread
    BY <2>1 DEF Clean, Stale
  <2>4. /\ Clean(answers) => Clean(answers')
        /\ Renewed(answers) => Renewed(answers')
    BY <2>1, TailIsClean
  <2> QED
    BY <2>1, <2>2, <2>3, <2>4, SameThread
    DEF Ghostless, ViewIsNew, RefreshIsNew, hostVars
<1>9. CASE OlderFails
  <2>1. PICK c : answers' = Without(answers, {m \in OfKind(answers, {"older"}) : m.of = c})
    BY <1>9 DEF OlderFails
  <2>2. UNCHANGED <<hostVars, refresh>> /\ view' = Failing(view)
    BY <1>9 DEF OlderFails
  <2>3. \A a \in {m \in OfKind(answers, {"older"}) : m.of = c} : a.kind # "data"
    BY DEF OfKind
  <2> QED
    BY <1>1, <1>2, <2>1, <2>2, <2>3, WithoutIsClean
<1>10. CASE MutationAnswered
  <2>1. answers # <<>> /\ answers' = Tail(answers) /\ UNCHANGED hostVars
    BY <1>10 DEF MutationAnswered, Arrives
  <2>2. view'.seen = view.seen /\ view'.entries = view.entries
    BY <1>1, <1>10 DEF MutationAnswered, View
  <2>3. view' \in View
    BY <1>10, ViewOfAnswer
  <2>4. \E shown : /\ shown = view'
                   /\ UNCHANGED refresh \/ JoinRefresh \/ StartRefresh(shown)
    BY <1>10 DEF MutationAnswered, RefreshSharing, RefreshAfterCurrent
  <2> QED
    BY <1>2, <2>1, <2>2, <2>3, <2>4, TailIsClean
<1>11. ASSUME NEW k \in Mutation, NEW result, HostRefuses(k, result)
       PROVE  Ghostless'
  <2> DEFINE new == [kind |-> "mutation", of |-> k, result |-> result, cursor |-> revision']
  <2>1. answers' = Append(answers, new) /\ UNCHANGED <<hostVars, view, refresh>>
    BY <1>11 DEF HostRefuses, Answer
  <2>2. ~Stale(new)
    BY DEF Stale
  <2> HIDE DEF new
  <2> QED
    BY <1>2, <2>1, <2>2, AppendIsClean
<1>12. ASSUME NEW k \in Mutation, MutationFails(k)
       PROVE  Ghostless'
  <2> DEFINE gone == {a \in OfKind(answers, {"mutation"}) : a.of = k}
  <2>1. /\ answers' = Without(answers, gone) /\ UNCHANGED <<hostVars, refresh>>
        /\ view'.seen = view.seen /\ view'.entries = view.entries
    BY <1>1, <1>12 DEF MutationFails
  <2>2. \A a \in gone : a.kind # "data"
    BY DEF OfKind
  <2> HIDE DEF gone
  <2> QED
    BY <1>2, <2>1, <2>2, WithoutIsClean
<1>13. ASSUME NEW g \in Generation, PollFails(g)
       PROVE  Ghostless'
  BY <1>1, <1>2, <1>13 DEF PollFails
<1>14. CASE UNCHANGED hostVars /\ UNCHANGED view /\ UNCHANGED answers
            /\ (UNCHANGED refresh \/ JoinRefresh)
  BY <1>2, <1>14
<1>15. CASE Mount \/ RetryClicked \/ LoadOlder
  BY <1>14, <1>15 DEF Mount, RetryClicked, LoadOlder
<1>16. ASSUME NEW g \in Generation, PollChanged(g) \/ DelayEnds(g)
       PROVE  Ghostless'
  BY <1>14, <1>16 DEF PollChanged, DelayEnds
<1> QED
  BY <1>3, <1>4, <1>5, <1>6, <1>7, <1>8, <1>9, <1>10, <1>11, <1>12, <1>13, <1>14,
     <1>15, <1>16, HostMoves, ViewMoves, ReplyMoves, CallMoves

\* The first view shows nothing, so nothing that is gone.
LEMMA GhostlessInit ==
  ASSUME Init
  PROVE  Ghostless
BY DEF Init, Ghostless, ViewIsNew, RefreshIsNew

-----------------------------------------------------------------------------
(* What a mutation waits for.                                               *)

\* The refresh a mutation waits for has not read the host yet, or has read it
\* after the mutation.
WaitsFor(k) ==
  /\ committed[k] <= revision
  /\ mutation[k] = "refreshing" /\ k # "feedback" =>
       refresh # NoRefresh /\ (refresh.seen # 0 => refresh.seen >= committed[k])
Awaited == \A k \in Mutation : WaitsFor(k)

\* Nothing that a mutation waits for has changed, but its refresh.
LEMMA AwaitedJoin ==
  ASSUME Typed, Awaited, UNCHANGED <<revision, committed>>, NEW shown \in View,
         UNCHANGED refresh \/ JoinRefresh \/ (refresh = NoRefresh /\ StartRefresh(shown)),
         \A k \in Mutation : mutation'[k] = "refreshing" /\ k # "feedback" =>
           mutation[k] = "refreshing" \/ (refresh = NoRefresh /\ StartRefresh(shown))
  PROVE  Awaited'
<1>1. /\ mutation \in [Mutation -> {"idle", "asked", "answered", "waiting", "refreshing"}]
      /\ view \in View
  BY DEF Typed, TypeOK
<1>2. StartRefresh(view) \/ StartRefresh(shown) => refresh' # NoRefresh /\ refresh'.seen = 0
  <2>1. [cursor |-> 0, seen |-> 0] \in [cursor : 0..MaxRevision, seen : 0..MaxRevision]
    BY Bounds
  <2>2. [cursor |-> 0, seen |-> 0] # NoRefresh
    BY <2>1, Refreshing
  <2> QED
    BY <1>1, <2>2 DEF StartRefresh
<1>3. ASSUME NEW k \in Mutation
      PROVE  WaitsFor(k)'
  <2>1. WaitsFor(k)
    BY <1>3 DEF Awaited
  <2>2. committed'[k] <= revision'
    BY <2>1 DEF WaitsFor
  <2>3. CASE mutation'[k] = "refreshing" /\ k # "feedback"
    <3>1. refresh = NoRefresh => refresh' # NoRefresh /\ refresh'.seen = 0
      BY <1>1, <1>2, <2>1, <2>3 DEF WaitsFor, JoinRefresh
    <3>2. refresh # NoRefresh => refresh' = refresh /\ mutation[k] = "refreshing"
      BY <1>1, <2>3 DEF JoinRefresh
    <3> QED
      BY <2>1, <2>2, <3>1, <3>2 DEF WaitsFor
  <2> QED
    BY <2>2, <2>3 DEF WaitsFor
<1> QED
  BY <1>3 DEF Awaited

\* The end of a refresh lets go of those it was for, and starts one for the others.
LEMMA AwaitedEnd ==
  ASSUME Typed, Awaited, NEW shown \in View, EndRefresh(shown), UNCHANGED revision
  PROVE  Awaited'
<1>1. /\ mutation \in [Mutation -> {"idle", "asked", "answered", "waiting", "refreshing"}]
      /\ committed \in [Mutation -> 0..MaxRevision] /\ revision \in 1..MaxRevision
  BY DEF Typed, TypeOK
<1>2. ASSUME NEW k \in Mutation
      PROVE  WaitsFor(k)'
  <2>1. committed'[k] \in {0, committed[k]} /\ committed[k] <= revision
    BY <1>1, <1>2 DEF EndRefresh, Awaited, WaitsFor
  <2>2. committed'[k] <= revision'
    BY <1>1, <2>1
  <2>3. CASE mutation'[k] = "refreshing"
    <3>1. mutation[k] = "waiting"
      BY <1>1, <2>3 DEF EndRefresh
    <3>2. StartRefresh(shown)
      BY <3>1 DEF EndRefresh
    <3>3. refresh' = [cursor |-> 0, seen |-> 0]
      BY <3>2 DEF StartRefresh
    <3>4. [cursor |-> 0, seen |-> 0] \in [cursor : 0..MaxRevision, seen : 0..MaxRevision]
      BY Bounds
    <3>5. refresh' # NoRefresh /\ refresh'.seen = 0
      BY <3>3, <3>4, Refreshing
    <3> QED
      BY <2>2, <3>5 DEF WaitsFor
  <2> QED
    BY <2>2, <2>3 DEF WaitsFor
<1> QED
  BY <1>2 DEF Awaited

\* The host answers a mutation; it was not waiting for a refresh.
LEMMA AwaitedAnswer ==
  ASSUME Typed, Awaited, NEW k \in Mutation, NEW result, Answer(k, result),
         \/ UNCHANGED <<revision, committed>>
         \/ /\ revision' = revision + 1
            /\ committed' = [committed EXCEPT ![k] = revision']
  PROVE  Awaited'
<1>1. /\ mutation \in [Mutation -> {"idle", "asked", "answered", "waiting", "refreshing"}]
      /\ committed \in [Mutation -> 0..MaxRevision] /\ revision \in Nat
      /\ mutation' = [mutation EXCEPT ![k] = "answered"] /\ refresh' = refresh
  BY Bounds DEF Typed, TypeOK, Answer
<1>2. ASSUME NEW m \in Mutation
      PROVE  WaitsFor(m)'
  <2>1. WaitsFor(m) /\ committed[m] \in Nat
    BY <1>1, <1>2, Bounds DEF Awaited
  <2>2. committed'[m] <= revision' /\ (m # k => committed'[m] = committed[m])
    BY <1>1, <2>1 DEF WaitsFor
  <2>3. mutation'[m] = IF m = k THEN "answered" ELSE mutation[m]
    BY <1>1
  <2> QED
    BY <1>1, <2>1, <2>2, <2>3 DEF WaitsFor
<1> QED
  BY <1>2 DEF Awaited

\* Awaited is kept.
LEMMA AwaitedStep ==
  ASSUME Typed, OneRead, Awaited, [Next]_vars
  PROVE  Awaited'
<1>1. /\ view \in View /\ Failing(view) \in View /\ revision \in Nat
      /\ mutation \in [Mutation -> {"idle", "asked", "answered", "waiting", "refreshing"}]
      /\ committed \in [Mutation -> 0..MaxRevision]
      /\ refresh \in [cursor : 0..MaxRevision, seen : 0..MaxRevision] \cup {NoRefresh}
  <2>1. view \in View /\ revision \in 1..MaxRevision
    BY DEF Typed, TypeOK
  <2>2. Failing(view) \in View /\ revision \in Nat
    BY <2>1, Bounds DEF Failing, View
  <2> QED
    BY <2>1, <2>2 DEF Typed, TypeOK
<1>2. CASE UNCHANGED <<revision, mutation, committed>> /\ (UNCHANGED refresh \/ JoinRefresh)
  BY <1>1, <1>2, AwaitedJoin
<1>3. CASE HostChanges
  <2>1. revision' = revision + 1 /\ UNCHANGED <<mutation, committed, refresh>>
    BY <1>3 DEF HostChanges, historyVars
  <2> QED
    BY <1>1, <2>1, Bounds DEF Awaited, WaitsFor
<1>4. CASE HostReads
  <2> DEFINE call == Head(asked)
  <2>1. call = asked[1] /\ 1 \in DOMAIN asked /\ UNCHANGED <<revision, mutation, committed>>
    BY <1>4, Heads DEF Typed, HostReads, hostVars, historyVars
  <2>2. CASE call.kind = "data"
    <3>1. refresh # NoRefresh /\ refresh' = [refresh EXCEPT !.seen = revision]
      BY <1>4, <2>1, <2>2 DEF HostReads, OneRead, Reads
    <3>2. revision \in 0..MaxRevision
      BY Bounds DEF Typed, TypeOK
    <3>3. refresh' \in [cursor : 0..MaxRevision, seen : 0..MaxRevision]
          /\ refresh'.seen = revision
      BY <1>1, <3>1, <3>2
    <3> QED
      BY <1>1, <2>1, <3>3, Refreshing, Bounds DEF Awaited, WaitsFor
  <2>3. CASE call.kind = "status"
    <3>1. refresh # NoRefresh /\ refresh' = [refresh EXCEPT !.cursor = revision]
      BY <1>4, <2>1, <2>3 DEF HostReads, OneRead, Reads
    <3>2. revision \in 0..MaxRevision
      BY Bounds DEF Typed, TypeOK
    <3>3. refresh' \in [cursor : 0..MaxRevision, seen : 0..MaxRevision]
          /\ refresh'.seen = refresh.seen
      BY <1>1, <3>1, <3>2
    <3> QED
      BY <1>1, <2>1, <3>3, Refreshing DEF Awaited, WaitsFor
  <2>4. CASE call.kind \notin {"data", "status"}
    BY <1>2, <1>4, <2>1, <2>4 DEF HostReads
  <2> QED
    BY <2>2, <2>3, <2>4
<1>5. CASE ReadArrives
  <2>1. Shown(Head(answers).page) \in View
    BY <1>5, ReadEnds DEF ReadArrives, OneRead, Reading
  <2> QED
    BY <1>2, <1>5, <2>1, AwaitedEnd DEF ReadArrives, Shown, hostVars, historyVars
<1>6. CASE RefreshFails
  BY <1>1, <1>6, AwaitedEnd DEF RefreshFails, hostVars
<1>7. ASSUME NEW k \in Mutation, Submit(k)
      PROVE  Awaited'
  <2>1. UNCHANGED <<revision, committed, refresh>>
        /\ mutation' = [mutation EXCEPT ![k] = "asked"]
    BY <1>7 DEF Submit, hostVars, historyVars
  <2> QED
    BY <1>1, <2>1 DEF Awaited, WaitsFor
<1>8. ASSUME NEW k \in Mutation,
             \/ HostAccepts(k) \/ \E result \in {"stale", "refused"} : HostRefuses(k, result)
      PROVE  Awaited'
  BY <1>8, AwaitedAnswer DEF HostAccepts, HostRefuses, hostVars
<1>9. CASE MutationAnswered
  <2>1. UNCHANGED <<revision, committed>> /\ view' \in View
    BY <1>9, ViewOfAnswer DEF MutationAnswered, hostVars
  <2>2. PICK stage \in {"idle", "refreshing", "waiting"} :
          /\ mutation' = [mutation EXCEPT ![Head(answers).of] = stage]
          /\ \/ stage # "refreshing" /\ UNCHANGED refresh
             \/ stage = "refreshing" /\ Head(answers).of = "feedback"
                /\ (UNCHANGED refresh \/ JoinRefresh)
             \/ stage = "refreshing" /\ refresh = NoRefresh /\ StartRefresh(view')
    BY <1>9 DEF MutationAnswered, RefreshSharing, RefreshAfterCurrent
  <2>3. CASE stage # "refreshing"
    BY <1>1, <2>1, <2>2, <2>3 DEF Awaited, WaitsFor
  <2>4. CASE stage = "refreshing"
    <3>1. \A k \in Mutation : mutation'[k] = "refreshing" /\ k # "feedback" =>
            mutation[k] = "refreshing" \/ (refresh = NoRefresh /\ StartRefresh(view'))
      BY <1>1, <2>2, <2>4
    <3> QED
      BY <2>1, <2>2, <2>4, <3>1, AwaitedJoin
  <2> QED
    BY <2>3, <2>4
<1>10. ASSUME NEW k \in Mutation, MutationFails(k)
       PROVE  Awaited'
  <2>1. /\ UNCHANGED <<revision, refresh>> /\ mutation' = [mutation EXCEPT ![k] = "idle"]
        /\ committed' = [committed EXCEPT ![k] = 0]
    BY <1>10 DEF MutationFails, hostVars
  <2> QED
    BY <1>1, <2>1 DEF Awaited, WaitsFor
<1>11. CASE Mount \/ RetryClicked \/ LoadOlder \/ OlderFails
  BY <1>2, <1>11 DEF Mount, RetryClicked, LoadOlder, OlderFails, hostVars, historyVars
<1>12. ASSUME NEW g \in Generation, PollChanged(g) \/ DelayEnds(g)
       PROVE  Awaited'
  BY <1>2, <1>12 DEF PollChanged, DelayEnds, hostVars, historyVars
<1>13. CASE UNCHANGED hostVars /\ UNCHANGED <<mutation, committed>> /\ UNCHANGED <<refresh, asked>>
  BY <1>2, <1>13 DEF hostVars
<1> QED
  BY <1>3, <1>4, <1>5, <1>6, <1>7, <1>8, <1>9, <1>10, <1>11, <1>12, <1>13,
     HostMoves, MutationMoves, CallMoves

\* At first no mutation waits.
LEMMA AwaitedInit ==
  ASSUME Init
  PROVE  Awaited
BY DEF Init, Awaited, WaitsFor

-----------------------------------------------------------------------------
(* One long poll.                                                           *)

\* Only the loop of the present generation polls, by the controller's poll.
Polls ==
  \A g \in Generation :
    loop[g] = "polling" => watching /\ watchGeneration = g /\ controller = g

\* A loop that goes on to poll is that of the present generation.
LEMMA PollsAdvance ==
  ASSUME Polls, UNCHANGED mountVars, NEW shown, NEW next, Advance(next, shown),
         \A g \in Generation : next[g] = "polling" =>
           loop[g] = "polling" \/ (watching /\ watchGeneration = g)
  PROVE  Polls'
<1> DEFINE polling == {g \in Generation : next[g] = "polling" /\ loop[g] # "polling"}
<1>1. /\ loop' = next
      /\ controller' = IF polling = {} THEN controller ELSE CHOOSE g \in polling : TRUE
      /\ watching' = watching /\ watchGeneration' = watchGeneration
  BY DEF Advance, mountVars
<1>2. \A g \in polling : g = watchGeneration
  OBVIOUS
<1>3. polling # {} => (CHOOSE g \in polling : TRUE) \in polling
  OBVIOUS
<1> HIDE DEF polling
<1>4. polling # {} => controller' = watchGeneration
  BY <1>1, <1>2, <1>3
<1>5. ASSUME NEW g \in Generation, loop'[g] = "polling"
      PROVE  watching' /\ watchGeneration' = g /\ controller' = g
  <2>1. watching' /\ watchGeneration' = g
    BY <1>1, <1>5 DEF Polls
  <2>2. polling = {} => loop[g] = "polling"
    BY <1>1, <1>5 DEF polling
  <2> QED
    BY <1>1, <1>4, <2>1, <2>2 DEF Polls
<1> QED
  BY <1>5 DEF Polls

\* At the head of the loop only the present generation polls.
LEMMA TopPolls ==
  ASSUME NEW g, NEW shown,
         LoopTop(g, shown) = "polling" \/ AfterChange(g, shown) = "polling"
  PROVE  watching /\ watchGeneration = g
BY DEF LoopTop, AfterChange, IsWatching

\* So it is after a refresh.
LEMMA PollsEnd ==
  ASSUME Polls, UNCHANGED mountVars, NEW shown, EndRefresh(shown)
  PROVE  Polls'
<1>1. PICK reloads \in BOOLEAN :
        Advance([g \in Generation |->
                   CASE loop[g] \in {"starting", "recovering"} -> LoopTop(g, shown)
                     [] loop[g] = "refreshing" ->
                          IF reloads THEN "loading" ELSE AfterChange(g, shown)
                     [] OTHER -> loop[g]], shown)
  BY DEF EndRefresh
<1> DEFINE next == [g \in Generation |->
                      CASE loop[g] \in {"starting", "recovering"} -> LoopTop(g, shown)
                        [] loop[g] = "refreshing" ->
                             IF reloads THEN "loading" ELSE AfterChange(g, shown)
                        [] OTHER -> loop[g]]
<1>2. ASSUME NEW g \in Generation, next[g] = "polling"
      PROVE  loop[g] = "polling" \/ (watching /\ watchGeneration = g)
  <2>1. \/ next[g] = LoopTop(g, shown) \/ next[g] = AfterChange(g, shown)
        \/ next[g] = loop[g] \/ next[g] = "loading"
    OBVIOUS
  <2> QED
    BY <1>2, <2>1, TopPolls
<1> HIDE DEF next
<1> QED
  BY <1>1, <1>2, PollsAdvance DEF next

\* The last unmount and dispose abort the poll.
LEMMA PollsAbort ==
  ASSUME Polls, loop \in [Generation -> Stages], AbortPoll
  PROVE  Polls'
<1>1. \A g \in Generation : loop'[g] # "polling"
  BY DEF AbortPoll, Polls
<1> QED
  BY <1>1 DEF Polls

\* Polls is kept.
LEMMA PollsStep ==
  ASSUME Typed, Polls, [Next]_vars
  PROVE  Polls'
<1>1. loop \in [Generation -> Stages]
  BY DEF Typed, TypeOK, Stages
<1>2. CASE UNCHANGED <<watching, watchGeneration, loop, controller>>
  BY <1>2 DEF Polls
<1>3. CASE Mount
  <2>1. CASE mounts = 0
    <3>1. ~(mounts > 0) /\ watching = (mounts > 0 /\ ~disposed)
      BY <2>1 DEF Typed, TypeOK
    <3>2. ~watching
      BY <3>1, Zenon
    <3>3. loop' = [loop EXCEPT ![watchGeneration'] = "starting"]
      BY <1>3, <2>1 DEF Mount
    <3>4. \A g \in Generation : loop'[g] # "polling"
      BY <1>1, <3>2, <3>3 DEF Polls
    <3> QED
      BY <3>4 DEF Polls
  <2>2. CASE mounts # 0
    BY <1>2, <1>3, <2>2 DEF Mount
  <2> QED
    BY <2>1, <2>2
<1>4. CASE Unmount
  BY <1>1, <1>2, <1>4, PollsAbort DEF Unmount
<1>5. CASE Dispose
  BY <1>1, <1>5, PollsAbort DEF Dispose
<1>6. CASE RefreshFails
  BY <1>6, PollsEnd DEF RefreshFails
<1>7. CASE ReadArrives
  BY <1>2, <1>7, PollsEnd DEF ReadArrives, mountVars, watchVars
<1>8. ASSUME NEW g \in Generation,
             PollChanged(g) \/ PollRejected(g) \/ PollFails(g) \/ PollTimesOut(g)
      PROVE  Polls'
  <2>1. UNCHANGED <<watching, watchGeneration>>
    BY <1>8 DEF PollChanged, PollRejected, PollFails, PollTimesOut, mountVars
  <2>2. CASE PollTimesOut(g)
    <3>1. loop' = loop /\ loop[g] = "polling" /\ controller' = g
      BY <2>2 DEF PollTimesOut
    <3> QED
      BY <2>1, <3>1 DEF Polls
  <2>3. CASE ~PollTimesOut(g)
    <3>1. controller' = controller
          /\ loop' \in {[loop EXCEPT ![g] = s] : s \in {"refreshing", "none", "delayed"}}
      BY <1>8, <2>3 DEF PollChanged, PollRejected, PollFails, RetryLater
    <3> QED
      BY <1>1, <2>1, <3>1 DEF Polls
  <2> QED
    BY <2>2, <2>3
<1>9. ASSUME NEW g \in Generation, NEW stage, UNCHANGED mountVars,
             Advance([loop EXCEPT ![g] = stage], view),
             stage = "polling" => watching /\ watchGeneration = g
      PROVE  Polls'
  <2> DEFINE next == [loop EXCEPT ![g] = stage]
  <2>1. \A h \in Generation : next[h] = "polling" =>
          loop[h] = "polling" \/ (watching /\ watchGeneration = h)
    BY <1>1, <1>9
  <2> HIDE DEF next
  <2> QED
    BY <1>9, <2>1, PollsAdvance DEF next
<1>10. ASSUME NEW g \in Generation, CatalogSettles(g)
       PROVE  Polls'
  BY <1>9, <1>10, TopPolls DEF CatalogSettles
<1>11. ASSUME NEW g \in Generation, DelayEnds(g)
       PROVE  Polls'
  <2>1. UNCHANGED mountVars
    BY <1>11 DEF DelayEnds
  <2>2. CASE Advance([loop EXCEPT ![g] = LoopTop(g, view)], view)
    BY <1>9, <2>1, <2>2, TopPolls
  <2>3. CASE UNCHANGED controller /\ \E s \in {"recovering", "none"} :
                                       loop' = [loop EXCEPT ![g] = s]
    BY <1>1, <2>1, <2>3 DEF Polls, mountVars
  <2> QED
    BY <1>11, <2>2, <2>3 DEF DelayEnds, LeaveLoop
<1>12. CASE UNCHANGED mountVars /\ UNCHANGED watchVars
  BY <1>2, <1>12 DEF mountVars, watchVars
<1> QED
  BY <1>3, <1>4, <1>5, <1>6, <1>7, <1>8, <1>10, <1>11, <1>12, MountMoves, LoopMoves

\* At first no loop polls.
LEMMA PollsInit ==
  ASSUME Init
  PROVE  Polls
BY DEF Init, Polls

-----------------------------------------------------------------------------
(* What a refresh is waiting for, and who waits for it.                     *)

\* A refresh in flight has its pages on their way, to the host or back.
Brought == refresh # NoRefresh => PagesAt(asked) # {} \/ PagesAt(answers) # {}

\* Pages stay on a line whose head, if it goes, is something else,
LEMMA PagesStayTail ==
  ASSUME NEW T, NEW line \in Seq(T), line # <<>>, Head(line).kind \notin Paging,
         PagesAt(line) # {}
  PROVE  PagesAt(Tail(line)) # {}
<1>1. /\ Head(line) = line[1] /\ DOMAIN line = 1..Len(line) /\ Len(line) \in Nat
      /\ DOMAIN Tail(line) = 1..Len(Tail(line)) /\ Len(Tail(line)) = Len(line) - 1
      /\ \A i \in 1..Len(Tail(line)) : Tail(line)[i] = line[i + 1]
  BY Heads, Positions
<1>2. PICK i \in DOMAIN line : line[i].kind \in Paging
  BY DEF PagesAt
<1>3. i - 1 \in 1..Len(Tail(line)) /\ (i - 1) + 1 = i
  BY <1>1, <1>2
<1>4. i - 1 \in PagesAt(Tail(line))
  BY <1>1, <1>2, <1>3 DEF PagesAt
<1> QED
  BY <1>4

\* when other messages are taken off it,
LEMMA PagesStayWithout ==
  ASSUME NEW T, NEW line \in Seq(T), NEW gone, \A m \in gone : m.kind \notin Paging,
         PagesAt(line) # {}
  PROVE  PagesAt(Without(line, gone)) # {}
<1> DEFINE s == Without(line, gone)
<1>1. s \in Seq(T) /\ \E at : Keeps(s, line, Len(line), gone, at)
  BY WithoutKeeps
<1>2. PICK at : Keeps(s, line, Len(line), gone, at)
  BY <1>1
<1> HIDE DEF s
<1>3. DOMAIN s = 1..Len(s) /\ DOMAIN line = 1..Len(line)
  BY <1>1, Positions
<1>4. PICK m \in DOMAIN line : line[m].kind \in Paging
  BY DEF PagesAt
<1>5. PICK i \in DOMAIN s : at[i] = m
  BY <1>2, <1>3, <1>4 DEF Keeps
<1>6. s[i] = line[m]
  BY <1>2, <1>3, <1>5 DEF Keeps
<1>7. i \in PagesAt(s)
  BY <1>4, <1>6 DEF PagesAt
<1> QED
  BY <1>7 DEF s

\* and when something is appended; pages that are appended are there.
LEMMA PagesStayAppend ==
  ASSUME NEW T, NEW line \in Seq(T), NEW new,
         PagesAt(line) # {} \/ new.kind \in Paging
  PROVE  PagesAt(Append(line, new)) # {}
<1> DEFINE s == Append(line, new)
<1>1. /\ DOMAIN s = DOMAIN line \cup {Len(line) + 1}
      /\ s[Len(line) + 1] = new /\ \A i \in DOMAIN line : s[i] = line[i]
  <2>1. new \in T \cup {new} /\ T \subseteq T \cup {new}
    OBVIOUS
  <2> QED
    BY <2>1, Appended
<1> HIDE DEF s
<1>2. PagesAt(s) # {}
  BY <1>1 DEF PagesAt
<1> QED
  BY <1>2 DEF s

\* Without a change of the refresh, it is enough that the pages stay on their lines.
LEMMA BroughtStays ==
  ASSUME Brought, refresh # NoRefresh \/ refresh' = NoRefresh,
         PagesAt(asked) # {} => PagesAt(asked') # {} \/ PagesAt(answers') # {},
         PagesAt(answers) # {} => PagesAt(asked') # {} \/ PagesAt(answers') # {}
  PROVE  Brought'
BY DEF Brought, PagesAt

\* A new refresh asks for its pages.
LEMMA BroughtStart ==
  ASSUME Typed, NEW shown \in View, StartRefresh(shown)
  PROVE  Brought'
<1>1. PICK n \in Nat :
        /\ DOMAIN asked' = 1..(n + 2)
        /\ \A i \in 1..n : asked'[i].kind \notin Reads
        /\ asked'[n + 1].kind = "status" /\ asked'[n + 2].kind = "data"
  BY StartLine
<1>2. n + 2 \in PagesAt(asked')
  BY <1>1 DEF PagesAt, Paging
<1> QED
  BY <1>2 DEF Brought, PagesAt

\* So does the one that follows on another, if any does.
LEMMA BroughtEnd ==
  ASSUME Typed, NEW shown \in View, EndRefresh(shown)
  PROVE  Brought'
BY BroughtStart DEF EndRefresh, Brought

\* Sharing a refresh, while the pages under way stay.
LEMMA BroughtJoin ==
  ASSUME Typed, Brought, NEW shown \in View,
         PagesAt(answers) # {} => PagesAt(answers') # {},
         \/ UNCHANGED <<refresh, asked>>
         \/ JoinRefresh
         \/ StartRefresh(shown)
  PROVE  Brought'
<1>1. view \in View
  BY DEF Typed, TypeOK
<1>2. CASE UNCHANGED <<refresh, asked>>
  BY <1>2, BroughtStays
<1> QED
  BY <1>1, <1>2, BroughtStart DEF JoinRefresh

\* Brought is kept.
LEMMA BroughtStep ==
  ASSUME Typed, OneRead, Brought, [Next]_vars
  PROVE  Brought'
<1>1. /\ asked \in Seq(Call) /\ answers \in Seq(Reply) /\ view \in View
      /\ Failing(view) \in View
  BY DEF Typed, TypeOK, Failing, View
<1>2. CASE /\ PagesAt(answers) # {} => PagesAt(answers') # {}
           /\ UNCHANGED <<refresh, asked>> \/ JoinRefresh
  BY <1>1, <1>2, BroughtJoin
<1>3. CASE Mount \/ RetryClicked
  BY <1>2, <1>3 DEF Mount, RetryClicked
<1>4. ASSUME NEW g \in Generation, PollChanged(g) \/ DelayEnds(g)
      PROVE  Brought'
  BY <1>2, <1>4 DEF PollChanged, DelayEnds
<1>5. CASE HostReads
  <2> DEFINE call == Head(asked)
  <2>1. call \in Call /\ call = asked[1] /\ 1 \in DOMAIN asked
        /\ asked # <<>> /\ asked' = Tail(asked)
    BY <1>1, <1>5, Heads DEF HostReads
  <2>2. refresh' # NoRefresh => refresh # NoRefresh
    BY <1>5, <2>1 DEF HostReads, OneRead, Reads
  <2>3. CASE call.kind \in Paging
    <3>1. PICK new : answers' = Append(answers, new) /\ new.kind = call.kind
      BY <1>5, <2>1, <2>3, PagesForCall DEF HostReads, Paging
    <3> QED
      BY <1>1, <2>2, <2>3, <3>1, PagesStayAppend, BroughtStays
  <2>4. CASE call.kind \notin Paging
    <3>1. PagesAt(asked) # {} => PagesAt(asked') # {}
      BY <1>1, <2>1, <2>4, PagesStayTail
    <3>2. UNCHANGED answers \/ \E new : answers' = Append(answers, new)
      BY <1>5 DEF HostReads
    <3>3. PagesAt(answers) # {} => PagesAt(answers') # {}
      BY <1>1, <3>2, PagesStayAppend
    <3> QED
      BY <2>2, <3>1, <3>3, BroughtStays
  <2> QED
    BY <2>3, <2>4
<1>6. CASE ReadArrives
  <2>1. Shown(Head(answers).page) \in View
    BY <1>6, ReadEnds DEF ReadArrives, OneRead, Reading
  <2>2. CASE TooFew(Head(answers).page)
    <3>1. PICK new : asked' = Append(asked, new) /\ new.kind = "pages" /\ UNCHANGED refresh
      BY <1>6, <2>2 DEF ReadArrives
    <3>2. PagesAt(asked') # {}
      BY <1>1, <3>1, PagesStayAppend DEF Paging
    <3> QED
      BY <3>1, <3>2, BroughtStays
  <2> QED
    BY <1>6, <2>1, <2>2, BroughtEnd DEF ReadArrives, Shown
<1>7. CASE RefreshFails
  BY <1>1, <1>7, BroughtEnd DEF RefreshFails
<1>8. CASE LoadOlder
  <2>1. PICK new : asked' = Append(asked, new) /\ UNCHANGED <<answers, refresh>>
    BY <1>8 DEF LoadOlder
  <2> QED
    BY <1>1, <2>1, PagesStayAppend, BroughtStays
<1>9. CASE OlderFails
  <2> DEFINE gone(c, line) == {m \in OfKind(line, {"older"}) : m.of = c}
  <2>1. PICK c : /\ asked' = Without(asked, gone(c, asked))
                 /\ answers' = Without(answers, gone(c, answers)) /\ UNCHANGED refresh
    BY <1>9 DEF OlderFails
  <2>2. \A line : \A m \in gone(c, line) : m.kind \notin Paging
    BY DEF OfKind, Paging
  <2> HIDE DEF gone
  <2> QED
    BY <1>1, <2>1, <2>2, PagesStayWithout, BroughtStays
<1>10. CASE OlderArrives \/ MutationAnswered
  <2>1. answers # <<>> /\ answers' = Tail(answers) /\ Head(answers).kind \notin Paging
    BY <1>10 DEF OlderArrives, MutationAnswered, Arrives, Paging
  <2>2. PagesAt(answers) # {} => PagesAt(answers') # {}
    BY <1>1, <2>1, PagesStayTail
  <2>3. CASE OlderArrives
    BY <1>2, <2>2, <2>3 DEF OlderArrives
  <2>4. CASE MutationAnswered
    <3>1. view' \in View
      BY <2>4, ViewOfAnswer
    <3>2. \E shown : /\ shown = view'
                     /\ \/ UNCHANGED <<refresh, asked>>
                        \/ JoinRefresh \/ StartRefresh(shown)
      BY <2>4 DEF MutationAnswered, RefreshSharing, RefreshAfterCurrent
    <3> QED
      BY <2>2, <3>1, <3>2, BroughtJoin
  <2> QED
    BY <1>10, <2>3, <2>4
<1>11. ASSUME NEW k \in Mutation,
              \/ HostAccepts(k)
              \/ \E result \in {"stale", "refused"} : HostRefuses(k, result)
       PROVE  Brought'
  <2>1. UNCHANGED <<refresh, asked>> /\ \E new : answers' = Append(answers, new)
    BY <1>11 DEF HostAccepts, HostRefuses, Answer
  <2> QED
    BY <1>1, <1>2, <2>1, PagesStayAppend
<1>12. ASSUME NEW k \in Mutation, MutationFails(k)
       PROVE  Brought'
  <2> DEFINE gone == {a \in OfKind(answers, {"mutation"}) : a.of = k}
  <2>1. \A m \in gone : m.kind \notin Paging
    BY DEF OfKind, Paging
  <2>2. answers' = Without(answers, gone) /\ UNCHANGED <<refresh, asked>>
    BY <1>12 DEF MutationFails
  <2> HIDE DEF gone
  <2> QED
    BY <1>1, <1>2, <2>1, <2>2, PagesStayWithout
<1>13. CASE UNCHANGED <<refresh, asked>> /\ UNCHANGED answers
  BY <1>2, <1>13
<1> QED
  BY <1>3, <1>4, <1>5, <1>6, <1>7, <1>8, <1>9, <1>10, <1>11, <1>12, <1>13,
     CallMoves, ReplyMoves

\* At first no refresh is in flight.
LEMMA BroughtInit ==
  ASSUME Init
  PROVE  Brought
BY DEF Init, Brought

\* While anyone watches, the loop of that mount goes on; and the loops that
\* await a refresh have one in flight to await.
Running ==
  /\ watching => /\ watchGeneration \in Generation
                 /\ loop[watchGeneration] \notin {"none", "aborted"}
  /\ \A g \in Generation :
       loop[g] \in {"starting", "refreshing", "recovering"} => refresh # NoRefresh

\* Where a loop goes from the head.
LEMMA TopGoesOn ==
  ASSUME NEW g, NEW shown
  PROVE  /\ LoopTop(g, shown) \in {"none", "delayed", "polling"}
         /\ AfterChange(g, shown) \in {"none", "delayed", "polling", "pausing"}
         /\ watching /\ watchGeneration = g =>
              LoopTop(g, shown) # "none" /\ AfterChange(g, shown) # "none"
BY DEF LoopTop, AfterChange, IsWatching

\* The end of a refresh sends everyone on who awaited it.
LEMMA RunningEnd ==
  ASSUME Typed, Running, UNCHANGED mountVars, NEW shown, EndRefresh(shown)
  PROVE  Running'
<1>1. PICK reloads \in BOOLEAN :
        Advance([g \in Generation |->
                   CASE loop[g] \in {"starting", "recovering"} -> LoopTop(g, shown)
                     [] loop[g] = "refreshing" ->
                          IF reloads THEN "loading" ELSE AfterChange(g, shown)
                     [] OTHER -> loop[g]], shown)
  BY DEF EndRefresh
<1> DEFINE next == [g \in Generation |->
                      CASE loop[g] \in {"starting", "recovering"} -> LoopTop(g, shown)
                        [] loop[g] = "refreshing" ->
                             IF reloads THEN "loading" ELSE AfterChange(g, shown)
                        [] OTHER -> loop[g]]
<1>2. loop' = next
  BY <1>1 DEF Advance
<1>3. ASSUME NEW g \in Generation
      PROVE  /\ next[g] \notin {"starting", "refreshing", "recovering"}
             /\ watching /\ watchGeneration = g => next[g] \notin {"none", "aborted"}
  <2>1. watching /\ watchGeneration = g => loop[g] \notin {"none", "aborted"}
    BY DEF Running
  <2>2. CASE loop[g] \in {"starting", "recovering"}
    <3>1. next[g] = LoopTop(g, shown)
      BY <2>2
    <3> QED
      BY <3>1, TopGoesOn
  <2>3. CASE loop[g] = "refreshing"
    <3>1. next[g] \in {"loading", AfterChange(g, shown)}
      BY <2>3
    <3> QED
      BY <3>1, TopGoesOn
  <2>4. CASE loop[g] \notin {"starting", "recovering", "refreshing"}
    <3>1. next[g] = loop[g]
      BY <2>4
    <3> QED
      BY <2>1, <2>4, <3>1
  <2> QED
    BY <2>2, <2>3, <2>4
<1> HIDE DEF next
<1> QED
  BY <1>2, <1>3 DEF Running, mountVars

\* A refresh that someone shares is in flight.
LEMMA Joined ==
  ASSUME Typed, JoinRefresh
  PROVE  refresh' # NoRefresh
BY JoinTypes, Refreshing

\* Only the end of a refresh leaves none in flight.
LEMMA RefreshStays ==
  ASSUME Typed, OneRead, [Next]_vars, refresh # NoRefresh
  PROVE  \/ refresh' # NoRefresh
         \/ RefreshFails
         \/ ReadArrives /\ ~TooFew(Head(answers).page)
<1>1. refresh \in [cursor : 0..MaxRevision, seen : 0..MaxRevision] /\ view \in View
  BY DEF Typed, TypeOK
<1>2. UNCHANGED refresh => refresh' # NoRefresh
  OBVIOUS
<1>3. JoinRefresh => refresh' # NoRefresh
  BY Joined
<1>4. CASE HostReads
  <2>1. refresh' \in {refresh, [refresh EXCEPT !.cursor = revision],
                      [refresh EXCEPT !.seen = revision]}
    BY <1>4 DEF HostReads
  <2>2. revision \in 0..MaxRevision
    BY Bounds DEF Typed, TypeOK
  <2>3. refresh' \in [cursor : 0..MaxRevision, seen : 0..MaxRevision]
    BY <1>1, <2>1, <2>2
  <2> QED
    BY <2>3, Refreshing
<1>5. CASE ReadArrives
  BY <1>2, <1>5 DEF ReadArrives
<1>6. CASE MutationAnswered
  BY <1>2, <1>3, <1>6 DEF MutationAnswered, RefreshSharing, RefreshAfterCurrent
<1>7. CASE Mount \/ RetryClicked \/ LoadOlder \/ OlderFails
  BY <1>2, <1>3, <1>7 DEF Mount, RetryClicked, LoadOlder, OlderFails
<1>8. ASSUME NEW g \in Generation, PollChanged(g) \/ DelayEnds(g)
      PROVE  refresh' # NoRefresh
  BY <1>2, <1>3, <1>8 DEF PollChanged, DelayEnds
<1> QED
  BY <1>2, <1>4, <1>5, <1>6, <1>7, <1>8, CallMoves

\* The loops stay as they are, but for one that goes to another stage.
LEMMA RunningGoes ==
  ASSUME Typed, Running, UNCHANGED mountVars, refresh # NoRefresh => refresh' # NoRefresh,
         NEW g \in Generation, NEW stage, loop' = [loop EXCEPT ![g] = stage],
         stage \in {"starting", "refreshing", "recovering"} => refresh' # NoRefresh,
         watching /\ watchGeneration = g => stage \notin {"none", "aborted"}
  PROVE  Running'
<1>1. loop \in [Generation -> Stages] /\ UNCHANGED <<watching, watchGeneration>>
  BY DEF Typed, TypeOK, Stages, mountVars
<1>2. \A h \in Generation : loop'[h] = IF h = g THEN stage ELSE loop[h]
  BY <1>1
<1> QED
  BY <1>1, <1>2 DEF Running

\* Running is kept.
LEMMA RunningStep ==
  ASSUME Typed, OneRead, Running, Polls, [Next]_vars
  PROVE  Running'
<1>1. loop \in [Generation -> Stages] /\ watchGeneration \in 0..MaxGeneration
      /\ MaxGeneration \in Nat /\ watching = (mounts > 0 /\ ~disposed)
  BY Bounds DEF Typed, TypeOK, Stages
<1>2. CASE RefreshFails
  BY <1>2, RunningEnd DEF RefreshFails
<1>3. CASE ReadArrives /\ ~TooFew(Head(answers).page)
  BY <1>3, RunningEnd DEF ReadArrives
<1>4. CASE ~RefreshFails /\ ~(ReadArrives /\ ~TooFew(Head(answers).page))
  <2>1. refresh # NoRefresh => refresh' # NoRefresh
    BY <1>4, RefreshStays
  <2>2. CASE UNCHANGED <<watching, watchGeneration, loop>>
    BY <2>1, <2>2 DEF Running
  <2>3. CASE Mount
    <3>1. CASE mounts = 0
      <4>1. /\ watchGeneration' = watchGeneration + 1 /\ watchGeneration < MaxGeneration
            /\ loop' = [loop EXCEPT ![watchGeneration'] = "starting"] /\ JoinRefresh
        BY <2>3, <3>1 DEF Mount
      <4>2. watchGeneration' \in Generation
        BY <1>1, <4>1 DEF Generation
      <4>3. loop'[watchGeneration'] = "starting" /\ refresh' # NoRefresh
        BY <1>1, <4>1, <4>2, Joined
      <4> QED
        BY <4>2, <4>3 DEF Running
    <3> QED
      BY <2>2, <2>3, <3>1 DEF Mount
  <2>4. CASE Unmount \/ Dispose
    <3>1. CASE watching' = FALSE /\ AbortPoll
      <4>1. \A g \in Generation : loop'[g] = loop[g] \/ loop'[g] = "aborted"
        BY <3>1 DEF AbortPoll
      <4> QED
        BY <2>1, <3>1, <4>1 DEF Running
    <3> QED
      BY <2>2, <2>4, <3>1 DEF Unmount, Dispose
  <2>5. ASSUME NEW g \in Generation, PollChanged(g)
        PROVE  Running'
    BY <2>1, <2>5, RunningGoes, Joined DEF PollChanged
  <2>6. ASSUME NEW g \in Generation, PollRejected(g)
        PROVE  Running'
    <3>1. ~(watching /\ watchGeneration = g)
      BY <2>6 DEF PollRejected, Running
    <3> QED
      BY <2>1, <2>6, <3>1, RunningGoes DEF PollRejected
  <2>7. ASSUME NEW g \in Generation, PollFails(g)
        PROVE  Running'
    BY <2>1, <2>7, RunningGoes DEF PollFails, RetryLater
  <2>8. ASSUME NEW g \in Generation, DelayEnds(g)
        PROVE  Running'
    <3>1. UNCHANGED mountVars
      BY <2>8 DEF DelayEnds
    <3>2. CASE loop' = [loop EXCEPT ![g] = LoopTop(g, view)]
      BY <2>1, <3>1, <3>2, TopGoesOn, RunningGoes
    <3>3. CASE loop' = [loop EXCEPT ![g] = "recovering"] /\ JoinRefresh
      BY <2>1, <3>1, <3>3, RunningGoes, Joined
    <3>4. CASE loop' = [loop EXCEPT ![g] = "none"] /\ ~IsWatching(g)
      BY <2>1, <3>1, <3>4, RunningGoes DEF IsWatching
    <3> QED
      BY <2>8, <3>2, <3>3, <3>4 DEF DelayEnds, LeaveLoop, Advance
  <2>9. ASSUME NEW g \in Generation, CatalogSettles(g)
        PROVE  Running'
    <3>1. loop' = [loop EXCEPT ![g] = AfterChange(g, view)] /\ UNCHANGED mountVars
      BY <2>9 DEF CatalogSettles, Advance
    <3> QED
      BY <2>1, <3>1, TopGoesOn, RunningGoes
  <2>10. ASSUME NEW g \in Generation, PollTimesOut(g)
         PROVE  Running'
    BY <2>2, <2>10 DEF PollTimesOut, mountVars
  <2>11. CASE ReadArrives
    BY <1>4, <2>2, <2>11 DEF ReadArrives, mountVars, watchVars
  <2>12. CASE UNCHANGED mountVars /\ UNCHANGED watchVars
    BY <2>2, <2>12 DEF mountVars, watchVars
  <2> QED
    BY <1>4, <2>3, <2>4, <2>5, <2>6, <2>7, <2>8, <2>9, <2>10, <2>11, <2>12,
       MountMoves, LoopMoves
<1> QED
  BY <1>2, <1>3, <1>4

\* At first nobody watches and no loop runs.
LEMMA RunningInit ==
  ASSUME Init
  PROVE  Running
BY DEF Init, Running

-----------------------------------------------------------------------------
(* How new the view is.                                                     *)

\* The answers of mutations carry cursors that only rise, up to the present one,
\* from the last that was adopted.
Ordered ==
  /\ adopted <= revision
  /\ \A i \in DOMAIN answers : answers[i].kind = "mutation" =>
       adopted <= answers[i].cursor /\ answers[i].cursor <= revision
  /\ \A i, j \in DOMAIN answers :
       answers[i].kind = "mutation" /\ answers[j].kind = "mutation" /\ i < j
       => answers[i].cursor <= answers[j].cursor

\* Fewer answers are in order as well.
LEMMA OrderedFewer ==
  ASSUME Typed, Ordered, Fewer(answers', answers, {"mutation"}),
         UNCHANGED <<adopted, revision>>
  PROVE  Ordered'
<1>1. PICK at : /\ \A i \in DOMAIN answers' : answers'[i].kind \in {"mutation"} =>
                     at[i] \in DOMAIN answers /\ answers'[i] = answers[at[i]]
                /\ \A i, j \in DOMAIN answers' :
                     /\ answers'[i].kind \in {"mutation"}
                     /\ answers'[j].kind \in {"mutation"} /\ i < j
                     => at[i] < at[j]
  BY DEF Fewer
<1>2. \A i \in DOMAIN answers' : answers'[i].kind = "mutation" =>
        /\ at[i] \in DOMAIN answers /\ answers'[i] = answers[at[i]]
        /\ answers[at[i]].kind = "mutation"
  BY <1>1
<1>3. \A i \in DOMAIN answers' : answers'[i].kind = "mutation" =>
        adopted' <= answers'[i].cursor /\ answers'[i].cursor <= revision'
  BY <1>2 DEF Ordered
<1>4. ASSUME NEW i \in DOMAIN answers', NEW j \in DOMAIN answers',
             answers'[i].kind = "mutation", answers'[j].kind = "mutation", i < j
      PROVE  answers'[i].cursor <= answers'[j].cursor
  <2>1. at[i] < at[j]
    BY <1>1, <1>4
  <2> QED
    BY <1>2, <1>4, <2>1 DEF Ordered
<1> QED
  BY <1>3, <1>4 DEF Ordered

\* The next answer has the present cursor.
LEMMA OrderedAnswer ==
  ASSUME Typed, Ordered, NEW k, NEW result, Answer(k, result),
         revision' \in {revision, revision + 1}
  PROVE  Ordered'
<1> DEFINE new == [kind |-> "mutation", of |-> k, result |-> result, cursor |-> revision']
<1>1. /\ answers \in Seq(Reply) /\ answers' = Append(answers, new) /\ adopted' = adopted
      /\ new.cursor = revision' /\ new \in Reply \cup {new}
  BY DEF Typed, Answer
<1> HIDE DEF new
<1>2. /\ DOMAIN answers' = DOMAIN answers \cup {Len(answers) + 1}
      /\ answers'[Len(answers) + 1] = new
      /\ \A i \in DOMAIN answers : answers'[i] = answers[i] /\ i < Len(answers) + 1
  BY <1>1, Appended
<1>3. /\ revision \in Nat /\ adopted \in Nat /\ revision <= revision' /\ revision' \in Nat
      /\ DOMAIN answers \subseteq Nat /\ Len(answers) \in Nat
  BY <1>1, Positions, Bounds DEF Typed, TypeOK
<1>4. \A i \in DOMAIN answers : answers[i].kind = "mutation" =>
        /\ answers[i].cursor \in Nat
        /\ adopted <= answers[i].cursor /\ answers[i].cursor <= revision
  <2> SUFFICES ASSUME NEW i \in DOMAIN answers, answers[i].kind = "mutation"
               PROVE  answers[i].cursor \in Nat
    BY DEF Ordered
  <2>1. answers[i] \in Reply
    BY <1>1, ElementOfSeq, Positions
  <2> QED
    BY <2>1, Bounds DEF Reply
<1>5. \A i \in DOMAIN answers' : answers'[i].kind = "mutation" =>
        adopted' <= answers'[i].cursor /\ answers'[i].cursor <= revision'
  <2>1. adopted <= revision
    BY DEF Ordered
  <2> QED
    BY <1>1, <1>2, <1>3, <1>4, <2>1
<1>6. ASSUME NEW i \in DOMAIN answers', NEW j \in DOMAIN answers',
             answers'[i].kind = "mutation", answers'[j].kind = "mutation", i < j
      PROVE  answers'[i].cursor <= answers'[j].cursor
  <2>1. CASE j = Len(answers) + 1
    BY <1>1, <1>2, <1>3, <1>4, <1>6, <2>1
  <2>2. CASE j # Len(answers) + 1
    <3>1. j \in DOMAIN answers /\ i # Len(answers) + 1
      BY <1>2, <1>3, <1>6, <2>2
    <3>2. i \in DOMAIN answers
      BY <1>2, <3>1
    <3> QED
      BY <1>2, <1>6, <3>1, <3>2 DEF Ordered
  <2> QED
    BY <2>1, <2>2
<1>7. adopted' <= revision'
  BY <1>1, <1>3 DEF Ordered
<1> QED
  BY <1>5, <1>6, <1>7 DEF Ordered

\* The answer that is adopted is the oldest there is.
LEMMA OrderedAdopt ==
  ASSUME Typed, Ordered, MutationAnswered
  PROVE  Ordered' /\ adopted' \in Nat /\ adopted <= adopted'
<1>1. /\ answers \in Seq(Reply) /\ answers # <<>> /\ Head(answers).kind = "mutation"
      /\ answers' = Tail(answers) /\ UNCHANGED revision
      /\ adopted \in Nat /\ revision \in Nat
  BY Bounds DEF Typed, TypeOK, MutationAnswered, Arrives, hostVars
<1>2. /\ 1 \in DOMAIN answers /\ Head(answers) = answers[1]
      /\ \A i \in 1..Len(Tail(answers)) :
           i + 1 \in 1..Len(answers) /\ Tail(answers)[i] = answers[i + 1]
      /\ DOMAIN answers = 1..Len(answers)
      /\ DOMAIN Tail(answers) = 1..Len(Tail(answers))
  BY <1>1, Heads, Positions
<1> DEFINE c == Head(answers).cursor
<1>3. c \in Nat /\ adopted <= c /\ c <= revision
  BY <1>1, <1>2, AnswerTypes, Bounds DEF Ordered, MutationAnswered
<1>4. adopted' \in {adopted, c}
  <2>1. view \in View
    BY DEF Typed, TypeOK
  <2>2. view' \in {[view EXCEPT !.cursor = c], Failing(view), view}
    BY DEF MutationAnswered
  <2>3. adopted' = IF view'.cursor # view.cursor THEN view'.cursor ELSE adopted
    BY DEF MutationAnswered
  <2> QED
    BY <2>1, <2>2, <2>3 DEF Failing, View
<1>5. ASSUME NEW i \in DOMAIN answers', answers'[i].kind = "mutation"
      PROVE  c <= answers'[i].cursor /\ answers'[i].cursor <= revision
  <2>1. i + 1 \in DOMAIN answers /\ answers'[i] = answers[i + 1] /\ 1 < i + 1
    BY <1>1, <1>2
  <2> QED
    BY <1>1, <1>2, <1>5, <2>1 DEF Ordered
<1>6. ASSUME NEW i \in DOMAIN answers', NEW j \in DOMAIN answers',
             answers'[i].kind = "mutation", answers'[j].kind = "mutation", i < j
      PROVE  answers'[i].cursor <= answers'[j].cursor
  <2>1. /\ i + 1 \in DOMAIN answers /\ answers'[i] = answers[i + 1]
        /\ j + 1 \in DOMAIN answers /\ answers'[j] = answers[j + 1] /\ i + 1 < j + 1
    BY <1>1, <1>2, <1>6
  <2> QED
    BY <1>6, <2>1 DEF Ordered
<1>7. ASSUME NEW i \in DOMAIN answers', answers'[i].kind = "mutation"
      PROVE  adopted' <= answers'[i].cursor /\ answers'[i].cursor <= revision'
  <2>1. adopted <= answers'[i].cursor
    <3>1. i + 1 \in DOMAIN answers /\ answers'[i] = answers[i + 1]
      BY <1>1, <1>2
    <3> QED
      BY <1>7, <3>1 DEF Ordered
  <2> QED
    BY <1>1, <1>4, <1>5, <1>7, <2>1
<1>8. adopted' <= revision' /\ adopted' \in Nat /\ adopted <= adopted'
  BY <1>1, <1>3, <1>4 DEF Ordered
<1> HIDE DEF c
<1> QED
  BY <1>6, <1>7, <1>8 DEF Ordered

\* Ordered is kept, and what was adopted is never given up for something older.
LEMMA OrderedStep ==
  ASSUME Typed, Ordered, [Next]_vars
  PROVE  Ordered' /\ adopted' \in Nat /\ adopted <= adopted'
<1>1. answers \in Seq(Reply) /\ adopted \in Nat /\ revision \in Nat
  BY Bounds DEF Typed, TypeOK
<1>2. Fewer(answers, answers, {"mutation"})
  BY <1>1, FewerSame
<1>3. CASE Fewer(answers', answers, {"mutation"}) /\ UNCHANGED <<adopted, revision>>
  BY <1>1, <1>3, OrderedFewer
<1>4. CASE MutationAnswered
  BY <1>4, OrderedAdopt
<1>5. CASE ReadArrives \/ OlderArrives
  <2>1. /\ answers # <<>> /\ answers' = Tail(answers) /\ UNCHANGED <<adopted, revision>>
    BY <1>5 DEF ReadArrives, OlderArrives, Arrives, historyVars, hostVars
  <2> QED
    BY <1>1, <1>3, <2>1, FewerTail
<1>6. CASE RefreshFails \/ OlderFails
  <2>1. UNCHANGED <<adopted, revision>> /\ \E gone : answers' = Without(answers, gone)
    BY <1>6 DEF RefreshFails, OlderFails, Others, historyVars, hostVars
  <2> QED
    BY <1>1, <1>3, <2>1, FewerWithout
<1>7. ASSUME NEW k \in Mutation, MutationFails(k)
      PROVE  Ordered' /\ adopted' \in Nat /\ adopted <= adopted'
  <2>1. UNCHANGED <<adopted, revision>> /\ \E gone : answers' = Without(answers, gone)
    BY <1>7 DEF MutationFails, hostVars
  <2> QED
    BY <1>1, <1>3, <2>1, FewerWithout
<1>8. CASE HostReads
  <2>1. Head(asked) \in Call /\ Head(asked).kind # "mutation"
    <3>1. Head(asked) \in Call
      BY <1>8, Heads DEF Typed, HostReads
    <3> QED
      BY <3>1 DEF Call
  <2>2. \/ UNCHANGED answers
        \/ \E new : answers' = Append(answers, new) /\ new.kind = Head(asked).kind
    BY <1>8, <2>1, PagesForCall DEF HostReads
  <2>3. Fewer(answers', answers, {"mutation"})
    BY <1>1, <1>2, <2>1, <2>2, FewerAppend
  <2> QED
    BY <1>3, <1>8, <2>3 DEF HostReads, historyVars, hostVars
<1>9. ASSUME NEW k \in Mutation,
             \/ HostAccepts(k) \/ \E result \in {"stale", "refused"} : HostRefuses(k, result)
      PROVE  Ordered' /\ adopted' \in Nat /\ adopted <= adopted'
  <2>1. /\ \E result : Answer(k, result)
        /\ revision' \in {revision, revision + 1} /\ adopted' = adopted
    BY <1>9 DEF HostAccepts, HostRefuses, Answer, hostVars
  <2> QED
    BY <1>1, <2>1, OrderedAnswer
<1>10. CASE HostChanges
  <2>1. revision' = revision + 1 /\ UNCHANGED <<answers, adopted>>
    BY <1>10 DEF HostChanges, historyVars
  <2>2. \A i \in DOMAIN answers : answers[i].kind = "mutation" => answers[i].cursor \in Nat
    <3> SUFFICES ASSUME NEW i \in DOMAIN answers, answers[i].kind = "mutation"
                 PROVE  answers[i].cursor \in Nat
      OBVIOUS
    <3>1. answers[i] \in Reply
      BY <1>1, ElementOfSeq, Positions
    <3> QED
      BY <3>1, Bounds DEF Reply
  <2> QED
    BY <1>1, <2>1, <2>2 DEF Ordered
<1>11. CASE UNCHANGED answers /\ UNCHANGED hostVars /\ UNCHANGED <<older, adopted, failures>>
  BY <1>2, <1>3, <1>11 DEF hostVars
<1>12. CASE LoadOlder
  BY <1>2, <1>3, <1>12 DEF LoadOlder, hostVars, historyVars
<1>13. ASSUME NEW g \in Generation, PollFails(g)
       PROVE  Ordered' /\ adopted' \in Nat /\ adopted <= adopted'
  BY <1>2, <1>3, <1>13 DEF PollFails, hostVars, historyVars
<1> QED
  BY <1>4, <1>5, <1>6, <1>7, <1>8, <1>9, <1>10, <1>11, <1>12, <1>13,
     HostMoves, ReplyMoves, FlagMoves

\* At first nothing was answered.
LEMMA OrderedInit ==
  ASSUME Init
  PROVE  Ordered
<1>1. DOMAIN answers = {} /\ adopted = 0 /\ revision = 1
  BY DEF Init
<1> QED
  BY <1>1 DEF Ordered

\* What a refresh has read is as new as the view and as the status it has read;
\* a status still on its way has nothing before it.
Forward ==
  /\ refresh # NoRefresh =>
       /\ refresh.cursor <= revision
       /\ refresh.seen # 0 => refresh.seen >= view.seen /\ refresh.seen >= refresh.cursor
  /\ \A i \in DOMAIN asked : asked[i].kind = "status" => refresh.seen = 0

\* A new refresh has read nothing.
LEMMA ForwardStart ==
  ASSUME Typed, NEW shown \in View, StartRefresh(shown), revision' \in Nat
  PROVE  Forward'
<1>1. refresh' = [cursor |-> 0, seen |-> 0]
  BY DEF StartRefresh
<1> QED
  BY <1>1 DEF Forward

\* The end of a refresh leaves such a one, or none.
LEMMA ForwardEnd ==
  ASSUME Typed, NEW shown \in View, EndRefresh(shown), revision' \in Nat
  PROVE  Forward'
<1>1. CASE StartRefresh(shown)
  BY <1>1, ForwardStart
<1>2. CASE refresh' = NoRefresh /\ asked' = Others(asked)
  <2>1. \A i \in DOMAIN asked' : asked'[i].kind \notin Reads
    BY <1>2, WithoutKinds DEF Others, Typed
  <2> QED
    BY <1>2, <2>1 DEF Forward, Reads
<1> QED
  BY <1>1, <1>2 DEF EndRefresh

\* A refresh in flight stays as it is while the reads on their way get fewer.
LEMMA ForwardStays ==
  ASSUME Typed, Typed', Forward, UNCHANGED refresh, view'.seen = view.seen,
         revision <= revision', Fewer(asked', asked, {"status"})
  PROVE  Forward'
<1>1. \A i \in DOMAIN asked' : asked'[i].kind = "status" => refresh.seen = 0
  BY DEF Fewer, Forward
<1>2. /\ revision \in Nat /\ revision' \in Nat
      /\ refresh \in [cursor : 0..MaxRevision, seen : 0..MaxRevision] \cup {NoRefresh}
  BY Bounds DEF Typed, TypeOK
<1>3. refresh # NoRefresh => refresh.cursor \in Nat
  BY <1>2, Bounds
<1> QED
  BY <1>1, <1>2, <1>3 DEF Forward

\* So it does while someone shares it.
LEMMA ForwardJoin ==
  ASSUME Typed, Typed', Forward, NEW shown \in View, view'.seen = view.seen,
         revision <= revision',
         UNCHANGED <<refresh, asked>> \/ JoinRefresh \/ StartRefresh(shown)
  PROVE  Forward'
<1>1. view \in View /\ asked \in Seq(Call) /\ revision' \in Nat
  BY Bounds DEF Typed, TypeOK
<1>2. CASE UNCHANGED <<refresh, asked>>
  BY <1>1, <1>2, FewerSame, ForwardStays
<1> QED
  BY <1>1, <1>2, ForwardStart DEF JoinRefresh

\* The host reads its present cursor, and what it shows at it.
LEMMA ForwardHost ==
  ASSUME Typed, Typed', OneRead, ViewIsNew, Forward, HostReads
  PROVE  Forward'
<1> DEFINE call == Head(asked)
<1>1. /\ asked \in Seq(Call) /\ asked # <<>> /\ asked' = Tail(asked)
      /\ refresh \in [cursor : 0..MaxRevision, seen : 0..MaxRevision] \cup {NoRefresh}
      /\ revision \in 1..MaxRevision /\ UNCHANGED <<revision, view>>
      /\ view.seen \in Nat
  BY Bounds DEF Typed, TypeOK, View, HostReads, hostVars
<1>2. /\ call = asked[1] /\ 1 \in DOMAIN asked /\ call \in Call
      /\ DOMAIN asked' = 1..Len(asked') /\ Len(asked') \in Nat
      /\ \A i \in DOMAIN asked' : i + 1 \in DOMAIN asked /\ asked'[i] = asked[i + 1]
  <2>1. /\ Head(asked) = asked[1] /\ 1 \in DOMAIN asked /\ asked[1] \in Call
        /\ Tail(asked) \in Seq(Call)
        /\ \A i \in 1..Len(Tail(asked)) :
             i + 1 \in 1..Len(asked) /\ Tail(asked)[i] = asked[i + 1]
    BY <1>1, Heads
  <2> QED
    BY <1>1, <2>1, Positions
<1>3. CASE call.kind = "status"
  <2>1. refresh # NoRefresh /\ refresh.seen = 0
    BY <1>2, <1>3 DEF OneRead, Reads, Forward
  <2>2. refresh' = [refresh EXCEPT !.cursor = revision]
    BY <1>3 DEF HostReads
  <2>3. refresh'.cursor = revision /\ refresh'.seen = 0
    BY <1>1, <2>1, <2>2
  <2> QED
    BY <1>1, <2>3 DEF Forward
<1>4. CASE call.kind = "data"
  <2>1. refresh # NoRefresh
    BY <1>2, <1>4 DEF OneRead, Reads
  <2>2. refresh' = [refresh EXCEPT !.seen = revision]
    BY <1>4 DEF HostReads
  <2>3. refresh'.cursor = refresh.cursor /\ refresh'.seen = revision
    BY <1>1, <2>1, <2>2
  <2>4. \A i \in DOMAIN asked' : asked'[i].kind # "status"
    <3>1. 1 \in PagesAt(asked)
      BY <1>2, <1>4 DEF PagesAt, Paging
    <3>2. \A i \in DOMAIN asked' : ~(i + 1 < 1)
      BY <1>2
    <3> QED
      BY <1>2, <3>1, <3>2 DEF OneRead
  <2>5. refresh.cursor <= revision /\ view.seen <= revision
    BY <2>1 DEF Forward, ViewIsNew
  <2>6. refresh.cursor \in Nat
    BY <1>1, <2>1
  <2> QED
    BY <1>1, <2>3, <2>4, <2>5, <2>6 DEF Forward
<1>5. CASE call.kind \notin {"status", "data"}
  <2>1. UNCHANGED refresh
    BY <1>5 DEF HostReads
  <2> QED
    BY <1>1, <2>1, FewerTail, ForwardStays
<1> QED
  BY <1>3, <1>4, <1>5

\* Forward is kept.
LEMMA ForwardStep ==
  ASSUME Typed, OneRead, ViewIsNew, Forward, [Next]_vars
  PROVE  Forward'
<1>1. Typed'
  BY TypedStep DEF OneRead, Reading
<1>2. /\ asked \in Seq(Call) /\ view \in View /\ revision' \in Nat /\ revision \in Nat
      /\ Failing(view) \in View /\ Failing(view).seen = view.seen
  <2>1. /\ asked \in Seq(Call) /\ view \in View
        /\ revision \in 1..MaxRevision /\ revision' \in 1..MaxRevision
    BY <1>1 DEF Typed, TypeOK
  <2>2. Failing(view) \in View /\ Failing(view).seen = view.seen
    BY <2>1 DEF Failing, View
  <2> QED
    BY <2>1, <2>2, Bounds
<1>3. revision <= revision'
  BY <1>2, HostMoves DEF hostVars, HostChanges, HostAccepts
<1>4. CASE /\ view'.seen = view.seen
           /\ UNCHANGED <<refresh, asked>> \/ JoinRefresh
  BY <1>1, <1>2, <1>3, <1>4, ForwardJoin
<1>5. CASE Mount \/ RetryClicked
  BY <1>4, <1>5 DEF Mount, RetryClicked
<1>6. ASSUME NEW g \in Generation, PollChanged(g) \/ DelayEnds(g)
      PROVE  Forward'
  BY <1>4, <1>6 DEF PollChanged, DelayEnds
<1>7. CASE HostReads
  BY <1>1, <1>7, ForwardHost
<1>8. CASE ReadArrives
  <2>1. Shown(Head(answers).page) \in View
    BY <1>8, ReadEnds DEF ReadArrives, OneRead, Reading
  <2>2. CASE TooFew(Head(answers).page)
    <3>1. PICK new : /\ asked' = Append(asked, new) /\ new.kind = "pages"
                     /\ UNCHANGED <<refresh, view>>
      BY <1>8, <2>2 DEF ReadArrives
    <3>2. Fewer(asked', asked, {"status"})
      BY <1>2, <3>1, FewerAppend
    <3> QED
      BY <1>1, <1>3, <3>1, <3>2, ForwardStays
  <2> QED
    BY <1>2, <1>8, <2>1, <2>2, ForwardEnd DEF ReadArrives, Shown
<1>9. CASE RefreshFails
  BY <1>2, <1>9, ForwardEnd DEF RefreshFails
<1>10. CASE LoadOlder
  <2>1. PICK new : asked' = Append(asked, new) /\ new.kind = "older"
                   /\ UNCHANGED <<refresh, view>>
    BY <1>10 DEF LoadOlder
  <2>2. Fewer(asked', asked, {"status"})
    BY <1>2, <2>1, FewerAppend
  <2> QED
    BY <1>1, <1>3, <2>1, <2>2, ForwardStays
<1>11. CASE OlderFails
  BY <1>1, <1>2, <1>3, <1>11, FewerWithout, ForwardStays DEF OlderFails
<1>12. CASE MutationAnswered
  <2>1. view' \in View
    BY <1>12, ViewOfAnswer
  <2>2. view'.seen = view.seen
    BY <1>2, <1>12 DEF MutationAnswered, View
  <2>3. \E shown : /\ shown = view'
                   /\ UNCHANGED <<refresh, asked>> \/ JoinRefresh \/ StartRefresh(shown)
    BY <1>12 DEF MutationAnswered, RefreshSharing, RefreshAfterCurrent
  <2> QED
    BY <1>1, <1>3, <2>1, <2>2, <2>3, ForwardJoin
<1>13. CASE UNCHANGED <<refresh, asked>> /\ UNCHANGED view
  BY <1>4, <1>13
<1>14. CASE OlderArrives
  <2>1. view'.seen = view.seen /\ UNCHANGED <<refresh, asked>>
    BY <1>2, <1>14 DEF OlderArrives, View
  <2> QED
    BY <1>4, <2>1
<1>15. ASSUME NEW k \in Mutation, MutationFails(k)
       PROVE  Forward'
  BY <1>2, <1>4, <1>15 DEF MutationFails
<1>16. ASSUME NEW g \in Generation, PollFails(g)
       PROVE  Forward'
  BY <1>2, <1>4, <1>16 DEF PollFails
<1> QED
  BY <1>5, <1>6, <1>7, <1>8, <1>9, <1>10, <1>11, <1>12, <1>13, <1>14, <1>15, <1>16,
     CallMoves, ViewMoves

\* At first nothing was read.
LEMMA ForwardInit ==
  ASSUME Init
  PROVE  Forward
<1>1. DOMAIN asked = {} /\ refresh = NoRefresh
  BY DEF Init
<1> QED
  BY <1>1 DEF Forward

\* The view has read, or has adopted, everything up to a cursor.
Reached(seen, last, c) == seen >= c \/ last >= c

\* So it has for its own cursor, and for those the loops poll from.
Caught ==
  /\ Reached(view.seen, adopted, view.cursor)
  /\ \A g \in Generation : Reached(view.seen, adopted, polls[g])

\* Loops that go on poll from where they did, or from the snapshot's cursor.
LEMMA PollsFrom ==
  ASSUME NEW shown, NEW next, Advance(next, shown), NEW g \in Generation
  PROVE  polls'[g] \in {0, polls[g], shown.cursor}
BY DEF Advance

\* The end of a refresh lets the loops poll from what the views show after it.
LEMMA PollsFromEnd ==
  ASSUME NEW shown, EndRefresh(shown), NEW g \in Generation
  PROVE  polls'[g] \in {0, polls[g], shown.cursor} /\ view' = shown
<1>1. \E next : Advance(next, shown)
  BY DEF EndRefresh
<1> QED
  BY <1>1, PollsFrom DEF EndRefresh

\* Wherever a loop polls, it polls from where it did or from the snapshot's cursor.
LEMMA PollsAgain ==
  ASSUME Typed, [Next]_vars, NEW g \in Generation
  PROVE  polls'[g] \in {0, polls[g], view.cursor, view'.cursor}
<1>1. polls \in [Generation -> 0..MaxRevision] /\ view \in View
  BY DEF Typed, TypeOK
<1>2. CASE UNCHANGED watchVars \/ Mount \/ Unmount \/ Dispose
  BY <1>2 DEF watchVars, Mount, Unmount, Dispose
<1>3. CASE RefreshFails
  BY <1>3, PollsFromEnd DEF RefreshFails
<1>4. CASE ReadArrives
  <2>1. CASE TooFew(Head(answers).page)
    BY <1>4, <2>1 DEF ReadArrives, watchVars
  <2>2. CASE ~TooFew(Head(answers).page)
    BY <1>4, <2>2, PollsFromEnd DEF ReadArrives
  <2> QED
    BY <2>1, <2>2
<1>5. ASSUME NEW h \in Generation,
             PollFails(h) \/ PollChanged(h) \/ PollTimesOut(h) \/ PollRejected(h)
      PROVE  polls'[g] \in {0, polls[g], view.cursor}
  BY <1>1, <1>5 DEF PollFails, PollChanged, PollTimesOut, PollRejected
<1>6. ASSUME NEW h \in Generation, DelayEnds(h) \/ CatalogSettles(h)
      PROVE  polls'[g] \in {0, polls[g], view.cursor}
  <2>1. UNCHANGED polls \/ \E next : Advance(next, view)
    BY <1>6 DEF DelayEnds, CatalogSettles
  <2> QED
    BY <2>1, PollsFrom
<1> QED
  BY <1>2, <1>3, <1>4, <1>5, <1>6, LoopMoves

\* The data of the view gets newer, and so does its cursor with it or with what
\* was adopted.
LEMMA ViewMovesOn ==
  ASSUME Typed, OneRead, Ordered, Forward, Caught, [Next]_vars
  PROVE  /\ view'.seen >= view.seen
         /\ \A c \in {view.cursor, view'.cursor} : Reached(view'.seen, adopted', c)
<1>1. /\ view \in View /\ view.seen \in Nat /\ view.cursor \in Nat
      /\ adopted \in Nat /\ Failing(view).seen = view.seen
      /\ Failing(view).cursor = view.cursor
  BY Bounds DEF Typed, TypeOK, View, Failing
<1>2. adopted' \in Nat /\ adopted <= adopted'
  BY OrderedStep
<1>3. ASSUME view'.seen = view.seen, view'.cursor = view.cursor
      PROVE  /\ view'.seen >= view.seen
             /\ \A c \in {view.cursor, view'.cursor} : Reached(view'.seen, adopted', c)
  BY <1>1, <1>2, <1>3 DEF Caught, Reached
<1>4. CASE UNCHANGED view
  BY <1>3, <1>4
<1>5. CASE RefreshFails
  BY <1>1, <1>3, <1>5 DEF RefreshFails, EndRefresh
<1>6. CASE OlderFails \/ OlderArrives
  <2>1. view'.seen = view.seen /\ view'.cursor = view.cursor
    BY <1>1, <1>6 DEF OlderFails, OlderArrives, View
  <2> QED
    BY <1>3, <2>1
<1>7. CASE ReadArrives
  <2>1. CASE TooFew(Head(answers).page)
    BY <1>4, <1>7, <2>1 DEF ReadArrives
  <2>2. CASE ~TooFew(Head(answers).page)
    <3>1. view'.seen = refresh.seen /\ view'.cursor = refresh.cursor
      BY <1>7, <2>2 DEF ReadArrives, EndRefresh
    <3>2. refresh # NoRefresh /\ refresh.seen # 0
      BY <1>7, FirstAnswer DEF ReadArrives, OneRead
    <3>3. refresh.seen >= view.seen /\ refresh.seen >= refresh.cursor
      BY <3>2 DEF Forward
    <3>4. refresh.seen \in Nat /\ refresh.cursor \in Nat
      BY <3>2, Bounds DEF Typed, TypeOK
    <3> QED
      BY <1>1, <1>2, <3>1, <3>3, <3>4 DEF Caught, Reached
  <2> QED
    BY <2>1, <2>2
<1>8. CASE MutationAnswered
  <2>1. view'.seen = view.seen
    BY <1>1, <1>8 DEF MutationAnswered, View
  <2>2. view'.cursor # view.cursor => adopted' = view'.cursor
    BY <1>8 DEF MutationAnswered
  <2>3. view'.cursor \in Nat
    BY <1>8, ViewOfAnswer, Bounds DEF View
  <2> QED
    BY <1>1, <1>2, <1>3, <2>1, <2>2, <2>3 DEF Caught, Reached
<1>9. ASSUME NEW k \in Mutation, MutationFails(k)
      PROVE  view'.seen = view.seen /\ view'.cursor = view.cursor
  BY <1>1, <1>9 DEF MutationFails
<1>10. ASSUME NEW g \in Generation, PollFails(g)
       PROVE  view'.seen = view.seen /\ view'.cursor = view.cursor
  BY <1>1, <1>10 DEF PollFails
<1> QED
  BY <1>3, <1>4, <1>5, <1>6, <1>7, <1>8, <1>9, <1>10, ViewMoves

\* Caught is kept.
LEMMA CaughtStep ==
  ASSUME Typed, OneRead, Ordered, Forward, Caught, [Next]_vars
  PROVE  Caught'
<1>1. Typed'
  BY TypedStep DEF OneRead, Reading
<1>2. /\ view'.seen >= view.seen
      /\ \A c \in {view.cursor, view'.cursor} : Reached(view'.seen, adopted', c)
  BY ViewMovesOn
<1>3. adopted' \in Nat /\ adopted <= adopted' /\ adopted \in Nat
      /\ view.seen \in Nat /\ view'.seen \in Nat
      /\ polls \in [Generation -> 0..MaxRevision] /\ MaxRevision \in Nat
  <2>1. /\ adopted \in 0..MaxRevision /\ view.seen \in 0..MaxRevision
        /\ polls \in [Generation -> 0..MaxRevision]
    BY DEF Typed, TypeOK, View
  <2>2. view'.seen \in 0..MaxRevision
    BY <1>1 DEF Typed, TypeOK, View
  <2> QED
    BY <2>1, <2>2, OrderedStep, Bounds
<1>4. ASSUME NEW g \in Generation
      PROVE  Reached(view'.seen, adopted', polls'[g])
  <2>1. polls'[g] \in {0, polls[g], view.cursor, view'.cursor}
    BY PollsAgain
  <2>2. CASE polls'[g] = 0
    BY <1>3, <2>2 DEF Reached
  <2>3. CASE polls'[g] = polls[g]
    <3>1. Reached(view.seen, adopted, polls[g]) /\ polls[g] \in Nat
      BY <1>3 DEF Caught
    <3> QED
      BY <1>2, <1>3, <2>3, <3>1 DEF Reached
  <2> QED
    BY <1>2, <2>1, <2>2, <2>3 DEF Reached
<1> QED
  BY <1>2, <1>4 DEF Caught, Reached

\* At first nothing is asked for.
LEMMA CaughtInit ==
  ASSUME Init
  PROVE  Caught
<1>1. view.cursor = 0 /\ view.seen = 0 /\ \A g \in Generation : polls[g] = 0
  BY DEF Init
<1> QED
  BY <1>1 DEF Caught, Reached

-----------------------------------------------------------------------------
(* What the pages of a refresh cover.                                       *)

\* The entries there have been, and the kinds of answers that bring some.
Past == {e \in (0..era) \X (1..MaxEntries) : e[1] = era => e[2] <= count}
Bringing == {"data", "pages", "older"}

\* Of these entries, a page leaves out only some that are older than all of its
\* own, and says so.
Covers(page, E) ==
  \A e \in E \ page.entries : page.more /\ \A f \in page.entries : e[2] < f[2]

\* What is on display or on its way there has been in the thread, and the pages
\* of a refresh cover whatever is on display before they are.
Remembered ==
  /\ view.entries \subseteq Past
  /\ \A i \in DOMAIN answers : answers[i].kind \in Bringing => answers[i].page.entries \subseteq Past
CoversView ==
  \A i \in PagesAt(answers) : Covers(answers[i].page, view.entries \cap Thread)
CoversEarlier ==
  \A i \in PagesAt(answers), j \in DOMAIN answers :
    j < i /\ answers[j].kind \in Bringing
    => Covers(answers[i].page, answers[j].page.entries \cap Thread)
Covered == Remembered /\ CoversView /\ CoversEarlier

\* The host adds to the past only what was not there yet.
LEMMA PastStays ==
  ASSUME Typed, Typed', [Next]_vars
  PROVE  Past \subseteq Past' /\ Past \cap Thread' \subseteq Thread
<1>1. /\ era \in Nat /\ count \in Nat /\ era' \in Nat /\ count' \in Nat
      /\ \/ era' = era /\ count' >= count
         \/ era' = era + 1
  <2>1. /\ era \in Nat /\ count \in 0..MaxEntries /\ era' \in Nat /\ count' \in 0..MaxEntries
    BY DEF Typed, TypeOK
  <2> QED
    BY <2>1, HostMoves, Bounds DEF hostVars, HostChanges, HostAccepts
<1>2. (0..era) \subseteq (0..era')
  BY <1>1
<1>3. ASSUME NEW e \in Past
      PROVE  e \in Past'
  <2>1. e[1] \in 0..era /\ e[2] \in 1..MaxEntries /\ (e[1] = era => e[2] <= count)
    BY DEF Past
  <2>2. e[1] = era' => e[2] <= count'
    BY <1>1, <2>1, Bounds
  <2> QED
    BY <1>2, <2>2 DEF Past
<1>4. ASSUME NEW e \in Past, e \in Thread'
      PROVE  e \in Thread
  <2>1. PICK i \in 1..count' : e = <<era', i>>
    BY <1>4 DEF Thread
  <2>2. e[1] \in 0..era /\ (e[1] = era => e[2] <= count)
    BY DEF Past
  <2>3. era' = era /\ i \in 1..count
    BY <1>1, <2>1, <2>2
  <2> QED
    BY <2>1, <2>3 DEF Thread
<1> QED
  BY <1>3, <1>4

\* The thread is of the past.
LEMMA ThreadIsPast ==
  ASSUME Typed
  PROVE  Thread \subseteq Past /\ IsFiniteSet(Thread)
<1>1. era \in Nat /\ count \in Nat /\ MaxEntries \in Nat /\ count <= MaxEntries
  BY Bounds DEF Typed, TypeOK
<1>2. ASSUME NEW i \in 1..count PROVE <<era, i>> \in Past
  BY <1>1 DEF Past
<1>3. Thread \subseteq Past
  BY <1>2 DEF Thread
<1>4. Thread \in SUBSET ((0..era) \X (1..MaxEntries))
  BY <1>3 DEF Past
<1> QED
  BY <1>3, <1>4, EntriesAreFinite

\* The newest entries cover the thread.
LEMMA ReadCovers ==
  ASSUME Typed, NEW minimum \in Nat
  PROVE  Covers(ReadPages(minimum), Thread)
<1> DEFINE limit == IF minimum > PageSize THEN minimum ELSE PageSize
           page == ReadPages(minimum)
           newer(e) == {f \in Thread : f[2] > e[2]}
<1>1. limit \in Nat
  BY Bounds
<1>2. \A e \in Thread : e[2] \in 1..count
  BY DEF Thread
<1>3. count \in Nat
  BY Bounds DEF Typed, TypeOK
<1>4. Below(count + 1) = Thread
  BY <1>2, <1>3 DEF Below
<1> HIDE DEF limit
<1>5. /\ page.entries = {e \in Thread : Cardinality(newer(e)) < limit}
      /\ page.more = (Cardinality(Thread) > limit)
  BY <1>4 DEF ReadPages, Page, limit
<1> HIDE DEF page
<1>6. ASSUME NEW e \in Thread
      PROVE  IsFiniteSet(newer(e)) /\ Cardinality(newer(e)) \in Nat
  <2>1. newer(e) \subseteq Thread
    OBVIOUS
  <2> HIDE DEF newer
  <2> QED
    BY <2>1, ThreadIsPast, FS_Subset, FS_CardinalityType
<1>7. ASSUME NEW e \in Thread, e \notin page.entries
      PROVE  page.more /\ \A f \in page.entries : e[2] < f[2]
  <2>1. Cardinality(newer(e)) >= limit
    BY <1>1, <1>5, <1>6, <1>7
  <2>2. Cardinality(newer(e) \cup {e}) = Cardinality(newer(e)) + 1
    <3>1. e \notin newer(e)
      BY <1>2, <1>3
    <3> HIDE DEF newer
    <3> QED
      BY <1>6, <3>1, FS_AddElement
  <2>3. newer(e) \cup {e} \subseteq Thread
    OBVIOUS
  <2>4. Cardinality(newer(e) \cup {e}) <= Cardinality(Thread) /\ Cardinality(Thread) \in Nat
    <3> DEFINE some == newer(e) \cup {e}
    <3>1. some \subseteq Thread
      BY <2>3
    <3> HIDE DEF some
    <3>2. Cardinality(some) <= Cardinality(Thread) /\ Cardinality(Thread) \in Nat
      BY <3>1, ThreadIsPast, FS_Subset, FS_CardinalityType
    <3> QED
      BY <3>2 DEF some
  <2>5. page.more
    <3>1. Cardinality(newer(e)) \in Nat
      BY <1>6
    <3> HIDE DEF newer
    <3>2. Cardinality(Thread) > limit
      BY <1>1, <2>1, <2>2, <2>4, <3>1
    <3> QED
      BY <1>5, <3>2
  <2>6. ASSUME NEW f \in page.entries
        PROVE  e[2] < f[2]
    <3>1. f \in Thread /\ Cardinality(newer(f)) < limit
      BY <1>5
    <3>2. e[2] \in Nat /\ f[2] \in Nat
      BY <1>2, <1>3, <3>1
    <3>3. CASE f[2] <= e[2]
      <4>1. \A g \in Thread : g[2] > e[2] => g[2] > f[2]
        BY <1>2, <1>3, <3>2, <3>3
      <4>2. newer(e) \subseteq newer(f)
        BY <4>1
      <4> HIDE DEF newer
      <4>3. Cardinality(newer(e)) <= Cardinality(newer(f))
        BY <1>6, <3>1, <4>2, FS_Subset
      <4> QED
        BY <1>1, <1>6, <2>1, <3>1, <4>3
    <3> QED
      BY <3>2, <3>3
  <2> QED
    BY <2>5, <2>6
<1> QED
  BY <1>7 DEF Covers, page

\* Less to cover is covered as well.
LEMMA CoversLess ==
  ASSUME NEW page, NEW E, NEW F, F \subseteq E, Covers(page, E)
  PROVE  Covers(page, F)
BY DEF Covers

\* Nothing new is on display or on its way.
LEMMA CoveredFewer ==
  ASSUME Typed, Typed', [Next]_vars, Covered,
         view'.entries \subseteq view.entries, Fewer(answers', answers, Bringing)
  PROVE  Covered'
<1>1. Past \subseteq Past' /\ Past \cap Thread' \subseteq Thread
  BY PastStays
<1>2. PICK at : /\ \A i \in DOMAIN answers' : answers'[i].kind \in Bringing =>
                     at[i] \in DOMAIN answers /\ answers'[i] = answers[at[i]]
                /\ \A i, j \in DOMAIN answers' :
                     answers'[i].kind \in Bringing /\ answers'[j].kind \in Bringing /\ i < j
                     => at[i] < at[j]
  BY DEF Fewer
<1>3. \A i \in PagesAt(answers') :
        i \in DOMAIN answers' /\ answers'[i].kind \in Bringing /\ at[i] \in PagesAt(answers)
  BY <1>2 DEF PagesAt, Paging, Bringing
<1>4. Remembered'
  BY <1>1, <1>2 DEF Covered, Remembered, Bringing
<1>5. view'.entries \cap Thread' \subseteq view.entries \cap Thread
  BY <1>1 DEF Covered, Remembered
<1>6. CoversView'
  <2> SUFFICES ASSUME NEW i \in PagesAt(answers')
               PROVE  Covers(answers'[i].page, view'.entries \cap Thread')
    BY DEF CoversView, PagesAt, Paging, Covers
  <2>1. Covers(answers[at[i]].page, view.entries \cap Thread) /\ answers'[i] = answers[at[i]]
    BY <1>2, <1>3 DEF Covered, CoversView
  <2> QED
    BY <1>5, <2>1, CoversLess
<1>7. CoversEarlier'
  <2> SUFFICES ASSUME NEW i \in PagesAt(answers'), NEW j \in DOMAIN answers', j < i,
                      answers'[j].kind \in Bringing
               PROVE  Covers(answers'[i].page, answers'[j].page.entries \cap Thread')
    BY DEF CoversEarlier, PagesAt, Paging, Covers, Bringing
  <2>1. /\ answers'[i] = answers[at[i]] /\ answers'[j] = answers[at[j]]
        /\ at[j] < at[i] /\ at[j] \in DOMAIN answers /\ at[i] \in PagesAt(answers)
    BY <1>2, <1>3
  <2>2. Covers(answers[at[i]].page, answers[at[j]].page.entries \cap Thread)
    BY <2>1 DEF Covered, CoversEarlier
  <2>3. answers'[j].page.entries \subseteq Past
    BY <2>1 DEF Covered, Remembered
  <2>4. answers'[j].page.entries \cap Thread' \subseteq answers[at[j]].page.entries \cap Thread
    BY <1>1, <2>1, <2>3
  <2> QED
    BY <2>1, <2>2, <2>4, CoversLess
<1> QED
  BY <1>4, <1>6, <1>7 DEF Covered

\* What comes first on the line is taken over into the view, or for it.
LEMMA CoveredArrival ==
  ASSUME Typed, Covered, UNCHANGED hostVars, answers # <<>>, answers' = Tail(answers),
         Head(answers).kind \in Bringing,
         view'.entries \subseteq view.entries \cup Head(answers).page.entries
  PROVE  Covered'
<1>1. answers \in Seq(Reply) /\ Past' = Past /\ Thread' = Thread
  BY DEF Typed, hostVars, Past, Thread
<1>2. /\ Head(answers) = answers[1] /\ 1 \in DOMAIN answers
      /\ DOMAIN answers' \subseteq Nat \ {0}
      /\ \A i \in DOMAIN answers' : i + 1 \in DOMAIN answers /\ answers'[i] = answers[i + 1]
  <2>1. Tail(answers) \in Seq(Reply)
    BY <1>1, Heads
  <2> QED
    BY <1>1, <2>1, Heads, Positions
<1>3. \A i \in PagesAt(answers') : i \in DOMAIN answers' /\ i + 1 \in PagesAt(answers)
  BY <1>2 DEF PagesAt
<1>4. Remembered'
  BY <1>1, <1>2 DEF Covered, Remembered
<1>5. CoversView'
  <2> SUFFICES ASSUME NEW i \in PagesAt(answers')
               PROVE  Covers(answers'[i].page, view'.entries \cap Thread)
    BY <1>1 DEF CoversView, PagesAt
  <2>1. /\ Covers(answers'[i].page, view.entries \cap Thread)
        /\ Covers(answers'[i].page, Head(answers).page.entries \cap Thread)
    <3>1. 1 < i + 1 /\ answers'[i] = answers[i + 1] /\ i + 1 \in PagesAt(answers)
      BY <1>2, <1>3
    <3> QED
      BY <1>2, <3>1 DEF Covered, CoversView, CoversEarlier
  <2> QED
    BY <2>1 DEF Covers
<1>6. CoversEarlier'
  <2> SUFFICES ASSUME NEW i \in PagesAt(answers'), NEW j \in DOMAIN answers', j < i,
                      answers'[j].kind \in Bringing
               PROVE  Covers(answers'[i].page, answers'[j].page.entries \cap Thread)
    BY <1>1 DEF CoversEarlier, PagesAt, Bringing
  <2>1. /\ answers'[i] = answers[i + 1] /\ answers'[j] = answers[j + 1] /\ j + 1 < i + 1
        /\ i + 1 \in PagesAt(answers) /\ j + 1 \in DOMAIN answers
    BY <1>2, <1>3
  <2> QED
    BY <2>1 DEF Covered, CoversEarlier
<1> QED
  BY <1>4, <1>5, <1>6 DEF Covered

\* The host's answer is of its thread; the pages of a refresh cover all of that.
LEMMA CoveredHost ==
  ASSUME Typed, Covered, HostReads
  PROVE  Covered'
<1> DEFINE call == Head(asked)
<1>1. /\ Past' = Past /\ Thread' = Thread /\ answers \in Seq(Reply) /\ view' = view
      /\ call \in Call
  BY Heads DEF HostReads, hostVars, Past, Thread, Typed
<1>2. CASE call.kind = "status"
  <2>1. answers' = answers
    BY <1>2 DEF HostReads
  <2> QED
    BY <1>1, <2>1 DEF Covered, Remembered, CoversView, CoversEarlier, PagesAt
<1>3. CASE call.kind # "status"
  <2> DEFINE new == PagesFor(call)
             last == Len(answers) + 1
  <2>1. answers' = Append(answers, new)
    BY <1>3 DEF HostReads
  <2>2. new \in Reply /\ new.kind = call.kind /\ new.page.entries \subseteq Thread
    BY <1>1, <1>3, PagesForCall
  <2>3. new.kind \in Paging => Covers(new.page, Thread)
    <3>1. call.kind \in Paging => call.minimum \in Nat /\ call.kind # "older"
      BY <1>1 DEF Call, Paging
    <3>2. call.kind \in Paging => new.page = ReadPages(call.minimum)
      BY <3>1 DEF PagesFor
    <3> QED
      BY <2>2, <3>1, <3>2, ReadCovers
  <2> HIDE DEF new
  <2>4. /\ DOMAIN answers' = DOMAIN answers \cup {last}
        /\ answers'[last] = new
        /\ \A i \in DOMAIN answers : answers'[i] = answers[i] /\ i < last
    BY <1>1, <2>1, <2>2, Appended
  <2>5. DOMAIN answers' \subseteq Nat
    BY <1>1, <2>4, Positions, LenProperties
  <2> HIDE DEF last
  <2>6. Remembered'
    BY <1>1, <2>2, <2>4, ThreadIsPast DEF Covered, Remembered
  <2>7. \A i \in PagesAt(answers') :
          \/ i \in PagesAt(answers) /\ i \in DOMAIN answers /\ answers'[i] = answers[i]
          \/ i = last /\ Covers(answers'[i].page, Thread)
    BY <2>3, <2>4 DEF PagesAt
  <2>8. CoversView'
    <3> SUFFICES ASSUME NEW i \in PagesAt(answers')
                 PROVE  Covers(answers'[i].page, view.entries \cap Thread)
      BY <1>1 DEF CoversView, PagesAt
    <3>1. CASE i = last /\ Covers(answers'[i].page, Thread)
      <4>1. view.entries \cap Thread \subseteq Thread
        OBVIOUS
      <4> QED
        BY <3>1, <4>1, CoversLess
    <3>2. CASE i \in PagesAt(answers) /\ answers'[i] = answers[i]
      BY <3>2 DEF Covered, CoversView
    <3> QED
      BY <2>7, <3>1, <3>2
  <2>9. CoversEarlier'
    <3> SUFFICES ASSUME NEW i \in PagesAt(answers'), NEW j \in DOMAIN answers', j < i,
                        answers'[j].kind \in Bringing
                 PROVE  Covers(answers'[i].page, answers'[j].page.entries \cap Thread)
      BY <1>1 DEF CoversEarlier, PagesAt, Bringing
    <3>1. CASE i = last /\ Covers(answers'[i].page, Thread)
      <4>1. answers'[j].page.entries \cap Thread \subseteq Thread
        OBVIOUS
      <4> QED
        BY <3>1, <4>1, CoversLess
    <3>2. CASE i \in PagesAt(answers) /\ i \in DOMAIN answers /\ answers'[i] = answers[i]
      <4>1. j \in DOMAIN answers /\ answers'[j] = answers[j]
        <5>1. i < last /\ i \in Nat /\ j \in Nat /\ last \in Nat
          BY <2>4, <2>5, <3>2
        <5>2. j # last
          BY <5>1
        <5> QED
          BY <2>4, <5>2
      <4> QED
        BY <3>2, <4>1 DEF Covered, CoversEarlier
    <3> QED
      BY <2>7, <3>1, <3>2
  <2> QED
    BY <2>6, <2>8, <2>9 DEF Covered
<1> QED
  BY <1>2, <1>3

\* Covered is kept.
LEMMA CoveredStep ==
  ASSUME Typed, OneRead, Covered, [Next]_vars
  PROVE  Covered'
<1>1. Typed'
  BY TypedStep DEF OneRead, Reading
<1>2. /\ answers \in Seq(Reply) /\ view \in View /\ Failing(view).entries = view.entries
  BY DEF Typed, TypeOK, Failing, View
<1>3. CASE view'.entries \subseteq view.entries /\ Fewer(answers', answers, Bringing)
  BY <1>1, <1>3, CoveredFewer
<1>4. Fewer(answers, answers, Bringing)
  BY <1>2, FewerSame
<1>5. \A gone : answers' = Without(answers, gone) => Fewer(answers', answers, Bringing)
  BY <1>2, FewerWithout
<1>6. CASE HostReads
  BY <1>6, CoveredHost
<1>7. CASE ReadArrives
  <2>1. /\ UNCHANGED hostVars /\ answers # <<>> /\ answers' = Tail(answers)
        /\ Head(answers).kind \in Bringing
    BY <1>7 DEF ReadArrives, Arrives, Bringing
  <2>2. view'.entries \in {view.entries, Head(answers).page.entries}
    BY <1>7 DEF ReadArrives, EndRefresh, ReadEntries
  <2> QED
    BY <2>1, <2>2, CoveredArrival
<1>8. CASE OlderArrives
  <2>1. /\ UNCHANGED hostVars /\ answers # <<>> /\ answers' = Tail(answers)
        /\ Head(answers).kind \in Bringing
    BY <1>8 DEF OlderArrives, Arrives, Bringing
  <2>2. view'.entries = view.entries \cup Head(answers).page.entries
    BY <1>2, <1>8 DEF OlderArrives, View
  <2> QED
    BY <2>1, <2>2, CoveredArrival
<1>9. CASE RefreshFails \/ OlderFails
  <2>1. view' = Failing(view) /\ \E gone : answers' = Without(answers, gone)
    BY <1>9 DEF RefreshFails, OlderFails, Others, EndRefresh
  <2> QED
    BY <1>2, <1>3, <1>5, <2>1
<1>10. CASE MutationAnswered
  <2>1. answers # <<>> /\ answers' = Tail(answers)
    BY <1>10 DEF MutationAnswered, Arrives
  <2>2. view'.entries = view.entries
    BY <1>2, <1>10 DEF MutationAnswered, View
  <2> QED
    BY <1>2, <1>3, <2>1, <2>2, FewerTail
<1>11. ASSUME NEW k \in Mutation, MutationFails(k)
       PROVE  Covered'
  <2>1. view' \in {view, Failing(view)} /\ \E gone : answers' = Without(answers, gone)
    BY <1>11 DEF MutationFails
  <2> QED
    BY <1>2, <1>3, <1>5, <2>1
<1>12. ASSUME NEW k \in Mutation,
              \/ HostAccepts(k)
              \/ \E result \in {"stale", "refused"} : HostRefuses(k, result)
       PROVE  Covered'
  <2>1. PICK new : answers' = Append(answers, new) /\ new.kind = "mutation" /\ view' = view
    BY <1>12 DEF HostAccepts, HostRefuses, Answer
  <2>2. new.kind \notin Bringing
    BY <2>1 DEF Bringing
  <2> QED
    BY <1>2, <1>3, <2>1, <2>2, FewerAppend
<1>13. ASSUME NEW g \in Generation, PollFails(g)
       PROVE  Covered'
  BY <1>2, <1>3, <1>4, <1>13 DEF PollFails
<1>14. CASE UNCHANGED <<view, answers>>
  BY <1>3, <1>4, <1>14
<1> QED
  BY <1>6, <1>7, <1>8, <1>9, <1>10, <1>11, <1>12, <1>13, <1>14, ViewMoves, ReplyMoves

\* At first nothing is on display or on its way.
LEMMA CoveredInit ==
  ASSUME Init
  PROVE  Covered
<1>1. DOMAIN answers = {} /\ view.entries = {}
  BY DEF Init
<1> QED
  BY <1>1 DEF Covered, Remembered, CoversView, CoversEarlier, PagesAt

-----------------------------------------------------------------------------
(* The theorems.                                                            *)

\* The inductive invariant: what travels on the connection, what a refresh in
\* flight has read, who waits for it, which loops go on and which one polls, how
\* new the view is, and what the pages under way cover.
Inv ==
  /\ Typed /\ OneRead /\ OneAnswer /\ Ghostless /\ Awaited /\ Polls
  /\ Brought /\ Running /\ Ordered /\ Forward /\ Caught /\ Covered

\* The first states satisfy it and every step preserves it.
LEMMA Invariant == Spec => []Inv
<1>1. Init => Inv
  BY TypedInit, OneReadInit, OneAnswerInit, GhostlessInit, AwaitedInit, PollsInit,
     BroughtInit, RunningInit, OrderedInit, ForwardInit, CaughtInit, CoveredInit DEF Inv
<1>2. Inv /\ [Next]_vars => Inv'
  <2> SUFFICES ASSUME Inv, [Next]_vars PROVE Inv'
    OBVIOUS
  <2>1. /\ Typed /\ OneRead /\ OneAnswer /\ Ghostless /\ Awaited /\ Polls
        /\ Brought /\ Running /\ Ordered /\ Forward /\ Caught /\ Covered
    BY DEF Inv
  <2>2. Typed'
    BY <2>1, TypedStep DEF OneRead, Reading
  <2>3. OneRead' /\ OneAnswer' /\ Ghostless' /\ Awaited' /\ Polls'
    BY <2>1, OneReadStep, OneAnswerStep, GhostlessStep, AwaitedStep, PollsStep
  <2>4. Brought' /\ Running' /\ Ordered' /\ Caught' /\ Covered'
    BY <2>1, BroughtStep, RunningStep, OrderedStep, CaughtStep, CoveredStep
  <2>5. Forward'
    BY <2>1, ForwardStep DEF Ghostless
  <2> QED
    BY <2>2, <2>3, <2>4, <2>5 DEF Inv
<1> QED
  BY <1>1, <1>2, PTL DEF Spec

\* The variables keep their types, and so do the messages on the connection.
THEOREM TypeCorrect == Spec => []TypeOK
<1>1. Inv => TypeOK
  BY DEF Inv, Typed
<1> QED
  BY <1>1, Invariant, PTL

\* However views come and go, there is one long poll while anyone watches, and
\* none otherwise: the poll of an earlier mount has been aborted.
THEOREM PollsOnce == Spec => []OneLongPoll
<1>1. ASSUME Inv PROVE OneLongPoll
  <2> DEFINE P == {g \in Generation : loop[g] = "polling"}
  <2>1. Polls /\ watching = (mounts > 0 /\ ~disposed)
    BY <1>1 DEF Inv, Typed, TypeOK
  <2>2. watching <=> Watched
    BY <2>1, Zenon DEF Watched
  <2>3. P # {} => Watched
    BY <2>1, <2>2 DEF Polls
  <2>4. P = {} \/ P = {watchGeneration}
    BY <2>1 DEF Polls
  <2>5. Cardinality({}) = 0 /\ Cardinality({watchGeneration}) = 1
    BY FS_EmptySet, FS_Singleton
  <2>6. Cardinality(P) <= IF Watched THEN 1 ELSE 0
    BY <2>3, <2>4, <2>5
  <2> QED
    BY <2>6 DEF OneLongPoll
<1> QED
  BY <1>1, Invariant, PTL

\* A view whose data is the host's newest shows no entry of a cleared thread,
\* whatever pages of it were still under way when it was cleared.
THEOREM ShowsNoGhosts == Spec => []NoGhosts
<1>1. Inv => NoGhosts
  BY DEF Inv, Ghostless, ViewIsNew, NoGhosts
<1> QED
  BY <1>1, Invariant, PTL

\* A watched view that nothing is under way for has caught up: its loop is there
\* and polls from the host's cursor, and the data is as new as that, unless a
\* mutation's answer was what brought the cursor.
THEOREM CatchesUp == Spec => []CaughtUp
<1>1. ASSUME Inv PROVE CaughtUp
  <2> SUFFICES ASSUME Watched, AtRest
               PROVE  /\ \E g \in Generation : loop[g] = "polling" /\ polls[g] = revision
                      /\ view.seen = revision \/ adopted = revision
    BY DEF CaughtUp
  <2>1. /\ Typed /\ Running /\ Brought /\ Caught /\ ViewIsNew /\ adopted <= revision
        /\ loop \in [Generation -> Stages] /\ watching = (mounts > 0 /\ ~disposed)
    BY <1>1 DEF Inv, Ghostless, Ordered, Typed, TypeOK, Stages
  <2>2. watching
    BY <2>1, Zenon DEF Watched
  <2>3. refresh = NoRefresh
    <3>1. asked = <<>> /\ answers = <<>>
      BY DEF AtRest
    <3>2. PagesAt(asked) = {} /\ PagesAt(answers) = {}
      BY <3>1 DEF PagesAt
    <3> QED
      BY <2>1, <3>2 DEF Brought
  <2> DEFINE g == watchGeneration
  <2>4. g \in Generation /\ loop[g] \notin {"none", "aborted"}
    BY <2>1, <2>2 DEF Running
  <2>5. loop[g] = "polling"
    BY <2>1, <2>3, <2>4 DEF Running, AtRest, Stages
  <2>6. polls[g] = revision
    BY <2>4, <2>5 DEF AtRest
  <2>7. view.seen >= revision \/ adopted >= revision
    BY <2>1, <2>4, <2>6 DEF Caught, Reached
  <2>8. view.seen <= revision /\ revision \in Nat /\ view.seen \in Nat /\ adopted \in Nat
    BY <2>1, Bounds DEF ViewIsNew, Typed, TypeOK, View
  <2> QED
    BY <2>1, <2>4, <2>5, <2>6, <2>7, <2>8
<1> QED
  BY <1>1, Invariant, PTL

\* A mutation that settles has its effect on display: it never settles by a
\* refresh that had read the host before it.
THEOREM Settles == Spec => SettledIsShown
<1> DEFINE Settled == \A k \in Mutation \ {"feedback"} :
             mutation[k] = "refreshing" /\ mutation'[k] = "idle" /\ view'.phase = "ready"
             => view'.seen >= committed[k]
<1>1. ASSUME Inv, [Next]_vars
      PROVE  Settled
  <2> SUFFICES ASSUME NEW k \in Mutation \ {"feedback"}, mutation[k] = "refreshing",
                      mutation'[k] = "idle", view'.phase = "ready"
               PROVE  view'.seen >= committed[k]
    OBVIOUS
  <2>1. /\ mutation \in [Mutation -> {"idle", "asked", "answered", "waiting", "refreshing"}]
        /\ Typed /\ OneRead /\ OneAnswer /\ WaitsFor(k) /\ k \in Mutation
        /\ view \in View
    BY <1>1 DEF Inv, Typed, TypeOK, Awaited
  <2>2. ReadArrives
    <3>1. ~(UNCHANGED <<mutation, committed>>)
      OBVIOUS
    <3>2. ASSUME NEW m \in Mutation,
                 \/ Submit(m) \/ HostAccepts(m) \/ MutationFails(m)
                 \/ \E result \in {"stale", "refused"} : HostRefuses(m, result)
          PROVE  FALSE
      BY <2>1, <3>2 DEF Submit, HostAccepts, HostRefuses, Answer, MutationFails
    <3>3. ~RefreshFails
      BY <2>1 DEF RefreshFails, EndRefresh, Failing, View
    <3>4. ~MutationAnswered
      <4> SUFFICES ASSUME MutationAnswered PROVE FALSE
        OBVIOUS
      <4>1. PICK m \in Mutation : Head(answers).of = m
        BY <2>1, AnswerTypes DEF MutationAnswered
      <4>2. mutation[m] = "answered"
        BY <2>1, <4>1, OnlyAnswer DEF MutationAnswered
      <4>3. \E stage : mutation' = [mutation EXCEPT ![m] = stage]
        BY <4>1 DEF MutationAnswered, RefreshSharing, RefreshAfterCurrent
      <4> QED
        BY <2>1, <4>2, <4>3
    <3> QED
      BY <1>1, <3>1, <3>2, <3>3, <3>4, MutationMoves
  <2>3. EndRefresh(Shown(Head(answers).page))
    BY <2>2 DEF ReadArrives, Shown, historyVars
  <2>4. refresh.seen # 0
    BY <2>1, <2>2, FirstAnswer DEF ReadArrives, OneRead
  <2> QED
    BY <2>1, <2>3, <2>4 DEF EndRefresh, Shown, WaitsFor
<1>2. Inv /\ [Next]_vars => Settled
  BY <1>1
<1> HIDE DEF Settled
<1>3. Spec => [][Settled]_vars
  BY <1>2, Invariant, PTL DEF Spec
<1> QED
  BY <1>3 DEF Settled, SettledIsShown

\* A refresh, loadOlder or any other step drops an entry that is still in the
\* thread only from the view's far end, for at least as many newer ones, and the
\* view then says that there are more: the pages a refresh brings cover whatever
\* loadOlder has brought before them.
THEOREM LosesNothing == Spec => NothingSlipsOut
<1> DEFINE Lost == (view.entries \cap Thread') \ view'.entries
           Slipless == \A e \in Lost :
                      /\ view'.more
                      /\ \A f \in view'.entries : e[2] < f[2]
                      /\ Cardinality(view'.entries) >= Cardinality(view.entries)
<1>1. ASSUME Inv, [Next]_vars
      PROVE  Slipless
  <2> SUFFICES ASSUME NEW e \in Lost
               PROVE  /\ view'.more
                      /\ \A f \in view'.entries : e[2] < f[2]
                      /\ Cardinality(view'.entries) >= Cardinality(view.entries)
    OBVIOUS
  <2>1. Typed /\ OneRead /\ Covered /\ view \in View
    BY <1>1 DEF Inv, Typed, TypeOK
  <2>2. ReadArrives
    <3>1. Failing(view).entries = view.entries
      BY <2>1 DEF Failing, View
    <3>2. ~RefreshFails /\ ~OlderFails /\ ~OlderArrives /\ ~MutationAnswered
      BY <2>1, <3>1 DEF RefreshFails, EndRefresh, OlderFails, OlderArrives,
                        MutationAnswered, View
    <3>3. /\ \A k \in Mutation : ~MutationFails(k)
          /\ \A g \in Generation : ~PollFails(g)
      BY <3>1 DEF MutationFails, PollFails
    <3> QED
      BY <1>1, <3>2, <3>3, ViewMoves
  <2> DEFINE page == Head(answers).page
  <2>3. ~TooFew(page) /\ view'.entries = page.entries /\ view'.more = page.more
    BY <2>2 DEF ReadArrives, EndRefresh, ReadEntries
  <2>4. Covers(page, view.entries \cap Thread)
    <3>1. 1 \in PagesAt(answers) /\ Head(answers) = answers[1]
      BY <2>1, <2>2, FirstAnswer, Heads DEF ReadArrives, Arrives, Typed
    <3> QED
      BY <2>1, <3>1 DEF Covered, CoversView
  <2>5. e \in (view.entries \cap Thread) \ page.entries
    BY <2>2, <2>3 DEF ReadArrives, hostVars, Thread
  <2>6. Cardinality(page.entries) \in Nat /\ Cardinality(view.entries) \in Nat
    <3>1. page \in Pages
      BY <2>1, <2>2, ReadEnds DEF ReadArrives, OneRead, Reading
    <3> QED
      BY <2>1, <3>1, EntriesAreFinite DEF Pages, View
  <2>7. page.more /\ \A f \in page.entries : e[2] < f[2]
    BY <2>4, <2>5 DEF Covers
  <2> QED
    BY <2>3, <2>6, <2>7 DEF TooFew
<1>2. Inv /\ [Next]_vars => Slipless
  BY <1>1
<1> HIDE DEF Slipless
<1>3. Spec => [][Slipless]_vars
  BY <1>2, Invariant, PTL DEF Spec
<1> QED
  BY <1>3 DEF Slipless, NothingSlipsOut
=============================================================================
