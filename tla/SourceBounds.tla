---------------------------- MODULE SourceBounds ----------------------------
(***************************************************************************)
(* How the text of a source turn is cut on its way to the model and to the *)
(* store: captureEligibleSourceCapsule, buildManualTarget and boundCapsule *)
(* of src/src/observer.ts, and sourceSummary of src/src/store.ts with the  *)
(* reader of what it writes. A text is its length; names of tools that are *)
(* equally long are the same name.                                         *)
(***************************************************************************)
EXTENDS Integers, SequencesExt

CONSTANTS Limits,       \* values of maxSourceChars
          Lengths,      \* lengths of what a turn and a request say
          ToolLists,    \* what a turn's tools are: <<name, preview>>
          PreviewChars, UserChars, NameChars, MaxNames, NoText

\* What boundCapsule returns.
Cuts == [user : Nat, assistant : Nat, tools : Seq((Nat \ {0}) \X Nat),
         truncated : BOOLEAN]

ASSUME LimitAssumption == Limits \subseteq Nat \ {0}
ASSUME LengthAssumption == Lengths \subseteq Nat \ {0}
ASSUME ToolAssumption == ToolLists \subseteq Seq((Nat \ {0}) \X Nat)
ASSUME CharsAssumption ==
  /\ PreviewChars \in Nat /\ UserChars \in Nat
  /\ NameChars \in Nat \ {0} /\ MaxNames \in Nat
ASSUME NoTextAssumption == NoText \notin Nat /\ NoText \notin Cuts

VARIABLES limit,
          turn,     \* what was said: user, assistant and tools
          asked,    \* the text of the explicit request
          capsule,  \* what the capture made of the turn
          target,   \* the capsule of the explicit request
          summary   \* what the store has kept of one of them

boundsVars == <<limit, turn, asked, capsule, target, summary>>

Said(user, assistant, tools) ==
  [user |-> user, assistant |-> assistant, tools |-> tools]

BoundsInit ==
  /\ limit \in Limits
  /\ turn \in {Said(u, a, t) : u \in Lengths \cup {0}, a \in Lengths,
                               t \in ToolLists}
  /\ asked = NoText /\ capsule = NoText /\ target = NoText /\ summary = NoText

-----------------------------------------------------------------------------
\* truncateMiddle and privateBound: the head, an ellipsis and the tail.
HeadChars(room) == room \div 2
TailChars(room) == (room - 1) \div 2
CutTo(length, room) ==
  IF length <= room THEN length
  ELSE IF room <= 0 THEN 0 ELSE HeadChars(room) + 1 + TailChars(room)

ToolChars(tools) ==
  LET sum[i \in 0..Len(tools)] ==
        IF i = 0 THEN 0 ELSE sum[i - 1] + tools[i][1] + tools[i][2]
  IN  sum[Len(tools)]
Chars(said) == said.user + said.assistant + ToolChars(said.tools)

\* The tools have what room is left, one after the other, the name of each
\* before its preview. The fault forgets the room the preview takes.
LeftOfName(room, name, preview) == room - name
Left(room, name, preview) == room - name - preview
WithTool(kept, tool) ==
  LET name == CutTo(tool[1], kept.room)
      preview == CutTo(tool[2], kept.room - name)
  IN  IF kept.room <= 0 \/ name = 0 THEN [kept EXCEPT !.room = 0]
      ELSE [tools |-> Append(kept.tools, <<name, preview>>),
            room |-> Left(kept.room, name, preview)]
BoundedTools(tools, room) ==
  LET kept[i \in 0..Len(tools)] ==
        IF i = 0 THEN [tools |-> <<>>, room |-> room]
        ELSE WithTool(kept[i - 1], tools[i])
  IN  kept[Len(tools)].tools

\* boundCapsule.
AtLeast(least, n) == IF n < least THEN least ELSE n
AssistantLimit(l) == AtLeast(1, (l * 55) \div 100)
UserLimit(l) == (l * 3) \div 10
BoundCapsule(said, l) ==
  IF Chars(said) <= l
  THEN [user |-> said.user, assistant |-> said.assistant,
        tools |-> said.tools, truncated |-> FALSE]
  ELSE [user |-> CutTo(said.user, UserLimit(l)),
        assistant |-> CutTo(said.assistant, AssistantLimit(l)),
        tools |-> BoundedTools(said.tools,
                    AtLeast(0, l - UserLimit(l) - AssistantLimit(l))),
        truncated |-> TRUE]

\* captureEligibleSourceCapsule: a preview is cut before the capsule is bound.
Previewed(tools) ==
  [i \in DOMAIN tools |-> <<tools[i][1], CutTo(tools[i][2], PreviewChars)>>]
Cut ==
  /\ capsule = NoText
  /\ capsule' =
       BoundCapsule(Said(turn.user, turn.assistant, Previewed(turn.tools)),
                    limit)
  /\ UNCHANGED <<limit, turn, asked, target, summary>>

\* buildManualTarget: the request takes the user's place in the capsule that
\* was found, or in an empty one.
AskFor ==
  /\ target = NoText
  /\ \E request \in Lengths :
       /\ asked' = request
       /\ target' = BoundCapsule(IF capsule = NoText THEN Said(request, 0, <<>>)
                                 ELSE Said(request, capsule.assistant,
                                           capsule.tools), limit)
  /\ UNCHANGED <<limit, turn, capsule, summary>>

\* sourceSummary: each name once, so many of them, each so long.
Distinct(names) ==
  LET kept[i \in 0..Len(names)] ==
        IF i = 0 THEN <<>>
        ELSE IF names[i] = 0 \/ names[i] \in ToSet(kept[i - 1]) THEN kept[i - 1]
        ELSE Append(kept[i - 1], names[i])
  IN  kept[Len(names)]
Names(tools) == Distinct([i \in DOMAIN tools |-> tools[i][1]])
Bounded(names) ==
  [i \in DOMAIN names \cap 1..MaxNames |-> CutTo(names[i], NameChars)]
SourceSummary(c) ==
  LET names == Names(c.tools) IN
  [user |-> CutTo(c.user, UserChars), names |-> Bounded(names),
   truncated |-> c.user > UserChars \/ Bounded(names) # names]

\* The store keeps the summary of the capsule that was explained.
Keep ==
  /\ summary = NoText
  /\ \E c \in {capsule, target} \ {NoText} : summary' = SourceSummary(c)
  /\ UNCHANGED <<limit, turn, asked, capsule, target>>

BoundsNext == Cut \/ AskFor \/ Keep
BoundsSpec == BoundsInit /\ [][BoundsNext]_boundsVars

-----------------------------------------------------------------------------
BoundsTypeOK ==
  /\ limit \in Limits /\ asked \in Lengths \cup {NoText}
  /\ {capsule, target} \subseteq Cuts \cup {NoText}
  /\ (target = NoText) = (asked = NoText)

\* What goes to the model is never longer than maxSourceChars, whatever a turn
\* and its tools have said and however often it is cut (observer.ts:288-321).
WithinLimit == \A c \in {capsule, target} \ {NoText} : Chars(c) <= limit

\* A request is cut, never lost (observer.ts:174-204). Below four characters
\* its share of the limit is none.
RequestKept == target # NoText /\ limit >= 4 => target.user > 0

\* What the store writes of a source can be read for a rephrase: its reader
\* refuses a summary that is too long (store.ts:2394-2415).
Readable ==
  summary # NoText =>
    /\ summary.user <= UserChars /\ Len(summary.names) <= MaxNames
    /\ \A i \in DOMAIN summary.names : summary.names[i] \in 1..NameChars

\* A turn is cut as it should be, in each of these three respects.
WellCut == WithinLimit /\ RequestKept /\ Readable

\* The model is told when it is asked about an answer that was cut
\* (ARCHITECTURE.md, the source capsule).
TruncationTold ==
  target # NoText /\ capsule # NoText /\ target.assistant < turn.assistant
  => target.truncated
=============================================================================
