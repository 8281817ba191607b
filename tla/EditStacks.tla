------------------------------- MODULE EditStacks -------------------------------
(***************************************************************************)
(* The stacks of the UndoRedoService: ResourceEditStack with its elements  *)
(* (platform/undoRedo/common/undoRedoService.ts).  A stack has what was    *)
(* done to its resource, oldest first, and what was undone, oldest last.   *)
(***************************************************************************)
EXTENDS Integers, Sequences, FiniteSets, SequencesExt

CONSTANT Resources

VARIABLES
    element,    \* what was pushed: the kind, its resources, its group, and the texts it was for
    stack,      \* by resource; locked by a request, 0 for none
    removed,    \* removedResources, of elements of several resources: <<element, resource>>
    invalid     \* isValid, invalidatedResources: <<entry, resource>>

stackVars == <<element, stack, removed, invalid>>

\* An entry of a stack is an element, or what split made of it for one resource.
Entry(id, alone) == [id |-> id, alone |-> alone]

NoStack == [there |-> FALSE, past |-> <<>>, future |-> <<>>, locked |-> 0]

InitStacks ==
    /\ element = <<>> /\ removed = {} /\ invalid = {}
    /\ stack = [r \in Resources |-> NoStack]

Entries(r) == Range(stack[r].past) \cup Range(stack[r].future)

\* WorkspaceStackElement
Spans(x) == ~x.alone /\ Cardinality(element[x.id].on) > 1

\* What split makes of an element is in no group.
GroupOf(x) == IF x.alone THEN 0 ELSE element[x.id].group

\* getClosestPastElement, getClosestFutureElement
Side(direction) == IF direction = "undo" THEN "past" ELSE "future"
HasTop(r, direction) == stack[r][Side(direction)] # <<>>
Top(r, direction) == Last(stack[r][Side(direction)])

\* removeResource, for what a resource loses.
Marks(r, lost) == {<<x.id, r>> : x \in {x \in lost : Spans(x)}}

\* Mutant of Push: what is done instead keeps what was undone.
PushBesideFuture(new) ==
    LET id == Len(element) + 1
    IN  /\ element' = Append(element, new)
        /\ stack' = [r \in Resources |->
                        IF r \in new.on
                        THEN [stack[r] EXCEPT !.there = TRUE, !.past = Append(@, Entry(id, FALSE))]
                        ELSE stack[r]]
        /\ UNCHANGED <<removed, invalid>>

\* pushElement: there are no parallel universes.
Push(new) ==
    LET id == Len(element) + 1
    IN  /\ element' = Append(element, new)
        /\ stack' = [r \in Resources |->
                        IF r \in new.on
                        THEN [stack[r] EXCEPT !.there = TRUE, !.past = Append(@, Entry(id, FALSE)),
                                              !.future = <<>>]
                        ELSE stack[r]]
        /\ removed' = removed \cup UNION {Marks(r, Range(stack[r].future)) : r \in new.on}
        /\ UNCHANGED invalid

\* removeElements: a stack that goes tells its elements, and its lock goes with it.
RemoveElements(resources) ==
    /\ stack' = [r \in Resources |-> IF r \in resources THEN NoStack ELSE stack[r]]
    /\ removed' = removed \cup UNION {Marks(r, Entries(r)) : r \in resources}
    /\ UNCHANGED <<element, invalid>>

\* flushAllElements, which tells no element.
Flush(r) ==
    /\ stack' = [stack EXCEPT ![r].past = <<>>, ![r].future = <<>>]
    /\ UNCHANGED <<element, removed, invalid>>

\* createSnapshot
Snapshot(s) == s.past \o Reverse(s.future)

\* How much of a stack is as it was.
Kept(s, snapshot) ==
    LET now == Snapshot(s)
    IN  Cardinality({n \in DOMAIN now \cap DOMAIN snapshot : \A i \in 1..n : now[i] = snapshot[i]})

\* restoreSnapshot: what is as it was stays.  When the past is not, the future is
\* marked as removed, and yet stays.
Restored(s, snapshot) ==
    LET kept == Kept(s, snapshot)
        past == Len(s.past)
    IN  IF kept < past THEN [s EXCEPT !.past = SubSeq(@, 1, kept)]
        ELSE [s EXCEPT !.future = SubSeq(@, past + Len(@) - kept + 1, Len(@))]

Restore(r, snapshot) ==
    LET now == Snapshot(stack[r])
        new == Restored(stack[r], snapshot)
    IN  /\ stack' = [stack EXCEPT ![r] = IF new.past = <<>> /\ new.future = <<>> THEN NoStack ELSE new]
        /\ removed' = removed \cup Marks(r, {now[i] : i \in (Kept(stack[r], snapshot) + 1)..Len(now)})
        /\ UNCHANGED element

\* splitPastWorkspaceElement, splitFutureWorkspaceElement: a part is valid.
Split(x, direction, resources) ==
    LET part == Entry(x.id, TRUE)
        Parted(s) == [i \in DOMAIN s |-> IF s[i] = x THEN part ELSE s[i]]
        side == Side(direction)
    IN  /\ stack' = [r \in Resources |->
                        IF r \in resources THEN [stack[r] EXCEPT ![side] = Parted(@)] ELSE stack[r]]
        /\ UNCHANGED <<element, removed, invalid>>

\* Mutant of Move: the element stays where it was, too.
MoveCopies(x, direction, resources, lock) ==
    LET other == IF direction = "undo" THEN "future" ELSE "past"
    IN  /\ stack' = [r \in Resources |->
                        IF r \in resources
                        THEN [stack[r] EXCEPT ![other] = Append(@, x), !.locked = lock]
                        ELSE stack[r]]
        /\ UNCHANGED <<element, removed, invalid>>

\* Mutant of Move: only one of the stacks is told.
MoveInOne(x, direction, resources, lock) ==
    LET Moved(s) == IF direction = "undo"
                    THEN [s EXCEPT !.past = Front(@), !.future = Append(@, x), !.locked = lock]
                    ELSE [s EXCEPT !.future = Front(@), !.past = Append(@, x), !.locked = lock]
        one == CHOOSE r \in resources : TRUE
    IN  /\ stack' = [stack EXCEPT ![one] = Moved(@)]
        /\ UNCHANGED <<element, removed, invalid>>

\* moveBackward, moveForward; and _acquireLocks, for what takes its time.
Move(x, direction, resources, lock) ==
    LET Moved(s) == IF direction = "undo"
                    THEN [s EXCEPT !.past = Front(@), !.future = Append(@, x), !.locked = lock]
                    ELSE [s EXCEPT !.future = Front(@), !.past = Append(@, x), !.locked = lock]
    IN  /\ stack' = [r \in Resources |-> IF r \in resources THEN Moved(stack[r]) ELSE stack[r]]
        /\ UNCHANGED <<element, removed, invalid>>
=================================================================================
