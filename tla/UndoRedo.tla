-------------------------------- MODULE UndoRedo --------------------------------
(***************************************************************************)
(* The UndoRedoService (platform/undoRedo/common/undoRedoService.ts) with  *)
(* the text models it serves, which come and go (ModelService,             *)
(* editor/common/services/modelService.ts), and the elements that are      *)
(* pushed: typing, edits of several texts, operations on files.            *)
(***************************************************************************)
EXTENDS EditStacks

CONSTANTS
    Kinds,          \* of elements: "text", "texts", "files"
    Groups,         \* UndoRedoGroup, 0 for none
    ConfirmedGroups,    \* those whose operations on files have confirmBeforeUndo
    MaxPushes,      \* bound: elements
    MaxRequests,    \* bound: undo and redo
    MaxCloses,      \* bound: models disposed
    MaxChanges      \* bound: texts that another program changes or setValue replaces

ASSUME UndoRedoAssumption ==
    /\ Kinds \subseteq {"text", "texts", "files"} /\ 0 \in Groups /\ Groups \subseteq Nat
    /\ ConfirmedGroups \subseteq Groups
    /\ {MaxPushes, MaxRequests, MaxCloses, MaxChanges} \subseteq Nat
    /\ IsFiniteSet(Resources)

Requests == 1..MaxRequests

MaxCalls == 2 * MaxPushes + 2

\* Whether the text matters to an element, and whether it can be split.
OfText(x) == element[x.id].kind # "files"

VARIABLES
    request,    \* what undo and redo are at
    undone,     \* operations on files that are undone
    text,       \* of a resource: the elements it has; others: Foreign; Garbled
    open,       \* whether a resource has a model
    unloaded,   \* elements that have no model for a resource: <<id, resource>>
    initial,    \* _initialUndoRedoSnapshot of the model
    disposed,   \* DisposedModelInfo: sha1, initialUndoRedoSnapshot
    history     \* outlived: resources that kept elements of another text; closes, changes

modelVars == <<open, unloaded, initial, disposed>>
vars == <<stackVars, request, undone, text, modelVars, history>>

\* The absence of an entry, a resource, a snapshot, what is known of a disposed model.
NoEntry == Entry(0, FALSE)
Nowhere == "nowhere"
NoSnapshot == <<NoEntry>>
Forgotten == [known |-> FALSE]

\* In a text, besides the elements.
Foreign == 0
Garbled == -1

Idle == [pc |-> "none", direction |-> "undo", at |-> Nowhere, x |-> NoEntry, sure |-> FALSE, touched |-> FALSE,
         calls |-> 0]

Init ==
    /\ InitStacks
    /\ request = [q \in Requests |-> Idle]
    /\ undone = {}
    /\ text = [r \in Resources |-> <<>>] /\ open = [r \in Resources |-> TRUE]
    /\ unloaded = {} /\ initial = [r \in Resources |-> NoSnapshot]
    /\ disposed = [r \in Resources |-> Forgotten]
    /\ history = [outlived |-> {}, closes |-> 0, changes |-> 0]

-----------------------------------------------------------------------------
(* Requests.  What a request does without waiting nobody gets in between.   *)

Synchronous == {"go", "next"}
Busy == \E q \in Requests : request[q].pc \in Synchronous

\* The resources of an entry.
On(x, at) == IF Spans(x) THEN element[x.id].on ELSE {at}

\* versionId: those who have a snapshot of the stacks will see that they changed.
Touch(requests, resources) ==
    [q \in Requests |->
        IF requests[q].pc \in {"choose", "prepare"} /\ element[requests[q].x.id].on \cap resources # {}
        THEN [requests[q] EXCEPT !.touched = TRUE] ELSE requests[q]]

\* A wait starts the count of the calls anew.
Becomes(q, pc) == [request EXCEPT ![q].pc = pc, ![q].calls = 0]
Ends(q) == [request EXCEPT ![q] = [Idle EXCEPT !.pc = "done"]]

\* A call of _undo, _redo; how deep they are in each other is counted up to MaxCalls.
Goes(q, at, sure) ==
    [request EXCEPT ![q].pc = "go", ![q].at = at, ![q].sure = sure, ![q].x = NoEntry, ![q].touched = FALSE,
                    ![q].calls = IF @ < MaxCalls THEN @ + 1 ELSE @]

\* _findClosestUndoElementInGroup, _findClosestRedoElementInGroup: where to go on.
InGroup(group, direction) ==
    {r \in Resources : HasTop(r, direction) /\ GroupOf(Top(r, direction)) = group}
ClosestInGroup(group, direction) ==
    {r \in InGroup(group, direction) : \A s \in InGroup(group, direction) :
        LET a == Top(r, direction).id
            b == Top(s, direction).id
        IN  IF direction = "undo" THEN a >= b ELSE a <= b}

\* undo, redo
Ask(q, r, direction) ==
    /\ ~Busy /\ open[r]
    /\ request[q].pc = "none" /\ \A p \in 1..(q - 1) : request[p].pc # "none"
    /\ request' = [Goes(q, r, FALSE) EXCEPT ![q].direction = direction]
    /\ UNCHANGED <<stackVars, undone, text, modelVars, history>>

(* _checkWorkspaceUndo, _checkWorkspaceRedo: an element of several resources is *)
(* undone in all of them or not at all.                                        *)
GoneFrom(x) == {r \in Resources : <<x.id, r>> \in removed}
InvalidIn(x) == {r \in Resources : <<x, r>> \in invalid}

IsClosest(x, direction) ==
    \A r \in element[x.id].on : HasTop(r, direction) /\ Top(r, direction) = x

Verified(q, x, late) ==
    /\ GoneFrom(x) = {}
    /\ late => InvalidIn(x) = {}
    /\ IsClosest(x, request[q].direction)
    /\ \A r \in element[x.id].on : stack[r].locked = 0
    /\ ~request[q].touched

IgnoredBy(x, late) ==
    IF GoneFrom(x) # {} THEN GoneFrom(x) ELSE IF late THEN InvalidIn(x) ELSE {}

\* Mutant of SplitAndGo: what is to be made again is looked for among what is done.
SplitAndGoInPast(q, x, ignored) ==
    LET on == element[x.id].on \ ignored
        here == {r \in on : stack[r].there}
    IN  /\ on = here
        /\ Split(x, "undo", on)
        /\ request' = Touch(Goes(q, request[q].at, TRUE), on)

(* _tryToSplitAndUndo, _tryToSplitAndRedo: the request goes on with the part of *)
(* its own resource.  Where a stack is gone that is not ignored, an error ends  *)
(* it, after some of the others were split.                                    *)
SplitAndGo(q, x, ignored) ==
    LET on == element[x.id].on \ ignored
        here == {r \in on : stack[r].there}
        direction == request[q].direction
    IN  IF on = here
        THEN /\ Split(x, direction, on)
             /\ request' = Touch(Goes(q, request[q].at, TRUE), on)
        ELSE \E some \in SUBSET here :
                 /\ Split(x, direction, some)
                 /\ request' = Touch(Ends(q), some)

TryToSplit(q, x, ignored) ==
    IF OfText(x)
    THEN SplitAndGo(q, x, ignored)
    ELSE /\ RemoveElements(element[x.id].on)
         /\ request' = Touch(Ends(q), element[x.id].on)

-----------------------------------------------------------------------------
(* The elements themselves.                                                *)

\* What applying the inverse of an edit gives, of a text that it is for or is not.
Reverted(id, r) ==
    IF text[r] = Append(element[id].found[r], id) THEN element[id].found[r]
    ELSE Append(text[r], Garbled)
Reapplied(id, r) ==
    IF text[r] = element[id].found[r] THEN Append(text[r], id) ELSE Append(text[r], Garbled)

Edited(x, direction, resources) ==
    [r \in Resources |-> IF r \notin resources THEN text[r]
                         ELSE IF direction = "undo" THEN Reverted(x.id, r) ELSE Reapplied(x.id, r)]

\* _onError: the stacks of everything the element is about are dropped.
Fails(q, x, at) ==
    /\ RemoveElements(On(x, at))
    /\ request' = Touch(Ends(q), On(x, at))

(* The element is moved and invoked under the locks of its stacks.  Edits are   *)
(* made at once, or fail for the lack of a model, some of them already made;    *)
(* an operation on files takes its time.                                       *)
Invoke(q, x) ==
    LET at == request[q].at
        on == On(x, at)
        direction == request[q].direction
    IN  \/ /\ OfText(x) /\ \A r \in on : <<x.id, r>> \notin unloaded
           /\ Move(x, direction, on, 0)
           /\ text' = Edited(x, direction, on)
           /\ request' = Touch([request EXCEPT ![q].pc = "next", ![q].x = x, ![q].touched = FALSE], on)
           /\ UNCHANGED undone
        \/ /\ OfText(x) /\ \E r \in on : <<x.id, r>> \in unloaded
           /\ Fails(q, x, at)
           /\ \E some \in SUBSET {r \in on : <<x.id, r>> \notin unloaded} :
                  text' = Edited(x, direction, some)
           /\ UNCHANGED undone
        \/ /\ ~OfText(x)
           /\ Move(x, direction, on, q)
           /\ undone' = IF direction = "undo" THEN undone \cup {x.id} ELSE undone \ {x.id}
           /\ request' = Touch([request EXCEPT ![q].pc = "running", ![q].x = x, ![q].touched = FALSE,
                                       ![q].calls = 0], on)
           /\ UNCHANGED text

-----------------------------------------------------------------------------
(* _undo and _redo.                                                        *)

\* Nothing to undo; or an element of the group comes first; or the user is asked.
GoNowhere(q) ==
    /\ request[q].pc = "go" /\ ~HasTop(request[q].at, request[q].direction)
    /\ request' = Ends(q)
    /\ UNCHANGED <<stackVars, undone, text, modelVars, history>>

IsNext(q, x) ==
    GroupOf(x) # 0 =>
        \E r \in ClosestInGroup(GroupOf(x), request[q].direction) : Top(r, request[q].direction) = x
NeedsConfirmation(q, x) ==
    /\ request[q].direction = "undo" /\ element[x.id].kind = "files"
    /\ element[x.id].group \in ConfirmedGroups /\ ~request[q].sure

GoToGroup(q) ==
    /\ request[q].pc = "go" /\ HasTop(request[q].at, request[q].direction)
    /\ LET x == Top(request[q].at, request[q].direction)
       IN  /\ ~IsNext(q, x)
           /\ \E r \in ClosestInGroup(GroupOf(x), request[q].direction) :
                  request' = Goes(q, r, request[q].sure)
    /\ UNCHANGED <<stackVars, undone, text, modelVars, history>>

\* _confirmAndContinueUndo
Confirm(q) ==
    /\ request[q].pc = "go" /\ HasTop(request[q].at, request[q].direction)
    /\ LET x == Top(request[q].at, request[q].direction)
       IN  IsNext(q, x) /\ NeedsConfirmation(q, x)
    /\ request' = Becomes(q, "confirm")
    /\ UNCHANGED <<stackVars, undone, text, modelVars, history>>

Confirmed(q) ==
    /\ ~Busy /\ request[q].pc = "confirm"
    /\ \/ request' = Goes(q, request[q].at, TRUE)
       \/ request' = Ends(q)
    /\ UNCHANGED <<stackVars, undone, text, modelVars, history>>

\* _resourceUndo, _resourceRedo
GoInResource(q) ==
    /\ request[q].pc = "go" /\ HasTop(request[q].at, request[q].direction)
    /\ LET at == request[q].at
           x == Top(at, request[q].direction)
       IN  /\ IsNext(q, x) /\ ~NeedsConfirmation(q, x) /\ ~Spans(x)
           /\ \/ /\ <<x, at>> \in invalid
                 /\ Flush(at)
                 /\ request' = Touch(Ends(q), {at})
                 /\ UNCHANGED <<undone, text>>
              \/ /\ <<x, at>> \notin invalid /\ stack[at].locked # 0
                 /\ request' = Ends(q)
                 /\ UNCHANGED <<stackVars, undone, text>>
              \/ /\ <<x, at>> \notin invalid /\ stack[at].locked = 0
                 /\ Invoke(q, x)
    /\ UNCHANGED <<modelVars, history>>

\* _workspaceUndo, _workspaceRedo: who undoes may choose, except in a group.
GoInWorkspace(q) ==
    /\ request[q].pc = "go" /\ HasTop(request[q].at, request[q].direction)
    /\ LET x == Top(request[q].at, request[q].direction)
           asks == request[q].direction = "undo" /\ OfText(x) /\ GroupOf(x) = 0
       IN  /\ IsNext(q, x) /\ ~NeedsConfirmation(q, x) /\ Spans(x)
           /\ IF Verified(q, x, FALSE)
              THEN /\ request' = [Becomes(q, IF asks THEN "choose" ELSE "prepare") EXCEPT
                                      ![q].x = x, ![q].touched = FALSE]
                   /\ UNCHANGED stackVars
              ELSE TryToSplit(q, x, IgnoredBy(x, FALSE))
    /\ UNCHANGED <<undone, text, modelVars, history>>

\* _confirmAndExecuteWorkspaceUndo: in all files, in this file, or not at all.
Chosen(q) ==
    /\ ~Busy /\ request[q].pc = "choose"
    /\ LET x == request[q].x
       IN  \/ request' = Ends(q) /\ UNCHANGED stackVars
           \/ SplitAndGo(q, x, {})
           \/ IF Verified(q, x, FALSE)
              THEN request' = [Becomes(q, "prepare") EXCEPT ![q].sure = TRUE] /\ UNCHANGED stackVars
              ELSE TryToSplit(q, x, IgnoredBy(x, FALSE))
    /\ UNCHANGED <<undone, text, modelVars, history>>

\* The models that were missing are loaded, or could not be.
Prepared(q) ==
    /\ ~Busy /\ request[q].pc = "prepare"
    /\ LET x == request[q].x
       IN  IF Verified(q, x, TRUE) THEN Invoke(q, x)
           ELSE /\ TryToSplit(q, x, IgnoredBy(x, TRUE))
                /\ UNCHANGED <<undone, text>>
    /\ UNCHANGED <<modelVars, history>>

\* The operation on files ends, and the locks of its request with it.
Released(q) ==
    [r \in Resources |-> IF stack[r].locked = q THEN [stack[r] EXCEPT !.locked = 0] ELSE stack[r]]

\* Mutant of FilesEnd: only an operation that fails is released.
FilesEndLocked(q) ==
    /\ ~Busy /\ request[q].pc = "running"
    /\ \/ /\ request' = Becomes(q, "next")
          /\ UNCHANGED stackVars
       \/ Fails(q, request[q].x, request[q].at)
    /\ UNCHANGED <<undone, text, modelVars, history>>

FilesEnd(q) ==
    /\ ~Busy /\ request[q].pc = "running"
    /\ \/ /\ stack' = Released(q)
          /\ request' = Becomes(q, "next")
          /\ UNCHANGED <<element, removed, invalid>>
       \/ Fails(q, request[q].x, request[q].at)
    /\ UNCHANGED <<undone, text, modelVars, history>>

\* _continueUndoInGroup, _continueRedoInGroup
GoOnInGroup(q) ==
    /\ request[q].pc = "next"
    /\ LET group == GroupOf(request[q].x)
           next == ClosestInGroup(group, request[q].direction)
       IN  IF group = 0 \/ next = {} THEN request' = Ends(q)
           ELSE \E r \in next : request' = Goes(q, r, request[q].sure)
    /\ UNCHANGED <<stackVars, undone, text, modelVars, history>>

-----------------------------------------------------------------------------
(* Edits, and the models of the texts.                                     *)

\* Typing is pushed when the model has its snapshot, an edit of several texts
\* before.  An operation may be on one file only.
Edit(kind, on, group) ==
    /\ ~Busy /\ Len(element) < MaxPushes
    /\ kind \in Kinds
    /\ CASE kind = "text"  -> Cardinality(on) = 1
         [] kind = "texts" -> Cardinality(on) > 1
         [] kind = "files" -> on # {}
    /\ kind # "files" => \A r \in on : open[r]
    /\ LET id == Len(element) + 1
           found == [r \in Resources |-> IF kind # "files" /\ r \in on THEN text[r] ELSE <<>>]
       IN  /\ Push([kind |-> kind, on |-> on, group |-> group, found |-> found])
           /\ text' = [r \in Resources |-> IF kind # "files" /\ r \in on THEN Append(text[r], id)
                                           ELSE text[r]]
           /\ initial' = [r \in Resources |->
                             IF kind = "files" \/ r \notin on \/ initial[r] # NoSnapshot THEN initial[r]
                             ELSE Snapshot(IF kind = "text" THEN stack[r] ELSE stack'[r])]
    /\ request' = Touch(request, on)
    /\ UNCHANGED <<undone, open, unloaded, disposed, history>>

\* setValue: EditStack.clear
SetValue(r) ==
    /\ ~Busy /\ open[r] /\ history.changes < MaxChanges
    /\ history' = [history EXCEPT !.changes = @ + 1]
    /\ RemoveElements({r})
    /\ text' = [text EXCEPT ![r] = Append(@, Foreign)]
    /\ request' = Touch(request, {r})
    /\ UNCHANGED <<undone, modelVars>>

TextEntries(r) == {x \in Entries(r) : OfText(x)}

(* What a model that goes, or another that comes for a changed text, restores:  *)
(* the stack as it was before the model was edited.  Elements of the text that  *)
(* stay nonetheless are for a text that is not there.                          *)
RestoreInitial(r, snapshot) ==
    /\ IF snapshot = NoSnapshot THEN UNCHANGED <<element, stack, removed>> ELSE Restore(r, snapshot)
    /\ request' = IF snapshot = NoSnapshot THEN request ELSE Touch(request, {r})
    /\ history' = [history EXCEPT !.outlived =
                       IF \E x \in Range(stack'[r].past) \cup Range(stack'[r].future) : OfText(x)
                       THEN @ \cup {r} ELSE @,
                   !.closes = IF open[r] THEN @ + 1 ELSE @]

\* _onWillDispose: the elements of the text are kept and marked, if there is room.
Close(r) ==
    /\ ~Busy /\ open[r] /\ history.closes < MaxCloses
    /\ open' = [open EXCEPT ![r] = FALSE]
    /\ initial' = [initial EXCEPT ![r] = NoSnapshot]
    /\ unloaded' = unloaded \cup {<<x.id, r>> : x \in TextEntries(r)}
    /\ \/ /\ TextEntries(r) # {}
          /\ invalid' = invalid \cup {<<x, r>> : x \in TextEntries(r)}
          /\ disposed' = [disposed EXCEPT ![r] = [known |-> TRUE, sha1 |-> text[r], initial |-> initial[r]]]
          /\ history' = [history EXCEPT !.closes = @ + 1]
          /\ UNCHANGED <<element, stack, removed, request>>
       \/ /\ RestoreInitial(r, initial[r])
          /\ UNCHANGED <<invalid, disposed>>
    /\ UNCHANGED <<undone, text>>

\* _ensureDisposedModelsHeapSize
Evict(r) ==
    /\ ~Busy /\ disposed[r].known
    /\ disposed' = [disposed EXCEPT ![r] = Forgotten]
    /\ RestoreInitial(r, disposed[r].initial)
    /\ UNCHANGED <<invalid, undone, text, open, unloaded, initial>>

\* Another program writes the file.
Change(r) ==
    /\ ~Busy /\ ~open[r] /\ history.changes < MaxChanges
    /\ history' = [history EXCEPT !.changes = @ + 1]
    /\ text' = [text EXCEPT ![r] = Append(@, Foreign)]
    /\ UNCHANGED <<stackVars, request, undone, modelVars>>

\* _createModelData: for the text it was, the elements have their model again.
Open(r) ==
    /\ ~Busy /\ ~open[r]
    /\ open' = [open EXCEPT ![r] = TRUE]
    /\ disposed' = [disposed EXCEPT ![r] = Forgotten]
    /\ \/ /\ ~disposed[r].known
          /\ UNCHANGED <<stackVars, request, unloaded, initial, history>>
       \/ /\ disposed[r].known /\ disposed[r].sha1 = text[r]
          /\ unloaded' = unloaded \ {<<x.id, r>> : x \in TextEntries(r)}
          /\ invalid' = invalid \ {<<x, r>> : x \in TextEntries(r)}
          /\ initial' = [initial EXCEPT ![r] = disposed[r].initial]
          /\ UNCHANGED <<element, stack, removed, request, history>>
       \/ /\ disposed[r].known /\ disposed[r].sha1 # text[r]
          /\ RestoreInitial(r, disposed[r].initial)
          /\ UNCHANGED <<invalid, unloaded, initial>>
    /\ UNCHANGED <<undone, text>>

-----------------------------------------------------------------------------

\* What goes on by itself.  Dialogs wait for their user.
Runs ==
    \E q \in Requests :
        \/ GoNowhere(q) \/ GoToGroup(q) \/ Confirm(q) \/ GoInResource(q) \/ GoInWorkspace(q)
        \/ Prepared(q) \/ FilesEnd(q) \/ GoOnInGroup(q)

Next ==
    \/ Runs
    \/ \E q \in Requests : Confirmed(q) \/ Chosen(q)
    \/ \E q \in Requests, r \in Resources, direction \in {"undo", "redo"} : Ask(q, r, direction)
    \/ \E kind \in Kinds, on \in SUBSET Resources, group \in Groups : Edit(kind, on, group)
    \/ \E r \in Resources : SetValue(r) \/ Close(r) \/ Evict(r) \/ Change(r) \/ Open(r)

Spec == Init /\ [][Next]_vars

-----------------------------------------------------------------------------
(* Properties.                                                             *)

Ids == DOMAIN element
StackEntries == [id : Ids, alone : BOOLEAN]
Snapshots == Seq(StackEntries \cup {NoEntry})
Texts == Seq(Int)

Elements == [kind : Kinds, on : SUBSET Resources, group : Groups, found : [Resources -> Texts]]

Stacks ==
    [there : BOOLEAN, past : Seq(StackEntries), future : Seq(StackEntries), locked : 0..MaxRequests]
Doings ==
    [pc : Synchronous \cup {"none", "confirm", "choose", "prepare", "running", "done"},
     direction : {"undo", "redo"}, at : Resources \cup {Nowhere}, x : StackEntries \cup {NoEntry},
     sure : BOOLEAN, touched : BOOLEAN, calls : 0..MaxCalls]

TypeOK ==
    /\ element \in Seq(Elements) /\ stack \in [Resources -> Stacks]
    /\ removed \subseteq Ids \X Resources /\ unloaded \subseteq Ids \X Resources
    /\ invalid \subseteq StackEntries \X Resources /\ undone \subseteq Ids
    /\ request \in [Requests -> Doings]
    /\ text \in [Resources -> Texts] /\ open \in [Resources -> BOOLEAN]
    /\ initial \in [Resources -> Snapshots]
    /\ disposed \in [Resources -> {Forgotten} \cup [known : {TRUE}, sha1 : Texts, initial : Snapshots]]
    /\ history \in [outlived : SUBSET Resources, closes : Nat, changes : Nat]

\* An element is in the stacks of its resources, once, and only a text's is split,
\* whatever was closed, split, moved or removed.
Once(s) == \A i, j \in DOMAIN s : s[i].id = s[j].id => i = j
EntriesInPlace ==
    \A r \in Resources :
        /\ \A x \in Entries(r) : r \in element[x.id].on /\ (OfText(x) \/ ~x.alone)
        /\ Once(stack[r].past) /\ Once(stack[r].future)
        /\ \A x \in Range(stack[r].past), y \in Range(stack[r].future) : x.id # y.id
        /\ ~stack[r].there => Entries(r) = {}

\* No text is garbled: an edit is undone only on the text it has left, and made
\* again only on the one it was made on, whatever was typed, closed, changed on
\* disk or undone meanwhile.
NothingGarbled == \A r \in Resources \ history.outlived : \A i \in DOMAIN text[r] : text[r][i] # Garbled

\* The same with nothing left out.
NeverGarbled == \A r \in Resources : \A i \in DOMAIN text[r] : text[r][i] # Garbled

\* What is undone in one file is undone in all files that still know of it; and an
\* operation on files is among what may be undone if, and only if, it is done.
SidesAgree ==
    \A r \in Resources :
        /\ \A x \in Range(stack[r].past) :
               /\ Spans(x) => \A s \in Resources : x \notin Range(stack[s].future)
               /\ ~OfText(x) => x.id \notin undone
        /\ \A x \in Range(stack[r].future) : ~OfText(x) => x.id \in undone

\* A stack is locked by a request that still runs on it, and by no other.
LocksAreHeld ==
    \A r \in Resources : stack[r].locked # 0 =>
        LET q == stack[r].locked
        IN  request[q].pc = "running" /\ r \in element[request[q].x.id].on

\* A request that waits with an element, or runs it, knows where.
Stands(q) ==
    LET x == request[q].x
    IN  /\ request[q].pc \notin {"none", "done"} => request[q].at \in Resources
        /\ request[q].pc \in {"choose", "prepare", "running"} =>
               x.id \in Ids /\ request[q].at \in element[x.id].on
        /\ request[q].pc \in {"choose", "prepare"} => Spans(x)
        /\ request[q].pc = "choose" => OfText(x)

\* A lock is of a request that runs an element, where it runs it.
LockStands(r) ==
    stack[r].locked # 0 =>
        LET q == stack[r].locked
        IN  request[q].pc = "running" /\ r \in On(request[q].x, request[q].at)

\* The texts an element of a text was made on and has left.
IsText(elements, x) == elements[x.id].kind # "files"
FoundIn(elements, x, r) == elements[x.id].found[r]
LeftIn(elements, x, r) == Append(FoundIn(elements, x, r), x.id)

\* Of the elements of a text, one that comes after another on a side, and the last.
Adjacent(elements, s, i, j) ==
    /\ i < j /\ IsText(elements, s[i]) /\ IsText(elements, s[j])
    /\ \A k \in DOMAIN s : i < k /\ k < j => ~IsText(elements, s[k])
IsLast(elements, s, i) ==
    IsText(elements, s[i]) /\ \A k \in DOMAIN s : i < k => ~IsText(elements, s[k])

\* Undone one by one, from a text, the elements find what they have left; and made
\* again, what they have found.
Follow(elements, past, future, r, t) ==
    /\ \A i, j \in DOMAIN past :
           Adjacent(elements, past, i, j) => FoundIn(elements, past[j], r) = LeftIn(elements, past[i], r)
    /\ \A i \in DOMAIN past : IsLast(elements, past, i) => LeftIn(elements, past[i], r) = t
    /\ \A i, j \in DOMAIN future :
           Adjacent(elements, future, i, j) => FoundIn(elements, future[i], r) = LeftIn(elements, future[j], r)
    /\ \A i \in DOMAIN future : IsLast(elements, future, i) => FoundIn(elements, future[i], r) = t

\* The elements follow from the text of the model, or of the one that was disposed.
TextFollows(r) ==
    /\ open[r] => Follow(element, stack[r].past, stack[r].future, r, text[r])
    /\ ~open[r] => /\ \A x \in TextEntries(r) : <<x.id, r>> \in unloaded
                   /\ IF disposed[r].known
                      THEN Follow(element, stack[r].past, stack[r].future, r, disposed[r].sha1)
                      ELSE TextEntries(r) = {}

IInv ==
    /\ TypeOK /\ EntriesInPlace /\ SidesAgree
    /\ \A q \in Requests : Stands(q)
    /\ \A r \in Resources : LockStands(r)
    /\ \A r \in Resources \ history.outlived : TextFollows(r)
    /\ NothingGarbled

\* The calls of _undo and _redo, which call each other by way of splits and groups,
\* come to an end.
RecursionEnds == \A q \in Requests : request[q].calls < MaxCalls \/ history.outlived # {}
=================================================================================
