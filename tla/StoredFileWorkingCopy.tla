-------------------------- MODULE StoredFileWorkingCopy --------------------------
(***************************************************************************)
(* A stored file working copy of                                           *)
(* workbench/services/workingCopy/common/storedFileWorkingCopy.ts (the     *)
(* model of a notebook or of a custom editor): what is edited, saved,      *)
(* reloaded and reverted while the file changes under it.  Its manager     *)
(* (storedFileWorkingCopyManager.ts) lets one resolve run at a time.       *)
(*                                                                         *)
(* Contents are numbers: 0 is what the file held at first, 1, 2... what is *)
(* typed, -1, -2... what other programs write to the file.  A content      *)
(* stands for the versionId of the model as well, which undo brings back,  *)
(* and for its size: two contents are taken to differ in size.  file is    *)
(* the sequence of all contents the file has had; its length is the time   *)
(* of its last modification.  Reads and writes of the contents are of one  *)
(* piece, but each stat, read and write is a step of its own, between      *)
(* which other programs write.                                             *)
(***************************************************************************)
EXTENDS TaskSequentializer, Sequences

CONSTANTS
    MaxEdits,       \* bound: changes typed
    MaxWrites,      \* bound: changes of the file by other programs
    MaxSaves,       \* bound: calls of save
    MaxFailures,    \* bound: reads and writes that fail
    MaxReverts,     \* bound: calls of revert
    MaxInputs       \* bound: all of these together

ASSUME WorkingCopyAssumption ==
    /\ MaxEdits \in Nat /\ MaxWrites \in Nat /\ MaxSaves \in Nat
    /\ MaxFailures \in Nat /\ MaxReverts \in Nat /\ MaxInputs \in Nat

\* SaveReason.AUTO and the like, EXPLICIT, and the Overwrite of a conflict
\* (ignoreModifiedSince).
Options == {"auto", "explicit", "overwrite"}

ASSUME NoTaskAssumption == NoTask \notin Options \cup [id : Nat, cancel : {1, 2}]

VARIABLES
    copy,           \* the working copy
    undo,           \* contents that undo goes back to
    file,
    event,          \* a file change event is on its way
    sequentializer, saves,      \* the saves that execute, by slot
    ignoring,       \* ignoreSaveFromSaveParticipants
    resolve,        \* the resolve that runs
    waiting,        \* those that wait for it: "reload", "revert"
    flags,          \* what a revert that runs goes back to when it fails
    bounds,         \* what has been counted against the bounds
    history         \* asked: the version of the last save() with something to save;
                    \* written: of the last save that succeeded; dropped: a save
                    \* was cancelled by the user or failed since; shown: contents
                    \* that the model has had; reverted, undone; overlapped:
                    \* a version was saved while a resolve of it ran, or the user typed
                    \* while the model was updated; mistaken: a stat was remembered of
                    \* contents that were not written, or not read in the end

vars == <<copy, undo, file, event, sequentializer, saves, ignoring, resolve, waiting, flags,
          bounds, history>>

Slots == {1, 2}
\* The mtime of a save is that of the working copy; then, from its check on, of the
\* file that the check saw (0: of none); at last of the file after the write.
NoSave == [phase |-> "none", version |-> 0, options |-> "auto", cancelled |-> FALSE,
           text |-> 0, mtime |-> 0]
Counted == {"edits", "writes", "saves", "failures", "reverts", "inputs"}
NoResolve == [phase |-> "none", kind |-> "reload", version |-> 0, etag |-> 0, mtime |-> 0]

Init ==
    /\ copy = [text |-> 0, version |-> 0, dirty |-> FALSE, saved |-> 0,
               conflict |-> FALSE, error |-> FALSE, mtime |-> 1]
    /\ undo = <<>>
    /\ file = <<0>> /\ event = FALSE
    /\ sequentializer = NewSequentializer /\ saves = [s \in Slots |-> NoSave]
    /\ ignoring = FALSE
    /\ resolve = NoResolve /\ waiting = {} /\ flags = copy
    /\ bounds = [what \in Counted |-> 0]
    /\ history = [asked |-> 0, written |-> 0, dropped |-> FALSE, shown |-> {0},
                  reverted |-> FALSE, undone |-> FALSE, overlapped |-> FALSE,
                  mistaken |-> FALSE]

Counts(what, max) ==
    /\ bounds[what] < max /\ bounds["inputs"] < MaxInputs
    /\ bounds' = [bounds EXCEPT ![what] = @ + 1, !["inputs"] = @ + 1]

Fails == Counts("failures", MaxFailures)

saving == <<sequentializer, saves, ignoring>>
resolving == <<resolve, waiting, flags>>

-----------------------------------------------------------------------------
(* The flags.                                                              *)

\* doSetDirty(false)
SetClean(c) == [c EXCEPT !.dirty = FALSE, !.conflict = FALSE, !.error = FALSE, !.saved = c.text]

IgnoresDirty == resolve.phase = "updating"

\* onModelContentChanged.  Back at the version that was saved last, it is clean.
ContentChanged(text) ==
    LET changed == [copy EXCEPT !.text = text, !.version = @ + 1]
    IN  IF IgnoresDirty THEN changed
        ELSE IF text = copy.saved THEN SetClean(changed)
        ELSE [changed EXCEPT !.dirty = TRUE]

\* updateLastResolvedFileStat: never back in time.
Resolved(c, mtime) == [c EXCEPT !.mtime = IF @ <= mtime THEN mtime ELSE @]

-----------------------------------------------------------------------------
(* The user, and other programs.                                           *)

Edit ==
    /\ Counts("edits", MaxEdits)
    /\ copy' = ContentChanged(bounds'["edits"])
    /\ undo' = Append(undo, copy.text)
    /\ history' = [history EXCEPT !.shown = @ \cup {copy'.text},
                                   !.overlapped = @ \/ IgnoresDirty]
    /\ UNCHANGED <<file, event, saving, resolving>>

Undo ==
    /\ undo # <<>>
    /\ copy' = ContentChanged(undo[Len(undo)])
    /\ undo' = SubSeq(undo, 1, Len(undo) - 1)
    /\ history' = [history EXCEPT !.shown = @ \cup {copy'.text}, !.undone = TRUE,
                                   !.overlapped = @ \/ IgnoresDirty,
                                   !.dropped = @ \/ ~copy'.dirty]
    /\ UNCHANGED <<file, event, saving, resolving, bounds>>

FileChanges ==
    /\ Counts("writes", MaxWrites)
    /\ file' = Append(file, -bounds'["writes"])
    /\ event' = TRUE
    /\ UNCHANGED <<copy, undo, saving, resolving, history>>

-----------------------------------------------------------------------------
(* Saving.                                                                 *)

\* Mutant of DoSave: a save starts while another one runs.
DoSaveAtOnce(c, q, all, ignores, options) ==
    IF ignores \/ IsRunningId(q, c.version) \/ (options = "auto" /\ ~c.dirty)
       \/ \A s \in Slots : all[s].phase # "none"
    THEN {<<q, all, ignores>>}
    ELSE LET slot == CHOOSE s \in Slots : all[s].phase = "none"
         IN  {<<Run(q, c.version, slot),
                [all EXCEPT ![slot] = [NoSave EXCEPT !.phase = "participants",
                                           !.version = c.version, !.options = options]], TRUE>>}

\* doSave: what becomes of sequentializer, saves and ignoring.  A save that
\* follows an undo may be delayed; then come the save participants, if any.
DoSave(c, q, all, ignores, options) ==
    IF ignores \/ IsRunningId(q, c.version) \/ (options = "auto" /\ ~c.dirty)
    THEN {<<q, all, ignores>>}
    ELSE IF IsRunning(q)
    THEN {<<Queue(q, options), [all EXCEPT ![q.running.cancel].cancelled = TRUE], ignores>>}
    ELSE LET slot == CHOOSE s \in Slots : all[s].phase = "none"
         IN  {<<Run(q, c.version, slot),
                [all EXCEPT ![slot] = [NoSave EXCEPT !.phase = p, !.version = c.version,
                                                     !.options = options]],
                p = "participants">> :
                    p \in {"participants"} \cup (IF options = "auto" THEN {"delayed"} ELSE {})}

SavingBecomes(outcomes) ==
    \E o \in outcomes : sequentializer' = o[1] /\ saves' = o[2] /\ ignoring' = o[3]

Overlaps == resolve # NoResolve /\ resolve.version = copy.version

\* save: automatic ones leave a working copy in conflict or error alone, and
\* only the message about a conflict offers to overwrite the file.
Save(options) ==
    /\ Counts("saves", MaxSaves)
    /\ options = "overwrite" => copy.conflict
    /\ IF options = "auto" /\ (copy.conflict \/ copy.error)
       THEN UNCHANGED <<saving, history>>
       ELSE /\ SavingBecomes(DoSave(copy, sequentializer, saves, ignoring, options))
            /\ history' = IF options = "auto" /\ ~copy.dirty THEN history
                          ELSE [history EXCEPT !.asked = copy.version,
                                   !.overlapped = @ \/ Overlaps,
                                   !.dropped = @ /\ (ignoring \/ IsRunningId(sequentializer, copy.version))]
    /\ UNCHANGED <<copy, undo, file, event, resolving>>

\* The save of a slot is over: what is queued runs on the working copy it left.
Ends(slot, c) ==
    LET id == saves[slot].version
        all == [saves EXCEPT ![slot] = NoSave]
        next == Released(sequentializer, id)
    IN  SavingBecomes(IF next = NoTask THEN {<<Done(sequentializer, id), all, FALSE>>}
                      ELSE DoSave(c, Done(sequentializer, id), all, FALSE, next))

At(slot, phase) == saves[slot].phase = phase

\* The progress is cancelled by the user, or the save by a participant.
CancelSave(slot) ==
    /\ At(slot, "delayed") \/ At(slot, "participants") \/ At(slot, "snapshot")
    /\ ~saves[slot].cancelled
    /\ saves' = [saves EXCEPT ![slot].cancelled = TRUE]
    /\ history' = [history EXCEPT !.dropped = TRUE]
    /\ UNCHANGED <<copy, undo, file, event, sequentializer, ignoring, resolving, bounds>>

\* The delay is over; a save that was cancelled in it runs no participants.
DelayEnds(slot) ==
    /\ At(slot, "delayed")
    /\ IF saves[slot].cancelled THEN Ends(slot, copy)
       ELSE /\ saves' = [saves EXCEPT ![slot].phase = "participants"]
            /\ ignoring' = TRUE
            /\ UNCHANGED sequentializer
    /\ UNCHANGED <<copy, undo, file, event, resolving, bounds, history>>

\* Mutant of ParticipantsEnd: the version is not looked at again.
ParticipantsEndUnseen(slot) ==
    /\ At(slot, "participants")
    /\ IF saves[slot].cancelled THEN Ends(slot, copy) /\ UNCHANGED copy
       ELSE /\ copy' = [copy EXCEPT !.error = FALSE]
            /\ saves' = [saves EXCEPT ![slot] = [@ EXCEPT !.phase = "snapshot",
                            !.text = copy.text, !.mtime = copy.mtime]]
            /\ ignoring' = FALSE
            /\ UNCHANGED sequentializer
    /\ UNCHANGED <<undo, file, event, resolving, bounds, history>>

\* Mutant of ParticipantsEnd: the sequentializer is not told the new version.
ParticipantsEndUntold(slot) ==
    /\ At(slot, "participants")
    /\ IF saves[slot].cancelled THEN Ends(slot, copy) /\ UNCHANGED copy
       ELSE /\ copy' = [copy EXCEPT !.error = FALSE]
            /\ saves' = [saves EXCEPT ![slot] = [@ EXCEPT !.phase = "snapshot",
                            !.version = copy.version, !.text = copy.text, !.mtime = copy.mtime]]
            /\ ignoring' = FALSE
            /\ UNCHANGED sequentializer
    /\ UNCHANGED <<undo, file, event, resolving, bounds, history>>

\* The participants are done and may have changed the model: what is saved is
\* its version of now.
ParticipantsEnd(slot) ==
    /\ At(slot, "participants")
    /\ IF saves[slot].cancelled THEN Ends(slot, copy) /\ UNCHANGED copy
       ELSE /\ copy' = [copy EXCEPT !.error = FALSE]
            /\ saves' = [saves EXCEPT ![slot] = [@ EXCEPT !.phase = "snapshot",
                            !.version = copy.version, !.text = copy.text, !.mtime = copy.mtime]]
            /\ sequentializer' = Run(sequentializer, copy.version, slot)
            /\ ignoring' = FALSE
    /\ UNCHANGED <<undo, file, event, resolving, bounds, history>>

\* The snapshot may show the model as it was, or as it is by now.
SnapshotEnds(slot) ==
    /\ At(slot, "snapshot")
    /\ IF saves[slot].cancelled THEN Ends(slot, copy)
       ELSE /\ \E text \in {saves[slot].text, copy.text} :
                   saves' = [saves EXCEPT ![slot].phase = "writing", ![slot].text = text]
            /\ UNCHANGED <<sequentializer, ignoring>>
    /\ UNCHANGED <<copy, undo, file, event, resolving, bounds, history>>

\* The file is newer than the save takes it for, and of another size.
IsModifiedSince(save) ==
    save.options # "overwrite" /\ save.mtime < Len(file) /\ file[save.mtime] # file[Len(file)]

unwritten == <<copy, undo, file, event, sequentializer, ignoring, resolving, history>>

\* Mutant of Check: the file is replaced whoever wrote it.
CheckAnyway(slot) ==
    /\ At(slot, "writing")
    /\ saves' = [saves EXCEPT ![slot].phase = "checked", ![slot].mtime = Len(file)]
    /\ UNCHANGED <<bounds, unwritten>>

\* writeFile looks at the file first: one that was modified since is compared with
\* what is saved if it has the same size, one that cannot be looked at is taken
\* not to exist.
Check(slot) ==
    /\ At(slot, "writing")
    /\ \/ /\ ~IsModifiedSince(saves[slot])
          /\ saves' = [saves EXCEPT ![slot].phase = "checked", ![slot].mtime = Len(file)]
          /\ UNCHANGED bounds
       \/ /\ IsModifiedSince(saves[slot])
          /\ saves' = [saves EXCEPT ![slot].phase = IF saves[slot].text = file[Len(file)]
                                                    THEN "comparing" ELSE "modified"]
          /\ UNCHANGED bounds
       \/ /\ Fails
          /\ saves' = [saves EXCEPT ![slot].phase = "checked", ![slot].mtime = 0]
    /\ UNCHANGED unwritten

\* The contents are compared: it may be replaced by the same.
Compare(slot) ==
    /\ At(slot, "comparing")
    /\ \/ /\ saves[slot].text = file[Len(file)]
          /\ saves' = [saves EXCEPT ![slot].phase = "checked", ![slot].mtime = Len(file)]
          /\ UNCHANGED bounds
       \/ /\ (saves[slot].text # file[Len(file)] /\ UNCHANGED bounds) \/ Fails
          /\ saves' = [saves EXCEPT ![slot].phase = "modified"]
    /\ UNCHANGED unwritten

\* The file is written, whatever it holds by now.
Write(slot) ==
    /\ At(slot, "checked")
    /\ \/ /\ file' = Append(file, saves[slot].text) /\ event' = TRUE
          /\ saves' = [saves EXCEPT ![slot].phase = "wrote"]
          /\ UNCHANGED bounds
       \/ /\ Fails
          /\ saves' = [saves EXCEPT ![slot].phase = "failed"]
          /\ UNCHANGED <<file, event>>
    /\ UNCHANGED <<copy, undo, sequentializer, ignoring, resolving, history>>

\* Then writeFile looks at the file again: what it holds by now passes for what
\* was written.
Stat(slot) ==
    /\ At(slot, "wrote")
    /\ \/ /\ saves' = [saves EXCEPT ![slot].phase = "written", ![slot].mtime = Len(file)]
          /\ history' = [history EXCEPT !.mistaken = @ \/ file[Len(file)] # saves[slot].text]
          /\ UNCHANGED bounds
       \/ /\ Fails
          /\ saves' = [saves EXCEPT ![slot].phase = "failed"]
          /\ UNCHANGED history
    /\ UNCHANGED <<copy, undo, file, event, sequentializer, ignoring, resolving>>

\* Mutant of SaveSucceeds: the working copy becomes clean in any case.
SaveSucceedsAnyway(slot) ==
    /\ At(slot, "written")
    /\ copy' = SetClean(Resolved(copy, saves[slot].mtime))
    /\ history' = [history EXCEPT !.written = saves[slot].version]
    /\ Ends(slot, copy')
    /\ UNCHANGED <<undo, file, event, resolving, bounds>>

\* handleSaveSuccess: clean unless it has changed meanwhile.
SaveSucceeds(slot) ==
    /\ At(slot, "written")
    /\ LET resolved == Resolved(copy, saves[slot].mtime)
       IN  copy' = IF saves[slot].version = copy.version THEN SetClean(resolved) ELSE resolved
    /\ history' = [history EXCEPT !.written = saves[slot].version]
    /\ Ends(slot, copy')
    /\ UNCHANGED <<undo, file, event, resolving, bounds>>

\* handleSaveError
SaveFails(slot) ==
    /\ At(slot, "failed") \/ At(slot, "modified")
    /\ copy' = [copy EXCEPT !.dirty = TRUE, !.error = TRUE,
                            !.conflict = @ \/ At(slot, "modified")]
    /\ history' = [history EXCEPT !.dropped = TRUE]
    /\ Ends(slot, copy')
    /\ UNCHANGED <<undo, file, event, resolving, bounds>>

-----------------------------------------------------------------------------
(* Reloading and reverting.                                                *)

\* With no resolve running, the next one starts at once, a revert before the
\* reload that is queued: but none when dirty or being saved.  The manager
\* passes on reload.force only, which neither sets, so that both go by the etag.
NextResolve(c, kinds) ==
    LET kind == IF "revert" \in kinds THEN "revert" ELSE "reload"
    IN  IF kinds = {} \/ c.dirty \/ IsRunning(sequentializer)
        THEN resolve' = NoResolve /\ waiting' = {}
        ELSE /\ resolve' = [NoResolve EXCEPT !.phase = "reading", !.kind = kind,
                                            !.version = c.version, !.etag = c.mtime]
             /\ waiting' = kinds \ {kind}

\* One resolve at a time: who comes later joins the one that is pending.
Ask(c, kind) ==
    IF resolve = NoResolve THEN NextResolve(c, {kind})
    ELSE waiting' = waiting \cup {kind} /\ UNCHANGED resolve

\* onDidFilesChange of the manager: dirty working copies are never reloaded;
\* at most one reload waits.
HearFileChange ==
    /\ event /\ event' = FALSE
    /\ IF copy.dirty THEN UNCHANGED <<resolve, waiting>> ELSE Ask(copy, "reload")
    /\ UNCHANGED <<copy, undo, file, saving, flags, bounds, history>>

\* readFileStream looks at the file; what it holds is read later.
Read ==
    /\ resolve.phase = "reading"
    /\ resolve' = [resolve EXCEPT !.phase = IF resolve.etag = Len(file)
                                            THEN "notModified" ELSE "read",
                                  !.mtime = Len(file)]
    /\ UNCHANGED <<copy, undo, file, event, saving, waiting, flags, bounds, history>>

\* An error bubbles up; a revert then sets the flags back.  When it is the contents
\* that cannot be read, the working copy has taken the stat of them already.
ReadFails ==
    /\ resolve.phase = "reading" \/ resolve.phase = "updating"
    /\ Fails
    /\ copy' = IF resolve.kind = "reload" THEN copy
               ELSE [copy EXCEPT !.dirty = flags.dirty, !.conflict = flags.conflict,
                                 !.error = flags.error, !.saved = flags.saved]
    /\ NextResolve(copy', waiting)
    /\ history' = [history EXCEPT !.mistaken = @ \/ IgnoresDirty]
    /\ UNCHANGED <<undo, file, event, saving, flags>>

\* The read found the file as it was: only the stat is taken.
NotModified ==
    /\ resolve.phase = "notModified"
    /\ copy' = Resolved(copy, resolve.mtime)
    /\ NextResolve(copy', waiting)
    /\ UNCHANGED <<undo, file, event, saving, flags, bounds, history>>

\* Mutant of ReadEnds: a change meanwhile does not matter.
ReadEndsAnyway ==
    /\ resolve.phase = "read"
    /\ copy' = Resolved(copy, resolve.mtime)
    /\ resolve' = [resolve EXCEPT !.phase = "updating"]
    /\ UNCHANGED <<undo, file, event, saving, waiting, flags, bounds, history>>

\* resolveFromFile goes on: not with what was read when the working copy has
\* changed meanwhile.  The stat is taken first, then the model is updated.
ReadEnds ==
    /\ resolve.phase = "read"
    /\ IF resolve.version = copy.version
       THEN /\ copy' = Resolved(copy, resolve.mtime)
            /\ resolve' = [resolve EXCEPT !.phase = "updating"]
            /\ UNCHANGED waiting
       ELSE NextResolve(copy, waiting) /\ UNCHANGED copy
    /\ UNCHANGED <<undo, file, event, saving, flags, bounds, history>>

\* The model is updated, with what the file holds now or held at some time since the
\* read looked at it, and clean.  There is nothing to undo any more.
Update ==
    /\ resolve.phase = "updating"
    /\ \E i \in resolve.mtime..Len(file) : copy' = SetClean(ContentChanged(file[i]))
    /\ undo' = <<>>
    /\ NextResolve(copy', waiting)
    /\ history' = [history EXCEPT !.shown = @ \cup {copy'.text}]
    /\ UNCHANGED <<file, event, saving, flags, bounds>>

\* revert: clean at once, whatever the resolve that follows comes to, unless
\* it fails.  A soft one leaves it at that.  One revert at a time.
Revert(soft) ==
    /\ copy.dirty
    /\ "revert" \notin waiting /\ (resolve.kind = "revert" => resolve = NoResolve)
    /\ Counts("reverts", MaxReverts)
    /\ copy' = SetClean(copy) /\ flags' = copy
    /\ IF soft THEN UNCHANGED <<resolve, waiting>> ELSE Ask(copy', "revert")
    /\ history' = [history EXCEPT !.reverted = TRUE, !.dropped = TRUE]
    /\ UNCHANGED <<undo, file, event, saving>>

-----------------------------------------------------------------------------

SaveRuns(slot) ==
    \/ DelayEnds(slot) \/ ParticipantsEnd(slot) \/ SnapshotEnds(slot)
    \/ Check(slot) \/ Compare(slot) \/ Write(slot) \/ Stat(slot)
    \/ SaveSucceeds(slot) \/ SaveFails(slot)

ResolveRuns ==
    HearFileChange \/ Read \/ ReadFails \/ NotModified \/ ReadEnds \/ Update

Next ==
    \/ Edit \/ Undo \/ FileChanges
    \/ \E options \in Options : Save(options)
    \/ \E soft \in BOOLEAN : Revert(soft)
    \/ \E slot \in Slots : SaveRuns(slot) \/ CancelSave(slot)
    \/ ResolveRuns

Spec == Init /\ [][Next]_vars

\* Delays elapse; participants, snapshots, reads, writes and events come to an end.
FairSpec == Spec /\ WF_vars(ResolveRuns \/ \E slot \in Slots : SaveRuns(slot))

-----------------------------------------------------------------------------
(* Properties.                                                             *)

\* The contents there have been so far.
Contents == (-bounds["writes"])..bounds["edits"]

Copies == [text : Contents, version : Nat, dirty : BOOLEAN, saved : Contents,
           conflict : BOOLEAN, error : BOOLEAN, mtime : Nat]

\* The phases in which the version that is saved is decided.
Decided == {"snapshot", "writing", "comparing", "checked", "wrote", "written", "modified", "failed"}

Saves == [phase : {"none", "delayed", "participants"} \cup Decided,
          version : Nat, options : Options, cancelled : BOOLEAN, text : Contents, mtime : Nat]

Resolves == [phase : {"none", "reading", "read", "notModified", "updating"},
             kind : {"reload", "revert"}, version : Nat, etag : Nat, mtime : Nat]

Histories == [asked : Nat, written : Nat, dropped : BOOLEAN, shown : SUBSET Contents,
              reverted : BOOLEAN, undone : BOOLEAN, overlapped : BOOLEAN, mistaken : BOOLEAN]

\* The saves, the sequentializer and the resolve are where they may be: a task is
\* queued only behind one that runs, and participants are what save is ignored for.
SavingOK ==
    /\ sequentializer \in Sequentializers(Nat, Slots, Options)
    /\ sequentializer.queued # NoTask => IsRunning(sequentializer)
    /\ saves \in [Slots -> Saves]
    /\ ignoring \in BOOLEAN /\ (ignoring <=> \E s \in Slots : saves[s].phase = "participants")

ResolvingOK ==
    /\ resolve \in Resolves /\ (resolve.phase = "none" => resolve = NoResolve)
    /\ waiting \subseteq {"reload", "revert"} /\ (waiting # {} => resolve # NoResolve)
    /\ flags \in Copies

TypeOK ==
    /\ copy \in Copies /\ undo \in Seq(Contents)
    /\ file \in Seq(Contents) /\ event \in BOOLEAN
    /\ SavingOK /\ ResolvingOK
    /\ bounds \in [Counted -> Nat] /\ history \in Histories

\* "Never ever must 2 saves execute at the same time", although the sequentializer
\* knows its tasks by version ids only, which change in the middle of a save, and
\* a queued save starts where the one before ends.  The one that executes is the
\* one that is known to run, by the version that it saves.
OneSaveAtATime ==
    /\ \A s, t \in Slots : saves[s].phase # "none" /\ saves[t].phase # "none" => s = t
    /\ \A s \in Slots : saves[s].phase # "none" =>
           sequentializer.running = [id |-> saves[s].version, cancel |-> s]
    /\ IsRunning(sequentializer) => \E s \in Slots : saves[s].phase # "none"

\* A save that is cancelled was cancelled by the user, or gives way to the one
\* that is queued; the participants cannot be cut short by a save.
CancelledForOne ==
    \A s \in Slots :
        /\ saves[s].phase = "none" => saves[s] = NoSave
        /\ saves[s].cancelled => history.dropped \/ sequentializer.queued # NoTask
        /\ saves[s].phase = "participants" => sequentializer.queued = NoTask
        /\ saves[s].phase = "delayed" /\ sequentializer.queued # NoTask => saves[s].cancelled

\* The save of slot s will write the working copy as it was when asked for.
WillWrite(s) ==
    \/ saves[s].phase \in {"delayed", "participants"} /\ ~saves[s].cancelled
    \/ /\ saves[s].phase \in Decided \ {"modified", "failed"}
       /\ history.asked <= saves[s].version
       /\ saves[s].phase = "snapshot" => ~saves[s].cancelled
    \/ saves[s].phase # "none" /\ sequentializer.queued # NoTask
    \/ saves[s].phase \in {"modified", "failed"}

\* What was asked for is written, or dropped, or about to be written; a save that
\* is queued finds something to save when its turn comes.
AskedIsUnderWay ==
    /\ history.asked <= copy.version /\ history.written <= copy.version
    /\ \A s \in Slots : saves[s].phase # "none" =>
           history.written <= saves[s].version /\ saves[s].version <= copy.version
    /\ sequentializer.queued = "auto" => copy.dirty \/ history.dropped \/ history.overlapped
    /\ \/ history.dropped \/ history.overlapped \/ history.asked <= history.written
       \/ \E s \in Slots : WillWrite(s)

ResolveIsKnown ==
    /\ resolve.phase \in {"read", "notModified", "updating"} => resolve.mtime \in DOMAIN file
    /\ resolve.phase = "notModified" => resolve.mtime = resolve.etag
    /\ resolve # NoResolve => resolve.version <= copy.version /\ resolve.etag <= copy.mtime
    /\ resolve.kind = "revert" \/ "revert" \in waiting => history.reverted /\ flags.dirty

InFile(text) == \E i \in DOMAIN file : file[i] = text

\* A save and a resolve know what they took from the model and from the file.
TakenIsKnown ==
    /\ copy.mtime \in DOMAIN file /\ copy.text \in history.shown
    /\ \A s \in Slots : saves[s].phase \in Decided =>
           /\ saves[s].mtime \in DOMAIN file \/ (saves[s].mtime = 0 /\ saves[s].phase \notin
                                                    {"snapshot", "writing", "comparing", "written"})
           /\ saves[s].text \in history.shown
           /\ saves[s].version = copy.version => saves[s].text = copy.text
           /\ saves[s].phase \in {"wrote", "written"} => InFile(saves[s].text)
           /\ saves[s].phase = "written" /\ ~history.mistaken => file[saves[s].mtime] = saves[s].text
    /\ ResolveIsKnown

\* Unless a save or a change overlaps with it, a resolve of the version that the
\* model has runs alone.
ResolvesAlone ==
    resolve # NoResolve /\ ~history.overlapped =>
        /\ resolve.phase = "updating" => resolve.version = copy.version
        /\ resolve.version = copy.version =>
               /\ ~IsRunning(sequentializer) /\ ~copy.dirty
               /\ resolve.phase \in {"read", "updating"} => copy.mtime <= resolve.mtime
               /\ resolve.phase = "updating" => copy.mtime = resolve.mtime

\* What the file has held twice has been shown: others write what is new.
OthersWriteNew ==
    \A i, j \in DOMAIN file : i # j /\ file[i] = file[j] => file[i] \in history.shown

\* The file has been written since, or has been shown as it is.
IsKnown(mtime) == mtime < Len(file) \/ file[mtime] \in history.shown

\* The check of the save of this slot saw what had been shown, or nothing, or the
\* user asked to overwrite it.
KnewTheFile(slot) ==
    \/ saves[slot].mtime = 0
    \/ file[saves[slot].mtime] \in history.shown
    \/ saves[slot].options = "overwrite"

\* The file as a working copy, or a save, remembers it has been written since, or it
\* has been shown; so what a check lets pass has been shown.  What the working copy
\* takes for saved has been in the file.
RememberedIsSeen ==
    ~history.overlapped =>
        /\ ~history.mistaken =>
               /\ resolve.phase = "updating" \/ IsKnown(copy.mtime)
               /\ \A s \in Slots :
                      /\ saves[s].phase \in {"snapshot", "writing"} => IsKnown(saves[s].mtime)
                      /\ saves[s].phase = "checked" => KnewTheFile(s)
        /\ \A s \in Slots : saves[s].phase = "written" => copy.mtime <= saves[s].mtime
        /\ ~history.reverted => InFile(copy.saved) /\ (copy.dirty \/ copy.text = copy.saved)

\* A clean working copy shows what its file held at the time it remembers, or has held
\* since, so that the next save notices whatever has been written besides: however edits,
\* saves and reloads interleave with the writes of others, as long as nothing was undone
\* or reverted and no stat was taken of contents that somebody else wrote or that were
\* not read in the end.
CleanIsKnown ==
    (/\ ~copy.dirty /\ ~IgnoresDirty
     /\ ~history.undone /\ ~history.reverted /\ ~history.overlapped /\ ~history.mistaken) =>
        \E i \in copy.mtime..Len(file) : copy.text = file[i]

\* While it is saved, a working copy that has changed is dirty.
ChangedIsDirty ==
    ~history.undone /\ ~history.reverted /\ ~history.overlapped =>
        \A s \in Slots : saves[s].phase \in Decided /\ saves[s].version # copy.version => copy.dirty

\* What saves, reloads and reverts rely on.
IInv ==
    /\ TypeOK /\ OneSaveAtATime /\ CancelledForOne /\ AskedIsUnderWay
    /\ TakenIsKnown /\ ResolvesAlone /\ OthersWriteNew /\ RememberedIsSeen /\ CleanIsKnown
    /\ ChangedIsDirty

\* A save that was called for is not lost when it cancels the one that runs, is
\* replaced in the queue or comes while participants run: once nothing runs, what
\* was there when it was called has been written, or was dropped by the user or
\* by an error, or there is nothing to save.  Not so when the version was saved while
\* a resolve of it ran, which then declares it clean, so that an automatic save that
\* was queued finds nothing to do.
SavesAreHonoured ==
    ~IsRunning(sequentializer) =>
        history.asked <= history.written \/ history.dropped \/ history.overlapped

\* A save writes only after its check saw a file that the user had seen, or asked to
\* overwrite: the mtime and etag that travel with it from before the participants
\* on, through edits, reloads and queued saves, do not let it pass a file that
\* another program wrote.  Not so when a stat was taken of what another wrote, or of what
\* could not be read in the end; nor when the file could not be looked at.
SavesKnowTheFile ==
    [][\A slot \in Slots : Write(slot) /\ file' # file =>
           KnewTheFile(slot) \/ history.overlapped \/ history.mistaken]_vars

\* "If the file on disk has been changed and does not match our expected mtime and etag,
\* we bail out to prevent dirty writing": what is replaced has been shown, or is the same.
NeverOverwritten ==
    [][\A slot \in Slots : Write(slot) /\ file' # file =>
           \/ file[Len(file)] \in history.shown \cup {saves[slot].text}
           \/ history.overlapped \/ history.mistaken
           \/ saves[slot].options = "overwrite"]_vars

\* "In conflict mode when changes cannot be saved because the underlying file has
\* changed": a save whose check saw what another program wrote is not carried out.
ConflictsAreSeen ==
    [][\A slot \in Slots : Write(slot) /\ file' # file =>
           KnewTheFile(slot) \/ history.overlapped]_vars

\* What has been typed, and was never in the file, is not replaced by a reload
\* that was on its way.
EditsSurvive ==
    [][Update => \/ history.overlapped \/ history.reverted
                 \/ \E i \in DOMAIN file : file[i] = copy.text]_vars

\* "Force read from disk unless reverting soft": a revert that could read the
\* file shows what it read.
RevertsToFile ==
    [][resolve.kind = "revert" /\ (NotModified \/ Update) =>
           \E i \in resolve.mtime..Len(file) : copy'.text = file[i]]_vars

\* A shutdown that waits for pending saves, and a resolve that waits for
\* another, do not wait for ever.
NobodyWaits == <>[](~IsRunning(sequentializer) /\ resolve = NoResolve /\ waiting = {} /\ ~event)
==================================================================================
