--------------------- MODULE StoredFileWorkingCopy_proof ---------------------
(***************************************************************************)
(* For any number of edits, saves, reverts, failures and changes of the    *)
(* file: the invariant of a stored file working copy, and what follows     *)
(* from it for its saves, its reloads and its file.                        *)
(***************************************************************************)
EXTENDS StoredFileWorkingCopy, SequenceTheorems, TLAPS

USE NoTaskAssumption DEF Options, Slots

-----------------------------------------------------------------------------
(* Lemmas about the operators of the working copy.                         *)

\* Counting adds one to what is counted, and the rest stays.
LEMMA CountsIs ==
    ASSUME NEW what \in Counted \ {"inputs"}, NEW max,
           bounds \in [Counted -> Nat], Counts(what, max)
    PROVE  /\ bounds' \in [Counted -> Nat]
           /\ bounds'[what] = bounds[what] + 1
           /\ \A other \in Counted \ {what, "inputs"} : bounds'[other] = bounds[other]
BY DEF Counts, Counted

\* There are contents, and none is lost when more are counted.
LEMMA ContentsGrow ==
    ASSUME bounds \in [Counted -> Nat], bounds' \in [Counted -> Nat],
           bounds["edits"] <= bounds'["edits"], bounds["writes"] <= bounds'["writes"]
    PROVE  /\ Contents \subseteq Contents' /\ 0 \in Contents
           /\ Copies \subseteq Copies' /\ Saves \subseteq Saves'
           /\ Resolves \subseteq Resolves' /\ Histories \subseteq Histories'
           /\ Seq(Contents) \subseteq Seq(Contents')
<1>1. Contents \subseteq Contents' /\ 0 \in Contents
  BY DEF Contents, Counted
<1>2. Copies \subseteq Copies'
  BY <1>1 DEF Copies
<1>3. Saves \subseteq Saves'
  BY <1>1 DEF Saves, Decided
<1>4. Resolves \subseteq Resolves'
  BY <1>1 DEF Resolves
<1>5. Histories \subseteq Histories'
  BY <1>1 DEF Histories
<1>6. Seq(Contents) \subseteq Seq(Contents')
  BY <1>1
<1> QED
  BY <1>1, <1>2, <1>3, <1>4, <1>5, <1>6

\* Working copies with the given contents.
CopiesWith(texts) ==
    [text : texts, version : Nat, dirty : BOOLEAN, saved : texts,
     conflict : BOOLEAN, error : BOOLEAN, mtime : Nat]

LEMMA CopiesAre == Copies = CopiesWith(Contents) /\ Copies' = CopiesWith(Contents')
BY DEF Copies, CopiesWith

\* What SetClean leaves of a working copy.
LEMMA SetCleanIs ==
    ASSUME NEW texts, NEW c \in CopiesWith(texts)
    PROVE  /\ SetClean(c) \in CopiesWith(texts)
           /\ SetClean(c).dirty = FALSE /\ SetClean(c).saved = c.text /\ SetClean(c).text = c.text
           /\ SetClean(c).version = c.version /\ SetClean(c).mtime = c.mtime
BY DEF CopiesWith, SetClean

\* What a change of the model leaves of it.
LEMMA ContentChangedIs ==
    ASSUME NEW texts, copy \in CopiesWith(texts), NEW text \in texts
    PROVE  /\ ContentChanged(text) \in CopiesWith(texts)
           /\ ContentChanged(text).text = text
           /\ ContentChanged(text).version = copy.version + 1
           /\ ContentChanged(text).mtime = copy.mtime
           /\ ContentChanged(text).saved = copy.saved
           /\ ContentChanged(text).dirty =
                  IF IgnoresDirty THEN copy.dirty ELSE text # copy.saved
<1> DEFINE version == copy.version + 1
           changed == [copy EXCEPT !.text = text, !.version = version]
<1>1. version \in Nat
  BY DEF CopiesWith
<1> HIDE DEF version
<1>2. /\ changed \in CopiesWith(texts) /\ changed.text = text /\ changed.version = version
      /\ changed.mtime = copy.mtime /\ changed.saved = copy.saved /\ changed.dirty = copy.dirty
  BY <1>1 DEF CopiesWith
<1>3. ContentChanged(text) = IF IgnoresDirty THEN changed
                             ELSE IF text = copy.saved THEN SetClean(changed)
                             ELSE [changed EXCEPT !.dirty = TRUE]
  BY DEF ContentChanged, version
<1> HIDE DEF changed
<1>4. /\ [changed EXCEPT !.dirty = TRUE] \in CopiesWith(texts)
      /\ [changed EXCEPT !.dirty = TRUE].dirty
      /\ [changed EXCEPT !.dirty = TRUE].text = changed.text
      /\ [changed EXCEPT !.dirty = TRUE].version = changed.version
      /\ [changed EXCEPT !.dirty = TRUE].mtime = changed.mtime
      /\ [changed EXCEPT !.dirty = TRUE].saved = changed.saved
  BY <1>2 DEF CopiesWith
<1>5. copy.dirty \in BOOLEAN
  BY DEF CopiesWith
<1>6. CASE IgnoresDirty
  BY <1>2, <1>3, <1>6 DEF version
<1>7. CASE ~IgnoresDirty /\ text = copy.saved
  <2>1. ContentChanged(text) = SetClean(changed)
    BY ONLY <1>3, <1>7
  <2>2. /\ SetClean(changed) \in CopiesWith(texts)
        /\ SetClean(changed).dirty = FALSE
        /\ SetClean(changed).saved = changed.text /\ SetClean(changed).text = changed.text
        /\ SetClean(changed).version = changed.version /\ SetClean(changed).mtime = changed.mtime
    BY ONLY <1>2, SetCleanIs
  <2> QED
    BY <1>2, <1>7, <2>1, <2>2 DEF version
<1>8. CASE ~IgnoresDirty /\ text # copy.saved
  BY <1>2, <1>3, <1>4, <1>8 DEF version
<1> QED
  BY <1>6, <1>7, <1>8

\* Taking the time of the file keeps the rest, and never goes back.
LEMMA ResolvedIs ==
    ASSUME NEW c \in Copies, NEW mtime \in Nat
    PROVE  /\ Resolved(c, mtime) \in Copies
           /\ Resolved(c, mtime).text = c.text /\ Resolved(c, mtime).version = c.version
           /\ Resolved(c, mtime).dirty = c.dirty /\ Resolved(c, mtime).saved = c.saved
           /\ Resolved(c, mtime).mtime = IF c.mtime <= mtime THEN mtime ELSE c.mtime
BY DEF Copies, Resolved

-----------------------------------------------------------------------------
(* Lemmas about the save that runs.                                        *)

\* The invariant's parts about saves only.
SavingInv == SavingOK /\ OneSaveAtATime /\ CancelledForOne

Idle == [s \in Slots |-> NoSave]

\* The save of a slot is the one that the sequentializer runs, the other slot is free.
LEMMA BusySlot ==
    ASSUME SavingInv, NEW slot \in Slots, saves[slot].phase # "none"
    PROVE  /\ sequentializer.running = [id |-> saves[slot].version, cancel |-> slot]
           /\ IsRunning(sequentializer) /\ IsRunningId(sequentializer, saves[slot].version)
           /\ \A t \in Slots \ {slot} : saves[t] = NoSave
           /\ [saves EXCEPT ![slot] = NoSave] = Idle
<1>1. sequentializer.running = [id |-> saves[slot].version, cancel |-> slot]
  BY DEF SavingInv, OneSaveAtATime
<1>2. saves[slot].version \in Nat
  BY DEF SavingInv, SavingOK, Saves, Decided
<1>3. IsRunning(sequentializer) /\ IsRunningId(sequentializer, saves[slot].version)
  BY <1>1, <1>2 DEF IsRunning, IsRunningId
<1>4. \A t \in Slots \ {slot} : saves[t] = NoSave
  BY DEF SavingInv, OneSaveAtATime, CancelledForOne
<1>5. [saves EXCEPT ![slot] = NoSave] = Idle
  BY <1>4 DEF SavingInv, SavingOK, Idle
<1> QED
  BY <1>1, <1>3, <1>4, <1>5

\* With nothing that runs, no slot is taken.
LEMMA FreeSlots ==
    ASSUME SavingInv, ~IsRunning(sequentializer)
    PROVE  sequentializer = NewSequentializer /\ saves = Idle /\ ignoring = FALSE
<1>1. \A s \in Slots : saves[s].phase = "none"
  BY BusySlot
<1>2. saves = Idle
  BY <1>1 DEF SavingInv, SavingOK, CancelledForOne, Idle
<1>3. ignoring = FALSE
  BY <1>1 DEF SavingInv, SavingOK
<1>4. sequentializer = NewSequentializer
  BY DEF SavingInv, SavingOK, Sequentializers, NewSequentializer, IsRunning
<1> QED
  BY <1>2, <1>3, <1>4

\* No save executes after the step.
Rests == sequentializer' = NewSequentializer /\ saves' = Idle /\ ignoring' = FALSE

\* After the step, the save of a slot has just begun, with the version of c.
StartsIn(slot, c, options) ==
    /\ sequentializer' = [running |-> [id |-> c.version, cancel |-> slot], queued |-> NoTask]
    /\ \E phase \in {"delayed", "participants"} :
           /\ saves' = [Idle EXCEPT ![slot] = [NoSave EXCEPT !.phase = phase,
                                              !.version = c.version, !.options = options]]
           /\ ignoring' = (phase = "participants")

Starts(c, options) == \E slot \in Slots : StartsIn(slot, c, options)

\* With one outcome, the step is that outcome.
LEMMA OneOutcome ==
    ASSUME NEW q, NEW all, NEW ignores, SavingBecomes({<<q, all, ignores>>})
    PROVE  sequentializer' = q /\ saves' = all /\ ignoring' = ignores
BY DEF SavingBecomes

LEMMA RunIs ==
    ASSUME NEW id, NEW slot
    PROVE  Run(NewSequentializer, id, slot) =
               [running |-> [id |-> id, cancel |-> slot], queued |-> NoTask]
BY DEF Run, NewSequentializer

\* What doSave does when nothing runs.
LEMMA DoSaveWhenFree ==
    ASSUME NEW c \in Copies, NEW options \in Options,
           SavingBecomes(DoSave(c, NewSequentializer, Idle, FALSE, options))
    PROVE  \/ Rests /\ options = "auto" /\ ~c.dirty
           \/ Starts(c, options)
<1>1. ~IsRunning(NewSequentializer) /\ ~IsRunningId(NewSequentializer, c.version)
  BY DEF IsRunning, IsRunningId, NewSequentializer
<1>2. CASE options = "auto" /\ ~c.dirty
  <2>1. SavingBecomes({<<NewSequentializer, Idle, FALSE>>})
    BY <1>2 DEF DoSave
  <2> QED
    BY <1>2, <2>1, OneOutcome DEF Rests
<1>3. CASE ~(options = "auto" /\ ~c.dirty)
  <2> DEFINE slot == CHOOSE s \in Slots : Idle[s].phase = "none"
  <2>1. slot \in Slots
    BY DEF Idle, NoSave
  <2>2. Run(NewSequentializer, c.version, slot) =
            [running |-> [id |-> c.version, cancel |-> slot], queued |-> NoTask]
    BY RunIs
  <2>3. PICK phase \in {"participants", "delayed"} :
            /\ sequentializer' = Run(NewSequentializer, c.version, slot)
            /\ saves' = [Idle EXCEPT ![slot] = [NoSave EXCEPT !.phase = phase,
                                               !.version = c.version, !.options = options]]
            /\ ignoring' = (phase = "participants")
    <3> DEFINE All(phase) == [Idle EXCEPT ![slot] = [NoSave EXCEPT !.phase = phase,
                                            !.version = c.version, !.options = options]]
               phases == {"participants"} \cup (IF options = "auto" THEN {"delayed"} ELSE {})
               q == Run(NewSequentializer, c.version, slot)
    <3>1. SavingBecomes({<<q, All(phase), phase = "participants">> : phase \in phases})
      BY <1>1, <1>3 DEF DoSave
    <3>2. phases \subseteq {"participants", "delayed"}
      OBVIOUS
    <3> HIDE DEF All, phases, q, slot
    <3>3. PICK phase \in phases : SavingBecomes({<<q, All(phase), phase = "participants">>})
      BY <3>1 DEF SavingBecomes
    <3>4. sequentializer' = q /\ saves' = All(phase) /\ ignoring' = (phase = "participants")
      BY <3>3, OneOutcome
    <3> QED
      BY <3>2, <3>4 DEF All, q
  <2> HIDE DEF slot
  <2> QED
    BY <2>1, <2>2, <2>3 DEF Starts, StartsIn
<1> QED
  BY <1>2, <1>3

\* When the save of a slot ends, what is queued runs if there is something to save.
LEMMA EndsIs ==
    ASSUME SavingInv, NEW slot \in Slots, saves[slot].phase # "none",
           NEW c \in Copies, Ends(slot, c)
    PROVE  \/ /\ Rests
              /\ sequentializer.queued = NoTask \/ (sequentializer.queued = "auto" /\ ~c.dirty)
           \/ sequentializer.queued \in Options /\ Starts(c, sequentializer.queued)
<1>1. /\ [saves EXCEPT ![slot] = NoSave] = Idle
      /\ IsRunningId(sequentializer, saves[slot].version)
  BY BusySlot
<1>2. /\ Done(sequentializer, saves[slot].version) = NewSequentializer
      /\ Released(sequentializer, saves[slot].version) = sequentializer.queued
  BY <1>1 DEF Done, Released
<1>3. SavingBecomes(IF sequentializer.queued = NoTask THEN {<<NewSequentializer, Idle, FALSE>>}
                    ELSE DoSave(c, NewSequentializer, Idle, FALSE, sequentializer.queued))
  BY <1>1, <1>2 DEF Ends
<1>4. CASE sequentializer.queued = NoTask
  <2>1. SavingBecomes({<<NewSequentializer, Idle, FALSE>>})
    BY <1>3, <1>4
  <2> QED
    BY <1>4, <2>1, OneOutcome DEF Rests
<1>5. CASE sequentializer.queued # NoTask
  <2>1. sequentializer.queued \in Options
    BY <1>5 DEF SavingInv, SavingOK, Sequentializers
  <2> QED
    BY <1>3, <1>5, <2>1, DoSaveWhenFree
<1> QED
  BY <1>4, <1>5

\* The save of a slot gives way to one that is queued.
QueuesBehind(slot, options) ==
    /\ saves[slot].phase # "none" /\ saves[slot].version # copy.version
    /\ ~ignoring /\ ignoring' = FALSE /\ (options = "auto" => copy.dirty)
    /\ sequentializer' = [sequentializer EXCEPT !.queued = options]
    /\ saves' = [saves EXCEPT ![slot].cancelled = TRUE]

\* What doSave does in general.
LEMMA DoSaveIs ==
    ASSUME SavingInv, copy \in Copies, NEW options \in Options,
           SavingBecomes(DoSave(copy, sequentializer, saves, ignoring, options))
    PROVE  \/ /\ UNCHANGED saving
              /\ \/ ignoring \/ IsRunningId(sequentializer, copy.version)
                 \/ options = "auto" /\ ~copy.dirty
           \/ ~IsRunning(sequentializer) /\ Starts(copy, options)
           \/ \E slot \in Slots : QueuesBehind(slot, options)
<1>1. CASE ignoring \/ IsRunningId(sequentializer, copy.version) \/ (options = "auto" /\ ~copy.dirty)
  <2>1. SavingBecomes({<<sequentializer, saves, ignoring>>})
    BY <1>1 DEF DoSave
  <2> QED
    BY <1>1, <2>1, OneOutcome DEF saving
<1>2. CASE ~IsRunning(sequentializer)
  <2>1. sequentializer = NewSequentializer /\ saves = Idle /\ ignoring = FALSE
    BY <1>2, FreeSlots
  <2> QED
    BY <1>2, <2>1, DoSaveWhenFree DEF Rests, saving
<1>3. CASE /\ ~(ignoring \/ IsRunningId(sequentializer, copy.version) \/ (options = "auto" /\ ~copy.dirty))
           /\ IsRunning(sequentializer)
  <2>1. PICK slot \in Slots : saves[slot].phase # "none"
    BY <1>3 DEF SavingInv, OneSaveAtATime
  <2>2. sequentializer.running = [id |-> saves[slot].version, cancel |-> slot]
    BY <2>1, BusySlot
  <2>3. /\ sequentializer' = Queue(sequentializer, options)
        /\ saves' = [saves EXCEPT ![slot].cancelled = TRUE] /\ ignoring' = ignoring
    <3>1. SavingBecomes({<<Queue(sequentializer, options),
                           [saves EXCEPT ![slot].cancelled = TRUE], ignoring>>})
      BY <1>3, <2>2 DEF DoSave
    <3> QED
      BY <3>1, OneOutcome
  <2>4. saves[slot].version # copy.version
    BY <1>3, <2>1, BusySlot
  <2> QED
    BY <1>3, <2>1, <2>3, <2>4 DEF QueuesBehind, Queue, SavingInv, SavingOK
<1> QED
  BY <1>1, <1>2, <1>3

\* The saves after a step in which one ended, or none ran: at most one, that has just
\* begun with the version of c.
FreshSaves(c) ==
    /\ SavingInv' /\ sequentializer'.queued = NoTask
    /\ \A s \in Slots :
           /\ saves'[s].phase \in {"none", "delayed", "participants"}
           /\ saves'[s].phase # "none" => saves'[s].version = c.version /\ ~saves'[s].cancelled

LEMMA NoSaveIs ==
    NoSave.phase = "none" /\ NoSave.cancelled = FALSE
BY DEF NoSave

LEMMA RestsIsFresh ==
    ASSUME Rests, 0 \in Contents', NEW c
    PROVE  FreshSaves(c) /\ ~IsRunning(sequentializer)'
<1>1. saves' \in [Slots -> Saves'] /\ \A s \in Slots : saves'[s] = NoSave
  BY DEF Rests, Idle, NoSave, Saves, Decided
<1>2. sequentializer' = [running |-> NoTask, queued |-> NoTask] /\ ignoring' = FALSE
  BY DEF Rests, NewSequentializer
<1>3. sequentializer' \in Sequentializers(Nat, Slots, Options)
  BY <1>2 DEF Sequentializers
<1>4. sequentializer'.queued = NoTask /\ ~IsRunning(sequentializer)'
  BY <1>2 DEF IsRunning
<1>5. SavingOK'
  BY <1>1, <1>2, <1>3, <1>4, NoSaveIs DEF SavingOK
<1>6. OneSaveAtATime' /\ CancelledForOne'
  BY <1>1, <1>4, NoSaveIs DEF OneSaveAtATime, CancelledForOne
<1> QED
  BY <1>1, <1>4, <1>5, <1>6, NoSaveIs DEF FreshSaves, SavingInv

LEMMA StartsIsFresh ==
    ASSUME NEW slot \in Slots, NEW c \in Copies, NEW options \in Options,
           StartsIn(slot, c, options), 0 \in Contents'
    PROVE  /\ FreshSaves(c) /\ IsRunning(sequentializer)'
           /\ saves'[slot].phase \in {"delayed", "participants"}
<1> DEFINE version == c.version
           task == [id |-> version, cancel |-> slot]
<1>1. PICK phase \in {"delayed", "participants"} :
         /\ saves' = [Idle EXCEPT ![slot] = [NoSave EXCEPT !.phase = phase,
                                            !.version = version, !.options = options]]
         /\ ignoring' = (phase = "participants")
  BY DEF StartsIn
<1>2. version \in Nat /\ task \in [id : Nat, cancel : Slots]
  BY DEF Copies
<1>3. sequentializer' = [running |-> task, queued |-> NoTask]
  BY DEF StartsIn
<1> HIDE DEF version, task
<1> DEFINE new == [NoSave EXCEPT !.phase = phase, !.version = version, !.options = options]
<1>4. /\ new \in Saves' /\ new.phase = phase /\ new.version = version
      /\ new.cancelled = FALSE
  BY <1>2 DEF NoSave, Saves, Decided
<1>5. NoSave \in Saves'
  BY DEF NoSave, Saves, Decided
<1> HIDE DEF new
<1>6. /\ saves' \in [Slots -> Saves'] /\ saves'[slot] = new
      /\ \A t \in Slots : t # slot => saves'[t] = NoSave
  BY <1>1, <1>4, <1>5 DEF new, Idle
<1>7. task # NoTask
  BY <1>2
<1>8. sequentializer' \in Sequentializers(Nat, Slots, Options)
  BY <1>2, <1>3 DEF Sequentializers
<1>9. sequentializer'.queued = NoTask /\ sequentializer'.running = task /\ IsRunning(sequentializer)'
  BY <1>3, <1>7 DEF IsRunning
<1>10. ignoring' \in BOOLEAN /\ (ignoring' <=> \E s \in Slots : saves'[s].phase = "participants")
  <2>1. (\E s \in Slots : saves'[s].phase = "participants") <=> phase = "participants"
    BY <1>4, <1>6, NoSaveIs
  <2> QED
    BY <1>1, <2>1
<1>11. SavingOK'
  BY <1>6, <1>8, <1>9, <1>10 DEF SavingOK
<1>12. OneSaveAtATime'
  BY <1>4, <1>6, <1>9, NoSaveIs DEF OneSaveAtATime, task
<1>13. CancelledForOne'
  BY <1>4, <1>6, <1>9, NoSaveIs DEF CancelledForOne
<1> QED
  BY <1>4, <1>6, <1>9, <1>11, <1>12, <1>13, NoSaveIs DEF FreshSaves, SavingInv, version

\* When the save of a slot ends, another one begins, or there is nothing to save.
LEMMA EndsIsFresh ==
    ASSUME SavingInv, NEW slot \in Slots, saves[slot].phase # "none",
           NEW c \in Copies, Ends(slot, c), 0 \in Contents'
    PROVE  /\ FreshSaves(c)
           /\ \/ sequentializer.queued = NoTask \/ (sequentializer.queued = "auto" /\ ~c.dirty)
              \/ \E s \in Slots : saves'[s].phase \in {"delayed", "participants"}
BY EndsIs, RestsIsFresh, StartsIsFresh DEF Starts

-----------------------------------------------------------------------------
(* Lemmas about resolves.                                                  *)

\* The resolve that starts next, if any.
LEMMA NextResolveIs ==
    ASSUME NEW c \in Copies, NEW kinds \in SUBSET {"reload", "revert"}, NextResolve(c, kinds),
           0 \in Contents'
    PROVE  \/ resolve' = NoResolve /\ waiting' = {}
           \/ /\ resolve' \in Resolves' /\ resolve' # NoResolve
              /\ resolve'.phase = "reading" /\ resolve'.kind \in kinds
              /\ resolve'.version = c.version /\ resolve'.etag = c.mtime
              /\ waiting' \subseteq kinds /\ ~c.dirty /\ ~IsRunning(sequentializer)
<1> DEFINE kind == IF "revert" \in kinds THEN "revert" ELSE "reload"
           version == c.version
           etag == c.mtime
<1>1. CASE kinds = {} \/ c.dirty \/ IsRunning(sequentializer)
  BY <1>1 DEF NextResolve
<1>2. CASE ~(kinds = {} \/ c.dirty \/ IsRunning(sequentializer))
  <2>1. /\ resolve' = [NoResolve EXCEPT !.phase = "reading", !.kind = kind,
                                       !.version = version, !.etag = etag]
        /\ waiting' = kinds \ {kind}
    BY <1>2 DEF NextResolve
  <2>2. kind \in kinds /\ kind \in {"reload", "revert"}
    BY <1>2
  <2>3. version \in Nat /\ etag \in Nat
    BY DEF Copies
  <2> HIDE DEF kind, version, etag
  <2>4. /\ resolve' \in Resolves' /\ resolve'.phase = "reading" /\ resolve'.kind = kind
        /\ resolve'.version = version /\ resolve'.etag = etag
    BY <2>1, <2>2, <2>3 DEF NoResolve, Resolves
  <2>5. resolve' # NoResolve
    BY <2>4 DEF NoResolve
  <2> QED
    BY <1>2, <2>1, <2>2, <2>4, <2>5 DEF version, etag
<1> QED
  BY <1>1, <1>2

\* Members of the file, and what has been written since, when it may have grown.
LEMMA FileIs ==
    ASSUME IInv
    PROVE  /\ file \in Seq(Contents) /\ Len(file) \in Nat /\ DOMAIN file = 1..Len(file)
           /\ Len(file) \in DOMAIN file /\ copy.mtime \in DOMAIN file /\ copy.mtime <= Len(file)
           /\ \A i \in DOMAIN file : file[i] \in Contents
<1>1. file \in Seq(Contents) /\ copy.mtime \in DOMAIN file
  BY DEF IInv, TypeOK, TakenIsKnown
<1>2. Len(file) \in Nat /\ DOMAIN file = 1..Len(file)
  BY <1>1, LenProperties
<1>3. Len(file) \in DOMAIN file /\ copy.mtime <= Len(file)
  BY <1>1, <1>2
<1> QED
  BY <1>1, <1>2, <1>3, ElementOfSeq

LEMMA StaysKnown ==
    ASSUME IInv, NEW texts, file' \in Seq(texts), Len(file) <= Len(file'),
           \A i \in DOMAIN file : i \in DOMAIN file' /\ file'[i] = file[i],
           NEW mtime \in DOMAIN file, IsKnown(mtime)
    PROVE  mtime < Len(file') \/ file'[mtime] \in history.shown
<1>1. Len(file') \in Nat
  BY LenProperties
<1>2. Len(file) \in Nat /\ mtime \in 1..Len(file)
  BY FileIs
<1>3. CASE mtime < Len(file)
  BY <1>1, <1>2, <1>3
<1>4. CASE file[mtime] \in history.shown
  BY <1>4
<1> QED
  BY <1>3, <1>4 DEF IsKnown

\* What a clean working copy shows stays in the part of the file that it remembers.
LEMMA StaysClean ==
    ASSUME IInv, NEW texts, file' \in Seq(texts), Len(file) <= Len(file'),
           \A i \in DOMAIN file : i \in DOMAIN file' /\ file'[i] = file[i],
           NEW i \in copy.mtime..Len(file)
    PROVE  i \in copy.mtime..Len(file') /\ file'[i] = file[i]
<1>1. Len(file') \in Nat
  BY LenProperties
<1>2. Len(file) \in Nat /\ copy.mtime \in 1..Len(file) /\ DOMAIN file = 1..Len(file)
  BY FileIs
<1>3. i \in DOMAIN file
  BY <1>2
<1> QED
  BY <1>1, <1>2, <1>3

-----------------------------------------------------------------------------
(* The steps of the user and of other programs keep the invariant.         *)

\* While the model changes by the user, saves and resolves go on.
LEMMA ChangeStep ==
    ASSUME IInv, TypeOK', NEW text \in Contents',
           copy' = ContentChanged(text), copy' \in Copies',
           copy'.text = text, copy'.version = copy.version + 1,
           copy'.mtime = copy.mtime, copy'.saved = copy.saved,
           copy'.dirty = (IF IgnoresDirty THEN copy.dirty ELSE text # copy.saved),
           text # copy.saved \/ (history'.undone /\ (copy'.dirty \/ history'.dropped)),
           history'.shown = history.shown \cup {text},
           history'.overlapped = (history.overlapped \/ IgnoresDirty),
           history.dropped => history'.dropped, history.undone => history'.undone,
           history'.reverted = history.reverted, history'.mistaken = history.mistaken,
           history'.asked = history.asked, history'.written = history.written,
           UNCHANGED <<file, saving, resolving>>
    PROVE  IInv'
<1> USE DEF saving, resolving
<1>1. OneSaveAtATime' /\ CancelledForOne'
  BY DEF IInv, OneSaveAtATime, CancelledForOne
<1>2. AskedIsUnderWay'
  BY DEF IInv, TypeOK, SavingOK, Histories, Copies, Saves, AskedIsUnderWay, WillWrite, Decided
<1>3. TakenIsKnown'
  <2>1. \A s \in Slots : saves[s].phase \in Decided => saves[s].version # copy'.version
    BY DEF IInv, TypeOK, SavingOK, Copies, Saves, AskedIsUnderWay, Decided
  <2>2. resolve # NoResolve => resolve.version <= copy'.version
    BY DEF IInv, TypeOK, ResolvingOK, Copies, Resolves, TakenIsKnown, ResolveIsKnown
  <2> QED
    BY <2>1, <2>2 DEF IInv, TakenIsKnown, ResolveIsKnown, InFile
<1>4. ResolvesAlone'
  BY DEF IInv, TypeOK, ResolvingOK, Histories, Copies, Resolves, ResolvesAlone, TakenIsKnown, ResolveIsKnown, IgnoresDirty
<1>5. OthersWriteNew' /\ RememberedIsSeen'
  BY DEF IInv, OthersWriteNew, RememberedIsSeen, IsKnown, KnewTheFile, InFile, IgnoresDirty
<1>6. CleanIsKnown' /\ ChangedIsDirty'
  BY DEF IInv, CleanIsKnown, ChangedIsDirty, IgnoresDirty
<1> QED
  BY <1>1, <1>2, <1>3, <1>4, <1>5, <1>6 DEF IInv

LEMMA EditStep ==
    ASSUME IInv, Edit PROVE IInv'
<1> DEFINE text == bounds'["edits"]
<1>1. /\ bounds' \in [Counted -> Nat] /\ bounds'["edits"] = bounds["edits"] + 1
      /\ bounds'["writes"] = bounds["writes"]
  <2>1. bounds \in [Counted -> Nat] /\ Counts("edits", MaxEdits)
    BY DEF Edit, IInv, TypeOK
  <2> QED
    BY <2>1, CountsIs DEF Counted
<1>2. bounds \in [Counted -> Nat] /\ bounds["edits"] \in Nat /\ bounds["writes"] \in Nat
  BY DEF IInv, TypeOK, Counted
<1>3. /\ Contents \subseteq Contents' /\ Copies \subseteq Copies' /\ Saves \subseteq Saves'
      /\ Resolves \subseteq Resolves' /\ Histories \subseteq Histories'
      /\ Seq(Contents) \subseteq Seq(Contents')
  BY <1>1, <1>2, ContentsGrow
<1>4. text \in Contents' /\ text \notin Contents
  BY <1>1, <1>2 DEF Contents
<1>5. copy' = ContentChanged(text)
  BY DEF Edit
<1> HIDE DEF text
<1>6. copy \in CopiesWith(Contents')
  BY <1>3, CopiesAre DEF IInv, TypeOK
<1>7. /\ copy' \in Copies' /\ copy'.text = text /\ copy'.version = copy.version + 1
      /\ copy'.mtime = copy.mtime /\ copy'.saved = copy.saved
      /\ copy'.dirty = (IF IgnoresDirty THEN copy.dirty ELSE text # copy.saved)
  BY <1>4, <1>5, <1>6, ContentChangedIs, CopiesAre
<1>8. copy.text \in Contents' /\ text # copy.saved
  BY <1>3, <1>4 DEF IInv, TypeOK, Copies
<1>9. /\ history' \in Histories' /\ history'.shown = history.shown \cup {text}
      /\ history'.overlapped = (history.overlapped \/ IgnoresDirty)
      /\ history'.dropped = history.dropped /\ history'.undone = history.undone
      /\ history'.reverted = history.reverted
      /\ history'.asked = history.asked /\ history'.written = history.written
      /\ history'.mistaken = history.mistaken
  <2>1. history \in Histories'
    BY <1>3 DEF IInv, TypeOK
  <2>2. history' = [history EXCEPT !.shown = @ \cup {text},
                                   !.overlapped = @ \/ IgnoresDirty]
    BY <1>7 DEF Edit
  <2> QED
    BY <1>4, <2>1, <2>2 DEF Histories
<1>10. TypeOK'
  <2>1. undo' \in Seq(Contents')
    BY <1>3, <1>8 DEF Edit, IInv, TypeOK
  <2>2. SavingOK'
    BY <1>3 DEF Edit, saving, IInv, TypeOK, SavingOK
  <2>3. ResolvingOK'
    BY <1>3 DEF Edit, resolving, IInv, TypeOK, ResolvingOK
  <2> QED
    BY <1>1, <1>3, <1>7, <1>9, <2>1, <2>2, <2>3 DEF Edit, IInv, TypeOK
<1>11. UNCHANGED <<file, saving, resolving>>
  BY DEF Edit
<1> QED
  <2>1. /\ text \in Contents' /\ text # copy.saved
        /\ history.dropped => history'.dropped
        /\ history.undone => history'.undone
    BY <1>4, <1>8, <1>9
  <2> QED
    BY <2>1, <1>5, <1>7, <1>9, <1>10, <1>11, ChangeStep

LEMMA UndoStep ==
    ASSUME IInv, Undo PROVE IInv'
<1> DEFINE text == undo[Len(undo)]
<1>1. bounds \in [Counted -> Nat] /\ bounds' = bounds /\ Contents' = Contents
  BY DEF Undo, IInv, TypeOK, Contents
<1>2. Copies' = Copies /\ Saves' = Saves /\ Resolves' = Resolves /\ Histories' = Histories
  BY <1>1 DEF Copies, Saves, Decided, Resolves, Histories
<1>3. undo \in Seq(Contents) /\ undo # <<>> /\ Len(undo) \in 1..Len(undo)
  BY EmptySeq, LenProperties DEF Undo, IInv, TypeOK
<1>4. text \in Contents'
  BY <1>1, <1>3, ElementOfSeq
<1>5. copy' = ContentChanged(text)
  BY DEF Undo
<1>6. undo' \in Seq(Contents')
  BY <1>1, <1>3, SubSeqProperties DEF Undo
<1> HIDE DEF text
<1>7. /\ copy' \in Copies' /\ copy'.text = text /\ copy'.version = copy.version + 1
      /\ copy'.mtime = copy.mtime /\ copy'.saved = copy.saved
      /\ copy'.dirty = (IF IgnoresDirty THEN copy.dirty ELSE text # copy.saved)
  BY <1>1, <1>4, <1>5, ContentChangedIs, CopiesAre DEF IInv, TypeOK
<1>8. /\ history' \in Histories' /\ history'.shown = history.shown \cup {text}
      /\ history'.overlapped = (history.overlapped \/ IgnoresDirty)
      /\ history'.dropped = (history.dropped \/ ~copy'.dirty) /\ history'.undone
      /\ history'.reverted = history.reverted
      /\ history'.asked = history.asked /\ history'.written = history.written
      /\ history'.mistaken = history.mistaken
  <2>1. history \in Histories'
    BY <1>2 DEF IInv, TypeOK
  <2>2. history' = [history EXCEPT !.shown = @ \cup {text}, !.undone = TRUE,
                                   !.overlapped = @ \/ IgnoresDirty,
                                   !.dropped = @ \/ ~copy'.dirty]
    BY <1>7 DEF Undo
  <2> QED
    BY <1>4, <2>1, <2>2 DEF Histories
<1>9. TypeOK'
  <2>1. SavingOK' /\ ResolvingOK'
    BY <1>2 DEF Undo, saving, resolving, IInv, TypeOK, SavingOK, ResolvingOK
  <2> QED
    BY <1>1, <1>6, <1>7, <1>8, <2>1 DEF Undo, IInv, TypeOK
<1>10. UNCHANGED <<file, saving, resolving>>
  BY DEF Undo
<1> QED
  BY <1>4, <1>5, <1>7, <1>8, <1>9, <1>10, ChangeStep

LEMMA FileChangesStep ==
    ASSUME IInv, FileChanges PROVE IInv'
<1> USE DEF saving, resolving
<1>1. /\ bounds' \in [Counted -> Nat] /\ bounds'["writes"] = bounds["writes"] + 1
      /\ bounds'["edits"] = bounds["edits"]
  BY CountsIs DEF FileChanges, IInv, TypeOK, Counted
<1>2. bounds \in [Counted -> Nat] /\ bounds["edits"] \in Nat /\ bounds["writes"] \in Nat
  BY DEF IInv, TypeOK, Counted
<1>3. /\ Contents \subseteq Contents' /\ Copies \subseteq Copies' /\ Saves \subseteq Saves'
      /\ Resolves \subseteq Resolves' /\ Histories \subseteq Histories'
      /\ Seq(Contents) \subseteq Seq(Contents')
  BY <1>1, <1>2, ContentsGrow
<1>4. -bounds'["writes"] \in Contents'
  BY <1>1, <1>2 DEF Contents
<1>5. file \in Seq(Contents') /\ file' = Append(file, -bounds'["writes"])
  BY <1>3 DEF FileChanges, IInv, TypeOK
<1>6. file' \in Seq(Contents') /\ DOMAIN file \subseteq DOMAIN file'
      /\ \A i \in DOMAIN file : file'[i] = file[i]
  BY <1>4, <1>5, AppendProperties
<1>7. TypeOK'
  <2>1. SavingOK' /\ ResolvingOK'
    BY <1>3 DEF FileChanges, IInv, TypeOK, SavingOK, ResolvingOK
  <2> QED
    BY <1>1, <1>3, <1>6, <2>1 DEF FileChanges, IInv, TypeOK
<1>8. OneSaveAtATime' /\ CancelledForOne' /\ AskedIsUnderWay' /\ ResolvesAlone' /\ ChangedIsDirty'
  BY DEF FileChanges, IInv, OneSaveAtATime, CancelledForOne, AskedIsUnderWay, WillWrite, Decided,
         ResolvesAlone, ChangedIsDirty
<1>9. TakenIsKnown'
  BY <1>6 DEF FileChanges, IInv, TakenIsKnown, ResolveIsKnown, InFile
<1>10. UNCHANGED <<copy, undo, saves, resolve, history>> /\ Len(file) <= Len(file')
       /\ \A i \in DOMAIN file' : (i \in DOMAIN file \/ i = Len(file'))
       /\ file'[Len(file')] = -bounds'["writes"] /\ -bounds'["writes"] \notin Contents
  <2>1. Len(file') = Len(file) + 1 /\ file'[Len(file')] = -bounds'["writes"]
    BY <1>4, <1>5, AppendProperties
  <2>2. DOMAIN file' = 1..Len(file') /\ DOMAIN file = 1..Len(file) /\ Len(file) \in Nat
    BY <1>6, <2>1, FileIs, LenProperties
  <2>3. -bounds'["writes"] \notin Contents
    BY <1>1, <1>2 DEF Contents
  <2> QED
    BY <2>1, <2>2, <2>3 DEF FileChanges
<1>11. OthersWriteNew'
  <2>1. \A i \in DOMAIN file : file'[i] \in Contents /\ file'[i] = file[i]
    BY <1>6, FileIs
  <2> QED
    BY <1>10, <2>1 DEF IInv, OthersWriteNew
<1>12. RememberedIsSeen'
  <2>1. SUFFICES ASSUME ~history.overlapped PROVE RememberedIsSeen'
    BY <1>10 DEF RememberedIsSeen
  <2>2. \A mtime \in DOMAIN file :
            IsKnown(mtime) => mtime < Len(file') \/ file'[mtime] \in history.shown
    BY <1>3, <1>6, <1>10, StaysKnown
  <2>3. /\ copy.mtime \in DOMAIN file
        /\ \A s \in Slots : /\ saves[s].phase \in {"snapshot", "writing"} => saves[s].mtime \in DOMAIN file
                            /\ saves[s].phase = "checked" =>
                                   saves[s].mtime \in DOMAIN file \/ saves[s].mtime = 0
    BY DEF IInv, TakenIsKnown, Decided
  <2>4. ~history.reverted => (\E i \in DOMAIN file' : file'[i] = copy.saved)
                             /\ (copy.dirty \/ copy.text = copy.saved)
    BY <1>6, <2>1 DEF IInv, RememberedIsSeen, InFile
  <2>5. \A s \in Slots : saves[s].phase = "written" => copy.mtime <= saves[s].mtime
    BY <2>1 DEF IInv, RememberedIsSeen
  <2>6. ~history.mistaken =>
            /\ resolve.phase = "updating" \/ IsKnown(copy.mtime)
            /\ \A s \in Slots : saves[s].phase \in {"snapshot", "writing"} => IsKnown(saves[s].mtime)
    BY <2>1 DEF IInv, RememberedIsSeen
  <2>7. ~history.mistaken => \A s \in Slots : saves[s].phase = "checked" =>
            \/ saves[s].mtime = 0 \/ file'[saves[s].mtime] \in history.shown
            \/ saves[s].options = "overwrite"
    BY <1>6, <2>1, <2>3 DEF IInv, RememberedIsSeen, KnewTheFile
  <2> QED
    BY <1>10, <2>2, <2>3, <2>4, <2>5, <2>6, <2>7 DEF RememberedIsSeen, IsKnown, KnewTheFile, InFile
<1>13. CleanIsKnown'
  <2>1. SUFFICES ASSUME ~copy.dirty, ~IgnoresDirty, ~history.undone, ~history.reverted,
                        ~history.overlapped, ~history.mistaken
                 PROVE  \E i \in copy.mtime..Len(file') : copy.text = file'[i]
    BY <1>10 DEF CleanIsKnown, IgnoresDirty
  <2>2. PICK i \in copy.mtime..Len(file) : copy.text = file[i]
    BY <2>1 DEF IInv, CleanIsKnown
  <2>3. i \in copy.mtime..Len(file') /\ file'[i] = file[i]
    BY <1>3, <1>6, <1>10, StaysClean
  <2> QED
    BY <2>2, <2>3
<1> QED
  BY <1>7, <1>8, <1>9, <1>11, <1>12, <1>13 DEF IInv

-----------------------------------------------------------------------------
(* The steps of a save keep the invariant.                                 *)

\* Without a change of the bounds, the types stay the same.
LEMMA TypesStay ==
    ASSUME IInv, bounds' = bounds
    PROVE  /\ Contents' = Contents /\ Copies' = Copies /\ Saves' = Saves
           /\ Resolves' = Resolves /\ Histories' = Histories /\ 0 \in Contents
<1>1. Contents' = Contents
  BY DEF Contents
<1>2. 0 \in Contents
  BY DEF IInv, TypeOK, Contents, Counted
<1> QED
  BY <1>1, <1>2 DEF Copies, Saves, Decided, Resolves, Histories

\* A save that runs does not run beside a resolve of the version that the model
\* has, unless they overlap.
LEMMA BusyIsAlone ==
    ASSUME IInv, NEW slot \in Slots, saves[slot].phase # "none",
           resolve # NoResolve, ~history.overlapped
    PROVE  resolve.version # copy.version /\ resolve.phase # "updating"
<1>1. IsRunning(sequentializer)
  BY BusySlot DEF IInv, TypeOK, SavingInv
<1> QED
  BY <1>1 DEF IInv, ResolvesAlone

\* The end of a save keeps what does not depend on how it ended.
LEMMA EndKeeps ==
    ASSUME IInv, NEW slot \in Slots, saves[slot].phase # "none", copy' \in Copies,
           Ends(slot, copy'), UNCHANGED <<undo, file, event, resolving, bounds>>,
           history' \in Histories, history'.shown = history.shown,
           history'.overlapped = history.overlapped, history'.reverted = history.reverted,
           history'.mistaken = history.mistaken,
           copy'.version = copy.version, copy'.text = copy.text,
           copy'.mtime \in DOMAIN file, copy.mtime <= copy'.mtime
    PROVE  /\ TypeOK' /\ OneSaveAtATime' /\ CancelledForOne' /\ TakenIsKnown'
           /\ ResolvesAlone' /\ ChangedIsDirty'
<1> USE DEF resolving
<1>1. FreshSaves(copy')
  BY EndsIsFresh, TypesStay DEF IInv, TypeOK, SavingInv
<1>2. TypeOK'
  BY <1>1, TypesStay DEF IInv, TypeOK, FreshSaves, SavingInv, ResolvingOK
<1>3. OneSaveAtATime' /\ CancelledForOne'
  BY <1>1 DEF FreshSaves, SavingInv
<1>4. TakenIsKnown'
  <2>1. resolve # NoResolve => resolve.etag <= copy'.mtime
    BY DEF IInv, TypeOK, ResolvingOK, Resolves, Copies, TakenIsKnown, ResolveIsKnown
  <2> QED
    BY <1>1, <2>1 DEF IInv, TakenIsKnown, ResolveIsKnown, InFile, FreshSaves, Decided
<1>5. ResolvesAlone'
  BY BusyIsAlone DEF ResolvesAlone
<1>6. ChangedIsDirty'
  BY <1>1 DEF ChangedIsDirty, FreshSaves, Decided
<1> QED
  BY <1>2, <1>3, <1>4, <1>5, <1>6

\* A save that was cancelled writes nothing, and leaves the model alone.
LEMMA CancelledEnds ==
    ASSUME IInv, NEW slot \in Slots, saves[slot].phase # "none", saves[slot].cancelled,
           saves[slot].phase \in {"delayed", "participants", "snapshot"}, Ends(slot, copy),
           UNCHANGED <<copy, undo, file, event, resolving, bounds, history>>
    PROVE  IInv'
<1>1. /\ FreshSaves(copy')
      /\ \/ sequentializer.queued = NoTask \/ (sequentializer.queued = "auto" /\ ~copy.dirty)
         \/ \E s \in Slots : saves'[s].phase \in {"delayed", "participants"}
  BY EndsIsFresh, TypesStay DEF IInv, TypeOK, SavingInv
<1>2. /\ TypeOK' /\ OneSaveAtATime' /\ CancelledForOne' /\ TakenIsKnown'
      /\ ResolvesAlone' /\ ChangedIsDirty'
  BY EndKeeps DEF IInv, TypeOK, TakenIsKnown, ResolveIsKnown, InFile, Copies
<1>3. AskedIsUnderWay'
  <2>1. \/ history.dropped \/ history.overlapped
        \/ \E s \in Slots : WillWrite(s)'
    BY <1>1 DEF IInv, CancelledForOne, AskedIsUnderWay, WillWrite, Decided, FreshSaves
  <2> QED
    BY <1>1, <2>1 DEF IInv, TypeOK, Copies, AskedIsUnderWay, FreshSaves
<1>4. OthersWriteNew' /\ RememberedIsSeen' /\ CleanIsKnown'
  BY <1>1 DEF IInv, OthersWriteNew, RememberedIsSeen, IsKnown, KnewTheFile, CleanIsKnown, InFile, FreshSaves, resolving, IgnoresDirty
<1> QED
  BY <1>2, <1>3, <1>4 DEF IInv

LEMMA SaveFailsStep ==
    ASSUME IInv, NEW slot \in Slots, SaveFails(slot) PROVE IInv'
<1> USE DEF SaveFails, At
<1>1. saves[slot].phase # "none" /\ UNCHANGED <<undo, file, event, resolving, bounds>>
  OBVIOUS
<1>2. /\ copy' \in Copies /\ copy'.dirty /\ copy'.text = copy.text /\ copy'.saved = copy.saved
      /\ copy'.version = copy.version /\ copy'.mtime = copy.mtime
  <2>1. copy \in Copies
    BY DEF IInv, TypeOK
  <2>2. PICK b \in BOOLEAN : copy' = [copy EXCEPT !.dirty = TRUE, !.error = TRUE, !.conflict = b]
    BY <2>1 DEF Copies
  <2> QED
    BY <2>1, <2>2 DEF Copies
<1>3. history' \in Histories /\ history' = [history EXCEPT !.dropped = TRUE]
  BY DEF IInv, TypeOK, Histories
<1>4. /\ history'.shown = history.shown /\ history'.overlapped = history.overlapped
      /\ history'.reverted = history.reverted /\ history'.undone = history.undone
      /\ history'.asked = history.asked /\ history'.written = history.written /\ history'.dropped
      /\ history'.mistaken = history.mistaken
  BY <1>3 DEF IInv, TypeOK, Histories
<1>5. FreshSaves(copy')
  BY <1>1, <1>2, EndsIsFresh, TypesStay DEF IInv, TypeOK, SavingInv
<1>6. /\ TypeOK' /\ OneSaveAtATime' /\ CancelledForOne' /\ TakenIsKnown'
      /\ ResolvesAlone' /\ ChangedIsDirty'
  <2>1. copy.mtime \in DOMAIN file /\ copy.mtime <= copy'.mtime
    BY <1>2 DEF IInv, TypeOK, Copies, TakenIsKnown, ResolveIsKnown
  <2> QED
    BY <1>1, <1>2, <1>3, <1>4, <2>1, EndKeeps
<1>7. AskedIsUnderWay'
  BY <1>2, <1>4, <1>5 DEF IInv, TypeOK, Copies, AskedIsUnderWay, FreshSaves
<1>8. OthersWriteNew' /\ RememberedIsSeen' /\ CleanIsKnown'
  BY <1>1, <1>2, <1>4, <1>5 DEF IInv, OthersWriteNew, RememberedIsSeen, IsKnown, KnewTheFile, CleanIsKnown, InFile, FreshSaves, resolving
<1> QED
  BY <1>6, <1>7, <1>8 DEF IInv

LEMMA SaveSucceedsStep ==
    ASSUME IInv, NEW slot \in Slots, SaveSucceeds(slot) PROVE IInv'
<1> DEFINE save == saves[slot]
           resolved == Resolved(copy, save.mtime)
<1>1. save.phase = "written" /\ Ends(slot, copy')
      /\ UNCHANGED <<undo, file, event, resolving, bounds>>
  BY DEF SaveSucceeds, At
<1>2. save \in Saves /\ copy \in CopiesWith(Contents) /\ copy \in Copies
  BY CopiesAre DEF IInv, TypeOK, SavingOK
<1>3. /\ save.mtime \in DOMAIN file /\ copy.mtime \in DOMAIN file
      /\ InFile(save.text) /\ save.text \in history.shown
      /\ ~history.mistaken => file[save.mtime] = save.text
      /\ save.version = copy.version => save.text = copy.text
      /\ save.version \in Nat /\ save.mtime \in Nat
  BY <1>1, <1>2 DEF IInv, TakenIsKnown, ResolveIsKnown, InFile, Saves, Decided
<1>4. /\ resolved \in Copies /\ resolved.text = copy.text /\ resolved.version = copy.version
      /\ resolved.dirty = copy.dirty /\ resolved.saved = copy.saved
      /\ resolved.mtime = IF copy.mtime <= save.mtime THEN save.mtime ELSE copy.mtime
  BY <1>2, <1>3, ResolvedIs
<1>5. copy' = IF save.version = copy.version THEN SetClean(resolved) ELSE resolved
  BY DEF SaveSucceeds
<1>6. /\ history' \in Histories /\ history'.written = save.version
      /\ history'.shown = history.shown /\ history'.overlapped = history.overlapped
      /\ history'.reverted = history.reverted /\ history'.undone = history.undone
      /\ history'.asked = history.asked /\ history'.dropped = history.dropped
      /\ history'.mistaken = history.mistaken
  BY <1>3 DEF SaveSucceeds, IInv, TypeOK, Histories
<1> HIDE DEF save, resolved
<1>7. /\ copy' \in Copies /\ copy'.text = copy.text /\ copy'.version = copy.version
      /\ copy'.mtime = IF copy.mtime <= save.mtime THEN save.mtime ELSE copy.mtime
      /\ save.version = copy.version => copy'.dirty = FALSE /\ copy'.saved = copy.text
      /\ save.version # copy.version => copy'.dirty = copy.dirty /\ copy'.saved = copy.saved
  BY <1>4, <1>5, SetCleanIs, CopiesAre
<1>8. copy'.mtime \in DOMAIN file /\ copy.mtime <= copy'.mtime
  BY <1>2, <1>3, <1>7 DEF Copies
<1>9. saves[slot].phase # "none"
  BY <1>1 DEF save
<1>10. /\ FreshSaves(copy')
       /\ \/ sequentializer.queued = NoTask \/ (sequentializer.queued = "auto" /\ ~copy'.dirty)
          \/ \E s \in Slots : saves'[s].phase \in {"delayed", "participants"}
  BY <1>1, <1>7, <1>9, EndsIsFresh, TypesStay DEF IInv, TypeOK, SavingInv
<1>11. /\ TypeOK' /\ OneSaveAtATime' /\ CancelledForOne' /\ TakenIsKnown'
       /\ ResolvesAlone' /\ ChangedIsDirty'
  BY <1>1, <1>6, <1>7, <1>8, <1>9, EndKeeps
<1>12. AskedIsUnderWay'
  <2>1. \/ history.dropped \/ history.overlapped \/ history.asked <= save.version
        \/ \E s \in Slots : WillWrite(s)'
    <3>1. CASE sequentializer.queued = NoTask
      <4>1. \A s \in Slots : saves[s].phase # "none" => s = slot
        BY <1>9 DEF IInv, OneSaveAtATime
      <4> QED
        BY <1>1, <1>3, <3>1, <4>1 DEF IInv, TypeOK, Histories, AskedIsUnderWay, WillWrite, Decided, save
    <3>2. CASE sequentializer.queued = "auto" /\ ~copy'.dirty
      BY <1>3, <1>6, <1>7, <3>2 DEF IInv, TypeOK, AskedIsUnderWay
    <3>3. CASE \E s \in Slots : saves'[s].phase \in {"delayed", "participants"}
      BY <1>10, <3>3 DEF FreshSaves, WillWrite, Decided
    <3> QED
      BY <1>10, <3>1, <3>2, <3>3
  <2> QED
    BY <1>2, <1>6, <1>7, <1>9, <1>10, <2>1 DEF IInv, Copies, AskedIsUnderWay, FreshSaves, save
<1>13. OthersWriteNew' /\ RememberedIsSeen'
  <2>0. OthersWriteNew'
    BY <1>1, <1>6 DEF IInv, OthersWriteNew
  <2>1. SUFFICES ASSUME ~history.overlapped PROVE RememberedIsSeen'
    BY <1>6, <2>0 DEF RememberedIsSeen
  <2>2. copy'.mtime = save.mtime /\ (~history.mistaken => file[copy'.mtime] \in history.shown)
    BY <1>1, <1>3, <1>7, <2>1 DEF IInv, RememberedIsSeen, save
  <2>3. ASSUME ~history.reverted
        PROVE  InFile(copy'.saved) /\ (copy'.dirty \/ copy'.text = copy'.saved)
    BY <1>3, <1>7, <2>1, <2>3 DEF IInv, RememberedIsSeen, InFile
  <2> QED
    BY <1>1, <1>6, <1>10, <2>2, <2>3 DEF OthersWriteNew, RememberedIsSeen, IsKnown, KnewTheFile, InFile, FreshSaves
<1>14. CleanIsKnown'
  <2>1. SUFFICES ASSUME ~copy'.dirty, ~history.undone, ~history.reverted, ~history.overlapped,
                        ~history.mistaken
                 PROVE  \E i \in copy'.mtime..Len(file) : copy'.text = file[i]
    BY <1>1, <1>6 DEF CleanIsKnown
  <2>2. copy'.mtime = save.mtime
    BY <1>1, <1>3, <1>7, <2>1 DEF IInv, RememberedIsSeen, save
  <2>3. save.version = copy.version
    BY <1>1, <1>7, <2>1 DEF IInv, ChangedIsDirty, Decided, save
  <2>4. save.mtime \in save.mtime..Len(file)
    BY <1>3, FileIs
  <2> QED
    BY <1>3, <1>7, <2>1, <2>2, <2>3, <2>4
<1> QED
  BY <1>11, <1>12, <1>13, <1>14 DEF IInv

\* While the save of a slot goes on, the other slot stays free.
LEMMA SlotGoesOn ==
    ASSUME IInv, NEW slot \in Slots, saves[slot].phase # "none", bounds' = bounds,
           NEW new \in Saves, new.phase # "none", saves' = [saves EXCEPT ![slot] = new],
           sequentializer'.running = [id |-> new.version, cancel |-> slot],
           sequentializer'.queued = sequentializer.queued,
           sequentializer' \in Sequentializers(Nat, Slots, Options),
           ignoring' = (new.phase = "participants"),
           new.cancelled => history'.dropped \/ sequentializer.queued # NoTask,
           new.phase = "participants" => sequentializer.queued = NoTask,
           new.phase = "delayed" /\ sequentializer.queued # NoTask => new.cancelled
    PROVE  /\ SavingInv' /\ saves'[slot] = new
           /\ \A t \in Slots : t # slot => saves'[t] = NoSave /\ saves[t] = NoSave
<1>1. saves' \in [Slots -> Saves'] /\ saves'[slot] = new
  BY TypesStay DEF IInv, TypeOK, SavingOK
<1>2. \A t \in Slots : t # slot => saves'[t] = NoSave /\ saves[t] = NoSave
  BY BusySlot DEF IInv, TypeOK, SavingInv, SavingOK
<1>3. IsRunning(sequentializer)'
  <2>1. [id |-> new.version, cancel |-> slot] \in [id : Nat, cancel : {1, 2}]
    BY DEF Saves, Decided
  <2> QED
    BY <2>1 DEF IsRunning
<1>4. ignoring' \in BOOLEAN /\ (ignoring' <=> \E s \in Slots : saves'[s].phase = "participants")
  <2>1. (\E s \in Slots : saves'[s].phase = "participants") <=> new.phase = "participants"
    BY <1>1, <1>2, NoSaveIs
  <2> QED
    BY <2>1
<1>5. SavingOK'
  BY <1>1, <1>3, <1>4 DEF SavingOK
<1>6. OneSaveAtATime'
  BY <1>1, <1>2, NoSaveIs DEF OneSaveAtATime
<1>7. CancelledForOne'
  BY <1>1, <1>2, NoSaveIs DEF CancelledForOne
<1> QED
  BY <1>1, <1>2, <1>5, <1>6, <1>7 DEF SavingInv

LEMMA DelayEndsStep ==
    ASSUME IInv, NEW slot \in Slots, DelayEnds(slot) PROVE IInv'
<1> DEFINE save == saves[slot]
           new == [save EXCEPT !.phase = "participants"]
<1>1. save.phase = "delayed" /\ save \in Saves
      /\ UNCHANGED <<copy, undo, file, event, resolving, bounds, history>>
  BY DEF DelayEnds, At, IInv, TypeOK, SavingOK
<1>2. CASE save.cancelled
  BY <1>1, <1>2, CancelledEnds DEF DelayEnds
<1>3. CASE ~save.cancelled
  <2>1. /\ saves' = [saves EXCEPT ![slot] = new] /\ ignoring' = TRUE
        /\ sequentializer' = sequentializer
    BY <1>3 DEF DelayEnds
  <2>2. /\ new \in Saves /\ new.phase = "participants" /\ new.version = save.version
        /\ new.cancelled = save.cancelled
    BY <1>1 DEF Saves, Decided
  <2> HIDE DEF new, save
  <2>3. sequentializer.queued = NoTask /\ sequentializer.running = [id |-> save.version, cancel |-> slot]
    BY <1>1, <1>3, BusySlot DEF IInv, TypeOK, SavingInv, CancelledForOne, save
  <2>4. sequentializer \in Sequentializers(Nat, Slots, Options) /\ save.phase # "none"
    BY <1>1 DEF IInv, TypeOK, SavingOK
  <2>5. /\ SavingInv' /\ saves'[slot] = new
        /\ \A t \in Slots : t # slot => saves'[t] = NoSave /\ saves[t] = NoSave
    <3>1. bounds' = bounds /\ saves[slot].phase # "none"
      BY <1>1, <2>4 DEF save
    <3>2. new.phase # "none" /\ ~new.cancelled
      BY <1>3, <2>2
    <3>3. ignoring' = (new.phase = "participants")
      BY <2>1, <2>2
    <3>4. /\ sequentializer'.running = [id |-> new.version, cancel |-> slot]
          /\ sequentializer'.queued = sequentializer.queued
          /\ sequentializer' \in Sequentializers(Nat, Slots, Options)
      BY <2>1, <2>2, <2>3, <2>4
    <3>5. saves' = [saves EXCEPT ![slot] = new] /\ new \in Saves /\ sequentializer.queued = NoTask
      BY <2>1, <2>2, <2>3
    <3> QED
      BY ONLY IInv, slot \in Slots, <3>1, <3>2, <3>3, <3>4, <3>5, SlotGoesOn
  <2>6. TypeOK'
    BY <1>1, <2>5, TypesStay DEF IInv, TypeOK, SavingInv, ResolvingOK, resolving
  <2>7. AskedIsUnderWay'
    BY <1>1, <1>3, <2>1, <2>2, <2>5, NoSaveIs DEF IInv, AskedIsUnderWay, WillWrite, Decided, save
  <2>8. TakenIsKnown'
    BY <1>1, <2>2, <2>5, NoSaveIs DEF IInv, TakenIsKnown, ResolveIsKnown, InFile, Decided, resolving
  <2>9. ResolvesAlone'
    BY <1>1, <2>1 DEF IInv, ResolvesAlone, resolving
  <2>10. OthersWriteNew' /\ RememberedIsSeen' /\ CleanIsKnown' /\ ChangedIsDirty'
    BY <1>1, <2>2, <2>5, NoSaveIs DEF IInv, OthersWriteNew, RememberedIsSeen, IsKnown, KnewTheFile, InFile, CleanIsKnown, ChangedIsDirty,
       Decided, IgnoresDirty, resolving
  <2> QED
    BY <2>5, <2>6, <2>7, <2>8, <2>9, <2>10 DEF IInv, SavingInv
<1> QED
  BY <1>2, <1>3

LEMMA ParticipantsEndStep ==
    ASSUME IInv, NEW slot \in Slots, ParticipantsEnd(slot) PROVE IInv'
<1> DEFINE save == saves[slot]
           version == copy.version
           text == copy.text
           mtime == copy.mtime
           new == [save EXCEPT !.phase = "snapshot", !.version = version, !.text = text,
                               !.mtime = mtime]
<1>1. save.phase = "participants" /\ save \in Saves /\ copy \in Copies
      /\ UNCHANGED <<undo, file, event, resolving, bounds, history>>
  BY DEF ParticipantsEnd, At, IInv, TypeOK, SavingOK
<1>2. CASE save.cancelled
  BY <1>1, <1>2, CancelledEnds DEF ParticipantsEnd
<1>3. CASE ~save.cancelled
  <2>1. /\ saves' = [saves EXCEPT ![slot] = new] /\ ignoring' = FALSE
        /\ sequentializer' = Run(sequentializer, version, slot)
        /\ copy' = [copy EXCEPT !.error = FALSE]
    BY <1>3 DEF ParticipantsEnd
  <2>2. version \in Nat /\ text \in Contents /\ mtime \in Nat
    BY <1>1 DEF Copies
  <2> HIDE DEF version, text, mtime
  <2>3. /\ new \in Saves /\ new.phase = "snapshot" /\ new.version = version
        /\ new.text = text /\ new.mtime = mtime /\ new.cancelled = save.cancelled
    BY <1>1, <2>2 DEF Saves, Decided
  <2>4. /\ copy' \in Copies /\ copy'.text = text /\ copy'.version = version
        /\ copy'.mtime = mtime /\ copy'.saved = copy.saved /\ copy'.dirty = copy.dirty
    BY <1>1, <2>1 DEF Copies, version, text, mtime
  <2> HIDE DEF new, save
  <2>5. /\ sequentializer' \in Sequentializers(Nat, Slots, Options)
        /\ sequentializer'.running = [id |-> version, cancel |-> slot]
        /\ sequentializer'.queued = sequentializer.queued
    <3> DEFINE task == [id |-> version, cancel |-> slot]
    <3>1. task \in [id : Nat, cancel : Slots]
      BY <2>2
    <3>2. sequentializer' = [sequentializer EXCEPT !.running = task]
      BY <2>1 DEF Run
    <3> HIDE DEF task
    <3>3. /\ sequentializer' \in Sequentializers(Nat, Slots, Options)
          /\ sequentializer'.running = task /\ sequentializer'.queued = sequentializer.queued
      BY <3>1, <3>2 DEF IInv, TypeOK, SavingOK, Sequentializers
    <3> QED
      BY <3>3 DEF task
  <2>6. save.phase # "none" /\ IsRunning(sequentializer)
    BY <1>1, BusySlot DEF IInv, TypeOK, SavingInv, save
  <2>7. /\ SavingInv' /\ saves'[slot] = new
        /\ \A t \in Slots : t # slot => saves'[t] = NoSave /\ saves[t] = NoSave
    <3>1. saves[slot].phase # "none" /\ bounds' = bounds
      BY <1>1, <2>6 DEF save
    <3>2. new \in Saves /\ new.phase # "none" /\ saves' = [saves EXCEPT ![slot] = new]
      BY <2>1, <2>3
    <3>3. /\ sequentializer'.running = [id |-> new.version, cancel |-> slot]
          /\ sequentializer'.queued = sequentializer.queued
          /\ sequentializer' \in Sequentializers(Nat, Slots, Options)
          /\ ignoring' = (new.phase = "participants")
      BY <2>1, <2>3, <2>5
    <3>4. /\ new.cancelled => history'.dropped \/ sequentializer.queued # NoTask
          /\ new.phase = "participants" => sequentializer.queued = NoTask
          /\ new.phase = "delayed" /\ sequentializer.queued # NoTask => new.cancelled
      BY <1>3, <2>3
    <3> QED
      BY ONLY IInv, slot \in Slots, <3>1, <3>2, <3>3, <3>4, SlotGoesOn
  <2>8. TypeOK'
    BY <1>1, <2>4, <2>7, TypesStay DEF IInv, TypeOK, SavingInv, ResolvingOK, resolving
  <2>9. AskedIsUnderWay'
    BY <1>1, <1>3, <2>2, <2>3, <2>4, <2>5, <2>7, NoSaveIs
    DEF IInv, TypeOK, Histories, AskedIsUnderWay, WillWrite, Decided, version
  <2>10. TakenIsKnown'
    BY <1>1, <2>3, <2>4, <2>7, NoSaveIs
    DEF IInv, TakenIsKnown, ResolveIsKnown, InFile, Decided, resolving, version, text, mtime
  <2>11. ResolvesAlone'
    BY <1>1, <2>4, <2>6, BusyIsAlone DEF ResolvesAlone, resolving, version, save
  <2>12. OthersWriteNew' /\ RememberedIsSeen'
    BY <1>1, <2>3, <2>4, <2>6, <2>7, NoSaveIs, BusyIsAlone
    DEF IInv, OthersWriteNew, RememberedIsSeen, IsKnown, KnewTheFile, InFile, resolving, text, mtime, save, NoResolve
  <2>13. CleanIsKnown' /\ ChangedIsDirty'
    BY <1>1, <2>3, <2>4, <2>7, NoSaveIs
    DEF IInv, CleanIsKnown, ChangedIsDirty, Decided, IgnoresDirty, resolving, text, mtime
  <2> QED
    BY <2>7, <2>8, <2>9, <2>10, <2>11, <2>12, <2>13 DEF IInv, SavingInv
<1> QED
  BY <1>2, <1>3

LEMMA SnapshotEndsStep ==
    ASSUME IInv, NEW slot \in Slots, SnapshotEnds(slot) PROVE IInv'
<1> DEFINE save == saves[slot]
<1>1. save.phase = "snapshot" /\ save \in Saves /\ copy \in Copies
      /\ UNCHANGED <<copy, undo, file, event, resolving, bounds, history>>
  BY DEF SnapshotEnds, At, IInv, TypeOK, SavingOK
<1>2. CASE save.cancelled
  BY <1>1, <1>2, CancelledEnds DEF SnapshotEnds
<1>3. CASE ~save.cancelled
  <2>1. PICK text \in {save.text, copy.text} :
            saves' = [saves EXCEPT ![slot].phase = "writing", ![slot].text = text]
    BY <1>3 DEF SnapshotEnds
  <2>2. UNCHANGED <<sequentializer, ignoring>>
    BY <1>3 DEF SnapshotEnds
  <2>3. /\ text \in Contents /\ text \in history.shown
        /\ save.version = copy.version => text = copy.text
    BY <1>1, <2>1 DEF IInv, TakenIsKnown, ResolveIsKnown, Saves, Decided, Copies
  <2> DEFINE new == [save EXCEPT !.phase = "writing", !.text = text]
  <2>4. saves' = [saves EXCEPT ![slot] = new]
    BY <2>1 DEF IInv, TypeOK, SavingOK
  <2>5. /\ new \in Saves /\ new.phase = "writing" /\ new.version = save.version
        /\ new.text = text /\ new.mtime = save.mtime /\ new.cancelled = save.cancelled
    BY <1>1, <2>3 DEF Saves, Decided
  <2> HIDE DEF new, save
  <2>6. /\ sequentializer \in Sequentializers(Nat, Slots, Options) /\ save.phase # "none"
        /\ sequentializer.running = [id |-> save.version, cancel |-> slot] /\ ~ignoring
    BY <1>1, BusySlot, NoSaveIs DEF IInv, TypeOK, SavingInv, SavingOK, save
  <2>7. /\ SavingInv' /\ saves'[slot] = new
        /\ \A t \in Slots : t # slot => saves'[t] = NoSave /\ saves[t] = NoSave
    <3>1. ignoring' = (new.phase = "participants")
      BY <2>2, <2>5, <2>6 DEF IInv, TypeOK, SavingOK
    <3>2. sequentializer' = sequentializer /\ bounds' = bounds /\ ~new.cancelled
      BY <1>1, <1>3, <2>2, <2>5 DEF save
    <3>3. new.phase # "none" /\ new.phase # "participants" /\ new.phase # "delayed"
      BY <2>5
    <3>4. saves[slot].phase # "none" /\ saves' = [saves EXCEPT ![slot] = new] /\ new \in Saves
      BY <2>4, <2>5, <2>6 DEF save
    <3>5. /\ sequentializer'.running = [id |-> new.version, cancel |-> slot]
          /\ sequentializer'.queued = sequentializer.queued
          /\ sequentializer' \in Sequentializers(Nat, Slots, Options)
      BY <2>5, <2>6, <3>2
    <3> QED
      BY ONLY IInv, slot \in Slots, <3>1, <3>2, <3>3, <3>4, <3>5, SlotGoesOn
  <2>8. TypeOK'
    BY <1>1, <2>7, TypesStay DEF IInv, TypeOK, SavingInv, ResolvingOK, resolving
  <2>9. AskedIsUnderWay'
    BY <1>1, <1>3, <2>2, <2>5, <2>7, NoSaveIs DEF IInv, AskedIsUnderWay, WillWrite, Decided, save
  <2>10. TakenIsKnown'
    BY <1>1, <2>3, <2>5, <2>7, NoSaveIs DEF IInv, TakenIsKnown, ResolveIsKnown, InFile, Decided, resolving, save
  <2>11. ResolvesAlone'
    BY <1>1, <2>2 DEF IInv, ResolvesAlone, resolving
  <2>12. OthersWriteNew' /\ RememberedIsSeen' /\ CleanIsKnown' /\ ChangedIsDirty'
    BY <1>1, <2>5, <2>7, NoSaveIs DEF IInv, OthersWriteNew, RememberedIsSeen, IsKnown, KnewTheFile, InFile, CleanIsKnown,
       ChangedIsDirty, Decided, IgnoresDirty, resolving, save
  <2> QED
    BY <2>7, <2>8, <2>9, <2>10, <2>11, <2>12 DEF IInv, SavingInv
<1> QED
  BY <1>2, <1>3

LEMMA CancelSaveStep ==
    ASSUME IInv, NEW slot \in Slots, CancelSave(slot) PROVE IInv'
<1> DEFINE save == saves[slot]
           new == [save EXCEPT !.cancelled = TRUE]
<1>1. save.phase \in {"delayed", "participants", "snapshot"} /\ save \in Saves
      /\ UNCHANGED <<copy, undo, file, event, sequentializer, ignoring, resolving, bounds>>
  BY DEF CancelSave, At, IInv, TypeOK, SavingOK
<1>2. saves' = [saves EXCEPT ![slot] = new]
  BY DEF CancelSave, IInv, TypeOK, SavingOK
<1>3. /\ new \in Saves /\ new.phase = save.phase /\ new.version = save.version
      /\ new.text = save.text /\ new.mtime = save.mtime /\ new.cancelled
  BY <1>1 DEF Saves, Decided
<1>4. /\ history' \in Histories /\ history'.dropped
      /\ history'.shown = history.shown /\ history'.overlapped = history.overlapped
      /\ history'.reverted = history.reverted /\ history'.undone = history.undone
      /\ history'.asked = history.asked /\ history'.written = history.written
      /\ history'.mistaken = history.mistaken
  BY DEF CancelSave, IInv, TypeOK, Histories
<1> HIDE DEF new, save
<1>5. /\ sequentializer \in Sequentializers(Nat, Slots, Options) /\ save.phase # "none"
      /\ sequentializer.running = [id |-> save.version, cancel |-> slot]
      /\ save.phase = "participants" => sequentializer.queued = NoTask
      /\ \A t \in Slots : t # slot => saves[t] = NoSave
  BY <1>1, BusySlot DEF IInv, TypeOK, SavingInv, SavingOK, CancelledForOne, save
<1>6. ignoring = (new.phase = "participants")
  <2>1. (\E s \in Slots : saves[s].phase = "participants") <=> new.phase = "participants"
    BY <1>3, <1>5, NoSaveIs DEF save
  <2> QED
    BY <2>1 DEF IInv, TypeOK, SavingOK
<1>7. /\ SavingInv' /\ saves'[slot] = new
      /\ \A t \in Slots : t # slot => saves'[t] = NoSave /\ saves[t] = NoSave
  <2>1. saves[slot].phase # "none" /\ bounds' = bounds
    BY <1>1, <1>5 DEF save
  <2>2. new \in Saves /\ new.phase # "none" /\ saves' = [saves EXCEPT ![slot] = new]
    BY <1>2, <1>3, <1>5
  <2>3. /\ sequentializer' = sequentializer /\ ignoring' = ignoring
    BY <1>1
  <2>4. /\ sequentializer'.running = [id |-> new.version, cancel |-> slot]
        /\ sequentializer'.queued = sequentializer.queued
        /\ sequentializer' \in Sequentializers(Nat, Slots, Options)
        /\ ignoring' = (new.phase = "participants")
    BY <1>3, <1>5, <1>6, <2>3
  <2>5. /\ new.cancelled => history'.dropped \/ sequentializer.queued # NoTask
        /\ new.phase = "participants" => sequentializer.queued = NoTask
        /\ new.phase = "delayed" /\ sequentializer.queued # NoTask => new.cancelled
    BY <1>3, <1>4, <1>5
  <2> QED
    BY ONLY IInv, slot \in Slots, <2>1, <2>2, <2>4, <2>5, SlotGoesOn
<1>8. TypeOK'
  BY <1>1, <1>4, <1>7, TypesStay DEF IInv, TypeOK, SavingInv, ResolvingOK, resolving
<1>9. AskedIsUnderWay'
  BY <1>1, <1>3, <1>4, <1>7, NoSaveIs DEF IInv, AskedIsUnderWay, save
<1>10. TakenIsKnown'
  BY <1>1, <1>3, <1>4, <1>7, NoSaveIs DEF IInv, TakenIsKnown, ResolveIsKnown, InFile, Decided, resolving, save
<1>11. ResolvesAlone'
  BY <1>1, <1>4 DEF IInv, ResolvesAlone, resolving
<1>12. OthersWriteNew' /\ RememberedIsSeen' /\ CleanIsKnown' /\ ChangedIsDirty'
  BY <1>1, <1>3, <1>4, <1>7, NoSaveIs DEF IInv, OthersWriteNew, RememberedIsSeen, IsKnown, KnewTheFile, InFile, CleanIsKnown,
     ChangedIsDirty, Decided, IgnoresDirty, resolving, save
<1> QED
  BY <1>7, <1>8, <1>9, <1>10, <1>11, <1>12 DEF IInv, SavingInv

\* The save of a slot goes on as new.
GoesOnAs(slot, new) ==
    /\ saves' = [saves EXCEPT ![slot] = new]
    /\ new.phase \in {"comparing", "checked", "wrote", "written", "modified", "failed"}
    /\ new.version = saves[slot].version /\ new.text = saves[slot].text
    /\ new.cancelled = saves[slot].cancelled /\ new.options = saves[slot].options

\* What the steps of a write do to the rest: the file and what is counted may grow.
WriteGoesOn ==
    /\ UNCHANGED <<copy, undo, sequentializer, ignoring, resolving>>
    /\ bounds' \in [Counted -> Nat]
    /\ bounds'["edits"] = bounds["edits"] /\ bounds'["writes"] = bounds["writes"]
    /\ file' \in Seq(Contents) /\ event' \in BOOLEAN /\ Len(file) <= Len(file')
    /\ \A i \in DOMAIN file : i \in DOMAIN file' /\ file'[i] = file[i]
    /\ history' \in Histories
    /\ \E mistaken \in BOOLEAN :
           history' = [history EXCEPT !.mistaken = mistaken] /\ (history.mistaken => mistaken)

\* What a save that goes on as new must know of the file.
KnowsTheFile(new) ==
    /\ new.mtime \in DOMAIN file' \/ (new.mtime = 0 /\ new.phase \notin {"comparing", "written"})
    /\ new.phase \in {"wrote", "written"} => \E i \in DOMAIN file' : file'[i] = new.text
    /\ new.phase = "written" => copy.mtime <= new.mtime
    /\ new.phase = "written" /\ ~history'.mistaken => file'[new.mtime] = new.text
    /\ new.phase = "checked" /\ ~history.overlapped /\ ~history'.mistaken =>
           new.mtime = 0 \/ file'[new.mtime] \in history.shown \/ new.options = "overwrite"

\* A step of a write keeps the invariant when the save knows the file.
LEMMA GoesOnStep ==
    ASSUME IInv, NEW slot \in Slots, NEW new \in Saves,
           saves[slot].phase \in {"writing", "comparing", "checked", "wrote"},
           GoesOnAs(slot, new), WriteGoesOn, KnowsTheFile(new), OthersWriteNew'
    PROVE  IInv'
<1> DEFINE save == saves[slot]
<1>1. /\ save.phase \in {"writing", "comparing", "checked", "wrote"}
      /\ UNCHANGED <<copy, undo, sequentializer, ignoring, resolving>>
  BY DEF WriteGoesOn
<1>2. /\ history' \in Histories /\ history'.asked = history.asked
      /\ history'.written = history.written /\ history'.dropped = history.dropped
      /\ history'.shown = history.shown /\ history'.reverted = history.reverted
      /\ history'.undone = history.undone /\ history'.overlapped = history.overlapped
      /\ history.mistaken => history'.mistaken
  <2>1. PICK mistaken \in BOOLEAN :
            history' = [history EXCEPT !.mistaken = mistaken] /\ (history.mistaken => mistaken)
    BY DEF WriteGoesOn
  <2> QED
    BY <2>1 DEF WriteGoesOn, IInv, TypeOK, Histories
<1>3. /\ Contents' = Contents /\ Copies' = Copies /\ Saves' = Saves /\ Resolves' = Resolves
      /\ Histories' = Histories
  <2>1. Contents' = Contents
    BY DEF WriteGoesOn, Contents
  <2> QED
    BY <2>1 DEF Copies, Saves, Decided, Resolves, Histories
<1>4. /\ file' \in Seq(Contents) /\ event' \in BOOLEAN /\ Len(file) <= Len(file')
      /\ \A i \in DOMAIN file : i \in DOMAIN file' /\ file'[i] = file[i]
  BY DEF WriteGoesOn
<1>5. /\ new.phase \in {"comparing", "checked", "wrote", "written", "modified", "failed"}
      /\ new.version = save.version /\ new.text = save.text
      /\ new.cancelled = save.cancelled /\ new.options = save.options
      /\ saves' = [saves EXCEPT ![slot] = new]
  BY DEF GoesOnAs
<1> HIDE DEF save
<1>6. /\ sequentializer \in Sequentializers(Nat, Slots, Options) /\ save.phase # "none"
      /\ sequentializer.running = [id |-> save.version, cancel |-> slot] /\ ~ignoring
      /\ \A t \in Slots : t # slot => saves[t] = NoSave
  BY <1>1, BusySlot, NoSaveIs DEF IInv, TypeOK, SavingInv, SavingOK, save
<1>7. /\ saves'[slot] = new /\ \A t \in Slots : t # slot => saves'[t] = NoSave
      /\ saves' \in [Slots -> Saves]
  BY <1>5, <1>6 DEF IInv, TypeOK, SavingOK
<1>8. SavingOK'
  <2>1. \A s \in Slots : saves'[s].phase # "participants"
    BY <1>5, <1>7, NoSaveIs
  <2> QED
    BY <1>1, <1>3, <1>6, <1>7, <2>1 DEF IInv, TypeOK, SavingOK, IsRunning
<1>9. OneSaveAtATime' /\ CancelledForOne'
  BY <1>1, <1>2, <1>5, <1>6, <1>7, NoSaveIs
  DEF IInv, OneSaveAtATime, CancelledForOne, IsRunning, save
<1>10. TypeOK'
  <2>1. bounds' \in [Counted -> Nat]
    BY DEF WriteGoesOn
  <2> QED
    BY <1>1, <1>2, <1>3, <1>4, <1>8, <2>1 DEF IInv, TypeOK, ResolvingOK, resolving
<1>11. AskedIsUnderWay'
  BY <1>1, <1>2, <1>5, <1>6, <1>7, NoSaveIs DEF IInv, AskedIsUnderWay, WillWrite, Decided, save
<1>12. TakenIsKnown'
  <2>1. ResolveIsKnown' /\ copy'.mtime \in DOMAIN file' /\ copy'.text \in history'.shown
    BY <1>1, <1>2, <1>4 DEF IInv, TakenIsKnown, ResolveIsKnown, resolving
  <2>2. /\ new.text \in history'.shown
        /\ new.version = copy'.version => new.text = copy'.text
    BY <1>1, <1>2, <1>5 DEF IInv, TakenIsKnown, Decided, save
  <2>3. /\ new.mtime \in DOMAIN file' \/ (new.mtime = 0 /\ new.phase \notin
                                             {"snapshot", "writing", "comparing", "written"})
        /\ new.phase \in {"wrote", "written"} => \E i \in DOMAIN file' : file'[i] = new.text
        /\ new.phase = "written" /\ ~history'.mistaken => file'[new.mtime] = new.text
    BY <1>5 DEF KnowsTheFile
  <2> QED
    BY <1>7, <2>1, <2>2, <2>3, NoSaveIs DEF TakenIsKnown, Decided, InFile
<1>13. ResolvesAlone'
  BY <1>1, <1>2 DEF IInv, ResolvesAlone, resolving, IsRunning
<1>14. RememberedIsSeen'
  <2>1. SUFFICES ASSUME ~history.overlapped PROVE RememberedIsSeen'
    BY <1>2 DEF RememberedIsSeen
  <2>2. ~history'.mistaken =>
            \/ resolve'.phase = "updating"
            \/ copy'.mtime < Len(file') \/ file'[copy'.mtime] \in history'.shown
    BY <1>1, <1>2, <1>4, <2>1, FileIs, StaysKnown DEF IInv, RememberedIsSeen, resolving
  <2>3. new.phase = "checked" /\ ~history'.mistaken =>
            new.mtime = 0 \/ file'[new.mtime] \in history'.shown \/ new.options = "overwrite"
    BY <1>2, <2>1 DEF KnowsTheFile
  <2>4. new.phase = "written" => copy'.mtime <= new.mtime
    BY <1>1 DEF KnowsTheFile
  <2>5. ~history'.reverted => (\E i \in DOMAIN file' : file'[i] = copy'.saved)
                              /\ (copy'.dirty \/ copy'.text = copy'.saved)
    BY <1>1, <1>2, <1>4, <2>1 DEF IInv, RememberedIsSeen, InFile
  <2>6. \A s \in Slots : saves'[s] = new \/ saves'[s].phase = "none"
    BY <1>7, NoSaveIs
  <2>7. new.phase # "snapshot" /\ new.phase # "writing"
    BY <1>5
  <2> QED
    BY <2>2, <2>3, <2>4, <2>5, <2>6, <2>7 DEF RememberedIsSeen, IsKnown, KnewTheFile, InFile
<1>15. CleanIsKnown'
  <2>1. SUFFICES ASSUME ~copy'.dirty, ~IgnoresDirty', ~history'.undone, ~history'.reverted,
                        ~history'.overlapped, ~history'.mistaken
                 PROVE  \E i \in copy'.mtime..Len(file') : copy'.text = file'[i]
    BY DEF CleanIsKnown
  <2>2. PICK i \in copy.mtime..Len(file) : copy.text = file[i]
    BY <1>1, <1>2, <2>1 DEF IInv, CleanIsKnown, IgnoresDirty, resolving
  <2>3. i \in copy.mtime..Len(file') /\ file'[i] = file[i]
    BY <1>4, StaysClean
  <2> QED
    BY <1>1, <2>2, <2>3
<1>16. ChangedIsDirty'
  BY <1>1, <1>2, <1>5, <1>7, NoSaveIs DEF IInv, ChangedIsDirty, Decided, save
<1> QED
  BY <1>9, <1>10, <1>11, <1>12, <1>13, <1>14, <1>15, <1>16 DEF IInv

\* A step of a write that leaves the file and the history alone.
LEMMA UnwrittenIs ==
    ASSUME IInv, UNCHANGED unwritten, UNCHANGED bounds \/ Fails
    PROVE  WriteGoesOn /\ OthersWriteNew' /\ file' = file /\ history' = history
<1>1. UNCHANGED <<copy, undo, file, event, sequentializer, ignoring, resolving, history>>
  BY DEF unwritten
<1>2. /\ bounds' \in [Counted -> Nat] /\ bounds'["edits"] = bounds["edits"]
      /\ bounds'["writes"] = bounds["writes"]
  <2>1. bounds \in [Counted -> Nat]
    BY DEF IInv, TypeOK
  <2> QED
    BY <2>1, CountsIs DEF Fails, Counted
<1>3. /\ file \in Seq(Contents) /\ event \in BOOLEAN /\ Len(file) \in Nat
      /\ history \in Histories /\ history = [history EXCEPT !.mistaken = history.mistaken]
      /\ history.mistaken \in BOOLEAN
  BY FileIs DEF IInv, TypeOK, Histories
<1>4. WriteGoesOn
  BY <1>1, <1>2, <1>3 DEF WriteGoesOn
<1> QED
  BY <1>1, <1>4 DEF IInv, OthersWriteNew

Later == {"comparing", "checked", "wrote", "written", "modified", "failed"}

\* The step gives the save of a slot another phase, and another time as well.
PhaseIs(slot, phase) == saves' = [saves EXCEPT ![slot].phase = phase]
PhaseIsAt(slot, phase, mtime) ==
    saves' = [saves EXCEPT ![slot].phase = phase, ![slot].mtime = mtime]

\* The save of a slot with another phase.
LEMMA NextPhase ==
    ASSUME IInv, NEW slot \in Slots, NEW phase \in Later,
           PhaseIs(slot, phase)
    PROVE  \E new \in Saves :
               GoesOnAs(slot, new) /\ new.phase = phase /\ new.mtime = saves[slot].mtime
<1> DEFINE save == saves[slot]
           new == [save EXCEPT !.phase = phase]
<1>1. saves \in [Slots -> Saves] /\ save \in Saves /\ phase \in Decided
  BY DEF IInv, TypeOK, SavingOK, Decided, Later
<1>2. saves' = [saves EXCEPT ![slot] = new]
  BY <1>1 DEF PhaseIs
<1>3. /\ new \in Saves /\ new.phase = phase /\ new.version = save.version
      /\ new.text = save.text /\ new.mtime = save.mtime /\ new.cancelled = save.cancelled
      /\ new.options = save.options
  BY <1>1 DEF Saves, Decided
<1> HIDE DEF new
<1> QED
  BY <1>2, <1>3 DEF GoesOnAs, Later

\* The save of a slot with another phase, and another time.
LEMMA NextPhaseAt ==
    ASSUME IInv, NEW slot \in Slots, NEW phase \in Later, NEW mtime \in Nat,
           PhaseIsAt(slot, phase, mtime)
    PROVE  \E new \in Saves : GoesOnAs(slot, new) /\ new.phase = phase /\ new.mtime = mtime
<1> DEFINE save == saves[slot]
           new == [save EXCEPT !.phase = phase, !.mtime = mtime]
<1>1. saves \in [Slots -> Saves] /\ save \in Saves /\ phase \in Decided
  BY DEF IInv, TypeOK, SavingOK, Decided, Later
<1>2. saves' = [saves EXCEPT ![slot] = new]
  BY <1>1 DEF PhaseIsAt
<1>3. /\ new \in Saves /\ new.phase = phase /\ new.version = save.version
      /\ new.text = save.text /\ new.mtime = mtime /\ new.cancelled = save.cancelled
      /\ new.options = save.options
  BY <1>1 DEF Saves, Decided
<1> HIDE DEF new
<1> QED
  BY <1>2, <1>3 DEF GoesOnAs, Later

\* What the check lets pass has been shown: either the file is as remembered, or it has
\* come back to contents that it had before.
LEMMA CheckStep ==
    ASSUME IInv, NEW slot \in Slots, Check(slot) PROVE IInv'
<1> DEFINE save == saves[slot]
           last == Len(file)
<1>0. {"comparing", "checked", "wrote", "written", "modified", "failed"} \subseteq Later
  BY DEF Later
<1>1. save.phase = "writing" /\ WriteGoesOn /\ OthersWriteNew' /\ file' = file
      /\ history' = history
  <2>1. save.phase = "writing" /\ UNCHANGED unwritten /\ (UNCHANGED bounds \/ Fails)
    BY DEF Check, At
  <2> QED
    BY <2>1, UnwrittenIs
<1>2. save.mtime \in DOMAIN file /\ last \in DOMAIN file /\ last \in Nat
  BY <1>1, FileIs DEF IInv, TakenIsKnown, Decided
<1> HIDE DEF last
<1>3. CASE /\ ~IsModifiedSince(save)
           /\ saves' = [saves EXCEPT ![slot].phase = "checked", ![slot].mtime = last]
  <2>1. PICK new \in Saves : GoesOnAs(slot, new) /\ new.phase = "checked" /\ new.mtime = last
    <3>1. PhaseIsAt(slot, "checked", last)
      BY <1>3 DEF PhaseIsAt
    <3> QED
      BY ONLY IInv, slot \in Slots, <1>0, <1>2, <3>1, NextPhaseAt
  <2>2. ~history.overlapped /\ ~history.mistaken =>
            file[last] \in history.shown \/ save.options = "overwrite"
    <3>1. SUFFICES ASSUME ~history.overlapped, ~history.mistaken, save.options # "overwrite"
                   PROVE  file[last] \in history.shown
      OBVIOUS
    <3>2. save.mtime < last \/ file[save.mtime] \in history.shown
      BY <1>1, <3>1 DEF IInv, RememberedIsSeen, IsKnown, last
    <3>3. ~(save.mtime < last) \/ file[save.mtime] = file[last]
      BY <1>3, <3>1 DEF IsModifiedSince, last
    <3>4. save.mtime = last \/ save.mtime < last
      BY <1>2, FileIs DEF last
    <3>5. CASE save.mtime = last /\ ~(save.mtime < last)
      BY <3>2, <3>5
    <3>6. CASE save.mtime < last
      <4>1. file[save.mtime] = file[last] /\ save.mtime # last
        BY <1>2, <3>3, <3>6, FileIs
      <4> QED
        BY <1>2, <4>1 DEF IInv, OthersWriteNew
    <3> QED
      BY <1>2, <3>4, <3>5, <3>6, FileIs
  <2>3. KnowsTheFile(new)
    <3>1. new.options = save.options
      BY <2>1 DEF GoesOnAs
    <3> QED
      BY <1>1, <1>2, <2>1, <2>2, <3>1 DEF KnowsTheFile
  <2> QED
    BY <1>1, <2>1, <2>3, GoesOnStep
<1>4. ASSUME NEW phase \in {"comparing", "modified"}, saves' = [saves EXCEPT ![slot].phase = phase]
      PROVE  IInv'
  <2>1. PICK new \in Saves : GoesOnAs(slot, new) /\ new.phase = phase /\ new.mtime = save.mtime
    <3>1. PhaseIs(slot, phase)
      BY <1>4 DEF PhaseIs
    <3> QED
      BY ONLY IInv, slot \in Slots, <1>0, <3>1, NextPhase
  <2>2. KnowsTheFile(new)
    BY <1>1, <1>2, <2>1 DEF KnowsTheFile
  <2> QED
    BY <1>1, <2>1, <2>2, GoesOnStep
<1>5. CASE saves' = [saves EXCEPT ![slot].phase = "checked", ![slot].mtime = 0]
  <2>1. PICK new \in Saves : GoesOnAs(slot, new) /\ new.phase = "checked" /\ new.mtime = 0
    <3>1. PhaseIsAt(slot, "checked", 0)
      BY <1>5 DEF PhaseIsAt
    <3> QED
      BY ONLY IInv, slot \in Slots, <1>0, <1>2, <3>1, NextPhaseAt
  <2>2. KnowsTheFile(new)
    BY <2>1 DEF KnowsTheFile
  <2> QED
    BY <1>1, <2>1, <2>2, GoesOnStep
<1> QED
  BY <1>3, <1>4, <1>5 DEF Check, last

LEMMA CompareStep ==
    ASSUME IInv, NEW slot \in Slots, Compare(slot) PROVE IInv'
<1> DEFINE save == saves[slot]
           last == Len(file)
<1>0. {"comparing", "checked", "wrote", "written", "modified", "failed"} \subseteq Later
  BY DEF Later
<1>1. save.phase = "comparing" /\ WriteGoesOn /\ OthersWriteNew' /\ file' = file
      /\ history' = history
  <2>1. save.phase = "comparing" /\ UNCHANGED unwritten /\ (UNCHANGED bounds \/ Fails)
    BY DEF Compare, At
  <2> QED
    BY <2>1, UnwrittenIs
<1>2. /\ save.mtime \in DOMAIN file /\ last \in DOMAIN file /\ last \in Nat
      /\ save.text \in history.shown
  BY <1>1, FileIs DEF IInv, TakenIsKnown, Decided
<1> HIDE DEF last
<1>3. CASE /\ save.text = file[last]
           /\ saves' = [saves EXCEPT ![slot].phase = "checked", ![slot].mtime = last]
  <2>1. PICK new \in Saves : GoesOnAs(slot, new) /\ new.phase = "checked" /\ new.mtime = last
    <3>1. PhaseIsAt(slot, "checked", last)
      BY <1>3 DEF PhaseIsAt
    <3> QED
      BY ONLY IInv, slot \in Slots, <1>0, <1>2, <3>1, NextPhaseAt
  <2>2. KnowsTheFile(new)
    BY <1>1, <1>2, <1>3, <2>1 DEF KnowsTheFile
  <2> QED
    BY <1>1, <2>1, <2>2, GoesOnStep
<1>4. CASE saves' = [saves EXCEPT ![slot].phase = "modified"]
  <2>1. PICK new \in Saves :
            GoesOnAs(slot, new) /\ new.phase = "modified" /\ new.mtime = save.mtime
    <3>1. PhaseIs(slot, "modified")
      BY <1>4 DEF PhaseIs
    <3> QED
      BY ONLY IInv, slot \in Slots, <1>0, <3>1, NextPhase
  <2>2. KnowsTheFile(new)
    BY <1>1, <1>2, <2>1 DEF KnowsTheFile
  <2> QED
    BY <1>1, <2>1, <2>2, GoesOnStep
<1> QED
  BY <1>3, <1>4 DEF Compare, last

\* A write appends what has been shown.
LEMMA WriteStep ==
    ASSUME IInv, NEW slot \in Slots, Write(slot) PROVE IInv'
<1> DEFINE save == saves[slot]
<1>0. {"comparing", "checked", "wrote", "written", "modified", "failed"} \subseteq Later
  BY DEF Later
<1>1. /\ save.phase = "checked" /\ save \in Saves
      /\ UNCHANGED <<copy, undo, sequentializer, ignoring, resolving, history>>
  BY DEF Write, At, IInv, TypeOK, SavingOK
<1>2. /\ bounds \in [Counted -> Nat] /\ event \in BOOLEAN /\ history \in Histories
      /\ save.text \in Contents /\ save.text \in history.shown
      /\ save.mtime \in DOMAIN file \/ save.mtime = 0
  BY <1>1 DEF IInv, TypeOK, Saves, TakenIsKnown, Decided
<1>3. CASE /\ file' = Append(file, save.text) /\ event' = TRUE /\ UNCHANGED bounds
           /\ saves' = [saves EXCEPT ![slot].phase = "wrote"]
  <2>1. /\ file' \in Seq(Contents) /\ Len(file') = Len(file) + 1 /\ Len(file') \in Nat
        /\ \A i \in DOMAIN file : i \in DOMAIN file' /\ file'[i] = file[i]
        /\ Len(file') \in DOMAIN file' /\ file'[Len(file')] = save.text
        /\ \A i \in DOMAIN file' : i \in DOMAIN file \/ i = Len(file')
    <3>1. /\ file' \in Seq(Contents) /\ Len(file') = Len(file) + 1 /\ Len(file') \in Nat
          /\ \A i \in DOMAIN file : i \in DOMAIN file' /\ file'[i] = file[i]
          /\ Len(file') \in DOMAIN file' /\ file'[Len(file')] = save.text
      BY <1>2, <1>3, FileIs, AppendProperties
    <3>2. DOMAIN file' = 1..Len(file') /\ DOMAIN file = 1..Len(file) /\ Len(file) \in Nat
      BY <3>1, FileIs, LenProperties
    <3> QED
      BY <3>1, <3>2
  <2>2. WriteGoesOn
    <3>1. history = [history EXCEPT !.mistaken = history.mistaken] /\ history.mistaken \in BOOLEAN
      BY <1>2 DEF Histories
    <3>2. Len(file) <= Len(file')
      BY <2>1, FileIs
    <3> QED
      BY <1>1, <1>2, <1>3, <2>1, <3>1, <3>2 DEF WriteGoesOn
  <2>3. OthersWriteNew'
    <3>1. \A i \in DOMAIN file' : i \in DOMAIN file \/ file'[i] \in history.shown
      BY <1>2, <2>1
    <3> QED
      BY <1>1, <2>1, <3>1 DEF IInv, OthersWriteNew
  <2>4. PICK new \in Saves :
            GoesOnAs(slot, new) /\ new.phase = "wrote" /\ new.mtime = save.mtime
    <3>1. PhaseIs(slot, "wrote")
      BY <1>3 DEF PhaseIs
    <3> QED
      BY ONLY IInv, slot \in Slots, <1>0, <3>1, NextPhase
  <2>5. KnowsTheFile(new)
    <3>1. new.text = save.text
      BY <2>4 DEF GoesOnAs
    <3> QED
      BY <1>2, <2>1, <2>4, <3>1 DEF KnowsTheFile
  <2> QED
    BY <1>1, <2>2, <2>3, <2>4, <2>5, GoesOnStep
<1>4. CASE /\ Fails /\ saves' = [saves EXCEPT ![slot].phase = "failed"]
           /\ UNCHANGED <<file, event>>
  <2>1. UNCHANGED unwritten
    BY <1>1, <1>4 DEF unwritten
  <2>2. WriteGoesOn /\ OthersWriteNew' /\ file' = file
    BY <1>4, <2>1, UnwrittenIs
  <2>3. PICK new \in Saves :
            GoesOnAs(slot, new) /\ new.phase = "failed" /\ new.mtime = save.mtime
    <3>1. PhaseIs(slot, "failed")
      BY <1>4 DEF PhaseIs
    <3> QED
      BY ONLY IInv, slot \in Slots, <1>0, <3>1, NextPhase
  <2>4. KnowsTheFile(new)
    BY <1>2, <2>2, <2>3 DEF KnowsTheFile
  <2> QED
    BY <1>1, <2>2, <2>3, <2>4, GoesOnStep
<1> QED
  BY <1>3, <1>4 DEF Write

\* The stat after a write is that of the file as it is by now.
LEMMA StatStep ==
    ASSUME IInv, NEW slot \in Slots, Stat(slot) PROVE IInv'
<1> DEFINE save == saves[slot]
           last == Len(file)
           mistaken == history.mistaken \/ file[Len(file)] # save.text
<1>0. {"comparing", "checked", "wrote", "written", "modified", "failed"} \subseteq Later
  BY DEF Later
<1>1. /\ save.phase = "wrote"
      /\ UNCHANGED <<copy, undo, file, event, sequentializer, ignoring, resolving>>
  BY DEF Stat, At
<1>2. /\ last \in DOMAIN file /\ last \in Nat /\ copy.mtime <= last
      /\ bounds \in [Counted -> Nat] /\ event \in BOOLEAN /\ history \in Histories
      /\ InFile(save.text) /\ (save.mtime \in DOMAIN file \/ save.mtime = 0)
  BY <1>1, FileIs DEF IInv, TypeOK, TakenIsKnown, Decided
<1>3. CASE /\ saves' = [saves EXCEPT ![slot].phase = "written", ![slot].mtime = last]
           /\ history' = [history EXCEPT !.mistaken = mistaken] /\ UNCHANGED bounds
  <2>1. mistaken \in BOOLEAN /\ (history.mistaken => mistaken)
        /\ (~mistaken => file[last] = save.text)
    OBVIOUS
  <2> HIDE DEF mistaken, last
  <2>2. /\ history' \in Histories /\ history'.mistaken = mistaken
        /\ history'.shown = history.shown
    BY <1>2, <1>3, <2>1 DEF Histories
  <2>3. WriteGoesOn
    <3>1. file' \in Seq(Contents) /\ Len(file) <= Len(file')
      BY <1>1, FileIs
    <3> QED
      BY <1>1, <1>2, <1>3, <2>1, <2>2, <3>1 DEF WriteGoesOn
  <2>4. OthersWriteNew'
    BY <1>1, <2>2 DEF IInv, OthersWriteNew
  <2>5. PICK new \in Saves : GoesOnAs(slot, new) /\ new.phase = "written" /\ new.mtime = last
    <3>1. PhaseIsAt(slot, "written", last)
      BY <1>3 DEF PhaseIsAt
    <3> QED
      BY ONLY IInv, slot \in Slots, <1>0, <1>2, <3>1, NextPhaseAt
  <2>6. KnowsTheFile(new)
    <3>1. new.text = save.text
      BY <2>5 DEF GoesOnAs
    <3> QED
      BY <1>1, <1>2, <2>1, <2>2, <2>5, <3>1 DEF KnowsTheFile, InFile
  <2> QED
    BY <1>1, <2>3, <2>4, <2>5, <2>6, GoesOnStep
<1>4. CASE /\ Fails /\ saves' = [saves EXCEPT ![slot].phase = "failed"]
           /\ UNCHANGED history
  <2>1. UNCHANGED unwritten
    BY <1>1, <1>4 DEF unwritten
  <2>2. WriteGoesOn /\ OthersWriteNew' /\ file' = file
    BY <1>4, <2>1, UnwrittenIs
  <2>3. PICK new \in Saves :
            GoesOnAs(slot, new) /\ new.phase = "failed" /\ new.mtime = save.mtime
    <3>1. PhaseIs(slot, "failed")
      BY <1>4 DEF PhaseIs
    <3> QED
      BY ONLY IInv, slot \in Slots, <1>0, <3>1, NextPhase
  <2>4. KnowsTheFile(new)
    BY <1>2, <2>2, <2>3 DEF KnowsTheFile
  <2> QED
    BY <1>1, <2>2, <2>3, <2>4, GoesOnStep
<1> QED
  BY <1>3, <1>4 DEF Stat

\* What a call of save does to what is counted, and to the history.
LEMMA SaveCounts ==
    ASSUME IInv, NEW options \in Options, Save(options)
    PROVE  /\ UNCHANGED <<copy, undo, file, event, resolving>>
           /\ bounds' \in [Counted -> Nat]
           /\ Contents' = Contents /\ Copies' = Copies /\ Saves' = Saves
           /\ Resolves' = Resolves /\ Histories' = Histories /\ 0 \in Contents
           /\ history' \in Histories /\ history'.shown = history.shown
           /\ history'.reverted = history.reverted /\ history'.undone = history.undone
           /\ history'.written = history.written /\ history'.mistaken = history.mistaken
           /\ \/ UNCHANGED saving /\ history' = history
              \/ /\ SavingBecomes(DoSave(copy, sequentializer, saves, ignoring, options))
                 /\ \/ options = "auto" /\ ~copy.dirty /\ history' = history
                    \/ /\ ~(options = "auto" /\ ~copy.dirty) /\ history'.asked = copy.version
                       /\ history'.overlapped = (history.overlapped \/ Overlaps)
                       /\ history'.dropped = (history.dropped /\
                              (ignoring \/ IsRunningId(sequentializer, copy.version)))
<1>1. UNCHANGED <<copy, undo, file, event, resolving>>
  BY DEF Save
<1>2. /\ bounds' \in [Counted -> Nat] /\ bounds'["edits"] = bounds["edits"]
      /\ bounds'["writes"] = bounds["writes"]
  <2>1. bounds \in [Counted -> Nat] /\ Counts("saves", MaxSaves)
    BY DEF Save, IInv, TypeOK
  <2> QED
    BY <2>1, CountsIs DEF Counted
<1>3. Contents' = Contents /\ 0 \in Contents
  BY <1>2 DEF IInv, TypeOK, Contents, Counted
<1>4. /\ Copies' = Copies /\ Saves' = Saves /\ Resolves' = Resolves /\ Histories' = Histories
  BY <1>3 DEF Copies, Saves, Decided, Resolves, Histories
<1>5. history \in Histories /\ copy.version \in Nat
  BY DEF IInv, TypeOK, Copies
<1>6. CASE UNCHANGED <<saving, history>>
  BY <1>1, <1>2, <1>3, <1>4, <1>5, <1>6
<1>7. CASE /\ SavingBecomes(DoSave(copy, sequentializer, saves, ignoring, options))
           /\ options = "auto" /\ ~copy.dirty /\ history' = history
  BY <1>1, <1>2, <1>3, <1>4, <1>5, <1>7
<1>8. CASE /\ SavingBecomes(DoSave(copy, sequentializer, saves, ignoring, options))
           /\ ~(options = "auto" /\ ~copy.dirty)
           /\ history' = [history EXCEPT !.asked = copy.version, !.overlapped = @ \/ Overlaps,
                  !.dropped = @ /\ (ignoring \/ IsRunningId(sequentializer, copy.version))]
  <2>1. /\ history' \in Histories /\ history'.shown = history.shown
        /\ history'.reverted = history.reverted /\ history'.undone = history.undone
        /\ history'.written = history.written /\ history'.asked = copy.version
        /\ history'.mistaken = history.mistaken
        /\ history'.overlapped = (history.overlapped \/ Overlaps)
        /\ history'.dropped = (history.dropped /\
                              (ignoring \/ IsRunningId(sequentializer, copy.version)))
    BY <1>5, <1>8 DEF Histories
  <2> QED
    BY <1>1, <1>2, <1>3, <1>4, <1>8, <2>1
<1> QED
  BY <1>6, <1>7, <1>8 DEF Save

\* A save that queues keeps the saves in order.
LEMMA QueuesKeeps ==
    ASSUME IInv, NEW slot \in Slots, NEW options \in Options, QueuesBehind(slot, options),
           Saves' = Saves
    PROVE  /\ SavingInv'
           /\ sequentializer'.queued = options /\ IsRunning(sequentializer)
           /\ \A s \in Slots :
                 /\ saves'[s].phase = saves[s].phase /\ saves'[s].version = saves[s].version
                 /\ saves'[s].text = saves[s].text /\ saves'[s].mtime = saves[s].mtime
                 /\ saves'[s].options = saves[s].options
           /\ saves'[slot].phase # "none"
<1> DEFINE save == saves[slot]
           new == [save EXCEPT !.cancelled = TRUE]
<1>1. save \in Saves /\ save.phase # "none" /\ ~ignoring /\ ignoring' = FALSE
      /\ sequentializer' = [sequentializer EXCEPT !.queued = options]
  BY DEF QueuesBehind, IInv, TypeOK, SavingOK
<1>2. saves' = [saves EXCEPT ![slot] = new]
  BY DEF QueuesBehind, IInv, TypeOK, SavingOK
<1>3. /\ new \in Saves /\ new.phase = save.phase /\ new.version = save.version
      /\ new.text = save.text /\ new.mtime = save.mtime /\ new.cancelled
      /\ new.options = save.options
  BY <1>1 DEF Saves, Decided
<1> HIDE DEF new, save
<1>4. /\ sequentializer' \in Sequentializers(Nat, Slots, Options)
      /\ sequentializer'.queued = options /\ sequentializer'.running = sequentializer.running
  BY <1>1 DEF IInv, TypeOK, SavingOK, Sequentializers
<1>5. /\ sequentializer.running = [id |-> save.version, cancel |-> slot]
      /\ IsRunning(sequentializer)
      /\ \A t \in Slots : t # slot => saves[t] = NoSave
  BY <1>1, BusySlot DEF IInv, TypeOK, SavingInv, SavingOK, save
<1>6. /\ saves' \in [Slots -> Saves] /\ saves'[slot] = new
      /\ \A t \in Slots : t # slot => saves'[t] = NoSave
  BY <1>2, <1>3, <1>5 DEF IInv, TypeOK, SavingOK
<1>7. \A s \in Slots : saves'[s].phase # "participants"
  BY <1>1, <1>3, <1>5, <1>6, NoSaveIs DEF IInv, TypeOK, SavingOK, save
<1>8. SavingOK'
  BY <1>1, <1>4, <1>5, <1>6, <1>7 DEF SavingOK, IsRunning
<1>9. OneSaveAtATime' /\ CancelledForOne'
  BY <1>1, <1>3, <1>4, <1>5, <1>6, <1>7, NoSaveIs DEF OneSaveAtATime, CancelledForOne
<1> QED
  BY <1>1, <1>3, <1>4, <1>5, <1>6, <1>8, <1>9 DEF SavingInv, save

LEMMA SaveStep ==
    ASSUME IInv, NEW options \in Options, Save(options) PROVE IInv'
<1>1. /\ UNCHANGED <<copy, undo, file, event, resolving>>
      /\ bounds' \in [Counted -> Nat]
      /\ Contents' = Contents /\ Copies' = Copies /\ Saves' = Saves
      /\ Resolves' = Resolves /\ Histories' = Histories /\ 0 \in Contents
      /\ history' \in Histories /\ history'.shown = history.shown
      /\ history'.reverted = history.reverted /\ history'.undone = history.undone
      /\ history'.written = history.written /\ history'.mistaken = history.mistaken
  BY SaveCounts
<1>2. SavingInv /\ copy \in Copies /\ copy.version \in Nat
  BY DEF IInv, TypeOK, SavingInv, Copies
<1>3. CASE UNCHANGED saving /\ history' = history
  <2> USE DEF saving
  <2>1. TypeOK'
    BY <1>1, <1>3 DEF IInv, TypeOK, SavingOK, ResolvingOK, resolving
  <2>2. OneSaveAtATime' /\ CancelledForOne' /\ AskedIsUnderWay' /\ ResolvesAlone'
    BY <1>1, <1>3 DEF IInv, OneSaveAtATime, CancelledForOne, AskedIsUnderWay, WillWrite, Decided,
       ResolvesAlone, resolving
  <2>3. TakenIsKnown' /\ OthersWriteNew' /\ RememberedIsSeen' /\ CleanIsKnown' /\ ChangedIsDirty'
    BY <1>1, <1>3 DEF IInv, TakenIsKnown, ResolveIsKnown, InFile, OthersWriteNew, RememberedIsSeen, IsKnown, KnewTheFile, InFile, CleanIsKnown,
       ChangedIsDirty, IgnoresDirty, resolving
  <2> QED
    BY <2>1, <2>2, <2>3 DEF IInv
<1>4. CASE /\ SavingBecomes(DoSave(copy, sequentializer, saves, ignoring, options))
           /\ options = "auto" /\ ~copy.dirty /\ history' = history
  <2>1. UNCHANGED saving
    <3>1. SavingBecomes({<<sequentializer, saves, ignoring>>})
      BY <1>4 DEF DoSave
    <3> QED
      BY <3>1, OneOutcome DEF saving
  <2> QED
    BY <1>3, <1>4, <2>1
<1>5. CASE /\ SavingBecomes(DoSave(copy, sequentializer, saves, ignoring, options))
           /\ ~(options = "auto" /\ ~copy.dirty) /\ history'.asked = copy.version
           /\ history'.overlapped = (history.overlapped \/ Overlaps)
           /\ history'.dropped = (history.dropped /\
                  (ignoring \/ IsRunningId(sequentializer, copy.version)))
  <2>1. ResolvesAlone'
    BY <1>1, <1>5 DEF IInv, ResolvesAlone, Overlaps, resolving
  <2>2. CASE UNCHANGED saving /\ (ignoring \/ IsRunningId(sequentializer, copy.version))
    <3> USE DEF saving
    <3>1. history'.dropped = history.dropped /\ (history.overlapped => history'.overlapped)
      BY <1>5, <2>2 DEF IInv, TypeOK, Histories
    <3>2. TypeOK' /\ OneSaveAtATime' /\ CancelledForOne'
      BY <1>1, <2>2, <3>1 DEF IInv, TypeOK, SavingOK, ResolvingOK, OneSaveAtATime,
         CancelledForOne, resolving
    <3>3. history.dropped \/ \E s \in Slots : WillWrite(s)'
      <4>1. CASE ignoring
        <5>1. PICK s \in Slots : saves[s].phase = "participants"
          BY <4>1 DEF IInv, TypeOK, SavingOK
        <5> QED
          BY <2>2, <5>1 DEF IInv, CancelledForOne, WillWrite, Decided
      <4>2. CASE IsRunningId(sequentializer, copy.version)
        <5>1. PICK s \in Slots : saves[s].phase # "none"
          BY <4>2 DEF IInv, OneSaveAtATime, IsRunningId
        <5>2. saves[s].version = copy.version
          BY <1>2, <4>2, <5>1, BusySlot DEF IsRunningId
        <5>3. saves[s].cancelled => history.dropped \/ sequentializer.queued # NoTask
          BY DEF IInv, CancelledForOne
        <5>4. saves[s] \in Saves
          BY DEF IInv, TypeOK, SavingOK
        <5> QED
          BY <1>2, <1>5, <2>2, <5>1, <5>2, <5>3, <5>4 DEF WillWrite, Saves, Decided
      <4> QED
        BY <2>2, <4>1, <4>2
    <3>4. AskedIsUnderWay'
      BY <1>1, <1>2, <1>5, <2>2, <3>1, <3>3 DEF IInv, AskedIsUnderWay
    <3>5. TakenIsKnown' /\ OthersWriteNew' /\ RememberedIsSeen' /\ CleanIsKnown' /\ ChangedIsDirty'
      BY <1>1, <2>2, <3>1 DEF IInv, TakenIsKnown, ResolveIsKnown, InFile, OthersWriteNew, RememberedIsSeen, IsKnown, KnewTheFile, InFile, CleanIsKnown,
         ChangedIsDirty, IgnoresDirty, resolving
    <3> QED
      BY <2>1, <3>2, <3>4, <3>5 DEF IInv
  <2>3. CASE ~IsRunning(sequentializer) /\ Starts(copy, options)
    <3>1. PICK slot \in Slots : StartsIn(slot, copy, options)
      BY <2>3 DEF Starts
    <3>2. FreshSaves(copy) /\ saves'[slot].phase \in {"delayed", "participants"}
      BY <1>1, <1>2, <3>1, StartsIsFresh
    <3>3. WillWrite(slot)'
      BY <3>2 DEF FreshSaves, WillWrite, Decided
    <3>4. TypeOK' /\ OneSaveAtATime' /\ CancelledForOne'
      BY <1>1, <3>2 DEF IInv, TypeOK, FreshSaves, SavingInv, ResolvingOK, resolving
    <3>5. AskedIsUnderWay'
      BY <1>1, <1>2, <1>5, <3>2, <3>3 DEF IInv, AskedIsUnderWay, FreshSaves
    <3>6. history.overlapped => history'.overlapped
      BY <1>5
    <3>7. TakenIsKnown'
      BY <1>1, <3>2 DEF IInv, TakenIsKnown, ResolveIsKnown, InFile, Decided, FreshSaves, resolving
    <3>8. OthersWriteNew' /\ RememberedIsSeen' /\ CleanIsKnown' /\ ChangedIsDirty'
      BY <1>1, <3>2, <3>6 DEF IInv, OthersWriteNew, RememberedIsSeen, IsKnown, KnewTheFile, InFile, CleanIsKnown, ChangedIsDirty,
         Decided, FreshSaves, IgnoresDirty, resolving
    <3> QED
      BY <2>1, <3>4, <3>5, <3>7, <3>8 DEF IInv
  <2>4. ASSUME NEW slot \in Slots, QueuesBehind(slot, options) PROVE IInv'
    <3>1. /\ SavingInv'
          /\ sequentializer'.queued = options
          /\ \A s \in Slots :
                /\ saves'[s].phase = saves[s].phase /\ saves'[s].version = saves[s].version
                /\ saves'[s].text = saves[s].text /\ saves'[s].mtime = saves[s].mtime
                /\ saves'[s].options = saves[s].options
          /\ saves'[slot].phase # "none"
      BY <1>1, <2>4, QueuesKeeps
    <3>2. WillWrite(slot)' /\ (options = "auto" => copy.dirty)
      BY <2>4, <3>1 DEF WillWrite, Decided, QueuesBehind
    <3>3. TypeOK' /\ OneSaveAtATime' /\ CancelledForOne'
      BY <1>1, <3>1 DEF IInv, TypeOK, SavingInv, ResolvingOK, resolving
    <3>4. AskedIsUnderWay'
      BY <1>1, <1>2, <1>5, <3>1, <3>2 DEF IInv, AskedIsUnderWay
    <3>5. history.overlapped => history'.overlapped
      BY <1>5
    <3>6. TakenIsKnown' /\ OthersWriteNew' /\ RememberedIsSeen' /\ CleanIsKnown' /\ ChangedIsDirty'
      BY <1>1, <3>1, <3>5 DEF IInv, TakenIsKnown, ResolveIsKnown, InFile, OthersWriteNew, RememberedIsSeen, IsKnown, KnewTheFile, InFile, CleanIsKnown,
         ChangedIsDirty, IgnoresDirty, resolving
    <3> QED
      BY <2>1, <3>3, <3>4, <3>6 DEF IInv
  <2> QED
    BY <1>2, <1>5, <2>2, <2>3, <2>4, DoSaveIs
<1> QED
  BY <1>3, <1>4, <1>5, SaveCounts

-----------------------------------------------------------------------------
(* The steps of reloads and reverts keep the invariant.                    *)

\* Nothing of a save that runs changes in the step, nor does the file.
LEMMA SavesGoOn ==
    ASSUME IInv, UNCHANGED <<file, saving>>, Saves' = Saves,
           history.dropped => history'.dropped
    PROVE  SavingOK' /\ OneSaveAtATime' /\ CancelledForOne'
BY DEF IInv, TypeOK, SavingOK, OneSaveAtATime, CancelledForOne, saving

\* A resolve that starts next begins with the working copy as it is.
LEMMA NextResolveKeeps ==
    ASSUME IInv, copy' \in Copies, Contents' = Contents, Resolves' = Resolves, Copies' = Copies,
           UNCHANGED saving, flags' \in Copies, 0 \in Contents,
           NEW kinds \in SUBSET {"reload", "revert"}, NextResolve(copy', kinds),
           "revert" \in kinds => history'.reverted /\ flags'.dirty
    PROVE  /\ ResolvingOK' /\ ResolveIsKnown' /\ ResolvesAlone'
           /\ resolve'.phase \in {"none", "reading"}
<1>1. CASE resolve' = NoResolve /\ waiting' = {}
  BY <1>1 DEF ResolvingOK, ResolveIsKnown, ResolvesAlone, NoResolve, Resolves
<1>2. CASE /\ resolve' \in Resolves' /\ resolve' # NoResolve
           /\ resolve'.phase = "reading" /\ resolve'.kind \in kinds
           /\ resolve'.version = copy'.version /\ resolve'.etag = copy'.mtime
           /\ waiting' \subseteq kinds /\ ~copy'.dirty /\ ~IsRunning(sequentializer)
  <2>1. copy'.version \in Nat /\ copy'.mtime \in Nat
    BY DEF Copies
  <2>2. ResolvingOK'
    BY <1>2 DEF ResolvingOK
  <2>3. ResolveIsKnown'
    BY <1>2, <2>1 DEF ResolveIsKnown
  <2>4. ResolvesAlone'
    BY <1>2 DEF ResolvesAlone, saving
  <2> QED
    BY <1>2, <2>2, <2>3, <2>4
<1> QED
  BY <1>1, <1>2, NextResolveIs

LEMMA HearFileChangeStep ==
    ASSUME IInv, HearFileChange PROVE IInv'
<1>1. /\ event' = FALSE /\ UNCHANGED <<copy, undo, file, saving, flags, bounds, history>>
      /\ Contents' = Contents /\ Copies' = Copies /\ Saves' = Saves /\ Resolves' = Resolves
      /\ Histories' = Histories /\ 0 \in Contents
  BY TypesStay DEF HearFileChange
<1>2. /\ copy \in Copies /\ copy.version \in Nat /\ copy.mtime \in Nat /\ flags \in Copies
  BY DEF IInv, TypeOK, Copies, ResolvingOK
<1>3. SavingOK' /\ OneSaveAtATime' /\ CancelledForOne'
  BY <1>1, SavesGoOn
<1>4. /\ ResolvingOK' /\ ResolveIsKnown' /\ ResolvesAlone'
      /\ resolve'.phase = "updating" <=> resolve.phase = "updating"
  <2>1. CASE copy.dirty \/ resolve # NoResolve
    <3>1. resolve' = resolve /\ (waiting' = waiting \/
             (resolve # NoResolve /\ waiting' = waiting \cup {"reload"}))
      BY <2>1 DEF HearFileChange, Ask
    <3> QED
      BY <1>1, <3>1 DEF IInv, TypeOK, ResolvingOK, ResolveIsKnown, ResolvesAlone, TakenIsKnown, saving
  <2>2. CASE ~copy.dirty /\ resolve = NoResolve
    <3>1. NextResolve(copy', {"reload"})
      BY <1>1, <2>2 DEF HearFileChange, Ask
    <3>2. resolve.phase = "none"
      BY <2>2 DEF NoResolve
    <3> QED
      BY <1>1, <1>2, <3>1, <3>2, NextResolveKeeps
  <2> QED
    BY <2>1, <2>2
<1>5. TypeOK'
  BY <1>1, <1>3, <1>4 DEF IInv, TypeOK
<1>6. AskedIsUnderWay' /\ ChangedIsDirty'
  BY <1>1 DEF IInv, AskedIsUnderWay, WillWrite, Decided, ChangedIsDirty, saving
<1>7. TakenIsKnown'
  BY <1>1, <1>4 DEF IInv, TakenIsKnown, ResolveIsKnown, InFile, saving
<1>8. OthersWriteNew' /\ RememberedIsSeen' /\ CleanIsKnown'
  BY <1>1, <1>4 DEF IInv, OthersWriteNew, RememberedIsSeen, IsKnown, KnewTheFile, InFile, CleanIsKnown, IgnoresDirty, saving
<1> QED
  BY <1>3, <1>4, <1>5, <1>6, <1>7, <1>8 DEF IInv

LEMMA ReadStep ==
    ASSUME IInv, Read PROVE IInv'
<1>1. /\ UNCHANGED <<copy, undo, file, event, saving, waiting, flags, bounds, history>>
      /\ Contents' = Contents /\ Copies' = Copies /\ Saves' = Saves /\ Resolves' = Resolves
      /\ Histories' = Histories
  BY TypesStay DEF Read
<1>2. SavingOK' /\ OneSaveAtATime' /\ CancelledForOne'
  BY <1>1, SavesGoOn
<1> DEFINE mtime == Len(file)
           phase == IF resolve.etag = mtime THEN "notModified" ELSE "read"
<1>3. resolve' = [resolve EXCEPT !.phase = phase, !.mtime = mtime]
  BY DEF Read
<1>4. /\ mtime \in Nat /\ mtime \in DOMAIN file
      /\ copy.mtime <= mtime /\ copy.mtime \in Nat
  BY FileIs
<1>5. phase \in {"notModified", "read"} /\ (phase = "notModified" => resolve.etag = mtime)
  OBVIOUS
<1>6. resolve.phase = "reading" /\ resolve \in Resolves
  BY DEF Read, IInv, TypeOK, ResolvingOK
<1> HIDE DEF mtime, phase
<1>7. /\ resolve' \in Resolves /\ resolve'.phase = phase
      /\ resolve'.mtime = mtime /\ resolve'.kind = resolve.kind /\ resolve'.etag = resolve.etag
      /\ resolve'.version = resolve.version
  BY <1>3, <1>4, <1>5, <1>6 DEF Resolves
<1>8. resolve # NoResolve /\ resolve' # NoResolve
  BY <1>5, <1>6, <1>7 DEF NoResolve
<1>9. ResolvingOK' /\ TypeOK'
  BY <1>1, <1>2, <1>5, <1>7, <1>8 DEF IInv, TypeOK, ResolvingOK
<1>10. AskedIsUnderWay' /\ ChangedIsDirty'
  BY <1>1 DEF IInv, AskedIsUnderWay, WillWrite, Decided, ChangedIsDirty, saving
<1>11. TakenIsKnown'
  BY <1>1, <1>4, <1>5, <1>7, <1>8 DEF IInv, TakenIsKnown, ResolveIsKnown, InFile, saving
<1>12. ResolvesAlone'
  BY <1>1, <1>4, <1>5, <1>7, <1>8 DEF IInv, ResolvesAlone, saving
<1>13. OthersWriteNew' /\ RememberedIsSeen' /\ CleanIsKnown'
  BY <1>1, <1>6 DEF IInv, OthersWriteNew, RememberedIsSeen, IsKnown, KnewTheFile, InFile, CleanIsKnown, IgnoresDirty, saving
<1> QED
  BY <1>2, <1>9, <1>10, <1>11, <1>12, <1>13 DEF IInv

LEMMA NotModifiedStep ==
    ASSUME IInv, NotModified PROVE IInv'
<1>1. /\ UNCHANGED <<undo, file, event, saving, flags, bounds, history>>
      /\ Contents' = Contents /\ Copies' = Copies /\ Saves' = Saves /\ Resolves' = Resolves
      /\ Histories' = Histories /\ 0 \in Contents
  BY TypesStay DEF NotModified
<1>2. SavingOK' /\ OneSaveAtATime' /\ CancelledForOne'
  BY <1>1, SavesGoOn
<1>3. /\ resolve.phase = "notModified" /\ resolve \in Resolves /\ copy \in Copies
      /\ copy.mtime \in Nat /\ resolve.mtime \in Nat /\ flags \in Copies
  BY DEF NotModified, IInv, TypeOK, ResolvingOK, Copies, Resolves
<1>4. resolve.mtime <= copy.mtime
  BY <1>3 DEF IInv, TakenIsKnown, ResolveIsKnown, NoResolve
<1>5. /\ copy' \in Copies /\ copy'.text = copy.text /\ copy'.version = copy.version
      /\ copy'.dirty = copy.dirty /\ copy'.saved = copy.saved /\ copy'.mtime = copy.mtime
  <2>1. copy' = Resolved(copy, resolve.mtime)
    BY DEF NotModified
  <2>2. /\ Resolved(copy, resolve.mtime) \in Copies
        /\ Resolved(copy, resolve.mtime).text = copy.text
        /\ Resolved(copy, resolve.mtime).version = copy.version
        /\ Resolved(copy, resolve.mtime).dirty = copy.dirty
        /\ Resolved(copy, resolve.mtime).saved = copy.saved
        /\ Resolved(copy, resolve.mtime).mtime =
               IF copy.mtime <= resolve.mtime THEN resolve.mtime ELSE copy.mtime
    BY ONLY <1>3, ResolvedIs
  <2> QED
    BY <1>3, <1>4, <2>1, <2>2
<1>6. /\ ResolvingOK' /\ ResolveIsKnown' /\ ResolvesAlone'
      /\ resolve'.phase \in {"none", "reading"}
  BY <1>1, <1>3, <1>5, NextResolveKeeps DEF NotModified, IInv, TypeOK, ResolvingOK, TakenIsKnown, ResolveIsKnown, InFile
<1>7. TypeOK'
  BY <1>1, <1>2, <1>5, <1>6 DEF IInv, TypeOK
<1>8. AskedIsUnderWay' /\ ChangedIsDirty'
  BY <1>1, <1>5 DEF IInv, AskedIsUnderWay, WillWrite, Decided, ChangedIsDirty, saving
<1>9. TakenIsKnown'
  BY <1>1, <1>5, <1>6 DEF IInv, TakenIsKnown, ResolveIsKnown, InFile, saving
<1>10. OthersWriteNew' /\ RememberedIsSeen' /\ CleanIsKnown'
  BY <1>1, <1>3, <1>5 DEF IInv, OthersWriteNew, RememberedIsSeen, IsKnown, KnewTheFile, InFile, CleanIsKnown, IgnoresDirty, saving
<1> QED
  BY <1>2, <1>6, <1>7, <1>8, <1>9, <1>10 DEF IInv

LEMMA ReadFailsStep ==
    ASSUME IInv, ReadFails PROVE IInv'
<1>1. /\ UNCHANGED <<undo, file, event, saving, flags>>
      /\ resolve.phase = "reading" \/ resolve.phase = "updating"
      /\ history' \in Histories /\ history'.shown = history.shown
      /\ history'.overlapped = history.overlapped /\ history'.dropped = history.dropped
      /\ history'.reverted = history.reverted /\ history'.undone = history.undone
      /\ history'.asked = history.asked /\ history'.written = history.written
      /\ history'.mistaken = (history.mistaken \/ resolve.phase = "updating")
  BY DEF ReadFails, IInv, TypeOK, Histories, IgnoresDirty
<1>2. bounds' \in [Counted -> Nat] /\ Contents' = Contents /\ 0 \in Contents
  <2>1. Counts("failures", MaxFailures) /\ bounds \in [Counted -> Nat]
    BY DEF ReadFails, Fails, IInv, TypeOK
  <2> QED
    BY <2>1, CountsIs DEF Contents, Counted
<1>3. Copies' = Copies /\ Saves' = Saves /\ Resolves' = Resolves /\ Histories' = Histories
  BY <1>2 DEF Copies, Saves, Decided, Resolves, Histories
<1>4. SavingOK' /\ OneSaveAtATime' /\ CancelledForOne'
  BY <1>1, <1>3, SavesGoOn
<1>5. copy \in Copies /\ flags \in Copies
  BY DEF IInv, TypeOK, ResolvingOK
<1>6. /\ copy' \in Copies /\ copy'.text = copy.text /\ copy'.version = copy.version
      /\ copy'.mtime = copy.mtime
      /\ \/ copy' = copy
         \/ history.reverted /\ copy'.dirty = TRUE
  <2>1. CASE resolve.kind = "reload"
    BY <1>5, <2>1 DEF ReadFails
  <2>2. CASE resolve.kind # "reload"
    <3>1. resolve.kind = "revert"
      BY <2>2 DEF IInv, TypeOK, ResolvingOK, Resolves
    <3>2. history.reverted /\ flags.dirty = TRUE
      BY <1>5, <3>1 DEF IInv, TakenIsKnown, ResolveIsKnown, Copies
    <3>3. copy' = [copy EXCEPT !.dirty = flags.dirty, !.conflict = flags.conflict,
                               !.error = flags.error, !.saved = flags.saved]
      BY <2>2 DEF ReadFails
    <3> QED
      BY <1>5, <3>2, <3>3 DEF Copies
  <2> QED
    BY <2>1, <2>2
<1>7. /\ ResolvingOK' /\ ResolveIsKnown' /\ ResolvesAlone'
      /\ resolve'.phase \in {"none", "reading"}
  BY <1>1, <1>2, <1>3, <1>5, <1>6, NextResolveKeeps DEF ReadFails, IInv, TypeOK, ResolvingOK, TakenIsKnown, ResolveIsKnown, InFile
<1>8. TypeOK'
  BY <1>1, <1>2, <1>3, <1>4, <1>6, <1>7 DEF IInv, TypeOK
<1>9. AskedIsUnderWay' /\ ChangedIsDirty'
  BY <1>1, <1>6 DEF IInv, AskedIsUnderWay, WillWrite, Decided, ChangedIsDirty, saving
<1>10. TakenIsKnown'
  <2>1. saves' = saves /\ file' = file /\ (~history'.mistaken => ~history.mistaken)
    BY <1>1 DEF saving
  <2>2. \A s \in Slots : saves[s].phase \in Decided =>
            /\ saves[s].mtime \in DOMAIN file \/ (saves[s].mtime = 0 /\ saves[s].phase \notin
                                                     {"snapshot", "writing", "comparing", "written"})
            /\ saves[s].text \in history.shown
            /\ saves[s].version = copy.version => saves[s].text = copy.text
            /\ saves[s].phase \in {"wrote", "written"} => InFile(saves[s].text)
            /\ saves[s].phase = "written" /\ ~history.mistaken => file[saves[s].mtime] = saves[s].text
    BY DEF IInv, TakenIsKnown
  <2>3. copy'.mtime \in DOMAIN file /\ copy'.text \in history'.shown
    BY <1>1, <1>6 DEF IInv, TakenIsKnown
  <2> QED
    BY <1>1, <1>6, <1>7, <2>1, <2>2, <2>3 DEF TakenIsKnown, InFile
<1>11. OthersWriteNew' /\ RememberedIsSeen' /\ CleanIsKnown'
  BY <1>1, <1>6 DEF IInv, OthersWriteNew, RememberedIsSeen, IsKnown, KnewTheFile, InFile, CleanIsKnown, IgnoresDirty, saving
<1> QED
  BY <1>4, <1>7, <1>8, <1>9, <1>10, <1>11 DEF IInv

LEMMA ReadEndsStep ==
    ASSUME IInv, ReadEnds PROVE IInv'
<1>1. /\ UNCHANGED <<undo, file, event, saving, flags, bounds, history>>
      /\ Contents' = Contents /\ Copies' = Copies /\ Saves' = Saves /\ Resolves' = Resolves
      /\ Histories' = Histories /\ 0 \in Contents
  BY TypesStay DEF ReadEnds
<1>2. SavingOK' /\ OneSaveAtATime' /\ CancelledForOne'
  BY <1>1, SavesGoOn
<1>3. /\ resolve.phase = "read" /\ resolve \in Resolves /\ copy \in Copies /\ flags \in Copies
      /\ copy.mtime \in Nat /\ resolve.mtime \in Nat /\ resolve # NoResolve
  BY DEF ReadEnds, IInv, TypeOK, ResolvingOK, Copies, Resolves, NoResolve
<1>4. CASE resolve.version # copy.version
  <2>1. copy' = copy /\ NextResolve(copy', waiting)
    BY <1>4 DEF ReadEnds
  <2>2. /\ ResolvingOK' /\ ResolveIsKnown' /\ ResolvesAlone'
        /\ resolve'.phase \in {"none", "reading"}
    BY <1>1, <1>3, <2>1, NextResolveKeeps DEF IInv, TypeOK, ResolvingOK, TakenIsKnown, ResolveIsKnown, InFile
  <2>3. TypeOK'
    BY <1>1, <1>2, <2>1, <2>2 DEF IInv, TypeOK
  <2>4. AskedIsUnderWay' /\ ChangedIsDirty'
    BY <1>1, <2>1 DEF IInv, AskedIsUnderWay, WillWrite, Decided, ChangedIsDirty, saving
  <2>5. TakenIsKnown'
    BY <1>1, <2>1, <2>2 DEF IInv, TakenIsKnown, ResolveIsKnown, InFile, saving
  <2>6. OthersWriteNew' /\ RememberedIsSeen' /\ CleanIsKnown'
    BY <1>1, <1>3, <2>1 DEF IInv, OthersWriteNew, RememberedIsSeen, IsKnown, KnewTheFile, InFile, CleanIsKnown, IgnoresDirty, saving
  <2> QED
    BY <1>2, <2>2, <2>3, <2>4, <2>5, <2>6 DEF IInv
<1>5. CASE resolve.version = copy.version
  <2>1. /\ copy' = Resolved(copy, resolve.mtime) /\ waiting' = waiting
        /\ resolve' = [resolve EXCEPT !.phase = "updating"]
    BY <1>5 DEF ReadEnds
  <2>2. /\ copy' \in Copies /\ copy'.text = copy.text /\ copy'.version = copy.version
        /\ copy'.dirty = copy.dirty /\ copy'.saved = copy.saved
        /\ copy'.mtime = IF copy.mtime <= resolve.mtime THEN resolve.mtime ELSE copy.mtime
    BY <1>3, <2>1, ResolvedIs
  <2>3. /\ resolve' \in Resolves /\ resolve'.phase = "updating"
        /\ resolve'.mtime = resolve.mtime /\ resolve'.kind = resolve.kind
        /\ resolve'.etag = resolve.etag /\ resolve'.version = resolve.version
    BY <1>3, <2>1 DEF Resolves
  <2>4. resolve' # NoResolve
    BY <2>3 DEF NoResolve
  <2>5. TypeOK'
    BY <1>1, <1>2, <2>1, <2>2, <2>3, <2>4 DEF IInv, TypeOK, ResolvingOK
  <2>6. AskedIsUnderWay' /\ ChangedIsDirty'
    BY <1>1, <2>2 DEF IInv, AskedIsUnderWay, WillWrite, Decided, ChangedIsDirty, saving
  <2>7. TakenIsKnown'
    <3>1. resolve.etag <= copy'.mtime /\ copy'.mtime \in DOMAIN file
      BY <1>3, <2>2 DEF IInv, TakenIsKnown, ResolveIsKnown, Resolves
    <3> QED
      BY <1>1, <1>3, <2>1, <2>2, <2>3, <2>4, <3>1 DEF IInv, TakenIsKnown, ResolveIsKnown, InFile, saving
  <2>8. ResolvesAlone'
    BY <1>1, <1>3, <1>5, <2>2, <2>3, <2>4 DEF IInv, ResolvesAlone, saving
  <2>9. OthersWriteNew' /\ RememberedIsSeen'
    <3>1. ~history.overlapped => \A s \in Slots : saves[s].phase = "none"
      BY <1>3, <1>5, BusyIsAlone
    <3> QED
      BY <1>1, <2>2, <2>3, <3>1 DEF IInv, OthersWriteNew, RememberedIsSeen, IsKnown, KnewTheFile, InFile, saving
  <2>10. CleanIsKnown'
    BY <2>3 DEF CleanIsKnown, IgnoresDirty
  <2> QED
    BY <1>2, <2>5, <2>6, <2>7, <2>8, <2>9, <2>10 DEF IInv
<1> QED
  BY <1>4, <1>5

LEMMA UpdateStep ==
    ASSUME IInv, Update PROVE IInv'
<1>0. PICK i \in resolve.mtime..Len(file) : copy' = SetClean(ContentChanged(file[i]))
  BY DEF Update
<1> DEFINE text == file[i]
           changed == ContentChanged(text)
<1>1. /\ UNCHANGED <<file, event, saving, flags, bounds>> /\ undo' = <<>>
      /\ Contents' = Contents /\ Copies' = Copies /\ Saves' = Saves /\ Resolves' = Resolves
      /\ Histories' = Histories /\ 0 \in Contents
  BY TypesStay DEF Update
<1>2. /\ resolve.phase = "updating" /\ resolve \in Resolves /\ resolve # NoResolve
      /\ copy \in Copies /\ flags \in Copies /\ copy.version \in Nat /\ copy.mtime \in Nat
  BY DEF Update, IInv, TypeOK, ResolvingOK, Copies, Resolves, NoResolve
<1>2a. i \in DOMAIN file /\ text \in Contents
  <2>1. resolve.mtime \in DOMAIN file
    BY <1>2 DEF IInv, TakenIsKnown, ResolveIsKnown
  <2> QED
    BY <2>1, FileIs
<1> HIDE DEF text
<1>3. /\ changed \in CopiesWith(Contents) /\ changed.text = text
      /\ changed.version = copy.version + 1 /\ changed.mtime = copy.mtime
  BY <1>2, <1>2a, CopiesAre, ContentChangedIs
<1>4. copy' = SetClean(changed) /\ NextResolve(copy', waiting)
  BY <1>0 DEF Update, text
<1> HIDE DEF changed
<1>5. /\ copy' \in Copies /\ copy'.text = text /\ copy'.version = copy.version + 1
      /\ copy'.mtime = copy.mtime /\ copy'.saved = text /\ copy'.dirty = FALSE
  BY <1>3, <1>4, CopiesAre, SetCleanIs
<1>6. /\ history' \in Histories /\ history'.shown = history.shown \cup {text}
      /\ history'.overlapped = history.overlapped /\ history'.dropped = history.dropped
      /\ history'.reverted = history.reverted /\ history'.undone = history.undone
      /\ history'.asked = history.asked /\ history'.written = history.written
      /\ history'.mistaken = history.mistaken
  BY <1>2, <1>5, <1>2a DEF Update, IInv, TypeOK, Histories
<1>7. SavingOK' /\ OneSaveAtATime' /\ CancelledForOne'
  BY <1>1, <1>6, SavesGoOn
<1>8. /\ ResolvingOK' /\ ResolveIsKnown' /\ ResolvesAlone'
      /\ resolve'.phase \in {"none", "reading"}
  BY <1>1, <1>2, <1>4, <1>5, <1>6, NextResolveKeeps DEF IInv, TypeOK, ResolvingOK, TakenIsKnown, ResolveIsKnown, InFile
<1>9. TypeOK'
  BY <1>1, <1>5, <1>6, <1>7, <1>8 DEF IInv, TypeOK
<1>10. /\ ~history.overlapped => /\ \A s \in Slots : saves[s].phase = "none"
                                 /\ ~IsRunning(sequentializer) /\ copy.mtime = resolve.mtime
       /\ resolve.mtime \in DOMAIN file
  BY <1>2, BusyIsAlone DEF IInv, ResolvesAlone, TakenIsKnown, ResolveIsKnown
<1>11. AskedIsUnderWay'
  <2>1. \A s \in Slots : saves[s].version \in Nat
    BY DEF IInv, TypeOK, SavingOK, Saves, Decided
  <2>2. sequentializer.queued = "auto" => history.overlapped
    BY <1>10 DEF IInv, TypeOK, SavingOK
  <2>3. history.asked \in Nat /\ history.written \in Nat
    BY DEF IInv, TypeOK, Histories
  <2>4. \A s \in Slots : WillWrite(s) => WillWrite(s)'
    BY <1>1, <1>6 DEF WillWrite, saving
  <2> QED
    BY <1>1, <1>2, <1>5, <1>6, <2>1, <2>2, <2>3, <2>4 DEF IInv, AskedIsUnderWay, saving
<1>12. TakenIsKnown'
  <2>1. \A s \in Slots : saves[s].phase \in Decided => saves[s].version # copy'.version
    BY <1>2, <1>5 DEF IInv, TypeOK, SavingOK, Saves, AskedIsUnderWay, Decided
  <2> QED
    BY <1>1, <1>5, <1>6, <1>8, <2>1 DEF IInv, TakenIsKnown, ResolveIsKnown, InFile, saving
<1>13. OthersWriteNew'
  BY <1>1, <1>6 DEF IInv, OthersWriteNew
<1>14. RememberedIsSeen'
  <2>1. SUFFICES ASSUME ~history.overlapped PROVE RememberedIsSeen'
    BY <1>6 DEF RememberedIsSeen
  <2>2. copy'.mtime < Len(file) \/ file[copy'.mtime] \in history'.shown
    <3>1. CASE copy'.mtime < Len(file)
      BY <3>1
    <3>2. CASE ~(copy'.mtime < Len(file))
      <4>1. i = copy'.mtime
        BY <1>0, <1>2, <1>5, <1>10, <2>1, <3>2, FileIs
      <4> QED
        BY <1>6, <4>1 DEF text
    <3> QED
      BY <3>1, <3>2
  <2>3. \E j \in DOMAIN file : file[j] = copy'.saved
    BY <1>5, <1>2a DEF text
  <2>4. \A s \in Slots : saves'[s].phase = "none"
    BY <1>1, <1>10, <2>1 DEF saving
  <2> QED
    BY <1>1, <1>5, <2>2, <2>3, <2>4 DEF RememberedIsSeen, IsKnown, InFile
<1>15. CleanIsKnown'
  <2>1. SUFFICES ASSUME ~history.overlapped PROVE \E j \in copy'.mtime..Len(file) : copy'.text = file[j]
    BY <1>1, <1>6 DEF CleanIsKnown
  <2> QED
    BY <1>0, <1>5, <1>10, <2>1 DEF text
<1>16. ChangedIsDirty'
  BY <1>1, <1>5, <1>6, <1>10 DEF ChangedIsDirty, Decided, saving
<1> QED
  BY <1>7, <1>8, <1>9, <1>11, <1>12, <1>13, <1>14, <1>15, <1>16 DEF IInv

LEMMA RevertStep ==
    ASSUME IInv, NEW soft \in BOOLEAN, Revert(soft) PROVE IInv'
<1>1. UNCHANGED <<undo, file, event, saving>> /\ flags' = copy /\ copy' = SetClean(copy)
  BY DEF Revert
<1>2. bounds' \in [Counted -> Nat] /\ Contents' = Contents /\ 0 \in Contents
  <2>1. Counts("reverts", MaxReverts) /\ bounds \in [Counted -> Nat]
    BY DEF Revert, IInv, TypeOK
  <2> QED
    BY <2>1, CountsIs DEF Contents, Counted
<1>3. Copies' = Copies /\ Saves' = Saves /\ Resolves' = Resolves /\ Histories' = Histories
  BY <1>2 DEF Copies, Saves, Decided, Resolves, Histories
<1>4. copy \in Copies /\ copy.dirty = TRUE /\ copy.version \in Nat
  BY DEF Revert, IInv, TypeOK, Copies
<1>5. /\ copy' \in Copies /\ copy'.text = copy.text /\ copy'.version = copy.version
      /\ copy'.mtime = copy.mtime /\ copy'.saved = copy.text /\ copy'.dirty = FALSE
  BY <1>1, <1>4, CopiesAre, SetCleanIs
<1>6. /\ history' \in Histories /\ history'.shown = history.shown
      /\ history'.overlapped = history.overlapped /\ history'.dropped
      /\ history'.reverted /\ history'.undone = history.undone
      /\ history'.asked = history.asked /\ history'.written = history.written
      /\ history'.mistaken = history.mistaken
  BY DEF Revert, IInv, TypeOK, Histories
<1>7. SavingOK' /\ OneSaveAtATime' /\ CancelledForOne'
  BY <1>1, <1>3, <1>6, SavesGoOn
<1>8. /\ ResolvingOK' /\ ResolveIsKnown' /\ ResolvesAlone'
      /\ resolve'.phase = "updating" <=> resolve.phase = "updating"
  <2>1. CASE soft \/ resolve # NoResolve
    <3>1. resolve' = resolve /\ (waiting' = waiting \/
             (resolve # NoResolve /\ waiting' = waiting \cup {"revert"}))
      BY <2>1 DEF Revert, Ask
    <3>2. ResolvingOK'
      BY <1>1, <1>3, <1>4, <3>1 DEF IInv, TypeOK, ResolvingOK
    <3>3. ResolveIsKnown'
      BY <1>1, <1>4, <1>5, <1>6, <3>1 DEF IInv, TakenIsKnown, ResolveIsKnown, InFile
    <3>4. ResolvesAlone'
      BY <1>1, <1>5, <1>6, <3>1 DEF IInv, ResolvesAlone, saving
    <3> QED
      BY <3>1, <3>2, <3>3, <3>4
  <2>2. CASE ~soft /\ resolve = NoResolve
    <3>1. NextResolve(copy', {"revert"})
      BY <2>2 DEF Revert, Ask
    <3>2. resolve.phase = "none"
      BY <2>2 DEF NoResolve
    <3> QED
      BY <1>1, <1>2, <1>3, <1>4, <1>5, <1>6, <3>1, <3>2, NextResolveKeeps
  <2> QED
    BY <2>1, <2>2
<1>9. TypeOK'
  BY <1>1, <1>2, <1>3, <1>5, <1>6, <1>7, <1>8 DEF IInv, TypeOK
<1>10. AskedIsUnderWay'
  BY <1>1, <1>5, <1>6 DEF IInv, AskedIsUnderWay, saving
<1>11. TakenIsKnown'
  BY <1>1, <1>5, <1>6, <1>8 DEF IInv, TakenIsKnown, ResolveIsKnown, InFile, saving
<1>12. OthersWriteNew' /\ RememberedIsSeen' /\ CleanIsKnown' /\ ChangedIsDirty'
  BY <1>1, <1>5, <1>6, <1>8 DEF IInv, OthersWriteNew, RememberedIsSeen, IsKnown, KnewTheFile, CleanIsKnown, ChangedIsDirty, saving
<1> QED
  BY <1>7, <1>8, <1>9, <1>10, <1>11, <1>12 DEF IInv

-----------------------------------------------------------------------------
(* The invariant, and what follows from it.                                *)

LEMMA InitInvariant ==
    ASSUME Init PROVE IInv
<1> USE DEF Init
<1>1. /\ copy \in Copies /\ copy.text = 0 /\ copy.saved = 0 /\ copy.version = 0
      /\ copy.mtime = 1 /\ copy.dirty = FALSE
  BY DEF Copies, Contents, Counted
<1>2. file = <<0>> /\ undo = <<>> /\ file \in Seq(Contents) /\ DOMAIN file = 1..1 /\ file[1] = 0
  BY DEF Contents, Counted
<1>3. /\ sequentializer \in Sequentializers(Nat, Slots, Options)
      /\ sequentializer.queued = NoTask /\ ~IsRunning(sequentializer)
  BY DEF NewSequentializer, Sequentializers, IsRunning
<1>4. saves \in [Slots -> Saves] /\ \A s \in Slots : saves[s] = NoSave
  BY DEF NoSave, Saves, Decided, Contents, Counted
<1>5. resolve \in Resolves /\ resolve = NoResolve /\ resolve.phase = "none" /\ resolve.kind = "reload"
  BY DEF NoResolve, Resolves, Contents, Counted
<1>6. /\ history \in Histories /\ history.asked = 0 /\ history.written = 0
      /\ history.shown = {0}
  BY DEF Histories, Contents, Counted
<1>7. bounds \in [Counted -> Nat] /\ flags = copy /\ waiting = {} /\ event = FALSE /\ ignoring = FALSE
  OBVIOUS
<1> HIDE DEF Init
<1>8. TypeOK
  <2>1. undo \in Seq(Contents)
    BY <1>2, EmptySeq
  <2>2. SavingOK /\ ResolvingOK
    BY <1>1, <1>3, <1>4, <1>5, <1>7, NoSaveIs DEF SavingOK, ResolvingOK
  <2> QED
    BY <1>1, <1>2, <1>6, <1>7, <2>1, <2>2 DEF TypeOK
<1>9. OneSaveAtATime /\ CancelledForOne /\ ResolvesAlone
  BY <1>3, <1>4, <1>5, NoSaveIs DEF OneSaveAtATime, CancelledForOne, ResolvesAlone
<1>10. AskedIsUnderWay
  BY <1>1, <1>3, <1>4, <1>6, NoSaveIs DEF AskedIsUnderWay
<1>11. TakenIsKnown
  BY <1>1, <1>2, <1>4, <1>5, <1>6, <1>7, NoSaveIs DEF TakenIsKnown, ResolveIsKnown, Decided
<1>12. OthersWriteNew /\ RememberedIsSeen /\ CleanIsKnown /\ ChangedIsDirty
  BY <1>1, <1>2, <1>4, <1>6, NoSaveIs DEF OthersWriteNew, RememberedIsSeen, IsKnown, InFile, CleanIsKnown, ChangedIsDirty, Decided
<1> QED
  BY <1>8, <1>9, <1>10, <1>11, <1>12 DEF IInv

LEMMA NextInvariant ==
    ASSUME IInv, [Next]_vars PROVE IInv'
<1>1. ASSUME NEW slot \in Slots, SaveRuns(slot) PROVE IInv'
  BY <1>1, DelayEndsStep, ParticipantsEndStep, SnapshotEndsStep, CheckStep, CompareStep, WriteStep, StatStep,
     SaveSucceedsStep, SaveFailsStep DEF SaveRuns
<1>2. ASSUME ResolveRuns PROVE IInv'
  BY <1>2, HearFileChangeStep, ReadStep, ReadFailsStep, NotModifiedStep, ReadEndsStep, UpdateStep
  DEF ResolveRuns
<1>3. CASE UNCHANGED vars
  <2>1. /\ UNCHANGED <<copy, undo, file, event, sequentializer, saves, ignoring, resolve, waiting>>
        /\ UNCHANGED <<flags, bounds, history>>
    BY <1>3 DEF vars
  <2>2. TypeOK'
    BY <2>1, TypesStay DEF IInv, TypeOK, SavingOK, ResolvingOK
  <2>3. OneSaveAtATime' /\ CancelledForOne' /\ AskedIsUnderWay' /\ TakenIsKnown'
    BY <2>1 DEF IInv, OneSaveAtATime, CancelledForOne, AskedIsUnderWay, WillWrite, Decided, TakenIsKnown, ResolveIsKnown, InFile
  <2>4. ResolvesAlone' /\ OthersWriteNew' /\ RememberedIsSeen' /\ CleanIsKnown' /\ ChangedIsDirty'
    BY <2>1 DEF IInv, ResolvesAlone, OthersWriteNew, RememberedIsSeen, IsKnown, KnewTheFile, InFile, CleanIsKnown, ChangedIsDirty, IgnoresDirty
  <2> QED
    BY <2>2, <2>3, <2>4 DEF IInv
<1> QED
  BY <1>1, <1>2, <1>3, EditStep, UndoStep, FileChangesStep, SaveStep, RevertStep, CancelSaveStep
  DEF Next

\* In every reachable state one save executes at a time, what was asked for is under
\* way, and what saves and resolves took along across their awaits fits the working copy
\* and the file: but for the overlaps and the mistaken stats that history notes, which the
\* code allows, a file that a save may pass over without a conflict has been shown.
THEOREM WorkingCopyInvariant == Spec => []IInv
<1>1. Init => IInv
  BY InitInvariant
<1>2. IInv /\ [Next]_vars => IInv'
  BY NextInvariant
<1> QED
  BY <1>1, <1>2, PTL DEF Spec

\* "Never ever must 2 saves execute at the same time" (storedFileWorkingCopy.ts), whatever
\* cancels, queues or delays them.
THEOREM OneSaveExecutes == Spec => []OneSaveAtATime
<1>1. IInv => OneSaveAtATime
  BY DEF IInv
<1> QED
  BY <1>1, WorkingCopyInvariant, PTL

\* A clean working copy shows what its file held at the time it remembers or has held
\* since, unless it was undone, reverted or changed while a resolve of it ran, or a stat
\* was remembered of contents that another program wrote or that could not be read.
THEOREM CleanWorkingCopies == Spec => []CleanIsKnown
<1>1. IInv => CleanIsKnown
  BY DEF IInv
<1> QED
  BY <1>1, WorkingCopyInvariant, PTL

\* With nothing that runs, the last save that was called for has been written, unless the
\* user or an error dropped it or it overlapped with a resolve.
THEOREM SavesHonoured == Spec => []SavesAreHonoured
<1>1. IInv => SavesAreHonoured
  <2>1. SUFFICES ASSUME IInv, ~IsRunning(sequentializer) PROVE SavesAreHonoured
    BY DEF SavesAreHonoured
  <2>2. \A s \in Slots : saves[s].phase = "none"
    BY <2>1, FreeSlots, NoSaveIs DEF IInv, TypeOK, SavingInv, Idle
  <2> QED
    BY <2>1, <2>2 DEF IInv, AskedIsUnderWay, WillWrite, Decided, SavesAreHonoured
<1> QED
  BY <1>1, WorkingCopyInvariant, PTL

\* validateWriteFile lets a save write only when it saw contents that had been shown, or
\* was asked to overwrite them, or could not look; unless the version was saved during a
\* resolve, or a stat was taken of what another program wrote after a save, or of contents
\* that could not be read.  What the file holds when it is written is another matter.
THEOREM OverwritesWhatIsKnown == Spec => SavesKnowTheFile
<1> DEFINE Known ==
        \A slot \in Slots :
            Write(slot) /\ file' # file =>
                KnewTheFile(slot) \/ history.overlapped \/ history.mistaken
<1>1. IInv /\ [Next]_vars => [Known]_vars
  <2>1. SUFFICES ASSUME IInv, NEW slot \in Slots, Write(slot),
                        ~history.overlapped, ~history.mistaken
                 PROVE  KnewTheFile(slot)
    OBVIOUS
  <2>2. saves[slot].phase = "checked"
    BY <2>1 DEF Write, At
  <2> QED
    BY <2>1, <2>2 DEF IInv, RememberedIsSeen
<1>2. Spec => [][Known]_vars
  BY <1>1, WorkingCopyInvariant, PTL DEF Spec
<1> QED
  BY <1>2 DEF SavesKnowTheFile

\* A reload replaces the model only when what it shows has been in the file.
THEOREM ReloadsKeepEdits == Spec => EditsSurvive
<1> DEFINE Kept ==
        Update => \/ history.overlapped \/ history.reverted
                  \/ \E i \in DOMAIN file : file[i] = copy.text
<1>1. IInv /\ [Next]_vars => [Kept]_vars
  <2>1. SUFFICES ASSUME IInv, Update, ~history.overlapped, ~history.reverted
                 PROVE  \E i \in DOMAIN file : file[i] = copy.text
    OBVIOUS
  <2>2. resolve.phase = "updating" /\ resolve # NoResolve
    BY <2>1 DEF Update, NoResolve
  <2>3. ~copy.dirty
    BY <2>1, <2>2 DEF IInv, ResolvesAlone
  <2> QED
    BY <2>1, <2>3 DEF IInv, OthersWriteNew, RememberedIsSeen, IsKnown, KnewTheFile, InFile
<1>2. Spec => [][Kept]_vars
  BY <1>1, WorkingCopyInvariant, PTL DEF Spec
<1> QED
  BY <1>2 DEF EditsSurvive
=============================================================================
