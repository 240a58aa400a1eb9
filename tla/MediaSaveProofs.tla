--------------------------- MODULE MediaSaveProofs ---------------------------
(***************************************************************************)
(* The card is safe for every set of IDs, every length of an upload and    *)
(* every sequence of failures and power losses: Inv is inductive, and from *)
(* it follow the promises of SavedLibrary (each step publishes one whole   *)
(* new item in a free place, deletes one, or is invisible), that settings  *)
(* are saved atomically, that a lost card is not written to, and that the  *)
(* migration is marked as done only when it is.                            *)
(***************************************************************************)
EXTENDS MediaSave, TLAPS, FiniteSetTheorems

\* A nonempty set of naturals has a least element: a set among the intervals
\* 1 .. n is minimal under inclusion.
LEMMA SmallestExists ==
    ASSUME NEW S, S \subseteq Nat, S # {}
    PROVE  \E m \in S : \A n \in S : m <= n
  <1> DEFINE Upto(n) == 1 .. n
             T == {Upto(n) : n \in S}
             R == StrictSubsetOrdering(Nat)
  <1>1. T \subseteq FiniteSubsetsOf(Nat)
    <2>1. ASSUME NEW n \in S PROVE Upto(n) \in SUBSET Nat /\ IsFiniteSet(Upto(n))
      BY FS_Interval
    <2> QED
      BY <2>1 DEF FiniteSubsetsOf
  <1>2. PICK x \in T : \A y \in T : ~ (<<y, x>> \in R)
    <2>1. T # {}
      OBVIOUS
    <2> HIDE DEF T, R
    <2> QED
      BY <1>1, <2>1, WFMin, FS_StrictSubsetOrderingWellFounded DEF R
  <1>3. PICK m \in S : x = Upto(m)
    BY <1>2
  <1>4. ASSUME NEW n \in S, n < m PROVE FALSE
    <2>1. Upto(n) \subseteq Upto(m) /\ m \in Upto(m) /\ m \notin Upto(n)
      BY <1>4
    <2>2. <<Upto(n), Upto(m)>> \in R
      BY <2>1 DEF StrictSubsetOrdering
    <2> QED
      BY <1>2, <1>3, <2>2
  <1> QED
    BY <1>4

-----------------------------------------------------------------------------
(***************************************************************************)
(* Values.                                                                 *)
(***************************************************************************)
\* What the actions assign as a whole has its type.
LEMMA WholeValues ==
    /\ NoFile \in Files /\ EmptySlot \in SlotFiles /\ BadRecord \in Records
    /\ NoSave \in Saves /\ NoSave.phase = "idle"
    /\ \A m \in Media : Staged(m) \in Files
    /\ \A s \in Slots : LegacyClip(s) \in Files
  <1>1. 0 \in 0 .. Generations - 1 /\ 0 \in 0 .. Blocks
    BY MediaSaveAssumption
  <1>2. \A s \in Slots : Clip(s) \in Media
    BY DEF Media
  <1> QED
    BY <1>1, <1>2 DEF NoFile, EmptySlot, BadRecord, NoSave, Staged, LegacyClip, Files,
       SlotFiles, Records, Saves, Payload

\* Clips and uploads are different media, and none of them is NoMedia.
LEMMA MediaDiffer ==
    /\ \A s \in Slots : Clip(s) \in Media /\ Clip(s) \in {1, 2}
    /\ \A n \in 1 .. MaxSaves : Upload(n) \in Media /\ Upload(n) > 2
    /\ \A m \in Media : m \in Nat /\ m # NoMedia
    /\ \A s, r \in Slots : Clip(s) = Clip(r) => s = r
  <1>1. \A s \in Slots : Clip(s) \in Media /\ Clip(s) \in {1, 2}
    BY DEF Media, Slots, Clip
  <1>2. \A n \in 1 .. MaxSaves : Upload(n) \in Media /\ Upload(n) > 2 /\ Upload(n) \in Nat
    BY MediaSaveAssumption DEF Media, Upload
  <1>3. \A m \in Media : m \in Nat /\ m # NoMedia
    BY <1>1, <1>2, MediaSaveAssumption DEF Media, NoMedia
  <1>4. \A s, r \in Slots : Clip(s) = Clip(r) => s = r
    BY DEF Slots, Clip
  <1> QED
    BY <1>1, <1>2, <1>3, <1>4

\* No library place is NoPlace or the place of a slot.
LEMMA PlacesDiffer ==
    /\ NoPlace \notin Places
    /\ \A p \in Places : p[1] \in Kinds /\ p[1] # "slot"
    /\ \A s \in Slots : SlotPlace(s)[1] = "slot" /\ SlotPlace(s)[2] = s
                          /\ SlotPlace(s) # NoPlace
  BY DEF NoPlace, Places, Kinds, SlotPlace

\* A call that succeeds, fails, or loses the card.
LEMMA CallOutcome ==
    ASSUME TypeOK, Succeeds \/ Fails \/ ReportStorageFailure
    PROVE  /\ ready' \in BOOLEAN /\ (ready' => ready)
           /\ storage' \in {"ready", "recovering", "unavailable"}
           /\ faults' \in 0 .. MaxFaults
           /\ ~Succeeds => faults' > 0
  <1>1. faults \in 0 .. MaxFaults /\ ready \in BOOLEAN
        /\ storage \in {"ready", "recovering", "unavailable"}
    BY DEF TypeOK, FlagsOK, UseOK
  <1>2. CASE Succeeds
    BY <1>1, <1>2 DEF Succeeds
  <1>3. ASSUME Fault PROVE faults' \in 0 .. MaxFaults /\ faults' > 0
    BY <1>1, <1>3, MediaSaveAssumption DEF Fault
  <1>4. CASE Fails
    BY <1>1, <1>3, <1>4 DEF Fails
  <1>5. CASE ReportStorageFailure
    <2>1. ready' \in BOOLEAN /\ ~ready'
      BY <1>5 DEF ReportStorageFailure
    <2>2. storage' \in {"ready", "recovering", "unavailable"}
      BY <1>1, <1>5 DEF ReportStorageFailure
    <2> QED
      BY <1>3, <1>5, <2>1, <2>2 DEF ReportStorageFailure
  <1> QED
    BY <1>2, <1>4, <1>5

-----------------------------------------------------------------------------
(***************************************************************************)
(* The invariant while no save is under way.                               *)
(***************************************************************************)
SaveParts == SavePlaced /\ SaveStaged /\ SoundStaging /\ SoundUploadKept

LEMMA NoSaveParts ==
    ASSUME save'.phase = "idle", ~failed'
    PROVE  SaveParts'
  BY DEF SaveParts, SavePlaced, SaveStaged, SoundStaging, SoundUploadKept

\* A step that publishes, deletes and adopts nothing leaves the library whole.
LEMMA LibraryUntouched ==
    ASSUME FilesWhole, file' = file
    PROVE  FilesWhole'
  BY DEF FilesWhole, Whole, CopiesDecode

\* Without a save afterwards, and with no new upload, nothing that may still
\* be listed has been.
LEMMA NothingNewTwice ==
    ASSUME NothingTwice, UNCHANGED <<slot, listed, saves>>,
           (save'.phase # "idle" /\ ~failed') =>
               save.phase # "idle" /\ ~failed /\ save'.media = save.media
    PROVE  NothingTwice'
  BY DEF NothingTwice

\* The lowest free ID is a free ID.
LEMMA AllocatedFree ==
    ASSUME NEW kind \in Kinds, FreeId(kind) # {}
    PROVE  /\ AllocateLibraryId(kind) \in Ids
           /\ <<kind, AllocateLibraryId(kind)>> \in Places
           /\ file[<<kind, AllocateLibraryId(kind)>>] = NoFile
  <1>1. FreeId(kind) \subseteq Nat /\ FreeId(kind) \subseteq Ids
    BY MediaSaveAssumption DEF FreeId
  <1>2. \E id \in FreeId(kind) : \A j \in FreeId(kind) : id <= j
    BY <1>1, SmallestExists
  <1>3. AllocateLibraryId(kind) \in FreeId(kind)
    BY <1>2, Zenon DEF AllocateLibraryId
  <1> QED
    BY <1>1, <1>3 DEF FreeId, Places

\* The newest slot is one that can be opened.
LEMMA NewestUsable ==
    /\ NewestSlot \in Slots \cup {NoSlot}
    /\ NewestSlot # NoSlot => NewestSlot \in Slots /\ slot[NewestSlot].kind # "none"
  BY DEF NewestSlot, Usable, Slots, NoSlot

-----------------------------------------------------------------------------
(***************************************************************************)
(* A save begins.                                                          *)
(***************************************************************************)
LEMMA BeginLibraryKeeps ==
    ASSUME Inv, NEW kind \in Kinds, BeginLibrary(kind)
    PROVE  Inv'
  <1> DEFINE place == <<kind, AllocateLibraryId(kind)>>
             media == Upload(saves')
             begun(good, valid) == [NoSave EXCEPT !.phase = "writing", !.place = place,
                                                  !.media = media, !.good = good,
                                                  !.valid = valid]
  <1>1. /\ place \in Places /\ file[place] = NoFile
        /\ save.phase = "idle" /\ ~failed /\ ready
        /\ playing' \in {NoPlace, playing}
        /\ UNCHANGED <<file, slot, marker, record, fresh, failed, rejected, listed,
                       requests>>
    BY AllocatedFree DEF BeginLibrary, Idle, ClosePlayback
  <1>2. /\ saves' = saves + 1 /\ saves' \in 1 .. MaxSaves /\ media \in Media
        /\ media \in {Upload(n) : n \in 1 .. saves'} \ listed
    <2>1. saves \in 0 .. MaxSaves /\ saves < MaxSaves /\ saves' = saves + 1
      BY DEF BeginLibrary, Inv, TypeOK, UseOK
    <2>2. saves' \in saves + 1 .. MaxSaves /\ saves' \in 1 .. saves'
          /\ saves' \in 1 .. MaxSaves
      BY <2>1, MediaSaveAssumption
    <2> QED
      BY <2>1, <2>2 DEF Inv, NothingTwice, Media
  <1>3. \/ /\ Succeeds /\ temp' = [temp EXCEPT ![place] = Staged(media)]
           /\ \E good, valid \in BOOLEAN : save' = begun(good, valid)
        \/ /\ Fails \/ ReportStorageFailure
           /\ \/ temp' = temp
              \/ \E f \in {temp[place], NoFile, Staged(media)} :
                   temp' = [temp EXCEPT ![place] = f]
           /\ save' \in {NoSave, save}
    <2>1. \/ /\ Succeeds /\ temp' = [temp EXCEPT ![place] = Staged(media)]
             /\ \E good, valid \in BOOLEAN : save' = begun(good, valid)
          \/ /\ Fails /\ temp' \in {temp, [temp EXCEPT ![place] = NoFile]}
             /\ save' = NoSave
          \/ /\ ReportStorageFailure /\ save' = NoSave
             /\ \E f \in {temp[place], NoFile, Staged(media)} :
                  temp' = [temp EXCEPT ![place] = f]
          \/ /\ Fails \/ ReportStorageFailure
             /\ temp' = temp /\ save' = save
      BY Zenon DEF BeginLibrary
    <2> HIDE DEF begun, place, media
    <2> QED
      BY <2>1
  <1> HIDE DEF place, media
  <1>4. /\ temp' \in [Places -> Files]
        /\ save' \in Saves
    <2>1. temp[place] \in Files /\ temp \in [Places -> Files]
          /\ NoFile \in Files /\ Staged(media) \in Files /\ NoSave \in Saves
      BY <1>1, <1>2, WholeValues DEF Inv, TypeOK, CardOK
    <2>2. \A good, valid \in BOOLEAN : begun(good, valid) \in Saves
      BY <1>1, <1>2, <2>1 DEF Saves
    <2> HIDE DEF begun
    <2>3. save \in Saves
      BY DEF Inv, TypeOK, UseOK
    <2> QED
      BY <1>1, <1>3, <2>1, <2>2, <2>3
  <1>5. TypeOK'
    <2>1. CardOK'
      BY <1>1, <1>4 DEF Inv, TypeOK, CardOK
    <2>2. Succeeds \/ Fails \/ ReportStorageFailure
      BY <1>3
    <2>3. TypeOK
      BY DEF Inv
    <2>4. FlagsOK'
      BY <1>1, <2>2, <2>3, CallOutcome DEF TypeOK, FlagsOK
    <2>5. UseOK'
      BY <1>1, <1>2, <1>4, <2>2, <2>3, CallOutcome, MediaSaveAssumption
         DEF TypeOK, UseOK, Handles
    <2> QED
      BY <2>1, <2>4, <2>5 DEF TypeOK
  <1>6. SaveParts'
    <2>1. CASE save' \in {NoSave, save}
      <3>1. save'.phase = "idle" /\ ~failed'
        BY <1>1, <2>1, WholeValues DEF NoSave
      <3> QED
        BY <3>1, NoSaveParts
    <2>2. CASE save' \notin {NoSave, save}
      <3>1. PICK good \in BOOLEAN, valid \in BOOLEAN : save' = begun(good, valid)
        BY <1>3, <2>2
      <3>2. /\ save'.phase = "writing" /\ save'.place = place /\ save'.media = media
            /\ save'.verified = 0 /\ save'.copies = "none" /\ save'.buffered = {}
            /\ save'.received = 0
        BY <3>1 DEF NoSave
      <3>3. ready' /\ ~failed' /\ temp'[place] = Staged(media)
        BY <1>1, <1>3, <2>2 DEF Succeeds, Inv, TypeOK, CardOK
      <3>4. SaveStaged'
        BY <1>1, <3>2, <3>3 DEF SaveStaged, Staged
      <3>5. SoundStaging'
        BY <1>1, <3>2, <3>3 DEF SoundStaging, Staged
      <3>6. SavePlaced' /\ SoundUploadKept'
        BY <1>1, <3>2, <3>3 DEF SavePlaced, SoundUploadKept
      <3> QED
        BY <3>4, <3>5, <3>6 DEF SaveParts
    <2> QED
      BY <2>1, <2>2
  <1>7. NothingTwice'
    <2>1. save'.phase # "idle" => save'.media = media
      BY <1>1, <1>3, WholeValues DEF NoSave
    <2>2. \A n \in saves' + 1 .. MaxSaves : n \in saves + 1 .. MaxSaves
      BY <1>2, MediaSaveAssumption DEF Inv, TypeOK, UseOK
    <2>3. saves' \in 1 .. saves'
      BY <1>2, MediaSaveAssumption
    <2> QED
      BY <1>1, <1>2, <2>1, <2>2, <2>3 DEF Inv, NothingTwice
  <1>8. FilesWhole' /\ PlaybackOnCard'
    BY <1>1, LibraryUntouched DEF Inv, PlaybackOnCard
  <1> QED
    BY <1>5, <1>6, <1>7, <1>8 DEF Inv, SaveParts

-----------------------------------------------------------------------------
(***************************************************************************)
(* A save goes on, or is given up.                                         *)
(***************************************************************************)
\* What only the saves' own steps leave alone.
Beside == <<file, slot, marker, record, fresh, saves, playing, rejected, listed,
            requests>>

\* A save that is given up keeps the invariant if it had a reason.
LEMMA GivenUpKeeps ==
    ASSUME Inv, save.phase # "idle", UNCHANGED Beside,
           failed' = TRUE, save' = save,
           temp' \in [Places -> Files], ready' \in BOOLEAN,
           storage' \in {"ready", "recovering", "unavailable"},
           faults' \in 0 .. MaxFaults, faults' > 0 \/ ~save.good \/ ~save.valid
    PROVE  Inv'
  <1>1. CardOK' /\ UseOK'
    BY DEF Inv, TypeOK, CardOK, UseOK, Handles, Beside
  <1>2. FlagsOK'
    BY DEF Inv, TypeOK, FlagsOK, Beside
  <1>3. SaveParts'
    BY DEF Inv, SaveParts, SavePlaced, SaveStaged, SoundStaging, SoundUploadKept
  <1>4. NothingTwice'
    BY NothingNewTwice DEF Inv, Beside
  <1>5. FilesWhole' /\ PlaybackOnCard'
    BY LibraryUntouched DEF Inv, Beside, PlaybackOnCard
  <1> QED
    BY <1>1, <1>2, <1>3, <1>4, <1>5 DEF Inv, TypeOK, SaveParts

\* A call that fails is a reason.
LEMMA CallFailsKeeps ==
    ASSUME Inv, save.phase # "idle", UNCHANGED Beside,
           NEW written, written \subseteq [Places -> Files], CallFails(written)
    PROVE  Inv'
  <1>1. /\ failed' = TRUE /\ save' = save /\ temp' \in [Places -> Files]
        /\ Fails \/ ReportStorageFailure
    BY DEF CallFails
  <1>2. /\ ready' \in BOOLEAN
        /\ storage' \in {"ready", "recovering", "unavailable"}
        /\ faults' \in 0 .. MaxFaults /\ faults' > 0
    <2>1. TypeOK /\ faults \in 0 .. MaxFaults
      BY DEF Inv, TypeOK, UseOK
    <2>2. faults' > 0
      BY <1>1, <2>1, MediaSaveAssumption DEF Fails, ReportStorageFailure, Fault
    <2> QED
      BY <1>1, <2>1, <2>2, CallOutcome
  <1> QED
    BY <1>1, <1>2, GivenUpKeeps

\* A save that goes on keeps the invariant if its file and its buffer agree.
LEMMA GoesOnKeeps ==
    ASSUME Inv, save.phase # "idle", ~failed, UNCHANGED <<Beside, failed, ready, storage>>,
           save' \in Saves, save'.phase # "idle", save'.place = save.place,
           save'.media = save.media, save'.good = save.good,
           save'.valid = save.valid,
           temp' \in [Places -> Files], faults' \in 0 .. MaxFaults,
           SaveStaged', SoundStaging'
    PROVE  Inv'
  <1>1. CardOK' /\ UseOK'
    BY DEF Inv, TypeOK, CardOK, UseOK, Handles, Beside
  <1>2. FlagsOK'
    BY DEF Inv, TypeOK, FlagsOK, Beside
  <1>3. SavePlaced' /\ SoundUploadKept'
    BY DEF Inv, SavePlaced, SoundUploadKept
  <1>4. NothingTwice'
    BY NothingNewTwice DEF Inv, Beside
  <1>5. FilesWhole' /\ PlaybackOnCard'
    BY LibraryUntouched DEF Inv, Beside, PlaybackOnCard
  <1> QED
    BY <1>1, <1>2, <1>3, <1>4, <1>5 DEF Inv, TypeOK

\* Blocks written to the file of the save.
LEMMA WrittenFile ==
    ASSUME CardOK, save.place \in Places, NEW blocks, blocks \subseteq Payload
    PROVE  /\ Written(blocks) \in [Places -> Files]
           /\ Written(blocks)[save.place].data = temp[save.place].data \cup blocks
           /\ Written(blocks)[save.place].media = temp[save.place].media
           /\ Written(blocks)[save.place].head = temp[save.place].head
           /\ Written(blocks)[save.place].copies = temp[save.place].copies
  <1> DEFINE p == save.place
             f == [temp[p] EXCEPT !.data = temp[p].data \cup blocks]
  <1>1. temp \in [Places -> Files] /\ temp[p] \in Files
    BY DEF CardOK
  <1>2. f \in Files
    BY <1>1 DEF Files
  <1>3. /\ f.data = temp[p].data \cup blocks /\ f.media = temp[p].media
        /\ f.head = temp[p].head /\ f.copies = temp[p].copies
    BY <1>1 DEF Files
  <1>4. Written(blocks) = [temp EXCEPT ![p] = f]
    BY DEF Written
  <1> HIDE DEF f
  <1> QED
    BY <1>1, <1>2, <1>3, <1>4

\* FlushMediaWrites writes the blocks, or all but one and that is a fault.
LEMMA FlushedFile ==
    ASSUME TypeOK, save.place \in Places, NEW blocks, blocks \subseteq Payload,
           Flush(blocks)
    PROVE  /\ temp' \in [Places -> Files] /\ faults' \in 0 .. MaxFaults
           /\ temp'[save.place].media = temp[save.place].media
           /\ temp'[save.place].head = temp[save.place].head
           /\ temp'[save.place].copies = temp[save.place].copies
           /\ temp[save.place].data \subseteq temp'[save.place].data
           /\ faults' = 0 => /\ faults = 0
                             /\ temp'[save.place].data
                                 = temp[save.place].data \cup blocks
  <1>1. CardOK /\ faults \in 0 .. MaxFaults
    BY DEF TypeOK, UseOK
  <1>2. CASE temp' = Written(blocks) /\ UNCHANGED faults
    BY <1>1, <1>2, WrittenFile
  <1>3. CASE \E b \in blocks : temp' = Written(blocks \ {b}) /\ Fault
    <2>1. PICK b \in blocks : temp' = Written(blocks \ {b}) /\ Fault
      BY <1>3
    <2>2. blocks \ {b} \subseteq Payload
      OBVIOUS
    <2>3. faults' \in 0 .. MaxFaults /\ faults' # 0
      BY <1>1, <2>1, MediaSaveAssumption DEF Fault
    <2> QED
      BY <1>1, <2>1, <2>2, <2>3, WrittenFile
  <1> QED
    BY <1>2, <1>3 DEF Flush

LEMMA AppendMediaBytesKeeps ==
    ASSUME Inv, AppendMediaBytes
    PROVE  Inv'
  <1> DEFINE buffered == save.buffered \cup {save.received + 1}
             full == Cardinality(buffered) = Chunk
  <1>1. /\ save.phase = "writing" /\ ~failed /\ ready /\ save.received < Blocks
        /\ UNCHANGED Beside
    BY DEF AppendMediaBytes, Working, Beside
  <1>2. /\ TypeOK /\ CardOK /\ temp \in [Places -> Files] /\ save \in Saves
        /\ save.place \in Places /\ faults \in 0 .. MaxFaults
    BY <1>1 DEF Inv, TypeOK, CardOK, UseOK, SavePlaced
  <1>3. /\ buffered \subseteq Payload /\ save.received + 1 \in 0 .. Blocks
        /\ save.received \in Nat
    BY <1>1, <1>2, MediaSaveAssumption DEF Saves, Payload
  <1>4. CASE full /\ CallFails({temp, Written(buffered)})
    BY <1>1, <1>2, <1>3, <1>4, WrittenFile, CallFailsKeeps
  <1>5. ASSUME save' = [save EXCEPT !.received = @ + 1,
                           !.buffered = IF full THEN {} ELSE buffered],
               IF full THEN Flush(buffered) ELSE UNCHANGED <<temp, faults>>,
               UNCHANGED <<ready, storage, failed>>
        PROVE  Inv'
    <2> HIDE DEF buffered, full
    <2>1. /\ save' \in Saves /\ save'.phase = "writing"
          /\ save'.place = save.place /\ save'.media = save.media
          /\ save'.good = save.good /\ save'.valid = save.valid
          /\ save'.verified = save.verified
          /\ save'.copies = save.copies
          /\ save'.received = save.received + 1
          /\ save'.buffered = IF full THEN {} ELSE buffered
      BY <1>1, <1>2, <1>3, <1>5 DEF Saves
    <2>2. /\ temp' \in [Places -> Files] /\ faults' \in 0 .. MaxFaults
          /\ temp'[save.place].media = temp[save.place].media
          /\ temp'[save.place].head = temp[save.place].head
          /\ temp[save.place].data \subseteq temp'[save.place].data
          /\ faults' = 0 => /\ faults = 0
                            /\ temp'[save.place].data \cup save'.buffered
                                = temp[save.place].data \cup buffered
      <3>1. CASE full
        BY <1>2, <1>3, <1>5, <2>1, <3>1, FlushedFile
      <3>2. CASE ~full
        BY <1>2, <1>5, <2>1, <3>2
      <3> QED
        BY <3>1, <3>2
    <2>3. SaveStaged'
      BY <1>1, <1>2, <1>5, <2>1, <2>2 DEF Inv, SaveStaged, Beside
    <2>4. SoundStaging'
      <3>1. SUFFICES ASSUME faults' = 0
                     PROVE  /\ temp'[save'.place].data \cup save'.buffered
                                 = 1 .. save'.received
                            /\ save'.copies # "checking"
        BY <2>1 DEF SoundStaging
      <3>2. /\ temp[save.place].data \cup save.buffered = 1 .. save.received
            /\ save.copies # "none" => save.verified = Blocks
            /\ \A b \in 1 .. save.verified : b \in temp[save.place].data
        BY <1>1, <2>2, <3>1 DEF Inv, SoundStaging, SaveStaged
      <3>3. 1 .. (save.received + 1) = (1 .. save.received) \cup {save.received + 1}
        BY <1>3
      <3>4. save.copies # "checking"
        <4>1. SUFFICES ASSUME save.verified = Blocks PROVE FALSE
          BY <3>2
        <4>2. Blocks \in 1 .. save.received
          BY <3>2, <4>1, MediaSaveAssumption
        <4> QED
          BY <1>1, <1>3, <4>2, MediaSaveAssumption
      <3> QED
        BY <2>1, <2>2, <3>1, <3>2, <3>3, <3>4 DEF buffered
    <2> QED
      BY <1>1, <1>5, <2>1, <2>2, <2>3, <2>4, GoesOnKeeps
  <1> QED
    BY <1>4, <1>5, Zenon DEF AppendMediaBytes, QueueMediaWrite

LEMMA StartMediaVerificationKeeps ==
    ASSUME Inv, StartMediaVerification
    PROVE  Inv'
  <1>1. /\ save.phase = "writing" /\ ~failed /\ ready /\ save.received = Blocks
        /\ UNCHANGED Beside
    BY DEF StartMediaVerification, Working, Beside
  <1>2. /\ TypeOK /\ CardOK /\ temp \in [Places -> Files] /\ save \in Saves
        /\ save.place \in Places /\ save.buffered \subseteq Payload
        /\ faults \in 0 .. MaxFaults /\ ready \in BOOLEAN
        /\ storage \in {"ready", "recovering", "unavailable"}
    BY <1>1 DEF Inv, TypeOK, CardOK, FlagsOK, UseOK, SavePlaced, Saves
  <1>3. CASE ~save.good /\ failed' = TRUE /\ UNCHANGED <<temp, save, ready, storage, faults>>
    BY <1>1, <1>2, <1>3, GivenUpKeeps
  <1>4. CASE CallFails({temp, Written(save.buffered)})
    BY <1>1, <1>2, <1>4, WrittenFile, CallFailsKeeps
  <1>5. ASSUME save' = [save EXCEPT !.phase = "verifying", !.buffered = {}],
               Flush(save.buffered), UNCHANGED <<failed, ready, storage>>
        PROVE  Inv'
    <2>1. /\ save' \in Saves /\ save'.phase = "verifying"
          /\ save'.place = save.place /\ save'.media = save.media
          /\ save'.good = save.good /\ save'.valid = save.valid
          /\ save'.verified = save.verified
          /\ save'.copies = save.copies
          /\ save'.received = save.received
          /\ save'.buffered = {}
      BY <1>1, <1>2, <1>5 DEF Saves
    <2>2. /\ temp' \in [Places -> Files] /\ faults' \in 0 .. MaxFaults
          /\ temp'[save.place].media = temp[save.place].media
          /\ temp'[save.place].head = temp[save.place].head
          /\ temp'[save.place].copies = temp[save.place].copies
          /\ temp[save.place].data \subseteq temp'[save.place].data
          /\ faults' = 0 => /\ faults = 0
                            /\ temp'[save.place].data
                                = temp[save.place].data \cup save.buffered
      BY <1>2, <1>5, FlushedFile
    <2>3. SaveStaged'
      BY <1>1, <1>2, <1>5, <2>1, <2>2 DEF Inv, SaveStaged, Beside
    <2>4. SoundStaging'
      BY <1>1, <1>5, <2>1, <2>2 DEF Inv, SoundStaging
    <2> QED
      BY <1>1, <1>5, <2>1, <2>2, <2>3, <2>4, GoesOnKeeps
  <1> QED
    BY <1>3, <1>4, <1>5, Zenon DEF StartMediaVerification

LEMMA VerifyPayloadKeeps ==
    ASSUME Inv, VerifyPayload
    PROVE  Inv'
  <1>1. /\ save.phase = "verifying" /\ ~failed /\ ready /\ save.verified < Blocks
        /\ UNCHANGED Beside
    BY DEF VerifyPayload, Working, Beside
  <1>2. /\ TypeOK /\ CardOK /\ temp \in [Places -> Files] /\ save \in Saves
        /\ save.place \in Places /\ save.verified \in 0 .. Blocks
        /\ faults \in 0 .. MaxFaults /\ ready \in BOOLEAN
        /\ storage \in {"ready", "recovering", "unavailable"}
    BY <1>1 DEF Inv, TypeOK, CardOK, FlagsOK, UseOK, SavePlaced, Saves
  <1>3. CASE /\ ~ReadsBack \/ ~save.valid
             /\ failed' = TRUE /\ UNCHANGED <<temp, save, ready, storage, faults>>
    <2>1. faults > 0 \/ ~save.valid
      <3>1. SUFFICES ASSUME faults = 0, save.valid PROVE FALSE
        BY <1>2, MediaSaveAssumption
      <3>2. temp[save.place].data = 1 .. Blocks
        BY <1>1, <3>1 DEF Inv, SoundStaging
      <3> QED
        BY <1>1, <1>2, <1>3, <3>1, <3>2, MediaSaveAssumption DEF ReadsBack
    <2> QED
      BY <1>1, <1>2, <1>3, <2>1, GivenUpKeeps
  <1>4. CASE CallFails({temp})
    BY <1>1, <1>2, <1>4, CallFailsKeeps
  <1>5. ASSUME ReadsBack, BeginCopies => save.valid,
               save' = [save EXCEPT !.verified = @ + 1,
                            !.copies = IF BeginCopies THEN "preparing" ELSE @],
               UNCHANGED <<temp, failed, ready, storage, faults>>
        PROVE  Inv'
    <2>1. save.verified + 1 \in 0 .. Blocks
      BY <1>1, <1>2, MediaSaveAssumption
    <2>2. /\ save' \in Saves /\ save'.phase = "verifying"
          /\ save'.place = save.place /\ save'.media = save.media
          /\ save'.good = save.good /\ save'.valid = save.valid
          /\ save'.verified = save.verified + 1
          /\ save'.copies = IF BeginCopies THEN "preparing" ELSE save.copies
          /\ save'.received = save.received
          /\ save'.buffered = save.buffered
      BY <1>1, <1>2, <1>5, <2>1 DEF Saves
    <2>3. SaveStaged'
      <3>1. save.copies # "none" => save.verified = Blocks
        BY <1>1 DEF Inv, SaveStaged
      <3>2. save.copies = "none"
        BY <1>1, <1>2, <3>1, MediaSaveAssumption
      <3>3. \A b \in 1 .. save'.verified : b \in temp[save.place].data
        BY <1>1, <1>2, <1>5, <2>2 DEF Inv, SaveStaged, ReadsBack
      <3>4. save'.copies # "none" => save'.verified = Blocks /\ save'.valid
        BY <1>5, <2>2, <3>2 DEF BeginCopies
      <3> QED
        BY <1>1, <1>5, <2>2, <3>3, <3>4 DEF Inv, SaveStaged, Beside
    <2>4. SoundStaging'
      BY <1>1, <1>5, <2>2 DEF Inv, SoundStaging
    <2> QED
      BY <1>1, <1>2, <1>5, <2>2, <2>3, <2>4, GoesOnKeeps
  <1> QED
    BY <1>3, <1>4, <1>5, Zenon DEF VerifyPayload

\* The prepared copies are written behind the payload of the save's file.
LEMMA CopiedFile ==
    ASSUME CardOK, save.place \in Places, NEW state \in {"none", "bad", "good"}
    PROVE  /\ Copied(state) \in [Places -> Files]
           /\ Copied(state)[save.place].data = temp[save.place].data
           /\ Copied(state)[save.place].media = temp[save.place].media
           /\ Copied(state)[save.place].head = temp[save.place].head
           /\ Copied(state)[save.place].copies = state
  <1> DEFINE p == save.place
             f == [temp[p] EXCEPT !.copies = state]
  <1>1. temp \in [Places -> Files] /\ temp[p] \in Files
    BY DEF CardOK
  <1>2. /\ f \in Files
        /\ f.data = temp[p].data /\ f.media = temp[p].media
        /\ f.head = temp[p].head /\ f.copies = state
    BY <1>1 DEF Files
  <1>3. Copied(state) = [temp EXCEPT ![p] = f]
    BY DEF Copied
  <1> HIDE DEF f
  <1> QED
    BY <1>1, <1>2, <1>3

LEMMA PrepareCopiesKeeps ==
    ASSUME Inv, PrepareCopies
    PROVE  Inv'
  <1>1. /\ save.phase = "verifying" /\ ~failed /\ ready
        /\ save.copies = "preparing" /\ UNCHANGED Beside
    BY DEF PrepareCopies, Working, Beside
  <1>2. /\ TypeOK /\ CardOK /\ temp \in [Places -> Files] /\ save \in Saves
        /\ save.place \in Places /\ faults \in 0 .. MaxFaults
    BY <1>1 DEF Inv, TypeOK, CardOK, UseOK, SavePlaced
  <1>3. CASE CallFails({temp, Copied("bad"), Copied("good")})
    BY <1>1, <1>2, <1>3, CopiedFile, CallFailsKeeps
  <1>4. ASSUME save' = [save EXCEPT !.copies = "checking"],
               \/ temp' = Copied("good") /\ UNCHANGED faults
               \/ temp' = Copied("bad") /\ Fault,
               UNCHANGED <<failed, ready, storage>>
        PROVE  Inv'
    <2>1. /\ save' \in Saves /\ save'.phase = "verifying"
          /\ save'.place = save.place /\ save'.media = save.media
          /\ save'.good = save.good /\ save'.valid = save.valid
          /\ save'.verified = save.verified
          /\ save'.copies = "checking"
          /\ save'.received = save.received /\ save'.buffered = save.buffered
      BY <1>1, <1>2, <1>4 DEF Saves
    <2>2. /\ temp' \in [Places -> Files]
          /\ temp'[save.place].media = temp[save.place].media
          /\ temp'[save.place].head = temp[save.place].head
          /\ temp'[save.place].data = temp[save.place].data
      BY <1>2, <1>4, CopiedFile
    <2>3. /\ faults' \in 0 .. MaxFaults
          /\ faults' = 0 => faults = 0 /\ temp'[save.place].copies = "good"
      <3>1. CASE temp' = Copied("good") /\ UNCHANGED faults
        BY <1>2, <3>1, CopiedFile
      <3>2. CASE Fault
        BY <1>2, <3>2, MediaSaveAssumption DEF Fault
      <3> QED
        BY <1>4, <3>1, <3>2
    <2>4. SaveStaged'
      BY <1>1, <1>4, <2>1, <2>2 DEF Inv, SaveStaged, Beside
    <2>5. SoundStaging'
      BY <1>1, <1>4, <2>1, <2>2, <2>3 DEF Inv, SoundStaging
    <2> QED
      BY <1>1, <1>4, <2>1, <2>2, <2>3, <2>4, <2>5, GoesOnKeeps
  <1> QED
    BY <1>3, <1>4, Zenon DEF PrepareCopies

LEMMA CopiesDifferKeeps ==
    ASSUME Inv, CopiesDiffer
    PROVE  Inv'
  <1>1. /\ save.phase = "verifying" /\ ~failed /\ save.copies = "checking"
        /\ temp[save.place].copies = "bad" /\ UNCHANGED Beside
        /\ failed' = TRUE /\ ready' = FALSE /\ storage' = "recovering"
        /\ save' = save /\ temp' = temp /\ faults' = faults
    BY DEF CopiesDiffer, Working, Beside, cardVars
  <1>2. temp \in [Places -> Files] /\ faults \in 0 .. MaxFaults
    BY DEF Inv, TypeOK, CardOK, UseOK
  <1>3. faults > 0
    BY <1>1, <1>2, MediaSaveAssumption DEF Inv, SoundStaging
  <1>4. ready' \in BOOLEAN
    BY <1>1
  <1> QED
    BY <1>1, <1>2, <1>3, <1>4, GivenUpKeeps

-----------------------------------------------------------------------------
(***************************************************************************)
(* Publication and abort.                                                  *)
(***************************************************************************)
\* What Publish is about to rename is whole and new, and its place is free.
LEMMA PublishedWhole ==
    ASSUME Inv, Working("verifying"), save.copies = "checking",
           temp[save.place].copies = "good"
    PROVE  /\ save.place \in Places /\ file[save.place] = NoFile
           /\ Headed \in Files /\ Headed # NoFile
           /\ Whole(Headed) /\ Headed.media = save.media
           /\ save.media \in {Upload(n) : n \in 1 .. saves} \ listed
           /\ save.media \in Media
  <1>1. /\ save.phase = "verifying" /\ ~failed /\ save.place \in Places
        /\ temp[save.place] \in Files
    BY DEF Working, Inv, TypeOK, CardOK, SavePlaced
  <1>2. /\ file[save.place] = NoFile /\ temp[save.place].media = save.media
        /\ \A b \in 1 .. Blocks : b \in temp[save.place].data
    BY <1>1 DEF Inv, SaveStaged
  <1>3. save.media \in {Upload(n) : n \in 1 .. saves} \ listed
    BY <1>1 DEF Inv, NothingTwice
  <1>4. save.media \in Media
    <2>1. \A n \in 1 .. saves : n \in 1 .. MaxSaves
      BY MediaSaveAssumption DEF Inv, TypeOK, UseOK
    <2> QED
      BY <1>3, <2>1, MediaDiffer
  <1>5. temp[save.place].data = Payload
    BY <1>1, <1>2 DEF Files, Payload
  <1>6. /\ Headed \in Files /\ Headed.head = "final"
        /\ Headed.media = save.media /\ Headed.data = Payload
        /\ Headed.copies = "good"
    BY <1>1, <1>2, <1>5 DEF Headed, Files
  <1>7. Whole(Headed) /\ Headed # NoFile
    BY <1>6 DEF Whole, CopiesDecode, NoFile
  <1> QED
    BY <1>1, <1>2, <1>3, <1>4, <1>6, <1>7

\* The rename alone keeps the library whole.
LEMMA RenamedKeeps ==
    ASSUME Inv, Working("verifying"), save.copies = "checking",
           temp[save.place].copies = "good", Renamed,
           UNCHANGED <<slot, saves, playing>>,
           save'.phase = "idle" \/ failed'
    PROVE  /\ temp' \in [Places -> Files] /\ file' \in [Places -> Files]
           /\ listed' \subseteq Media
           /\ FilesWhole' /\ NothingTwice' /\ PlaybackOnCard'
  <1> DEFINE p == save.place
  <1>1. /\ p \in Places /\ file[p] = NoFile
        /\ Headed \in Files /\ Headed # NoFile /\ Whole(Headed)
        /\ Headed.media = save.media /\ save.media \in Media
        /\ save.media \in {Upload(n) : n \in 1 .. saves}
    BY PublishedWhole
  <1>2. /\ temp' = [temp EXCEPT ![p] = NoFile]
        /\ file' = [file EXCEPT ![p] = Headed]
        /\ listed' = listed \cup {save.media}
    BY DEF Renamed
  <1>3. /\ temp \in [Places -> Files] /\ file \in [Places -> Files]
        /\ listed \subseteq Media /\ saves \in 0 .. MaxSaves
    BY DEF Inv, TypeOK, CardOK, UseOK
  <1> HIDE DEF p
  <1>4. /\ temp' \in [Places -> Files] /\ file' \in [Places -> Files]
        /\ listed' \subseteq Media
    BY <1>1, <1>2, <1>3, WholeValues
  <1>5. FilesWhole'
    <2> SUFFICES ASSUME NEW q \in Places, file'[q] # NoFile
                 PROVE  Whole(file'[q]) /\ file'[q].media \in Media
      BY DEF FilesWhole, Whole, CopiesDecode
    <2>1. CASE q = p
      BY <1>1, <1>2, <1>3, <2>1
    <2>2. CASE q # p
      BY <1>2, <1>3, <2>2 DEF Inv, FilesWhole
    <2> QED
      BY <2>1, <2>2
  <1>6. NothingTwice'
    <2>1. \A s \in Slots : Clip(s) # save.media
      <3>1. \A n \in 1 .. saves : n \in 1 .. MaxSaves
        BY <1>3, MediaSaveAssumption
      <3> QED
        BY <1>1, <3>1, MediaDiffer
    <2>2. \A n \in saves + 1 .. MaxSaves : Upload(n) # save.media
      BY <1>1, <1>3, MediaSaveAssumption DEF Upload
    <2> QED
      BY <1>2, <2>1, <2>2 DEF Inv, NothingTwice
  <1>7. PlaybackOnCard'
    BY <1>1, <1>2, <1>3 DEF Inv, PlaybackOnCard
  <1> QED
    BY <1>4, <1>5, <1>6, <1>7

LEMMA PublishKeeps ==
    ASSUME Inv, Publish
    PROVE  Inv'
  <1>1. /\ Working("verifying") /\ save.copies = "checking"
        /\ temp[save.place].copies = "good"
        /\ save.phase # "idle" /\ ~failed
        /\ UNCHANGED <<slot, marker, record, fresh, saves, playing, requests>>
    BY DEF Publish, Working
  <1>2. /\ TypeOK /\ temp \in [Places -> Files] /\ save.place \in Places
        /\ Headed \in Files /\ faults \in 0 .. MaxFaults
    BY <1>1, PublishedWhole DEF Inv, TypeOK, CardOK, UseOK
  <1>3. CASE /\ CallFails({temp, [temp EXCEPT ![save.place] = Headed]})
             /\ UNCHANGED <<file, rejected, listed>>
    <2>1. UNCHANGED Beside
      BY <1>1, <1>3 DEF Beside
    <2> QED
      BY <1>1, <1>2, <1>3, <2>1, CallFailsKeeps
  <1>4. ASSUME Renamed,
               \/ Succeeds /\ save' = NoSave /\ rejected' = NoSlot /\ failed' = failed
               \/ ReportStorageFailure /\ failed' = TRUE /\ UNCHANGED <<save, rejected>>
        PROVE  Inv'
    <2>1. /\ temp' \in [Places -> Files] /\ file' \in [Places -> Files]
          /\ listed' \subseteq Media
          /\ FilesWhole' /\ NothingTwice' /\ PlaybackOnCard'
      BY <1>1, <1>4, RenamedKeeps, WholeValues
    <2>2. /\ ready' \in BOOLEAN
          /\ storage' \in {"ready", "recovering", "unavailable"}
          /\ faults' \in 0 .. MaxFaults
      BY <1>2, <1>4, CallOutcome
    <2>3. CardOK'
      BY <1>1, <2>1 DEF Inv, TypeOK, CardOK
    <2>4. FlagsOK'
      BY <1>1, <1>4, <2>2 DEF Inv, TypeOK, FlagsOK
    <2>5. UseOK'
      BY <1>1, <1>4, <2>1, <2>2, WholeValues DEF Inv, TypeOK, UseOK, Handles
    <2>6. SaveParts'
      <3>1. CASE save' = NoSave /\ failed' = failed
        BY <1>1, <3>1, NoSaveParts, WholeValues
      <3>2. CASE ReportStorageFailure /\ failed' = TRUE /\ save' = save
        <4>1. faults' > 0
          BY <1>2, <3>2, MediaSaveAssumption DEF ReportStorageFailure, Fault
        <4> QED
          BY <1>1, <1>2, <3>2, <4>1
             DEF SaveParts, SavePlaced, SaveStaged, SoundStaging, SoundUploadKept
      <3> QED
        BY <1>4, <3>1, <3>2
    <2> QED
      BY <2>1, <2>3, <2>4, <2>5, <2>6 DEF Inv, TypeOK, SaveParts
  <1> QED
    BY <1>3, <1>4, Zenon DEF Publish

LEMMA AbortMediaSaveKeeps ==
    ASSUME Inv, AbortMediaSave
    PROVE  Inv'
  <1>1. /\ save.phase # "idle" /\ save' = NoSave /\ failed' = FALSE
        /\ UNCHANGED Beside /\ save.place \in Places
    BY DEF AbortMediaSave, DiscardIncompleteMediaSave, Beside, Inv, SavePlaced
  <1>2. \/ ready /\ Succeeds /\ temp' = [temp EXCEPT ![save.place] = NoFile]
        \/ /\ ready /\ (Fails \/ ReportStorageFailure)
           /\ \E f \in {temp[save.place], NoFile} :
                temp' = [temp EXCEPT ![save.place] = f]
        \/ ~ready /\ UNCHANGED <<temp, ready, storage, faults>>
    BY Zenon DEF AbortMediaSave, DiscardIncompleteMediaSave
  <1>3. temp' \in [Places -> Files]
    BY <1>1, <1>2, WholeValues DEF Inv, TypeOK, CardOK
  <1>4. Succeeds \/ Fails \/ ReportStorageFailure
    BY <1>2 DEF Succeeds
  <1>5. CardOK'
    BY <1>1, <1>3 DEF Inv, TypeOK, CardOK, Beside
  <1>6. FlagsOK'
    BY <1>1, <1>4, CallOutcome DEF Inv, TypeOK, FlagsOK, Beside
  <1>7. UseOK'
    BY <1>1, <1>4, CallOutcome, WholeValues DEF Inv, TypeOK, UseOK, Handles, Beside
  <1>8. SaveParts'
    BY <1>1, NoSaveParts, WholeValues
  <1>9. NothingTwice'
    BY <1>1, NothingNewTwice, WholeValues DEF Inv, Beside
  <1>10. FilesWhole' /\ PlaybackOnCard'
    BY <1>1, LibraryUntouched DEF Inv, PlaybackOnCard, Beside
  <1> QED
    BY <1>5, <1>6, <1>7, <1>8, <1>9, <1>10 DEF Inv, TypeOK, SaveParts

-----------------------------------------------------------------------------
(***************************************************************************)
(* Deletion and playback.                                                  *)
(***************************************************************************)
\* While no save is under way the invariant is that of the card and playback.
LEMMA IdleKeeps ==
    ASSUME Inv, Idle, UNCHANGED saveVars,
           CardOK', marker' \in BOOLEAN, fresh' \in BOOLEAN,
           Succeeds \/ Fails \/ ReportStorageFailure,
           requests' \in 0 .. MaxRequests, playing' \in Handles,
           rejected' \in Slots \cup {NoSlot}, listed' \subseteq Media,
           FilesWhole', NothingTwice', PlaybackOnCard'
    PROVE  Inv'
  <1>1. /\ save.phase = "idle" /\ ~failed
        /\ save' = save /\ failed' = failed /\ saves' = saves
    BY DEF Idle, saveVars
  <1>2. FlagsOK'
    BY <1>1, CallOutcome DEF Inv, TypeOK, FlagsOK
  <1>3. UseOK'
    BY <1>1, CallOutcome DEF Inv, TypeOK, UseOK, Handles
  <1>4. SaveParts'
    BY <1>1, NoSaveParts
  <1> QED
    BY <1>2, <1>3, <1>4 DEF Inv, TypeOK, SaveParts

\* The same when the card is not touched.
LEMMA IdleUsed ==
    ASSUME Inv, Idle, UNCHANGED <<cardVars, saveVars, fresh, listed, requests>>,
           Succeeds \/ Fails \/ ReportStorageFailure,
           playing' \in Handles, rejected' \in Slots \cup {NoSlot}, PlaybackOnCard'
    PROVE  Inv'
  <1>1. CardOK' /\ FilesWhole'
    BY LibraryUntouched DEF Inv, TypeOK, CardOK, cardVars
  <1>2. NothingTwice'
    BY NothingNewTwice DEF Inv, Idle, saveVars, cardVars
  <1>3. marker' \in BOOLEAN /\ fresh' \in BOOLEAN
    BY DEF Inv, TypeOK, FlagsOK, cardVars
  <1>4. requests' \in 0 .. MaxRequests /\ listed' \subseteq Media
    BY DEF Inv, TypeOK, UseOK
  <1> QED
    BY <1>1, <1>2, <1>3, <1>4, IdleKeeps

LEMMA DeleteLibraryKeeps ==
    ASSUME Inv, NEW place \in Places, DeleteLibrary(place)
    PROVE  Inv'
  <1>1. /\ Idle /\ UNCHANGED <<temp, slot, marker, record, fresh, rejected, listed>>
        /\ UNCHANGED saveVars
        /\ requests < MaxRequests /\ requests' = requests + 1
    BY DEF DeleteLibrary, saveVars, Request
  <1>2. playing' = IF \/ place[1] = "photo" /\ playing[1] = "photo"
                      \/ playing = place
                   THEN NoPlace ELSE playing
    BY DEF DeleteLibrary
  <1>3. /\ \E f \in {file[place], NoFile} : file' = [file EXCEPT ![place] = f]
        /\ Succeeds \/ Fails \/ ReportStorageFailure
    <2>1. file = [file EXCEPT ![place] = file[place]]
      BY DEF Inv, TypeOK, CardOK
    <2> QED
      BY <2>1, Zenon DEF DeleteLibrary
  <1>4. file' \in [Places -> Files]
    BY <1>3, WholeValues DEF Inv, TypeOK, CardOK
  <1>5. \A q \in Places : /\ q # place => file'[q] = file[q]
                          /\ file'[q] # NoFile => file'[q] = file[q]
    BY <1>3 DEF Inv, TypeOK, CardOK
  <1>6. CardOK'
    BY <1>1, <1>4 DEF Inv, TypeOK, CardOK
  <1>7. FilesWhole'
    BY <1>5 DEF Inv, FilesWhole, Whole, CopiesDecode
  <1>8. NothingTwice'
    BY <1>1, NothingNewTwice DEF Inv, Idle, saveVars
  <1>9. PlaybackOnCard'
    <2>1. CASE playing' = NoPlace
      BY <2>1 DEF PlaybackOnCard
    <2>2. CASE playing' = playing /\ playing # place
      BY <1>1, <1>5, <2>2 DEF Inv, PlaybackOnCard
    <2> QED
      BY <1>2, <2>1, <2>2
  <1>10. requests' \in 0 .. MaxRequests /\ playing' \in Handles
         /\ rejected' \in Slots \cup {NoSlot} /\ listed' \subseteq Media
    BY <1>1, <1>2, MediaSaveAssumption DEF Inv, TypeOK, UseOK, Handles
  <1>11. marker' \in BOOLEAN /\ fresh' \in BOOLEAN
    BY <1>1 DEF Inv, TypeOK, FlagsOK
  <1> QED
    BY <1>1, <1>3, <1>6, <1>7, <1>8, <1>9, <1>10, <1>11, IdleKeeps

LEMMA OpenMediaKeeps ==
    ASSUME Inv, OpenMedia
    PROVE  Inv'
  <1>1. /\ Idle /\ UNCHANGED <<cardVars, fresh, saveVars, rejected, listed, requests>>
        /\ UNCHANGED <<cardVars, saveVars, fresh, listed, requests>>
        /\ UNCHANGED <<file, slot>>
    BY DEF OpenMedia, cardVars
  <1>2. PICK place : /\ Opens(place)
                     /\ \/ place \in Places /\ file[place] # NoFile
                        \/ NewestSlot # NoSlot /\ place = SlotPlace(NewestSlot)
    BY Zenon DEF OpenMedia
  <1>3. /\ Succeeds \/ Fails \/ ReportStorageFailure
        /\ playing' \in {place, NoPlace}
    BY <1>2 DEF Opens, ClosePlayback
  <1>4. playing' \in Handles /\ rejected' \in Slots \cup {NoSlot}
    BY <1>1, <1>2, <1>3, NewestUsable DEF Handles, Inv, TypeOK, UseOK
  <1>5. PlaybackOnCard'
    BY <1>1, <1>2, <1>3, NewestUsable, PlacesDiffer DEF PlaybackOnCard
  <1> QED
    BY <1>1, <1>3, <1>4, <1>5, IdleUsed

LEMMA ReadMediaFrameFailsKeeps ==
    ASSUME Inv, ReadMediaFrameFails
    PROVE  Inv'
  <1>1. /\ Idle /\ UNCHANGED <<cardVars, saveVars, fresh, listed, requests>>
        /\ Fails \/ ReportStorageFailure
        /\ playing' = NoPlace
        /\ rejected' = IF playing[1] = "slot" THEN playing[2] ELSE NoSlot
    BY DEF ReadMediaFrameFails, ClosePlayback, cardVars, saveVars
  <1>2. rejected' \in Slots \cup {NoSlot}
    BY <1>1, PlacesDiffer DEF Inv, TypeOK, UseOK, Handles, NoPlace
  <1>3. playing' \in Handles /\ PlaybackOnCard'
    BY <1>1 DEF Handles, PlaybackOnCard
  <1> QED
    BY <1>1, <1>2, <1>3, IdleUsed

\* A step of playback alone.
LEMMA CloseMediaPlaybackKeeps ==
    ASSUME Inv, CloseMediaPlayback
    PROVE  Inv'
  <1>1. /\ playing' = NoPlace
        /\ UNCHANGED <<cardVars, mountVars, saveVars, rejected, listed, requests, faults>>
    BY DEF CloseMediaPlayback, ClosePlayback
  <1>2. CardOK' /\ UseOK'
    BY <1>1 DEF Inv, TypeOK, CardOK, UseOK, Handles, cardVars, mountVars, saveVars
  <1>3. FlagsOK'
    BY <1>1 DEF Inv, TypeOK, FlagsOK, cardVars, mountVars, saveVars
  <1>4. SaveParts'
    BY <1>1 DEF Inv, SaveParts, SavePlaced, SaveStaged, SoundStaging, SoundUploadKept,
                cardVars, mountVars, saveVars
  <1>5. FilesWhole' /\ NothingTwice'
    BY <1>1, LibraryUntouched, NothingNewTwice DEF Inv, cardVars, saveVars
  <1>6. PlaybackOnCard'
    BY <1>1 DEF PlaybackOnCard
  <1> QED
    BY <1>2, <1>3, <1>4, <1>5, <1>6 DEF Inv, TypeOK, SaveParts

-----------------------------------------------------------------------------
(***************************************************************************)
(* Settings.                                                               *)
(***************************************************************************)
\* The generation after g is newer than g and not the other way round, over the
\* wrap too.
LEMMA NextIsNewer ==
    ASSUME NEW g \in 0 .. Generations - 1
    PROVE  LET n == (g + 1) % Generations
           IN  n \in 0 .. Generations - 1 /\ Newer(n, g) /\ ~Newer(g, n)
  <1> DEFINE G == Generations
             half == (G - 1) \div 2
             n == (g + 1) % G
  <1>1. G \in Nat /\ G > 2 /\ half \in Nat /\ half >= 1 /\ half < G - 1
    BY MediaSaveAssumption
  <1>2. 1 % G = 1 /\ (G - 1) % G = G - 1
    BY <1>1
  <1>3. (-1) % G = G - 1 /\ (-(G - 1)) % G = 1
    <2>1. -1 = (-1) * G + (G - 1) /\ -(G - 1) = (-1) * G + 1
      BY <1>1
    <2> QED
      BY <1>1, <2>1
  <1>4. CASE g + 1 < G
    <2>1. n = g + 1
      BY <1>1, <1>4
    <2>2. n - g = 1 /\ g - n = -1
      BY <2>1
    <2> QED
      BY <1>1, <1>2, <1>3, <2>1, <2>2 DEF Newer
  <1>5. CASE g + 1 = G
    <2>1. n = 0
      BY <1>1, <1>5
    <2>2. n - g = -(G - 1) /\ g - n = G - 1
      BY <1>1, <1>5, <2>1
    <2> QED
      BY <1>1, <1>2, <1>3, <2>1, <2>2 DEF Newer
  <1> QED
    BY <1>1, <1>4, <1>5

\* The record that is written over is never the newest: damaged it leaves the
\* settings as they were, complete it becomes the newest.
LEMMA SettingsSaved ==
    ASSUME record \in [Slots -> Records]
    PROVE  /\ Target \in Slots /\ NextGeneration \in 0 .. Generations - 1
           /\ \A r \in Records :
                ~r.valid => Settings([record EXCEPT ![Target] = r]) = Settings(record)
           /\ \A r \in Records :
                r.valid /\ r.generation = NextGeneration =>
                    Settings([record EXCEPT ![Target] = r]) = r.value
  <1>1. Target \in Slots /\ 0 \in Slots /\ 1 \in Slots /\ NoSlot \notin Slots
    BY DEF Target, Slots, NoSlot
  <1>2. \A s \in Slots : record[s] \in Records /\ record[s].generation \in 0 .. Generations - 1
    BY DEF Records
  <1>3. CASE Newest(record) = NoSlot
    <2>1. /\ ~record[0].valid /\ ~record[1].valid /\ Target = 0
      BY <1>3 DEF Newest, NoSlot, Target
    <2>2. NextGeneration \in 0 .. Generations - 1
      BY <1>3, MediaSaveAssumption DEF NextGeneration
    <2>3. ASSUME NEW r \in Records
          PROVE  /\ [record EXCEPT ![Target] = r][0] = r
                 /\ [record EXCEPT ![Target] = r][1] = record[1]
      BY <1>1, <2>1
    <2>4. ASSUME NEW r \in Records
          PROVE  /\ ~r.valid => Settings([record EXCEPT ![Target] = r]) = "none"
                 /\ r.valid => Settings([record EXCEPT ![Target] = r]) = r.value
      BY <2>1, <2>3 DEF Settings, Newest, NoSlot
    <2> QED
      BY <1>1, <1>3, <2>2, <2>4 DEF Settings
  <1>4. CASE Newest(record) = 0
    <2>1. /\ record[0].valid /\ Target = 1
      BY <1>4 DEF Newest, NoSlot, Target
    <2>2. NextGeneration = (record[0].generation + 1) % Generations
      BY <1>4 DEF NextGeneration, NoSlot
    <2>3. ASSUME NEW r \in Records
          PROVE  /\ [record EXCEPT ![Target] = r][0] = record[0]
                 /\ [record EXCEPT ![Target] = r][1] = r
      BY <1>1, <2>1
    <2>4. NextGeneration \in 0 .. Generations - 1 /\ Newer(NextGeneration, record[0].generation)
      BY <1>1, <1>2, <2>2, NextIsNewer
    <2>5. ASSUME NEW r \in Records
          PROVE  /\ ~r.valid => Settings([record EXCEPT ![Target] = r]) = record[0].value
                 /\ r.valid /\ r.generation = NextGeneration =>
                        Settings([record EXCEPT ![Target] = r]) = r.value
      BY <2>1, <2>3, <2>4 DEF Settings, Newest, NoSlot
    <2> QED
      BY <1>1, <1>4, <2>4, <2>5 DEF Settings, NoSlot
  <1>5. CASE Newest(record) = 1
    <2>1. /\ record[1].valid /\ Target = 0
      BY <1>5 DEF Newest, NoSlot, Target
    <2>2. NextGeneration = (record[1].generation + 1) % Generations
      BY <1>5 DEF NextGeneration, NoSlot
    <2>3. ASSUME NEW r \in Records
          PROVE  /\ [record EXCEPT ![Target] = r][0] = r
                 /\ [record EXCEPT ![Target] = r][1] = record[1]
      BY <1>1, <2>1
    <2>4. NextGeneration \in 0 .. Generations - 1 /\ ~Newer(record[1].generation, NextGeneration)
      BY <1>1, <1>2, <2>2, NextIsNewer
    <2>5. ASSUME NEW r \in Records
          PROVE  /\ ~r.valid => Settings([record EXCEPT ![Target] = r]) = record[1].value
                 /\ r.valid /\ r.generation = NextGeneration =>
                        Settings([record EXCEPT ![Target] = r]) = r.value
      BY <2>1, <2>3, <2>4 DEF Settings, Newest, NoSlot
    <2> QED
      BY <1>1, <1>5, <2>4, <2>5 DEF Settings, NoSlot
  <1>6. Newest(record) \in {NoSlot, 0, 1}
    BY DEF Newest
  <1> QED
    BY <1>3, <1>4, <1>5, <1>6

\* What a saved setting leaves on the card.
LEMMA SettingsStep ==
    ASSUME Inv, SaveGallerySettings
    PROVE  /\ record' \in [Slots -> Records]
           /\ record' # record =>
                \/ Settings(record') = Settings(record)
                \/ \E value \in Selections : /\ Settings(record') = value
                                             /\ record'[Target].value = value
           /\ Idle
           /\ Succeeds \/ Fails \/ ReportStorageFailure
           /\ requests < MaxRequests /\ requests' = requests + 1
           /\ UNCHANGED <<temp, file, slot, marker, fresh, saveVars, playing, rejected,
                          listed>>
  <1>1. /\ Idle /\ requests < MaxRequests /\ requests' = requests + 1
        /\ UNCHANGED <<temp, file, slot, marker, fresh, saveVars, playing, rejected,
                       listed>>
    BY DEF SaveGallerySettings, Request
  <1>2. PICK value \in Selections :
           LET new == [valid |-> TRUE, generation |-> NextGeneration, value |-> value]
           IN  \/ record' = [record EXCEPT ![Target] = new] /\ Succeeds
               \/ /\ \E r \in {record[Target], BadRecord, new} :
                       record' = [record EXCEPT ![Target] = r]
                  /\ Fails \/ ReportStorageFailure
    BY Zenon DEF SaveGallerySettings
  <1> DEFINE new == [valid |-> TRUE, generation |-> NextGeneration, value |-> value]
  <1>3. record \in [Slots -> Records]
    BY DEF Inv, TypeOK, CardOK
  <1>4. Target \in Slots /\ record[Target] \in Records
        /\ NextGeneration \in 0 .. Generations - 1
    BY <1>3, SettingsSaved
  <1>5. new \in Records /\ new.valid /\ new.generation = NextGeneration
        /\ new.value = value
    BY <1>4 DEF Records
  <1>6. BadRecord \in Records /\ ~BadRecord.valid
    BY WholeValues DEF BadRecord
  <1>7. Succeeds \/ Fails \/ ReportStorageFailure
    BY <1>2
  <1>8. \E r \in {record[Target], BadRecord, new} : record' = [record EXCEPT ![Target] = r]
    BY <1>2
  <1> HIDE DEF new
  <1>9. CASE record' = [record EXCEPT ![Target] = new]
    <2>1. Settings(record') = value /\ record' \in [Slots -> Records]
          /\ record'[Target].value = value
      BY <1>3, <1>4, <1>5, <1>9, SettingsSaved
    <2> QED
      BY <1>1, <1>7, <2>1
  <1>10. CASE record' = [record EXCEPT ![Target] = BadRecord]
    <2>1. Settings(record') = Settings(record) /\ record' \in [Slots -> Records]
      BY <1>3, <1>4, <1>6, <1>10, SettingsSaved
    <2> QED
      BY <1>1, <1>7, <2>1
  <1>11. CASE record' = [record EXCEPT ![Target] = record[Target]]
    <2>1. record' = record
      BY <1>3, <1>11
    <2> QED
      BY <1>1, <1>3, <1>7, <2>1
  <1> QED
    BY <1>8, <1>9, <1>10, <1>11

LEMMA SaveGallerySettingsKeeps ==
    ASSUME Inv, SaveGallerySettings
    PROVE  Inv'
  <1>1. /\ record' \in [Slots -> Records] /\ Idle
        /\ Succeeds \/ Fails \/ ReportStorageFailure
        /\ requests < MaxRequests /\ requests' = requests + 1
        /\ UNCHANGED <<temp, file, slot, marker, fresh, playing, rejected, listed>>
        /\ UNCHANGED saveVars
    BY SettingsStep
  <1>2. CardOK' /\ FilesWhole'
    BY <1>1, LibraryUntouched DEF Inv, TypeOK, CardOK
  <1>3. NothingTwice'
    BY <1>1, NothingNewTwice DEF Inv, Idle, saveVars
  <1>4. requests' \in 0 .. MaxRequests /\ playing' \in Handles
         /\ rejected' \in Slots \cup {NoSlot} /\ listed' \subseteq Media
    BY <1>1, MediaSaveAssumption DEF Inv, TypeOK, UseOK, Handles
  <1>5. marker' \in BOOLEAN /\ fresh' \in BOOLEAN
    BY <1>1 DEF Inv, TypeOK, FlagsOK
  <1>6. PlaybackOnCard'
    BY <1>1 DEF Inv, PlaybackOnCard
  <1> QED
    BY <1>1, <1>2, <1>3, <1>4, <1>5, <1>6, IdleKeeps

-----------------------------------------------------------------------------
(***************************************************************************)
(* Adopting a clip.                                                        *)
(***************************************************************************)
LEMMA MarkOutcome ==
    ASSUME MarkImported
    PROVE  marker' \in BOOLEAN /\ (Succeeds \/ Fails \/ ReportStorageFailure)
  <1>1. marker' \in BOOLEAN
    BY DEF MarkImported
  <1>2. Succeeds \/ Fails \/ ReportStorageFailure
    BY DEF MarkImported
  <1> QED
    BY <1>1, <1>2

\* An adopted clip is whole and new, and its place is free.
LEMMA AdoptedWhole ==
    ASSUME Inv, Adoptable, Adopt
    PROVE  \E place \in Places, s \in Slots :
               /\ place = <<"video", AllocateLibraryId("video")>>
               /\ AllocateLibraryId("video") \in Ids
               /\ s = NewestSlot /\ file[place] = NoFile
               /\ Whole(LegacyClip(s)) /\ LegacyClip(s).media = Clip(s)
               /\ LegacyClip(s) # NoFile
               /\ Clip(s) \in Media \ listed
               /\ file' = [file EXCEPT ![place] = LegacyClip(s)]
               /\ slot' = [slot EXCEPT ![s] = EmptySlot]
               /\ listed' = listed \cup {Clip(s)}
               /\ rejected' = NoSlot /\ MarkImported
  <1> DEFINE place == <<"video", AllocateLibraryId("video")>>
             s == NewestSlot
  <1>1. FreeId("video") # {} /\ "video" \in Kinds
    BY DEF Adopt, Kinds
  <1>2. /\ place \in Places /\ file[place] = NoFile
        /\ AllocateLibraryId("video") \in Ids
    BY <1>1, AllocatedFree
  <1>3. s \in Slots /\ slot[s].kind # "none"
    BY NewestUsable DEF Adoptable
  <1>4. Clip(s) \in Media \ listed
    BY <1>3, MediaDiffer DEF Inv, NothingTwice
  <1>5. /\ Whole(LegacyClip(s)) /\ LegacyClip(s).media = Clip(s)
        /\ LegacyClip(s) # NoFile
    BY DEF Whole, LegacyClip, NoFile
  <1>6. /\ file' = [file EXCEPT ![place] = LegacyClip(s)]
        /\ slot' = [slot EXCEPT ![s] = EmptySlot]
        /\ listed' = listed \cup {Clip(s)}
        /\ rejected' = NoSlot /\ MarkImported
    BY Zenon DEF Adopt
  <1> QED
    BY <1>2, <1>3, <1>4, <1>5, <1>6

LEMMA ImportLastVideoKeeps ==
    ASSUME Inv, ImportLastVideo
    PROVE  Inv'
  <1>1. /\ Idle /\ fresh' = FALSE /\ UNCHANGED <<temp, record, saveVars, requests>>
        /\ UNCHANGED saveVars
    BY DEF ImportLastVideo, saveVars
  <1>2. fresh' \in BOOLEAN /\ requests' \in 0 .. MaxRequests
    BY <1>1 DEF Inv, TypeOK, UseOK
  <1>3. ASSUME UNCHANGED <<file, slot, listed, rejected>>, marker' \in BOOLEAN,
               Succeeds \/ Fails \/ ReportStorageFailure,
               playing' \in {playing, NoPlace}
        PROVE  Inv'
    <2>1. CardOK' /\ FilesWhole'
      BY <1>1, <1>3, LibraryUntouched DEF Inv, TypeOK, CardOK
    <2>2. NothingTwice'
      BY <1>1, <1>3, NothingNewTwice DEF Inv, Idle, saveVars
    <2>3. PlaybackOnCard'
      BY <1>3 DEF Inv, PlaybackOnCard
    <2>4. /\ playing' \in Handles /\ rejected' \in Slots \cup {NoSlot}
          /\ listed' \subseteq Media
      BY <1>3 DEF Inv, TypeOK, UseOK, Handles
    <2> QED
      BY <1>1, <1>2, <1>3, <2>1, <2>2, <2>3, <2>4, IdleKeeps
  <1>4. CASE marker /\ Succeeds /\ UNCHANGED <<file, slot, marker, listed, rejected, playing>>
    <2>1. marker' \in BOOLEAN
      BY <1>4 DEF Inv, TypeOK, FlagsOK
    <2> QED
      BY <1>3, <1>4, <2>1
  <1>5. CASE MarkImported /\ UNCHANGED <<file, slot, listed, rejected, playing>>
    BY <1>3, <1>5, MarkOutcome
  <1>6. CASE /\ Fails \/ ReportStorageFailure
             /\ playing' \in {playing, NoPlace}
             /\ UNCHANGED <<file, slot, marker, listed, rejected>>
    <2>1. marker' \in BOOLEAN
      BY <1>6 DEF Inv, TypeOK, FlagsOK
    <2> QED
      BY <1>3, <1>6, <2>1
  <1>7. CASE Adoptable /\ Adopt /\ ClosePlayback
    <2>1. PICK place \in Places, s \in Slots :
             /\ file[place] = NoFile
             /\ Whole(LegacyClip(s)) /\ LegacyClip(s).media = Clip(s)
             /\ Clip(s) \in Media \ listed
             /\ file' = [file EXCEPT ![place] = LegacyClip(s)]
             /\ slot' = [slot EXCEPT ![s] = EmptySlot]
             /\ listed' = listed \cup {Clip(s)}
             /\ rejected' = NoSlot /\ MarkImported
      BY <1>7, AdoptedWhole, Zenon
    <2>2. playing' = NoPlace
      BY <1>7 DEF ClosePlayback
    <2>3. /\ marker' \in BOOLEAN
          /\ Succeeds \/ Fails \/ ReportStorageFailure
      BY <2>1, MarkOutcome
    <2>4. /\ file \in [Places -> Files] /\ slot \in [Slots -> SlotFiles]
          /\ listed \subseteq Media
      BY DEF Inv, TypeOK, CardOK, UseOK
    <2>5. CardOK'
      <3>1. LegacyClip(s) \in Files /\ EmptySlot \in SlotFiles
        BY WholeValues
      <3>2. file' \in [Places -> Files] /\ slot' \in [Slots -> SlotFiles]
        BY <2>1, <2>4, <3>1
      <3> QED
        BY <1>1, <3>2 DEF Inv, TypeOK, CardOK
    <2>6. FilesWhole'
      <3> SUFFICES ASSUME NEW q \in Places, file'[q] # NoFile
                   PROVE  Whole(file'[q]) /\ file'[q].media \in Media
        BY DEF FilesWhole, Whole, CopiesDecode
      <3>1. CASE q = place
        BY <2>1, <2>4, <3>1
      <3>2. CASE q # place
        BY <2>1, <2>4, <3>2 DEF Inv, FilesWhole
      <3> QED
        BY <3>1, <3>2
    <2>7. NothingTwice'
      <3>1. \A r \in Slots : slot'[r].kind # "none" =>
                                r # s /\ slot[r].kind # "none"
        BY <2>1, <2>4 DEF EmptySlot
      <3>2. \A r \in Slots : r # s => Clip(r) # Clip(s)
        BY MediaDiffer
      <3>3. saves' = saves /\ save'.phase = "idle"
        BY <1>1 DEF Idle, saveVars
      <3>4. \A n \in saves + 1 .. MaxSaves : Upload(n) # Clip(s)
        <4>1. \A n \in saves + 1 .. MaxSaves : n \in 1 .. MaxSaves
          BY MediaSaveAssumption DEF Inv, TypeOK, UseOK
        <4> QED
          BY <4>1, MediaDiffer
      <3> QED
        BY <2>1, <3>1, <3>2, <3>3, <3>4 DEF Inv, NothingTwice
    <2>8. /\ PlaybackOnCard' /\ playing' \in Handles
          /\ rejected' \in Slots \cup {NoSlot} /\ listed' \subseteq Media
      BY <2>1, <2>2, <2>4 DEF PlaybackOnCard, Handles
    <2> QED
      BY <1>1, <1>2, <2>3, <2>5, <2>6, <2>7, <2>8, IdleKeeps
  <1> QED
    BY <1>4, <1>5, <1>6, <1>7, Zenon DEF ImportLastVideo

-----------------------------------------------------------------------------
(***************************************************************************)
(* The card goes and comes back.                                           *)
(***************************************************************************)
\* A session that ends, or begins, leaves no save and no open file.
LEMMA SessionKeeps ==
    ASSUME Inv, UNCHANGED <<file, slot, marker, record, saves, listed, requests>>,
           temp' \in [Places -> Files], save' = NoSave, ~failed', failed' \in BOOLEAN,
           playing' = NoPlace, rejected' = NoSlot,
           ready' \in BOOLEAN, fresh' \in BOOLEAN,
           storage' \in {"ready", "recovering", "unavailable"},
           faults' \in 0 .. MaxFaults
    PROVE  Inv'
  <1>1. CardOK' /\ UseOK'
    BY WholeValues DEF Inv, TypeOK, CardOK, UseOK, Handles
  <1>2. FlagsOK'
    BY DEF Inv, TypeOK, FlagsOK
  <1>3. SaveParts'
    BY NoSaveParts, WholeValues
  <1>4. NothingTwice'
    BY NothingNewTwice, WholeValues DEF Inv
  <1>5. FilesWhole' /\ PlaybackOnCard'
    BY LibraryUntouched DEF Inv, PlaybackOnCard
  <1> QED
    BY <1>1, <1>2, <1>3, <1>4, <1>5 DEF Inv, TypeOK, SaveParts

LEMMA UpdateKeeps ==
    ASSUME Inv, Update
    PROVE  Inv'
  <1>1. CASE Recover
    <2>1. /\ UNCHANGED <<file, slot, marker, record, saves, listed, requests>>
          /\ save' = NoSave /\ failed' = failed /\ ~failed
          /\ playing' = NoPlace /\ rejected' = NoSlot
          /\ storage' = "unavailable" /\ faults' = faults /\ temp' = temp
      BY <1>1 DEF Recover, DiscardSession, cardVars
    <2>2. ready' \in BOOLEAN /\ fresh' \in BOOLEAN /\ failed' \in BOOLEAN
      BY <1>1 DEF Recover, Inv, TypeOK, FlagsOK
    <2>3. temp' \in [Places -> Files] /\ faults' \in 0 .. MaxFaults
      BY <2>1 DEF Inv, TypeOK, CardOK, UseOK
    <2> QED
      BY <2>1, <2>2, <2>3, SessionKeeps
  <1>2. CASE Initialize
    <2>1. UNCHANGED <<cardVars, saveVars, playing, rejected, listed, requests>>
      BY <1>2 DEF Initialize
    <2>2. /\ storage' \in {"ready", "recovering", "unavailable"}
          /\ faults' \in 0 .. MaxFaults /\ (faults' = 0 => faults = 0)
          /\ (ready => ready')
      BY <1>2, MediaSaveAssumption
         DEF Initialize, mountVars, Fault, Inv, TypeOK, UseOK
    <2>3. ready' \in BOOLEAN /\ fresh' \in BOOLEAN
      BY <1>2 DEF Initialize, mountVars, Inv, TypeOK, FlagsOK
    <2>4. CardOK' /\ UseOK'
      BY <2>1, <2>2 DEF Inv, TypeOK, CardOK, UseOK, Handles, cardVars, saveVars
    <2>5. FlagsOK'
      BY <2>1, <2>3 DEF Inv, TypeOK, FlagsOK, cardVars, saveVars
    <2>6. SavePlaced' /\ SaveStaged' /\ SoundStaging'
      BY <2>1, <2>2 DEF Inv, SavePlaced, SaveStaged, SoundStaging, cardVars, saveVars
    <2>7. SoundUploadKept'
      BY <2>1, <2>2, MediaSaveAssumption
         DEF Inv, SoundUploadKept, saveVars, TypeOK, UseOK
    <2>8. FilesWhole' /\ NothingTwice' /\ PlaybackOnCard'
      BY <2>1, LibraryUntouched, NothingNewTwice
         DEF Inv, PlaybackOnCard, cardVars, saveVars
    <2> QED
      BY <2>4, <2>5, <2>6, <2>7, <2>8 DEF Inv, TypeOK
  <1> QED
    BY <1>1, <1>2 DEF Update

LEMMA HealthCheckFailsKeeps ==
    ASSUME Inv, HealthCheckFails
    PROVE  Inv'
  <1>1. /\ Idle /\ ReportStorageFailure
        /\ UNCHANGED <<cardVars, fresh, saveVars, playing, rejected, listed, requests>>
        /\ UNCHANGED <<cardVars, saveVars, fresh, listed, requests>>
    BY DEF HealthCheckFails
  <1>2. playing' \in Handles /\ rejected' \in Slots \cup {NoSlot} /\ PlaybackOnCard'
    BY <1>1 DEF Inv, TypeOK, UseOK, Handles, PlaybackOnCard, cardVars
  <1> QED
    BY <1>1, <1>2, IdleUsed

LEMMA PowerLossKeeps ==
    ASSUME Inv, PowerLoss
    PROVE  Inv'
  <1>1. /\ UNCHANGED <<file, slot, marker, record, saves, listed, requests>>
        /\ save' = NoSave /\ failed' = FALSE
        /\ playing' = NoPlace /\ rejected' = NoSlot
        /\ storage' = "unavailable" /\ Fault
    BY DEF PowerLoss, DiscardSession
  <1>2. ready' \in BOOLEAN /\ fresh' \in BOOLEAN /\ failed' \in BOOLEAN
    BY DEF PowerLoss
  <1>3. faults' \in 0 .. MaxFaults
    BY <1>1, MediaSaveAssumption DEF Fault, Inv, TypeOK, UseOK
  <1>4. temp' \in [Places -> Files]
    <2>1. CASE save.phase # "writing"
      BY <2>1 DEF PowerLoss, Inv, TypeOK, CardOK
    <2>2. CASE save.phase = "writing"
      <3>1. /\ save.place \in Places /\ temp \in [Places -> Files]
            /\ temp[save.place] \in Files
        BY <2>2 DEF Inv, SavePlaced, TypeOK, CardOK
      <3>2. Staged(save.media) \in Files
        BY DEF Inv, TypeOK, UseOK, Saves, Files, Staged
      <3>3. PICK f \in {temp[save.place], Staged(save.media), NoFile} :
               temp' = [temp EXCEPT ![save.place] = f]
        BY <2>2 DEF PowerLoss
      <3> QED
        BY <3>1, <3>2, <3>3, WholeValues
    <2> QED
      BY <2>1, <2>2
  <1> QED
    BY <1>1, <1>2, <1>3, <1>4, SessionKeeps

-----------------------------------------------------------------------------
(***************************************************************************)
(* The invariant holds.                                                    *)
(***************************************************************************)
LEMMA InitInv == Init => Inv
  <1> SUFFICES ASSUME Init PROVE Inv
    OBVIOUS
  <1>1. /\ temp = [p \in Places |-> NoFile] /\ file = [p \in Places |-> NoFile]
        /\ save = NoSave /\ playing = NoPlace /\ rejected = NoSlot
        /\ listed = {} /\ saves = 0 /\ requests = 0 /\ faults = 0
        /\ storage = "unavailable" /\ ~failed
    BY DEF Init
  <1>2. \A s \in Slots : (s - 1) % Generations \in 0 .. Generations - 1
    BY MediaSaveAssumption DEF Slots
  <1>3. slot \in [Slots -> SlotFiles]
    <2>1. \A older, newer \in Kinds : LegacySlots(older, newer) \in [Slots -> SlotFiles]
      BY <1>2 DEF LegacySlots, SlotFiles
    <2>2. [s \in Slots |-> EmptySlot] \in [Slots -> SlotFiles]
      BY WholeValues
    <2>3. "video" \in Kinds
      BY DEF Kinds
    <2> QED
      BY <2>1, <2>2, <2>3 DEF Init
  <1>4. record \in [Slots -> Records]
    <2>1. WornRecords \in [Slots -> Records]
      BY <1>2 DEF WornRecords, Records
    <2>2. [s \in Slots |-> BadRecord] \in [Slots -> Records]
      BY WholeValues
    <2> QED
      BY <2>1, <2>2 DEF Init
  <1>5. CardOK
    BY <1>1, <1>3, <1>4, WholeValues DEF CardOK
  <1>6. FlagsOK
    BY DEF Init, FlagsOK
  <1>7. UseOK
    BY <1>1, WholeValues, MediaSaveAssumption DEF UseOK, Handles
  <1>8. SavePlaced /\ SaveStaged /\ SoundStaging /\ SoundUploadKept
    BY <1>1, WholeValues DEF SavePlaced, SaveStaged, SoundStaging, SoundUploadKept
  <1>9. FilesWhole /\ NothingTwice /\ PlaybackOnCard
    BY <1>1, WholeValues DEF FilesWhole, NothingTwice, PlaybackOnCard
  <1> QED
    BY <1>5, <1>6, <1>7, <1>8, <1>9 DEF Inv, TypeOK

LEMMA NextInv == Inv /\ [Next]_vars => Inv'
  <1> SUFFICES ASSUME Inv, [Next]_vars PROVE Inv'
    OBVIOUS
  <1>1. CASE Saving
    BY <1>1, BeginLibraryKeeps, AppendMediaBytesKeeps, StartMediaVerificationKeeps,
       VerifyPayloadKeeps, PrepareCopiesKeeps, CopiesDifferKeeps, PublishKeeps,
       AbortMediaSaveKeeps, Zenon DEF Saving
  <1>2. CASE Using
    BY <1>2, DeleteLibraryKeeps, OpenMediaKeeps, ReadMediaFrameFailsKeeps,
       CloseMediaPlaybackKeeps, SaveGallerySettingsKeeps, ImportLastVideoKeeps, Zenon
       DEF Using
  <1>3. CASE UNCHANGED vars
    <2>1. UNCHANGED <<cardVars, mountVars, saveVars, playing, rejected, listed,
                      requests, faults>>
      BY <1>3 DEF vars
    <2> QED
      BY <2>1 DEF Inv, TypeOK, CardOK, FlagsOK, UseOK, SavePlaced, SaveStaged,
         SoundStaging, SoundUploadKept, FilesWhole, Whole, CopiesDecode, NothingTwice,
         PlaybackOnCard, cardVars, mountVars, saveVars
  <1> QED
    BY <1>1, <1>2, <1>3, UpdateKeeps, HealthCheckFailsKeeps, PowerLossKeeps, Zenon
       DEF Next

\* The manager's save and playback agree with what is on the card: saves are
\* staged next to a free place and verified before they are renamed, nothing
\* but whole files has a final name, and an upload that arrived as declared is
\* given up only after a failure (MemoryManager, MemoryStorage).
THEOREM InvHolds == Spec => []Inv
  BY InitInv, NextInv, PTL DEF Spec

-----------------------------------------------------------------------------
(***************************************************************************)
(* The library that a reader of the card sees.                             *)
(***************************************************************************)
LEMMA ListingStutters ==
    ASSUME UNCHANGED <<file, listed>>
    PROVE  UNCHANGED <<Listing, listed>>
  BY DEF Listing, Whole, CopiesDecode

LEMMA ListedMedia ==
    ASSUME FilesWhole
    PROVE  Listing = [p \in Places |-> IF file[p] = NoFile THEN NoMedia ELSE file[p].media]
  BY DEF Listing, FilesWhole

\* A whole new file in a free place is a publication.
LEMMA Publishes ==
    ASSUME Inv, Inv', NEW p \in Places, NEW f, file[p] = NoFile, f # NoFile,
           f.media \in Media \ listed,
           file' = [file EXCEPT ![p] = f], listed' = listed \cup {f.media}
    PROVE  L!Publish(p, f.media)
  <1>1. /\ file \in [Places -> Files]
        /\ FilesWhole /\ FilesWhole'
    BY DEF Inv, TypeOK, CardOK
  <1>2. Listing[p] = NoMedia
    BY <1>1, ListedMedia
  <1>3. Listing' = [q \in Places |-> IF file'[q] = NoFile THEN NoMedia ELSE file'[q].media]
    <2>1. Listing' = [q \in Places |->
                         IF file'[q] = NoFile THEN NoMedia
                         ELSE IF (Whole(file[q]))' THEN file'[q].media ELSE -1]
      BY DEF Listing
    <2>2. \A q \in Places : file'[q] # NoFile => (Whole(file[q]))'
      BY <1>1 DEF FilesWhole
    <2> QED
      BY <2>1, <2>2
  <1>4. Listing' = [Listing EXCEPT ![p] = f.media]
    <2>1. \A q \in Places : Listing'[q] = IF q = p THEN f.media ELSE Listing[q]
      BY <1>1, <1>3, ListedMedia
    <2> QED
      BY <1>1, <1>3, <2>1, ListedMedia
  <1> QED
    BY <1>2, <1>4 DEF L!Publish

\* A file that is gone is a deletion.
LEMMA Deletes ==
    ASSUME Inv, Inv', NEW p \in Places, file[p] # NoFile,
           file' = [file EXCEPT ![p] = NoFile], listed' = listed
    PROVE  L!Delete(p)
  <1>1. /\ file \in [Places -> Files]
        /\ FilesWhole /\ FilesWhole'
    BY DEF Inv, TypeOK, CardOK
  <1>2. Listing[p] # NoMedia
    BY <1>1, ListedMedia, MediaDiffer DEF FilesWhole
  <1>3. \A q \in Places : Listing'[q] = IF q = p THEN NoMedia ELSE Listing[q]
    BY <1>1, WholeValues DEF Listing, Whole, CopiesDecode
  <1>4. Listing' = [Listing EXCEPT ![p] = NoMedia]
    BY <1>3 DEF Listing
  <1> QED
    BY <1>2, <1>4 DEF L!Delete

LEMMA NextRefines ==
    Inv /\ Inv' /\ [Next]_vars => [L!Next]_<<Listing, listed>>
  <1> SUFFICES ASSUME Inv, Inv', [Next]_vars
               PROVE  L!Next \/ UNCHANGED <<Listing, listed>>
    OBVIOUS
  <1>1. ASSUME UNCHANGED <<file, listed>> PROVE UNCHANGED <<Listing, listed>>
    BY <1>1, ListingStutters
  <1>2. CASE Saving
    <2>1. CASE Publish
      <3>1. CASE UNCHANGED <<file, listed>>
        BY <1>1, <3>1
      <3>2. CASE Renamed
        <4>1. /\ save.place \in Places /\ file[save.place] = NoFile
              /\ Headed # NoFile /\ Headed.media = save.media
              /\ save.media \in Media \ listed
          BY <2>1, PublishedWhole DEF Publish
        <4>2. /\ file' = [file EXCEPT ![save.place] = Headed]
              /\ listed' = listed \cup {save.media}
          BY <3>2 DEF Renamed
        <4>3. L!Publish(save.place, save.media)
          BY <4>1, <4>2, Publishes
        <4> QED
          BY <4>1, <4>3 DEF L!Next
      <3> QED
        BY <2>1, <3>1, <3>2 DEF Publish
    <2>2. CASE ~Publish
      <3>1. UNCHANGED <<file, listed>>
        BY <1>2, <2>2
           DEF Saving, BeginLibrary, AppendMediaBytes, StartMediaVerification,
               VerifyPayload, PrepareCopies, CopiesDiffer, AbortMediaSave, cardVars
      <3> QED
        BY <1>1, <3>1
    <2> QED
      BY <2>1, <2>2
  <1>3. CASE Using
    <2>1. ASSUME NEW place \in Places, DeleteLibrary(place)
          PROVE  L!Next \/ UNCHANGED <<Listing, listed>>
      <3>1. /\ file[place] # NoFile /\ listed' = listed
            /\ file' = file \/ file' = [file EXCEPT ![place] = NoFile]
        <4>1. file = [file EXCEPT ![place] = file[place]]
          BY DEF Inv, TypeOK, CardOK
        <4> QED
          BY <2>1, <4>1 DEF DeleteLibrary
      <3>2. CASE file' = file
        BY <1>1, <3>1, <3>2
      <3>3. CASE file' = [file EXCEPT ![place] = NoFile]
        <4>1. L!Delete(place)
          BY <3>1, <3>3, Deletes
        <4> QED
          BY <4>1 DEF L!Next
      <3> QED
        BY <3>1, <3>2, <3>3
    <2>2. CASE ImportLastVideo
      <3>1. CASE UNCHANGED <<file, listed>>
        BY <1>1, <3>1
      <3>2. CASE Adoptable /\ Adopt
        <4>1. PICK place \in Places, s \in Slots :
                 /\ file[place] = NoFile
                 /\ LegacyClip(s).media = Clip(s) /\ LegacyClip(s) # NoFile
                 /\ Clip(s) \in Media \ listed
                 /\ file' = [file EXCEPT ![place] = LegacyClip(s)]
                 /\ listed' = listed \cup {Clip(s)}
          BY <3>2, AdoptedWhole, Zenon
        <4>2. L!Publish(place, Clip(s))
          BY <4>1, Publishes
        <4> QED
          BY <4>1, <4>2 DEF L!Next
      <3> QED
        BY <2>2, <3>1, <3>2 DEF ImportLastVideo
    <2>3. CASE \/ OpenMedia \/ ReadMediaFrameFails \/ CloseMediaPlayback
               \/ SaveGallerySettings
      <3>1. UNCHANGED <<file, listed>>
        BY <2>3 DEF OpenMedia, ReadMediaFrameFails, CloseMediaPlayback,
                    SaveGallerySettings, cardVars
      <3> QED
        BY <1>1, <3>1
    <2> QED
      BY <1>3, <2>1, <2>2, <2>3, Zenon DEF Using
  <1>4. CASE Update \/ HealthCheckFails \/ PowerLoss \/ UNCHANGED vars
    <2>1. UNCHANGED <<file, listed>>
      BY <1>4 DEF Update, Recover, Initialize, HealthCheckFails, PowerLoss, vars, cardVars
    <2> QED
      BY <1>1, <2>1
  <1> QED
    BY <1>2, <1>3, <1>4 DEF Next

\* Whatever fails and wherever power is lost, an item appears in the library
\* complete and verified, in a free place, and only once; it changes in no way
\* but by being deleted (BeginLibraryPhoto ... DeleteLibraryVideo,
\* ImportLastVideo).
THEOREM ImplementsLibraryHolds == Spec => ImplementsLibrary
  <1>1. Init => L!Init
    BY DEF Init, L!Init, Listing
  <1> QED
    BY <1>1, NextRefines, InvHolds, PTL DEF Spec, ImplementsLibrary, L!Spec

-----------------------------------------------------------------------------
(***************************************************************************)
(* What no step may do.                                                    *)
(***************************************************************************)
\* No failure loses or mixes the settings, over the wrap of the generation too
\* (SaveGallerySettings, FindNewestValidGalleryRecord).
THEOREM SettingsAtomicHolds == Spec => SettingsAtomic
  <1> DEFINE A == record' # record =>
                    \/ Settings(record') = Settings(record)
                    \/ \E value \in Selections : Settings(record') = value
                                                 /\ record'[Target].value = value
  <1>1. Inv /\ [Next]_vars => [A]_vars
    <2> SUFFICES ASSUME Inv, Next, record' # record
                 PROVE  SaveGallerySettings
      BY SettingsStep
    <2>1. ~Saving
      BY DEF Saving, BeginLibrary, AppendMediaBytes, StartMediaVerification,
             VerifyPayload, PrepareCopies, CopiesDiffer, Publish, AbortMediaSave,
             cardVars
    <2>2. ~(Update \/ HealthCheckFails \/ PowerLoss)
      BY DEF Update, Recover, Initialize, HealthCheckFails, PowerLoss, cardVars
    <2>3. Using => SaveGallerySettings
      BY DEF Using, DeleteLibrary, OpenMedia, ReadMediaFrameFails, CloseMediaPlayback,
             ImportLastVideo, cardVars
    <2> QED
      BY <2>1, <2>2, <2>3 DEF Next
  <1> HIDE DEF A
  <1>2. Spec => [][A]_vars
    BY <1>1, InvHolds, PTL DEF Spec
  <1> QED
    BY <1>2 DEF A, SettingsAtomic

\* Once the card did not answer nothing is written to it until it has been
\* mounted again (ready_ is read before every write, also when a save is
\* aborted).
THEOREM NothingWrittenAfterLossHolds == Spec => NothingWrittenAfterLoss
  <1> DEFINE A == ready \/ UNCHANGED cardVars \/ PowerLoss
  <1>1. [Next]_vars => [A]_vars
    <2> SUFFICES ASSUME Next, ~ready, ~PowerLoss PROVE UNCHANGED cardVars
      OBVIOUS
    <2>1. CASE Saving
      BY <2>1 DEF Saving, BeginLibrary, AppendMediaBytes, StartMediaVerification,
         VerifyPayload, PrepareCopies, CopiesDiffer, Publish, AbortMediaSave,
         DiscardIncompleteMediaSave, Idle, Working, cardVars
    <2>2. CASE Using
      BY <2>2 DEF Using, DeleteLibrary, OpenMedia, ReadMediaFrameFails,
         CloseMediaPlayback, SaveGallerySettings, ImportLastVideo, Idle
    <2>3. CASE Update \/ HealthCheckFails
      BY <2>3 DEF Update, Recover, Initialize, HealthCheckFails, Idle
    <2> QED
      BY <2>1, <2>2, <2>3 DEF Next
  <1> HIDE DEF A
  <1>2. Spec => [][A]_vars
    BY <1>1, PTL DEF Spec
  <1> QED
    BY <1>2 DEF A, NothingWrittenAfterLoss

\* The migration is marked as done only when a library video is there or there
\* is nothing left to adopt (ImportLastVideo).
THEOREM MarkedWhenDoneHolds == Spec => MarkedWhenDone
  <1> DEFINE A == marker' /\ ~marker => VideoListed' \/ ~Adoptable'
  <1>1. Inv /\ [Next]_vars => [A]_vars
    <2> SUFFICES ASSUME Inv, Next, marker', ~marker
                 PROVE  VideoListed' \/ ~Adoptable'
      OBVIOUS
    <2>1. ~Saving
      BY DEF Saving, BeginLibrary, AppendMediaBytes, StartMediaVerification,
             VerifyPayload, PrepareCopies, CopiesDiffer, Publish, AbortMediaSave,
             cardVars
    <2>2. ~(Update \/ HealthCheckFails \/ PowerLoss)
      BY DEF Update, Recover, Initialize, HealthCheckFails, PowerLoss, cardVars
    <2>3. Using => ImportLastVideo
      BY DEF Using, DeleteLibrary, OpenMedia, ReadMediaFrameFails, CloseMediaPlayback,
             SaveGallerySettings, cardVars
    <2>4. ImportLastVideo
      BY <2>1, <2>2, <2>3 DEF Next
    <2>5. CASE UNCHANGED <<file, slot, rejected>> /\ (VideoListed \/ ~Adoptable)
      BY <2>5 DEF VideoListed, Adoptable, NewestSlot, Usable, Newer
    <2>6. CASE Adoptable /\ Adopt
      <3>1. PICK place \in Places, s \in Slots :
               /\ place = <<"video", AllocateLibraryId("video")>>
               /\ AllocateLibraryId("video") \in Ids
               /\ LegacyClip(s) # NoFile
               /\ file' = [file EXCEPT ![place] = LegacyClip(s)]
        BY <2>6, AdoptedWhole, Zenon
      <3>2. file'[place] # NoFile
        BY <3>1 DEF Inv, TypeOK, CardOK
      <3> QED
        BY <3>1, <3>2 DEF VideoListed
    <2> QED
      BY <2>4, <2>5, <2>6 DEF ImportLastVideo
  <1> HIDE DEF A
  <1>2. Spec => [][A]_vars
    BY <1>1, InvHolds, PTL DEF Spec
  <1> QED
    BY <1>2 DEF A, MarkedWhenDone

=============================================================================
