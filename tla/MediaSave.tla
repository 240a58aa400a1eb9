----------------------------- MODULE MediaSave ------------------------------
(***************************************************************************)
(* How MemoryManager and MemoryStorage put photos, videos and settings on  *)
(* the card: a file is staged under a temporary name, read back, completed *)
(* with its prepared copies, given its real header and renamed; settings   *)
(* alternate between two records; a clip of an older firmware is adopted   *)
(* by renaming it.                                                         *)
(*                                                                         *)
(* Everything runs in Core 0's foreground, one call at a time.  A card     *)
(* operation may fail without consequence for the card (a full directory,  *)
(* a checksum that does not match), or because the card no longer answers  *)
(* (IsStorageIoError), which leaves the file with any part of the write    *)
(* done; a byte may be stored wrongly without an error; and power may be   *)
(* lost between any two calls.  A power loss inside a call leaves the same *)
(* card as an unanswered operation of that call followed by a power loss.  *)
(*                                                                         *)
(* A file is what a reader can tell of it: which upload it came from, the  *)
(* kind of its header, the payload blocks that are stored as they were     *)
(* sent, and the prepared copies.                                          *)
(***************************************************************************)
EXTENDS Integers, FiniteSets

CONSTANTS Ids,          \* library IDs
          Blocks,       \* payload blocks of an upload
          Chunk,        \* blocks that fit the write buffer
          Generations,  \* number of record generations before they wrap
          Selections,   \* settings that may be saved
          MaxSaves,     \* BOUND: uploads
          MaxRequests,  \* BOUND: deletions and saved settings
          MaxFaults     \* BOUND: failures and power losses

ASSUME MediaSaveAssumption ==
    /\ IsFiniteSet(Ids) /\ Ids \subseteq Nat \ {0}
    /\ Blocks \in Nat \ {0} /\ Chunk \in Nat \ {0}
    /\ Generations \in Nat /\ Generations > 2
    /\ MaxSaves \in Nat /\ MaxRequests \in Nat /\ MaxFaults \in Nat

VARIABLES
    temp,       \* card: the .TMP file of each place
    file,       \* card: the .H75 file of each place
    slot,       \* card: LASTA.H75 and LASTB.H75
    marker,     \* card: VLIB.H75 exists
    record,     \* card: the two gallery settings records
    ready, storage,     \* MemoryManager::ready_ and state_
    save,       \* MemoryStorage::managerState.save and rgbCopies
    failed,     \* the upload's owner has to abort its save
    playing,    \* the open playback file
    rejected,   \* rejectedSlot
    fresh,      \* the card was mounted and the library not yet initialized
    listed,     \* history: what has been in the library
    saves, requests, faults

cardVars == <<temp, file, slot, marker, record>>
mountVars == <<ready, storage, fresh>>
saveVars == <<save, failed, saves>>
vars == <<cardVars, mountVars, saveVars, playing, rejected, listed, requests,
          faults>>

Kinds == {"photo", "video"}
Places == Kinds \X Ids
Slots == {0, 1}
Payload == 1 .. Blocks

\* What a file may hold: the clip of a slot, or an upload.
Clip(s) == s + 1
Upload(n) == n + 2
Media == {Clip(s) : s \in Slots} \cup {Upload(n) : n \in 1 .. MaxSaves}

NoMedia == 0
NoFile == [media |-> NoMedia, head |-> "none", data |-> {}, copies |-> "none"]
Staged(m) == [media |-> m, head |-> "staging", data |-> {}, copies |-> "none"]
LegacyClip(s) == [media |-> Clip(s), head |-> "clip", data |-> Payload,
                  copies |-> "none"]

\* The descriptor and the copies behind the payload match their checksums.
CopiesDecode(f) == f.copies = "good"

\* A file that every reader accepts, to its last frame.
Whole(f) ==
    /\ f.data = Payload
    /\ f.head = "clip" \/ (f.head = "final" /\ CopiesDecode(f))

NoPlace == <<"none", 0>>
SlotPlace(s) == <<"slot", s>>

NoSlot == -1
NoSave == [phase |-> "idle", place |-> NoPlace, media |-> NoMedia,
           received |-> 0, buffered |-> {}, good |-> FALSE, valid |-> FALSE,
           verified |-> 0, copies |-> "none"]

-----------------------------------------------------------------------------
(* Calls and their failures.                                               *)

Idle == ready /\ save.phase = "idle" /\ ~failed

Fault == faults < MaxFaults /\ faults' = faults + 1

\* The result of the last filesystem call of an operation: it succeeds, ...
Succeeds == UNCHANGED <<ready, storage, faults>>

\* ... it fails and the card is as good as before, ...
Fails == Fault /\ UNCHANGED <<ready, storage>>

\* MUTANT: the session is given up, but nobody is told to recover.
ReportStorageFailure_KeepsState ==
    Fault /\ ready' = FALSE /\ UNCHANGED storage

\* ... or the card does not answer: ReportStorageFailure.
ReportStorageFailure ==
    /\ Fault /\ ready' = FALSE
    /\ storage' = IF storage = "ready" THEN "recovering" ELSE storage

Request == requests < MaxRequests /\ requests' = requests + 1

\* CloseSavedMediaPlayback.
ClosePlayback == playing' = NoPlace

-----------------------------------------------------------------------------
(* Beginning a save.                                                       *)

\* AllocateLibraryId: the lowest ID without a published file; temporary files
\* do not count.
FreeId(kind) == {id \in Ids : file[<<kind, id>>] = NoFile}
AllocateLibraryId(kind) == CHOOSE id \in FreeId(kind) :
                               \A j \in FreeId(kind) : id <= j

\* BeginLibraryPhoto and BeginLibraryVideo: an ID is looked up, then playback is
\* closed and the file created.  The upload may arrive as it was declared or not
\* ("good"), and hold frames that can be decoded or not ("valid").
BeginLibrary(kind) ==
    /\ Idle /\ FreeId(kind) # {}
    /\ saves < MaxSaves /\ saves' = saves + 1
    /\ LET place == <<kind, AllocateLibraryId(kind)>>
           media == Upload(saves')
       IN  \/ /\ Succeeds /\ ClosePlayback
              /\ temp' = [temp EXCEPT ![place] = Staged(media)]
              /\ \E good, valid \in BOOLEAN :
                   save' = [NoSave EXCEPT !.phase = "writing", !.place = place,
                                          !.media = media, !.good = good,
                                          !.valid = valid]
           \/ /\ Fails /\ ClosePlayback          \* DiscardIncompleteMediaSave
              /\ temp' \in {temp, [temp EXCEPT ![place] = NoFile]}
              /\ save' = NoSave
           \/ /\ ReportStorageFailure /\ ClosePlayback
              /\ \E f \in {temp[place], NoFile, Staged(media)} :
                   temp' = [temp EXCEPT ![place] = f]
              /\ save' = NoSave
           \/ /\ Fails \/ ReportStorageFailure    \* of the lookup
              /\ UNCHANGED <<temp, save, playing>>
    /\ UNCHANGED <<file, slot, marker, record, fresh, failed, rejected, listed,
                   requests>>

-----------------------------------------------------------------------------
(* Receiving.                                                              *)

\* The save's file with some buffered blocks written.
Written(blocks) == [temp EXCEPT ![save.place].data = @ \cup blocks]

\* FlushMediaWrites: a block may be stored wrongly without an error.
Flush(blocks) ==
    \/ temp' = Written(blocks) /\ UNCHANGED faults
    \/ \E b \in blocks : temp' = Written(blocks \ {b}) /\ Fault

Working(phase) == save.phase = phase /\ ~failed /\ ready

\* The call returns false; its caller aborts before it does anything else.
CallFails(written) ==
    /\ failed' = TRUE
    /\ save' = save
    /\ Fails \/ ReportStorageFailure
    /\ temp' \in written

\* QueueMediaWrite: bytes are buffered, a full buffer is written.
QueueMediaWrite ==
    LET buffered == save.buffered \cup {save.received + 1}
        full == Cardinality(buffered) = Chunk
    IN  \/ /\ save' = [save EXCEPT !.received = @ + 1,
                                   !.buffered = IF full THEN {} ELSE buffered]
           /\ IF full THEN Flush(buffered) ELSE UNCHANGED <<temp, faults>>
           /\ UNCHANGED <<ready, storage, failed>>
        \/ full /\ CallFails({temp, Written(buffered)})

AppendMediaBytes ==
    /\ Working("writing") /\ save.received < Blocks
    /\ QueueMediaWrite
    /\ UNCHANGED <<file, slot, marker, record, fresh, saves, playing, rejected,
                   listed, requests>>

\* StartMediaVerification: the upload's own checksum is compared, the rest of
\* the buffer written, and the file closed and opened again.
StartMediaVerification ==
    /\ Working("writing") /\ save.received = Blocks
    /\ \/ /\ ~save.good /\ failed' = TRUE
          /\ UNCHANGED <<temp, save, ready, storage, faults>>
       \/ /\ save.good
          /\ save' = [save EXCEPT !.phase = "verifying", !.buffered = {}]
          /\ Flush(save.buffered)
          /\ UNCHANGED <<failed, ready, storage>>
       \/ /\ save.good
          /\ CallFails({temp, Written(save.buffered)})
    /\ UNCHANGED <<file, slot, marker, record, fresh, saves, playing, rejected,
                   listed, requests>>

-----------------------------------------------------------------------------
(* Verification, prepared copies and publication: VerifyMediaSaveStep.     *)

\* The next block reads back with the checksum it was sent with; a JPEG's is
\* that of its record.
ReadsBack == save.verified + 1 \in temp[save.place].data

\* RgbMediaCopies::Begin makes room behind the last payload block.
BeginCopies == save.verified + 1 = Blocks

\* One block is read back.  Of a payload that is no valid indexed JPEG some block
\* is refused although it was stored as it was sent.
VerifyPayload ==
    /\ Working("verifying") /\ save.verified < Blocks
    /\ \/ /\ ReadsBack /\ (BeginCopies => save.valid)
          /\ save' = [save EXCEPT !.verified = @ + 1,
                          !.copies = IF BeginCopies THEN "preparing" ELSE @]
          /\ UNCHANGED <<temp, failed, ready, storage, faults>>
       \/ /\ ~ReadsBack \/ ~save.valid
          /\ failed' = TRUE
          /\ UNCHANGED <<temp, save, ready, storage, faults>>
       \/ CallFails({temp})
    /\ UNCHANGED <<file, slot, marker, record, fresh, saves, playing, rejected,
                   listed, requests>>

Copied(state) == [temp EXCEPT ![save.place].copies = state]

\* RgbMediaCopies::Advance until FinishPreview: the preview and the display
\* copies are written, synchronized, and the file is opened again.
PrepareCopies ==
    /\ Working("verifying") /\ save.copies = "preparing"
    /\ \/ /\ save' = [save EXCEPT !.copies = "checking"]
          /\ \/ temp' = Copied("good") /\ UNCHANGED faults
             \/ temp' = Copied("bad") /\ Fault
          /\ UNCHANGED <<failed, ready, storage>>
       \/ CallFails({temp, Copied("bad"), Copied("good")})
    /\ UNCHANGED <<file, slot, marker, record, fresh, saves, playing, rejected,
                   listed, requests>>

\* The copies do not read back as they were written: FR_INVALID_OBJECT, which
\* counts as a card that does not answer.
CopiesDiffer ==
    /\ Working("verifying") /\ save.copies = "checking"
    /\ temp[save.place].copies = "bad"
    /\ failed' = TRUE
    /\ ready' = FALSE /\ storage' = "recovering"
    /\ UNCHANGED <<cardVars, fresh, save, saves, playing, rejected, listed,
                   requests, faults>>

Headed == [temp[save.place] EXCEPT !.head = "final"]

Renamed ==
    /\ temp' = [temp EXCEPT ![save.place] = NoFile]
    /\ file' = [file EXCEPT ![save.place] = Headed]
    /\ listed' = listed \cup {save.media}

\* MUTANT: the file gets its name before it gets its header.
Publish_RenamesFirst ==
    /\ Working("verifying") /\ save.copies = "checking"
    /\ temp[save.place].copies = "good"
    /\ temp' = [temp EXCEPT ![save.place] = NoFile]
    /\ \/ /\ Succeeds
          /\ file' = [file EXCEPT ![save.place] = Headed]
          /\ listed' = listed \cup {save.media}
          /\ save' = NoSave /\ rejected' = NoSlot /\ UNCHANGED failed
       \/ /\ ReportStorageFailure /\ failed' = TRUE
          /\ file' = [file EXCEPT ![save.place] = temp[save.place]]
          /\ UNCHANGED <<save, rejected, listed>>
    /\ UNCHANGED <<slot, marker, record, fresh, saves, playing, requests>>

\* The copies were read back.  The real header is written, the file closed and
\* renamed; any of the three may fail.
Publish ==
    /\ Working("verifying") /\ save.copies = "checking"
    /\ temp[save.place].copies = "good"
    /\ \/ /\ Renamed /\ Succeeds
          /\ save' = NoSave /\ rejected' = NoSlot
          /\ UNCHANGED failed
       \/ /\ CallFails({temp, [temp EXCEPT ![save.place] = Headed]})
          /\ UNCHANGED <<file, rejected, listed>>
       \/ /\ Renamed /\ ReportStorageFailure /\ failed' = TRUE
          /\ UNCHANGED <<save, rejected>>
    /\ UNCHANGED <<slot, marker, record, fresh, saves, playing, requests>>

-----------------------------------------------------------------------------
(* Abort.                                                                  *)

\* MUTANT: the file of a card that does not answer is closed and removed.
AbortMediaSave_Unsafe ==
    /\ save.phase # "idle"
    /\ save' = NoSave /\ failed' = FALSE
    /\ temp' = [temp EXCEPT ![save.place] = NoFile]
    /\ UNCHANGED <<file, slot, marker, record, mountVars, saves, playing,
                   rejected, listed, requests, faults>>

\* The file is removed if the card answers.
DiscardIncompleteMediaSave ==
    /\ save' = NoSave
    /\ \/ /\ ready /\ Succeeds
          /\ temp' = [temp EXCEPT ![save.place] = NoFile]
       \/ /\ ready /\ (Fails \/ ReportStorageFailure)
          /\ \E f \in {temp[save.place], NoFile} :
               temp' = [temp EXCEPT ![save.place] = f]
       \/ ~ready /\ UNCHANGED <<temp, ready, storage, faults>>

\* After a failure, a cancellation or a timeout.
AbortMediaSave ==
    /\ save.phase # "idle"
    /\ DiscardIncompleteMediaSave
    /\ failed' = FALSE
    /\ UNCHANGED <<file, slot, marker, record, fresh, saves, playing, rejected,
                   listed, requests>>

-----------------------------------------------------------------------------
(* Deletion and playback.                                                  *)

\* MUTANT: the playback file is not closed.
DeleteLibrary_KeepsPlayback(place) ==
    /\ Idle /\ Request /\ file[place] # NoFile
    /\ file' = [file EXCEPT ![place] = NoFile] /\ Succeeds
    /\ UNCHANGED <<temp, slot, marker, record, fresh, save, failed, saves,
                   playing, rejected, listed>>

\* DeleteLibraryPhoto closes any open photo, DeleteLibraryVideo the video of
\* that ID.
DeleteLibrary(place) ==
    /\ Idle /\ Request /\ file[place] # NoFile
    /\ playing' = IF \/ place[1] = "photo" /\ playing[1] = "photo"
                     \/ playing = place
                  THEN NoPlace ELSE playing
    /\ \/ file' = [file EXCEPT ![place] = NoFile] /\ Succeeds
       \/ UNCHANGED file /\ Fails
       \/ /\ \E f \in {file[place], NoFile} : file' = [file EXCEPT ![place] = f]
          /\ ReportStorageFailure
    /\ UNCHANGED <<temp, slot, marker, record, fresh, save, failed, saves,
                   rejected, listed>>

\* int32_t(a - b) > 0.
Newer(a, b) == (a - b) % Generations \in 1 .. (Generations - 1) \div 2

\* InspectSavedMediaSlot and FindNewestSavedPhoto.  A rejected slot counts as
\* invalid; a photo is not subject to rejection.
Usable(s) ==
    slot[s].kind = "photo" \/ (slot[s].kind = "video" /\ rejected # s)

NewestSlot ==
    IF ~Usable(0) THEN IF Usable(1) THEN 1 ELSE NoSlot
    ELSE IF Usable(1) /\ Newer(slot[1].generation, slot[0].generation) THEN 1
    ELSE 0

EmptySlot == [kind |-> "none", generation |-> 0]

Opens(place) ==
    \/ playing' = place /\ Succeeds
    \/ ClosePlayback /\ (Fails \/ ReportStorageFailure)

\* OpenLibraryPhoto, OpenLibraryVideo and, without a library video,
\* OpenLastMedia.
OpenMedia ==
    /\ Idle
    /\ \/ \E place \in Places : file[place] # NoFile /\ Opens(place)
       \/ NewestSlot # NoSlot /\ Opens(SlotPlace(NewestSlot))
    /\ UNCHANGED <<cardVars, fresh, saveVars, rejected, listed, requests>>

\* ReadMediaFrame fails: the file is closed and, if it is a slot's, passed
\* over from now on.
ReadMediaFrameFails ==
    /\ Idle /\ playing # NoPlace
    /\ Fails \/ ReportStorageFailure
    /\ rejected' = IF playing[1] = "slot" THEN playing[2] ELSE NoSlot
    /\ ClosePlayback
    /\ UNCHANGED <<cardVars, fresh, saveVars, listed, requests>>

CloseMediaPlayback ==
    /\ playing # NoPlace /\ ~failed
    /\ ClosePlayback
    /\ UNCHANGED <<cardVars, mountVars, saveVars, rejected, listed, requests,
                   faults>>

-----------------------------------------------------------------------------
(* Settings.                                                               *)

BadRecord == [valid |-> FALSE, generation |-> 0, value |-> "none"]

\* FindNewestValidGalleryRecord.
Newest(r) ==
    IF ~r[0].valid THEN IF r[1].valid THEN 1 ELSE NoSlot
    ELSE IF r[1].valid /\ Newer(r[1].generation, r[0].generation) THEN 1
    ELSE 0

\* ReadGallerySettings.
Settings(r) == IF Newest(r) = NoSlot THEN "none" ELSE r[Newest(r)].value

\* MUTANT: the newest record is written over.
Target_Newest == IF Newest(record) = 1 THEN 1 ELSE 0

Target == IF Newest(record) = 0 THEN 1 ELSE 0

NextGeneration ==
    IF Newest(record) = NoSlot THEN 1 % Generations
    ELSE (record[Newest(record)].generation + 1) % Generations

\* SaveGallerySettings: the older record is replaced and read back.
SaveGallerySettings ==
    /\ Idle /\ Request
    /\ \E value \in Selections :
         LET new == [valid |-> TRUE, generation |-> NextGeneration, value |-> value]
         IN  \/ record' = [record EXCEPT ![Target] = new] /\ Succeeds
             \/ /\ \E r \in {record[Target], BadRecord, new} :
                     record' = [record EXCEPT ![Target] = r]
                /\ Fails \/ ReportStorageFailure
    /\ UNCHANGED <<temp, file, slot, marker, fresh, saveVars, playing, rejected,
                   listed>>

-----------------------------------------------------------------------------
(* Adopting the clip of an older firmware.                                 *)

MarkImported ==
    \/ marker' = TRUE /\ Succeeds
    \/ marker' \in {FALSE, TRUE} /\ (Fails \/ ReportStorageFailure)

VideoListed == \E id \in Ids : file[<<"video", id>>] # NoFile

Adoptable == NewestSlot # NoSlot /\ slot[NewestSlot].kind = "video"

\* The newest clip is renamed to a library video.
Adopt ==
    /\ FreeId("video") # {}
    /\ file' = [file EXCEPT ![<<"video", AllocateLibraryId("video")>>] =
                    LegacyClip(NewestSlot)]
    /\ slot' = [slot EXCEPT ![NewestSlot] = EmptySlot]
    /\ listed' = listed \cup {Clip(NewestSlot)}
    /\ rejected' = NoSlot
    /\ MarkImported

\* MUTANT: the migration is marked as done before the clip is renamed.
ImportLastVideo_MarksFirst ==
    /\ fresh /\ Idle /\ fresh' = FALSE
    /\ \/ marker /\ Succeeds /\ UNCHANGED <<file, slot, marker, listed, rejected>>
       \/ /\ ~marker /\ ~VideoListed /\ Adoptable
          /\ marker' = TRUE /\ Fails
          /\ UNCHANGED <<file, slot, listed, rejected>>
       \/ /\ ~marker /\ ~VideoListed /\ Adoptable /\ Adopt
    /\ ClosePlayback
    /\ UNCHANGED <<temp, record, saveVars, requests>>

\* ImportLastVideo, called by MediaLibrary::Initialize after a mount.
ImportLastVideo ==
    /\ fresh /\ Idle /\ fresh' = FALSE
    /\ \/ /\ marker /\ Succeeds
          /\ UNCHANGED <<file, slot, marker, listed, rejected, playing>>
       \/ /\ ~marker /\ (VideoListed \/ ~Adoptable) /\ MarkImported
          /\ UNCHANGED <<file, slot, listed, rejected, playing>>
       \/ /\ ~marker /\ ~VideoListed /\ Adoptable
          /\ Adopt /\ ClosePlayback
       \/ /\ ~marker                         \* a lookup or the rename fails
          /\ Fails \/ ReportStorageFailure
          /\ playing' \in {playing, NoPlace}
          /\ UNCHANGED <<file, slot, marker, listed, rejected>>
    /\ UNCHANGED <<temp, record, saveVars, requests>>

-----------------------------------------------------------------------------
(* The card goes and comes back; power is lost.                            *)

\* DiscardSession.
DiscardSession ==
    save' = NoSave /\ playing' = NoPlace /\ rejected' = NoSlot

\* Update in Recovering.  The owner of a save has aborted it by then.
Recover ==
    /\ storage = "recovering" /\ ~failed
    /\ DiscardSession
    /\ storage' = "unavailable" /\ ready' = FALSE
    /\ UNCHANGED <<cardVars, fresh, failed, saves, listed, requests, faults>>

\* Initialize, from Update when the retry time is over or from RunController.
Initialize ==
    /\ storage = "unavailable"
    /\ \/ /\ ready' = TRUE /\ storage' = "ready" /\ fresh' = TRUE
          /\ UNCHANGED faults
       \/ Fault /\ UNCHANGED mountVars
    /\ UNCHANGED <<cardVars, saveVars, playing, rejected, listed, requests>>

\* Update in Ready: the health check of an idle card.
HealthCheckFails ==
    /\ Idle /\ storage = "ready" /\ ReportStorageFailure
    /\ UNCHANGED <<cardVars, fresh, saveVars, playing, rejected, listed, requests>>

\* The file that was being written is as it was last synchronized.
PowerLoss ==
    /\ Fault /\ DiscardSession
    /\ ready' = FALSE /\ storage' = "unavailable" /\ fresh' = FALSE
    /\ failed' = FALSE
    /\ IF save.phase = "writing"
       THEN \E f \in {temp[save.place], Staged(save.media), NoFile} :
              temp' = [temp EXCEPT ![save.place] = f]
       ELSE UNCHANGED temp
    /\ UNCHANGED <<file, slot, marker, record, saves, listed, requests>>

-----------------------------------------------------------------------------
Saving ==
    \/ \E kind \in Kinds : BeginLibrary(kind)
    \/ AppendMediaBytes \/ StartMediaVerification \/ VerifyPayload
    \/ PrepareCopies \/ CopiesDiffer \/ Publish \/ AbortMediaSave

Using ==
    \/ \E place \in Places : DeleteLibrary(place)
    \/ OpenMedia \/ ReadMediaFrameFails \/ CloseMediaPlayback
    \/ SaveGallerySettings \/ ImportLastVideo

Update == Recover \/ Initialize

Next == Saving \/ Using \/ Update \/ HealthCheckFails \/ PowerLoss

\* Cards as this firmware or an older one left them: no records or clips yet, or
\* a pair of them at the wrap of the generation, the second being the newer one.
LegacySlots(older, newer) ==
    [s \in Slots |-> [kind |-> IF s = 0 THEN older ELSE newer,
                     generation |-> (s - 1) % Generations]]

WornRecords ==
    [s \in Slots |-> [valid |-> TRUE, generation |-> (s - 1) % Generations,
                     value |-> IF s = 0 THEN "none" ELSE "kept"]]

Init ==
    /\ temp = [p \in Places |-> NoFile]
    /\ file = [p \in Places |-> NoFile]
    /\ \E kind \in Kinds :
         slot \in {[s \in Slots |-> EmptySlot], LegacySlots("video", kind)}
    /\ marker = FALSE
    /\ record \in {[s \in Slots |-> BadRecord], WornRecords}
    /\ ready = FALSE /\ storage = "unavailable" /\ fresh = FALSE
    /\ save = NoSave /\ failed = FALSE /\ playing = NoPlace /\ rejected = NoSlot
    /\ listed = {}
    /\ saves = 0 /\ requests = 0 /\ faults = 0

Spec == Init /\ [][Next]_vars

\* Update runs with every pass of RenderLoop, and the owner of a save that
\* failed aborts it in the same call.
FairSpec ==
    /\ Spec
    /\ WF_vars(Update)
    /\ WF_vars(AbortMediaSave /\ failed)

-----------------------------------------------------------------------------
(* Properties.                                                             *)

Files == [media : Media \cup {NoMedia},
          head : {"none", "staging", "final", "clip"},
          data : SUBSET Payload, copies : {"none", "bad", "good"}]
SlotFiles == [kind : Kinds \cup {"none"}, generation : 0 .. Generations - 1]
Records == [valid : BOOLEAN, generation : 0 .. Generations - 1,
            value : Selections \cup {"none", "kept"}]
Saves == [phase : {"idle", "writing", "verifying"}, place : Places \cup {NoPlace},
          media : Media \cup {NoMedia}, received : 0 .. Blocks,
          buffered : SUBSET Payload, good : BOOLEAN, valid : BOOLEAN,
          verified : 0 .. Blocks, copies : {"none", "preparing", "checking"}]
Handles == Places \cup {NoPlace} \cup {SlotPlace(s) : s \in Slots}

CardOK ==
    /\ temp \in [Places -> Files] /\ file \in [Places -> Files]
    /\ slot \in [Slots -> SlotFiles] /\ record \in [Slots -> Records]

FlagsOK ==
    /\ marker \in BOOLEAN /\ ready \in BOOLEAN /\ fresh \in BOOLEAN
    /\ failed \in BOOLEAN

UseOK ==
    /\ storage \in {"ready", "recovering", "unavailable"}
    /\ save \in Saves /\ playing \in Handles
    /\ rejected \in Slots \cup {NoSlot} /\ listed \subseteq Media
    /\ saves \in 0 .. MaxSaves /\ requests \in 0 .. MaxRequests
    /\ faults \in 0 .. MaxFaults

TypeOK == CardOK /\ FlagsOK /\ UseOK

\* What a reader of the card finds at a place.
Listing == [p \in Places |-> IF file[p] = NoFile THEN NoMedia
                             ELSE IF Whole(file[p]) THEN file[p].media ELSE -1]

L == INSTANCE SavedLibrary WITH library <- Listing, past <- listed,
                                None <- NoMedia

\* Whatever fails and wherever power is lost, an item appears in the library
\* complete and verified, in a free place, and only once; it changes in no way
\* but by being deleted; an unfinished or damaged upload never appears, and an
\* adopted clip that was deleted does not come back.
ImplementsLibrary == L!Spec

\* The settings that would be read from the card after any step are those
\* before it or those being saved: no failure loses or mixes them, over the
\* wrap of the generation too.
SettingsAtomic ==
    [][record' # record =>
          \/ Settings(record') = Settings(record)
          \/ \E value \in Selections : Settings(record') = value
                                       /\ record'[Target].value = value]_vars

\* Once the card did not answer nothing is written to it, not even to clean
\* up, until it has been mounted again.
NothingWrittenAfterLoss == [][ready \/ UNCHANGED cardVars \/ PowerLoss]_vars

\* The migration of an older clip is marked as done only when there is nothing
\* left to adopt: the clip is in the library, or a video was there already.
MarkedWhenDone ==
    [][marker' /\ ~marker => VideoListed' \/ ~Adoptable']_vars

\* The open playback file is one that is still on the card under its name; a
\* deletion, an adoption or a remount never leaves a handle to freed sectors.
PlaybackOnCard ==
    \/ playing = NoPlace
    \/ playing \in Places /\ file[playing] # NoFile
    \/ playing[1] = "slot" /\ slot[playing[2]].kind # "none"

\* A card that comes back is used again: no failure, in whatever phase of a
\* save, leaves the manager neither ready nor about to recover.
StorageReturns == (storage # "ready" \/ ~ready) ~> (ready /\ storage = "ready")

\* Every save has a place, and a failed one is still there to be aborted.
SavePlaced ==
    /\ save.phase # "idle" => save.place \in Places
    /\ failed => save.phase # "idle"

\* A save's file is staged under its temporary name next to a free place, and
\* what is to be published was verified and can be decoded.
SaveStaged ==
    save.phase # "idle" /\ ~failed =>
        /\ ready
        /\ temp[save.place].media = save.media /\ temp[save.place].head = "staging"
        /\ file[save.place] = NoFile
        /\ \A b \in 1 .. save.verified : b \in temp[save.place].data
        /\ save.copies # "none" => save.verified = Blocks /\ save.valid

\* Without a failure the file and the buffer hold what was received, and the
\* copies are good.
SoundStaging ==
    save.phase # "idle" /\ ~failed /\ faults = 0 =>
        /\ temp[save.place].data \cup save.buffered = 1 .. save.received
        /\ save.phase = "verifying" => save.received = Blocks /\ save.buffered = {}
        /\ save.copies = "checking" => temp[save.place].copies = "good"

\* An upload that arrived as it was declared, with frames that can be decoded, is
\* given up only if something failed: its own staging and buffering never make it
\* fail verification.
SoundUploadKept == failed => faults > 0 \/ ~save.good \/ ~save.valid

\* Whatever has its final name is whole.
FilesWhole ==
    \A p \in Places : file[p] # NoFile => Whole(file[p]) /\ file[p].media \in Media

\* What may still be listed has not been: the clips in the slots, the upload
\* under way and those to come.
NothingTwice ==
    /\ \A s \in Slots : slot[s].kind # "none" => Clip(s) \notin listed
    /\ \A n \in saves + 1 .. MaxSaves : Upload(n) \notin listed
    /\ save.phase # "idle" /\ ~failed =>
           save.media \in {Upload(n) : n \in 1 .. saves} \ listed

\* The manager's save and playback agree with what is on the card.
Inv ==
    /\ TypeOK /\ SavePlaced /\ SaveStaged /\ SoundStaging /\ SoundUploadKept
    /\ FilesWhole /\ NothingTwice /\ PlaybackOnCard
=============================================================================
