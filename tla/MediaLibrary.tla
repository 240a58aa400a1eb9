---------------------------- MODULE MediaLibrary ----------------------------
(***************************************************************************)
(* The saved photos and videos, which of them is selected, and what is on  *)
(* the display.                                                            *)
(*                                                                         *)
(* Three records of the selection have to agree: the settings on the card, *)
(* MediaLibrary's copy in RAM and the frame that MediaPlayer published.    *)
(* Everything here runs in Core 0's foreground, one call at a time; the    *)
(* hard part is that any card operation may fail, that power may be lost   *)
(* between two of them, that files may be damaged, and that the frame is   *)
(* loaded a pass or more after the request that asked for it.              *)
(*                                                                         *)
(* Photos and videos go through the same steps, so most definitions take a *)
(* kind.  Names, previews, frame rates and brightness are left out.        *)
(***************************************************************************)
EXTENDS Naturals, FiniteSets

CONSTANTS Ids,             \* library IDs a photo or a video may have
          RejectCapacity,  \* LIBRARY_REJECTED_ID_CAPACITY
          MaxItems,        \* BOUND: photos and videos on the card at the start
          MaxRequests,     \* BOUND: browser requests and uploads
          MaxFaults        \* BOUND: damaged files, failed calls, power losses

ASSUME LibraryAssumption ==
    /\ IsFiniteSet(Ids) /\ Ids \subseteq Nat \ {0}
    /\ RejectCapacity \in Nat \ {0}
    /\ MaxItems \in Nat /\ MaxRequests \in Nat /\ MaxFaults \in Nat

VARIABLES
    files,      \* card: the state of each managed file
    saved,      \* card: the newest valid settings record
    legacy,     \* card: a clip of an older firmware may still be adopted
    storage,    \* MemoryManager::state_
    lost, restored,          \* RenderLoop's storageLost, storageRestored
    settings, reload, clear, displayed,  \* MediaLibrary
    rejected, total,         \* failed IDs; item counts of the cached pages
    playing,    \* the active library video
    again,      \* MediaPlayer::reload_
    frame,      \* the frame published for the display
    arrived,    \* a raw photo not offered to the library yet: "held" by the
                \* receiver, or "free" to be written over; or "none"
    adopt,      \* reloadVideo || reloadHttp
    tcpVideo,   \* TcpVideoUpload::savedLibraryId_
    pc, task,   \* foreground program point; the item and settings it handles
    tried,      \* candidates tried by this update
    requests, faults

cardVars == <<files, saved, legacy>>
storageVars == <<storage, lost, restored>>
libraryVars == <<settings, reload, clear, displayed, rejected, total>>
displayVars == <<playing, again, frame>>
uploadVars == <<arrived, adopt, tcpVideo>>
stepVars == <<pc, task, tried>>
boundVars == <<requests, faults>>
vars == <<cardVars, storageVars, libraryVars, displayVars, uploadVars,
          stepVars, boundVars>>

Kinds == {"photo", "video"}
NoSelection == [photo |-> 0, video |-> 0, slideshow |-> FALSE]
Item(kind, id) == [kind |-> kind, id |-> id]
NoFrame == Item("none", 0)
LiveFrame == Item("live", 0)       \* a raw photo as it was received
TornFrame == Item("torn", 0)       \* no frame: an aborted upload wrote into it
NoTask == [kind |-> "none", id |-> 0, selected |-> NoSelection]
NoneRejected ==
    [kind \in Kinds |-> [ids |-> [i \in 0 .. RejectCapacity - 1 |-> 0], next |-> 0]]

-----------------------------------------------------------------------------
(* Lookups.  "good" files load; a damaged "header" is listed but invalid,  *)
(* damaged "pixels" are found out by loading them.                         *)

FileStates == {"none", "good", "header", "pixels"}

Listed(kind) == {i \in Ids : files[kind][i] # "none"}

Valid(kind) == {i \in Ids : files[kind][i] \in {"good", "pixels"}}

InRing(ring, kind, id) ==
    \E i \in 0 .. RejectCapacity - 1 : id # 0 /\ ring[kind].ids[i] = id

Rejected(kind, id) == InRing(rejected, kind, id)

Has(kind, id) == id \in Valid(kind) /\ ~Rejected(kind, id)

Least(S) == CHOOSE i \in S : \A j \in S : i <= j

\* The next usable item in ID order, wrapping once; 0 when there is none.
NextIn(ring, kind, after, except) ==
    LET usable == {i \in Valid(kind) : ~InRing(ring, kind, i) /\ i # except}
        later == {i \in usable : i > after}
    IN  IF later # {} THEN Least(later)
        ELSE IF usable # {} THEN Least(usable) ELSE 0

FindNext(kind, after, except) == NextIn(rejected, kind, after, except)

Wants(selection) == selection.photo # 0 \/ selection.video # 0

\* The ring after Reject: a duplicate changes nothing, a full ring forgets its
\* oldest entry.
Reject(kind, id) ==
    IF Rejected(kind, id) THEN rejected
    ELSE [rejected EXCEPT
            ![kind] = [ids |-> [@.ids EXCEPT ![@.next] = id],
                       next |-> (@.next + 1) % RejectCapacity]]

Unreject(kind, id) ==
    [rejected EXCEPT ![kind].ids =
        [i \in DOMAIN @ |-> IF @[i] = id THEN 0 ELSE @[i]]]

\* Refresh: the counts of the first pages are read again; a listing that fails
\* leaves none.
Count(kind, listed) == [total EXCEPT ![kind] = Cardinality(listed)]
Uncounted(kind) == [total EXCEPT ![kind] = 0]
NothingListed == [kind \in Kinds |-> 0]

-----------------------------------------------------------------------------
(* Card operations.                                                        *)

\* What SaveGallerySettings accepts.
Savable(selection) ==
    /\ selection.slideshow => selection.photo # 0
    /\ selection.video # 0 => selection.photo = 0 /\ ~selection.slideshow

Fault == faults < MaxFaults /\ faults' = faults + 1

SaveSucceeds(selection) ==
    /\ storage = "ready" /\ Savable(selection)
    /\ saved' = selection /\ UNCHANGED <<storage, faults>>

\* A save is refused, or a write or the verification fails: the older record
\* is kept or, if only the reread failed, already replaced.  The device may
\* have been lost by then.
SaveFails(selection) ==
    \/ /\ storage # "ready" \/ ~Savable(selection)
       /\ UNCHANGED <<saved, storage, faults>>
    \/ /\ storage = "ready" /\ Savable(selection) /\ Fault
       /\ saved' \in {saved, selection}
       /\ storage' \in {"ready", "recovering"}

\* A read finds the device gone.
DeviceLost == storage = "ready" /\ Fault /\ storage' = "recovering"

Go(next) == pc' = next
Stay == UNCHANGED stepVars

\* The foreground is between two render passes.
Request == pc = "idle" /\ storage = "ready" /\ requests < MaxRequests
           /\ requests' = requests + 1

-----------------------------------------------------------------------------
(* Browser requests (HttpMediaUpload::HandleLibraryRequest).               *)

OnlySelected(kind, id) ==
    [NoSelection EXCEPT !.photo = IF kind = "photo" THEN id ELSE 0,
                        !.video = IF kind = "video" THEN id ELSE 0]

\* Select and SelectVideo: settings are saved first, then adopted.
Select(kind, id) ==
    LET selected == OnlySelected(kind, id)
    IN  \/ /\ Has(kind, id) /\ SaveSucceeds(selected)
           /\ settings' = selected /\ reload' = TRUE /\ clear' = FALSE
        \/ /\ Has(kind, id) /\ SaveFails(selected)
           /\ UNCHANGED <<settings, reload, clear>>

SelectRequest ==
    /\ Request
    /\ \E kind \in Kinds, id \in Ids : Select(kind, id)
    /\ Stay
    /\ UNCHANGED <<files, legacy, lost, restored, displayed, rejected, total,
                   displayVars, uploadVars>>

\* "Stop keeps the currently shown photo": the settings SetSlideshow saves.
SlideshowSettings(enabled) ==
    LET shown == IF ~reload /\ Has("photo", displayed) THEN displayed
                 ELSE settings.photo
        photo == IF enabled /\ ~Has("photo", shown) THEN FindNext("photo", 0, 0)
                 ELSE shown
    IN  [photo |-> photo, video |-> IF enabled THEN 0 ELSE settings.video,
         slideshow |-> enabled]

SetSlideshow(enabled) ==
    LET selected == SlideshowSettings(enabled)
    IN  /\ Request
        /\ enabled => selected.photo # 0
        /\ \/ /\ SaveSucceeds(selected)
              /\ settings' = selected /\ reload' = (reload \/ selected.photo # 0)
           \/ SaveFails(selected) /\ UNCHANGED <<settings, reload>>
        /\ Stay
        /\ UNCHANGED <<files, legacy, lost, restored, clear, displayed,
                       rejected, total, displayVars, uploadVars>>

\* Brightness and FPS limit are saved together with the selection in RAM.
SetDisplaySettings ==
    /\ Request
    /\ SaveSucceeds(settings) \/ SaveFails(settings)
    /\ Stay
    /\ UNCHANGED <<files, legacy, lost, restored, libraryVars, displayVars,
                   uploadVars>>

\* The selection after the item is gone.
Replacement(kind, id) ==
    IF settings[kind] # id THEN settings
    ELSE LET next == FindNext(kind, 0, id)
         IN  IF kind = "photo"
             THEN [settings EXCEPT !.photo = next,
                                   !.slideshow = @ /\ next # 0]
             ELSE [settings EXCEPT !.video = next,
                                   !.photo = IF next # 0 THEN @
                                             ELSE FindNext("photo", 0, 0)]

\* MUTANT: the file is deleted although the new selection was not saved.
Remove_Unsaved ==
    /\ Request
    /\ \E kind \in Kinds : \E id \in Listed(kind) :
         LET selected == Replacement(kind, id)
         IN  /\ \/ SaveSucceeds(selected)
                \/ SaveFails(selected) /\ storage' = "ready"
                \/ selected = settings /\ UNCHANGED <<saved, storage, faults>>
             /\ Go("delete")
             /\ task' = [kind |-> kind, id |-> id, selected |-> selected]
    /\ UNCHANGED <<files, legacy, lost, restored, libraryVars, displayVars,
                   uploadVars, tried>>

\* Remove and RemoveVideo, first half: the replacement is saved ...
Remove ==
    /\ Request
    /\ \E kind \in Kinds : \E id \in Listed(kind) :
         LET selected == Replacement(kind, id)
             delete == [kind |-> kind, id |-> id, selected |-> selected]
         IN  \/ /\ settings[kind] # id
                /\ Go("delete") /\ task' = delete
                /\ UNCHANGED <<saved, storage, faults>>
             \/ /\ settings[kind] = id /\ SaveSucceeds(selected)
                /\ Go("delete") /\ task' = delete
             \/ /\ settings[kind] = id /\ SaveFails(selected)
                /\ UNCHANGED <<pc, task>>
    /\ UNCHANGED <<files, legacy, lost, restored, libraryVars, displayVars,
                   uploadVars, tried>>

Shown(kind, id) == IF kind = "photo" THEN displayed = id ELSE playing = id

\* MUTANT: deleting the displayed item does not ask for its replacement.
Delete_NoReload ==
    /\ pc = "delete" /\ storage = "ready"
    /\ files' = [files EXCEPT ![task.kind][task.id] = "none"]
    /\ settings' = task.selected
    /\ rejected' = Unreject(task.kind, task.id)
    /\ displayed' = IF task.kind = "photo" /\ displayed = task.id THEN 0
                    ELSE displayed
    /\ total' = Count(task.kind, Listed(task.kind) \ {task.id})
    /\ task' = NoTask /\ Go("idle")
    /\ UNCHANGED <<saved, legacy, storageVars, reload, clear, displayVars,
                   uploadVars, tried, boundVars>>

\* ... second half: the file is deleted, the selection adopted, and the
\* displayed item's replacement (or the clearing of the display) scheduled.
Delete ==
    /\ pc = "delete" /\ storage = "ready"
    /\ files' = [files EXCEPT ![task.kind][task.id] = "none"]
    /\ settings' = task.selected
    /\ rejected' = Unreject(task.kind, task.id)
    /\ IF Shown(task.kind, task.id)
       THEN /\ displayed' = IF task.kind = "photo" THEN 0 ELSE displayed
            /\ reload' = Wants(task.selected) /\ clear' = ~Wants(task.selected)
       ELSE UNCHANGED <<displayed, reload, clear>>
    /\ \/ /\ total' = Count(task.kind, Listed(task.kind) \ {task.id})
          /\ UNCHANGED <<storage, faults>>
       \/ DeviceLost /\ total' = Uncounted(task.kind)
    /\ task' = NoTask /\ Go("idle")
    /\ UNCHANGED <<saved, legacy, lost, restored, displayVars, uploadVars,
                   tried, requests>>

\* The deletion failed; with the device, the entry may already be gone.
DeleteFails ==
    /\ pc = "delete"
    /\ \/ storage = "ready" /\ Fault /\ UNCHANGED <<files, storage>>
       \/ /\ DeviceLost
          /\ files' \in {files, [files EXCEPT ![task.kind][task.id] = "none"]}
    /\ task' = NoTask /\ Go("idle")
    /\ UNCHANGED <<saved, legacy, lost, restored, libraryVars, displayVars,
                   uploadVars, tried, requests>>

-----------------------------------------------------------------------------
(* Uploads.                                                                *)

NewId(kind) == {id \in Ids : files[kind][id] = "none"
                             /\ \A j \in Ids : j < id => files[kind][j] # "none"}

AddFile(kind, id) == files' = [files EXCEPT ![kind][id] = "good"]

\* NotifyPhotoSaved and NotifyVideoSaved: the pages are read again, then the
\* new item is selected.
NotifySaved(kind, id) ==
    LET selected == OnlySelected(kind, id)
    IN  /\ rejected' = Unreject(kind, id)
        /\ \/ /\ storage = "ready" /\ id \in Valid(kind)
              /\ total' = Count(kind, Listed(kind))
              /\ \/ /\ SaveSucceeds(selected)
                    /\ settings' = selected /\ reload' = TRUE /\ clear' = FALSE
                 \/ SaveFails(selected) /\ UNCHANGED <<settings, reload, clear>>
           \/ /\ storage = "ready" /\ id \notin Valid(kind)
              /\ total' = Count(kind, Listed(kind))
              /\ UNCHANGED <<saved, storage, faults, settings, reload, clear>>
           \/ /\ (storage # "ready" /\ UNCHANGED <<storage,
                                                   faults>>) \/ DeviceLost
              /\ total' = Uncounted(kind)
              /\ UNCHANGED <<saved, settings, reload, clear>>

\* A browser upload was verified: HttpMediaUpload::Finish tells the library
\* (Notify) and asks for a reload.
HttpUploadSaved ==
    /\ Request
    /\ \E kind \in Kinds : \E id \in NewId(kind) :
         AddFile(kind, id) /\ task' = [NoTask EXCEPT !.kind = kind, !.id = id]
    /\ adopt' = TRUE
    /\ Go("notify")
    /\ UNCHANGED <<saved, legacy, storageVars, libraryVars, displayVars,
                   arrived, tcpVideo, tried, faults>>

Notify ==
    /\ pc = "notify"
    /\ NotifySaved(task.kind, task.id)
    /\ task' = NoTask /\ Go("idle")
    /\ UNCHANGED <<files, legacy, lost, restored, displayed, displayVars,
                   uploadVars, tried, requests>>

\* A TCP video was verified: its ID waits for the next prepared frame.
TcpVideoSaved ==
    /\ Request
    /\ \E id \in NewId("video") : AddFile("video", id) /\ tcpVideo' = id
    /\ adopt' = TRUE
    /\ Stay
    /\ UNCHANGED <<saved, legacy, storageVars, libraryVars, displayVars,
                   arrived, faults>>

\* An upload ended without a saved item.
UploadFails ==
    /\ pc = "idle" /\ requests < MaxRequests /\ requests' = requests + 1
    /\ adopt' = TRUE
    /\ Stay
    /\ UNCHANGED <<cardVars, storageVars, libraryVars, displayVars, arrived,
                   tcpVideo, faults>>

\* The framebuffer takes a raw photo unless it holds one (module
\* FrameOwnership has the owners of the framebuffer in full).
RawUpload ==
    /\ pc = "idle" /\ requests < MaxRequests /\ requests' = requests + 1
    /\ arrived # "held"

\* A raw photo was received into the framebuffer, and waits for Core 0.
PhotoArrives ==
    /\ RawUpload
    /\ frame' = LiveFrame /\ arrived' = "held"
    /\ Stay
    /\ UNCHANGED <<cardVars, storageVars, libraryVars, playing, again, adopt,
                   tcpVideo, faults>>

\* A raw photo's client goes after some bytes: the frame it wrote into is gone,
\* and the library is not told.
PhotoAborted ==
    /\ RawUpload
    /\ frame' = TornFrame
    /\ Stay
    /\ UNCHANGED <<cardVars, storageVars, libraryVars, playing, again,
                   uploadVars, faults>>

\* A render claim releases a held photo, offered to the library or not.
Released == IF arrived = "held" THEN "free" ELSE arrived

-----------------------------------------------------------------------------
(* RenderLoop: storage events.                                             *)

\* MemoryManager::Update.
UpdateMemory ==
    /\ pc = "idle"
    /\ \/ /\ storage = "recovering" /\ storage' = "unavailable"
          /\ lost' = TRUE /\ restored' = FALSE
       \/ /\ storage = "unavailable" /\ storage' = "ready"
          /\ restored' = TRUE /\ UNCHANGED lost
    /\ Stay
    /\ UNCHANGED <<cardVars, libraryVars, displayVars, uploadVars, boundVars>>

\* MediaLibrary::Initialize: the selection read from the card, repaired in RAM.
Repaired(selection) ==
    LET kept(kind) == IF selection[kind] \in Valid(kind) \cup {0}
                      THEN selection[kind]
                      ELSE NextIn(NoneRejected, kind, 0, 0)
    IN  [photo |-> kept("photo"), video |-> kept("video"),
         slideshow |-> selection.slideshow /\ kept("photo") # 0]

\* ImportLastVideo: a clip of an older firmware becomes the first video, and is
\* selected if no photo is.
AdoptClip ==
    LET repaired == Repaired(saved)
    IN  \/ /\ legacy => Listed("video") # {}       \* marked as done
           /\ legacy' = FALSE /\ settings' = repaired
           /\ storage' = "ready" /\ UNCHANGED <<files, saved, faults>>
        \/ /\ legacy /\ Listed("video") = {}
           /\ \E id \in NewId("video") :
                LET selected == OnlySelected("video", id)
                IN  /\ legacy' = FALSE /\ AddFile("video", id)
                    /\ \/ /\ repaired.photo # 0 /\ settings' = repaired
                          /\ storage' = "ready" /\ UNCHANGED <<saved, faults>>
                       \/ /\ repaired.photo = 0 /\ settings' = selected
                          /\ saved' = selected
                          /\ storage' = "ready" /\ UNCHANGED faults
                       \/ /\ repaired.photo = 0 /\ settings' = repaired
                          /\ Fault /\ saved' \in {saved, selected}
                          /\ storage' \in {"ready", "recovering"}
        \/ /\ legacy /\ settings' = repaired     \* the clip was renamed or not
           /\ \/ UNCHANGED files
              \/ /\ Listed("video") = {}
                 /\ \E id \in NewId("video") : AddFile("video", id)
           /\ Fault /\ storage' \in {"ready", "recovering"}
           /\ UNCHANGED <<saved, legacy>>

\* The pages are read before the clip is adopted, and again after that unless
\* its marker could not be written.
Initialize ==
    /\ rejected' = NoneRejected
    /\ AdoptClip
    /\ LET seen == IF legacy' THEN files ELSE files'
       IN  total' = [kind \in Kinds |->
                        Cardinality({i \in Ids : seen[kind][i] # "none"})]
    /\ reload' = Wants(settings') /\ displayed' = 0

\* A listing or the settings cannot be read.
InitializeFails ==
    /\ rejected' = NoneRejected
    /\ \E counted \in SUBSET Kinds :
         total' = [kind \in Kinds |-> IF kind \in counted
                                     THEN Cardinality(Listed(kind)) ELSE 0]
    /\ UNCHANGED <<files, saved, legacy>>

\* StorageUnavailable: the selection and a stored frame are dropped.
DropMedia ==
    /\ settings' = NoSelection
    /\ reload' = FALSE /\ clear' = FALSE /\ displayed' = 0

DroppedFrame == IF frame = LiveFrame THEN LiveFrame ELSE NoFrame

\* The framebuffer was free: the library learns of the card's loss or return.
Reselect ==
    /\ pc = "idle" /\ (lost \/ restored)
    /\ lost' = FALSE /\ restored' = FALSE /\ arrived' = Released
    /\ IF lost THEN playing' = 0 /\ frame' = DroppedFrame
       ELSE UNCHANGED <<playing, frame>>
    /\ \/ ~restored /\ DropMedia /\ again' = FALSE
          /\ total' = NothingListed
          /\ UNCHANGED <<cardVars, storage, rejected, faults>>
       \/ /\ restored /\ storage = "ready"
          /\ Initialize /\ clear' = (clear /\ ~lost)
          /\ again' = IF Wants(settings') THEN again /\ ~lost ELSE TRUE
       \/ /\ restored /\ InitializeFails
          /\ (storage # "ready" /\ UNCHANGED <<storage, faults>>) \/ DeviceLost
          /\ IF lost THEN DropMedia
             ELSE UNCHANGED <<settings, reload, clear, displayed>>
          /\ again' = (again /\ ~lost)
    /\ Stay
    /\ UNCHANGED <<adopt, tcpVideo, requests>>

-----------------------------------------------------------------------------
(* RenderLoop: PrepareDisplayFrame.                                        *)

\* Media saved by an upload is adopted.
Adopt ==
    /\ pc = "idle"
    /\ \/ /\ adopt /\ tcpVideo # 0
          /\ tcpVideo' = 0 /\ NotifySaved("video", tcpVideo)
          /\ UNCHANGED again
       \/ /\ ~adopt \/ tcpVideo = 0
          /\ reload' = (reload \/ (adopt /\ Wants(settings)))
          /\ again' = (again \/ (adopt /\ ~Wants(settings)))
          /\ UNCHANGED <<saved, storage, faults, settings, clear, rejected,
                         total, tcpVideo>>
    /\ arrived' = Released /\ Go("import")
    /\ UNCHANGED <<files, legacy, lost, restored, displayed, playing, frame,
                   adopt, task, tried, requests>>

\* A live photo that was not offered to the library before, while no saved
\* media has to be adopted.
ImportDue == ~adopt /\ arrived # "none" /\ frame = LiveFrame

NoImport ==
    /\ pc = "import" /\ ~ImportDue
    /\ Go("update")
    /\ UNCHANGED <<cardVars, storageVars, libraryVars, displayVars, uploadVars,
                   task, tried, boundVars>>

\* ImportLivePhoto: the live photo was saved as a library item ...
Import ==
    /\ pc = "import" /\ ImportDue /\ storage = "ready"
    /\ arrived' = "none" /\ playing' = 0 /\ again' = FALSE
    /\ \E id \in NewId("photo") :
         /\ AddFile("photo", id)
         /\ task' = [NoTask EXCEPT !.kind = "photo", !.id = id]
    /\ Go("imported")
    /\ UNCHANGED <<saved, legacy, storageVars, libraryVars, frame, adopt,
                   tcpVideo, tried, boundVars>>

\* ... and is selected,
Imported ==
    /\ pc = "imported"
    /\ NotifySaved("photo", task.id)
    /\ task' = NoTask /\ Go("update")
    /\ UNCHANGED <<files, legacy, lost, restored, displayed, displayVars,
                   uploadVars, tried, requests>>

\* or it stays live, with nothing selected (Deactivate), on the card as well
\* if that can be saved.
ImportFails ==
    /\ pc = "import" /\ ImportDue
    /\ arrived' = "none" /\ playing' = 0 /\ again' = FALSE
    /\ settings' = NoSelection
    /\ reload' = FALSE /\ clear' = FALSE /\ displayed' = 0
    /\ \/ storage # "ready" /\ UNCHANGED <<saved, storage, faults>>
       \/ NewId("photo") = {} /\ SaveSucceeds(NoSelection)
       \/ /\ storage = "ready" /\ Fault /\ saved' \in {saved, NoSelection}
          /\ UNCHANGED storage
       \/ DeviceLost /\ UNCHANGED saved
    /\ Go("update")
    /\ UNCHANGED <<files, legacy, lost, restored, rejected, total, frame, adopt,
                   tcpVideo, task, tried, requests>>

-----------------------------------------------------------------------------
(* MediaLibrary::Update, or MediaPlayer::Update when nothing is selected.  *)

Updating == pc = "update" /\ adopt' = FALSE

\* A frame whose item was deleted is given up first.
UpdateClears ==
    /\ Updating /\ Wants(settings) /\ clear
    /\ clear' = FALSE /\ playing' = 0 /\ again' = FALSE /\ frame' = NoFrame
    /\ Go("idle")
    /\ UNCHANGED <<cardVars, storageVars, settings, reload, displayed, rejected,
                   total, arrived, tcpVideo, task, tried, boundVars>>

\* Nothing to do: the card is gone, or the photo is shown already.
UpdateIdle ==
    /\ Updating /\ Wants(settings) /\ ~clear
    /\ storage # "ready" \/ (settings.video = 0 /\ ~reload)
    /\ Go("idle")
    /\ UNCHANGED <<cardVars, storageVars, libraryVars, displayVars, arrived,
                   tcpVideo, task, tried, boundVars>>

\* The selected item is due, or the slideshow's next photo.
UpdateLoads ==
    /\ Updating /\ Wants(settings) /\ ~clear /\ storage = "ready"
    /\ LET kind == IF settings.video # 0 THEN "video" ELSE "photo"
           first == IF kind = "photo"
                    THEN IF reload THEN settings.photo
                         ELSE FindNext("photo", displayed, 0)
                    ELSE IF Rejected("video", settings.video)
                         THEN FindNext("video", settings.video, 0)
                         ELSE settings.video
       IN  /\ reload \/ (kind = "photo" /\ settings.slideshow)
           /\ task' = [NoTask EXCEPT !.kind = kind, !.id = first]
    /\ tried' = 0 /\ reload' = FALSE
    /\ Go("load")
    /\ UNCHANGED <<cardVars, storageVars, settings, clear, displayed, rejected,
                   total, displayVars, arrived, tcpVideo, boundVars>>

Playable(id) == id \in Ids /\ files["video"][id] = "good"

\* The video's next frame is published when it is due and can be read.
NextVideoFrame ==
    \/ frame' = frame
    \/ playing \in Listed("video") /\ frame' = Item("video", playing)

\* The active video goes on, or its file can no longer be read: it is rejected
\* and the next update looks for another one.
UpdatePlays ==
    /\ Updating /\ ~clear /\ storage = "ready"
    /\ settings.video # 0 /\ ~reload
    /\ \/ /\ playing # 0 /\ NextVideoFrame
          /\ UNCHANGED <<storage, faults, reload, rejected, playing, again>>
       \/ /\ ~Playable(playing)
          /\ playing' = 0 /\ again' = FALSE
          /\ frame' = IF playing = 0 THEN frame ELSE NoFrame
          /\ rejected' = Reject("video", settings.video) /\ reload' = TRUE
          /\ UNCHANGED <<storage, faults>>
       \/ /\ playing # 0 /\ DeviceLost
          /\ playing' = 0 /\ again' = FALSE /\ frame' = NoFrame
          /\ UNCHANGED <<reload, rejected>>
    /\ Go("idle")
    /\ UNCHANGED <<cardVars, lost, restored, settings, clear, displayed, total,
                   arrived, tcpVideo, task, tried, requests>>

\* Nothing is selected: media from before the library may be restored, and a
\* deleted video that is still active runs into its missing file.
UpdatePlayer ==
    /\ Updating /\ ~Wants(settings)
    /\ \/ /\ again /\ storage = "ready"
          /\ frame' \in {Item("legacy", 0), NoFrame}
          /\ again' = FALSE /\ playing' = 0
       \/ /\ ~again /\ playing # 0
          /\ \/ Playable(playing) /\ NextVideoFrame /\ UNCHANGED <<playing,
                                                                   again>>
             \/ /\ ~Playable(playing) \/ storage # "ready"
                /\ frame' = NoFrame /\ playing' = 0 /\ UNCHANGED again
       \/ /\ IF again THEN storage # "ready" ELSE playing = 0
          /\ UNCHANGED displayVars
    /\ Go("idle")
    /\ UNCHANGED <<cardVars, storageVars, libraryVars, arrived, tcpVideo, task,
                   tried, boundVars>>

CanLoad == pc = "load" /\ task.id # 0 /\ tried < total[task.kind]

\* MUTANT: the slideshow's next photo is not remembered as displayed.
LoadSucceeds_KeepsDisplayed ==
    /\ CanLoad /\ storage = "ready" /\ files[task.kind][task.id] = "good"
    /\ frame' = Item(task.kind, task.id) /\ again' = FALSE
    /\ \/ /\ task.kind = "photo"
          /\ playing' = 0 /\ displayed' = settings.photo
          /\ UNCHANGED <<saved, storage, faults, settings>>
       \/ /\ task.kind = "video"
          /\ playing' = task.id /\ displayed' = 0
          /\ settings' = [settings EXCEPT !.video = task.id]
          /\ IF settings.video = task.id THEN UNCHANGED <<saved, storage,
                                                          faults>>
             ELSE SaveSucceeds(settings') \/ SaveFails(settings')
    /\ task' = NoTask /\ Go("idle")
    /\ UNCHANGED <<files, legacy, lost, restored, reload, clear, rejected,
                   total, uploadVars, tried, requests>>

\* ShowLibraryPhoto or ShowLibraryVideo published the item.
LoadSucceeds ==
    /\ CanLoad /\ storage = "ready" /\ files[task.kind][task.id] = "good"
    /\ frame' = Item(task.kind, task.id) /\ again' = FALSE
    /\ \/ /\ task.kind = "photo"
          /\ playing' = 0 /\ displayed' = task.id
          /\ UNCHANGED <<saved, storage, faults, settings>>
       \/ /\ task.kind = "video"
          /\ playing' = task.id /\ displayed' = 0
          /\ settings' = [settings EXCEPT !.video = task.id]
          /\ IF settings.video = task.id THEN UNCHANGED <<saved, storage,
                                                          faults>>
             ELSE SaveSucceeds(settings') \/ SaveFails(settings')
    /\ task' = NoTask /\ Go("idle")
    /\ UNCHANGED <<files, legacy, lost, restored, reload, clear, rejected,
                   total, uploadVars, tried, requests>>

\* MUTANT: candidates are not counted, only remembered as rejected.
LoadFails_Uncounted ==
    /\ CanLoad /\ storage = "ready" /\ files[task.kind][task.id] # "good"
    /\ frame' = NoFrame /\ playing' = 0 /\ again' = FALSE
    /\ rejected' = Reject(task.kind, task.id)
    /\ task' = [task EXCEPT !.id = NextIn(rejected', task.kind, task.id, 0)]
    /\ UNCHANGED <<cardVars, storageVars, settings, reload, clear, displayed,
                   total, uploadVars, pc, tried, boundVars>>

\* The item is damaged: it is rejected and the next one tried.
LoadFails ==
    /\ CanLoad /\ storage = "ready" /\ files[task.kind][task.id] # "good"
    /\ frame' = NoFrame /\ playing' = 0 /\ again' = FALSE
    /\ rejected' = Reject(task.kind, task.id)
    /\ task' = [task EXCEPT !.id = NextIn(rejected', task.kind, task.id, 0)]
    /\ tried' = tried + 1
    /\ UNCHANGED <<cardVars, storageVars, settings, reload, clear, displayed,
                   total, uploadVars, pc, boundVars>>

\* The card fails: recovery takes over.
LoadInterrupted ==
    /\ CanLoad /\ DeviceLost
    /\ frame' = NoFrame /\ playing' = 0 /\ again' = FALSE
    /\ task' = NoTask /\ Go("idle")
    /\ UNCHANGED <<cardVars, lost, restored, libraryVars, uploadVars, tried,
                   requests>>

\* No usable item is left: the selection is dropped in RAM.
LoadExhausted ==
    /\ pc = "load" /\ ~CanLoad
    /\ \/ /\ task.kind = "photo"
          /\ settings' = [settings EXCEPT !.photo = 0, !.slideshow = FALSE]
          /\ displayed' = 0 /\ UNCHANGED displayVars
       \/ /\ task.kind = "video"
          /\ settings' = [settings EXCEPT !.video = 0]
          /\ playing' = 0 /\ again' = FALSE /\ frame' = NoFrame
          /\ UNCHANGED displayed
    /\ task' = NoTask /\ Go("idle")
    /\ UNCHANGED <<cardVars, storageVars, reload, clear, rejected, total,
                   uploadVars, tried, boundVars>>

-----------------------------------------------------------------------------
(* Power and the card.                                                     *)

\* A file is damaged on the card.
Damage ==
    /\ pc = "idle" /\ Fault
    /\ \E kind \in Kinds, id \in Ids, part \in {"header", "pixels"} :
         /\ files[kind][id] = "good"
         /\ files' = [files EXCEPT ![kind][id] = part]
    /\ Stay
    /\ UNCHANGED <<saved, legacy, storageVars, libraryVars, displayVars,
                   uploadVars, requests>>

\* The health check of an idle card fails.
HealthCheckFails ==
    /\ pc = "idle" /\ DeviceLost
    /\ Stay
    /\ UNCHANGED <<cardVars, lost, restored, libraryVars, displayVars,
                   uploadVars, requests>>

\* What a controller remembers when it is switched on.
PoweredOff ==
    /\ storage' = "unavailable" /\ lost' = FALSE /\ restored' = FALSE
    /\ settings' = NoSelection /\ reload' = FALSE /\ clear' = FALSE
    /\ displayed' = 0 /\ rejected' = NoneRejected
    /\ total' = [kind \in Kinds |-> 0]
    /\ playing' = 0 /\ again' = FALSE /\ frame' = NoFrame
    /\ arrived' = "none" /\ adopt' = FALSE /\ tcpVideo' = 0
    /\ pc' = "boot" /\ task' = NoTask /\ tried' = 0

PowerLoss ==
    /\ Fault /\ PoweredOff
    /\ UNCHANGED <<cardVars, requests>>

\* RunController: mount, initialize the library, load what is selected.
Boot ==
    /\ pc = "boot"
    /\ \/ /\ Initialize
          /\ again' = ~Wants(settings') /\ Go("update")
       \/ /\ Fault /\ storage' = "unavailable" /\ Go("idle")
          /\ UNCHANGED <<cardVars, settings, reload, displayed, rejected, total,
                         again>>
       \/ /\ Fault /\ storage' = "recovering" /\ Go("idle")
          /\ InitializeFails
          /\ UNCHANGED <<settings, reload, displayed, again>>
    /\ UNCHANGED <<lost, restored, clear, playing, frame, uploadVars, task,
                   tried, requests>>

-----------------------------------------------------------------------------
Requests ==
    \/ SelectRequest \/ \E enabled \in BOOLEAN : SetSlideshow(enabled)
    \/ SetDisplaySettings \/ Remove \/ HttpUploadSaved \/ TcpVideoSaved
    \/ UploadFails \/ PhotoArrives \/ PhotoAborted

\* Steps of RenderLoop that follow from its state.
PrepareFrame ==
    \/ Delete \/ DeleteFails \/ Notify \/ Adopt \/ NoImport \/ Import
    \/ Imported \/ ImportFails \/ UpdateClears \/ UpdateIdle \/ UpdateLoads
    \/ UpdatePlays \/ UpdatePlayer \/ LoadSucceeds \/ LoadFails
    \/ LoadInterrupted \/ LoadExhausted \/ Boot

Faults == Damage \/ HealthCheckFails \/ PowerLoss

Next == Requests \/ PrepareFrame \/ UpdateMemory \/ Reselect \/ Faults

Init ==
    /\ files \in [Kinds -> [Ids -> FileStates]] /\ legacy \in BOOLEAN
    /\ Cardinality(Listed("photo")) + Cardinality(Listed("video")) <= MaxItems
    /\ saved \in [photo : Listed("photo") \cup {0},
                  video : Listed("video") \cup {0}, slideshow : BOOLEAN]
    /\ Savable(saved)
    /\ storage = "unavailable" /\ lost = FALSE /\ restored = FALSE
    /\ settings = NoSelection /\ reload = FALSE /\ clear = FALSE
    /\ displayed = 0 /\ rejected = NoneRejected
    /\ total = [kind \in Kinds |-> 0]
    /\ playing = 0 /\ again = FALSE /\ frame = NoFrame
    /\ arrived = "none" /\ adopt = FALSE /\ tcpVideo = 0
    /\ pc = "boot" /\ task = NoTask /\ tried = 0
    /\ requests = 0 /\ faults = 0

Spec == Init /\ [][Next]_vars

\* The foreground goes on preparing frames (module FrameOwnership shows that it
\* gets the framebuffer) and attends to storage events; nothing makes the card
\* come back.
FairSpec ==
    /\ Spec
    /\ WF_vars(PrepareFrame)
    /\ SF_vars(Reselect)
    /\ SF_vars(UpdateMemory /\ storage = "recovering")

-----------------------------------------------------------------------------
(* Properties.                                                             *)

Points == {"boot", "idle", "delete", "notify", "import", "imported", "update",
           "load"}

Files == [Kinds -> [Ids -> FileStates]]
Selections == [photo : Ids \cup {0}, video : Ids \cup {0}, slideshow : BOOLEAN]
Rings == [ids : [0 .. RejectCapacity - 1 -> Ids \cup {0}],
          next : 0 .. RejectCapacity - 1]
Frames == [kind : Kinds \cup {"none", "live", "torn", "legacy"},
           id : Ids \cup {0}]
Tasks == [kind : Kinds \cup {"none"}, id : Ids \cup {0}, selected : Selections]

CardOK == files \in Files /\ saved \in Selections /\ legacy \in BOOLEAN
StorageOK == storage \in {"ready", "recovering", "unavailable"}
             /\ lost \in BOOLEAN /\ restored \in BOOLEAN
LibraryOK == settings \in Selections /\ reload \in BOOLEAN /\ clear \in BOOLEAN
             /\ displayed \in Ids \cup {0}
TablesOK == rejected \in [Kinds -> Rings] /\ total \in [Kinds -> Nat]
DisplayOK == playing \in Ids \cup {0} /\ again \in BOOLEAN /\ frame \in Frames
UploadOK == arrived \in {"none", "held", "free"} /\ adopt \in BOOLEAN
            /\ tcpVideo \in Ids \cup {0}
StepOK == pc \in Points /\ task \in Tasks /\ tried \in Nat
BoundsOK == requests \in 0 .. MaxRequests /\ faults \in 0 .. MaxFaults

TypeOK == CardOK /\ StorageOK /\ LibraryOK /\ TablesOK /\ DisplayOK /\ UploadOK
          /\ StepOK /\ BoundsOK

\* The selection in RAM is always one that the card accepts.  If it were not,
\* every later save of brightness, slideshow or deletion would be refused.
SelectionSavable == Savable(settings) /\ Savable(saved) /\ Savable(task.selected)

\* While a photo is selected and no reload is due, the photo the library
\* believes to be displayed is in the frame unless a raw upload wrote over it:
\* then the frame is the live photo, or gone if that upload was aborted.  It is
\* never another item's, nor gone for any other reason: "Stop keeps the
\* currently shown photo" and the slideshow's next photo depend on it.
DisplayedIsShown ==
    pc # "load" /\ storage = "ready" /\ ~lost /\ ~reload
    /\ settings.photo # 0 /\ displayed # 0
        => frame \in {Item("photo", displayed), LiveFrame, TornFrame}

\* A deletion that has to replace the selection has the replacement on the
\* card before the file is gone, whatever fails and wherever power is lost.
ReplacedBeforeDeleted ==
    [][\A kind \in Kinds : \A id \in Ids :
          files[kind][id] # "none" /\ files'[kind][id] = "none"
          /\ settings[kind] = id => saved[kind] # id]_vars

\* The item on the display is no longer on the card.
FrameDeleted ==
    frame.kind \in Kinds /\ frame.id \notin Listed(frame.kind)

\* While anything is selected, a deleted item does not stay on the display.
DeletedReplaced ==
    (FrameDeleted /\ Wants(settings)) ~> ~(FrameDeleted /\ Wants(settings))

\* What the last search ended with is in the frame.
SelectedShown ==
    /\ pc = "idle" /\ ~reload
    /\ frame = IF settings.video # 0 THEN Item("video", settings.video)
               ELSE Item("photo", displayed)

\* Whatever is damaged, the search for something to show ends, with an item of
\* the selection in the frame, with nothing selected or with the card's loss: it
\* does not retry damaged entries for ever, more of them than can be remembered
\* as rejected included.  A frame that an aborted upload tore is not searched
\* for anew; a reload that is due is never lost.
SearchEnds ==
    (Wants(settings) /\ (reload \/ frame = NoFrame))
    ~> (SelectedShown \/ ~Wants(settings) \/ storage # "ready")

\* "A successful remount reloads that card's library and persisted selection
\* before accepting new storage jobs" (docs/RUNTIME.md): until the selection of
\* a card that came back has been read, it is not replaced by none at all.
SelectionSurvivesLoss ==
    [][(restored /\ settings = NoSelection /\ Wants(saved)) => Wants(saved')]_vars

\* Between the two halves of Remove the card no longer names the item, and the
\* new selection selects nothing that the old one gives no reason for.
Deleting ==
    pc = "delete" =>
        /\ task.kind \in Kinds /\ task.id \in Ids
        /\ settings[task.kind] = task.id => saved[task.kind] # task.id
        /\ task.selected.video # 0 => settings.video # 0
        /\ task.selected.photo # 0 => Wants(settings)

\* The item in hand fits the program point.
Handling ==
    /\ pc = "notify" => task.kind \in Kinds /\ task.id \in Ids
    /\ pc = "imported" => task.id \in Ids /\ frame = LiveFrame
    /\ pc = "load" => task.kind = IF settings.video # 0 THEN "video" ELSE "photo"

\* Before the card was read, and after its loss was handled, no photo counts as
\* displayed.
NothingShownYet ==
    /\ pc = "boot" => storage = "unavailable" /\ ~lost
    /\ storage = "unavailable" /\ ~lost => displayed = 0

\* A display that has to be cleared is not due for a selection without a reload,
\* and a photo is not displayed while a video is selected unless it is to be
\* replaced.
ReloadDue ==
    /\ clear /\ Wants(settings) => reload
    /\ pc # "load" /\ storage = "ready" /\ ~lost /\ ~reload /\ settings.video # 0
          => displayed = 0

\* The selection can be saved, is off the card before its file goes, and the
\* displayed photo is known.
Inv == TypeOK /\ SelectionSavable /\ Deleting /\ Handling /\ NothingShownYet
       /\ ReloadDue /\ DisplayedIsShown
=============================================================================
