--------------------------- MODULE FrameOwnership ---------------------------
(***************************************************************************)
(* Who may touch the one CPU framebuffer.                                  *)
(*                                                                         *)
(* FrameReceiver's atomic state_ is the lock.  Core 1's lwIP callbacks     *)
(* (FrameBufferController) write a raw photo into it as the packets come.  *)
(* Core 0's RenderLoop claims it to import a completed photo, to read      *)
(* saved media into it and to pack it for the scanner (RenderPipeline);    *)
(* its video and browser upload jobs hold it while they own the SD card.   *)
(*                                                                         *)
(* A frame is FrameChunks pieces, each tagged with the token of the image  *)
(* it belongs to, so that a torn frame can be told from a whole one.       *)
(* What the library and the SD card decide is a choice.                    *)
(***************************************************************************)
EXTENDS Naturals, Sequences

CONSTANTS FrameChunks,   \* pieces a frame is received, read and packed in
          MaxSequence,   \* BOUND: tokens given out (sequence_)
          ReadAttempts   \* candidates one library or player update tries

ASSUME FrameAssumption ==
    /\ FrameChunks \in Nat \ {0}
    /\ MaxSequence \in Nat \ {0}
    /\ ReadAttempts \in Nat \ {0}

VARIABLES
    state, owner, sequence, received,   \* FrameReceiver
    hasFrame, revision,
    fromStorage,         \* FrameBufferController::m_fromStorage
    pixels, overlay,     \* the CPU framebuffer; network labels drawn in it
    client, rawOwner,    \* Core 1: the raw photo client, m_rawOwner
    pc, copy,            \* Core 0: program point, chunks copied so far
    attempts,            \* candidates tried in this update
    prepared, blocked,   \* RenderPipeline
    expired,             \* MaxWaitUs has passed since preparation
    uploaded, displayed, \* uploadedFrame # nullptr, displayedRevision
    attempted, reload,   \* attemptedPhotoRevision, reloadVideo || reloadHttp
    recover,             \* storageLost || storageRestored
    job,                 \* which service's external_ flag is set
    scanner, panel       \* hub75_ready_for_update(), the submitted frame

frameVars == <<hasFrame, revision, fromStorage, pixels, overlay>>
receiverVars == <<owner, sequence, received>>
core1Vars == <<client, rawOwner>>
pipelineVars == <<prepared, blocked, expired>>
loopVars == <<uploaded, displayed, attempted, reload, recover, job>>
panelVars == <<scanner, panel>>
vars == <<state, frameVars, receiverVars, core1Vars, pc, copy, attempts,
          pipelineVars, loopVars, panelVars>>

Chunks == 1 .. FrameChunks
BuiltIn == 0                       \* the flashed image; tokens are nonzero
Provisional == MaxSequence + 1     \* read from SD, not yet verified
Whole(image) == [c \in Chunks |-> image]

\* RunController has run: saved media was restored, or the built-in image is
\* shown, or a failed restoration was reported as restored and its unverified
\* pixels are still there (MediaLibrary::Update returns true when it clears).
Init ==
    /\ state = "Idle" /\ owner = 0 /\ received = 0
    /\ \E image \in {1, BuiltIn, Provisional} :
           /\ hasFrame = (image = 1) /\ fromStorage = hasFrame
           /\ sequence = (IF hasFrame THEN 1 ELSE 0) /\ revision = sequence
           /\ pixels = Whole(image) /\ panel \in {Whole(image), Whole(BuiltIn)}
    /\ overlay = TRUE
    /\ client = "none" /\ rawOwner = 0
    /\ pc = "top" /\ copy = <<>> /\ attempts = 0
    /\ prepared = FALSE /\ blocked = FALSE /\ expired = FALSE
    /\ uploaded = FALSE /\ displayed = 0 /\ attempted = 0
    /\ reload = FALSE /\ recover = FALSE /\ job = "none"
    /\ scanner \in BOOLEAN

-----------------------------------------------------------------------------
(* Core 1: lwIP callbacks of the raw photo port.                           *)

\* MUTANT: rendering does not take over a photo held for it.
CanRender_IdleOnly == state = "Idle"

\* TryBeginRender succeeds: rendering may take over a held photo.
CanRender == state \in {"Idle", "Pending"}

Owns(token) == token # 0 /\ token = owner

\* MUTANT: a new upload may start over a completed photo that is held.
Accept_TakesPending ==
    /\ client = "none" /\ state \in {"Idle", "Pending"} /\ sequence < MaxSequence
    /\ sequence' = sequence + 1 /\ owner' = sequence' /\ received' = 0
    /\ state' = "Upload" /\ client' = "receiving" /\ rawOwner' = sequence'
    /\ UNCHANGED <<frameVars, pc, copy, attempts, pipelineVars, loopVars, panelVars>>

\* OnTcpAccept: one client, and only an idle framebuffer; any other
\* connection is aborted and changes nothing.
Accept ==
    /\ client = "none" /\ state = "Idle" /\ sequence < MaxSequence
    /\ sequence' = sequence + 1 /\ owner' = sequence' /\ received' = 0
    /\ state' = "Upload" /\ client' = "receiving" /\ rawOwner' = sequence'
    /\ UNCHANGED <<frameVars, pc, copy, attempts, pipelineVars, loopVars, panelVars>>

\* OnTcpRecv: a packet's pixels go straight to the framebuffer.
Feed ==
    /\ client = "receiving" /\ Owns(rawOwner)
    /\ received' = received + 1
    /\ pixels' = [pixels EXCEPT ![received'] = rawOwner]
    /\ client' = IF received' = FrameChunks THEN "finishing" ELSE client
    /\ UNCHANGED <<state, owner, sequence, hasFrame, revision, fromStorage,
                   overlay, rawOwner, pc, copy, attempts, pipelineVars,
                   loopVars, panelVars>>

\* FinishFrame: metadata, revision and availability are published first ...
PublishFrame ==
    /\ client = "finishing"
    /\ revision' = rawOwner /\ hasFrame' = TRUE /\ fromStorage' = FALSE
    /\ overlay' = FALSE
    /\ client' = "publishing"
    /\ UNCHANGED <<state, receiverVars, pixels, rawOwner, pc, copy, attempts,
                   pipelineVars, loopVars, panelVars>>

\* ... and then the photo is held for the foreground.
HoldFrame ==
    /\ client = "publishing"
    /\ state' = "Pending" /\ owner' = 0 /\ rawOwner' = 0 /\ received' = 0
    /\ client' = "replying"
    /\ UNCHANGED <<frameVars, sequence, pc, copy, attempts, pipelineVars,
                   loopVars, panelVars>>

\* The client's acknowledgement was delivered and the connection closed.
FinishReply ==
    /\ client = "replying"
    /\ client' = "none"
    /\ UNCHANGED <<state, frameVars, receiverVars, rawOwner, pc, copy, attempts,
                   pipelineVars, loopVars, panelVars>>

\* AbortClient: an error, an idle or overlong client, or a listener being
\* stopped.  A partial photo makes the frame unavailable; a completed one no
\* longer belongs to the client.
AbortClient ==
    /\ client \in {"receiving", "replying"}
    /\ hasFrame' = (hasFrame /\ ~(Owns(rawOwner) /\ received > 0))
    /\ client' = IF Owns(rawOwner) THEN "releasing" ELSE "none"
    /\ UNCHANGED <<state, receiverVars, revision, fromStorage, pixels, overlay,
                   rawOwner, pc, copy, attempts, pipelineVars, loopVars,
                   panelVars>>

ReleaseAborted ==
    /\ client = "releasing"
    /\ state' = "Idle" /\ owner' = 0 /\ rawOwner' = 0 /\ received' = 0
    /\ client' = "none"
    /\ UNCHANGED <<frameVars, sequence, pc, copy, attempts, pipelineVars,
                   loopVars, panelVars>>

PhotoClient ==
    \/ Feed \/ PublishFrame \/ HoldFrame \/ FinishReply \/ AbortClient
    \/ ReleaseAborted

-----------------------------------------------------------------------------
(* Core 0: one pass of RenderLoop.                                         *)

Go(next) == pc' = next

\* RenderPipeline::Reset gives a prepared frame back.
Reset ==
    /\ state' = IF prepared THEN "Idle" ELSE state
    /\ prepared' = FALSE /\ blocked' = FALSE /\ expired' = FALSE

\* ProcessRequests: HandleNetworkPauseRequest resets the pipeline for either
\* command; a paused loop does nothing else until it is resumed.
HandlePause ==
    /\ pc \in {"top", "paused"}
    /\ Reset
    /\ Go(IF pc = "top" THEN "paused" ELSE "storage")
    /\ UNCHANGED <<frameVars, receiverVars, core1Vars, copy, attempts, loopVars,
                   panelVars>>

BeginPass ==
    /\ pc = "top"
    /\ Go("storage")
    /\ UNCHANGED <<state, frameVars, receiverVars, core1Vars, copy, attempts,
                   pipelineVars, loopVars, panelVars>>

\* MemoryManager::Update: usually nothing, else the card was lost or is back.
UpdateMemory ==
    /\ pc = "storage"
    /\ \/ UNCHANGED <<state, pipelineVars, recover>>
       \/ Reset /\ recover' = TRUE
    /\ Go(IF recover' THEN "claim" ELSE "video")
    /\ UNCHANGED <<frameVars, receiverVars, core1Vars, copy, attempts, uploaded,
                   displayed, attempted, reload, job, panelVars>>

ClaimForStorage ==
    /\ pc = "claim"
    /\ \/ CanRender /\ state' = "Render" /\ Go("reselect")
       \/ ~CanRender /\ UNCHANGED state /\ Go("video")
    /\ UNCHANGED <<frameVars, receiverVars, core1Vars, copy, attempts,
                   pipelineVars, loopVars, panelVars>>

\* StorageUnavailable drops a stored frame; Initialize reselects media.
Reselect ==
    /\ pc = "reselect"
    /\ hasFrame' \in {hasFrame, hasFrame /\ ~fromStorage}
    /\ state' = "Idle" /\ recover' = FALSE
    /\ Go("video")
    /\ UNCHANGED <<revision, fromStorage, pixels, overlay, receiverVars,
                   core1Vars, copy, attempts, pipelineVars, uploaded, displayed,
                   attempted, reload, job, panelVars>>

After(service) == IF service = "video" THEN "http" ELSE "prepare"

\* TcpVideoUpload ("video") or HttpMediaUpload ("http") starts a save.
BeginJob ==
    /\ pc \in {"video", "http"} /\ job = "none" /\ state = "Idle"
    /\ state' = "External" /\ job' = pc
    /\ UNCHANGED <<frameVars, receiverVars, core1Vars, pc, copy, attempts,
                   pipelineVars, uploaded, displayed, attempted, reload, recover,
                   panelVars>>

\* The save ended: committed, failed, canceled or timed out.
EndJob ==
    /\ pc \in {"video", "http"} /\ job = pc
    /\ state' = "Idle" /\ job' = "none" /\ reload' = TRUE
    /\ Go(After(pc))
    /\ UNCHANGED <<frameVars, receiverVars, core1Vars, copy, attempts,
                   pipelineVars, uploaded, displayed, attempted, recover,
                   panelVars>>

\* No job, or one bounded step of it.
ServeJob ==
    /\ pc \in {"video", "http"}
    /\ Go(After(pc))
    /\ UNCHANGED <<state, frameVars, receiverVars, core1Vars, copy, attempts,
                   pipelineVars, loopVars, panelVars>>

\* MUTANT: a failed claim does not stop the preparation.
TryPrepare_NoClaim ==
    /\ pc = "prepare"
    /\ \/ /\ prepared \/ (blocked /\ ~scanner)
          /\ UNCHANGED <<state, pipelineVars>> /\ Go("submit")
       \/ /\ ~prepared /\ (scanner \/ ~blocked)
          /\ state' = IF CanRender THEN "Render" ELSE state
          /\ blocked' = FALSE /\ prepared' = TRUE /\ expired' = FALSE
          /\ Go("adopt")
    /\ UNCHANGED <<frameVars, receiverVars, core1Vars, copy, attempts, loopVars,
                   panelVars>>

\* RenderPipeline::TryPrepare.
TryPrepare ==
    /\ pc = "prepare"
    /\ \/ /\ prepared \/ (blocked /\ ~scanner)
          /\ UNCHANGED <<state, pipelineVars>> /\ Go("submit")
       \/ /\ ~prepared /\ (scanner \/ ~blocked)
          /\ blocked' = FALSE /\ UNCHANGED expired
          /\ \/ CanRender /\ state' = "Render" /\ prepared' = TRUE /\ Go("adopt")
             \/ ~CanRender /\ UNCHANGED <<state, prepared>> /\ Go("submit")
    /\ UNCHANGED <<frameVars, receiverVars, core1Vars, copy, attempts, loopVars,
                   panelVars>>

\* A complete live photo whose import has not been tried.
Unsaved == hasFrame /\ ~fromStorage /\ revision # attempted

\* PrepareDisplayFrame: a photo not seen before is imported, unless saved
\* media has to be adopted.
Adopt ==
    /\ pc = "adopt"
    /\ copy' = <<>>
    /\ \/ ~reload /\ Unsaved /\ attempted' = revision /\ Go("import")
       \/ ~(~reload /\ Unsaved) /\ UNCHANGED attempted /\ Go("update")
    /\ UNCHANGED <<state, frameVars, receiverVars, core1Vars, attempts,
                   pipelineVars, uploaded, displayed, reload, recover, job,
                   panelVars>>

\* SaveLibraryImage streams the framebuffer to SD through ReadFramePixels,
\* until it is complete or a write fails.
ImportChunk ==
    /\ pc = "import" /\ Len(copy) < FrameChunks
    /\ copy' = Append(copy, pixels[Len(copy) + 1])
    /\ UNCHANGED <<state, frameVars, receiverVars, core1Vars, pc, attempts,
                   pipelineVars, loopVars, panelVars>>

ImportEnds ==
    /\ pc = "import"
    /\ copy' = <<>> /\ Go("update")
    /\ UNCHANGED <<state, frameVars, receiverVars, core1Vars, attempts,
                   pipelineVars, loopVars, panelVars>>

\* MediaLibrary::Update or MediaPlayer::Update: nothing is due, there is
\* nothing left to show, or a stored frame is to be read.
UpdateMedia ==
    /\ pc = "update"
    /\ \/ UNCHANGED hasFrame /\ Go("draw")
       \/ hasFrame' = FALSE /\ Go("draw")
       \/ UNCHANGED hasFrame /\ Go("read")
    /\ copy' = <<>>
    /\ UNCHANGED <<state, revision, fromStorage, pixels, overlay, receiverVars,
                   core1Vars, attempts, pipelineVars, loopVars, panelVars>>

\* ReadFrame: provisional pixels, fragment by fragment.
ReadChunk ==
    /\ pc = "read" /\ Len(copy) < FrameChunks
    /\ copy' = Append(copy, Provisional)
    /\ pixels' = [pixels EXCEPT ![Len(copy')] = Provisional]
    /\ UNCHANGED <<state, hasFrame, revision, fromStorage, overlay, receiverVars,
                   core1Vars, pc, attempts, pipelineVars, loopVars, panelVars>>

\* A read or its checksum failed: the next candidate, or no frame at all.
ReadFails ==
    /\ pc = "read"
    /\ hasFrame' = FALSE /\ copy' = <<>>
    /\ \/ attempts + 1 < ReadAttempts /\ attempts' = attempts + 1 /\ UNCHANGED pc
       \/ attempts + 1 = ReadAttempts /\ attempts' = 0 /\ Go("draw")
    /\ UNCHANGED <<state, revision, fromStorage, pixels, overlay, receiverVars,
                   core1Vars, pipelineVars, loopVars, panelVars>>

\* MUTANT: a stored frame is published under the revision of the last one.
PublishStoredFrame_SameRevision ==
    /\ pc = "read" /\ Len(copy) = FrameChunks
    /\ UNCHANGED <<sequence, revision>>
    /\ hasFrame' = TRUE /\ fromStorage' = TRUE /\ overlay' = FALSE
    /\ pixels' = [c \in Chunks |->
                     IF pixels[c] = Provisional THEN sequence + 1 ELSE pixels[c]]
    /\ copy' = <<>> /\ attempts' = 0 /\ Go("draw")
    /\ UNCHANGED <<state, owner, received, core1Vars, pipelineVars, loopVars,
                   panelVars>>

\* PublishStoredFrame: the verified pixels are a new image.
PublishStoredFrame ==
    /\ pc = "read" /\ Len(copy) = FrameChunks /\ sequence < MaxSequence
    /\ sequence' = sequence + 1 /\ revision' = sequence'
    /\ hasFrame' = TRUE /\ fromStorage' = TRUE /\ overlay' = FALSE
    /\ pixels' = [c \in Chunks |->
                     IF pixels[c] = Provisional THEN sequence' ELSE pixels[c]]
    /\ copy' = <<>> /\ attempts' = 0 /\ Go("draw")
    /\ UNCHANGED <<state, owner, received, core1Vars, pipelineVars, loopVars,
                   panelVars>>

\* The reload flags are spent; without a frame the flashed image is drawn.
DrawFallback ==
    /\ pc = "draw"
    /\ reload' = FALSE /\ uploaded' = hasFrame
    /\ pixels' = IF hasFrame THEN pixels ELSE Whole(BuiltIn)
    /\ overlay' = (overlay /\ hasFrame)
    /\ expired' = FALSE
    /\ Go("submit")
    /\ UNCHANGED <<state, hasFrame, revision, fromStorage, receiverVars,
                   core1Vars, copy, attempts, prepared, blocked, displayed,
                   attempted, recover, job, panelVars>>

\* RenderPipeline::TrySubmit finds nothing to do, or waits for the scanner.
SkipSubmit ==
    /\ pc = "submit"
    /\ ~prepared \/ (~scanner /\ ~expired)
    /\ Go("top")
    /\ UNCHANGED <<state, frameVars, receiverVars, core1Vars, copy, attempts,
                   pipelineVars, loopVars, panelVars>>

\* MUTANT: a stopped scanner is waited for without a deadline.
Stall_Never ==
    /\ pc = "submit" /\ prepared /\ ~scanner /\ expired
    /\ Go("top")
    /\ UNCHANGED <<state, pipelineVars, frameVars, receiverVars, core1Vars, copy,
                   attempts, loopVars, panelVars>>

\* The scanner took too long: the frame is released and nothing is prepared
\* until the scanner recovers.
Stall ==
    /\ pc = "submit" /\ prepared /\ ~scanner /\ expired
    /\ state' = "Idle" /\ prepared' = FALSE /\ expired' = FALSE
    /\ blocked' = TRUE
    /\ Go("top")
    /\ UNCHANGED <<frameVars, receiverVars, core1Vars, copy, attempts, loopVars,
                   panelVars>>

\* SubmitDisplayFrame's freshFrame.
FreshFrame == ~uploaded \/ revision # displayed

\* SubmitDisplayFrame: an unchanged frame under unchanged labels is skipped.
SubmitHeld ==
    /\ pc = "submit" /\ prepared /\ scanner /\ ~FreshFrame
    /\ Reset
    /\ Go("top")
    /\ UNCHANGED <<frameVars, receiverVars, core1Vars, copy, attempts, loopVars,
                   panelVars>>

\* The labels are drawn into the pixels and the frame is packed.
SubmitDrawn ==
    /\ pc = "submit" /\ prepared /\ scanner
    /\ overlay' = TRUE /\ copy' = <<>>
    /\ Go("pack")
    /\ UNCHANGED <<state, hasFrame, revision, fromStorage, pixels, receiverVars,
                   core1Vars, attempts, pipelineVars, loopVars, panelVars>>

PackChunk ==
    /\ pc = "pack" /\ Len(copy) < FrameChunks
    /\ copy' = Append(copy, pixels[Len(copy) + 1])
    /\ UNCHANGED <<state, frameVars, receiverVars, core1Vars, pc, attempts,
                   pipelineVars, loopVars, panelVars>>

\* update() queues the packed buffer; then ownership is released.
Submitted ==
    /\ pc = "pack" /\ Len(copy) = FrameChunks
    /\ panel' = copy /\ scanner' = FALSE /\ copy' = <<>>
    /\ displayed' = revision
    /\ Reset
    /\ Go("top")
    /\ UNCHANGED <<frameVars, receiverVars, core1Vars, attempts, uploaded,
                   attempted, reload, recover, job>>

RenderLoop ==
    \/ HandlePause \/ BeginPass \/ UpdateMemory \/ ClaimForStorage \/ Reselect
    \/ BeginJob \/ EndJob \/ ServeJob \/ TryPrepare \/ Adopt \/ ImportChunk
    \/ ImportEnds \/ UpdateMedia \/ ReadChunk \/ ReadFails \/ PublishStoredFrame
    \/ DrawFallback \/ SkipSubmit \/ Stall \/ SubmitHeld \/ SubmitDrawn
    \/ PackChunk \/ Submitted

-----------------------------------------------------------------------------
(* Time and the scanner.                                                   *)

\* MaxWaitUs passes while a prepared frame waits.
DeadlinePasses ==
    /\ prepared /\ pc \in {"top", "storage", "claim", "video", "http", "prepare",
                           "submit"}
    /\ ~expired /\ expired' = TRUE
    /\ UNCHANGED <<state, frameVars, receiverVars, core1Vars, pc, copy, attempts,
                   prepared, blocked, loopVars, panelVars>>

\* The scan interrupt swaps in the pending buffer.
ScannerSwaps ==
    /\ ~scanner /\ scanner' = TRUE
    /\ UNCHANGED <<state, frameVars, receiverVars, core1Vars, pc, copy, attempts,
                   pipelineVars, loopVars, panel>>

Next == Accept \/ PhotoClient \/ RenderLoop \/ DeadlinePasses \/ ScannerSwaps

\* Both cores and the clock go on (the photo client's idle and lifetime
\* limits end every connection); nothing makes a client connect.
CoresRun ==
    /\ WF_vars(RenderLoop) /\ WF_vars(PhotoClient) /\ WF_vars(DeadlinePasses)

Spec == Init /\ [][Next]_vars
\* The scanner is not among them: it may stop for good.
FairSpec == Spec /\ CoresRun

-----------------------------------------------------------------------------
(* Properties.                                                             *)

\* The photo streamed to the SD card is one complete upload: no chunk of it
\* comes from another image (Rendering claims the CPU frame so callbacks
\* cannot replace pixels while persistence reads them).
ImportIsWhole ==
    pc = "import" => \A i \in 1 .. Len(copy) : copy[i] = attempted

\* No frame given to the panel has parts of two images or unverified pixels;
\* and when an unchanged revision lets a submission be skipped, the panel
\* already shows what the framebuffer holds.
PanelFaithful ==
    [][/\ panel' # panel => \E image \in 0 .. MaxSequence : panel' = Whole(image)
       /\ SubmitHeld => panel = pixels]_vars

\* A completed photo that is held for the foreground is out of reach of Core
\* 1: its client's death, a new client or a stopped listener changes nothing
\* of it, and only a rendering claim ends the hold.
HeldPhotoUntouched ==
    [][state = "Pending" =>
          /\ state' \in {"Pending", "Render"}
          /\ UNCHANGED <<pixels, revision, hasFrame, fromStorage>>]_vars

\* A prepared frame is submitted or given up even if the scanner has stopped
\* for good (MaxWaitUs).
PreparedReleased == prepared ~> ~prepared

HoldEnds == (state = "Pending") ~> (state # "Pending")

\* While the scanner keeps swapping, a completed photo is not left on hold,
\* which would refuse every later upload.
HeldPhotoTaken == []<>scanner => HoldEnds

\* "Each completed upload is saved once before drawing the Wi-Fi status
\* overlay" (mainEntry.cpp): as long as its import has not been tried, no
\* pixel of a completed photo is replaced or drawn over.
UploadsSavedFirst ==
    [][Unsaved => UNCHANGED <<pixels, overlay, revision>>]_vars

-----------------------------------------------------------------------------
(* The inductive invariant.                                                *)

Points == {"top", "paused", "storage", "claim", "reselect", "video", "http",
           "prepare", "adopt", "import", "update", "read", "draw", "submit",
           "pack"}

States == {"Idle", "Render", "Upload", "Pending", "External"}
Clients == {"none", "receiving", "finishing", "publishing", "replying",
            "releasing"}
Jobs == {"none", "video", "http"}
Tokens == 0 .. MaxSequence
Frames == [Chunks -> 0 .. MaxSequence + 1]

FlagsOK ==
    /\ hasFrame \in BOOLEAN /\ fromStorage \in BOOLEAN /\ overlay \in BOOLEAN
    /\ prepared \in BOOLEAN /\ blocked \in BOOLEAN /\ expired \in BOOLEAN
    /\ uploaded \in BOOLEAN /\ reload \in BOOLEAN /\ recover \in BOOLEAN
    /\ scanner \in BOOLEAN

ModesOK ==
    state \in States /\ client \in Clients /\ pc \in Points /\ job \in Jobs

CountsOK ==
    /\ owner \in Tokens /\ sequence \in Tokens /\ rawOwner \in Tokens
    /\ revision \in Tokens /\ displayed \in Tokens /\ attempted \in Tokens
    /\ received \in 0 .. FrameChunks
    /\ attempts \in 0 .. ReadAttempts - 1

PixelsOK ==
    /\ pixels \in Frames /\ panel \in Frames
    /\ copy \in Seq(0 .. MaxSequence + 1) /\ Len(copy) <= FrameChunks

TypeOK == FlagsOK /\ ModesOK /\ CountsOK /\ PixelsOK

Preparing == {"adopt", "import", "update", "read", "draw"}

\* state_ says who holds the framebuffer.
Ownership ==
    /\ state = "Upload" <=>
           client \in {"receiving", "finishing", "publishing", "releasing"}
    /\ state = "Upload" => owner = sequence /\ rawOwner = owner /\ owner # 0
    /\ state # "Upload" => owner = 0 /\ rawOwner = 0 /\ received = 0
    /\ client = "receiving" => received < FrameChunks
    /\ client \in {"finishing", "publishing"} => received = FrameChunks
    /\ state = "External" <=> job # "none"
    /\ state = "Render" <=> prepared \/ pc = "reselect"
    /\ pc \in Preparing \cup {"pack"} => prepared
    /\ pc \in {"reselect", "paused"} => ~prepared
    /\ pc = "claim" => recover

\* An available frame is whole, unless its owner is in the middle of it.
Available ==
    /\ revision <= sequence
    /\ hasFrame => revision # 0
    /\ hasFrame /\ pc # "read" /\ (state = "Upload" => received = 0) =>
           pixels = Whole(revision)
    /\ client \in {"receiving", "finishing"} =>
           /\ \A c \in 1 .. received : pixels[c] = owner
           /\ revision < owner
    /\ client = "publishing" =>
           hasFrame /\ revision = owner /\ pixels = Whole(owner)
    /\ client = "releasing" => received = 0 \/ ~hasFrame

\* What Core 0 has prepared, copied and shown.
Showing ==
    /\ displayed <= revision
    /\ displayed = revision /\ hasFrame => panel = Whole(revision)
    /\ pc = "import" => hasFrame /\ attempted = revision
    /\ prepared /\ pc \notin Preparing =>
           /\ uploaded = hasFrame
           /\ ~hasFrame => pixels = Whole(BuiltIn)
    /\ pc \in {"import", "pack"} =>
           \A i \in 1 .. Len(copy) : copy[i] = pixels[i]
    /\ pc = "read" => \A i \in 1 .. Len(copy) : pixels[i] = Provisional

\* The ownership of the framebuffer agrees with its pixels and with both
\* cores' program points, and what is imported is one whole image.
Inv == TypeOK /\ Ownership /\ Available /\ Showing /\ ImportIsWhole
=============================================================================
