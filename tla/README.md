# A TLA+ model of the HUB75 multi-panel controller

The controller drives a wall of HUB75 panels from a Raspberry Pi Pico W. It
receives photos and videos over Wi-Fi, keeps them on an SD card and shows them.
Two cores share its memory: Core 0 does storage, decoding and drawing in one
loop; Core 1 does the radio, lwIP callbacks and, while nobody is connected,
half of the JPEG decoding. There are no threads, no mutexes around the data and
no operating system: what keeps the parts apart is a handful of atomic words.
This directory models those words and the code around them, checks the models
with TLC on small instances, and proves with TLAPS the safety of all of them for
instances of every size.

Paths below are relative to the repository.

## The system

| Part | State it keeps | Operations | Interacts with |
|---|---|---|---|
| Core 1 scheduler (`src/core/Core1SchedulerClass.cpp`, `src/network/networkCorePico.cpp`) | the word Network / Reserved / Queued / Decoding, a completion flag, a borrowed job | reserve, submit, cancel, run, offer | the JPEG decoder, the network loop |
| Listener lifecycle mailbox (`src/network/NetworkServicesClass.cpp`) | one command word, a status snapshot | request, process, publish | Core 0's loop, WifiConnection |
| JPEG input pipe (`src/media/jpeg/`) | two slots with ready flags, finished flag, indices | reset, publish, finish, read | SD reads on Core 0, decoder on Core 1 |
| Framebuffer (`src/network/FrameReceiverClass.cpp`, `FrameBufferControllerClass.cpp`) | owner word Idle / Receiving / Pending / External / Rendering, revision, hasFrame | begin, feed, finish, abort, claim, release | raw photo clients, uploads, drawing |
| Render pipeline (`src/display/RenderPipelineClass.cpp`, `mainEntry.cpp`) | prepared frame, deadline, blocked | prepare, submit, reset | framebuffer, HUB75 driver |
| Media library and player (`src/media/`) | selection, displayed item, rejected items, reload and clear flags | select, slideshow, remove, notify, update | memory manager, framebuffer, requests |
| Memory manager and formats (`src/sd/`) | mount state, save session, files, A/B records | mount, list, save, verify, publish, delete, recover | everything that stores |
| TCP video upload (`src/network/TcpVideoUploadClass.cpp`) | phase, reply, section buffer, External hold | callbacks on Core 1, storage steps on Core 0 | memory manager, framebuffer, library |
| HTTP service (`src/http/`) | clients, one request mailbox, one upload session | parse, submit, respond, resume | library, memory manager |
| Playback prefetch (`src/sd/PlaybackPrefetchClass.cpp`) | cursor, direction, a few cached blocks of the open file | read, seek, look ahead, reset | memory manager |
| Wi-Fi connection (`src/network/WifiConnectionClass.cpp`) | radio, association, reachability, retry times, listeners | connect, check, give up, restart the radio, start and stop listeners, publish status | mailbox, hotspot |
| Hotspot (`src/network/PicoHotspotClass.cpp`) | DHCP leases, one indicator slot per device | answer, expire, poll the association list, start, stop | Wi-Fi connection |
| Scanning (`src/display/`, `third_party/hub75`) | front and back buffer, pending swap | pack, swap | render pipeline |

What is hard about it: the order of stores to two atomic words on two cores;
ownership of one frame of pixels by five kinds of users; a decode job that is a
pointer into the other core's stack; callbacks that arrive while the foreground
is inside a card operation for the same client; cards that disappear, power that
is cut between two writes, and files that turn out to be damaged when they are
due to be shown; a home network that falls silent and a radio that hangs while
others use the hotspot; DHCP packets that arrive after their device has gone.

## Modules

| Module | Models | Composed of |
|---|---|---|
| `Core1` (`MCCore1`, `ParallelDecodeProofs`) | the scheduler word, the borrowed decode job and the lifecycle mailbox, with both cores' loops | – |
| `ByteStream` | the abstract stream a decoder expects: bytes in order, end of input once closed and drained | – |
| `JpegInputPipe` (`ParallelDecodeProofs`) | both ends of the two-slot pipe, record after record | `INSTANCE ByteStream` |
| `FrameOwnership` (`FrameOwnershipProofs`) | framebuffer, photo client, render pipeline, uploads and storage events as its users | – |
| `MediaLibrary` (`MediaLibraryProofs`) | selection in RAM, on the card and on the display; the memory manager's settings and files | – |
| `TcpVideoUpload` (`TcpVideoUploadProofs`) | one TCP video client and the storage steps for it | – |
| `HttpMailbox` | webServer's one client and the mailbox flags on both cores | – |
| `HttpUpload` (`HttpUploadProofs`) | the upload session on Core 0 and the browser pages' recovery protocol | `EXTENDS HttpMailbox` |
| `SavedLibrary` | the abstract library: an item appears whole in a free place, and once | – |
| `MediaSave` (`MediaSaveProofs`) | save sessions, settings records, adoption of a legacy clip and recovery on a failing card | `INSTANCE SavedLibrary` |
| `FileReader` | the abstract reader of the open playback file | – |
| `PlaybackPrefetch` (`MCPlaybackPrefetch`, `PlaybackPrefetchProofs`) | the block cache between the player and the card | `INSTANCE FileReader` |
| `WifiConnection` (`WifiProofs`) | the network loop on Core 1 with radio, home network and clients around it | – |
| `PicoHotspot` (`WifiProofs`) | the DHCP server and the indicators, with the devices and the packets between | – |

Two proof modules cover two modules each: the scheduler and the pipe are the two
halves of the parallel decoder, the network loop and the hotspot those of Wi-Fi.
Definitions that both would declare carry a prefix in the second (`PipeInv`,
`HotspotInv`).

The modules divide the system where the code itself does: `Core1` shows that
both loops keep running, and the fairness of the other modules rests on that;
`FrameOwnership` shows who gets the framebuffer and when, and `MediaLibrary`,
`TcpVideoUpload` and `HttpUpload` take "the framebuffer is free or it is not"
as a choice; `MediaLibrary` shows what a saved upload does to the selection,
and the upload modules stop at the publication, which `MediaSave` follows down to
the files. `MediaLibrary` has one step where `MediaSave` has many: it may do so
because `MediaSave!ImplementsLibrary` and `SettingsAtomic` show that each of them
changes the library or the settings once or not at all. `WifiConnection` asks
for the listeners to stop and start; that Core 0 is parked then is `Core1`'s.

### Core1

`pc1` is the point in `NetworkCore` (networkCorePico.cpp) and `pc0` the point in
`RenderLoop` with `DecodeJpegParallel` inlined. Every access to `state_`,
`completed_` and `command_` is a step. Core 1: `RunDecode`, `DecodeReturns`,
`ReleaseCore1` (RunQueuedDecode), `TryBeginNetwork`, `RequestPause` ..
`AwaitResume` (NetworkServices::Request around the listeners), `OfferDecode`.
Core 0: `LoadRequest`, `HandleRequest`, `AcknowledgeRequest` (ProcessRequests),
`TryReserveDecode`, `ClearCompleted`, `CancelReservation`, `WriteJob`,
`QueueJob`, `DecodeFinished`. The job is a pointer to a local of the decode
function: `frame` is the live one, `context` the one the scheduler holds.

### JpegInputPipe

Slots hold ranges of byte positions, so loss, repetition and reordering can be
told apart. Core 0 (`FeederStep`) primes, fills, publishes, finishes and waits;
Core 1 (`DecoderStep`) reads any amounts and may stop anywhere, as TJpgDec does.
`LoadReady`, `LoadFinished` and `RecheckReady` are the three loads of
`JpegInputPipe::Read` between which the last block may be published. A failed
SD read ends the record through `Finish`.

### FrameOwnership

`state` is FrameReceiver's word. Core 1's photo client goes through accept,
feed, publish, hold and reply, and may die at any of these points. Core 0's
program point walks RenderLoop: acknowledge a pause, storage event (`ClaimForStorage`,
`Reselect`), the two upload services (`ServeJob`), `TryPrepare`, `Adopt`, import,
update and read, fallback, submit and pack. A frame is a tuple of chunks tagged
with the token of the image they belong to; `panel` is the last submitted frame.
The scanner may stop for good.

### MediaLibrary

`settings` is the library's copy of the selection, `saved` the card's record,
`frame` what MediaPlayer published, `displayed` what the library believes it
to be. Each request is an action with the card operations it makes, a deletion
is cut into its two writes (`Remove`, `Delete`) because power may be lost in
between; the loading of a candidate is a step of its own because its file may be
damaged. `Boot` is RunController after `PoweredOff`.

The framebuffer's owners are left to `FrameOwnership`; what the library feels of
them is `arrived`, a raw photo that the receiver holds or has let go of, and what raw
clients leave in `frame`: a whole photo (`PhotoArrives`), or nothing that may be
shown when a client goes after some bytes (`PhotoAborted`, `TornFrame`). Neither
tells the library, which goes on counting its own photo as displayed.

`Initialize` includes ImportLastVideo: a `legacy` clip becomes the first video and
is selected if no photo is (`AdoptClip`). It is one step here, since `MediaSave`
follows the renaming and the marker; power lost between the adoption and the saving
of the selection leaves what a failed save leaves. An `Initialize` that fails has cleared
the rejected items all the same, and a listing that fails counts nothing.

### TcpVideoUpload

`client` and `phase` are those of the code. `Accept`, `Receive`, `Sent`, `Poll`,
`Error` are lwIP's callbacks. UpdateStorage is cut where it gives up the lwIP
lock: `Snapshot` (locked) copies the phase, `Work` acts on the card, `Settle`
(locked) puts its verdict into force unless a callback canceled in between. The
listener's `Start` and `Stop` run with Core 0 parked (`Core1!ListenersExclusive`).

### HttpMailbox and HttpUpload

`client` is webServer.cpp's record with its flags folded into a stage (header,
receiving, waiting, responding). Core 0 takes a request under the lock
(`TakeRequest`), serves it without (`Write`), and publishes (`PublishResponse`).
`serving` is Update's local; "lost" says that its client has gone since.
`HttpUpload` adds the session: `Begin`, `Chunk`, `Cancel`, `Verify`, expiry in
`BeginPass`, and the cancellation that `Stop` asks for (`Forget`). On the other side,
`page[p]` is one job of web/index.html: `recoverUploadRequest` with its
reconciliation after a lost chunk reply, `transferPreparedUpload`,
`cancelOwnedUpload`, pause and resume. A page that has given up on a fetch
leaves its request in the server, which serves it as any other. A page's own
requests are queued one behind the other (`videoRequest`), so a page has one at
a time. The upload's token and its page are the same thing in the model.

### SavedLibrary and MediaSave

The card is `temp` and `file` (the .TMP and .H75 of each photo and video ID),
`slot` (LASTA and LASTB of an older firmware), `record` (the two settings
records) and `marker` (VLIB.H75). A file is what its readers can tell of it: the
upload it came from, its header, the blocks that are stored as they were sent,
its prepared copies. `save` is the session, with what is found out only by
verifying: whether the upload arrived as it was declared (`good`) and is an indexed
JPEG that can be decoded (`valid`); `ready` and `storage` are
MemoryManager's. A save goes through `BeginLibrary` (header under the staging
magic), `AppendMediaBytes` (a full buffer is flushed), `StartMediaVerification`,
`VerifyPayload` (each block is read back and decoded), `PrepareCopies`, `CopiesDiffer` or `Publish` (header, close,
rename), and `AbortMediaSave`. SaveLibraryImage, which saves a raw photo in one
call, is the same steps with nothing between.

Every card operation has three results: it succeeds (`Succeeds`), it fails with
the card as it was (`Fails`), or the card does not answer
(`ReportStorageFailure`), with any part of the write done. Beyond that `Flush`
and `PrepareCopies` may store wrongly without an error, and `PowerLoss` comes
between any two steps. `failed` is the moment between a call that returned false and
its owner's `AbortMediaSave`. Settings go to the record that is not the newest
(`Target`); which is newer is told by a difference modulo `Generations`
(`Newer`), for records and slots alike. `ImportLastVideo` adopts the newest legacy
clip by renaming it, then writes the marker.

`SavedLibrary` is the promise: a place is filled only when empty, with an item
that has not been there before, and emptied only by deletion. The mapping
(`Listing`) is what a reader finds at a place: nothing, an item that reads to its
last frame, or neither, which no step of `SavedLibrary` makes.

Rename and unlink are taken to be atomic (FatFs is external). What the card
corrupts after a block has been verified is not modelled; reading it is one of
the failures of `ReadMediaFrameFails`.

### FileReader and PlaybackPrefetch

Bytes are pairs of file and position, so that a byte of another file or place is
told apart. The loop of `PlaybackPrefetch::Read` is one step per block
(`ReadHit`, `ReadMiss`, `ReadFails`, `ReadPastEnd`), `left` being what it still
has to copy. `Ahead` runs between reads. There are any number of blocks, two or
more; their stamps are kept as `rank`, the place of each block in the order of use,
so that no counter grows without bound. A failed card read leaves any part of the block overwritten. `FileReader`
knows neither blocks nor direction: each piece delivered is the open file's
bytes from the cursor on.

### WifiConnection

One pass of NetworkServices::Update is cut at the points where the state that
others see changes: home link (`CheckHome` with `CheckWifiHealth` and
`CheckReachability`), association (`AssociationFailed`, `AssociationTimeout`,
`RunWifiConnectSequence`), the radio restart (`StopNetworkServices` ..
`InitRadio`, `ConnectStation`), the hotspot, the listeners (`CheckServices`,
`StartServices`) and `PublishStatus`. Timers are choices: a step that waits for a
deadline may come in any pass. lwIP callbacks (`ObserveNetworkInput`,
`ClientArrives`, `ClientLeaves`) come between any two steps. `link` is the driver's view
of the station; `silent` and `deaf` count, outside the code's reach, the probes
that were really lost and the queries the radio really left unanswered. The
gateway TCP probe only prints and is left out.

### PicoHotspot

`lease` is the DHCP table with its expiry folded into a term, `device` the
indicator slots. `HandlePacket` serves DISCOVER, REQUEST, RELEASE and DECLINE
through `FindLease`; `UpdateClients` is the poll of the radio's association list,
which takes leases and slots of devices that left and seats new ones. Around them
are the devices, external: they join, leave, ask for what they once had,
repeat, renew, release and decline, and their packets are queued, late and lost.
`SendReply` hands back the transaction ID it was asked with, and a device drops
answers to older questions: a packet is `current` while its transaction is the
device's last (`Begin`, `Outdated`), and the reply to any other reaches nobody.
That a lease does not end under a device that relies on it is an assumption:
both sides count the same hour, the device from an earlier moment.

## Runs

| Run | Module, bounds | Shows |
|---|---|---|
| `core1` | `MCCore1`: two job contexts, two handoffs per network pass, two records per foreground pass | the borrowed job is alive while it runs, listeners change only while Core 0 is parked, no circular wait, both loops run for ever |
| `jpeg_pipe` | slots of 2 bytes, a first read of 1, records up to 6 bytes, requests up to 3 | the pipe implements `ByteStream`, never shares a slot, ends every record |
| `frame_ownership` | frames of 2 chunks, 3 tokens, 2 read attempts | imports and panel frames are one image, a held photo is out of reach, frames prepared and photos held are released |
| `photo_overwritten` | 1 chunk, 2 tokens | violated: see findings |
| `media_library` | 2 ids, a ring of 1 rejected id, at most 1 file at the start in any condition, 2 requests, 1 fault | the selection is always one the card accepts, is replaced before its file is deleted, deleted items are replaced, the displayed photo is known, the search for something to show ends |
| `selection_lost` | 2 items, 2 requests | violated: see findings |
| `tcp_video` | 2 chunks, 2 clients, 1 fault | sessions are not mixed or taken over, data is written in order, replies are true, every upload ends |
| `http_upload` | 2 pages of 2 chunks, 1 fault | requests and answers are not mixed up, every file is saved once and whole, positions agree, cancellation hits its own upload, mailbox and upload are given up again |
| `media_save` | 2 IDs, files of 3 blocks, a buffer of 2, 4 generations, 2 uploads, 1 request, 2 faults | the library behaves as `SavedLibrary` says, settings change in one step, a lost card is not written to and is used again, adoption is marked when done, no playback handle is stale |
| `prefetch` | 2 files of different lengths, 2 blocks of 2 bytes, requests up to 3 | the cache behaves as `FileReader` says, valid blocks are true and distinct, looking ahead keeps the block at the cursor |
| `wifi` | 2 listeners, 3 probes, 2 queries, 1 client, 2 faults | direct users keep their access, the home link is given up only after a run of losses, nothing outlives the radio, access and home attempts always return, a due restart happens |
| `hotspot` | 2 devices, addresses and slots, 2 packets on the way per device, 3 arrivals, 1 fault | an address in use is leased to its user alone, indicators stay, no device stays without an address |

Why these bounds are enough to mean something:

- `core1`: two contexts distinguish the live job from the one before it; two
  handoffs make a pause follow a resume in one pass, two records a reservation
  a completion. Nothing else in the protocol counts.
- `jpeg_pipe`: six bytes through two slots of two, with a short first block,
  fill both slots twice and end with a full, a partial or an empty tail; a request
  of three spans a slot border. The proofs hold for all sizes.
- `frame_ownership`: two chunks are the least that can be torn; three tokens are
  an image shown, one held and one being received.
- `media_library`: two ids are an item and its replacement. Two requests are an item
  uploaded or shown and a raw upload over it, whole or aborted, or a deletion. One
  fault is one file damaged while it is in use, one failed call or one power loss;
  the properties are about the recovery from each. A file that is damaged from the
  start and an uploaded one that is damaged before it is loaded are one more than the
  ring remembers: it forgets the first when it rejects the second, and only the
  count of candidates ends the search (the mutant of `SearchEnds` that leaves out the
  count goes round for ever). The safety properties were also checked with three
  requests, and with two files at the start and two faults; the liveness
  properties also with two files at the start and one request.
- `tcp_video`: two clients make the second connect while the first is cleaned up.
- `http_upload`: of two pages the second begins before, between and after the
  first one's cancellation steps; two chunks have a confirmed and an outstanding one.
  `MaxFaults` counts lost fetches, card failures, shutdowns, user cancellations and
  other visitors' requests together. Once it is used up a failed fetch closes the
  page, so a page can be lost in addition to the fault. Resetting, timing out
  and replacing connections is not counted at all. Pages start one after
  another, when no other is transferring; this saves states and excludes two
  uploads competing to begin, which `Begin` answers with "display busy".

- `media_save`: two places of a kind are one in use and one to fill; three blocks
  through a buffer of two have a full and a partial flush; four generations wrap, and
  the start includes records and slots on both sides of the wrap. Two faults are
  a failure and the loss of power during its repair. The start also
  includes cards an older firmware has left.
- `prefetch`: two blocks are the least that can hold the cursor's block and the next
  one, and with three in a file something must be evicted; requests of three
  span a border. The two files tell a stale block from a fresh one.
- `wifi`: two listeners start and fail one without the other; two lost probes
  are still allowed and the third is not, the first unanswered query is and the
  second is not. Two faults are a home network lost while the radio hangs or a
  listener fails. The bounds 2 probes and 2 clients were checked as well.
- `hotspot`: as many devices as addresses, each may hold what the other asks for;
  three arrivals let a device return after another took its place. The safety
  properties were also checked with three packets on the way and two mishaps.

All passing runs but `media_save` check deadlock; there an idle manager with its
requests used up rests. Each run takes between a second and two minutes.

### Fairness

- Both loops have no blocking call other than the ones modelled, so each has
  weak fairness (`NetworkCore`, `RenderLoop`, `FeederStep` within a record,
  `DecoderStep`). `Core1!BothCoresRun` derives from it that each gets round,
  and the other modules build on this result.
- Clocks go on: `Elapse`, `DeadlinePasses`, `Poll`, `TimeOut` are weakly fair.
  Inactivity limits end every connection, hence `WF(PhotoClient)`.
- Nothing makes a client, a page, a card or the scanner do anything. The one
  property that needs the scanner says so (`HeldPhotoTaken`).
- `MediaLibrary` has strong fairness for `Reselect` and for the recovery of a card
  that is already recovering: the loop attempts both every pass, but needs the
  framebuffer for the first, which `FrameOwnership` shows to be given up again
  and again, though not continuously free.
- `HttpUpload` has strong fairness for a pass that finds no request: a verification
  step runs only in such a pass. A page pauses a second between the status
  requests of a verification, a pass without card work takes milliseconds. A
  client that asks without pausing could keep the verification from
  ever finishing; the assumption excludes it.

- `MediaSave`: MemoryManager::Update is called in every pass of RenderLoop, and an
  owner whose call failed aborts in the same function; both are weakly fair. No
  save, read or request is.
- `WifiConnection`: the loop is weakly fair. A deadline that has passed stays so
  until its branch runs, and the loop passes the branch again and again, hence
  strong fairness for the timed branches. Transports time out idle clients
  (webServer.cpp, TcpVideoUploadClass.cpp, FrameBufferControllerClass.cpp), hence
  `WF(ClientLeaves)`; nobody has to arrive.
- `PicoHotspot`: leases expire, and each device's packets are handled, read and
  asked again. The poll is not assumed: addresses come free without it.

## Findings

Two statements of the repository's own documents and comments that the code
does not keep; each has a run that produces the behaviour.

1. **A completed photo can be overwritten before it is saved** (`photo_overwritten`,
   mainEntry.cpp:335). The storage-event branch claims a Pending photo and
   its EndRender stores Idle. The next client may take the framebuffer before the
   import was tried.
2. **The selection of a card that came back is overwritten** (`selection_lost`,
   mainEntry.cpp:335). Requests are served between the remount and
   `MediaLibrary::Initialize`.

### Seen while modelling

These have no run of their own; the models contain the behaviour.

In the display and the library:

- After a stall of the scanner one more photo is accepted and then held for ever,
  so that uploads are refused as long as the scanner stays stopped
  (RenderPipelineClass.cpp:75), although "A stopped scanner must not hold off
  uploads indefinitely" (line 120). `HeldPhotoTaken` therefore assumes a scanner
  that swaps.
- A deleted photo stays on the display when nothing else is wanted
  (MediaLibraryClass.cpp:742): `clear_` is acted on only in a function that is
  not called then. `DeletedReplaced` is about the other case.
- `MediaLibrary::Update` returns true when it only clears, so that after a failed
  restoration at boot the unverified pixels are shown (they are in
  `FrameOwnership!Init`).
- Once a selection was dropped in RAM only, deleting that photo leaves the card's
  settings naming it until the next boot repairs them.
- A raw client that goes half way clears the frame (FrameReceiverClass.cpp:229), and the
  library is not told: the built-in picture stays until the next request, slideshow
  step or video frame, while the selected photo counts as displayed. The code's comment
  asks for no more ("next render restores flashed content"). `DisplayedIsShown`
  and `SearchEnds` say so.
- An import whose selection save fails has already stopped a healthy video, which
  is then rejected as if it were damaged.

In the transports:

- An error reply that replaces one still to be acknowledged resets its own
  connection (TcpVideoUploadClass.cpp:606): the acknowledgement of the older
  bytes is counted against the new ones.
- A shutdown of the listener turns a saved upload into a canceled one
  (HttpMediaUploadClass.cpp:185) before its page has asked for the verdict.

On the card:

- Copies that read back differently end in FR_INVALID_OBJECT, which
  IsStorageIoError counts as a lost card: a wrong block behind the payload unmounts
  the card, one inside it only fails the save.
- When the marker's write fails after an adoption and the clip is deleted, the
  older of two legacy clips is adopted at the next mount, although "A retained
  legacy video can be adopted once" (docs/MEDIA-LIBRARY.md:47). `ImplementsLibrary` says the rest: no clip comes back.

In the network:

- A client accepted between the test for active clients
  (WifiConnectionClass.cpp:665) and StopNetworkServices (line 669) is cut off,
  although docs/RUNTIME.md:88-90 lets the restart wait for clients to be idle.
  `DirectAccessKept` allows it only in a restart of a radio that did not answer.
- The overlap of the home network with the hotspot's subnet is tested when the
  link comes up; an address that changes later is not tested again.
- A radio that hangs while no home link is up is not queried, hence not restarted.

## Proofs

TLAPS proves, for every value of the constants that satisfies the modules'
assumptions:

| Theorem | Says |
|---|---|
| `ParallelDecodeProofs!InvHolds` | `Spec => []Inv` (Core1): scheduler word, completion flag and mailbox agree with both cores |
| `ParallelDecodeProofs!WorkerContextAliveHolds` | the job Core 1 runs is the live one |
| `ParallelDecodeProofs!ListenersExclusiveHolds` | listeners change only while Core 0 is parked |
| `ParallelDecodeProofs!NoCircularWaitHolds` | the cores do not wait for each other |
| `ParallelDecodeProofs!PipeInvHolds` | `PipeSpec => []PipeInv`: the slots hold the published, unread bytes in order |
| `ParallelDecodeProofs!SlotExclusiveHolds` | a slot is not read and filled at once |
| `ParallelDecodeProofs!PipeImplementsStream` | the safety part of the refinement of `ByteStream` |
| `FrameOwnershipProofs!InvHolds` | `Spec => []Inv`: the owner word agrees with both cores, an import is one whole image |
| `FrameOwnershipProofs!PanelFaithfulHolds` | each change of the panel gives it one whole image; a submission left out would have changed nothing |
| `FrameOwnershipProofs!HeldPhotoUntouchedHolds` | a photo waiting for Core 0 stays as received until it is claimed |
| `TcpVideoUploadProofs!InvHolds` | `Spec => []Inv`: sessions are not mixed, written in order, replies are true |
| `HttpUploadProofs!InvHolds` | `Spec => []Inv`: mailbox exclusive, every file saved once and whole, positions agree |
| `HttpUploadProofs!OnlyOwnCanceledHolds` | a cancellation, however late, ends its own page's upload only |
| `MediaSaveProofs!InvHolds` | `Spec => []Inv`: files in place are whole, staged ones are what the session believes |
| `MediaSaveProofs!ImplementsLibraryHolds` | the refinement of `SavedLibrary` |
| `MediaSaveProofs!SettingsAtomicHolds` | settings change in one step or not, over the wrap of generations |
| `MediaSaveProofs!NothingWrittenAfterLossHolds` | a lost card is left alone until it is mounted again |
| `MediaSaveProofs!MarkedWhenDoneHolds` | the marker follows the adoption |
| `PlaybackPrefetchProofs!InvHolds` | `Spec => []Inv`: valid blocks are true, distinct and ordered by use |
| `PlaybackPrefetchProofs!ImplementsReaderHolds` | the refinement of `FileReader` |
| `PlaybackPrefetchProofs!AheadKeepsCursorHolds` | looking ahead keeps the block at the cursor |
| `MediaLibraryProofs!InvHolds` | `Spec => []Inv`: the selection can be saved, the photo counted as displayed is in the frame unless a raw upload wrote over it |
| `MediaLibraryProofs!ReplacedBeforeDeletedHolds` | a selected file goes only after the card names its replacement |
| `WifiProofs!InvHolds` | `Spec => []Inv` (WifiConnection): nothing outlives the radio, a pass is in order |
| `WifiProofs!DirectAccessKeptHolds` | direct users are cut off only in the restart of a deaf radio |
| `WifiProofs!HomeLossDebouncedHolds` | the home link is given up for a run of lost probes only |
| `WifiProofs!HotspotInvHolds` | `HotspotSpec => []HotspotInv`: an address in use is leased to its user, and to nobody else |
| `WifiProofs!IndicatorStableHolds` | a device keeps its indicator while it stays |

Every `Inv` is an invariant of the module's run as well, so that TLC checks on a
small instance exactly what is proved. None of the properties is inductive by
itself; the named parts of each `Inv` are what was missing. Each proof module has a
lemma for the initial states and one per action (or group of alike actions), and
the theorems follow from these in a few steps.

*Core1.* `Inv` adds what ties the properties
together: `Ownership` (the scheduler word determines where each core can
be), `JobHeld` (a job is queued or running exactly while Core 0 waits for it, which
is what a completion flag left over from the job before would break) and
`Mailbox` (a command in the mailbox is the one the requesting core waits for and
Core 0 is about to carry out). One lemma per core goes through its actions;
each property follows from `Inv` in a step.

*JpegInputPipe.* In `PipeInv`, `Queue` is the heart: the published and unread bytes are the
ready slots in order from the consumer's, and an unready consumer slot means that
there are none. It needs `Producing` and `Consuming`, which say where each core
stands between its accesses. The refinement maps written bytes to `published`, closed
to `finished` and read bytes to `consumed`; every action is a step of the
stream or a stutter, and that end of input is reported only when closed and
drained is the second look at the ready flag.

*FrameOwnership.* `Ownership` ties the owner word to the program points of both
cores: who may be in the middle of the pixels follows from one word. `Available`
says that a frame on offer is the whole image of its revision unless its owner is
at work on it, and how far a receiver has come. `Showing` carries this to what
Core 0 has prepared, copied for an import and shown. Whole images are known by
their token and tokens only grow, so an older revision is never taken for a newer one.

*MediaLibrary.* The settings the card accepts are a matter of every step that makes
a selection (`SelectionSavable`, with a lemma for each of `Repaired`, `Replacement`,
`SlideshowSettings`). That a photo is displayed needs what happens to the other kind of
item: `ReloadDue` says that a photo does not count as displayed while a video is
selected, unless the video is still to be loaded, and that a display to be cleared
is due for a reload when something is selected; without it a deletion could bring a
forgotten photo back into the selection's place. `Handling` gives the step in hand (a
candidate's kind is the selected one's, an import's frame is live and whole), `NothingShownYet` the
times without a card, `Deleting` what the first half of a deletion leaves to the
second: the card no longer names the item, and the replacement selects no
video and no photo that the old selection gave no reason for. That last part is
what `ReplacedBeforeDeleted` follows from, as only the second half takes a
file away (`OnlyDeletionsDelete`).

*TcpVideoUpload.* The difficulty is that Core 0 acts on a phase it copied before it
gave up the lock. `Claimed` says what still holds of the connection whatever the
callbacks did since: only a cancellation can have come between. `VerdictFits` says the
same of the answer on its way back. `SessionPhase` and `ClientStands` relate
the save session and the client's own progress to the phase; `PositionKept` relates
the bytes written to the bytes sent, one chunk apart while a chunk is being
written. `WrittenIsPrefix` and `RepliesTruthful` follow. In the induction the latter is
replaced by its part about SAVED (`Told`); the other replies follow from
`ClientStands`.

*HttpUpload.* Three groups, each with its own lemma per action. The mailbox:
`MailboxOrder` (the flags on both cores and Core 0's program point say that at most one
connection has a request in it, and that a request whose client left blocks it
until Core 0 noticed) and `ConnectionOrder`. The session: `SessionPosition` and
`SpentOnce`, a page whose file is published has no session. The agreement between both ends:
`AnswerHolds`, `RequestsKnown` and `PagesKnown`. Its core is that an id names one
session of one page: a request may be served long after its page gave up on it,
but then its id is no longer the session's, or it is still true of it. `Begun`
says that a page's start was answered in some way, after which it never sends another; this is
what keeps a repeated start from saving a file twice. All transport actions that
leave the session alone are covered by one lemma, since they can only remove a
request (`Fewer`, `Moves`). While this was proved, the page's
reaction to an answer turned out to be a CASE with two guards true at once, of which
TLC always took the first; it is now an IF in the order of the code.

*MediaSave.* `SaveStaged` is what a session may count on: its file is staged next to
a free place, and the blocks counted as verified are on the card. `FilesWhole` follows from
it at the rename. `SoundStaging` is the converse for a run without failures, which
`SoundUploadKept` needs. `NothingTwice` is what the refinement needs: uploads
to come, under way and the clips of an older firmware have not been listed before.
`SettingsAtomic` rests on arithmetic modulo `Generations`: the record
written is not the newest one, and its new generation is newer than the other by `Newer`
itself, for every `Generations` above two.

*PlaybackPrefetch.* `BlocksTrue` and `BlocksDiffer` are inductive once it is known that
a load happens only where `Find` found nothing and that offsets are aligned
(`MissedNotHeld`). `Orders` is kept by each use (`TouchedRanks`), so the block to
evict is always determined. The bytes a request receives are followed through `SubSeq` in
`CopiedPiece`.

*WifiConnection.* `PassInv` says at each point of a pass what the restart has already
undone, which `NothingWithoutRadio` needs at the moment the radio goes.
`DebounceInv` relates the counters the code keeps to the probes and
queries that were really lost: a counter never exceeds the losses, and a packet that a check
has not yet noticed still clears them.

*PicoHotspot.* `AddressOwned` is about devices and leases; what decides is on the way
between. `Exchanges` follows each device's current transaction (`Agrees`): while it
discovers, all its packets are discoveries; once it has requested an address,
nothing behind the request on the way to the server is anything but that request again
(`Asks`); and when the acknowledgement it would accept is there, the lease is granted and
nothing ahead of the device can take it back (`Granted`). This is false of packets of
older transactions, and with packets that carried no transaction ID TLC found the
counterexample, three packets of one device and two mishaps deep: the reply to a late
DISCOVER turns a granted lease into an offer that expires after a minute. The code is
right, since it preserves the ID; the model was wrong to leave it out. `IndicatorStable`
follows from `Placements`, which only adds to the slots that are kept.

Assumptions of the proofs: the sequential interleaving of atomic accesses (the
code's acquire and release orders), and the named assumptions on constants:
sets are finite where the code has arrays, limits are positive, and the bounds on
faults, clients and requests are any natural numbers. Nothing else is assumed.

Only model-checked:

- Every liveness property, which is out of the prover's reach (fairness and
  ENABLED): `BothCoresRun`, `RecordEnds`, `PreparedReleased`, `HeldPhotoTaken`,
  `UploadEnds`, `EverythingFreed`, `StorageReturns`, `NetworkPersists`,
  `RestartHappens`, `DeletedReplaced`, `SearchEnds`, `DeviceServed`.

Every safety property that a passing run checks, every action property and the
safety of every refinement is proved.

None of the modules declares a RECURSIVE operator, so each may be proved about.

## Hazards

PROJECT.json lists them with their lines. Most concern one of these situations:
a flag read between two of the other core's stores (`Core1`, `JpegInputPipe`); a
claim of the framebuffer that ends with a state its former holder did not expect
(`FrameOwnership`); a card operation that fails or is interrupted between the
card's record and RAM's (`MediaLibrary`), or between two writes of one save
(`MediaSave`); a callback that ends a connection while Core 0 works for it
(`TcpVideoUpload`, `HttpMailbox`); a reply that never arrives (`HttpUpload`);
cached blocks that outlive what they were read from (`PlaybackPrefetch`); a
timer, a lost packet and a late one in any order (`WifiConnection`,
`PicoHotspot`). Two are without a property because the code does go wrong there;
they are described above. A third, a swap of buffers in the middle of packing, lies
below what `FrameOwnership` can see: the scanner swaps only when a swap is pending, and
`panel` changes in one step at the end of the packing.

## Not modelled

- The writers of the legacy slots (SaveImage, SaveLastImage, BeginMediaSave) and
  `MemoryManager::Shutdown`: nothing in the firmware calls them. The slots are
  modelled as what may be found on a card.
- Read-only queries of the card (lists, previews, thumbnails, usage): they change
  nothing but the error text; that they may find the card lost is
  `HealthCheckFails`.
- The layout of JPEG indexes, of prepared copies and of previews.
- The gateway TCP probe (output only), DHCP INFORM and ignored packets (they
  change nothing), activity dots, credentials and address texts.
- The framing of the raw photo protocol: the client of `FrameOwnership` receives
  chunks of pixels, that of `MediaLibrary` a whole photo or the beginning of one.
- HTTP header parsing, JSON, metadata and JPEG decoding, panel geometry and gamma,
  the serial log: sequential conversions without shared state.
- FatFs, the SD driver, TJpgDec and the HUB75 driver are vendored. Their failures
  are nondeterministic outcomes of the operations that call them; of the HUB75
  driver the buffer swap is modelled.
- 32-bit wrap of tokens and session numbers. The wrap of generations is modelled.

By lines, most of the repository is data: 188 thousand of its 213 thousand lines are
image arrays (`imagesVideos/*.h`). Of the rest, a third is mapped; the
remainder is the vendored code, the page's editing and conversion code, pixel
arithmetic and text formatting named above.

## Plan

1. The framing of the raw photo protocol, between `FrameOwnership`'s client and the
   socket.
2. The repair of the two findings: both are one claim of the framebuffer in
   RenderLoop's storage-event branch, and `UploadsSavedFirst` and
   `SelectionSurvivesLoss` are the properties a repaired branch has to satisfy.
3. The last question the pages' recovery leaves open: a listener that is shut down
   between a saved upload and its page's question (HttpMediaUploadClass.cpp:185).
