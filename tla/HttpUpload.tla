----------------------------- MODULE HttpUpload -----------------------------
(***************************************************************************)
(* Saving photos and videos from a browser: the upload session that        *)
(* HttpMediaUpload::Update keeps on Core 0, the pages (web/index.html) that*)
(* send the file chunk by chunk, and the mailbox between them.             *)
(*                                                                         *)
(* Requests and replies get lost in any way a connection can end.  A page  *)
(* repeats a start with the same token, asks for the confirmed position    *)
(* before it sends a chunk again, and cancels only what is its own.        *)
(*                                                                         *)
(* A page uploads one file of Chunks chunks; its name serves as its token. *)
(***************************************************************************)
EXTENDS HttpMailbox, Sequences

CONSTANTS Pages,      \* browser pages, by their resume tokens
          Chunks,     \* chunks of every file
          MaxFaults   \* BOUND: faults, shutdowns, user and other requests

ASSUME UploadAssumption ==
    /\ Pages \subseteq Nat \ {0}
    /\ Chunks \in Nat \ {0}
    /\ MaxFaults \in Nat

VARIABLES
    upload,     \* HttpMediaUpload: session_, resumeToken_, state_, offset_ ...
    idle,       \* ReceiveIdleMs passed since progress_
    data,       \* the chunks in MemoryManager's save session
    published,  \* the published items, in order
    storage,    \* MemoryManager::state_
    pc,         \* RenderLoop
    page,       \* the pages' jobs
    faults

uploadVars == <<upload, idle, data, published, storage>>
vars == <<mailboxVars, uploadVars, pc, page, faults>>

Visitor == 0
NoUpload == [id |-> 0, token |-> 0, state |-> "idle", offset |-> 0,
             external |-> FALSE, failed |-> FALSE]
Request(route, from, op, id, offset) ==
    [route |-> route, from |-> from, op |-> op, id |-> id, offset |-> offset]

Fault == faults < MaxFaults /\ faults' = faults + 1

-----------------------------------------------------------------------------
(* HttpMediaUpload::Update on Core 0.                                      *)

Go(point) == pc' = point

\* AbortMediaSave and EndExternalMedia; nothing else when not external_.
Finish(state) == [upload EXCEPT !.state = state, !.external = FALSE,
                                !.failed = (state = "error")]

Ends(state) == upload' = Finish(state) /\ data' = <<>>

\* What Respond writes: the session as it is now.
Reply(error) ==
    Write([own |-> TRUE, error |-> error \/ upload'.failed, id |-> upload'.id,
           token |-> upload'.token, state |-> upload'.state,
           offset |-> upload'.offset])

Expired ==
    upload.external /\ (storage' # "ready" \/ (upload.state = "receiving" /\ idle))

\* MemoryManager::Update; the card may be lost here or anywhere before.
UpdateMemory ==
    \/ storage = "ready" /\ UNCHANGED <<storage, faults>>
    \/ storage = "ready" /\ Fault /\ storage' = "recovering"
    \/ storage = "recovering" /\ storage' = "unavailable" /\ UNCHANGED faults
    \/ storage = "unavailable" /\ storage' = "ready" /\ UNCHANGED faults

\* The top of the loop up to the point where Update turns to a request: it is
\* claimed; the upload is canceled when Disconnect was called, and fails when
\* the card is gone or it is out of time.
BeginPass ==
    /\ pc = "top" /\ UpdateMemory /\ TakeRequest
    /\ IF cancel THEN Ends("canceled")
       ELSE IF Expired THEN Ends("error") ELSE UNCHANGED <<upload, data>>
    /\ Go(IF cancel THEN "drop"
          ELSE IF serving' = "live" THEN "serve"
          ELSE IF upload'.state = "verifying" THEN "verify" ELSE "top")
    /\ UNCHANGED <<idle, published, page>>

Forget ==
    /\ pc = "drop" /\ Go("top") /\ DropCanceled
    /\ UNCHANGED <<uploadVars, page, faults>>

CardWorks == storage = "ready" /\ UNCHANGED <<storage, faults>>

\* A card operation fails, with or without the loss of the device.
CardFails ==
    \/ storage # "ready" /\ UNCHANGED <<storage, faults>>
    \/ storage = "ready" /\ Fault /\ storage' \in {"ready", "recovering"}

NoCard == UNCHANGED <<storage, faults>>

Renewed == idle' = (idle /\ upload.state # "receiving")

Refuse == UNCHANGED <<upload, data, idle>> /\ NoCard /\ Reply(TRUE)
Report == UNCHANGED <<upload, data>> /\ Renewed /\ NoCard /\ Reply(FALSE)

\* A start with the token of the session is the same start, repeated.
RepeatedBegin(r) == upload.id # 0 /\ r.from = upload.token

Begin(r) ==
    \/ RepeatedBegin(r) /\ Report
    \/ ~RepeatedBegin(r) /\ Refuse       \* external_, or the display is busy
    \/ /\ ~RepeatedBegin(r) /\ ~upload.external
       /\ LET session == [NoUpload EXCEPT !.id = upload.id + 1, !.token = r.from]
          IN  \/ /\ CardWorks /\ idle' = FALSE
                 /\ upload' = [session EXCEPT !.state = "receiving",
                                              !.external = TRUE]
              \/ /\ CardFails /\ UNCHANGED idle
                 /\ upload' = [session EXCEPT !.state = "error", !.failed = TRUE]
       /\ data' = <<>> /\ Reply(FALSE)

\* MUTANT: the last chunk is taken for the one before it.
Complete_Early(offset) == offset + 1 = Chunks

Complete(offset) == offset = Chunks

Expects(r) == upload.state = "receiving" /\ r.offset = upload.offset

Chunk(r) ==
    \/ ~Expects(r) /\ Refuse
    \/ /\ Expects(r)
       /\ \/ /\ CardWorks /\ idle' = FALSE
             /\ data' = Append(data, [from |-> r.from, chunk |-> r.offset])
             /\ upload' = [upload EXCEPT
                               !.offset = @ + 1,
                               !.state = IF Complete(upload.offset + 1)
                                         THEN "verifying" ELSE @]
          \/ /\ CardFails /\ data' = <<>> /\ UNCHANGED idle
             /\ \E taken \in {0, 1} :   \* written, but not to be verified
                    upload' = [Finish("error") EXCEPT !.offset = @ + taken]
       /\ Reply(FALSE)

Cancel(r) ==
    \/ upload.external /\ Ends("canceled") /\ Reply(FALSE) /\ NoCard /\ UNCHANGED idle
    \/ ~upload.external /\ Report

\* MUTANT: a cancellation is taken for the current session's, whichever it names.
Addressed_Any(r) == upload.id # 0 /\ (r.op = "cancel" \/ r.id = upload.id)

Addressed(r) == upload.id # 0 /\ r.id = upload.id

\* Requests about a session: the current one, or none.
Serve(r) ==
    \/ r.op = "begin" /\ Begin(r)
    \/ r.op = "resume" /\ IF RepeatedBegin(r) THEN Report ELSE Refuse
    \/ /\ r.op \in {"chunk", "status", "cancel"} /\ ~Addressed(r) /\ Refuse
    \/ r.op = "chunk" /\ Addressed(r) /\ Chunk(r)
    \/ r.op = "status" /\ Addressed(r) /\ Report
    \/ r.op = "cancel" /\ Addressed(r) /\ Cancel(r)
    \/ r.op = "library" /\ Refuse   \* what it does is in MediaLibrary

ServeRequest ==
    /\ pc = "serve" /\ Go("publish") /\ Serve(input)
    /\ UNCHANGED <<published, page>>

Publish ==
    /\ pc = "publish" /\ Go("top") /\ PublishResponse
    /\ UNCHANGED <<uploadVars, page, faults>>

\* The last step of the readback publishes the item; the ones before it read.
Verify ==
    /\ pc = "verify" /\ Go("top")
    /\ \/ /\ CardWorks /\ Ends("saved")
          /\ published' = Append(published, [from |-> upload.token, data |-> data])
       \/ CardFails /\ Ends("error") /\ UNCHANGED published
    /\ UNCHANGED <<mailboxVars, idle, page>>

RenderLoop == BeginPass \/ Forget \/ ServeRequest \/ Publish \/ Verify

\* Fifteen seconds without a confirmed request.
Elapse ==
    /\ upload.state = "receiving" /\ ~idle /\ idle' = TRUE
    /\ UNCHANGED <<mailboxVars, upload, data, published, storage, pc, page, faults>>

-----------------------------------------------------------------------------
(* The pages.                                                              *)

NewJob == [step |-> "idle", open |-> FALSE, id |-> 0, at |-> 0, confirmed |-> 0,
           pendingEnd |-> 0, reconcile |-> FALSE, resumed |-> FALSE]

Sending == {"begin", "chunk", "verify", "resume", "resolve", "cancel"}
Transferring == {"begin", "chunk", "verify", "resume"}

\* A new recoverUploadRequest.
Ask(job, step) == [job EXCEPT !.step = step, !.reconcile = FALSE]

\* The job is over, or cancelOwnedUpload begins.
Over(step) == [NewJob EXCEPT !.step = step]
Canceling(job) == [Over("resolve") EXCEPT !.id = job.id]

RequestOf(p) ==
    LET job == page[p]
    IN  CASE job.step = "begin" -> Request("media", p, "begin", 0, 0)
          [] job.step = "chunk" /\ ~job.reconcile ->
                 Request("media", p, "chunk", job.id, job.at)
          [] job.step = "resolve" -> Request("media", p, "resume", 0, 0)
          [] job.step = "cancel" -> Request("media", p, "cancel", job.id, 0)
          [] OTHER -> Request("media", p, "status", job.id, 0)

\* The page's fetch is the server's present connection.
Connection(p) == client.peer = p

Change(p, job) == page' = [page EXCEPT ![p] = job]

\* What follows a failed fetch: another attempt or, after the last one, a pause
\* (videos) or the cancellation (photos).  Attempts are not counted.
Retry(job) ==
    IF job.step \in {"resolve", "cancel"} THEN {Over("failed")}
    ELSE {[job EXCEPT !.reconcile = (job.step = "chunk")],
          Ask(job, "paused"), Canceling(job)}

\* A fetch fails; once the bound is reached that is the end of the page.
FetchFailed(p) ==
    \/ Fault /\ \E job \in Retry([page[p] EXCEPT !.open = FALSE]) : Change(p, job)
    \/ faults = MaxFaults /\ Change(p, Over("failed")) /\ UNCHANGED faults

\* BOUND: a page starts when no other is transferring.
StartUpload(p) ==
    /\ page[p].step = "idle"
    /\ \A q \in Pages : page[q].step \notin Transferring
    /\ \A q \in Pages : page[q].step = "idle" => p <= q
    /\ Change(p, Ask(NewJob, "begin"))
    /\ UNCHANGED <<mailboxVars, faults>>

\* The page connects, or finds the server busy or gone.
Send(p) ==
    /\ page[p].step \in Sending /\ ~page[p].open
    /\ \/ /\ Change(p, [page[p] EXCEPT !.open = TRUE]) /\ UNCHANGED faults
          /\ AcceptHttpClient(RequestOf(p))
       \/ /\ client # NoClient \/ ~enabled
          /\ FetchFailed(p) /\ UNCHANGED mailboxVars

Detached(p) == IF Connection(p) THEN [client EXCEPT !.peer = Visitor] ELSE client

\* The connection is lost, or the page's deadline passes before the answer.
FetchFails(p) ==
    /\ page[p].open /\ FetchFailed(p)
    /\ client' = Detached(p)
    /\ UNCHANGED <<enabled, flagVars, input, response, serving>>

Outstanding(job, at) == [Ask(job, "chunk") EXCEPT !.at = at, !.pendingEnd = at + 1]

\* Transfer's loop: the next chunk, the verification, or the end.
Proceed(job, answer, at) ==
    CASE at < Chunks /\ answer.state = "receiving" -> Outstanding(job, at)
      [] at = Chunks /\ answer.state = "verifying" -> Ask(job, "verify")
      [] at = Chunks /\ answer.state = "saved" -> Over("saved")
      [] OTHER -> Canceling(job)

Started(job, answer) ==
    IF answer.state = "receiving" /\ answer.offset = 0
    THEN Proceed([job EXCEPT !.id = answer.id], answer, 0)
    ELSE Canceling([job EXCEPT !.id = answer.id])

ChunkAnswered(job, answer) ==
    CASE answer.offset = job.at + 1 /\ answer.state \in {"receiving", "verifying", "saved"} ->
             Proceed([job EXCEPT !.confirmed = job.at + 1], answer, job.at + 1)
      [] job.reconcile /\ answer.offset = job.at /\ answer.state = "receiving" ->
             [job EXCEPT !.reconcile = FALSE]
      [] OTHER -> Canceling(job)

Resumed(job, answer) ==
    IF answer.offset \in job.confirmed .. job.pendingEnd
    THEN Proceed(job, answer, answer.offset) ELSE Canceling(job)

Verified(job, answer) ==
    IF answer.offset = Chunks THEN Proceed(job, answer, Chunks) ELSE Canceling(job)

Resolved(job, answer) ==
    IF answer.state \in {"receiving", "verifying"}
    THEN [Ask(job, "cancel") EXCEPT !.id = answer.id] ELSE Over("failed")

\* validateUploadAcknowledgement
Own(p, job, answer) ==
    answer.token = p /\ answer.id # 0 /\ (job.id = 0 \/ answer.id = job.id)

Answered(p, job, answer) ==
    IF job.step = "cancel" \/ ~Own(p, job, answer) \/ (answer.error /\ job.step = "resolve")
    THEN Over("failed")
    ELSE IF answer.error THEN Canceling(job)
    ELSE CASE job.step = "begin" -> Started(job, answer)
           [] job.step = "chunk" -> ChunkAnswered(job, answer)
           [] job.step = "resume" -> Resumed(job, answer)
           [] job.step = "verify" -> Verified(job, answer)
           [] job.step = "resolve" -> Resolved(job, answer)

\* The response arrives.
Deliver(p) ==
    /\ page[p].open /\ Connection(p)
    /\ client.stage = "responding"
    /\ IF client.body = "mailbox"
       THEN /\ Change(p, Answered(p, [page[p] EXCEPT !.open = FALSE], response))
            /\ UNCHANGED faults
       ELSE FetchFailed(p)
    /\ client' = Detached(p)
    /\ UNCHANGED <<enabled, flagVars, input, response, serving>>

\* The user cancels, or resumes a paused upload (BOUND: once).
UserCancels(p) ==
    /\ page[p].step \in Transferring \cup {"paused"} /\ Fault
    /\ Change(p, [Canceling(page[p]) EXCEPT !.open = FALSE])
    /\ client' = Detached(p)
    /\ UNCHANGED <<enabled, flagVars, input, response, serving>>

UserResumes(p) ==
    /\ page[p].step = "paused" /\ ~page[p].resumed
    /\ Change(p, [Ask(page[p], IF page[p].id # 0 THEN "resume" ELSE "begin")
                      EXCEPT !.resumed = TRUE])
    /\ UNCHANGED <<mailboxVars, faults>>

PageStep(p) ==
    /\ \/ StartUpload(p) \/ Send(p) \/ FetchFails(p) \/ Deliver(p)
       \/ UserCancels(p) \/ UserResumes(p)
    /\ UNCHANGED <<uploadVars, pc>>

-----------------------------------------------------------------------------
(* Other requests, and the transport.                                      *)

Visit ==
    /\ Fault
    /\ \E route \in {"page", "oversize", "control"} :
           AcceptHttpClient(Request(route, Visitor, "library", 0, 0))
    /\ UNCHANGED <<uploadVars, pc, page>>

Transport ==
    /\ \/ RouteHttpRequest \/ ReceiveBody \/ HandleHttpResponseAcknowledgement
       \/ HandleHttpClientError \/ TimeOut \/ UpdateTransport
    /\ UNCHANGED <<uploadVars, pc, page, faults>>

Start ==
    /\ pc = "top" /\ StartServer
    /\ UNCHANGED <<uploadVars, pc, page, faults>>

Stop ==
    /\ pc = "top" /\ Fault /\ StopServer
    /\ UNCHANGED <<uploadVars, pc, page>>

Core1Next == Visit \/ Transport \/ Start \/ Stop

Next == RenderLoop \/ Elapse \/ Core1Next \/ \E p \in Pages : PageStep(p)

Init ==
    /\ enabled = FALSE /\ client = NoClient
    /\ reserved = FALSE /\ pending = FALSE /\ responseReady = FALSE
    /\ cancel = FALSE /\ abandoned = FALSE /\ serving = "none"
    /\ input = NoRequest /\ response = NoResponse
    /\ upload = NoUpload /\ idle = FALSE /\ data = <<>> /\ published = <<>>
    /\ storage \in {"ready", "unavailable"}
    /\ pc = "top" /\ page = [p \in Pages |-> NewJob]
    /\ faults = 0

Spec == Init /\ [][Next]_vars

\* Core 0's loop goes on, Core 1 keeps polling (module Core1: BothCoresRun), and
\* time passes.  A page pauses for a second between two requests about an upload
\* it waits for, a pass takes milliseconds: some pass finds no request.  Nothing
\* makes a page send, acknowledge or give up anything.
FairSpec ==
    /\ Spec
    /\ WF_vars(RenderLoop) /\ WF_vars(Elapse) /\ SF_vars(BeginPass /\ ~pending)
    /\ WF_vars(TimeOut /\ UNCHANGED <<uploadVars, pc, page, faults>>)

-----------------------------------------------------------------------------
(* Properties.                                                             *)

Senders == Pages \cup {Visitor}
UploadStates == {"idle", "receiving", "verifying", "saved", "error", "canceled"}

RealRequests ==
    [route : {"media", "oversize", "control", "page"}, from : Senders,
     op : {"begin", "resume", "chunk", "status", "cancel", "library"},
     id : Nat, offset : Nat]
Requests == RealRequests \cup {NoRequest}

Answers ==
    [own : BOOLEAN, error : BOOLEAN, id : Nat, token : Senders,
     state : UploadStates, offset : 0 .. Chunks + 1]

Connections ==
    [request : Requests,
     stage : {"none", "header", "receiving", "waiting", "responding"},
     video : BOOLEAN, body : {"none", "conflict", "other", "mailbox"},
     acknowledged : BOOLEAN, peer : Senders]

Uploads ==
    [id : Nat, token : Senders, state : UploadStates, offset : 0 .. Chunks + 1,
     external : BOOLEAN, failed : BOOLEAN]

Jobs ==
    [step : Sending \cup {"idle", "paused", "saved", "failed"}, open : BOOLEAN,
     id : Nat, at : Nat, confirmed : Nat, pendingEnd : Nat,
     reconcile : BOOLEAN, resumed : BOOLEAN]

Pieces == [from : Senders, chunk : Nat]
Items == [from : Senders, data : Seq(Pieces)]

FlagsOK ==
    /\ enabled \in BOOLEAN /\ reserved \in BOOLEAN /\ pending \in BOOLEAN
    /\ responseReady \in BOOLEAN /\ cancel \in BOOLEAN /\ abandoned \in BOOLEAN
    /\ idle \in BOOLEAN

ModesOK ==
    /\ serving \in {"none", "live", "lost"}
    /\ storage \in {"ready", "recovering", "unavailable"}
    /\ pc \in {"top", "drop", "serve", "publish", "verify"}
    /\ faults \in 0 .. MaxFaults

MessagesOK ==
    /\ client \in Connections
    /\ input \in Requests /\ response \in Answers \cup {NoResponse}

UploadOK ==
    /\ upload \in Uploads /\ data \in Seq(Pieces) /\ published \in Seq(Items)
    /\ page \in [Pages -> Jobs]

TypeOK == FlagsOK /\ ModesOK /\ MessagesOK /\ UploadOK

\* The framebuffer and the save session are held exactly while receiving or
\* verifying.
SessionHeld ==
    /\ upload.external <=> upload.state \in {"receiving", "verifying"}
    /\ ~upload.external => data = <<>>

File(p, n) == [i \in 1 .. n |-> [from |-> p, chunk |-> i - 1]]

\* "A committed chunk is not written twice" (docs/VIDEO-UPLOAD.md): what was
\* written is the page's file up to the confirmed position, an item is a whole
\* file, no page makes two, and one that reports its file saved is right.
SavedOnce ==
    /\ upload.external /\ storage = "ready" => data = File(upload.token, upload.offset)
    /\ \A i \in DOMAIN published :
           /\ published[i].data = File(published[i].from, Chunks)
           /\ \A j \in DOMAIN published : published[j].from = published[i].from => i = j
    /\ \A p \in Pages : page[p].step = "saved" =>
           \E i \in DOMAIN published : published[i].from = p

\* Resume accepts only the confirmed and the outstanding position: a page and
\* the session it transfers to never disagree by more.
PositionsAgree ==
    \A p \in Pages :
        /\ page[p].step \in Transferring \cup {"paused"}
        /\ upload.external /\ upload.token = p /\ upload.id = page[p].id
        => upload.offset \in page[p].confirmed .. page[p].pendingEnd

\* cancelOwnedUpload resolves the session first and cancels it later: it never
\* cancels an upload that another page began in between.
OnlyOwnCanceled ==
    [][pc = "serve" /\ upload.external /\ upload'.state = "canceled"
           => input.from = upload.token]_vars

\* Whatever becomes of its page and however connections end, every upload ends
\* and gives framebuffer and save session back, and the mailbox becomes
\* available again for the next request.
EverythingFreed == (upload.external ~> ~upload.external) /\ []<>CanReserve

-----------------------------------------------------------------------------
(* The inductive invariant.                                                *)

\* Who uses the mailbox: Core 0 while it serves, or the one connection that
\* submitted, and a dropped request blocks it until Core 0 noticed.
MailboxOrder ==
    /\ serving # "none" <=> pc \in {"serve", "publish"}
    /\ serving = "lost" => abandoned
    /\ abandoned => /\ ~(client.video /\ client.stage # "responding")
                    /\ client.body # "mailbox"
    /\ pending => serving = "none" /\ (abandoned \/ client.stage = "waiting")
    /\ pending \/ pc = "serve" => input # NoRequest
    /\ input # NoRequest => pending \/ pc \in {"serve", "publish"}
    /\ pc = "publish" => /\ response # NoResponse
                         /\ serving = "live" => response.own
    /\ cancel => ~client.video
    /\ pc = "drop" => /\ client.stage = "waiting" => pending
                      /\ client.body # "mailbox"

\* Where a connection is in its request.
ConnectionOrder ==
    /\ client.stage \in {"header", "receiving"} <=> client.request # NoRequest
    /\ client.stage \in {"receiving", "waiting"} => client.video
    /\ client.stage \in {"none", "header"} => ~client.video
    /\ client.stage = "receiving" => ~pending /\ ~abandoned /\ serving = "none"
    /\ client.body # "none" => client.stage = "responding"
    /\ client.body = "mailbox" => client.video

\* The session, its card and its position.
SessionPosition ==
    /\ upload.external => /\ storage = "ready"
                          /\ upload.id # 0
                          /\ data = File(upload.token, upload.offset)
    /\ upload.state = "receiving" => upload.offset < Chunks
    /\ upload.state \in {"verifying", "saved"} => upload.offset = Chunks
    /\ pc = "verify" => upload.state = "verifying"
    /\ upload.state = "saved" =>
           \E i \in DOMAIN published : published[i].from = upload.token

\* An answer, as long as it is of use, says what is still so.
AnswerHolds ==
    response # NoResponse =>
        /\ response.id = upload.id /\ response.token = upload.token
        /\ response.offset = upload.offset
        /\ response.state = "saved" =>
               \E i \in DOMAIN published : published[i].from = response.token

Underway(r) == r \in {client.request, input} /\ r # NoRequest

\* The page had its begin answered, so that it never sends another.
Begun(p) ==
    \/ page[p].id # 0
    \/ \E r \in {client.request, input} : Underway(r) /\ r.op = "chunk" /\ r.from = p
    \/ upload.token = p /\ upload.offset > 0
    \/ \E i \in DOMAIN published : published[i].from = p

\* An id names one session, of one page; late requests are no others'.
RequestsKnown ==
    \A r \in {client.request, input} : Underway(r) =>
        /\ r.id <= upload.id
        /\ r.id # 0 => r.from # Visitor
        /\ r.id # 0 /\ r.id = upload.id => r.from = upload.token
        /\ r.op \in {"begin", "chunk"} => r.from # Visitor
        /\ r.op = "begin" => ~Begun(r.from)
        /\ r.op = "chunk" =>
               /\ r.id # 0
               /\ /\ page[r.from].step \in Transferring \cup {"paused"}
                  /\ page[r.from].id = r.id
                  => r.offset < page[r.from].pendingEnd

PagesKnown ==
    \A p \in Pages :
        /\ page[p].open => page[p].step \in Sending
        /\ page[p].id <= upload.id
        /\ page[p].id # 0 /\ page[p].id = upload.id => upload.token = p
        /\ page[p].step \in {"chunk", "verify", "resume"} => page[p].id # 0
        /\ page[p].step = "chunk" => page[p].pendingEnd = page[p].at + 1
        /\ page[p].id = 0 => page[p].confirmed = 0
        /\ Begun(p) => /\ page[p].step \notin {"idle", "begin"}
                       /\ page[p].step = "paused" => page[p].id # 0

\* A page whose file was saved has no other session.
SpentOnce ==
    \A i \in DOMAIN published :
        ~(upload.external /\ upload.token = published[i].from)

\* The mailbox is never shared, the session is held while it is needed, and
\* both sides agree on what was written.
Inv ==
    /\ TypeOK /\ SessionHeld
    /\ InputUntouched /\ RequestServed /\ ResponseHeld
    /\ SavedOnce /\ PositionsAgree
    /\ MailboxOrder /\ ConnectionOrder /\ SessionPosition /\ AnswerHolds
    /\ RequestsKnown /\ PagesKnown /\ SpentOnce
=============================================================================
