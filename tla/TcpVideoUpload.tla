--------------------------- MODULE TcpVideoUpload ---------------------------
(***************************************************************************)
(* TcpVideoUpload: one video client on port 5002.                          *)
(*                                                                         *)
(* lwIP's callbacks run on Core 1; each is atomic, and so are the sections *)
(* of UpdateStorage that hold the lwIP lock.  Between two such sections    *)
(* Core 0 reads the received section and works on the card, for as long as *)
(* the card takes, while the callbacks go on: the client may send, close,  *)
(* be reset or time out, and the next client may connect.                  *)
(*                                                                         *)
(* A section is what one reply asks for: the header, the name, or a chunk  *)
(* of the body.  The bytes of a section are abstracted to its sender and   *)
(* its number, replies to their lengths.                                   *)
(***************************************************************************)
EXTENDS Naturals, Sequences

CONSTANTS Chunks,      \* body sections of every video
          MaxClients,  \* BOUND: connections that are accepted
          MaxFaults    \* BOUND: failures of the card and listener shutdowns

ASSUME UploadAssumption ==
    Chunks \in Nat \ {0} /\ MaxClients \in Nat /\ MaxFaults \in Nat

VARIABLES
    enabled, client, phase,          \* enabled_, client_ (0: none), phase_
    full,                            \* received_ == needed_
    buffer,                          \* receive_: whose section, which chunk
    reply, acknowledged, queued,     \* reply_, acknowledged_, queued_
    idle,                            \* ReceiveIdleMs passed since progress_
    inflight,                        \* TCP: bytes sent and not acknowledged
    sent,                            \* chunks this client has sent
    external, saved,                 \* external_, savedLibraryId_ # 0
    save,                            \* MemoryManager's save session
    published,                       \* chunks of the newest published item
    storage,                         \* MemoryManager::state_
    taken,                           \* another user has the framebuffer
    pc, seen, verdict,               \* RenderLoop; UpdateStorage's locals
    clients, faults

clientVars == <<client, phase, full>>
replyVars == <<reply, acknowledged, queued>>
saveVars == <<external, saved, save, published, taken>>
core0Vars == <<pc, seen, verdict>>
vars == <<enabled, clientVars, buffer, replyVars, idle, inflight, sent, saveVars,
          storage, core0Vars, clients, faults>>

Replies == {"NAME", "READY", "NEXT", "VERIFY", "SAVED", "ERR"}

\* The error messages are longer than most replies.
Length(message) == IF message = "ERR" THEN 2 ELSE 1

NoSave == [phase |-> "idle", data |-> <<>>]
NothingSeen == [phase |-> "Idle", full |-> FALSE, pending |-> FALSE]

Fault == faults < MaxFaults /\ faults' = faults + 1

-----------------------------------------------------------------------------
(* Callbacks on Core 1.                                                    *)

Callback ==
    /\ client # 0
    /\ UNCHANGED <<enabled, saveVars, storage, core0Vars, clients, faults>>

\* MUTANT: a canceled upload makes room for the next client at once.
Cancel_Idle ==
    /\ client' = 0 /\ phase' = "Idle" /\ inflight' = 0
    /\ UNCHANGED <<full, replyVars>>

\* The connection is given up; the foreground cleans up.
Cancel ==
    /\ client' = 0 /\ phase' = "Canceled" /\ inflight' = 0
    /\ UNCHANGED <<full, replyVars>>

Reply(message) == reply' = message /\ acknowledged' = 0 /\ queued' = FALSE

\* All of the reply, if any, is acknowledged.
Delivered(acked) == reply = "none" \/ (queued /\ acked = Length(reply))

\* Pump, "acked" bytes of the reply being acknowledged and "left" on the way.
Pump(acked, left) ==
    /\ acknowledged' = acked
    /\ \/ /\ reply # "none" /\ ~queued                        \* tcp_write
          /\ queued' = TRUE /\ inflight' = left + Length(reply)
          /\ UNCHANGED <<clientVars, reply>>
       \/ /\ ~Delivered(acked)                                \* wait
          /\ inflight' = left /\ UNCHANGED <<clientVars, reply, queued>>
       \/ /\ Delivered(acked) /\ phase = "Closing"            \* tcp_close
          /\ reply' = "none" /\ client' = 0 /\ phase' = "Idle" /\ inflight' = 0
          /\ UNCHANGED <<full, queued>>
       \/ /\ Delivered(acked)       \* not closing, or tcp_close has no memory
          /\ reply' = "none" /\ inflight' = left
          /\ UNCHANGED <<clientVars, queued>>

Accept ==
    /\ enabled /\ phase = "Idle" /\ client = 0
    /\ clients < MaxClients /\ clients' = clients + 1
    /\ client' = clients' /\ phase' = "Header" /\ full' = FALSE
    /\ reply' = "none" /\ inflight' = 0 /\ idle' = FALSE /\ sent' = 0
    /\ UNCHANGED <<enabled, buffer, acknowledged, queued, saveVars, storage,
                   core0Vars, faults>>

\* The rest of the section arrives; it may before its reply is acknowledged.
Receive ==
    /\ Callback /\ phase \in {"Header", "Name", "Body"} /\ ~full
    /\ full' = TRUE /\ idle' = FALSE
    /\ sent' = IF phase = "Body" THEN sent + 1 ELSE sent
    /\ buffer' = [client |-> client, chunk |-> sent']
    /\ UNCHANGED <<client, phase, replyVars, inflight>>

\* More arrives than was asked for, the client closes too early or resets the
\* connection, or lwIP reports a fatal error.
Error == Callback /\ Cancel /\ UNCHANGED <<buffer, idle, sent>>

\* TCP acknowledges n of the bytes sent.
Sent(n) ==
    /\ Callback /\ n <= inflight
    /\ IF reply = "none" \/ ~queued \/ n > Length(reply) - acknowledged
       THEN Cancel /\ UNCHANGED idle
       ELSE Pump(acknowledged + n, inflight - n) /\ idle' = FALSE
    /\ UNCHANGED <<buffer, sent>>

\* Fifteen seconds without progress ...
Elapse ==
    /\ Callback /\ ~idle /\ idle' = TRUE
    /\ UNCHANGED <<clientVars, replyVars, inflight, buffer, sent>>

\* ... are the end of the connection; otherwise Poll and UpdateTransport pump.
Poll ==
    /\ Callback
    /\ IF idle THEN Cancel ELSE Pump(acknowledged, inflight)
    /\ UNCHANGED <<buffer, idle, sent>>

-----------------------------------------------------------------------------
(* Start and Stop: Core 1, while Core 0 is parked between two passes of its *)
(* loop (Core1!ListenersExclusive).                                        *)

Start ==
    /\ pc = "top" /\ ~enabled /\ enabled' = TRUE
    /\ UNCHANGED <<clientVars, buffer, replyVars, idle, inflight, sent, saveVars,
                   storage, core0Vars, clients, faults>>

Stop ==
    /\ pc = "top" /\ enabled /\ Fault /\ enabled' = FALSE
    /\ IF client # 0 THEN Cancel ELSE UNCHANGED <<clientVars, replyVars, inflight>>
    /\ UNCHANGED <<buffer, idle, sent, saveVars, storage, core0Vars, clients>>

-----------------------------------------------------------------------------
(* Core 0: TcpVideoUpload::UpdateStorage.                                  *)

Core0 == UNCHANGED <<enabled, inflight, sent, buffer, clients>>
Locked == Core0 /\ UNCHANGED <<saveVars, storage, faults>>
Unlocked == Core0 /\ UNCHANGED <<clientVars, replyVars, idle, seen>>

Go(point) == pc' = point

CardWorks == storage = "ready" /\ UNCHANGED <<storage, faults>>

\* A card operation fails; with the device, the session is discarded later.
CardFails ==
    \/ storage # "ready" /\ UNCHANGED <<storage, faults>>
    \/ storage = "ready" /\ Fault /\ storage' \in {"ready", "recovering"}

\* AbortMediaSave and EndExternalMedia.
Release ==
    /\ save' = IF external THEN NoSave ELSE save
    /\ external' = FALSE /\ UNCHANGED taken

\* The listener is closed: nobody else touches the state.
UpdateDisabled ==
    /\ pc = "storage" /\ ~enabled
    /\ Release
    /\ phase' = "Idle" /\ full' = FALSE /\ reply' = "none"
    /\ Go("others")
    /\ Core0
    /\ UNCHANGED <<client, acknowledged, queued, idle, saved, published, storage,
                   seen, verdict, faults>>

\* Under the lock: the state is read, and a full section claimed.
Snapshot ==
    /\ pc = "storage" /\ enabled
    /\ seen' = [phase |-> phase, full |-> full, pending |-> reply # "none"]
    /\ phase' = IF full /\ reply = "none"
                THEN CASE phase \in {"Header", "Name"} -> "Opening"
                       [] phase = "Body" -> "Writing"
                       [] OTHER -> phase
                ELSE phase
    /\ Go("work")
    /\ Locked /\ UNCHANGED <<client, full, replyVars, idle, verdict>>

Work == pc = "work" /\ Unlocked

\* A canceled upload gives its hold and its session back.
CleanUp ==
    /\ Work /\ seen.phase = "Canceled"
    /\ Release
    /\ verdict' = "cleanup" /\ Go("settle")
    /\ UNCHANGED <<saved, published, storage, faults>>

\* FinishJob, up to its lock.
FinishJob(message) == Release /\ verdict' = message /\ Go("settle")

StorageLost == external /\ storage # "ready"

FailLost ==
    /\ Work /\ seen.phase # "Canceled" /\ StorageLost
    /\ FinishJob("ERR")
    /\ UNCHANGED <<saved, published, storage, faults>>

Due(phases) ==
    /\ seen.phase \in phases /\ ~seen.pending
    /\ seen.phase = "Verifying" \/ seen.full

Job(phases) == Work /\ ~StorageLost /\ Due(phases)

\* The descriptor or the name is not acceptable.
RejectRequest ==
    /\ Job({"Header", "Name"})
    /\ FinishJob("ERR")
    /\ UNCHANGED <<saved, published, storage, faults>>

AskName ==
    /\ Job({"Header"})
    /\ verdict' = "NAME" /\ Go("settle")
    /\ UNCHANGED <<saveVars, storage, faults>>

CanOpen == save.phase = "idle" /\ ~external /\ ~taken

Open ==
    /\ Job({"Header", "Name"})
    /\ IF CanOpen
       THEN \/ /\ CardWorks
               /\ save' = [phase |-> "writing", data |-> <<>>]
               /\ external' = TRUE
               /\ verdict' = "READY" /\ Go("settle")
            \/ /\ CardFails        \* claimed and given back
               /\ verdict' = "ERR" /\ Go("settle")
               /\ UNCHANGED <<save, external>>
       ELSE FinishJob("ERR") /\ UNCHANGED <<storage, faults>>
    /\ UNCHANGED <<saved, published, taken>>

\* AppendMediaBytes and, after the last chunk, StartMediaVerification.
WriteChunk ==
    /\ Job({"Body"})
    /\ \/ /\ CardWorks /\ save.phase = "writing"
          /\ LET data == Append(save.data, buffer)
                 last == Len(data) = Chunks
             IN  /\ save' = [phase |-> IF last THEN "verifying" ELSE "writing",
                             data |-> data]
                 /\ verdict' = IF last THEN "VERIFY" ELSE "NEXT"
          /\ Go("settle") /\ UNCHANGED <<external, taken>>
       \/ CardFails /\ FinishJob("ERR")
    /\ UNCHANGED <<saved, published>>

\* One step of the readback, which may find a difference; the last publishes.
Verify ==
    /\ Job({"Verifying"})
    /\ \/ /\ CardWorks /\ save.phase = "verifying"
          /\ save' = [save EXCEPT !.phase = "verified"]
          /\ verdict' = "progress" /\ Go("settle")
          /\ UNCHANGED <<saved, published, external, taken>>
       \/ /\ CardWorks /\ save.phase = "verified"
          /\ published' = save.data /\ saved' = TRUE
          /\ FinishJob("SAVED")
       \/ CardFails /\ FinishJob("ERR") /\ UNCHANGED <<saved, published>>

NothingToDo ==
    /\ Work /\ ~StorageLost
    /\ seen.phase # "Canceled" /\ ~Due({"Header", "Name", "Body", "Verifying"})
    /\ Go("others")
    /\ UNCHANGED <<saveVars, storage, verdict, faults>>

Settle == pc = "settle" /\ Go("others") /\ Locked /\ UNCHANGED <<seen, verdict>>

\* MUTANT: a cancellation during the card operation is overwritten.
Answer_Unchecked(next, message) ==
    /\ verdict = message
    /\ phase' = next /\ full' = FALSE /\ idle' = FALSE /\ Reply(message)
    /\ UNCHANGED client

\* Under the lock: the next section is asked for, unless the upload was
\* canceled meanwhile.
Answer(next, message) ==
    /\ verdict = message
    /\ IF phase # "Canceled"
       THEN phase' = next /\ full' = FALSE /\ idle' = FALSE /\ Reply(message)
       ELSE UNCHANGED <<phase, full, idle, replyVars>>
    /\ UNCHANGED client

\* FinishJob, under its lock.
Conclude ==
    /\ verdict \in {"SAVED", "ERR"}
    /\ IF client # 0 /\ phase # "Canceled"
       THEN phase' = "Closing" /\ Reply(verdict)
       ELSE UNCHANGED <<phase, replyVars>>
    /\ UNCHANGED <<client, full, idle>>

SettleVerdict ==
    /\ Settle
    /\ \/ Answer("Name", "NAME") \/ Answer("Body", "READY")
       \/ Answer("Body", "NEXT") \/ Answer("Verifying", "VERIFY")
       \/ Conclude
       \/ /\ verdict = "progress" /\ idle' = FALSE
          /\ UNCHANGED <<clientVars, replyVars>>
       \/ /\ verdict = "cleanup"
          /\ phase' = "Idle" /\ full' = FALSE /\ reply' = "none"
          /\ UNCHANGED <<client, acknowledged, queued, idle>>

-----------------------------------------------------------------------------
(* The rest of RenderLoop, and the other users of card and framebuffer.    *)

Elsewhere == UNCHANGED <<enabled, clientVars, buffer, replyVars, idle, inflight,
                         sent, external, published, seen, verdict, clients>>

\* MemoryManager::Update at the top of the loop.
UpdateMemory ==
    /\ pc = "top" /\ Go("storage")
    /\ \/ UNCHANGED <<storage, save>> /\ storage # "recovering"
       \/ storage = "recovering" /\ storage' = "unavailable" /\ save' = NoSave
       \/ storage = "unavailable" /\ storage' = "ready" /\ UNCHANGED save
    /\ Elsewhere /\ UNCHANGED <<saved, taken, faults>>

\* HTTP requests and drawing: an HTTP upload may begin or end, the card be
\* found missing; MediaLibrary takes the saved item.
EndPass ==
    /\ pc = "others" /\ Go("top") /\ saved' = FALSE
    /\ \/ UNCHANGED <<save, taken, storage, faults>>
       \/ /\ CanOpen /\ storage = "ready"
          /\ taken' = TRUE /\ save' = [NoSave EXCEPT !.phase = "http"]
          /\ UNCHANGED <<storage, faults>>
       \/ /\ save.phase = "http" /\ save' = NoSave /\ taken' = FALSE
          /\ UNCHANGED <<storage, faults>>
       \/ /\ storage = "ready" /\ Fault /\ storage' = "recovering"
          /\ UNCHANGED <<save, taken>>
    /\ Elsewhere

\* A photo client or the drawing takes the framebuffer, or gives it back.
OtherHolder ==
    /\ \/ ~external /\ ~taken /\ taken' = TRUE
       \/ taken /\ save.phase # "http" /\ taken' = FALSE
    /\ Elsewhere /\ UNCHANGED <<saved, save, storage, pc, faults>>

-----------------------------------------------------------------------------
Core1Next ==
    \/ Accept \/ Receive \/ (\E n \in 1 .. inflight : Sent(n)) \/ Error
    \/ Elapse \/ Poll \/ Start \/ Stop

UpdateStorage ==
    \/ UpdateDisabled \/ Snapshot \/ CleanUp \/ FailLost \/ RejectRequest
    \/ AskName \/ Open \/ WriteChunk \/ Verify \/ NothingToDo \/ SettleVerdict

RenderLoop == UpdateStorage \/ UpdateMemory \/ EndPass

Next == Core1Next \/ RenderLoop \/ OtherHolder

Init ==
    /\ enabled = FALSE /\ client = 0 /\ phase = "Idle" /\ full = FALSE
    /\ buffer = [client |-> 0, chunk |-> 0]
    /\ reply = "none" /\ acknowledged = 0 /\ queued = FALSE
    /\ idle = FALSE /\ inflight = 0 /\ sent = 0
    /\ external = FALSE /\ saved = FALSE /\ save = NoSave /\ published = <<>>
    /\ storage \in {"ready", "unavailable"} /\ taken = FALSE
    /\ pc = "top" /\ seen = NothingSeen /\ verdict = "none"
    /\ clients = 0 /\ faults = 0

Spec == Init /\ [][Next]_vars

\* Core 0's loop goes on and Core 1 keeps polling (module Core1: BothCoresRun);
\* time passes.  Nothing makes a client send or acknowledge anything.
FairSpec ==
    Spec /\ WF_vars(RenderLoop) /\ WF_vars(Elapse) /\ WF_vars(Poll)

-----------------------------------------------------------------------------
(* Properties.                                                             *)

Phases == {"Idle", "Header", "Name", "Opening", "Body", "Writing", "Verifying",
           "Closing", "Canceled"}

Section == [client : 0 .. MaxClients, chunk : 0 .. Chunks]

Saves == [phase : {"idle", "writing", "verifying", "verified", "http"},
          data : Seq(Section)]
Snapshots == [phase : Phases, full : BOOLEAN, pending : BOOLEAN]

FlagsOK ==
    /\ enabled \in BOOLEAN /\ full \in BOOLEAN /\ queued \in BOOLEAN
    /\ idle \in BOOLEAN /\ external \in BOOLEAN /\ saved \in BOOLEAN
    /\ taken \in BOOLEAN

ModesOK ==
    /\ phase \in Phases /\ reply \in Replies \cup {"none"}
    /\ storage \in {"ready", "recovering", "unavailable"}
    /\ pc \in {"top", "storage", "work", "settle", "others"}
    /\ verdict \in Replies \cup {"none", "progress", "cleanup"}
    /\ seen \in Snapshots

CountsOK ==
    /\ client \in 0 .. MaxClients /\ clients \in 0 .. MaxClients
    /\ acknowledged \in 0 .. 2 /\ inflight \in Nat
    /\ sent \in 0 .. Chunks /\ faults \in 0 .. MaxFaults

DataOK == buffer \in Section /\ save \in Saves /\ Len(save.data) <= Chunks

TypeOK == FlagsOK /\ ModesOK /\ CountsOK /\ DataOK

\* A connection exists exactly in the phases of one.
ConnectionPhase == (client = 0) <=> (phase \in {"Idle", "Canceled"})

\* The transaction belongs to who holds the framebuffer: an upload that ends
\* never discards the session of an HTTP upload, and no session is left without
\* an owner that will end it.
SessionOwned ==
    /\ ~(external /\ taken)
    /\ save.phase \in {"writing", "verifying", "verified"} => external
    /\ save.phase = "http" => taken

Chunk(c, n) == [client |-> c, chunk |-> n]
Prefix(c, n) == [i \in 1 .. n |-> Chunk(c, i)]

\* What was written is what one client sent, in order and without a gap, and no
\* other client is served before the session ends.
WrittenIsPrefix ==
    external => \E c \in 1 .. MaxClients :
                    /\ save.data = Prefix(c, Len(save.data))
                    /\ client \in {0, c}

\* A reply says what has happened: NEXT follows the append of every chunk sent,
\* VERIFY that of the last, and SAVED the publication of this client's video.
RepliesTruthful ==
    /\ reply = "NEXT" /\ client # 0 /\ storage = "ready" /\ external
        => Len(save.data) \in {sent, sent - 1} /\ save.data # <<>>
    /\ reply = "VERIFY" /\ client # 0 /\ storage = "ready" /\ external
        => save.data = Prefix(client, Chunks)
    /\ reply = "SAVED" /\ client # 0 => published = Prefix(client, Chunks)

\* Every upload ends, whatever the client does not do: the framebuffer and the
\* session are given back and the next client can connect.
UploadEnds == (phase # "Idle" \/ external) ~> (phase = "Idle" /\ ~external)

-----------------------------------------------------------------------------
(* The inductive invariant: Core 0's locals agree with what the callbacks   *)
(* may have done since they were read.                                     *)

\* Between Snapshot and the lock of SettleVerdict a connection can only be
\* canceled, so that what was claimed is still there or nobody's.
Claimed ==
    /\ phase \in {"Opening", "Writing"} => pc \in {"work", "settle"} /\ reply = "none"
    /\ pc = "work" =>
           /\ seen.phase \notin {"Opening", "Writing"}
           /\ external => seen.phase \in {"Body", "Verifying", "Canceled"}
           /\ seen.phase = "Canceled" => phase = "Canceled"
           /\ seen.phase = "Verifying" => phase \in {"Verifying", "Canceled"}
           /\ phase = "Opening" => Due({"Header", "Name"})
           /\ phase = "Writing" => Due({"Body"})
           /\ Due({"Header", "Name"}) => phase \in {"Opening", "Canceled"}
           /\ Due({"Body"}) => phase \in {"Writing", "Canceled"}

\* What Core 0 is about to answer has happened.
VerdictFits ==
    pc = "settle" =>
        /\ external <=> verdict \in {"READY", "NEXT", "VERIFY", "progress"}
        /\ verdict \in {"NAME", "READY"} => phase \in {"Opening", "Canceled"}
        /\ verdict \in {"NEXT", "VERIFY"} => phase \in {"Writing", "Canceled"}
        /\ verdict \in {"SAVED", "progress"} => phase \in {"Verifying", "Canceled"}
        /\ verdict = "cleanup" => phase = "Canceled"
        /\ verdict = "READY" => save = [phase |-> "writing", data |-> <<>>]
        /\ verdict = "NEXT" => save.phase = "writing" /\ save.data # <<>>
        /\ verdict = "VERIFY" => save.phase = "verifying"
        /\ verdict = "progress" => save.phase = "verified"
        /\ verdict = "SAVED" /\ client # 0 => published = Prefix(client, Chunks)

\* The save session goes with the connection's phase; it is discarded without
\* its upload only when the card is lost, until the same pass notices.
SessionPhase ==
    /\ external =>
           /\ \/ phase \in {"Body", "Writing", "Verifying", "Canceled"}
              \/ pc = "settle" /\ phase = "Opening"
           /\ storage = "unavailable" <=> save.phase = "idle"
           /\ storage = "unavailable" => pc \in {"storage", "work"}
           /\ pc = "settle" => storage = "ready"
    /\ save.phase = "idle" => save.data = <<>>
    /\ save.phase = "writing" => Len(save.data) < Chunks
    /\ save.phase \in {"verifying", "verified"} => Len(save.data) = Chunks

\* Where the client stands: what it has sent and what it was told.
ClientStands ==
    /\ ~enabled => client = 0
    /\ phase # "Idle" => clients # 0
    /\ client # 0 =>
           /\ phase \in {"Header", "Name", "Opening"} => sent = 0
           /\ phase = "Body" /\ ~full => sent < Chunks
           /\ phase \in {"Body", "Writing"} /\ full => buffer = Chunk(client, sent)
           /\ phase = "Writing" => full
           /\ reply = "NAME" => phase = "Name"
           /\ reply \in {"READY", "NEXT"} => phase = "Body"
           /\ reply = "VERIFY" => phase = "Verifying"
           /\ reply \in {"SAVED", "ERR"} => phase = "Closing"

\* What was written is what was sent and claimed before.
PositionKept ==
    external /\ storage # "unavailable" =>
        /\ phase = "Body" =>
               /\ save.phase = "writing"
               /\ Len(save.data) = IF full THEN sent - 1 ELSE sent
               /\ reply = "NEXT" => save.data # <<>>
        /\ phase = "Writing" =>
               Len(save.data) = IF pc = "work" THEN sent - 1 ELSE sent
        /\ phase = "Verifying" => save.phase \in {"verifying", "verified"}
        /\ pc = "work" /\ Due({"Body"}) =>
               /\ buffer = Chunk(buffer.client, Len(save.data) + 1)
               /\ save.data = Prefix(buffer.client, Len(save.data))
               /\ buffer.client # 0

\* One client, one session, its data in order, and truthful replies.
Inv ==
    /\ TypeOK /\ ConnectionPhase /\ SessionOwned
    /\ WrittenIsPrefix /\ RepliesTruthful
    /\ Claimed /\ VerdictFits /\ SessionPhase /\ ClientStands /\ PositionKept
=============================================================================
