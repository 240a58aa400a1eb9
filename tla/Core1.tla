------------------------------- MODULE Core1 -------------------------------
(***************************************************************************)
(* How the two cores of the controller share Core 1.                       *)
(*                                                                         *)
(* Core 1 runs networkCorePico.cpp's NetworkCore loop: it executes a queued*)
(* JPEG decode, or else one network pass (NetworkServices::Update), after  *)
(* which it may offer itself to the decoder.  Core 0 runs mainEntry.cpp's  *)
(* RenderLoop: it acknowledges the listener handoffs Core 1 asks for, then *)
(* does its storage and display work, in which a JPEG record is decoded on *)
(* Core 1 when Core 1 can be reserved and locally otherwise.               *)
(*                                                                         *)
(* Each load, store or compare-exchange of state_, completed_ and command_ *)
(* is one step.  The C++ acquire/release pairs order the plain accesses    *)
(* around them; interleaving them sequentially is what that ordering buys. *)
(***************************************************************************)
EXTENDS Naturals

CONSTANTS Jobs,           \* stack contexts a decode job can borrow
          NoJob,          \* no context: a null pointer or a dead stack frame
          HandoffsPerPass, \* listener lifecycles one network pass can run
          FramesPerPass   \* BOUND: records one foreground pass decodes

ASSUME Core1Assumption ==
    /\ NoJob \notin Jobs
    /\ HandoffsPerPass \in Nat
    /\ FramesPerPass \in Nat

VARIABLES
    state,          \* Core1Scheduler::state_
    completed,      \* Core1Scheduler::completed_
    context,        \* Core1Scheduler::work_ and context_
    command,        \* NetworkServices::command_, the one-word mailbox
    servicesPaused, \* RenderLoop's flag, set by HandleNetworkPauseRequest
    pc1, handoffs,  \* Core 1: program point, lifecycles run in this pass
    pc0, frames,    \* Core 0: program point, records decoded in this pass
    request,        \* Core 0: the command ProcessRequests loaded
    frame           \* Core 0: the live ParallelDecode of DecodeJpegParallel

schedulerVars == <<state, completed, context>>
core1Vars == <<pc1, handoffs>>
core0Vars == <<pc0, frames, request, frame>>
vars == <<schedulerVars, command, servicesPaused, core1Vars, core0Vars>>

SchedulerStates ==
    {"Off", "Network", "Available", "Reserved", "Queued", "Decoding"}
Commands == {"None", "PauseServices", "ResumeServices"}

Init ==
    /\ state = "Off" /\ completed = TRUE /\ context = NoJob
    /\ command = "None" /\ servicesPaused = FALSE
    /\ pc1 = "launch" /\ handoffs = 0
    /\ pc0 = "top" /\ frames = 0 /\ request = "None" /\ frame = NoJob

-----------------------------------------------------------------------------
(* Core 1: NetworkCore.                                                    *)

\* NetworkServices::Initialize publishes a status, then Enable claims the
\* scheduler (a second Enable panics: there is one NetworkCore).
Enable ==
    /\ pc1 = "launch" /\ state = "Off"
    /\ state' = "Network" /\ pc1' = "poll"
    /\ UNCHANGED <<completed, context, command, servicesPaused, handoffs,
                   core0Vars>>

\* MUTANT: a reservation is taken for a queued job.
RunDecode_Reserved ==
    /\ pc1 = "poll"
    /\ \/ state \in {"Queued", "Reserved"} /\ state' = "Decoding" /\ pc1' = "decode"
       \/ state \notin {"Queued", "Reserved"} /\ UNCHANGED state /\ pc1' = "begin"
    /\ UNCHANGED <<completed, context, command, servicesPaused, handoffs,
                   core0Vars>>

\* RunDecode's compare-exchange: the loop's first question.
RunDecode ==
    /\ pc1 = "poll"
    /\ \/ state = "Queued" /\ state' = "Decoding" /\ pc1' = "decode"
       \/ state # "Queued" /\ UNCHANGED state /\ pc1' = "begin"
    /\ UNCHANGED <<completed, context, command, servicesPaused, handoffs,
                   core0Vars>>

\* The borrowed callback returned: RunDecode announces completion first ...
DecodeReturns ==
    /\ pc1 = "decode"
    /\ completed' = TRUE /\ pc1' = "release"
    /\ UNCHANGED <<state, context, command, servicesPaused, handoffs,
                   core0Vars>>

\* ... and only then gives Core 1 back to network work.
ReleaseCore1 ==
    /\ pc1 = "release"
    /\ state' = "Network" /\ pc1' = "poll"
    /\ UNCHANGED <<completed, context, command, servicesPaused, handoffs,
                   core0Vars>>

\* MUTANT: a network pass begins although Core 0 holds a reservation.
TryBeginNetwork_Reserved ==
    /\ pc1 = "begin"
    /\ pc1' = "update"
    /\ state' = IF state = "Available" THEN "Network" ELSE state
    /\ UNCHANGED <<completed, context, command, servicesPaused, handoffs,
                   core0Vars>>

\* Retracts an idle offer; a reservation sends the loop back to sleep.
TryBeginNetwork ==
    /\ pc1 = "begin"
    /\ \/ /\ state \in {"Available", "Network"}
          /\ state' = "Network" /\ pc1' = "update"
       \/ /\ state \notin {"Available", "Network"}
          /\ UNCHANGED state /\ pc1' = "poll"
    /\ UNCHANGED <<completed, context, command, servicesPaused, handoffs,
                   core0Vars>>

\* Inside Update, StopNetworkServices (before a radio restart) and
\* EnsureNetworkServices (a listener is missing) first pause Core 0.
RequestPause ==
    /\ pc1 = "update" /\ handoffs < HandoffsPerPass
    /\ command' = "PauseServices" /\ pc1' = "pausing"
    /\ handoffs' = handoffs + 1
    /\ UNCHANGED <<schedulerVars, servicesPaused, core0Vars>>

AwaitPause ==
    /\ pc1 = "pausing" /\ command = "None"
    /\ pc1' = "listeners"
    /\ UNCHANGED <<schedulerVars, command, servicesPaused, handoffs, core0Vars>>

\* The listeners were stopped or started; tell Core 0 to go on.
RequestResume ==
    /\ pc1 = "listeners"
    /\ command' = "ResumeServices" /\ pc1' = "resuming"
    /\ UNCHANGED <<schedulerVars, servicesPaused, handoffs, core0Vars>>

AwaitResume ==
    /\ pc1 = "resuming" /\ command = "None"
    /\ pc1' = "update"
    /\ UNCHANGED <<schedulerVars, command, servicesPaused, handoffs, core0Vars>>

\* Update returned; CanDecodeOnCore1 answers for clients and radio.
OfferDecode ==
    /\ pc1 = "update"
    /\ \E allowed \in BOOLEAN :
           state' = IF allowed THEN "Available" ELSE "Network"
    /\ pc1' = "poll" /\ handoffs' = 0
    /\ UNCHANGED <<completed, context, command, servicesPaused, core0Vars>>

NetworkCore ==
    \/ Enable \/ RunDecode \/ DecodeReturns \/ ReleaseCore1
    \/ TryBeginNetwork \/ RequestPause \/ AwaitPause \/ RequestResume
    \/ AwaitResume \/ OfferDecode

-----------------------------------------------------------------------------
(* Core 0: RenderLoop.                                                     *)

\* MUTANT: the mailbox is cleared when it is read, before the handler runs.
LoadRequest_AcksFirst ==
    /\ pc0 = "top"
    /\ \/ /\ command # "None" /\ request' = command
          /\ command' = "None" /\ pc0' = "handle"
       \/ /\ command = "None" /\ UNCHANGED <<request, command>>
          /\ pc0' = IF servicesPaused THEN "top" ELSE "work"
    /\ UNCHANGED <<schedulerVars, servicesPaused, frames, frame, core1Vars>>

\* ProcessRequests at the top of each pass; a paused loop only sleeps.
LoadRequest ==
    /\ pc0 = "top"
    /\ \/ command # "None" /\ request' = command /\ pc0' = "handle"
       \/ /\ command = "None" /\ UNCHANGED request
          /\ pc0' = IF servicesPaused THEN "top" ELSE "work"
    /\ UNCHANGED <<schedulerVars, command, servicesPaused, frames, frame,
                   core1Vars>>

\* HandleNetworkPauseRequest.
HandleRequest ==
    /\ pc0 = "handle"
    /\ servicesPaused' = (request = "PauseServices")
    /\ pc0' = "acknowledge"
    /\ UNCHANGED <<schedulerVars, command, frames, request, frame, core1Vars>>

AcknowledgeRequest ==
    /\ pc0 = "acknowledge"
    /\ command' = "None" /\ request' = "None"
    /\ pc0' = IF servicesPaused THEN "top" ELSE "work"
    /\ UNCHANGED <<schedulerVars, servicesPaused, frames, frame, core1Vars>>

\* A JPEG record is read: reserve Core 1 before the first pipe read.
TryReserveDecode ==
    /\ pc0 = "work" /\ frames < FramesPerPass
    /\ frames' = frames + 1
    /\ \/ state = "Available" /\ state' = "Reserved" /\ pc0' = "reserved"
       \/ state # "Available" /\ UNCHANGED state /\ pc0' = "local"
    /\ UNCHANGED <<completed, context, command, servicesPaused, request, frame,
                   core1Vars>>

\* The synchronous decoder borrows the same workspace on Core 0.
DecodeLocally ==
    /\ pc0 = "local"
    /\ pc0' = "work"
    /\ UNCHANGED <<schedulerVars, command, servicesPaused, frames, request,
                   frame, core1Vars>>

\* MUTANT: a reservation keeps the previous job's completion flag.
ClearCompleted_Forgotten ==
    /\ pc0 = "reserved"
    /\ pc0' = "prime"
    /\ \E j \in Jobs : frame' = j
    /\ UNCHANGED <<state, completed, context, command, servicesPaused, frames,
                   request, core1Vars>>

\* TryReserveDecode's second store; DecodeJpegParallel then builds its job
\* and primes the pipe with the first bytes of the record.
ClearCompleted ==
    /\ pc0 = "reserved"
    /\ completed' = FALSE /\ pc0' = "prime"
    /\ \E j \in Jobs : frame' = j
    /\ UNCHANGED <<state, context, command, servicesPaused, frames, request,
                   core1Vars>>

\* Priming failed: CancelReservation completes the reservation ...
CancelReservation ==
    /\ pc0 = "prime" /\ state = "Reserved"
    /\ completed' = TRUE /\ pc0' = "cancel" /\ frame' = NoJob
    /\ UNCHANGED <<state, context, command, servicesPaused, frames, request,
                   core1Vars>>

\* MUTANT: a cancelled reservation is completed but never given back.
ReturnReservation_Lost ==
    /\ pc0 = "cancel"
    /\ pc0' = "work"
    /\ UNCHANGED <<schedulerVars, command, servicesPaused, frames, request,
                   frame, core1Vars>>

\* ... and then returns Core 1 to the network.
ReturnReservation ==
    /\ pc0 = "cancel"
    /\ state' = "Network" /\ pc0' = "work"
    /\ UNCHANGED <<completed, context, command, servicesPaused, frames, request,
                   frame, core1Vars>>

\* SubmitDecode: the job is written while the reservation hides it ...
WriteJob ==
    /\ pc0 = "prime" /\ state = "Reserved"
    /\ context' = frame /\ pc0' = "submit"
    /\ UNCHANGED <<state, completed, command, servicesPaused, frames, request,
                   frame, core1Vars>>

\* ... and published by the state store.
QueueJob ==
    /\ pc0 = "submit"
    /\ state' = "Queued" /\ pc0' = "feed"
    /\ UNCHANGED <<completed, context, command, servicesPaused, frames, request,
                   frame, core1Vars>>

\* DecodeJpegParallel feeds the pipe until DecodeFinished, then returns: its
\* job leaves the stack and the workspace is reused.
DecodeFinished ==
    /\ pc0 = "feed" /\ completed
    /\ pc0' = "work" /\ frame' = NoJob
    /\ UNCHANGED <<schedulerVars, command, servicesPaused, frames, request,
                   core1Vars>>

\* The rest of the pass: storage, transports, prepare and submit, sleep.
EndPass ==
    /\ pc0 = "work"
    /\ pc0' = "top" /\ frames' = 0
    /\ UNCHANGED <<schedulerVars, command, servicesPaused, request, frame,
                   core1Vars>>

RenderLoop ==
    \/ LoadRequest \/ HandleRequest \/ AcknowledgeRequest
    \/ TryReserveDecode \/ DecodeLocally \/ ClearCompleted
    \/ CancelReservation \/ ReturnReservation \/ WriteJob \/ QueueJob
    \/ DecodeFinished \/ EndPass

Next == NetworkCore \/ RenderLoop

\* Both cores run forever and never block in a step: each loop makes progress
\* whenever one of its steps can be taken.
Fairness == WF_vars(NetworkCore) /\ WF_vars(RenderLoop)

Spec == Init /\ [][Next]_vars
FairSpec == Spec /\ Fairness

-----------------------------------------------------------------------------
(* Properties.                                                             *)

\* Every variable keeps its type.
TypeOK ==
    /\ state \in SchedulerStates
    /\ completed \in BOOLEAN
    /\ context \in Jobs \cup {NoJob}
    /\ command \in Commands
    /\ servicesPaused \in BOOLEAN
    /\ pc1 \in {"launch", "poll", "decode", "release", "begin", "update",
                "pausing", "listeners", "resuming"}
    /\ handoffs \in 0 .. HandoffsPerPass
    /\ pc0 \in {"top", "handle", "acknowledge", "work", "local", "reserved",
                "prime", "cancel", "submit", "feed"}
    /\ frames \in 0 .. FramesPerPass
    /\ request \in Commands
    /\ frame \in Jobs \cup {NoJob}

\* While Core 1 executes the decode callback, the job it dereferences is the
\* one whose stack frame is live, and Core 0 is inside the feeding loop that
\* keeps that frame, the pipe and the workspace for it (SubmitDecode: the
\* context and workspace must stay alive until DecodeFinished).
WorkerContextAlive ==
    pc1 = "decode" => pc0 = "feed" /\ context = frame /\ frame # NoJob

\* Core 1 opens, closes or rebinds listeners only while Core 0 is parked
\* outside storage and rendering: paused, with no pass in progress.
ListenersExclusive ==
    pc1 = "listeners" => servicesPaused /\ pc0 = "top"

\* The two cores never wait on each other: Core 1 is not inside a handoff
\* that needs Core 0 while Core 0 holds a reservation or waits for a worker
\* that has not finished.
NoCircularWait ==
    pc1 \in {"pausing", "listeners", "resuming"} =>
        /\ pc0 \notin {"reserved", "prime", "cancel", "submit"}
        /\ pc0 = "feed" => completed

\* Neither loop starves: decodes and reservations never keep the network
\* pass from running again, and handoffs (Request spins until answered) and
\* decodes never stop the display loop for good.
BothCoresRun ==
    /\ []<>(pc1 = "update")
    /\ []<>(pc0 = "work")

-----------------------------------------------------------------------------
(* The inductive invariant: who owns Core 1, and where the mailbox is.     *)

\* The scheduler word tells each core's program point.
Ownership ==
    /\ pc1 = "launch" <=> state = "Off"
    /\ pc1 \in {"decode", "release"} <=> state = "Decoding"
    /\ pc1 \in {"update", "pausing", "listeners", "resuming"} =>
           state = "Network"
    /\ pc0 \in {"reserved", "prime", "cancel", "submit"} <=> state = "Reserved"

\* A job is queued or running exactly while Core 0 waits for it.
JobHeld ==
    /\ (pc0 = "feed" /\ ~completed) <=> (state = "Queued" \/ pc1 = "decode")
    /\ pc0 \in {"prime", "submit"} => ~completed
    /\ pc0 \in {"prime", "submit", "feed"} => frame \in Jobs
    /\ pc0 \in {"submit", "feed"} => context = frame

\* The mailbox holds Core 1's command until Core 0 has carried it out.
Mailbox ==
    /\ pc0 \in {"handle", "acknowledge"} =>
           request = command /\ request # "None"
    /\ pc1 = "pausing" =>
           \/ command = "None" /\ servicesPaused /\ pc0 = "top"
           \/ /\ command = "PauseServices"
              /\ servicesPaused <=> pc0 = "acknowledge"
    /\ pc1 = "listeners" => command = "None" /\ servicesPaused /\ pc0 = "top"
    /\ pc1 = "resuming" =>
           \/ command = "None" /\ ~servicesPaused
           \/ /\ command = "ResumeServices"
              /\ pc0 \in {"top", "handle", "acknowledge"}
              /\ servicesPaused <=> pc0 # "acknowledge"
    /\ pc1 \notin {"pausing", "listeners", "resuming"} =>
           command = "None" /\ ~servicesPaused

Inv == TypeOK /\ Ownership /\ JobHeld /\ Mailbox
=============================================================================
