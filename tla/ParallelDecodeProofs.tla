------------------------ MODULE ParallelDecodeProofs -----------------------
(* The two halves of the parallel JPEG decoder, for every value of their   *)
(* constants.  The cores' protocol: Core1's Inv is inductive for every set *)
(* of jobs and every number of listener lifecycles and decodes per pass.   *)
(* The pipe between the cores: the queue invariant is inductive for every  *)
(* slot size, record length and request size, the SD read and the decoder  *)
(* never share a slot, and the pipe implements the abstract byte stream.   *)
EXTENDS Core1, JpegInputPipe, TLAPS

-----------------------------------------------------------------------------
(* Core 1's scheduler and the listener lifecycle mailbox.                  *)

\* The power-on state satisfies the invariant.
LEMMA InitInv == Init => Inv
  <1> SUFFICES ASSUME Init PROVE Inv
    OBVIOUS
  <1> USE DEF Init
  <1>1. TypeOK
    <2>1. handoffs \in 0 .. HandoffsPerPass /\ frames \in 0 .. FramesPerPass
      BY Core1Assumption
    <2> QED
      BY <2>1 DEF TypeOK, SchedulerStates, Commands
  <1>2. Ownership
    BY DEF Ownership
  <1>3. JobHeld
    BY DEF JobHeld
  <1>4. Mailbox
    BY DEF Mailbox
  <1> QED
    BY <1>1, <1>2, <1>3, <1>4 DEF Inv

\* Every step of Core 1's loop keeps the invariant.
LEMMA NetworkCoreInv ==
    ASSUME Inv, NetworkCore
    PROVE  Inv'
  <1> USE Core1Assumption DEF Inv, TypeOK, Ownership, JobHeld, Mailbox,
          SchedulerStates, Commands, core0Vars, schedulerVars
  <1>1. CASE Enable
    BY <1>1 DEF Enable
  <1>2. CASE RunDecode
    BY <1>2 DEF RunDecode
  <1>3. CASE DecodeReturns
    BY <1>3 DEF DecodeReturns
  <1>4. CASE ReleaseCore1
    BY <1>4 DEF ReleaseCore1
  <1>5. CASE TryBeginNetwork
    BY <1>5 DEF TryBeginNetwork
  <1>6. CASE RequestPause
    BY <1>6 DEF RequestPause
  <1>7. CASE AwaitPause
    BY <1>7 DEF AwaitPause
  <1>8. CASE RequestResume
    BY <1>8 DEF RequestResume
  <1>9. CASE AwaitResume
    BY <1>9 DEF AwaitResume
  <1>10. CASE OfferDecode
    BY <1>10 DEF OfferDecode
  <1> QED
    BY <1>1, <1>2, <1>3, <1>4, <1>5, <1>6, <1>7, <1>8, <1>9, <1>10
    DEF NetworkCore

\* Every step of Core 0's loop keeps the invariant.
LEMMA RenderLoopInv ==
    ASSUME Inv, RenderLoop
    PROVE  Inv'
  <1> USE Core1Assumption DEF Inv, TypeOK, Ownership, JobHeld, Mailbox,
          SchedulerStates, Commands, core1Vars, schedulerVars
  <1>1. CASE LoadRequest
    BY <1>1 DEF LoadRequest
  <1>2. CASE HandleRequest
    BY <1>2 DEF HandleRequest
  <1>3. CASE AcknowledgeRequest
    BY <1>3 DEF AcknowledgeRequest
  <1>4. CASE TryReserveDecode
    BY <1>4 DEF TryReserveDecode
  <1>5. CASE DecodeLocally
    BY <1>5 DEF DecodeLocally
  <1>6. CASE ClearCompleted
    BY <1>6 DEF ClearCompleted
  <1>7. CASE CancelReservation
    BY <1>7 DEF CancelReservation
  <1>8. CASE ReturnReservation
    BY <1>8 DEF ReturnReservation
  <1>9. CASE WriteJob
    BY <1>9 DEF WriteJob
  <1>10. CASE QueueJob
    BY <1>10 DEF QueueJob
  <1>11. CASE DecodeFinished
    BY <1>11 DEF DecodeFinished
  <1>12. CASE EndPass
    BY <1>12 DEF EndPass
  <1> QED
    BY <1>1, <1>2, <1>3, <1>4, <1>5, <1>6, <1>7, <1>8, <1>9, <1>10, <1>11,
       <1>12
    DEF RenderLoop

\* The strengthened invariant: the scheduler word, the job and the mailbox
\* agree with both cores' program points in every reachable state.
THEOREM InvHolds == Spec => []Inv
  <1>1. Init => Inv
    BY InitInv
  <1>2. Inv /\ [Next]_vars => Inv'
    <2> SUFFICES ASSUME Inv, [Next]_vars PROVE Inv'
      OBVIOUS
    <2>1. CASE NetworkCore
      BY <2>1, NetworkCoreInv
    <2>2. CASE RenderLoop
      BY <2>2, RenderLoopInv
    <2>3. CASE UNCHANGED vars
      BY <2>3 DEF vars, schedulerVars, core0Vars, core1Vars, Inv, TypeOK,
                  Ownership, JobHeld, Mailbox
    <2> QED
      BY <2>1, <2>2, <2>3 DEF Next
  <1> QED
    BY <1>1, <1>2, PTL DEF Spec

\* RunDecode never calls work_ with a context whose stack frame is gone: Core 0
\* is still in DecodeJpegParallel's feeding loop with that very job.
THEOREM WorkerContextAliveHolds == Spec => []WorkerContextAlive
  <1>1. Inv => WorkerContextAlive
    BY Core1Assumption DEF Inv, Ownership, JobHeld, WorkerContextAlive
  <1> QED
    BY <1>1, InvHolds, PTL

\* Core 1 changes listeners only inside an acknowledged pause.
THEOREM ListenersExclusiveHolds == Spec => []ListenersExclusive
  <1>1. Inv => ListenersExclusive
    BY DEF Inv, Mailbox, ListenersExclusive
  <1> QED
    BY <1>1, InvHolds, PTL

\* No reachable state has Core 1 waiting in Request for Core 0 and Core 0
\* waiting for Core 1: the reservation keeps the two waits apart.
THEOREM NoCircularWaitHolds == Spec => []NoCircularWait
  <1>1. Inv => NoCircularWait
    BY DEF Inv, TypeOK, Ownership, JobHeld, NoCircularWait
  <1> QED
    BY <1>1, InvHolds, PTL

-----------------------------------------------------------------------------
(* The input pipe.                                                         *)

\* The record starts with empty slots.
LEMMA PipeInitInv == PipeInit => PipeInv
  <1> SUFFICES ASSUME PipeInit PROVE PipeInv
    OBVIOUS
  <1> USE DEF PipeInit, Slots
  <1>1. PipeTypeOK
    <2>1. total \in 1 .. MaxRecord /\ supplied \in 0 .. total
      BY PipeAssumption
    <2>2. want \in 0 .. MaxRead
      BY PipeAssumption
    <2> QED
      BY <2>1, <2>2 DEF PipeTypeOK
  <1>2. Queue
    BY DEF Queue, Other
  <1>3. Producing
    BY DEF Producing
  <1>4. Consuming
    BY DEF Consuming
  <1> QED
    BY <1>1, <1>2, <1>3, <1>4 DEF PipeInv

\* Every step of Core 0 preserves the invariant.
LEMMA FeederPipeInv == PipeInv /\ FeederStep => PipeInv'
  <1> SUFFICES ASSUME PipeTypeOK, Queue, Producing, Consuming, FeederStep
               PROVE  PipeTypeOK' /\ Queue' /\ Producing' /\ Consuming'
    BY DEF PipeInv
  <1> USE PipeAssumption DEF Slots, Other, pipeVars, feederVars, decoderVars
  <1>1. CASE BeginRecord
    <2> USE DEF BeginRecord, Reset
    <2>1. total' \in 1 .. MaxRecord /\ supplied' \in 0 .. total'
      BY <1>1
    <2>2. PipeTypeOK'
      BY <1>1, <2>1 DEF PipeTypeOK
    <2>3. Queue'
      BY <1>1 DEF PipeTypeOK, Queue
    <2>4. Producing'
      BY <1>1, <2>1 DEF PipeTypeOK, Producing
    <2>5. Consuming'
      BY <1>1 DEF PipeTypeOK, Producing, Consuming
    <2> QED
      BY <2>2, <2>3, <2>4, <2>5
  <1>2. CASE PrimeSucceeds
    <2>1. /\ filled' \in Nat \ {0} /\ supplied' \in 0 .. total
          /\ supplied' = supplied + filled'
      <3>1. /\ total - supplied \in Nat \ {0} /\ PrimeBytes \in Nat \ {0}
            /\ supplied \in Nat /\ total \in Nat
        BY <1>2 DEF PrimeSucceeds, PipeTypeOK, Producing
      <3>2. /\ filled' = Least(total - supplied, PrimeBytes)
            /\ supplied' = supplied + filled'
        BY <1>2 DEF PrimeSucceeds, Fill
      <3> QED
        BY <3>1, <3>2 DEF Least
    <2>2. PipeTypeOK'
      BY <1>2, <2>1 DEF PrimeSucceeds, Fill, PipeTypeOK
    <2>3. Queue'
      BY <1>2, <2>1 DEF PrimeSucceeds, Fill, PipeTypeOK, Queue, Producing
    <2>4. Producing'
      BY <1>2, <2>1 DEF PrimeSucceeds, Fill, PipeTypeOK, Producing
    <2>5. Consuming'
      BY <1>2, <2>1 DEF PrimeSucceeds, Fill, PipeTypeOK, Consuming
    <2> QED
      BY <2>2, <2>3, <2>4, <2>5
  <1>3. CASE PrimeFails
    BY <1>3 DEF PrimeFails, PipeTypeOK, Queue, Producing, Consuming
  <1>4. CASE Publish
    <2>1. PipeTypeOK'
      BY <1>4 DEF Publish, PipeTypeOK, Queue, Producing, Consuming
    <2>2. Queue'
      BY <1>4 DEF Publish, PipeTypeOK, Queue, Producing, Consuming
    <2>3. Producing'
      BY <1>4 DEF Publish, PipeTypeOK, Queue, Producing, Consuming
    <2>4. Consuming'
      BY <1>4 DEF Publish, PipeTypeOK, Queue, Producing, Consuming
    <2> QED
      BY <2>1, <2>2, <2>3, <2>4
  <1>5. CASE Finish
    BY <1>5 DEF Finish, PipeTypeOK, Queue, Producing, Consuming
  <1>6. CASE StartWorker
    BY <1>6 DEF StartWorker, PipeTypeOK, Queue, Producing, Consuming
  <1>7. CASE FindWritable
    BY <1>7 DEF FindWritable, PipeTypeOK, Queue, Producing, Consuming
  <1>8. CASE FillSucceeds
    <2>1. /\ filled' \in Nat \ {0} /\ supplied' \in 0 .. total
          /\ supplied' = supplied + filled'
      <3>1. /\ total - supplied \in Nat \ {0} /\ SlotBytes \in Nat \ {0}
            /\ supplied \in Nat /\ total \in Nat
        BY <1>8 DEF FillSucceeds, PipeTypeOK, Producing
      <3>2. /\ filled' = Least(total - supplied, SlotBytes)
            /\ supplied' = supplied + filled'
        BY <1>8 DEF FillSucceeds, Fill
      <3> QED
        BY <3>1, <3>2 DEF Least
    <2>2. PipeTypeOK'
      BY <1>8, <2>1 DEF FillSucceeds, Fill, PipeTypeOK
    <2>3. Queue'
      BY <1>8, <2>1 DEF FillSucceeds, Fill, PipeTypeOK, Queue, Producing
    <2>4. Producing'
      BY <1>8, <2>1 DEF FillSucceeds, Fill, PipeTypeOK, Producing
    <2>5. Consuming'
      BY <1>8, <2>1 DEF FillSucceeds, Fill, PipeTypeOK, Consuming
    <2> QED
      BY <2>2, <2>3, <2>4, <2>5
  <1>9. CASE FillFails
    <2>1. PipeTypeOK'
      BY <1>9 DEF FillFails, PipeTypeOK
    <2>2. Queue'
      BY <1>9 DEF FillFails, PipeTypeOK, Queue
    <2>3. Producing' /\ Consuming'
      BY <1>9 DEF FillFails, PipeTypeOK, Producing, Consuming
    <2> QED
      BY <2>1, <2>2, <2>3
  <1>10. CASE WorkerFinished
    BY <1>10 DEF WorkerFinished, PipeTypeOK, Queue, Producing, Consuming
  <1>11. CASE ReadTail
    BY <1>11 DEF ReadTail, PipeTypeOK, Queue, Producing, Consuming
  <1> QED
    BY <1>1, <1>2, <1>3, <1>4, <1>5, <1>6, <1>7, <1>8, <1>9, <1>10, <1>11
       DEF FeederStep

\* Every step of the decoder callback preserves the invariant.
LEMMA DecoderPipeInv == PipeInv /\ DecoderStep => PipeInv'
  <1> SUFFICES ASSUME PipeTypeOK, Queue, Producing, Consuming, DecoderStep
               PROVE  PipeTypeOK' /\ Queue' /\ Producing' /\ Consuming'
    BY DEF PipeInv
  <1> USE PipeAssumption DEF Slots, Other, pipeVars, feederVars, decoderVars
  <1>1. CASE BeginRead
    BY <1>1 DEF BeginRead, PipeTypeOK, Queue, Producing, Consuming
  <1>2. CASE DecoderReturns
    BY <1>2 DEF DecoderReturns, PipeTypeOK, Queue, Producing, Consuming
  <1>3. CASE LoadReady
    BY <1>3 DEF LoadReady, PipeTypeOK, Queue, Producing, Consuming
  <1>4. CASE LoadFinished
    BY <1>4 DEF LoadFinished, PipeTypeOK, Queue, Producing, Consuming
  <1>5. CASE RecheckReady
    BY <1>5 DEF RecheckReady, PipeTypeOK, Queue, Producing, Consuming
  <1>6. CASE Copy
    <2> DEFINE part == Least(want, count[consumer] - used)
    <2>1. /\ part \in Nat \ {0} /\ part <= want
          /\ used + part <= count[consumer]
      <3>1. /\ want \in Nat \ {0} /\ count[consumer] - used \in Nat \ {0}
            /\ used \in Nat /\ count[consumer] \in Nat
        BY <1>6 DEF Copy, PipeTypeOK, Queue, Consuming
      <3> QED
        BY <3>1 DEF Least
    <2>2. /\ used' = used + part /\ consumed' = consumed + part
          /\ want' = want - part
          /\ chunk' = <<first[consumer] + used, first[consumer] + used + part>>
          /\ pd' = IF used' = count[consumer] THEN "release" ELSE ReadOn(want')
          /\ pd = "copy" /\ eof' = eof
      BY <1>6 DEF Copy
    <2>3. UNCHANGED <<ready, first, count, finished, producer, consumer, feederVars,
                     decoded>>
      BY <1>6 DEF Copy
    <2> HIDE DEF part
    <2>4. PipeTypeOK'
      <3>1. /\ used' \in Nat /\ consumed' \in Nat /\ want' \in 0 .. MaxRead
        BY <2>1, <2>2 DEF PipeTypeOK
      <3>2. first[consumer] + used \in Nat /\ first[consumer] + used + part \in Nat
        BY <2>1 DEF PipeTypeOK
      <3>3. chunk' \in Nat \X Nat
        BY <2>2, <3>2
      <3> QED
        BY <2>2, <2>3, <3>1, <3>3 DEF PipeTypeOK, ReadOn
    <2>5. Queue'
      BY <2>1, <2>2, <2>3 DEF PipeTypeOK, Queue, Consuming, ReadOn
    <2>6. Producing'
      BY <2>1, <2>2, <2>3 DEF PipeTypeOK, Producing, Consuming, ReadOn
    <2>7. Consuming'
      BY <2>1, <2>2, <2>3 DEF PipeTypeOK, Queue, Consuming, ReadOn
    <2> QED
      BY <2>4, <2>5, <2>6, <2>7
  <1>7. CASE ReleaseSlot
    <2>1. PipeTypeOK'
      BY <1>7 DEF ReleaseSlot, ReadOn, PipeTypeOK, Queue, Producing, Consuming
    <2>2. Queue'
      BY <1>7 DEF ReleaseSlot, ReadOn, PipeTypeOK, Queue, Producing, Consuming
    <2>3. Producing'
      BY <1>7 DEF ReleaseSlot, ReadOn, PipeTypeOK, Queue, Producing, Consuming
    <2>4. Consuming'
      BY <1>7 DEF ReleaseSlot, ReadOn, PipeTypeOK, Queue, Producing, Consuming
    <2> QED
      BY <2>1, <2>2, <2>3, <2>4
  <1> QED
    BY <1>1, <1>2, <1>3, <1>4, <1>5, <1>6, <1>7
       DEF DecoderStep

\* The invariant holds in every state of every behaviour: the two slots hold
\* exactly the published, unread bytes in order, and each core's program
\* point agrees with the flags (Publish, Finish and Read of JpegInputPipe).
THEOREM PipeInvHolds == PipeSpec => []PipeInv
  <1>1. PipeInv /\ [PipeNext]_allPipeVars => PipeInv'
    <2>1. PipeInv /\ UNCHANGED allPipeVars => PipeInv'
      BY DEF allPipeVars, pipeVars, feederVars, decoderVars, PipeInv, PipeTypeOK, Queue,
             Producing, Consuming
    <2> QED
      BY <2>1, FeederPipeInv, DecoderPipeInv DEF PipeNext
  <1> QED
    BY PipeInitInv, <1>1, PTL DEF PipeSpec

\* For every slot size the SD read of Core 0 and the decoder's copy on Core 1
\* use different slots, and a slot being filled is not marked ready.
THEOREM SlotExclusiveHolds == PipeSpec => []SlotExclusive
  <1>1. PipeInv => SlotExclusive
    BY DEF PipeInv, Producing, Consuming, SlotExclusive
  <1> QED
    BY <1>1, PipeInvHolds, PTL

\* Every step of Core 0 writes, closes or reopens the abstract stream, or
\* leaves it alone.
LEMMA FeederImplements ==
    PipeInv /\ FeederStep => Stream!Open \/ Stream!Write \/ Stream!Close
                              \/ UNCHANGED Stream!vars
  <1> SUFFICES ASSUME PipeInv, FeederStep
               PROVE  Stream!Open \/ Stream!Write \/ Stream!Close
                          \/ UNCHANGED Stream!vars
    OBVIOUS
  <1> USE DEF PipeInv, Stream!vars, decoderVars, pipeVars
  <1>1. CASE BeginRecord
    <2>1. Stream!Open
      BY <1>1 DEF BeginRecord, Reset, Stream!Open
    <2> QED
      BY <2>1
  <1>2. CASE Publish
    <2>1. Stream!Write
      BY <1>2 DEF Publish, PipeTypeOK, Producing, Stream!Write
    <2> QED
      BY <2>1
  <1>3. CASE Finish
    <2>1. Stream!Close
      BY <1>3 DEF Finish, Producing, PipeTypeOK, feederVars, Stream!Close
    <2> QED
      BY <2>1
  <1>4. CASE PrimeSucceeds \/ FillSucceeds
    BY <1>4 DEF PrimeSucceeds, FillSucceeds, Fill
  <1>5. CASE PrimeFails \/ StartWorker \/ FindWritable \/ FillFails
                \/ WorkerFinished \/ ReadTail
    BY <1>5 DEF PrimeFails, StartWorker, FindWritable, FillFails,
                WorkerFinished, ReadTail
  <1> QED
    BY <1>1, <1>2, <1>3, <1>4, <1>5 DEF FeederStep

\* Every step of the decoder callback delivers the next bytes, reports the
\* end of a drained and closed stream, or leaves the stream alone.
LEMMA DecoderImplements ==
    PipeInv /\ PipeInv' /\ DecoderStep => Stream!Deliver \/ Stream!EndOfInput
                              \/ UNCHANGED Stream!vars
  <1> SUFFICES ASSUME PipeInv, PipeInv', DecoderStep
               PROVE  Stream!Deliver \/ Stream!EndOfInput
                          \/ UNCHANGED Stream!vars
    OBVIOUS
  <1> USE DEF Stream!vars, feederVars, pipeVars
  <1>1. CASE Copy
    <2> DEFINE part == Least(want, count[consumer] - used)
    <2>1. /\ part \in Nat \ {0} /\ used + part <= count[consumer]
          /\ first[consumer] + used = consumed
          /\ first[consumer] + count[consumer] <= published
      <3>1. ready[consumer] /\ consumer \in Slots /\ Other(consumer) \in Slots
        BY <1>1 DEF Copy, PipeInv, PipeTypeOK, Consuming, Slots, Other
      <3>2. /\ want \in Nat \ {0} /\ count[consumer] - used \in Nat \ {0}
            /\ used \in Nat /\ count[consumer] \in Nat
        BY <1>1, <3>1 DEF Copy, PipeInv, PipeTypeOK, Queue, Consuming
      <3>3. first[consumer] + count[consumer] <= published
        BY <3>1 DEF PipeInv, PipeTypeOK, Queue
      <3> QED
        BY <3>1, <3>2, <3>3 DEF PipeInv, Queue, Least
    <2>2. /\ consumed' = consumed + part
          /\ chunk' = <<first[consumer] + used, first[consumer] + used + part>>
      BY <1>1 DEF Copy
    <2>3. ~eof /\ UNCHANGED <<published, finished, eof>>
      BY <1>1 DEF Copy, PipeInv, Consuming
    <2> HIDE DEF part
    <2>4. /\ consumed \in Nat /\ published \in Nat /\ used \in Nat
          /\ first[consumer] \in Nat /\ count[consumer] \in Nat
      BY DEF PipeInv, PipeTypeOK
    <2>5. /\ consumed' \in Nat /\ consumed < consumed'
          /\ consumed' <= published
      BY <2>1, <2>2, <2>4
    <2>6. chunk' = <<consumed, consumed'>>
      BY <2>1, <2>2
    <2>7. Stream!Deliver
      BY <2>3, <2>5, <2>6 DEF Stream!Deliver
    <2> QED
      BY <2>7
  <1>2. CASE RecheckReady
    <2>1. CASE ready[consumer]
      <3>1. eof = FALSE /\ eof' = FALSE
        BY <1>2, <2>1 DEF RecheckReady, PipeInv, PipeTypeOK, Consuming
      <3> QED
        BY <1>2, <3>1 DEF RecheckReady
    <2>2. CASE ~ready[consumer]
      <3>1. Stream!EndOfInput
        BY <1>2, <2>2 DEF RecheckReady, PipeInv, Queue, Consuming,
                          Stream!EndOfInput
      <3> QED
        BY <3>1
    <2> QED
      BY <2>1, <2>2
  <1>3. CASE BeginRead \/ DecoderReturns \/ LoadReady \/ LoadFinished
                \/ ReleaseSlot
    BY <1>3 DEF BeginRead, DecoderReturns, LoadReady, LoadFinished,
                ReleaseSlot
  <1> QED
    BY <1>1, <1>2, <1>3 DEF DecoderStep

\* The pipe implements the abstract byte stream for every slot size, record
\* length and request size: no byte is lost, repeated, reordered or read
\* early, and end of input is reported only after the final publication.
THEOREM PipeImplementsStream == PipeSpec => ImplementsStream
  <1>1. PipeInit => Stream!Init
    BY DEF PipeInit, Stream!Init
  <1>2. PipeInv /\ PipeInv' /\ [PipeNext]_allPipeVars => [Stream!Next]_Stream!vars
    <2>1. UNCHANGED allPipeVars => UNCHANGED Stream!vars
      BY DEF allPipeVars, pipeVars, feederVars, decoderVars, Stream!vars
    <2> QED
      BY <2>1, FeederImplements, DecoderImplements DEF PipeNext, Stream!Next
  <1> QED
    BY <1>1, <1>2, PipeInvHolds, PTL DEF PipeSpec, ImplementsStream, Stream!Spec
=============================================================================
