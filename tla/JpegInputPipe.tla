--------------------------- MODULE JpegInputPipe ---------------------------
(***************************************************************************)
(* The two-slot pipe that carries one encoded JPEG record from the SD reads*)
(* of Core 0 (DecodeJpegParallel, sd/memoryStorage.cpp) to the decoder     *)
(* callback on Core 1 (JpegInputPipe::Read), record after record.          *)
(*                                                                         *)
(* Every access to a slot's ready flag and to finished_ is a step of its   *)
(* own.  Bytes are named by their position in the record, so a slot holds  *)
(* the range first .. first + count - 1.  The decoder asks for any number  *)
(* of bytes and may stop early, with or without success: an end-of-image   *)
(* marker before the record's tail, a damaged stream, a rejecting sink.    *)
(***************************************************************************)
EXTENDS Naturals

CONSTANTS SlotBytes,   \* capacity of one slot
          PrimeBytes,  \* JPEG_PIPELINE_PRIME_BYTES, the short first read
          MaxRecord,   \* BOUND: longest encoded record
          MaxRead      \* BOUND: most bytes one decoder request asks for

ASSUME PipeAssumption ==
    /\ SlotBytes \in Nat \ {0} /\ PrimeBytes \in 1 .. SlotBytes
    /\ MaxRecord \in Nat \ {0} /\ MaxRead \in Nat \ {0}

VARIABLES
    ready, first, count,       \* the slots' flag, first byte and length
    finished,                  \* finished_
    producer, consumer,        \* producer_ and consumer_
    used, consumed,            \* used_ and consumed_
    pp,                        \* Core 0: program point of DecodeJpegParallel
    total, supplied, filled,   \* record length, bytes read, last block's size
    good,                      \* no read of the record has failed
    published,                 \* bytes published to the pipe (history)
    pd,                        \* Core 1: program point of the callback
    want,                      \* bytes still wanted by the current Read
    decoded,                   \* the callback's result
    chunk, eof                 \* range last copied; a short Read (history)

pipeVars == <<ready, first, count, finished, producer, consumer, used, consumed>>
feederVars == <<pp, total, supplied, filled, good, published>>
decoderVars == <<pd, want, decoded, chunk, eof>>
allPipeVars == <<pipeVars, feederVars, decoderVars>>

Slots == {0, 1}
Other(s) == 1 - s                \* the ^= 1 of both indices
Least(a, b) == IF a < b THEN a ELSE b   \* std::min

PipeInit ==
    /\ ready = [s \in Slots |-> FALSE]
    /\ first = [s \in Slots |-> 0] /\ count = [s \in Slots |-> 0]
    /\ finished = FALSE /\ producer = 0 /\ consumer = 0
    /\ used = 0 /\ consumed = 0
    /\ pp = "idle" /\ total = 1 /\ supplied = 0 /\ filled = 0
    /\ good = TRUE /\ published = 0
    /\ pd = "off" /\ want = 0 /\ decoded = FALSE
    /\ chunk = <<0, 0>> /\ eof = FALSE

-----------------------------------------------------------------------------
(* Core 0.                                                                 *)

\* MUTANT: Reset forgets the flags of the previous record.
Reset_KeepsReady ==
    /\ UNCHANGED ready
    /\ producer' = 0 /\ consumer' = 0 /\ used' = 0 /\ consumed' = 0
    /\ finished' = FALSE

\* Reset: the previous worker has completed, so nobody else uses the pipe.
Reset ==
    /\ ready' = [s \in Slots |-> FALSE]
    /\ producer' = 0 /\ consumer' = 0 /\ used' = 0 /\ consumed' = 0
    /\ finished' = FALSE

\* A record of some length is to be decoded and Core 1 was reserved.
BeginRecord ==
    /\ pp = "idle"
    /\ Reset
    /\ total' \in 1 .. MaxRecord
    /\ supplied' = 0 /\ published' = 0 /\ good' = TRUE
    /\ chunk' = <<0, 0>> /\ eof' = FALSE /\ decoded' = FALSE
    /\ pp' = "prime"
    /\ UNCHANGED <<first, count, filled, pd, want>>

\* The lambda fill: one bounded SD read into the producer's slot.
Fill(limit, next) ==
    /\ filled' = Least(total - supplied, limit)
    /\ first' = [first EXCEPT ![producer] = supplied]
    /\ supplied' = supplied + filled'
    /\ pp' = next
    /\ UNCHANGED <<ready, count, finished, producer, consumer, used, consumed,
                   total, good, published, decoderVars>>

PrimeSucceeds == pp = "prime" /\ Fill(PrimeBytes, "publish")

\* The reservation is cancelled and the record rejected.
PrimeFails ==
    /\ pp = "prime"
    /\ pp' = "idle"
    /\ UNCHANGED <<pipeVars, total, supplied, filled, good, published, decoderVars>>

\* Publish: count_ first, then the flag with release ordering; the callers
\* call Finish after the publication that empties the record.
Publish ==
    /\ pp = "publish"
    /\ count' = [count EXCEPT ![producer] = filled]
    /\ ready' = [ready EXCEPT ![producer] = TRUE]
    /\ producer' = Other(producer)
    /\ published' = published + filled
    /\ pp' = CASE supplied = total -> "finish"
               [] supplied < total /\ pd = "off" -> "start"
               [] OTHER -> "loop"
    /\ UNCHANGED <<first, finished, consumer, used, consumed, total, supplied,
                   filled, good, decoderVars>>

Finish ==
    /\ pp = "finish"
    /\ finished' = TRUE
    /\ pp' = IF pd = "off" THEN "start" ELSE "loop"
    /\ UNCHANGED <<ready, first, count, producer, consumer, used, consumed,
                   total, supplied, filled, good, published, decoderVars>>

\* StartJpegDecodeWorker: Core 1 will run the callback.
StartWorker ==
    /\ pp = "start"
    /\ pp' = "loop" /\ pd' = "decode"
    /\ UNCHANGED <<pipeVars, total, supplied, filled, good, published,
                   want, decoded, chunk, eof>>

\* MUTANT: the block is read without asking for a free slot first.
FindWritable_Unchecked ==
    /\ pp = "loop" /\ pd # "done"
    /\ supplied < total /\ good
    /\ pp' = "fill"
    /\ UNCHANGED <<pipeVars, total, supplied, filled, good, published, decoderVars>>

\* The loop of DecodeJpegParallel: the worker is not finished, input remains
\* and Writable found the producer's slot free.
FindWritable ==
    /\ pp = "loop" /\ pd # "done"
    /\ supplied < total /\ good
    /\ ~ready[producer]
    /\ pp' = "fill"
    /\ UNCHANGED <<pipeVars, total, supplied, filled, good, published, decoderVars>>

FillSucceeds == pp = "fill" /\ Fill(SlotBytes, "publish")

\* MUTANT: a failed read leaves the consumer waiting for more.
FillFails_NoFinish ==
    /\ pp = "fill"
    /\ good' = FALSE /\ pp' = "loop"
    /\ UNCHANGED <<pipeVars, total, supplied, filled, published, decoderVars>>

\* A failed read signals the end of input and lets the worker finish.
FillFails ==
    /\ pp = "fill"
    /\ good' = FALSE /\ pp' = "finish"
    /\ UNCHANGED <<pipeVars, total, supplied, filled, published, decoderVars>>

\* JpegDecodeWorkerFinished: the worker's last access happened before.  A
\* decoded record still has its unread tail checksummed.
WorkerFinished ==
    /\ pp = "loop" /\ pd = "done"
    /\ pd' = "off"
    /\ pp' = IF good /\ decoded THEN "tail" ELSE "idle"
    /\ UNCHANGED <<pipeVars, total, supplied, filled, good, published,
                   want, decoded, chunk, eof>>

\* The tail goes through readBuffer, not through the pipe.
ReadTail ==
    /\ pp = "tail"
    /\ \/ supplied < total
          /\ \E n \in 1 .. total - supplied : supplied' = supplied + n
          /\ UNCHANGED pp
       \/ pp' = "idle" /\ UNCHANGED supplied   \* drained, or the read failed
    /\ UNCHANGED <<pipeVars, total, filled, good, published, decoderVars>>

FeederStep ==
    \/ BeginRecord \/ PrimeSucceeds \/ PrimeFails \/ Publish \/ Finish
    \/ StartWorker \/ FindWritable \/ FillSucceeds \/ FillFails
    \/ WorkerFinished \/ ReadTail

-----------------------------------------------------------------------------
(* Core 1: the decoder callback and the pipe's Read.                       *)

\* The decoder asks for more input.  After a short Read it decodes what it
\* has: asking again would return 0 from the same drained pipe.
BeginRead ==
    /\ pd = "decode" /\ ~eof
    /\ want' \in 1 .. MaxRead
    /\ pd' = "load"
    /\ UNCHANGED <<pipeVars, feederVars, decoded, chunk, eof>>

\* The decoder stops: end of image, a damaged stream or a refusing sink.
DecoderReturns ==
    /\ pd = "decode"
    /\ decoded' \in BOOLEAN
    /\ pd' = "done"
    /\ UNCHANGED <<pipeVars, feederVars, want, chunk, eof>>

LoadReady ==
    /\ pd = "load"
    /\ pd' = IF ready[consumer] THEN "copy" ELSE "finished"
    /\ UNCHANGED <<pipeVars, feederVars, want, decoded, chunk, eof>>

\* MUTANT: end of input is believed without looking at the slot again.
LoadFinished_NoRecheck ==
    /\ pd = "finished"
    /\ pd' = IF finished THEN "decode" ELSE "load"
    /\ eof' = finished
    /\ UNCHANGED <<pipeVars, feederVars, want, decoded, chunk>>

\* Not finished: yield and look again.
LoadFinished ==
    /\ pd = "finished"
    /\ pd' = IF finished THEN "recheck" ELSE "load"
    /\ UNCHANGED <<pipeVars, feederVars, want, decoded, chunk, eof>>

\* Observe a final publish that happened just before Finish.
RecheckReady ==
    /\ pd = "recheck"
    /\ pd' = IF ready[consumer] THEN "copy" ELSE "decode"
    /\ eof' = ~ready[consumer]
    /\ UNCHANGED <<pipeVars, feederVars, want, decoded, chunk>>

\* Where Read goes after a copy of n bytes that did not empty the slot.
ReadOn(left) == IF left = 0 THEN "decode" ELSE "load"

Copy ==
    /\ pd = "copy"
    /\ LET part == Least(want, count[consumer] - used)
           from == first[consumer] + used
       IN  /\ chunk' = <<from, from + part>>
           /\ used' = used + part /\ consumed' = consumed + part
           /\ want' = want - part
           /\ pd' = IF used' = count[consumer] THEN "release" ELSE ReadOn(want')
    /\ UNCHANGED <<ready, first, count, finished, producer, consumer, feederVars,
                   decoded, eof>>

\* The slot's last byte was copied: hand it back and turn to the other one.
ReleaseSlot ==
    /\ pd = "release"
    /\ used' = 0
    /\ ready' = [ready EXCEPT ![consumer] = FALSE]
    /\ consumer' = Other(consumer)
    /\ pd' = ReadOn(want)
    /\ UNCHANGED <<first, count, finished, producer, consumed, feederVars,
                   want, decoded, chunk, eof>>

DecoderStep ==
    \/ BeginRead \/ DecoderReturns \/ LoadReady \/ LoadFinished
    \/ RecheckReady \/ Copy \/ ReleaseSlot

PipeNext == FeederStep \/ DecoderStep

\* Core 0 need not start another record, but finishes the one it started.
PipeFairness ==
    /\ WF_allPipeVars(FeederStep /\ pp # "idle")
    /\ WF_allPipeVars(DecoderStep)

PipeSpec == PipeInit /\ [][PipeNext]_allPipeVars
PipeFairSpec == PipeSpec /\ PipeFairness

-----------------------------------------------------------------------------
(* Properties.                                                             *)

\* What the decoder sees is the abstract byte stream of the record.
Stream == INSTANCE ByteStream WITH
              written <- published, closed <- finished, read <- consumed

\* The pipe implements it: no byte is lost, repeated, reordered or read
\* before its block was complete, and end of input is reported only when the
\* final publication (even one just before Finish) has been consumed.
ImplementsStream == Stream!Spec

\* The slot being filled by the SD read is never the slot the decoder is
\* copying from, and a slot still being filled is never marked ready.
SlotExclusive ==
    pp \in {"fill", "publish"} =>
        /\ ~ready[producer]
        /\ pd \in {"copy", "release"} => consumer # producer

\* Every record started comes to an end, whichever read fails and wherever
\* the decoder stops: Core 0 is never left feeding a worker that waits.
RecordEnds == (pp # "idle") ~> (pp = "idle")

-----------------------------------------------------------------------------
(* The inductive invariant.                                                *)

PipeTypeOK ==
    /\ ready \in [Slots -> BOOLEAN]
    /\ first \in [Slots -> Nat] /\ count \in [Slots -> Nat]
    /\ finished \in BOOLEAN
    /\ producer \in Slots /\ consumer \in Slots
    /\ used \in Nat /\ consumed \in Nat
    /\ pp \in {"idle", "prime", "publish", "finish", "start", "loop", "fill",
               "tail"}
    /\ total \in 1 .. MaxRecord /\ supplied \in 0 .. total
    /\ filled \in Nat /\ good \in BOOLEAN /\ published \in Nat
    /\ pd \in {"off", "decode", "load", "finished", "recheck", "copy",
               "release", "done"}
    /\ want \in 0 .. MaxRead /\ decoded \in BOOLEAN
    /\ chunk \in Nat \X Nat /\ eof \in BOOLEAN

\* The published, unread bytes are the ready slots, in order from consumer.
Queue ==
    /\ ready[consumer] =>
           /\ first[consumer] + used = consumed
           /\ used < count[consumer] \/ (pd = "release" /\ used = count[consumer])
           /\ ready[Other(consumer)] =>
                 /\ producer = consumer
                 /\ first[consumer] + count[consumer] = first[Other(consumer)]
                 /\ first[Other(consumer)] + count[Other(consumer)] = published
                 /\ count[Other(consumer)] > 0
           /\ ~ready[Other(consumer)] =>
                 /\ producer = Other(consumer)
                 /\ first[consumer] + count[consumer] = published
    /\ ~ready[consumer] =>
           /\ ~ready[Other(consumer)] /\ producer = consumer
           /\ used = 0 /\ consumed = published

\* Where Core 0 stands in the record.
Producing ==
    /\ pp = "prime" => published = 0 /\ supplied = 0
    /\ pp \in {"prime", "fill"} =>
           /\ ~ready[producer] /\ supplied = published /\ supplied < total
    /\ pp = "publish" =>
           /\ ~ready[producer] /\ first[producer] = published
           /\ filled > 0 /\ supplied = published + filled
    /\ pp \in {"finish", "start", "loop"} => supplied = published
    /\ pp \in {"prime", "fill", "publish", "finish"} => ~finished
    /\ pp \in {"prime", "fill", "publish"} => good
    /\ pp = "finish" => published = total \/ ~good
    /\ pp \in {"start", "loop"} =>
           (finished <=> (published = total \/ ~good))
    /\ pp = "idle" => pd = "off"

\* Where the decoder stands in a Read.
Consuming ==
    /\ pp \in {"idle", "prime", "start", "tail"} => pd = "off"
    /\ pp \in {"loop", "fill"} => pd # "off"
    /\ pd \in {"copy", "release"} => ready[consumer]
    /\ pd = "release" => used = count[consumer]
    /\ pd \in {"load", "finished", "recheck", "copy"} => want > 0
    /\ pd = "recheck" => finished
    /\ eof => finished /\ consumed = published /\ pd \in {"decode", "done", "off"}

PipeInv == PipeTypeOK /\ Queue /\ Producing /\ Consuming
=============================================================================
