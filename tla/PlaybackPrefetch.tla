-------------------------- MODULE PlaybackPrefetch --------------------------
(***************************************************************************)
(* The two-block read cache of the open playback file.  Core 0 alone uses  *)
(* it; a miss reads the card at once, and a decoder's spare time is used   *)
(* to load the block the playback direction leads to.  A block is known by *)
(* its offset only, so it must never outlive the file it was read from.    *)
(***************************************************************************)
EXTENDS Integers, Sequences

CONSTANTS Files, NoFile,
          Size(_),     \* length of a file in bytes
          BlockCount,  \* PLAYBACK_PREFETCH_BLOCK_COUNT
          BlockBytes,  \* bytes of a block
          MaxRequest   \* BOUND: bytes of one request

ASSUME PrefetchAssumption ==
    /\ NoFile \notin Files
    /\ \A f \in Files : Size(f) \in Nat
    /\ BlockCount \in Nat /\ BlockCount > 1
    /\ BlockBytes \in Nat \ {0} /\ MaxRequest \in Nat \ {0}

VARIABLES
    open,       \* the active playback file
    position,   \* position_: the logical cursor
    backwards,  \* backwards_
    block,      \* blocks_
    rank,       \* the place of each block's stamp, the oldest being 1
    left,       \* bytes the current Read still has to deliver
    piece       \* bytes its last memcpy delivered

vars == <<open, position, backwards, block, rank, left, piece>>

Blocks == 1 .. BlockCount
Byte(f, p) == <<f, p>>
Empty == [valid |-> FALSE, offset |-> 0, bytes |-> <<>>]
None == 0
Unused == [b \in Blocks |-> b]

Init ==
    /\ open = NoFile /\ position = 0 /\ backwards = FALSE
    /\ block = [b \in Blocks |-> Empty] /\ rank = Unused
    /\ left = 0 /\ piece = <<>>

Least(i, j) == IF i < j THEN i ELSE j
Aligned(p) == (p \div BlockBytes) * BlockBytes

Contains(b, p) ==
    /\ block[b].valid
    /\ block[b].offset <= p /\ p < block[b].offset + Len(block[b].bytes)

Find(p) ==
    IF \E b \in Blocks : Contains(b, p)
    THEN CHOOSE b \in Blocks : Contains(b, p) /\ \A c \in Blocks : Contains(c, p) => b <= c
    ELSE None

\* Where playback goes on from: the byte before the cursor when it runs back.
Cursor == IF backwards /\ position > 0 THEN position - 1 ELSE position

\* MUTANT: the blocks of the last file stay valid.
Reset_Cursor ==
    /\ position' = 0 /\ backwards' = FALSE
    /\ UNCHANGED <<block, rank>>

Reset ==
    /\ position' = 0 /\ backwards' = FALSE
    /\ block' = [b \in Blocks |-> [block[b] EXCEPT !.valid = FALSE]]
    /\ rank' = Unused

\* stamp = ++stamp_.
Touched(b) == [c \in Blocks |-> IF c = b THEN BlockCount
                               ELSE IF rank[c] > rank[b] THEN rank[c] - 1
                               ELSE rank[c]]

\* The block to load into: the first invalid one, or else the oldest, but not
\* the protected one.
Target(protected) ==
    LET usable == Blocks \ {protected}
        invalid == {b \in usable : ~block[b].valid}
    IN  IF invalid # {}
        THEN CHOOSE b \in invalid : \A c \in invalid : b <= c
        ELSE CHOOSE b \in usable : \A c \in usable : rank[b] <= rank[c]

FromCard(offset) ==
    [i \in 1 .. Least(BlockBytes, Size(open) - offset) |-> Byte(open, offset + i - 1)]

\* Block b's bytes when k of them have been read over.
Overwritten(b, offset, k) ==
    [i \in 1 .. Len(block[b].bytes) |->
        IF i <= k THEN Byte(open, offset + i - 1) ELSE block[b].bytes[i]]

\* MUTANT: a failed read leaves the block valid.
LoadFails_StaysValid(b, offset) ==
    \E k \in 0 .. Len(block[b].bytes) :
        block' = [block EXCEPT ![b].bytes = Overwritten(b, offset, k)]

\* The read fails after any number of bytes have reached the block.
LoadFails(b, offset) ==
    \E k \in 0 .. Len(block[b].bytes) :
        block' = [block EXCEPT ![b] =
            [@ EXCEPT !.valid = FALSE, !.bytes = Overwritten(b, offset, k)]]

Loaded(b, offset) ==
    [block EXCEPT ![b] = [valid |-> TRUE, offset |-> offset, bytes |-> FromCard(offset)]]

(***************************************************************************)
(* The foreground's operations.                                            *)
(***************************************************************************)
\* OpenLastMedia and OpenLibraryVideo close what was open before.
Open(f) ==
    /\ open' = f /\ Reset /\ left' = 0 /\ piece' = <<>>

CloseSavedMediaPlayback ==
    /\ open # NoFile /\ open' = NoFile
    /\ Reset /\ left' = 0 /\ piece' = <<>>

Seek(p) ==
    /\ open # NoFile /\ left = 0
    /\ position' = p
    /\ UNCHANGED <<open, backwards, block, rank, left, piece>>

SetBackwards(value) ==
    /\ open # NoFile /\ left = 0
    /\ backwards' = value
    /\ UNCHANGED <<open, position, block, rank, left, piece>>

StartRead(requested) ==
    /\ open # NoFile /\ left = 0
    /\ left' = requested
    /\ UNCHANGED <<open, position, backwards, block, rank, piece>>

\* memcpy of the part of block b that is wanted; "held" is the cache with it.
Copy(b, held) ==
    LET at == position - held[b].offset
        part == Least(left, Len(held[b].bytes) - at)
    IN  /\ piece' = SubSeq(held[b].bytes, at + 1, at + part)
        /\ position' = position + part
        /\ left' = left - part
        /\ rank' = Touched(b)
        /\ UNCHANGED <<open, backwards>>

Wanted == left > 0 /\ position < Size(open)

ReadHit ==
    /\ Wanted /\ Find(position) # None
    /\ Copy(Find(position), block)
    /\ UNCHANGED block

ReadMiss ==
    /\ Wanted /\ Find(position) = None
    /\ LET b == Target(None)
           held == Loaded(b, Aligned(position))
       IN  block' = held /\ Copy(b, held)

ReadFails ==
    /\ Wanted /\ Find(position) = None
    /\ LoadFails(Target(None), Aligned(position))
    /\ left' = 0
    /\ UNCHANGED <<open, position, backwards, rank, piece>>

ReadPastEnd ==
    /\ left > 0 /\ position >= Size(open)
    /\ left' = 0
    /\ UNCHANGED <<open, position, backwards, block, rank, piece>>

\* MUTANT: running back, the block behind the cursor is protected.
Protected_Behind == Find(position)

Protected == Find(Cursor)

NextBlock ==
    IF backwards THEN Aligned(Cursor) - BlockBytes ELSE Aligned(Cursor) + BlockBytes

\* Ahead loads the next block unless there is none or it is there already.
Ahead ==
    /\ open # NoFile /\ left = 0
    /\ Cursor < Size(open) /\ NextBlock \in 0 .. Size(open) - 1
    /\ Find(NextBlock) = None
    /\ LET b == Target(Protected)
       IN  \/ block' = Loaded(b, NextBlock) /\ rank' = Touched(b)
           \/ LoadFails(b, NextBlock) /\ UNCHANGED rank
    /\ UNCHANGED <<open, position, backwards, left, piece>>

Next ==
    \/ \E f \in Files : Open(f)
    \/ CloseSavedMediaPlayback
    \/ open # NoFile /\ \E p \in 0 .. Size(open) : Seek(p)
    \/ \E value \in BOOLEAN : SetBackwards(value)
    \/ \E n \in 1 .. MaxRequest : StartRead(n)
    \/ ReadHit \/ ReadMiss \/ ReadFails \/ ReadPastEnd
    \/ Ahead

Spec == Init /\ [][Next]_vars

-----------------------------------------------------------------------------
Bytes == Seq(Files \X Nat)
Cached == [valid : BOOLEAN, offset : Nat, bytes : Bytes]
\* Orders of use: no two blocks are equally old, so that the oldest is one.
Orders == {r \in [Blocks -> Blocks] : \A b, c \in Blocks : r[b] = r[c] => b = c}

TypeOK ==
    /\ open \in Files \cup {NoFile}
    /\ position \in Nat /\ backwards \in BOOLEAN /\ left \in 0 .. MaxRequest
    /\ block \in [Blocks -> Cached]
    /\ rank \in Orders

\* A valid block holds the open file's bytes at its offset, up to the end of
\* the block or of the file; there is none without an open file.
BlocksTrue ==
    \A b \in Blocks : block[b].valid =>
        /\ open # NoFile
        /\ block[b].offset % BlockBytes = 0 /\ block[b].offset < Size(open)
        /\ block[b].bytes = FromCard(block[b].offset)

\* No part of the file is cached twice.
BlocksDiffer ==
    \A b, c \in Blocks :
        block[b].valid /\ block[c].valid /\ block[b].offset = block[c].offset => b = c

\* Only a request for an open file is under way.
RequestOpen == left > 0 => open # NoFile

\* The invariant of the cache: its type, BlocksTrue (PlaybackPrefetch::Load and
\* Reset), BlocksDiffer (Load is only reached when Find found nothing) and
\* RequestOpen (a close ends the request).
Inv == TypeOK /\ BlocksTrue /\ BlocksDiffer /\ RequestOpen

\* The reader cannot tell the cache from the file: hits, misses, failed and
\* speculative reads, seeks and reopened files deliver the bytes FileReader
\* promises (ReadPlaybackFileBytes).
Reader == INSTANCE FileReader
ImplementsReader == Reader!Spec

\* A speculative load never drops the block playback stands in, whether it
\* succeeds or fails (the protected block of PlaybackPrefetch::Load).
AheadKeepsCursor ==
    [][ Ahead /\ Find(Cursor) # None =>
            block'[Find(Cursor)] = block[Find(Cursor)] ]_vars

=============================================================================
