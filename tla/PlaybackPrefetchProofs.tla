----------------------- MODULE PlaybackPrefetchProofs -----------------------
(***************************************************************************)
(* The read cache is safe for every set of files, every number and size of *)
(* blocks and every request: Inv is inductive, and from it follow that the *)
(* reader receives the file's own bytes (the refinement of FileReader) and *)
(* that a speculative load never costs the block playback stands in.       *)
(***************************************************************************)
EXTENDS PlaybackPrefetch, TLAPS, FiniteSetTheorems, SequenceTheorems

\* A nonempty set of naturals has a least element: a set among the intervals
\* 1 .. n is minimal under inclusion.
LEMMA SmallestExists ==
    ASSUME NEW S, S \subseteq Nat, S # {}
    PROVE  \E m \in S : \A n \in S : m <= n
  <1> DEFINE Upto(n) == 1 .. n
             T == {Upto(n) : n \in S}
             R == StrictSubsetOrdering(Nat)
  <1>1. T \subseteq FiniteSubsetsOf(Nat)
    <2>1. ASSUME NEW n \in S PROVE Upto(n) \in SUBSET Nat /\ IsFiniteSet(Upto(n))
      BY FS_Interval
    <2> QED
      BY <2>1 DEF FiniteSubsetsOf
  <1>2. PICK x \in T : \A y \in T : ~ (<<y, x>> \in R)
    <2>1. T # {}
      OBVIOUS
    <2> HIDE DEF T, R
    <2> QED
      BY <1>1, <2>1, WFMin, FS_StrictSubsetOrderingWellFounded DEF R
  <1>3. PICK m \in S : x = Upto(m)
    BY <1>2
  <1>4. ASSUME NEW n \in S, n < m PROVE FALSE
    <2>1. Upto(n) \subseteq Upto(m) /\ m \in Upto(m) /\ m \notin Upto(n)
      BY <1>4
    <2>2. <<Upto(n), Upto(m)>> \in R
      BY <2>1 DEF StrictSubsetOrdering
    <2> QED
      BY <1>2, <1>3, <2>2
  <1> QED
    BY <1>4

-----------------------------------------------------------------------------
(***************************************************************************)
(* Offsets.                                                                *)
(***************************************************************************)
\* A multiple of the block size.
LEMMA MultipleAligned ==
    ASSUME NEW n \in Nat \ {0}, NEW k \in Nat
    PROVE  (k * n) % n = 0
  OBVIOUS

\* The offset of the block that holds p.
LEMMA AlignedAround ==
    ASSUME NEW p \in Nat
    PROVE  /\ Aligned(p) \in Nat /\ Aligned(p) % BlockBytes = 0
           /\ Aligned(p) <= p /\ p < Aligned(p) + BlockBytes
  <1>1. Aligned(p) \in Nat
    BY PrefetchAssumption DEF Aligned
  <1>2. Aligned(p) <= p /\ p < Aligned(p) + BlockBytes
    BY PrefetchAssumption DEF Aligned
  <1>3. Aligned(p) % BlockBytes = 0
    BY PrefetchAssumption DEF Aligned
  <1> QED
    BY <1>1, <1>2, <1>3

\* The block playback leads to begins at a multiple of the block size too.
LEMMA NextBlockAligned ==
    ASSUME position \in Nat, NextBlock \in Nat
    PROVE  NextBlock % BlockBytes = 0
  <1>1. Cursor \in Nat
    BY DEF Cursor
  <1>2. PICK k \in Nat : Aligned(Cursor) = k * BlockBytes
    <2>1. Cursor \div BlockBytes \in Nat
      BY <1>1, PrefetchAssumption
    <2> QED
      BY <2>1 DEF Aligned
  <1>3. NextBlock = (k - 1) * BlockBytes \/ NextBlock = (k + 1) * BlockBytes
    BY <1>2, PrefetchAssumption DEF NextBlock
  <1>4. CASE NextBlock = (k + 1) * BlockBytes
    BY <1>4, MultipleAligned, PrefetchAssumption
  <1>5. CASE NextBlock = (k - 1) * BlockBytes
    <2>1. k # 0
      BY <1>5, PrefetchAssumption
    <2> QED
      BY <1>5, <2>1, MultipleAligned, PrefetchAssumption
  <1> QED
    BY <1>3, <1>4, <1>5

-----------------------------------------------------------------------------
(***************************************************************************)
(* Searching the cache.                                                    *)
(***************************************************************************)
\* Find finds a block that holds p whenever there is one.
LEMMA FindFinds ==
    ASSUME NEW p
    PROVE  IF \E b \in Blocks : Contains(b, p)
           THEN Find(p) \in Blocks /\ Contains(Find(p), p)
           ELSE Find(p) = None
  <1>1. CASE \E b \in Blocks : Contains(b, p)
    <2> DEFINE S == {b \in Blocks : Contains(b, p)}
    <2>1. S \subseteq Nat /\ S # {}
      BY <1>1, PrefetchAssumption DEF Blocks
    <2>2. \E b \in Blocks :
             Contains(b, p) /\ \A c \in Blocks : Contains(c, p) => b <= c
      <3>1. \E b \in S : \A c \in S : b <= c
        <4> HIDE DEF S
        <4> QED
          BY <2>1, SmallestExists
      <3> QED
        BY <3>1
    <2> QED
      BY <1>1, <2>2, Zenon DEF Find
  <1> QED
    BY <1>1 DEF Find

\* What Find reports at a glance.
LEMMA FindReports ==
    ASSUME NEW p
    PROVE  /\ Find(p) # None => Find(p) \in Blocks /\ Contains(Find(p), p)
           /\ Find(p) = None => \A b \in Blocks : ~Contains(b, p)
           /\ Find(p) \in Blocks \cup {None}
  <1>1. None \notin Blocks
    BY PrefetchAssumption DEF None, Blocks
  <1> QED
    BY <1>1, FindFinds

\* The block to load into exists and is not the protected one.
LEMMA TargetSpares ==
    ASSUME rank \in Orders, NEW protected \in Blocks \cup {None}
    PROVE  Target(protected) \in Blocks \ {protected}
  <1> DEFINE usable == Blocks \ {protected}
             invalid == {b \in usable : ~block[b].valid}
             ranks == {rank[b] : b \in usable}
  <1>1. usable # {}
    <2>1. 1 \in Blocks /\ 2 \in Blocks
      BY PrefetchAssumption DEF Blocks
    <2> QED
      BY <2>1
  <1>2. CASE invalid # {}
    <2>1. invalid \subseteq Nat
      BY PrefetchAssumption DEF Blocks
    <2>2. \E b \in invalid : \A c \in invalid : b <= c
      <3> HIDE DEF invalid
      <3> QED
        BY <1>2, <2>1, SmallestExists
    <2>3. Target(protected) \in invalid
      BY <1>2, <2>2, Zenon DEF Target
    <2> QED
      BY <2>3
  <1>3. CASE invalid = {}
    <2>1. ranks \subseteq Nat /\ ranks # {}
      <3>1. Blocks \subseteq Nat
        BY PrefetchAssumption DEF Blocks
      <3>2. \A b \in Blocks : rank[b] \in Blocks
        BY DEF Orders
      <3> QED
        BY <1>1, <3>1, <3>2
    <2>2. \E r \in ranks : \A s \in ranks : r <= s
      <3> HIDE DEF ranks
      <3> QED
        BY <2>1, SmallestExists
    <2>3. \E b \in usable : \A c \in usable : rank[b] <= rank[c]
      BY <2>2
    <2>4. Target(protected) \in usable
      BY <1>3, <2>3, Zenon DEF Target
    <2> QED
      BY <2>4
  <1> QED
    BY <1>2, <1>3

\* A use makes its block the newest and keeps the order of the others: still
\* no two blocks are equally old (stamp_).
LEMMA TouchedRanks ==
    ASSUME rank \in Orders, NEW b \in Blocks
    PROVE  Touched(b) \in Orders
  <1>1. /\ rank \in [Blocks -> Blocks]
        /\ \A c, d \in Blocks : rank[c] = rank[d] => c = d
    BY DEF Orders
  <1>2. \A c \in Blocks : rank[c] \in 1 .. BlockCount
    BY <1>1 DEF Blocks
  <1>3. BlockCount \in Blocks /\ BlockCount \in Nat
    BY PrefetchAssumption DEF Blocks
  <1>4. ASSUME NEW c \in Blocks PROVE Touched(b)[c] \in Blocks
    BY <1>2, <1>3, <1>4 DEF Touched, Blocks
  <1>5. ASSUME NEW i \in 1 .. BlockCount, NEW j \in 1 .. BlockCount, i # j
        PROVE  (IF j > i THEN j - 1 ELSE j) < BlockCount
    BY <1>3, <1>5
  <1>6. \A c \in Blocks : IF c = b THEN Touched(b)[c] = BlockCount
                                   ELSE Touched(b)[c] < BlockCount
    <2>1. ASSUME NEW c \in Blocks, c # b PROVE Touched(b)[c] < BlockCount
      <3>1. rank[b] # rank[c] /\ rank[b] \in 1 .. BlockCount
            /\ rank[c] \in 1 .. BlockCount
        BY <1>1, <1>2, <2>1
      <3>2. Touched(b)[c] = IF rank[c] > rank[b] THEN rank[c] - 1 ELSE rank[c]
        BY <2>1 DEF Touched
      <3> QED
        BY <1>5, <3>1, <3>2
    <2> QED
      BY <2>1 DEF Touched
  <1>7. ASSUME NEW c \in Blocks, NEW d \in Blocks, Touched(b)[c] = Touched(b)[d],
               c # d
        PROVE  FALSE
    <2>1. c # b /\ d # b
      BY <1>3, <1>6, <1>7
    <2> DEFINE i == rank[b]
               j == rank[c]
               k == rank[d]
    <2>2. i \in Int /\ j \in Int /\ k \in Int /\ i # j /\ i # k /\ j # k
      BY <1>1, <1>2, <1>7, <2>1
    <2>3. /\ Touched(b)[c] = IF j > i THEN j - 1 ELSE j
          /\ Touched(b)[d] = IF k > i THEN k - 1 ELSE k
      BY <2>1 DEF Touched
    <2>4. (IF j > i THEN j - 1 ELSE j) = (IF k > i THEN k - 1 ELSE k)
      BY <1>7, <2>3
    <2> HIDE DEF i, j, k
    <2> QED
      BY <2>2, <2>4
  <1>8. Touched(b) \in [Blocks -> Blocks]
    BY <1>4 DEF Touched
  <1> QED
    BY <1>7, <1>8 DEF Orders

-----------------------------------------------------------------------------
(***************************************************************************)
(* What a load leaves in the cache.                                        *)
(***************************************************************************)
\* The bytes a successful load puts into a block: at least one.
LEMMA FromCardBytes ==
    ASSUME open \in Files, NEW o \in Nat, o < Size(open)
    PROVE  /\ FromCard(o) \in Bytes
           /\ Len(FromCard(o)) = Least(BlockBytes, Size(open) - o)
           /\ Len(FromCard(o)) \in 1 .. BlockBytes
           /\ o + Len(FromCard(o)) <= Size(open)
           /\ \A i \in 1 .. Len(FromCard(o)) :
                  FromCard(o)[i] = Byte(open, o + i - 1)
  <1> DEFINE n == Least(BlockBytes, Size(open) - o)
  <1>1. n \in Nat /\ n >= 1 /\ n <= BlockBytes /\ o + n <= Size(open)
    BY PrefetchAssumption DEF Least
  <1> HIDE DEF n
  <1>2. FromCard(o) = [i \in 1 .. n |-> Byte(open, o + i - 1)]
    BY DEF FromCard, n
  <1>3. \A i \in 1 .. n : Byte(open, o + i - 1) \in Files \X Nat
    BY <1>1 DEF Byte
  <1>4. FromCard(o) \in Seq(Files \X Nat)
    BY <1>1, <1>2, <1>3
  <1>5. Len(FromCard(o)) = n
    BY <1>1, <1>2
  <1> QED
    BY <1>1, <1>2, <1>4, <1>5 DEF Bytes, n

\* No valid block begins at o.
NotHeld(o) == \A c \in Blocks : block[c].valid => block[c].offset # o

\* When Find finds no block for p, none begins at p's block or at p.
LEMMA MissedNotHeld ==
    ASSUME open \in Files, block \in [Blocks -> Cached], BlocksTrue,
           NEW p \in Nat, p < Size(open), Find(p) = None,
           NEW o \in Nat, o <= p, p < o + BlockBytes
    PROVE  NotHeld(o)
  <1> SUFFICES ASSUME NEW c \in Blocks, block[c].valid, block[c].offset = o
               PROVE  FALSE
    BY DEF NotHeld
  <1>1. block[c].bytes = FromCard(o)
    BY DEF BlocksTrue
  <1>2. o < Size(open) /\ Size(open) \in Nat
    BY PrefetchAssumption
  <1>3. Len(FromCard(o)) = Least(BlockBytes, Size(open) - o)
    BY <1>2, FromCardBytes
  <1>4. Contains(c, p)
    BY <1>1, <1>2, <1>3, PrefetchAssumption DEF Contains, Least
  <1> QED
    BY <1>4, FindReports

\* A load at an offset that no block holds leaves the cache true, and without
\* doubles.
LEMMA LoadKeepsTrue ==
    ASSUME open \in Files, block \in [Blocks -> Cached], BlocksTrue, BlocksDiffer,
           NEW b \in Blocks, NEW o \in Nat, o < Size(open), o % BlockBytes = 0,
           NotHeld(o), open' = open, block' = Loaded(b, o)
    PROVE  block' \in [Blocks -> Cached] /\ BlocksTrue' /\ BlocksDiffer'
  <1> DEFINE new == [valid |-> TRUE, offset |-> o, bytes |-> FromCard(o)]
  <1>1. new \in Cached
    BY FromCardBytes DEF Cached
  <1>2. block' = [block EXCEPT ![b] = new]
    BY DEF Loaded
  <1>3. /\ block'[b] = new
        /\ \A c \in Blocks \ {b} : block'[c] = block[c]
    BY <1>2
  <1>4. BlocksTrue'
    <2> SUFFICES ASSUME NEW c \in Blocks, block'[c].valid
                 PROVE  /\ open' # NoFile
                        /\ block'[c].offset % BlockBytes = 0
                        /\ block'[c].offset < Size(open')
                        /\ block'[c].bytes = (FromCard(block[c].offset))'
      BY DEF BlocksTrue
    <2>1. \A q : (FromCard(q))' = FromCard(q)
      BY DEF FromCard
    <2>2. CASE c = b
      BY <1>3, <2>1, <2>2, PrefetchAssumption
    <2>3. CASE c # b
      BY <1>3, <2>1, <2>3 DEF BlocksTrue
    <2> QED
      BY <2>2, <2>3
  <1>5. BlocksDiffer'
    BY <1>3 DEF BlocksDiffer, NotHeld
  <1>6. block' \in [Blocks -> Cached]
    BY <1>1, <1>2
  <1> QED
    BY <1>4, <1>5, <1>6

\* So does a load that fails, after however many bytes.
LEMMA FailureKeepsTrue ==
    ASSUME open \in Files, block \in [Blocks -> Cached], BlocksTrue, BlocksDiffer,
           NEW b \in Blocks, NEW o \in Nat, open' = open, LoadFails(b, o)
    PROVE  block' \in [Blocks -> Cached] /\ BlocksTrue' /\ BlocksDiffer'
  <1> DEFINE new(k) ==
               [block[b] EXCEPT !.valid = FALSE, !.bytes = Overwritten(b, o, k)]
  <1>1. PICK k \in 0 .. Len(block[b].bytes) : block' = [block EXCEPT ![b] = new(k)]
    BY Zenon DEF LoadFails
  <1>2. block[b] \in Cached /\ block[b].bytes \in Seq(Files \X Nat)
    BY DEF Cached, Bytes
  <1>3. Overwritten(b, o, k) \in Bytes
    <2>1. Len(block[b].bytes) \in Nat
      BY <1>2
    <2>2. ASSUME NEW i \in 1 .. Len(block[b].bytes)
          PROVE  /\ Byte(open, o + i - 1) \in Files \X Nat
                 /\ block[b].bytes[i] \in Files \X Nat
      BY <1>2, <2>1, <2>2 DEF Byte
    <2> QED
      BY <2>1, <2>2 DEF Bytes, Overwritten
  <1>4. new(k) \in Cached /\ ~new(k).valid
    BY <1>2, <1>3 DEF Cached
  <1>5. /\ ~block'[b].valid
        /\ \A c \in Blocks \ {b} : block'[c] = block[c]
    BY <1>1, <1>4
  <1>6. BlocksTrue'
    BY <1>5 DEF BlocksTrue, FromCard
  <1>7. BlocksDiffer'
    BY <1>5 DEF BlocksDiffer
  <1> QED
    BY <1>1, <1>4, <1>6, <1>7

\* With no block valid there is nothing to be true of.
LEMMA ResetKeepsTrue ==
    ASSUME block \in [Blocks -> Cached], Reset
    PROVE  /\ block' \in [Blocks -> Cached] /\ rank' \in Orders
           /\ BlocksTrue' /\ BlocksDiffer'
  <1>1. block' = [b \in Blocks |-> [block[b] EXCEPT !.valid = FALSE]]
    BY DEF Reset
  <1>2. \A b \in Blocks : block'[b] \in Cached /\ ~block'[b].valid
    BY <1>1 DEF Cached
  <1>3. block' \in [Blocks -> Cached]
    BY <1>1, <1>2
  <1>4. rank' \in Orders
    BY DEF Reset, Unused, Orders
  <1> QED
    BY <1>2, <1>3, <1>4 DEF BlocksTrue, BlocksDiffer

-----------------------------------------------------------------------------
(***************************************************************************)
(* What a request receives.                                                *)
(***************************************************************************)
\* The part of a true block that a request copies is the file's own.
LEMMA CopiedPiece ==
    ASSUME open \in Files, position \in Nat, left \in Nat, left > 0,
           NEW o \in Nat, o <= position, position < o + BlockBytes,
           position < Size(open)
    PROVE  LET bytes == FromCard(o)
               at == position - o
               part == Least(left, Len(bytes) - at)
           IN  /\ part \in 1 .. left /\ position + part <= Size(open)
               /\ SubSeq(bytes, at + 1, at + part)
                    = [i \in 1 .. part |-> Byte(open, position + i - 1)]
  <1> DEFINE bytes == FromCard(o)
             at == position - o
             part == Least(left, Len(bytes) - at)
             got == SubSeq(bytes, at + 1, at + part)
             file == [i \in 1 .. part |-> Byte(open, position + i - 1)]
  <1>1. /\ bytes \in Bytes
        /\ Len(bytes) = Least(BlockBytes, Size(open) - o)
        /\ \A i \in 1 .. Len(bytes) : bytes[i] = Byte(open, o + i - 1)
    BY FromCardBytes, PrefetchAssumption
  <1>2. Len(bytes) \in Nat /\ at \in Nat /\ at < Len(bytes)
        /\ o + Len(bytes) <= Size(open)
    BY <1>1, PrefetchAssumption DEF Least
  <1> HIDE DEF bytes
  <1>3. /\ part \in 1 .. left /\ at + part <= Len(bytes)
        /\ position + part <= Size(open)
    BY <1>2, PrefetchAssumption DEF Least
  <1> HIDE DEF part
  <1>4. \A i \in 1 .. Len(bytes) : bytes[i] \in Files \X Nat
    BY <1>1, LenProperties DEF Bytes
  <1>5. /\ got \in Seq(Files \X Nat) /\ Len(got) = part
        /\ \A i \in 1 .. part : got[i] = bytes[at + i]
    <2>1. \A i \in at + 1 .. at + part : bytes[i] \in Files \X Nat
      BY <1>2, <1>3, <1>4
    <2> DEFINE m == at + 1
               n == at + part
    <2>2. m \in Int /\ n \in Int /\ m <= n /\ n - m + 1 = part
      BY <1>2, <1>3
    <2>3. /\ SubSeq(bytes, m, n) \in Seq(Files \X Nat)
          /\ Len(SubSeq(bytes, m, n)) = IF m <= n THEN n - m + 1 ELSE 0
          /\ \A i \in 1 .. n - m + 1 : SubSeq(bytes, m, n)[i] = bytes[m + i - 1]
      <3>1. \A i \in m .. n : bytes[i] \in Files \X Nat
        BY <2>1
      <3> HIDE DEF m, n
      <3> QED
        BY <3>1, <2>2, SubSeqProperties
    <2> QED
      BY <1>2, <1>3, <2>2, <2>3
  <1>6. /\ file \in Seq(Files \X Nat) /\ Len(file) = part
        /\ \A i \in 1 .. part : file[i] = Byte(open, position + i - 1)
    <2>1. \A i \in 1 .. part : Byte(open, position + i - 1) \in Files \X Nat
      BY <1>3 DEF Byte
    <2>2. part \in Nat
      BY <1>3
    <2> QED
      BY <2>1, <2>2
  <1>7. \A i \in 1 .. part : got[i] = file[i]
    <2> HIDE DEF got, file
    <2>1. ASSUME NEW i \in 1 .. part PROVE got[i] = file[i]
      <3>1. at + i \in 1 .. Len(bytes) /\ o + (at + i) - 1 = position + i - 1
        BY <1>2, <1>3
      <3>2. got[i] = bytes[at + i] /\ file[i] = Byte(open, position + i - 1)
        BY <1>5, <1>6
      <3> HIDE DEF at
      <3> QED
        BY <1>1, <3>1, <3>2
    <2> QED
      BY <2>1
  <1>8. got = file
    <2> HIDE DEF got, file
    <2> QED
      BY <1>5, <1>6, <1>7, SeqEqual
  <1> QED
    BY <1>3, <1>8 DEF bytes, part

\* The last piece of a request, whether block b is held already or just loaded.
LEMMA CopyDelivers ==
    ASSUME TypeOK, open \in Files, Wanted, NEW held, NEW b \in Blocks,
           NEW o \in Nat, held[b].offset = o, held[b].bytes = FromCard(o),
           o <= position, position < o + BlockBytes, Copy(b, held)
    PROVE  /\ \E k \in 1 .. left :
                 /\ position + k <= Size(open)
                 /\ piece' = [i \in 1 .. k |-> Byte(open, position + i - 1)]
                 /\ position' = position + k
                 /\ left' = left - k
           /\ open' = open /\ backwards' = backwards
           /\ rank' \in Orders
  <1> DEFINE at == position - o
             part == Least(left, Len(FromCard(o)) - at)
  <1>1. /\ position \in Nat /\ left \in Nat /\ left > 0 /\ position < Size(open)
        /\ rank \in Orders
    BY PrefetchAssumption DEF TypeOK, Wanted
  <1>2. /\ part \in 1 .. left /\ position + part <= Size(open)
        /\ SubSeq(FromCard(o), at + 1, at + part)
             = [i \in 1 .. part |-> Byte(open, position + i - 1)]
    BY <1>1, CopiedPiece
  <1>3. /\ piece' = SubSeq(FromCard(o), at + 1, at + part)
        /\ position' = position + part /\ left' = left - part
        /\ rank' = Touched(b) /\ open' = open /\ backwards' = backwards
    BY Zenon DEF Copy
  <1> HIDE DEF part
  <1>4. rank' \in Orders
    BY <1>1, <1>3, TouchedRanks
  <1> QED
    BY <1>2, <1>3, <1>4

\* A hit: the block that Find found is true and holds the cursor.
LEMMA HitTrue ==
    ASSUME Inv, NEW p \in Nat, Find(p) # None
    PROVE  /\ open \in Files
           /\ block[Find(p)].offset \in Nat /\ block[Find(p)].offset <= p
           /\ p < block[Find(p)].offset + BlockBytes
           /\ block[Find(p)].bytes = FromCard(block[Find(p)].offset)
  <1> DEFINE b == Find(p)
  <1>1. b \in Blocks /\ Contains(b, p)
    BY FindReports
  <1> HIDE DEF b
  <1>2. /\ open \in Files /\ block[b].offset \in Nat
        /\ block[b].offset < Size(open)
        /\ block[b].bytes = FromCard(block[b].offset)
    BY <1>1 DEF Inv, TypeOK, Cached, BlocksTrue, Contains
  <1>3. Len(block[b].bytes) \in 1 .. BlockBytes
    BY <1>2, FromCardBytes
  <1>4. block[b].offset <= p /\ p < block[b].offset + BlockBytes
    BY <1>1, <1>2, <1>3, PrefetchAssumption DEF Contains
  <1> QED
    BY <1>2, <1>4 DEF b

\* Both ways a read is served: the piece is the file's own, and the cache stays
\* true.
LEMMA ReadServes ==
    ASSUME Inv, ReadHit \/ ReadMiss
    PROVE  /\ open \in Files
           /\ \E k \in 1 .. left :
                 /\ position + k <= Size(open)
                 /\ piece' = [i \in 1 .. k |-> Byte(open, position + i - 1)]
                 /\ position' = position + k
                 /\ left' = left - k
           /\ open' = open /\ backwards' = backwards
           /\ rank' \in Orders
           /\ block' \in [Blocks -> Cached] /\ BlocksTrue' /\ BlocksDiffer'
  <1>1. /\ position \in Nat /\ left \in Nat /\ Wanted
        /\ open \in Files
        /\ TypeOK /\ block \in [Blocks -> Cached] /\ BlocksTrue /\ BlocksDiffer
        /\ rank \in Orders
    BY PrefetchAssumption DEF Inv, TypeOK, RequestOpen, Wanted, ReadHit, ReadMiss
  <1>2. CASE ReadHit
    <2> DEFINE b == Find(position)
    <2>1. Copy(b, block) /\ block' = block /\ b # None
      BY <1>2 DEF ReadHit
    <2>2. b \in Blocks
      BY <2>1, FindReports
    <2>3. /\ block[b].offset \in Nat /\ block[b].offset <= position
          /\ position < block[b].offset + BlockBytes
          /\ block[b].bytes = FromCard(block[b].offset)
      BY <1>1, <2>1, HitTrue
    <2> HIDE DEF b
    <2>4. open' = open
      BY <2>1 DEF Copy
    <2>5. BlocksTrue' /\ BlocksDiffer'
      BY <1>1, <2>1, <2>4 DEF BlocksTrue, BlocksDiffer, FromCard
    <2> QED
      BY <1>1, <2>1, <2>2, <2>3, <2>5, CopyDelivers
  <1>3. CASE ReadMiss
    <2> DEFINE b == Target(None)
               o == Aligned(position)
               held == Loaded(b, o)
    <2>1. Copy(b, held) /\ block' = held /\ Find(position) = None
      BY <1>3 DEF ReadMiss
    <2>2. b \in Blocks
      BY <1>1, TargetSpares
    <2>3. /\ o \in Nat /\ o % BlockBytes = 0
          /\ o <= position /\ position < o + BlockBytes
      BY <1>1, AlignedAround
    <2> HIDE DEF b, o
    <2>4. held[b].offset = o /\ held[b].bytes = FromCard(o)
      BY <1>1, <2>2 DEF Loaded
    <2>5. o < Size(open)
      BY <1>1, <2>3, PrefetchAssumption DEF Wanted
    <2>6. NotHeld(o)
      BY <1>1, <2>1, <2>3, MissedNotHeld DEF Wanted
    <2>7. open' = open
      BY <2>1 DEF Copy
    <2>8. block' \in [Blocks -> Cached] /\ BlocksTrue' /\ BlocksDiffer'
      BY <1>1, <2>1, <2>2, <2>3, <2>5, <2>6, <2>7, LoadKeepsTrue DEF held
    <2> HIDE DEF held
    <2> QED
      BY <1>1, <2>1, <2>2, <2>3, <2>4, <2>8, CopyDelivers
  <1> QED
    BY <1>2, <1>3

-----------------------------------------------------------------------------
(***************************************************************************)
(* The invariant and what follows from it.                                 *)
(***************************************************************************)
\* The cache starts empty.
LEMMA InitInv == Init => Inv
  <1> SUFFICES ASSUME Init PROVE Inv
    OBVIOUS
  <1>1. \A b \in Blocks : block[b] \in Cached /\ ~block[b].valid
    BY DEF Init, Empty, Cached, Bytes
  <1>2. BlocksTrue /\ BlocksDiffer /\ RequestOpen
    BY <1>1 DEF Init, BlocksTrue, BlocksDiffer, RequestOpen
  <1>3. block \in [Blocks -> Cached]
    BY <1>1 DEF Init
  <1>4. backwards \in BOOLEAN
    BY DEF Init
  <1>5. open = NoFile /\ position = 0 /\ left = 0 /\ rank \in Orders
    BY DEF Init, Unused, Orders
  <1>6. TypeOK
    BY <1>3, <1>4, <1>5, PrefetchAssumption DEF TypeOK
  <1> QED
    BY <1>2, <1>6 DEF Inv

\* A step that leaves the file and the cache alone keeps the cache true.
LEMMA CacheUntouched ==
    ASSUME Inv, UNCHANGED <<open, block>>
    PROVE  BlocksTrue' /\ BlocksDiffer'
  BY DEF Inv, BlocksTrue, BlocksDiffer, FromCard

\* What a speculative load leaves, and where it does not load.
LEMMA AheadKeeps ==
    ASSUME Inv, Ahead
    PROVE  /\ Inv'
           /\ Find(Cursor) # None => block'[Find(Cursor)] = block[Find(Cursor)]
  <1> DEFINE b == Target(Protected)
             o == NextBlock
  <1>1. /\ open \in Files /\ position \in Nat
        /\ o \in Nat /\ o < Size(open) /\ Find(o) = None
        /\ UNCHANGED <<open, position, backwards, left, piece>>
        /\ block \in [Blocks -> Cached] /\ BlocksTrue /\ BlocksDiffer
        /\ rank \in Orders /\ TypeOK
    BY PrefetchAssumption DEF Ahead, Inv, TypeOK
  <1>2. b \in Blocks \ {Protected} /\ b \in Blocks
    BY <1>1, FindReports, TargetSpares DEF Protected
  <1>3. o % BlockBytes = 0 /\ NotHeld(o)
    BY <1>1, NextBlockAligned, MissedNotHeld, PrefetchAssumption
  <1>4. \/ block' = Loaded(b, o) /\ rank' = Touched(b)
        \/ LoadFails(b, o) /\ rank' = rank
    BY Zenon DEF Ahead
  <1> HIDE DEF b, o
  <1>5. block' \in [Blocks -> Cached] /\ BlocksTrue' /\ BlocksDiffer'
    BY <1>1, <1>2, <1>3, <1>4, LoadKeepsTrue, FailureKeepsTrue
  <1>6. rank' \in Orders
    BY <1>1, <1>2, <1>4, TouchedRanks
  <1>7. Inv'
    BY <1>1, <1>5, <1>6 DEF Inv, TypeOK, RequestOpen
  <1>8. ASSUME NEW c \in Blocks, c # b PROVE block'[c] = block[c]
    BY <1>1, <1>2, <1>4, <1>8 DEF Loaded, LoadFails
  <1>9. Find(Cursor) # None => block'[Find(Cursor)] = block[Find(Cursor)]
    BY <1>2, <1>8, FindReports DEF Protected
  <1> QED
    BY <1>7, <1>9

\* Every step keeps the invariant.
LEMMA NextInv == Inv /\ [Next]_vars => Inv'
  <1> SUFFICES ASSUME Inv, [Next]_vars PROVE Inv'
    OBVIOUS
  <1> USE DEF Inv, TypeOK, RequestOpen
  <1>1. ASSUME NEW f \in Files, Open(f) PROVE Inv'
    <2>1. open' \in Files /\ position' = 0 /\ left' = 0
      BY <1>1 DEF Open, Reset
    <2>2. backwards' \in BOOLEAN
      BY <1>1 DEF Open, Reset
    <2> QED
      BY <1>1, <2>1, <2>2, ResetKeepsTrue, PrefetchAssumption DEF Open
  <1>2. CASE CloseSavedMediaPlayback
    <2>1. open' = NoFile /\ position' = 0 /\ left' = 0
      BY <1>2 DEF CloseSavedMediaPlayback, Reset
    <2>2. backwards' \in BOOLEAN
      BY <1>2 DEF CloseSavedMediaPlayback, Reset
    <2>3. Reset
      BY <1>2 DEF CloseSavedMediaPlayback
    <2> QED
      BY <2>1, <2>2, <2>3, ResetKeepsTrue, PrefetchAssumption
  <1>3. ASSUME open # NoFile, NEW p \in 0 .. Size(open), Seek(p) PROVE Inv'
    BY <1>3, CacheUntouched, PrefetchAssumption DEF Seek
  <1>4. ASSUME NEW value \in BOOLEAN, SetBackwards(value) PROVE Inv'
    BY <1>4, CacheUntouched DEF SetBackwards
  <1>5. ASSUME NEW n \in 1 .. MaxRequest, StartRead(n) PROVE Inv'
    BY <1>5, CacheUntouched, PrefetchAssumption DEF StartRead
  <1>6. CASE ReadHit \/ ReadMiss
    <2>1. /\ open \in Files /\ open' = open /\ backwards' = backwards
          /\ rank' \in Orders /\ block' \in [Blocks -> Cached]
          /\ BlocksTrue' /\ BlocksDiffer'
      BY <1>6, ReadServes
    <2>2. position' \in Nat /\ left' \in 0 .. MaxRequest
      <3>1. PICK k \in 1 .. left : position' = position + k /\ left' = left - k
        BY <1>6, ReadServes
      <3> QED
        BY <3>1, PrefetchAssumption
    <2> QED
      BY <2>1, <2>2, PrefetchAssumption
  <1>7. CASE ReadFails
    <2>1. /\ open \in Files /\ position \in Nat /\ left' = 0
          /\ UNCHANGED <<open, position, backwards, rank, piece>>
          /\ LoadFails(Target(None), Aligned(position))
      BY <1>7, PrefetchAssumption DEF ReadFails, Wanted
    <2>2. Target(None) \in Blocks /\ Aligned(position) \in Nat
      BY <2>1, TargetSpares, AlignedAround
    <2>3. block' \in [Blocks -> Cached] /\ BlocksTrue' /\ BlocksDiffer'
      BY <2>1, <2>2, FailureKeepsTrue
    <2> QED
      BY <2>1, <2>3, PrefetchAssumption
  <1>8. CASE ReadPastEnd
    BY <1>8, CacheUntouched, PrefetchAssumption DEF ReadPastEnd
  <1>9. CASE Ahead
    BY <1>9, AheadKeeps
  <1>10. CASE UNCHANGED vars
    BY <1>10, CacheUntouched DEF vars
  <1> QED
    BY <1>1, <1>2, <1>3, <1>4, <1>5, <1>6, <1>7, <1>8, <1>9, <1>10 DEF Next

\* The cache never holds anything but the open file's own bytes, and none of
\* them twice (PlaybackPrefetch::Load, Reset, Find).
THEOREM InvHolds == Spec => []Inv
  BY InitInv, NextInv, PTL DEF Spec

\* Each step of the cached reader is a step of the plain one, or none: the
\* reader cannot tell the cache from the file (ReadPlaybackFileBytes).
LEMMA NextRefines == Inv /\ [Next]_vars => [Reader!Next]_(Reader!vars)
  <1> SUFFICES ASSUME Inv, [Next]_vars PROVE [Reader!Next]_(Reader!vars)
    OBVIOUS
  <1> USE DEF Reader!Next, Reader!vars
  <1>1. ASSUME NEW f \in Files, Open(f) PROVE Reader!Open
    BY <1>1 DEF Open, Reset, Reader!Open
  <1>2. CASE CloseSavedMediaPlayback
    BY <1>2 DEF CloseSavedMediaPlayback, Reset, Reader!Close
  <1>3. ASSUME open # NoFile, NEW p \in 0 .. Size(open), Seek(p) PROVE Reader!Seek
    BY <1>3, PrefetchAssumption DEF Seek, Reader!Seek, Inv, TypeOK
  <1>4. ASSUME NEW value \in BOOLEAN, SetBackwards(value)
        PROVE  UNCHANGED Reader!vars
    BY <1>4 DEF SetBackwards
  <1>5. ASSUME NEW n \in 1 .. MaxRequest, StartRead(n) PROVE Reader!Ask
    BY <1>5, PrefetchAssumption DEF StartRead, Reader!Ask
  <1>6. CASE ReadHit \/ ReadMiss
    <2>1. left > 0
      BY <1>6 DEF ReadHit, ReadMiss, Wanted
    <2> QED
      BY <1>6, <2>1, ReadServes DEF Reader!Deliver, Reader!Byte, Byte
  <1>7. CASE ReadFails
    BY <1>7 DEF ReadFails, Wanted, Reader!Short
  <1>8. CASE ReadPastEnd
    BY <1>8 DEF ReadPastEnd, Reader!Short
  <1>9. CASE Ahead
    BY <1>9 DEF Ahead
  <1>10. CASE UNCHANGED vars
    BY <1>10 DEF vars
  <1> QED
    BY <1>1, <1>2, <1>3, <1>4, <1>5, <1>6, <1>7, <1>8, <1>9, <1>10 DEF Next

THEOREM ImplementsReaderHolds == Spec => ImplementsReader
  <1>1. Init => Reader!Init
    BY DEF Init, Reader!Init
  <1> QED
    BY <1>1, NextRefines, InvHolds, PTL DEF Spec, ImplementsReader, Reader!Spec

\* A speculative load never drops the block playback stands in, whether it
\* succeeds or fails (the protected block of PlaybackPrefetch::Load).
THEOREM AheadKeepsCursorHolds == Spec => AheadKeepsCursor
  <1> DEFINE Kept == Ahead /\ Find(Cursor) # None =>
                        block'[Find(Cursor)] = block[Find(Cursor)]
  <1>1. Inv /\ [Next]_vars => [Kept]_vars
    BY AheadKeeps
  <1> HIDE DEF Kept
  <1>2. Spec => [][Kept]_vars
    BY <1>1, InvHolds, PTL DEF Spec
  <1> QED
    BY <1>2 DEF Kept, AheadKeepsCursor

=============================================================================
