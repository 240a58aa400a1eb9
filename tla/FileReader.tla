----------------------------- MODULE FileReader -----------------------------
(***************************************************************************)
(* What a reader of the open playback file is promised, whatever lies      *)
(* between it and the card: each piece it receives is the file's own bytes *)
(* from its cursor on, no more than it asked for and none past the end.    *)
(***************************************************************************)
EXTENDS Integers

CONSTANTS Files, NoFile, Size(_)

VARIABLES open,      \* the open file
          position,  \* the reader's cursor
          left,      \* bytes still wanted by the current request
          piece      \* the bytes last delivered

vars == <<open, position, left, piece>>

Byte(f, p) == <<f, p>>

Init == open = NoFile /\ position = 0 /\ left = 0 /\ piece = <<>>

Open == open' \in Files /\ position' = 0 /\ left' = 0 /\ piece' = <<>>
Close == open' = NoFile /\ position' = 0 /\ left' = 0 /\ piece' = <<>>

Seek ==
    /\ open # NoFile /\ left = 0
    /\ position' \in Nat
    /\ UNCHANGED <<open, left, piece>>

Ask ==
    /\ open # NoFile /\ left = 0
    /\ left' \in Nat
    /\ UNCHANGED <<open, position, piece>>

Deliver ==
    /\ left > 0
    /\ \E k \in 1 .. left :
        /\ position + k <= Size(open)
        /\ piece' = [i \in 1 .. k |-> Byte(open, position + i - 1)]
        /\ position' = position + k
        /\ left' = left - k
    /\ UNCHANGED open

\* The file ends, or the card cannot be read.
Short == left > 0 /\ left' = 0 /\ UNCHANGED <<open, position, piece>>

Next == Open \/ Close \/ Seek \/ Ask \/ Deliver \/ Short

Spec == Init /\ [][Next]_vars
=============================================================================
