----------------------------- MODULE ByteStream -----------------------------
(***************************************************************************)
(* What a JPEG record's input pipe promises its decoder, whatever buffers  *)
(* lie between the two cores: the bytes of the record, each once, in order *)
(* and never before they were written, and an end of input only after the  *)
(* writer closed the stream and every byte of it was delivered.            *)
(***************************************************************************)
EXTENDS Naturals

VARIABLES written,  \* bytes the producer has made available
          closed,   \* the producer will write no more
          read,     \* bytes delivered
          chunk,    \* the record bytes last delivered: <<from, to>>
          eof       \* the reader has been told there is no more

vars == <<written, closed, read, chunk, eof>>

Init ==
    /\ written = 0 /\ closed = FALSE
    /\ read = 0 /\ chunk = <<0, 0>> /\ eof = FALSE

\* A new record starts from nothing.
Open ==
    /\ written' = 0 /\ closed' = FALSE
    /\ read' = 0 /\ chunk' = <<0, 0>> /\ eof' = FALSE

Write ==
    /\ ~closed
    /\ written' \in Nat /\ written' > written
    /\ UNCHANGED <<closed, read, chunk, eof>>

Close ==
    /\ ~closed /\ closed' = TRUE
    /\ UNCHANGED <<written, read, chunk, eof>>

Deliver ==
    /\ ~eof
    /\ read' \in Nat /\ read < read' /\ read' <= written
    /\ chunk' = <<read, read'>>
    /\ UNCHANGED <<written, closed, eof>>

EndOfInput ==
    /\ closed /\ read = written
    /\ eof' = TRUE
    /\ UNCHANGED <<written, closed, read, chunk>>

Next == Open \/ Write \/ Close \/ Deliver \/ EndOfInput

Spec == Init /\ [][Next]_vars
=============================================================================
