---------------------------- MODULE SavedLibrary ----------------------------
(***************************************************************************)
(* What the memory manager promises about the photos and videos on the     *)
(* card, whatever fails and wherever power is lost: an item appears        *)
(* complete, in a place that was empty, and stays as it is until it is     *)
(* deleted; and nothing that was deleted comes back.  Module MediaSave     *)
(* implements it.                                                          *)
(***************************************************************************)
EXTENDS FiniteSets

CONSTANTS Places,     \* where an item may be listed
          Media,      \* what may be saved
          None        \* an empty place

VARIABLES library,    \* the item at each place
          past        \* every item that has been listed

Publish(p, m) ==
    /\ library[p] = None /\ m \notin past
    /\ library' = [library EXCEPT ![p] = m]
    /\ past' = past \cup {m}

Delete(p) ==
    /\ library[p] # None
    /\ library' = [library EXCEPT ![p] = None]
    /\ UNCHANGED past

Next ==
    \/ \E p \in Places, m \in Media : Publish(p, m)
    \/ \E p \in Places : Delete(p)

Init == library = [p \in Places |-> None] /\ past = {}

Spec == Init /\ [][Next]_<<library, past>>
=============================================================================
