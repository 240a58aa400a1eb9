------------------------- MODULE MediaLibraryProofs ------------------------
(***************************************************************************)
(* The selection is safe for every set of library IDs, every capacity of   *)
(* the list of rejected items and any number of requests and failures: Inv *)
(* is inductive, so the selection in RAM can always be saved, the photo    *)
(* that counts as displayed leaves the frame only to a raw upload, and no  *)
(* selected file is deleted before the card names its replacement.         *)
(***************************************************************************)
EXTENDS MediaLibrary, FiniteSetTheorems, WellFoundedInduction, TLAPS

-----------------------------------------------------------------------------
(* Values.                                                                 *)

\* A nonempty set of naturals has a smallest element.
LEMMA SmallestExists ==
    ASSUME NEW S, S \subseteq Nat, S # {}
    PROVE  \E m \in S : \A n \in S : m <= n
  <1> DEFINE Upto(n) == 1 .. n
             T == {Upto(n) : n \in S}
             R == StrictSubsetOrdering(Nat)
  <1>1. T \subseteq FiniteSubsetsOf(Nat)
    <2>1. ASSUME NEW n \in S PROVE Upto(n) \in SUBSET Nat /\ IsFiniteSet(Upto(n))
      BY FS_Interval
    <2> QED
      BY <2>1 DEF FiniteSubsetsOf
  <1>2. PICK x \in T : \A y \in T : ~ (<<y, x>> \in R)
    <2>1. T # {}
      OBVIOUS
    <2> HIDE DEF T, R
    <2> QED
      BY <1>1, <2>1, WFMin, FS_StrictSubsetOrderingWellFounded DEF R
  <1>3. PICK m \in S : x = Upto(m)
    BY <1>2
  <1>4. ASSUME NEW n \in S, n < m PROVE FALSE
    <2>1. Upto(n) \subseteq Upto(m) /\ m \in Upto(m) /\ m \notin Upto(n)
      BY <1>4
    <2>2. <<Upto(n), Upto(m)>> \in R
      BY <2>1 DEF StrictSubsetOrdering
    <2> QED
      BY <1>2, <1>3, <2>2
  <1> QED
    BY <1>4

\* No library ID is the "nothing" of a selection.
LEMMA IdsAreIds == 0 \notin Ids /\ Ids \subseteq Nat
  BY LibraryAssumption

\* The first item of a set of items is one of them.
LEMMA LeastIn ==
    ASSUME NEW S, S \subseteq Ids, S # {}
    PROVE  Least(S) \in S
  <1>1. \E m \in S : \A n \in S : m <= n
    BY SmallestExists, IdsAreIds
  <1> QED
    BY <1>1, Zenon DEF Least

\* The next usable item is a valid one other than the excepted, or nothing.
LEMMA NextFound ==
    ASSUME NEW ring, NEW kind, NEW after, NEW except
    PROVE  /\ NextIn(ring, kind, after, except) \in Valid(kind) \cup {0}
           /\ NextIn(ring, kind, after, except) \in Ids \cup {0}
           /\ NextIn(ring, kind, after, except) = except => except = 0
  <1> DEFINE usable == {i \in Valid(kind) : ~InRing(ring, kind, i) /\ i # except}
             later == {i \in usable : i > after}
  <1>1. usable \subseteq Valid(kind) /\ Valid(kind) \subseteq Ids
        /\ except \notin usable /\ later \subseteq usable
    BY DEF Valid
  <1>2. NextIn(ring, kind, after, except)
           = IF later # {} THEN Least(later)
             ELSE IF usable # {} THEN Least(usable) ELSE 0
    BY DEF NextIn
  <1> HIDE DEF usable, later
  <1>3. later # {} => Least(later) \in usable
    BY <1>1, LeastIn
  <1>4. usable # {} => Least(usable) \in usable
    BY <1>1, LeastIn
  <1>5. NextIn(ring, kind, after, except) \in usable \cup {0}
    BY <1>2, <1>3, <1>4
  <1> QED
    BY <1>1, <1>5

\* The values that the steps assign as a whole.
LEMMA WholeValues ==
    /\ NoSelection \in Selections /\ Savable(NoSelection) /\ ~Wants(NoSelection)
    /\ NoSelection.photo = 0 /\ NoSelection.video = 0
    /\ NoTask \in Tasks /\ NoTask.selected = NoSelection
    /\ NoFrame \in Frames /\ LiveFrame \in Frames /\ TornFrame \in Frames
    /\ Item("legacy", 0) \in Frames /\ NothingListed \in [Kinds -> Nat]
    /\ NoneRejected \in [Kinds -> Rings]
    /\ \A kind \in Kinds, id \in Ids : Item(kind, id) \in Frames
  <1>1. 0 \in 0 .. RejectCapacity - 1
    BY LibraryAssumption
  <1>2. [i \in 0 .. RejectCapacity - 1 |-> 0] \in [0 .. RejectCapacity - 1 -> Ids \cup {0}]
    OBVIOUS
  <1>3. NoneRejected \in [Kinds -> Rings]
    BY <1>1, <1>2 DEF NoneRejected, Rings
  <1>4. NoSelection \in Selections
    BY DEF NoSelection, Selections
  <1> QED
    BY <1>3, <1>4 DEF NoSelection, Savable, Wants, NoTask, Tasks, NoFrame, LiveFrame,
       TornFrame, NothingListed, Item, Frames, Kinds

\* A task for a deletion, and a task for an item.
LEMMA DeletionTask ==
    ASSUME NEW kind \in Kinds, NEW id \in Ids \cup {0}, NEW selected \in Selections
    PROVE  [kind |-> kind, id |-> id, selected |-> selected] \in Tasks
  BY DEF Tasks

LEMMA ItemTask ==
    ASSUME NEW kind \in Kinds, NEW id \in Ids \cup {0}
    PROVE  /\ [NoTask EXCEPT !.kind = kind, !.id = id] \in Tasks
           /\ [NoTask EXCEPT !.kind = kind, !.id = id].kind = kind
           /\ [NoTask EXCEPT !.kind = kind, !.id = id].id = id
           /\ [NoTask EXCEPT !.kind = kind, !.id = id].selected = NoSelection
  BY WholeValues DEF Tasks, NoTask

\* The list of rejected items keeps its shape.
LEMMA RingsKept ==
    ASSUME rejected \in [Kinds -> Rings], NEW kind \in Kinds, NEW id \in Ids \cup {0}
    PROVE  Reject(kind, id) \in [Kinds -> Rings] /\ Unreject(kind, id) \in [Kinds -> Rings]
  <1> DEFINE ring == rejected[kind]
             slots == 0 .. RejectCapacity - 1
  <1>1. /\ ring \in Rings /\ ring.ids \in [slots -> Ids \cup {0}]
        /\ ring.next \in slots
    BY DEF Rings
  <1>2. (ring.next + 1) % RejectCapacity \in slots
    <2>1. RejectCapacity \in Nat \ {0} /\ ring.next + 1 \in Nat
      BY <1>1, LibraryAssumption
    <2> QED
      BY <2>1
  <1>3. [ring.ids EXCEPT ![ring.next] = id] \in [slots -> Ids \cup {0}]
    BY <1>1
  <1>4. [ids |-> [ring.ids EXCEPT ![ring.next] = id],
         next |-> (ring.next + 1) % RejectCapacity] \in Rings
    BY <1>2, <1>3 DEF Rings
  <1>5. Reject(kind, id) \in {rejected, [rejected EXCEPT
           ![kind] = [ids |-> [ring.ids EXCEPT ![ring.next] = id],
                      next |-> (ring.next + 1) % RejectCapacity]]}
    BY DEF Reject
  <1>6. Reject(kind, id) \in [Kinds -> Rings]
    BY <1>4, <1>5
  <1> DEFINE without == [i \in DOMAIN ring.ids |-> IF ring.ids[i] = id THEN 0
                                                   ELSE ring.ids[i]]
  <1>7. without \in [slots -> Ids \cup {0}]
    BY <1>1
  <1>8. Unreject(kind, id) = [rejected EXCEPT ![kind].ids = without]
    BY DEF Unreject
  <1> HIDE DEF without, slots
  <1>9. Unreject(kind, id) \in [Kinds -> Rings]
    BY <1>1, <1>7, <1>8 DEF Rings, slots
  <1> QED
    BY <1>6, <1>9

\* The cached counts are numbers.
LEMMA CountsKept ==
    ASSUME total \in [Kinds -> Nat], NEW kind \in Kinds
    PROVE  /\ Cardinality(Listed(kind)) \in Nat
           /\ Count(kind, Listed(kind)) \in [Kinds -> Nat]
           /\ \A id : Count(kind, Listed(kind) \ {id}) \in [Kinds -> Nat]
           /\ Uncounted(kind) \in [Kinds -> Nat]
  <1>1. IsFiniteSet(Listed(kind)) /\ \A id : IsFiniteSet(Listed(kind) \ {id})
    <2>1. Listed(kind) \subseteq Ids /\ \A id : Listed(kind) \ {id} \subseteq Ids
      BY DEF Listed
    <2> QED
      BY <2>1, LibraryAssumption, FS_Subset
  <1>2. Cardinality(Listed(kind)) \in Nat
        /\ \A id : Cardinality(Listed(kind) \ {id}) \in Nat
    BY <1>1, FS_CardinalityType
  <1> QED
    BY <1>2 DEF Count, Uncounted

\* Files that appear, change or go keep the card's shape.
LEMMA FilesKept ==
    ASSUME files \in Files, NEW kind \in Kinds, NEW id \in Ids,
           NEW state \in FileStates
    PROVE  [files EXCEPT ![kind][id] = state] \in Files
  BY DEF Files

-----------------------------------------------------------------------------
(* Card operations and the selections that are saved.                      *)

\* A save leaves on the card a selection that the card accepts; the device
\* does not come back by it.
LEMMA SaveKeeps ==
    ASSUME TypeOK, Savable(saved), NEW selection \in Selections,
           SaveSucceeds(selection) \/ SaveFails(selection)
    PROVE  /\ saved' \in Selections /\ Savable(saved')
           /\ storage' \in {"ready", "recovering", "unavailable"}
           /\ storage' \in {storage, "recovering"}
           /\ faults' \in 0 .. MaxFaults
  <1>1. saved \in Selections /\ storage \in {"ready", "recovering", "unavailable"}
        /\ faults \in 0 .. MaxFaults
    BY DEF TypeOK, CardOK, StorageOK, BoundsOK
  <1>2. Fault => faults' \in 0 .. MaxFaults
    BY <1>1, LibraryAssumption DEF Fault
  <1>3. CASE SaveSucceeds(selection)
    BY <1>1, <1>3 DEF SaveSucceeds
  <1>4. CASE SaveFails(selection)
    BY <1>1, <1>2, <1>4 DEF SaveFails
  <1> QED
    BY <1>3, <1>4

\* Losing the device counts as a fault and leaves it to the recovery.
LEMMA FaultsCounted ==
    ASSUME TypeOK
    PROVE  /\ Fault => faults' \in 0 .. MaxFaults
           /\ DeviceLost => /\ storage = "ready" /\ storage' = "recovering"
                            /\ faults' \in 0 .. MaxFaults
  BY LibraryAssumption DEF TypeOK, BoundsOK, Fault, DeviceLost

\* A request comes while the foreground is idle and the card is there.
LEMMA RequestsCounted ==
    ASSUME TypeOK
    PROVE  /\ requests < MaxRequests /\ requests' = requests + 1
                => requests' \in 0 .. MaxRequests
           /\ Request => /\ pc = "idle" /\ storage = "ready"
                         /\ requests' \in 0 .. MaxRequests
  BY LibraryAssumption DEF TypeOK, BoundsOK, Request

\* A single item can be selected.
LEMMA OnlySelectedSavable ==
    ASSUME NEW kind \in Kinds, NEW id \in Ids \cup {0}
    PROVE  OnlySelected(kind, id) \in Selections /\ Savable(OnlySelected(kind, id))
  BY DEF OnlySelected, Selections, NoSelection, Savable, Kinds

\* The repair of a saved selection can be saved again.
LEMMA RepairSavable ==
    ASSUME NEW selection \in Selections, Savable(selection)
    PROVE  Repaired(selection) \in Selections /\ Savable(Repaired(selection))
  <1> DEFINE next(kind) == NextIn(NoneRejected, kind, 0, 0)
             kept(kind) == IF selection[kind] \in Valid(kind) \cup {0}
                           THEN selection[kind] ELSE next(kind)
  <1>1. /\ selection.photo \in Ids \cup {0} /\ selection.video \in Ids \cup {0}
        /\ selection.slideshow \in BOOLEAN
        /\ selection["photo"] = selection.photo /\ selection["video"] = selection.video
    BY DEF Selections
  <1>2. next("photo") \in Ids \cup {0} /\ next("video") \in Ids \cup {0}
    BY NextFound
  <1>3. kept("photo") \in Ids \cup {0} /\ kept("video") \in Ids \cup {0}
    BY <1>1, <1>2
  <1>4. kept("video") # 0 => selection.video # 0
    BY <1>1
  <1>5. selection.photo = 0 => kept("photo") = 0
    BY <1>1
  <1>6. Repaired(selection) = [photo |-> kept("photo"), video |-> kept("video"),
            slideshow |-> selection.slideshow /\ kept("photo") # 0]
    BY DEF Repaired
  <1> HIDE DEF kept, next
  <1> DEFINE show == selection.slideshow /\ kept("photo") # 0
  <1>7. show \in BOOLEAN
    OBVIOUS
  <1>8. Repaired(selection) \in Selections
    BY <1>3, <1>6, <1>7 DEF Selections
  <1>9. show => selection.slideshow /\ kept("photo") # 0
    OBVIOUS
  <1> HIDE DEF show
  <1>10. Savable(Repaired(selection))
    <2>1. Repaired(selection) = [photo |-> kept("photo"), video |-> kept("video"),
                                 slideshow |-> show]
      BY <1>6 DEF show
    <2>2. /\ Repaired(selection).photo = kept("photo")
          /\ Repaired(selection).video = kept("video")
          /\ Repaired(selection).slideshow = show
      BY <2>1
    <2> QED
      BY <1>4, <1>5, <1>9, <2>2, Zenon DEF Savable
  <1> QED
    BY <1>8, <1>10

\* What replaces the selection of an item does not name the item, and selects
\* no video for a photo.
LEMMA ReplacementFits ==
    ASSUME settings \in Selections, Savable(settings), NEW kind \in Kinds,
           NEW id \in Ids
    PROVE  /\ Replacement(kind, id) \in Selections
           /\ Savable(Replacement(kind, id))
           /\ Replacement(kind, id)[kind] # id
           /\ Replacement(kind, id).video # 0 => settings.video # 0
           /\ Replacement(kind, id).photo # 0 => Wants(settings)
  <1> DEFINE next == FindNext(kind, 0, id)
             photo == FindNext("photo", 0, 0)
  <1>1. /\ settings.photo \in Ids \cup {0} /\ settings.video \in Ids \cup {0}
        /\ settings.slideshow \in BOOLEAN
        /\ settings["photo"] = settings.photo /\ settings["video"] = settings.video
        /\ settings = [photo |-> settings.photo, video |-> settings.video,
                       slideshow |-> settings.slideshow]
        /\ id # 0
    BY IdsAreIds DEF Selections
  <1>2. next \in Ids \cup {0} /\ next # id /\ photo \in Ids \cup {0}
    BY <1>1, NextFound DEF FindNext
  <1> HIDE DEF next, photo
  <1>3. CASE settings[kind] # id
    BY <1>1, <1>3 DEF Replacement, Wants
  <1>4. CASE settings[kind] = id /\ kind = "photo"
    <2>1. Replacement(kind, id)
             = [photo |-> next, video |-> settings.video,
                slideshow |-> settings.slideshow /\ next # 0]
      BY <1>1, <1>4 DEF Replacement, next
    <2>2. (settings.slideshow /\ next # 0) \in BOOLEAN
      OBVIOUS
    <2>3. Replacement(kind, id) \in Selections
      BY <1>1, <1>2, <2>1, <2>2 DEF Selections
    <2> DEFINE show == settings.slideshow /\ next # 0
    <2>4. show => settings.slideshow /\ next # 0
      OBVIOUS
    <2>5. /\ Replacement(kind, id).photo = next
          /\ Replacement(kind, id).video = settings.video
          /\ Replacement(kind, id).slideshow = show
          /\ Replacement(kind, id)["photo"] = next
      BY <2>1
    <2> HIDE DEF show
    <2>6. Savable(Replacement(kind, id))
      <3>1. settings.video = 0
        BY <1>1, <1>4 DEF Savable
      <3> QED
        BY <2>4, <2>5, <3>1, Zenon DEF Savable
    <2> QED
      BY <1>1, <1>2, <1>4, <2>3, <2>5, <2>6 DEF Wants
  <1>5. CASE settings[kind] = id /\ kind = "video"
    <2> DEFINE other == IF next # 0 THEN settings.photo ELSE photo
    <2>1. Replacement(kind, id) = [photo |-> other, video |-> next,
                                   slideshow |-> settings.slideshow]
      BY <1>1, <1>5 DEF Replacement, next, photo
    <2>2. Replacement(kind, id) \in Selections
      BY <1>1, <1>2, <2>1 DEF Selections
    <2> QED
      BY <1>1, <1>2, <1>5, <2>1, <2>2 DEF Savable, Wants
  <1> QED
    BY <1>3, <1>4, <1>5 DEF Kinds

\* Starting or stopping the slideshow selects no video.
LEMMA SlideshowFits ==
    ASSUME settings \in Selections, displayed \in Ids \cup {0},
           NEW enabled \in BOOLEAN
    PROVE  /\ SlideshowSettings(enabled) \in Selections
           /\ SlideshowSettings(enabled).video # 0 => settings.video # 0
  <1> DEFINE next == FindNext("photo", 0, 0)
             shown == IF ~reload /\ Has("photo", displayed) THEN displayed
                      ELSE settings.photo
             photo == IF enabled /\ ~Has("photo", shown) THEN next ELSE shown
             video == IF enabled THEN 0 ELSE settings.video
  <1>1. next \in Ids \cup {0} /\ settings.photo \in Ids \cup {0}
        /\ settings.video \in Ids \cup {0}
    BY NextFound DEF FindNext, Selections
  <1>2. photo \in Ids \cup {0} /\ video \in Ids \cup {0}
    BY <1>1
  <1>3. SlideshowSettings(enabled)
          = [photo |-> photo, video |-> video, slideshow |-> enabled]
    BY DEF SlideshowSettings
  <1> HIDE DEF photo, next, shown
  <1> QED
    BY <1>2, <1>3 DEF Selections

\* Telling the library of a saved item: its selection is adopted as it was
\* saved, with the reload that shows it, or stays.
LEMMA NotifyKeeps ==
    ASSUME TypeOK, SelectionSavable, NEW kind \in Kinds, NEW id \in Ids,
           NotifySaved(kind, id)
    PROVE  /\ saved' \in Selections /\ Savable(saved')
           /\ storage' \in {"ready", "recovering", "unavailable"}
           /\ storage' \in {storage, "recovering"}
           /\ faults' \in 0 .. MaxFaults
           /\ rejected' \in [Kinds -> Rings] /\ total' \in [Kinds -> Nat]
           /\ settings' \in Selections /\ Savable(settings')
           /\ reload' \in BOOLEAN /\ clear' \in BOOLEAN
           /\ \/ reload' = TRUE /\ clear' = FALSE
              \/ settings' = settings /\ reload' = reload /\ clear' = clear
  <1> DEFINE selected == OnlySelected(kind, id)
  <1>1. /\ saved \in Selections /\ settings \in Selections /\ Savable(saved)
        /\ Savable(settings) /\ reload \in BOOLEAN /\ clear \in BOOLEAN
        /\ storage \in {"ready", "recovering", "unavailable"}
        /\ faults \in 0 .. MaxFaults
        /\ rejected \in [Kinds -> Rings] /\ total \in [Kinds -> Nat]
    BY DEF TypeOK, CardOK, LibraryOK, StorageOK, BoundsOK, TablesOK, SelectionSavable
  <1>2. rejected' \in [Kinds -> Rings]
    BY <1>1, RingsKept DEF NotifySaved
  <1>3. selected \in Selections /\ Savable(selected)
    BY OnlySelectedSavable
  <1>4. Count(kind, Listed(kind)) \in [Kinds -> Nat]
        /\ Uncounted(kind) \in [Kinds -> Nat]
    BY <1>1, CountsKept
  <1> HIDE DEF selected
  <1>5. CASE /\ storage = "ready" /\ id \in Valid(kind)
             /\ total' = Count(kind, Listed(kind))
             /\ SaveSucceeds(selected)
             /\ settings' = selected /\ reload' = TRUE /\ clear' = FALSE
    BY <1>1, <1>2, <1>3, <1>4, <1>5, SaveKeeps
  <1>6. CASE /\ storage = "ready" /\ id \in Valid(kind)
             /\ total' = Count(kind, Listed(kind))
             /\ SaveFails(selected) /\ UNCHANGED <<settings, reload, clear>>
    BY <1>1, <1>2, <1>3, <1>4, <1>6, SaveKeeps
  <1>7. CASE /\ storage = "ready" /\ id \notin Valid(kind)
             /\ total' = Count(kind, Listed(kind))
             /\ UNCHANGED <<saved, storage, faults, settings, reload, clear>>
    BY <1>1, <1>2, <1>4, <1>7
  <1>8. CASE /\ (storage # "ready" /\ UNCHANGED <<storage, faults>>) \/ DeviceLost
             /\ total' = Uncounted(kind)
             /\ UNCHANGED <<saved, settings, reload, clear>>
    BY <1>1, <1>2, <1>4, <1>8, FaultsCounted
  <1> QED
    BY <1>5, <1>6, <1>7, <1>8 DEF NotifySaved, selected

-----------------------------------------------------------------------------
(* Every step keeps the invariant.                                         *)

LEMMA InitInv == Init => Inv
  <1> SUFFICES ASSUME Init PROVE Inv
    OBVIOUS
  <1>1. CardOK
    <2>1. files \in Files
      BY DEF Init, Files
    <2>2. Listed("photo") \subseteq Ids /\ Listed("video") \subseteq Ids
      BY DEF Listed
    <2> QED
      BY <2>1, <2>2 DEF Init, CardOK, Selections
  <1>2. StorageOK /\ DisplayOK /\ UploadOK
    BY WholeValues DEF Init, StorageOK, DisplayOK, UploadOK
  <1>7. BoundsOK
    BY LibraryAssumption DEF Init, BoundsOK
  <1>3. LibraryOK /\ StepOK
    BY WholeValues DEF Init, LibraryOK, StepOK, Points
  <1>4. TablesOK
    BY WholeValues DEF Init, TablesOK
  <1>5. SelectionSavable /\ ReloadDue
    BY WholeValues DEF Init, SelectionSavable, ReloadDue
  <1>6. Deleting /\ Handling /\ NothingShownYet /\ DisplayedIsShown
    BY DEF Init, Deleting, Handling, NothingShownYet, DisplayedIsShown
  <1> QED
    BY <1>1, <1>2, <1>3, <1>4, <1>5, <1>6, <1>7 DEF Inv, TypeOK

\* A step that leaves the display alone and changes the selection, if at all,
\* together with the reload that shows it.
LEMMA DisplayLeftAlone ==
    ASSUME Inv, UNCHANGED <<displayed, frame, lost>>, storage' \in {storage, "recovering"},
           \/ reload' = TRUE /\ clear' = FALSE
           \/ settings' = settings /\ clear' = clear /\ reload' \in {reload, TRUE},
           pc \notin {"load", "boot"}, pc' \notin {"load", "boot"}
    PROVE  NothingShownYet' /\ ReloadDue' /\ DisplayedIsShown'
  <1>1. NothingShownYet'
    BY DEF Inv, NothingShownYet
  <1>4. \/ reload' = TRUE /\ clear' = FALSE
        \/ settings' = settings /\ clear' = clear /\ (reload => reload')
    BY Zenon
  <1>2. ReloadDue'
    BY <1>4 DEF Inv, ReloadDue, Wants
  <1>3. DisplayedIsShown'
    BY <1>4 DEF Inv, DisplayedIsShown
  <1> QED
    BY <1>1, <1>2, <1>3

\* Between the handling of two items nothing has to be true of an item.
LEMMA NoItemInHand ==
    ASSUME pc' \in {"idle", "import", "update"}
    PROVE  Deleting' /\ Handling'
  BY DEF Deleting, Handling

\* A browser selects an item.
LEMMA SelectRequestKeeps == ASSUME Inv, SelectRequest PROVE Inv'
  <1> USE DEF SelectRequest, Stay, stepVars, displayVars, uploadVars
  <1>1. TypeOK /\ SelectionSavable
    BY DEF Inv
  <1>2. pc = "idle" /\ storage = "ready" /\ requests' \in 0 .. MaxRequests
    BY <1>1, RequestsCounted
  <1>3. PICK kind \in Kinds, id \in Ids : Select(kind, id)
    OBVIOUS
  <1>4. OnlySelected(kind, id) \in Selections /\ Savable(OnlySelected(kind, id))
    BY OnlySelectedSavable
  <1>5. /\ saved' \in Selections /\ Savable(saved')
        /\ storage' \in {"ready", "recovering", "unavailable"}
        /\ storage' \in {storage, "recovering"}
        /\ faults' \in 0 .. MaxFaults
    BY <1>1, <1>3, <1>4, SaveKeeps DEF Select, SelectionSavable
  <1>6. \/ settings' = OnlySelected(kind, id) /\ reload' = TRUE /\ clear' = FALSE
        \/ settings' = settings /\ clear' = clear /\ reload' = reload
    BY <1>3 DEF Select
  <1>10. LibraryOK'
    BY <1>1, <1>4, <1>6 DEF TypeOK, LibraryOK
  <1>7. TypeOK'
    BY <1>1, <1>2, <1>5, <1>10 DEF TypeOK, CardOK, StorageOK, TablesOK, DisplayOK,
       UploadOK, StepOK, BoundsOK
  <1>8. SelectionSavable'
    BY <1>1, <1>4, <1>5, <1>6 DEF SelectionSavable
  <1>9. NothingShownYet' /\ ReloadDue' /\ DisplayedIsShown'
    <2>1. UNCHANGED <<displayed, frame, lost>>
      OBVIOUS
    <2>2. \/ reload' = TRUE /\ clear' = FALSE
          \/ settings' = settings /\ clear' = clear /\ reload' \in {reload, TRUE}
      BY <1>6
    <2>3. pc \notin {"load", "boot"} /\ pc' \notin {"load", "boot"}
      BY <1>2
    <2> QED
      BY <1>5, <2>1, <2>2, <2>3, DisplayLeftAlone
  <1> QED
    BY <1>2, <1>7, <1>8, <1>9, NoItemInHand DEF Inv

\* A browser starts or stops the slideshow.
LEMMA SetSlideshowKeeps ==
    ASSUME Inv, NEW enabled \in BOOLEAN, SetSlideshow(enabled)
    PROVE  Inv'
  <1> USE DEF SetSlideshow, Stay, stepVars, displayVars, uploadVars
  <1> DEFINE selected == SlideshowSettings(enabled)
  <1>1. TypeOK /\ SelectionSavable
    BY DEF Inv
  <1>2. pc = "idle" /\ storage = "ready" /\ requests' \in 0 .. MaxRequests
    BY <1>1, RequestsCounted
  <1>3. selected \in Selections /\ (selected.video # 0 => settings.video # 0)
    BY <1>1, SlideshowFits DEF TypeOK, LibraryOK
  <1>4. SaveSucceeds(selected) \/ SaveFails(selected)
    OBVIOUS
  <1>5. \/ /\ settings' = selected /\ reload' = (reload \/ selected.photo # 0)
           /\ SaveSucceeds(selected)
        \/ settings' = settings /\ reload' = reload
    OBVIOUS
  <1> HIDE DEF selected
  <1>6. /\ saved' \in Selections /\ Savable(saved')
        /\ storage' \in {"ready", "recovering", "unavailable"}
        /\ storage' \in {storage, "recovering"}
        /\ faults' \in 0 .. MaxFaults
    BY <1>1, <1>3, <1>4, SaveKeeps DEF SelectionSavable
  <1>10. settings' \in Selections /\ reload' \in BOOLEAN
    BY <1>1, <1>3, <1>5, Zenon DEF TypeOK, LibraryOK
  <1>7. TypeOK'
    BY <1>1, <1>2, <1>6, <1>10 DEF TypeOK, CardOK, StorageOK, LibraryOK,
       TablesOK, DisplayOK, UploadOK, StepOK, BoundsOK
  <1>8. SelectionSavable'
    BY <1>1, <1>5, <1>6 DEF SelectionSavable, SaveSucceeds
  <1>9. NothingShownYet' /\ ReloadDue' /\ DisplayedIsShown'
    <2>1. CASE settings' = selected /\ reload' = (reload \/ selected.photo # 0)
      <3>1. NothingShownYet'
        BY <1>2, <1>6 DEF NothingShownYet
      <3>2. reload \/ selected.photo # 0 => reload'
        BY <2>1
      <3>3. (clear /\ Wants(settings) => reload) /\ clear' = clear
        BY DEF Inv, ReloadDue
      <3>4. (clear /\ Wants(settings) => reload)'
        BY <1>3, <2>1, <3>2, <3>3 DEF Wants
      <3>5. ReloadDue'
        BY <1>2, <1>3, <1>6, <2>1, <3>2, <3>4 DEF Inv, ReloadDue
      <3>6. DisplayedIsShown'
        BY <2>1, <3>2 DEF DisplayedIsShown
      <3> QED
        BY <3>1, <3>5, <3>6
    <2>2. CASE settings' = settings /\ reload' = reload
      <3>1. UNCHANGED <<displayed, frame, lost, clear>>
        OBVIOUS
      <3>2. pc \notin {"load", "boot"} /\ pc' \notin {"load", "boot"}
        BY <1>2
      <3>3. settings' = settings /\ clear' = clear /\ reload' \in {reload, TRUE}
        BY <2>2, <3>1
      <3> QED
        BY <1>6, <3>1, <3>2, <3>3, DisplayLeftAlone
    <2> QED
      BY <1>5, <2>1, <2>2
  <1> QED
    BY <1>2, <1>7, <1>8, <1>9, NoItemInHand DEF Inv

\* A browser sets the brightness or the frame rate.
LEMMA SetDisplaySettingsKeeps == ASSUME Inv, SetDisplaySettings PROVE Inv'
  <1> USE DEF SetDisplaySettings, Stay, stepVars, libraryVars, displayVars, uploadVars
  <1>1. TypeOK /\ SelectionSavable
    BY DEF Inv
  <1>2. pc = "idle" /\ storage = "ready" /\ requests' \in 0 .. MaxRequests
    BY <1>1, RequestsCounted
  <1>3. /\ saved' \in Selections /\ Savable(saved')
        /\ storage' \in {"ready", "recovering", "unavailable"}
        /\ storage' \in {storage, "recovering"}
        /\ faults' \in 0 .. MaxFaults
    BY <1>1, SaveKeeps DEF SelectionSavable, TypeOK, LibraryOK
  <1>4. TypeOK'
    BY <1>1, <1>2, <1>3 DEF TypeOK, CardOK, StorageOK, LibraryOK,
       TablesOK, DisplayOK, UploadOK, StepOK, BoundsOK
  <1>5. SelectionSavable'
    BY <1>1, <1>3 DEF SelectionSavable
  <1>6. NothingShownYet' /\ ReloadDue' /\ DisplayedIsShown'
    <2>1. UNCHANGED <<displayed, frame, lost, settings, clear, reload>>
      OBVIOUS
    <2>2. pc \notin {"load", "boot"} /\ pc' \notin {"load", "boot"}
      BY <1>2
    <2> QED
      BY <1>3, <2>1, <2>2, DisplayLeftAlone
  <1> QED
    BY <1>2, <1>4, <1>5, <1>6, NoItemInHand DEF Inv

\* A browser deletes an item: the replacement of the selection is saved.
LEMMA RemoveKeeps == ASSUME Inv, Remove PROVE Inv'
  <1> USE DEF Remove, libraryVars, displayVars, uploadVars, Go
  <1>1. TypeOK /\ SelectionSavable
    BY DEF Inv
  <1>2. pc = "idle" /\ storage = "ready" /\ requests' \in 0 .. MaxRequests
    BY <1>1, RequestsCounted
  <1>3. PICK kind \in Kinds, id \in Ids :
           /\ \/ /\ pc' = "delete"
                 /\ task' = [kind |-> kind, id |-> id,
                             selected |-> Replacement(kind, id)]
                 /\ settings[kind] = id => saved' = Replacement(kind, id)
              \/ pc' = pc /\ task' = task
           /\ \/ SaveSucceeds(Replacement(kind, id)) \/ SaveFails(Replacement(kind, id))
              \/ UNCHANGED <<saved, storage, faults>>
    BY DEF Listed, SaveSucceeds
  <1> DEFINE selected == Replacement(kind, id)
             delete == [kind |-> kind, id |-> id, selected |-> selected]
  <1>5. settings \in Selections /\ Savable(settings)
    BY <1>1 DEF TypeOK, LibraryOK, SelectionSavable
  <1>6. /\ selected \in Selections /\ Savable(selected) /\ selected[kind] # id
        /\ selected.video # 0 => settings.video # 0
        /\ selected.photo # 0 => Wants(settings)
    BY <1>5, ReplacementFits
  <1>7. /\ delete \in Tasks /\ delete.kind = kind /\ delete.id = id
        /\ delete.selected = selected
    BY <1>6, DeletionTask
  <1>8. \/ pc' = "delete" /\ task' = delete
           /\ (settings[kind] = id => saved' = selected)
        \/ pc' = pc /\ task' = task
    BY <1>3
  <1>9. SaveSucceeds(selected) \/ SaveFails(selected)
        \/ UNCHANGED <<saved, storage, faults>>
    BY <1>3
  <1> HIDE DEF selected, delete
  <1>10. /\ saved' \in Selections /\ Savable(saved')
         /\ storage' \in {"ready", "recovering", "unavailable"}
         /\ storage' \in {storage, "recovering"}
         /\ faults' \in 0 .. MaxFaults
    <2>1. CASE UNCHANGED <<saved, storage, faults>>
      BY <1>1, <2>1 DEF TypeOK, CardOK, StorageOK, BoundsOK, SelectionSavable
    <2>2. CASE SaveSucceeds(selected) \/ SaveFails(selected)
      BY <1>1, <1>6, <2>2, SaveKeeps DEF SelectionSavable
    <2> QED
      BY <1>9, <2>1, <2>2
  <1>11. UNCHANGED <<settings, reload, clear, displayed, frame, lost>>
    OBVIOUS
  <1>12. TypeOK'
    BY <1>1, <1>2, <1>7, <1>8, <1>10 DEF TypeOK, CardOK, StorageOK, LibraryOK,
       TablesOK, DisplayOK, UploadOK, StepOK, BoundsOK, Points
  <1>13. SelectionSavable'
    BY <1>1, <1>6, <1>7, <1>8, <1>10 DEF SelectionSavable
  <1>14. Deleting'
    BY <1>2, <1>6, <1>7, <1>8, <1>11 DEF Deleting, Wants
  <1>15. Handling' /\ pc' \notin {"load", "boot"} /\ pc \notin {"load", "boot"}
    BY <1>2, <1>8 DEF Handling
  <1>16. NothingShownYet' /\ ReloadDue' /\ DisplayedIsShown'
    BY <1>10, <1>11, <1>15, DisplayLeftAlone
  <1> QED
    BY <1>12, <1>13, <1>14, <1>15, <1>16 DEF Inv

\* The file is deleted and the replacement adopted.
LEMMA DeleteKeeps == ASSUME Inv, Delete PROVE Inv'
  <1> USE DEF Delete, displayVars, uploadVars, Go
  <1>1. TypeOK /\ SelectionSavable
    BY DEF Inv
  <1>2. /\ task.kind \in Kinds /\ task.id \in Ids
        /\ task.selected.video # 0 => settings.video # 0
        /\ task.selected.photo # 0 => Wants(settings)
    BY DEF Inv, Deleting
  <1>3. task.selected \in Selections /\ Savable(task.selected)
    BY <1>1 DEF TypeOK, StepOK, Tasks, SelectionSavable
  <1>4. files' \in Files
    BY <1>1, <1>2, FilesKept DEF TypeOK, CardOK, FileStates
  <1>5. rejected' \in [Kinds -> Rings]
    BY <1>1, <1>2, RingsKept DEF TypeOK, TablesOK
  <1>6. /\ storage' \in {"ready", "recovering"} /\ faults' \in 0 .. MaxFaults
        /\ total' \in [Kinds -> Nat]
    <2>1. faults \in 0 .. MaxFaults /\ total \in [Kinds -> Nat]
      BY <1>1 DEF TypeOK, BoundsOK, TablesOK
    <2>2. Count(task.kind, Listed(task.kind) \ {task.id}) \in [Kinds -> Nat]
          /\ Uncounted(task.kind) \in [Kinds -> Nat]
      BY <1>2, <2>1, CountsKept
    <2> QED
      BY <1>1, <2>1, <2>2, FaultsCounted
  <1>7. \/ /\ displayed' \in {0, displayed}
           /\ reload' = Wants(task.selected) /\ clear' = ~Wants(task.selected)
        \/ displayed' = displayed /\ reload' = reload /\ clear' = clear
    OBVIOUS
  <1>8. /\ pc = "delete" /\ pc' = "idle" /\ storage = "ready"
        /\ settings' = task.selected /\ task' = NoTask
        /\ UNCHANGED <<saved, lost, frame>>
    OBVIOUS
  <1>9. LibraryOK'
    <2>1. Wants(task.selected) \in BOOLEAN /\ (~Wants(task.selected)) \in BOOLEAN
      BY Zenon DEF Wants
    <2>2. reload \in BOOLEAN /\ clear \in BOOLEAN /\ displayed \in Ids \cup {0}
      BY <1>1 DEF TypeOK, LibraryOK
    <2>3. reload' \in BOOLEAN /\ clear' \in BOOLEAN
      BY <1>7, <2>1, <2>2, Zenon
    <2>4. displayed' \in Ids \cup {0}
      BY <1>7, <2>2
    <2> QED
      BY <1>3, <1>8, <2>3, <2>4 DEF LibraryOK
  <1>10. TypeOK'
    BY <1>1, <1>4, <1>5, <1>6, <1>8, <1>9, WholeValues DEF TypeOK, CardOK, StorageOK,
       TablesOK, DisplayOK, UploadOK, StepOK, BoundsOK, Points
  <1>11. SelectionSavable'
    BY <1>1, <1>3, <1>8, WholeValues DEF SelectionSavable
  <1>12. Wants(task.selected) => Wants(settings)
    BY <1>2 DEF Wants
  <1>13. NothingShownYet' /\ ReloadDue' /\ DisplayedIsShown'
    <2>1. NothingShownYet'
      BY <1>6, <1>8 DEF NothingShownYet
    <2>2. CASE reload' = Wants(task.selected) /\ clear' = ~Wants(task.selected)
      <3>1. (reload <=> Wants(settings))'
        BY <1>8, <2>2, Zenon
      <3>2. (settings.photo # 0 \/ settings.video # 0 => reload)'
        BY <3>1 DEF Wants
      <3> QED
        BY <2>1, <3>1, <3>2 DEF ReloadDue, DisplayedIsShown
    <2>3. CASE displayed' = displayed /\ reload' = reload /\ clear' = clear
      <3>1. storage = "ready" /\ ~lost /\ ~reload /\ settings.video # 0 => displayed = 0
        BY <1>8 DEF Inv, ReloadDue
      <3>2. storage = "ready" /\ ~lost /\ ~reload /\ Wants(settings) /\ displayed # 0
              => frame \in {Item("photo", displayed), LiveFrame, TornFrame}
        BY <1>8, <3>1 DEF Inv, DisplayedIsShown, Wants
      <3>3. clear /\ Wants(settings) => reload
        BY DEF Inv, ReloadDue
      <3>4. ReloadDue'
        BY <1>2, <1>8, <1>12, <2>3, <3>1, <3>3 DEF ReloadDue
      <3>5. DisplayedIsShown'
        BY <1>2, <1>8, <2>3, <3>2 DEF DisplayedIsShown
      <3> QED
        BY <2>1, <3>4, <3>5
    <2> QED
      BY <1>7, <2>2, <2>3
  <1> QED
    BY <1>8, <1>10, <1>11, <1>13, NoItemInHand DEF Inv

\* The deletion fails.
LEMMA DeleteFailsKeeps == ASSUME Inv, DeleteFails PROVE Inv'
  <1> USE DEF DeleteFails, libraryVars, displayVars, uploadVars, Go
  <1>1. TypeOK /\ SelectionSavable
    BY DEF Inv
  <1>2. task.kind \in Kinds /\ task.id \in Ids
    BY DEF Inv, Deleting
  <1>3. files' \in Files
    <2>1. files \in Files
      BY <1>1 DEF TypeOK, CardOK
    <2>2. [files EXCEPT ![task.kind][task.id] = "none"] \in Files
      BY <1>2, <2>1, FilesKept DEF FileStates
    <2> QED
      BY <2>1, <2>2
  <1>4. /\ storage' \in {"ready", "recovering"} /\ faults' \in 0 .. MaxFaults
        /\ storage' \in {storage, "recovering"}
    BY <1>1, FaultsCounted
  <1>5. /\ pc = "delete" /\ pc' = "idle" /\ task' = NoTask
        /\ UNCHANGED <<settings, reload, clear, displayed, frame, lost, saved>>
    OBVIOUS
  <1>6. TypeOK'
    BY <1>1, <1>3, <1>4, WholeValues DEF TypeOK, CardOK, StorageOK, LibraryOK,
       TablesOK, DisplayOK, UploadOK, StepOK, BoundsOK, Points
  <1>7. SelectionSavable'
    BY <1>1, <1>5, WholeValues DEF SelectionSavable
  <1>8. NothingShownYet' /\ ReloadDue' /\ DisplayedIsShown'
    BY <1>4, <1>5, DisplayLeftAlone
  <1> QED
    BY <1>5, <1>6, <1>7, <1>8, NoItemInHand DEF Inv

\* A browser upload was saved.
LEMMA HttpUploadSavedKeeps == ASSUME Inv, HttpUploadSaved PROVE Inv'
  <1> USE DEF HttpUploadSaved, storageVars, libraryVars, displayVars, Go
  <1>1. TypeOK /\ SelectionSavable
    BY DEF Inv
  <1>2. pc = "idle" /\ storage = "ready" /\ requests' \in 0 .. MaxRequests
    BY <1>1, RequestsCounted
  <1>3. PICK kind \in Kinds, id \in Ids :
           /\ files' = [files EXCEPT ![kind][id] = "good"]
           /\ task' = [NoTask EXCEPT !.kind = kind, !.id = id]
    BY Zenon DEF NewId, AddFile
  <1>4. files' \in Files
    BY <1>1, <1>3, FilesKept DEF TypeOK, CardOK, FileStates
  <1>5. /\ task' \in Tasks /\ task'.kind = kind /\ task'.id = id
        /\ task'.selected = NoSelection
    <2> DEFINE told == [NoTask EXCEPT !.kind = kind, !.id = id]
    <2>1. told \in Tasks /\ told.kind = kind /\ told.id = id
          /\ told.selected = NoSelection
      BY ItemTask, Zenon
    <2> HIDE DEF told
    <2>2. task' = told
      BY <1>3 DEF told
    <2> QED
      BY <2>1, <2>2
  <1>6. /\ UNCHANGED <<settings, reload, clear, displayed, frame, lost, saved, storage>>
        /\ pc' = "notify"
    OBVIOUS
  <1>7. TypeOK'
    BY <1>1, <1>2, <1>4, <1>5, <1>6 DEF TypeOK, CardOK, StorageOK, LibraryOK,
       TablesOK, DisplayOK, UploadOK, StepOK, BoundsOK, Points
  <1>8. SelectionSavable'
    BY <1>1, <1>5, <1>6, WholeValues DEF SelectionSavable
  <1>9. Deleting' /\ Handling'
    BY <1>5, <1>6 DEF Deleting, Handling
  <1>10. NothingShownYet' /\ ReloadDue' /\ DisplayedIsShown'
    BY <1>2, <1>6, DisplayLeftAlone
  <1> QED
    BY <1>7, <1>8, <1>9, <1>10 DEF Inv

\* The library is told of the upload.
LEMMA NotifyStepKeeps == ASSUME Inv, Notify PROVE Inv'
  <1> USE DEF Notify, displayVars, uploadVars, Go
  <1>1. TypeOK /\ SelectionSavable
    BY DEF Inv
  <1>2. task.kind \in Kinds /\ task.id \in Ids
    BY DEF Inv, Handling
  <1>3. /\ saved' \in Selections /\ Savable(saved')
        /\ storage' \in {"ready", "recovering", "unavailable"}
        /\ storage' \in {storage, "recovering"}
        /\ faults' \in 0 .. MaxFaults
        /\ rejected' \in [Kinds -> Rings] /\ total' \in [Kinds -> Nat]
        /\ settings' \in Selections /\ Savable(settings')
        /\ reload' \in BOOLEAN /\ clear' \in BOOLEAN
        /\ \/ reload' = TRUE /\ clear' = FALSE
           \/ settings' = settings /\ reload' = reload /\ clear' = clear
    BY <1>1, <1>2, NotifyKeeps
  <1>4. /\ UNCHANGED <<displayed, frame, lost>> /\ pc = "notify" /\ pc' = "idle"
        /\ task' = NoTask
    OBVIOUS
  <1>5. TypeOK'
    BY <1>1, <1>3, <1>4, WholeValues DEF TypeOK, CardOK, StorageOK, LibraryOK,
       TablesOK, DisplayOK, UploadOK, StepOK, BoundsOK, Points
  <1>6. SelectionSavable'
    BY <1>3, <1>4, WholeValues DEF SelectionSavable
  <1>7. NothingShownYet' /\ ReloadDue' /\ DisplayedIsShown'
    BY <1>3, <1>4, DisplayLeftAlone
  <1> QED
    BY <1>4, <1>5, <1>6, <1>7, NoItemInHand DEF Inv

\* A video received over TCP was saved.
LEMMA TcpVideoSavedKeeps == ASSUME Inv, TcpVideoSaved PROVE Inv'
  <1> USE DEF TcpVideoSaved, storageVars, libraryVars, displayVars, Stay, stepVars
  <1>1. TypeOK /\ SelectionSavable
    BY DEF Inv
  <1>2. pc = "idle" /\ storage = "ready" /\ requests' \in 0 .. MaxRequests
    BY <1>1, RequestsCounted
  <1>3. PICK id \in Ids : /\ files' = [files EXCEPT !["video"][id] = "good"]
                          /\ tcpVideo' = id
    BY DEF NewId, AddFile
  <1>4. files' \in Files
    BY <1>1, <1>3, FilesKept DEF TypeOK, CardOK, FileStates, Kinds
  <1>5. UNCHANGED <<settings, reload, clear, displayed, frame, lost, saved, storage,
                    pc, task>>
    OBVIOUS
  <1>6. TypeOK'
    BY <1>1, <1>2, <1>3, <1>4, <1>5 DEF TypeOK, CardOK, StorageOK, LibraryOK,
       TablesOK, DisplayOK, UploadOK, StepOK, BoundsOK
  <1>7. SelectionSavable'
    BY <1>1, <1>5 DEF SelectionSavable
  <1>8. NothingShownYet' /\ ReloadDue' /\ DisplayedIsShown'
    BY <1>2, <1>5, DisplayLeftAlone
  <1> QED
    BY <1>2, <1>5, <1>6, <1>7, <1>8, NoItemInHand DEF Inv

\* An upload ended without a saved item.
LEMMA UploadFailsKeeps == ASSUME Inv, UploadFails PROVE Inv'
  <1> USE DEF UploadFails, cardVars, storageVars, libraryVars, displayVars, Stay,
          stepVars
  <1>1. TypeOK /\ SelectionSavable
    BY DEF Inv
  <1>2. pc = "idle" /\ requests' \in 0 .. MaxRequests
    BY <1>1, RequestsCounted
  <1>3. UNCHANGED <<settings, reload, clear, displayed, frame, lost, saved, storage,
                    pc, task>>
    OBVIOUS
  <1>4. TypeOK'
    BY <1>1, <1>2, <1>3 DEF TypeOK, CardOK, StorageOK, LibraryOK,
       TablesOK, DisplayOK, UploadOK, StepOK, BoundsOK
  <1>5. SelectionSavable'
    BY <1>1, <1>3 DEF SelectionSavable
  <1>6. NothingShownYet' /\ ReloadDue' /\ DisplayedIsShown'
    BY <1>2, <1>3, DisplayLeftAlone
  <1> QED
    BY <1>2, <1>3, <1>4, <1>5, <1>6, NoItemInHand DEF Inv

\* A raw photo arrived in the framebuffer: the frame is live.
LEMMA PhotoArrivesKeeps == ASSUME Inv, PhotoArrives PROVE Inv'
  <1> USE DEF PhotoArrives, RawUpload, cardVars, storageVars, libraryVars, Stay, stepVars
  <1>1. TypeOK /\ SelectionSavable
    BY DEF Inv
  <1>2. pc = "idle" /\ requests' \in 0 .. MaxRequests
    BY <1>1, RequestsCounted
  <1>3. UNCHANGED <<settings, reload, clear, displayed, lost, saved, storage, pc, task>>
    OBVIOUS
  <1>4. TypeOK'
    BY <1>1, <1>2, <1>3, WholeValues DEF TypeOK, CardOK, StorageOK, LibraryOK,
       TablesOK, DisplayOK, UploadOK, StepOK, BoundsOK
  <1>5. SelectionSavable'
    BY <1>1, <1>3 DEF SelectionSavable
  <1>6. NothingShownYet' /\ ReloadDue'
    BY <1>3 DEF Inv, NothingShownYet, ReloadDue, Wants
  <1>7. DisplayedIsShown'
    BY DEF DisplayedIsShown
  <1> QED
    BY <1>2, <1>3, <1>4, <1>5, <1>6, <1>7, NoItemInHand DEF Inv

\* A raw photo's client went away: the frame it wrote into is gone.
LEMMA PhotoAbortedKeeps == ASSUME Inv, PhotoAborted PROVE Inv'
  <1> USE DEF PhotoAborted, RawUpload, cardVars, storageVars, libraryVars, uploadVars,
          Stay, stepVars
  <1>1. TypeOK /\ SelectionSavable
    BY DEF Inv
  <1>2. pc = "idle" /\ requests' \in 0 .. MaxRequests
    BY <1>1, RequestsCounted
  <1>3. UNCHANGED <<settings, reload, clear, displayed, lost, saved, storage, pc, task>>
    OBVIOUS
  <1>4. TypeOK'
    BY <1>1, <1>2, <1>3, WholeValues DEF TypeOK, CardOK, StorageOK, LibraryOK,
       TablesOK, DisplayOK, UploadOK, StepOK, BoundsOK
  <1>5. SelectionSavable'
    BY <1>1, <1>3 DEF SelectionSavable
  <1>6. NothingShownYet' /\ ReloadDue'
    BY <1>3 DEF Inv, NothingShownYet, ReloadDue, Wants
  <1>7. DisplayedIsShown'
    BY DEF DisplayedIsShown
  <1> QED
    BY <1>2, <1>3, <1>4, <1>5, <1>6, <1>7, NoItemInHand DEF Inv

\* A render claim leaves a photo that is held or free, if there is one.
LEMMA ReleasedKept == ASSUME UploadOK PROVE Released \in {"none", "held", "free"}
  BY DEF UploadOK, Released

\* The card is given up, or comes back: before it was read no photo is displayed.
LEMMA UpdateMemoryKeeps == ASSUME Inv, UpdateMemory PROVE Inv'
  <1> USE DEF UpdateMemory, cardVars, libraryVars, displayVars, uploadVars, boundVars,
          Stay, stepVars
  <1>1. TypeOK /\ SelectionSavable /\ NothingShownYet /\ ReloadDue
    BY DEF Inv
  <1>2. UNCHANGED <<settings, reload, clear, displayed, frame, saved, pc, task>>
        /\ pc = "idle"
    OBVIOUS
  <1>3. \/ storage' = "unavailable" /\ lost' = TRUE
        \/ storage = "unavailable" /\ storage' = "ready" /\ lost' = lost
    OBVIOUS
  <1>4. TypeOK'
    <2>1. CardOK' /\ StorageOK' /\ LibraryOK'
      BY <1>1, <1>2, <1>3 DEF TypeOK, CardOK, StorageOK, LibraryOK
    <2>2. TablesOK' /\ DisplayOK' /\ UploadOK'
      BY <1>1, <1>2, <1>3 DEF TypeOK, TablesOK, DisplayOK, UploadOK
    <2>3. StepOK' /\ BoundsOK'
      BY <1>1, <1>2, <1>3 DEF TypeOK, StepOK, BoundsOK, Points
    <2> QED
      BY <2>1, <2>2, <2>3 DEF TypeOK
  <1>5. SelectionSavable'
    BY <1>1, <1>2 DEF SelectionSavable
  <1>6. NothingShownYet'
    BY <1>2, <1>3 DEF NothingShownYet
  <1>7. ReloadDue'
    BY <1>1, <1>2, <1>3 DEF NothingShownYet, ReloadDue, Wants
  <1>8. DisplayedIsShown'
    BY <1>1, <1>2, <1>3 DEF NothingShownYet, DisplayedIsShown
  <1> QED
    BY <1>2, <1>4, <1>5, <1>6, <1>7, <1>8, NoItemInHand DEF Inv

\* Looking for a clip of an older firmware keeps the card's shape, and leaves a
\* selection that can be saved.
LEMMA AdoptClipKeeps ==
    ASSUME TypeOK, SelectionSavable, AdoptClip
    PROVE  /\ CardOK' /\ Savable(saved')
           /\ settings' \in Selections /\ Savable(settings')
           /\ storage' \in {"ready", "recovering"} /\ faults' \in 0 .. MaxFaults
  <1> DEFINE repaired == Repaired(saved)
  <1>1. /\ saved \in Selections /\ Savable(saved) /\ files \in Files
        /\ legacy \in BOOLEAN /\ faults \in 0 .. MaxFaults
    BY DEF TypeOK, CardOK, BoundsOK, SelectionSavable
  <1>2. repaired \in Selections /\ Savable(repaired)
    BY <1>1, RepairSavable
  <1>3. Fault => faults' \in 0 .. MaxFaults
    BY FaultsCounted
  <1>4. \A id \in Ids : AddFile("video", id) => files' \in Files
    BY <1>1, FilesKept DEF AddFile, Kinds, FileStates
  <1>5. NewId("video") \subseteq Ids
    BY DEF NewId
  <1>6. \A id \in Ids : /\ OnlySelected("video", id) \in Selections
                       /\ Savable(OnlySelected("video", id))
    BY OnlySelectedSavable DEF Kinds
  <1> HIDE DEF repaired
  <1>7. CASE /\ legacy' = FALSE /\ settings' = repaired
             /\ storage' = "ready" /\ UNCHANGED <<files, saved, faults>>
    BY <1>1, <1>2, <1>7 DEF CardOK
  <1>8. ASSUME NEW id \in NewId("video"), legacy' = FALSE, AddFile("video", id),
               \/ /\ settings' = repaired
                  /\ storage' = "ready" /\ UNCHANGED <<saved, faults>>
               \/ /\ settings' = OnlySelected("video", id)
                  /\ saved' = OnlySelected("video", id)
                  /\ storage' = "ready" /\ UNCHANGED faults
               \/ /\ settings' = repaired
                  /\ Fault /\ saved' \in {saved, OnlySelected("video", id)}
                  /\ storage' \in {"ready", "recovering"}
        PROVE  /\ CardOK' /\ Savable(saved')
               /\ settings' \in Selections /\ Savable(settings')
               /\ storage' \in {"ready", "recovering"} /\ faults' \in 0 .. MaxFaults
    <2>1. id \in Ids
      BY <1>5
    <2>2. files' \in Files
      BY <1>4, <1>8, <2>1
    <2>3. OnlySelected("video", id) \in Selections /\ Savable(OnlySelected("video", id))
      BY <1>6, <2>1
    <2> QED
      BY <1>1, <1>2, <1>3, <1>8, <2>2, <2>3 DEF CardOK
  <1>9. CASE /\ settings' = repaired
             /\ files' = files \/ \E id \in NewId("video") : AddFile("video", id)
             /\ Fault /\ storage' \in {"ready", "recovering"}
             /\ UNCHANGED <<saved, legacy>>
    <2>1. files' \in Files
      BY <1>1, <1>4, <1>5, <1>9
    <2> QED
      BY <1>1, <1>2, <1>3, <1>9, <2>1 DEF CardOK
  <1> QED
    BY <1>7, <1>8, <1>9, Zenon DEF AdoptClip, repaired

\* Reading a card's selection: it can be saved, and a reload is due if it
\* selects anything.
LEMMA InitializeKeeps ==
    ASSUME TypeOK, SelectionSavable, Initialize
    PROVE  /\ CardOK' /\ Savable(saved') /\ TablesOK'
           /\ settings' \in Selections /\ Savable(settings')
           /\ storage' \in {"ready", "recovering"} /\ faults' \in 0 .. MaxFaults
           /\ reload' \in BOOLEAN /\ displayed' = 0
           /\ (settings'.photo # 0 \/ settings'.video # 0 => reload')
  <1>1. /\ CardOK' /\ Savable(saved')
        /\ settings' \in Selections /\ Savable(settings')
        /\ storage' \in {"ready", "recovering"} /\ faults' \in 0 .. MaxFaults
    BY AdoptClipKeeps DEF Initialize
  <1>2. total' \in [Kinds -> Nat]
    <2> DEFINE seen == IF legacy' THEN files ELSE files'
               listed(kind) == {i \in Ids : seen[kind][i] # "none"}
    <2>1. \A kind \in Kinds : listed(kind) \subseteq Ids
      OBVIOUS
    <2>2. total' = [kind \in Kinds |-> Cardinality(listed(kind))]
      BY DEF Initialize
    <2> HIDE DEF listed
    <2>3. \A kind \in Kinds : Cardinality(listed(kind)) \in Nat
      BY <2>1, LibraryAssumption, FS_Subset, FS_CardinalityType
    <2> QED
      BY <2>2, <2>3
  <1>3. TablesOK' /\ displayed' = 0
    BY <1>2, WholeValues DEF Initialize, TablesOK
  <1>4. reload' = Wants(settings')
    BY DEF Initialize
  <1>5. reload' \in BOOLEAN /\ (settings'.photo # 0 \/ settings'.video # 0 => reload')
    BY <1>4, Zenon DEF Wants
  <1> QED
    BY <1>1, <1>3, <1>5

\* Reading a card's selection fails: nothing counts as rejected any more.
LEMMA InitializeFailsKeeps ==
    ASSUME TypeOK, SelectionSavable, InitializeFails
    PROVE  CardOK' /\ Savable(saved') /\ TablesOK'
  <1>1. total \in [Kinds -> Nat] /\ CardOK /\ Savable(saved)
    BY DEF TypeOK, TablesOK, SelectionSavable
  <1>2. PICK counted \in SUBSET Kinds :
           total' = [kind \in Kinds |-> IF kind \in counted
                                       THEN Cardinality(Listed(kind)) ELSE 0]
    BY Zenon DEF InitializeFails
  <1>3. \A kind \in Kinds : Cardinality(Listed(kind)) \in Nat
    BY <1>1, CountsKept
  <1>4. total' \in [Kinds -> Nat]
    BY <1>2, <1>3
  <1> QED
    BY <1>1, <1>4, WholeValues DEF InitializeFails, CardOK, TablesOK

\* The library learns of the card's loss or return.
LEMMA ReselectKeeps == ASSUME Inv, Reselect PROVE Inv'
  <1> USE DEF Reselect, Stay, stepVars
  <1>1. TypeOK /\ SelectionSavable
    BY DEF Inv
  <1>2. UNCHANGED <<pc, task, tried, adopt, tcpVideo, requests>> /\ pc = "idle"
        /\ lost' = FALSE /\ restored' = FALSE
    OBVIOUS
  <1>3. playing' \in Ids \cup {0} /\ frame' \in Frames
    <2>1. playing \in Ids \cup {0} /\ frame \in Frames
      BY <1>1 DEF TypeOK, DisplayOK
    <2>2. DroppedFrame \in Frames
      BY <2>1, WholeValues DEF DroppedFrame
    <2> QED
      BY <2>1, <2>2
  <1>4. arrived' \in {"none", "held", "free"}
    BY <1>1, ReleasedKept DEF TypeOK
  <1>5. \/ /\ DropMedia /\ again' = FALSE /\ total' = NothingListed
           /\ UNCHANGED <<cardVars, storage, rejected, faults>>
        \/ /\ storage = "ready" /\ Initialize /\ clear' = (clear /\ ~lost)
           /\ again' = IF Wants(settings') THEN again /\ ~lost ELSE TRUE
        \/ /\ InitializeFails /\ again' = (again /\ ~lost)
           /\ (storage # "ready" /\ UNCHANGED <<storage, faults>>) \/ DeviceLost
           /\ \/ DropMedia
              \/ /\ ~lost /\ frame' = frame
                 /\ UNCHANGED <<settings, reload, clear, displayed>>
    OBVIOUS
  <1> HIDE DEF Reselect
  <1>6. /\ clear \in BOOLEAN /\ reload \in BOOLEAN /\ again \in BOOLEAN
        /\ lost \in BOOLEAN /\ faults \in 0 .. MaxFaults
        /\ storage \in {"ready", "recovering", "unavailable"} /\ CardOK
        /\ rejected \in [Kinds -> Rings]
    BY <1>1 DEF TypeOK, LibraryOK, DisplayOK, StorageOK, BoundsOK, TablesOK
  <1>7. again' \in BOOLEAN
    BY <1>5, <1>6, Zenon
  <1>8. DropMedia => LibraryOK' /\ Savable(settings') /\ displayed' = 0
                     /\ settings'.photo = 0 /\ settings'.video = 0
    BY WholeValues DEF DropMedia, LibraryOK
  <1>9. /\ LibraryOK' /\ TablesOK' /\ CardOK' /\ Savable(settings') /\ Savable(saved')
        /\ storage' \in {storage, "recovering"} /\ faults' \in 0 .. MaxFaults
        /\ \/ /\ displayed' = 0 /\ (settings'.photo # 0 \/ settings'.video # 0 => reload')
           \/ /\ ~lost /\ UNCHANGED <<settings, reload, clear, displayed, frame>>
              /\ storage' # "ready"
    <2>1. CASE /\ DropMedia /\ total' = NothingListed
               /\ UNCHANGED <<cardVars, storage, rejected, faults>>
      <3>1. CardOK' /\ Savable(saved')
        BY <1>1, <2>1 DEF TypeOK, CardOK, cardVars, SelectionSavable
      <3>2. TablesOK'
        BY <1>6, <2>1, WholeValues DEF TablesOK
      <3> QED
        BY <1>6, <1>8, <2>1, <3>1, <3>2
    <2>2. CASE storage = "ready" /\ Initialize /\ clear' = (clear /\ ~lost)
      <3>1. clear' \in BOOLEAN
        BY <1>6, <2>2, Zenon
      <3>2. /\ CardOK' /\ Savable(saved') /\ TablesOK'
            /\ settings' \in Selections /\ Savable(settings')
            /\ storage' \in {"ready", "recovering"} /\ faults' \in 0 .. MaxFaults
            /\ reload' \in BOOLEAN /\ displayed' = 0
            /\ (settings'.photo # 0 \/ settings'.video # 0 => reload')
        BY <1>1, <2>2, InitializeKeeps
      <3> QED
        BY <2>2, <3>1, <3>2 DEF LibraryOK
    <2>3. CASE /\ InitializeFails
               /\ (storage # "ready" /\ UNCHANGED <<storage, faults>>) \/ DeviceLost
               /\ \/ DropMedia
                  \/ /\ ~lost /\ frame' = frame
                     /\ UNCHANGED <<settings, reload, clear, displayed>>
      <3>1. CardOK' /\ Savable(saved') /\ TablesOK'
        BY <1>1, <2>3, InitializeFailsKeeps
      <3>2. storage' \in {storage, "recovering"} /\ storage' # "ready"
            /\ faults' \in 0 .. MaxFaults
        BY <1>1, <1>6, <2>3, FaultsCounted
      <3>3. CASE DropMedia
        BY <1>8, <3>1, <3>2, <3>3
      <3>4. CASE ~lost /\ UNCHANGED <<settings, reload, clear, displayed, frame>>
        BY <1>1, <3>1, <3>2, <3>4 DEF TypeOK, LibraryOK, SelectionSavable
      <3> QED
        BY <2>3, <3>3, <3>4
    <2> QED
      BY <1>5, <2>1, <2>2, <2>3
  <1>10. TypeOK'
    BY <1>1, <1>2, <1>3, <1>4, <1>6, <1>7, <1>9 DEF TypeOK, StorageOK,
       DisplayOK, UploadOK, StepOK, BoundsOK
  <1>11. SelectionSavable'
    BY <1>1, <1>2, <1>9 DEF SelectionSavable
  <1>12. NothingShownYet' /\ ReloadDue' /\ DisplayedIsShown'
    <2>1. CASE displayed' = 0 /\ (settings'.photo # 0 \/ settings'.video # 0 => reload')
      BY <1>2, <2>1 DEF NothingShownYet, ReloadDue, DisplayedIsShown, Wants
    <2>2. CASE /\ ~lost /\ UNCHANGED <<settings, reload, clear, displayed, frame>>
               /\ storage' # "ready"
      <3>1. NothingShownYet'
        BY <1>2, <1>9, <2>2 DEF Inv, NothingShownYet
      <3> QED
        BY <2>2, <3>1 DEF Inv, ReloadDue, DisplayedIsShown, Wants
    <2> QED
      BY <1>9, <2>1, <2>2
  <1> QED
    BY <1>2, <1>10, <1>11, <1>12, NoItemInHand DEF Inv

\* Media saved by an upload is adopted.
LEMMA AdoptKeeps == ASSUME Inv, Adopt PROVE Inv'
  <1> USE DEF Adopt, Go
  <1>1. TypeOK /\ SelectionSavable
    BY DEF Inv
  <1>2. /\ UNCHANGED <<files, legacy, lost, restored, displayed, playing, frame, adopt,
                       task, tried, requests>>
        /\ pc = "idle" /\ pc' = "import" /\ arrived' = Released
    OBVIOUS
  <1>8. arrived' \in {"none", "held", "free"}
    BY <1>1, <1>2, ReleasedKept DEF TypeOK
  <1>3. reload \in BOOLEAN /\ again \in BOOLEAN
    BY <1>1 DEF TypeOK, LibraryOK, DisplayOK
  <1>4. /\ saved' \in Selections /\ Savable(saved')
        /\ storage' \in {"ready", "recovering", "unavailable"}
        /\ storage' \in {storage, "recovering"}
        /\ faults' \in 0 .. MaxFaults
        /\ rejected' \in [Kinds -> Rings] /\ total' \in [Kinds -> Nat]
        /\ settings' \in Selections /\ Savable(settings')
        /\ reload' \in BOOLEAN /\ clear' \in BOOLEAN
        /\ \/ reload' = TRUE /\ clear' = FALSE
           \/ settings' = settings /\ clear' = clear /\ reload' \in {reload, TRUE}
        /\ tcpVideo' \in Ids \cup {0} /\ again' \in BOOLEAN
    <2>1. CASE adopt /\ tcpVideo # 0 /\ tcpVideo' = 0
               /\ NotifySaved("video", tcpVideo) /\ again' = again
      <3>1. tcpVideo \in Ids /\ "video" \in Kinds
        BY <1>1, <2>1 DEF TypeOK, UploadOK, Kinds
      <3>2. /\ saved' \in Selections /\ Savable(saved')
            /\ storage' \in {"ready", "recovering", "unavailable"}
            /\ storage' \in {storage, "recovering"}
            /\ faults' \in 0 .. MaxFaults
            /\ rejected' \in [Kinds -> Rings] /\ total' \in [Kinds -> Nat]
            /\ settings' \in Selections /\ Savable(settings')
            /\ reload' \in BOOLEAN /\ clear' \in BOOLEAN
            /\ \/ reload' = TRUE /\ clear' = FALSE
               \/ settings' = settings /\ reload' = reload /\ clear' = clear
        BY <1>1, <2>1, <3>1, NotifyKeeps
      <3> QED
        BY <1>3, <2>1, <3>2
    <2>2. CASE /\ reload' = (reload \/ (adopt /\ Wants(settings)))
               /\ again' = (again \/ (adopt /\ ~Wants(settings)))
               /\ UNCHANGED <<saved, storage, faults, settings, clear, rejected, total,
                              tcpVideo>>
      <3>1. again' \in BOOLEAN
        BY <1>3, <2>2, Zenon
      <3>2. reload' \in BOOLEAN /\ reload' \in {reload, TRUE}
        <4>1. reload' = (reload \/ (adopt /\ Wants(settings)))
          BY <2>2
        <4>2. reload' \in {TRUE, FALSE} /\ (reload => reload' = TRUE)
          BY <4>1, Zenon
        <4>3. reload' \in BOOLEAN
          BY <4>2
        <4> QED
          BY <1>3, <4>2, <4>3, Zenon
      <3> QED
        BY <1>1, <2>2, <3>1, <3>2 DEF TypeOK, CardOK, StorageOK, LibraryOK, TablesOK,
           UploadOK, BoundsOK, SelectionSavable
    <2> QED
      BY <2>1, <2>2
  <1> HIDE DEF Adopt
  <1>5. TypeOK'
    BY <1>1, <1>2, <1>4, <1>8 DEF TypeOK, CardOK, StorageOK, LibraryOK,
       TablesOK, DisplayOK, UploadOK, StepOK, BoundsOK, Points
  <1>6. SelectionSavable'
    BY <1>1, <1>2, <1>4 DEF SelectionSavable
  <1>7. NothingShownYet' /\ ReloadDue' /\ DisplayedIsShown'
    BY <1>2, <1>4, DisplayLeftAlone
  <1> QED
    BY <1>2, <1>5, <1>6, <1>7, NoItemInHand DEF Inv

\* No live photo has to be imported.
LEMMA NoImportKeeps == ASSUME Inv, NoImport PROVE Inv'
  <1> USE DEF NoImport, cardVars, storageVars, libraryVars, displayVars, uploadVars,
          boundVars, Go
  <1>1. TypeOK /\ SelectionSavable
    BY DEF Inv
  <1>2. /\ UNCHANGED <<settings, reload, clear, displayed, frame, lost, saved, storage,
                       task>>
        /\ pc = "import" /\ pc' = "update"
    OBVIOUS
  <1>3. TypeOK'
    <2>1. CardOK' /\ StorageOK' /\ LibraryOK'
      BY <1>1, <1>2 DEF TypeOK, CardOK, StorageOK, LibraryOK
    <2>2. TablesOK' /\ DisplayOK' /\ UploadOK'
      BY <1>1, <1>2 DEF TypeOK, TablesOK, DisplayOK, UploadOK
    <2>3. StepOK' /\ BoundsOK'
      BY <1>1, <1>2 DEF TypeOK, StepOK, BoundsOK, Points
    <2> QED
      BY <2>1, <2>2, <2>3 DEF TypeOK
  <1>4. SelectionSavable'
    BY <1>1, <1>2 DEF SelectionSavable
  <1>5. NothingShownYet' /\ ReloadDue' /\ DisplayedIsShown'
    BY <1>2, DisplayLeftAlone
  <1> QED
    BY <1>2, <1>3, <1>4, <1>5, NoItemInHand DEF Inv

\* The live photo was saved as a library item.
LEMMA ImportKeeps == ASSUME Inv, Import PROVE Inv'
  <1> USE DEF Import, storageVars, libraryVars, boundVars, Go
  <1>1. TypeOK /\ SelectionSavable
    BY DEF Inv
  <1>2. PICK id \in Ids : /\ files' = [files EXCEPT !["photo"][id] = "good"]
                          /\ task' = [NoTask EXCEPT !.kind = "photo", !.id = id]
    BY Zenon DEF NewId, AddFile
  <1>3. "photo" \in Kinds
    BY DEF Kinds
  <1>4. files' \in Files
    BY <1>1, <1>2, <1>3, FilesKept DEF TypeOK, CardOK, FileStates
  <1>5. /\ task' \in Tasks /\ task'.id = id /\ task'.selected = NoSelection
    <2> DEFINE told == [NoTask EXCEPT !.kind = "photo", !.id = id]
    <2>1. told \in Tasks /\ told.id = id /\ told.selected = NoSelection
      BY <1>3, ItemTask, Zenon
    <2> HIDE DEF told
    <2>2. task' = told
      BY <1>2 DEF told
    <2> QED
      BY <2>1, <2>2
  <1>6. /\ UNCHANGED <<settings, reload, clear, displayed, frame, lost, saved, storage>>
        /\ pc = "import" /\ pc' = "imported" /\ frame = LiveFrame
    BY DEF ImportDue
  <1>7. TypeOK'
    BY <1>1, <1>4, <1>5, <1>6 DEF TypeOK, CardOK, StorageOK, LibraryOK,
       TablesOK, DisplayOK, UploadOK, StepOK, BoundsOK, Points
  <1>8. SelectionSavable'
    BY <1>1, <1>5, <1>6, WholeValues DEF SelectionSavable
  <1>9. Deleting' /\ Handling'
    BY <1>5, <1>6 DEF Deleting, Handling
  <1>10. NothingShownYet' /\ ReloadDue' /\ DisplayedIsShown'
    BY <1>6, DisplayLeftAlone
  <1> QED
    BY <1>7, <1>8, <1>9, <1>10 DEF Inv

\* The imported photo is selected.
LEMMA ImportedKeeps == ASSUME Inv, Imported PROVE Inv'
  <1> USE DEF Imported, displayVars, uploadVars, Go
  <1>1. TypeOK /\ SelectionSavable
    BY DEF Inv
  <1>2. task.id \in Ids /\ "photo" \in Kinds
    BY DEF Inv, Handling, Kinds
  <1>3. /\ saved' \in Selections /\ Savable(saved')
        /\ storage' \in {"ready", "recovering", "unavailable"}
        /\ storage' \in {storage, "recovering"}
        /\ faults' \in 0 .. MaxFaults
        /\ rejected' \in [Kinds -> Rings] /\ total' \in [Kinds -> Nat]
        /\ settings' \in Selections /\ Savable(settings')
        /\ reload' \in BOOLEAN /\ clear' \in BOOLEAN
        /\ \/ reload' = TRUE /\ clear' = FALSE
           \/ settings' = settings /\ reload' = reload /\ clear' = clear
    BY <1>1, <1>2, NotifyKeeps
  <1>4. /\ UNCHANGED <<displayed, frame, lost>> /\ pc = "imported" /\ pc' = "update"
        /\ task' = NoTask
    OBVIOUS
  <1>5. TypeOK'
    BY <1>1, <1>3, <1>4, WholeValues DEF TypeOK, CardOK, StorageOK, LibraryOK,
       TablesOK, DisplayOK, UploadOK, StepOK, BoundsOK, Points
  <1>6. SelectionSavable'
    BY <1>3, <1>4, WholeValues DEF SelectionSavable
  <1>7. NothingShownYet' /\ ReloadDue' /\ DisplayedIsShown'
    BY <1>3, <1>4, DisplayLeftAlone
  <1> QED
    BY <1>4, <1>5, <1>6, <1>7, NoItemInHand DEF Inv

\* The photo stays live and nothing is selected.
LEMMA ImportFailsKeeps == ASSUME Inv, ImportFails PROVE Inv'
  <1> USE DEF ImportFails, Go
  <1>1. TypeOK /\ SelectionSavable
    BY DEF Inv
  <1>2. /\ UNCHANGED <<lost, frame, task>> /\ pc' = "update"
        /\ settings' = NoSelection /\ reload' = FALSE /\ clear' = FALSE
        /\ displayed' = 0
    OBVIOUS
  <1>3. /\ saved' \in Selections /\ Savable(saved')
        /\ storage' \in {"ready", "recovering", "unavailable"}
        /\ faults' \in 0 .. MaxFaults
    <2>1. /\ saved \in Selections /\ Savable(saved) /\ faults \in 0 .. MaxFaults
          /\ storage \in {"ready", "recovering", "unavailable"}
      BY <1>1 DEF TypeOK, CardOK, StorageOK, BoundsOK, SelectionSavable
    <2>2. saved' \in {saved, NoSelection}
      BY DEF SaveSucceeds
    <2>3. faults' = faults \/ Fault
      BY DEF SaveSucceeds, DeviceLost
    <2>4. storage' \in {storage, "recovering"}
      BY DEF SaveSucceeds, DeviceLost
    <2> QED
      BY <1>1, <2>1, <2>2, <2>3, <2>4, FaultsCounted, WholeValues
  <1>4. TypeOK'
    BY <1>1, <1>2, <1>3, WholeValues DEF TypeOK, CardOK, StorageOK, LibraryOK,
       TablesOK, DisplayOK, UploadOK, StepOK, BoundsOK, Points
  <1>5. SelectionSavable'
    BY <1>1, <1>2, <1>3, WholeValues DEF SelectionSavable
  <1>6. NothingShownYet' /\ ReloadDue' /\ DisplayedIsShown'
    BY <1>2 DEF NothingShownYet, ReloadDue, DisplayedIsShown
  <1> QED
    BY <1>2, <1>4, <1>5, <1>6, NoItemInHand DEF Inv

\* The frame of a deleted item is given up; what replaces it is due.
LEMMA UpdateClearsKeeps == ASSUME Inv, UpdateClears PROVE Inv'
  <1> USE DEF UpdateClears, Updating, cardVars, storageVars, boundVars, Go
  <1>1. TypeOK /\ SelectionSavable
    BY DEF Inv
  <1>2. /\ UNCHANGED <<settings, reload, displayed, lost, saved, storage, task>>
        /\ pc = "update" /\ pc' = "idle" /\ clear' = FALSE /\ reload
    BY DEF Inv, ReloadDue
  <1>3. TypeOK'
    BY <1>1, <1>2, WholeValues DEF TypeOK, CardOK, StorageOK, LibraryOK,
       TablesOK, DisplayOK, UploadOK, StepOK, BoundsOK, Points
  <1>4. SelectionSavable'
    BY <1>1, <1>2 DEF SelectionSavable
  <1>5. NothingShownYet' /\ ReloadDue' /\ DisplayedIsShown'
    BY <1>2 DEF Inv, NothingShownYet, ReloadDue, DisplayedIsShown
  <1> QED
    BY <1>2, <1>3, <1>4, <1>5, NoItemInHand DEF Inv

\* There is nothing to show, or it is shown already.
LEMMA UpdateIdleKeeps == ASSUME Inv, UpdateIdle PROVE Inv'
  <1> USE DEF UpdateIdle, Updating, cardVars, storageVars, libraryVars, displayVars,
          boundVars, Go
  <1>1. TypeOK /\ SelectionSavable
    BY DEF Inv
  <1>2. /\ UNCHANGED <<settings, reload, clear, displayed, frame, lost, saved, storage,
                       task>>
        /\ pc = "update" /\ pc' = "idle"
    OBVIOUS
  <1>3. TypeOK'
    <2>1. CardOK' /\ StorageOK' /\ LibraryOK'
      BY <1>1, <1>2 DEF TypeOK, CardOK, StorageOK, LibraryOK
    <2>2. TablesOK' /\ DisplayOK' /\ UploadOK'
      BY <1>1, <1>2 DEF TypeOK, TablesOK, DisplayOK, UploadOK
    <2>3. StepOK' /\ BoundsOK'
      BY <1>1, <1>2 DEF TypeOK, StepOK, BoundsOK, Points
    <2> QED
      BY <2>1, <2>2, <2>3 DEF TypeOK
  <1>4. SelectionSavable'
    BY <1>1, <1>2 DEF SelectionSavable
  <1>5. NothingShownYet' /\ ReloadDue' /\ DisplayedIsShown'
    BY <1>2, DisplayLeftAlone
  <1> QED
    BY <1>2, <1>3, <1>4, <1>5, NoItemInHand DEF Inv

\* The selected item, or the slideshow's next photo, is looked up.
LEMMA UpdateLoadsKeeps == ASSUME Inv, UpdateLoads PROVE Inv'
  <1> USE DEF UpdateLoads, Updating, cardVars, storageVars, displayVars, boundVars, Go
  <1> DEFINE kind == IF settings.video # 0 THEN "video" ELSE "photo"
             first == IF kind = "photo"
                      THEN IF reload THEN settings.photo
                           ELSE FindNext("photo", displayed, 0)
                      ELSE IF Rejected("video", settings.video)
                           THEN FindNext("video", settings.video, 0)
                           ELSE settings.video
  <1>1. TypeOK /\ SelectionSavable
    BY DEF Inv
  <1>2. kind \in Kinds /\ first \in Ids \cup {0}
    <2>1. settings.photo \in Ids \cup {0} /\ settings.video \in Ids \cup {0}
      BY <1>1 DEF TypeOK, LibraryOK, Selections
    <2>2. FindNext("photo", displayed, 0) \in Ids \cup {0}
          /\ FindNext("video", settings.video, 0) \in Ids \cup {0}
      BY NextFound DEF FindNext
    <2> QED
      BY <2>1, <2>2 DEF Kinds
  <1>3. task' = [NoTask EXCEPT !.kind = kind, !.id = first]
    OBVIOUS
  <1>4. /\ UNCHANGED <<settings, displayed, lost, saved, storage>>
        /\ pc = "update" /\ pc' = "load" /\ storage = "ready"
        /\ clear = FALSE /\ clear' = FALSE /\ reload' = FALSE
    BY <1>1 DEF TypeOK, LibraryOK
  <1>5. kind = IF settings'.video # 0 THEN "video" ELSE "photo"
    BY <1>4
  <1> HIDE DEF kind, first
  <1>6. /\ task' \in Tasks /\ task'.kind = kind /\ task'.selected = NoSelection
    <2> DEFINE load == [NoTask EXCEPT !.kind = kind, !.id = first]
    <2>2. load \in Tasks /\ load.kind = kind /\ load.selected = NoSelection
      BY <1>2, ItemTask, Zenon
    <2> HIDE DEF load
    <2>3. task' = load
      BY <1>3 DEF load
    <2> QED
      BY <2>2, <2>3
  <1>7. TypeOK'
    BY <1>1, <1>4, <1>6 DEF TypeOK, CardOK, StorageOK, LibraryOK,
       TablesOK, DisplayOK, UploadOK, StepOK, BoundsOK, Points
  <1>8. SelectionSavable'
    BY <1>1, <1>4, <1>6, WholeValues DEF SelectionSavable
  <1>9. Deleting' /\ Handling'
    BY <1>4, <1>5, <1>6 DEF Deleting, Handling
  <1>10. NothingShownYet' /\ ReloadDue' /\ DisplayedIsShown'
    BY <1>4 DEF NothingShownYet, ReloadDue, DisplayedIsShown
  <1> QED
    BY <1>7, <1>8, <1>9, <1>10 DEF Inv

\* The next frame of a video is a video's.
LEMMA VideoFrame == ASSUME frame \in Frames, NextVideoFrame PROVE frame' \in Frames
  <1>1. playing \in Listed("video") => playing \in Ids /\ "video" \in Kinds
    BY DEF Listed, Kinds
  <1>2. playing \in Listed("video") => Item("video", playing) \in Frames
    BY <1>1, WholeValues
  <1> QED
    BY <1>2 DEF NextVideoFrame

\* The active video goes on or fails: while a video is selected no photo is.
LEMMA UpdatePlaysKeeps == ASSUME Inv, UpdatePlays PROVE Inv'
  <1> USE DEF UpdatePlays, Updating, cardVars, displayVars, Go
  <1>1. TypeOK /\ SelectionSavable
    BY DEF Inv
  <1>2. /\ UNCHANGED <<settings, displayed, clear, lost, saved, task>>
        /\ pc = "update" /\ pc' = "idle" /\ storage = "ready" /\ settings.video # 0
        /\ legacy' = legacy /\ reload' \in {reload, TRUE}
    OBVIOUS
  <1>3. storage' \in {"ready", "recovering"} /\ faults' \in 0 .. MaxFaults
    BY <1>1, FaultsCounted DEF TypeOK, BoundsOK
  <1>4. rejected' \in [Kinds -> Rings]
    <2>1. rejected \in [Kinds -> Rings] /\ settings.video \in Ids \cup {0}
          /\ "video" \in Kinds
      BY <1>1 DEF TypeOK, TablesOK, LibraryOK, Selections, Kinds
    <2>2. Reject("video", settings.video) \in [Kinds -> Rings]
      BY <2>1, RingsKept
    <2> QED
      BY <2>1, <2>2
  <1>5. DisplayOK'
    <2>1. playing \in Ids \cup {0} /\ again \in BOOLEAN /\ frame \in Frames
      BY <1>1 DEF TypeOK, DisplayOK
    <2>2. NextVideoFrame => frame' \in Frames
      BY <2>1, VideoFrame
    <2> QED
      BY <2>1, <2>2, WholeValues DEF DisplayOK
  <1>6. settings.photo = 0
    BY <1>1, <1>2 DEF SelectionSavable, Savable
  <1>7. reload' \in BOOLEAN
    BY <1>1, <1>2 DEF TypeOK, LibraryOK
  <1>8. UNCHANGED <<files, restored, total, arrived, tcpVideo, requests>>
        /\ adopt' = FALSE /\ tried' = tried
    OBVIOUS
  <1> HIDE DEF UpdatePlays
  <1>9. TypeOK'
    BY <1>1, <1>2, <1>3, <1>4, <1>5, <1>7, <1>8 DEF TypeOK, CardOK, StorageOK, LibraryOK,
       TablesOK, UploadOK, StepOK, BoundsOK, Points
  <1>10. SelectionSavable'
    BY <1>1, <1>2 DEF SelectionSavable
  <1>11. reload => reload'
    BY <1>2, Zenon
  <1>12. NothingShownYet' /\ DisplayedIsShown'
    BY <1>2, <1>3, <1>6 DEF NothingShownYet, DisplayedIsShown
  <1>13. ReloadDue'
    BY <1>2, <1>11 DEF Inv, ReloadDue, Wants
  <1> QED
    BY <1>2, <1>9, <1>10, <1>12, <1>13, NoItemInHand DEF Inv

\* Nothing is selected: media from before the library are shown, or nothing.
LEMMA UpdatePlayerKeeps == ASSUME Inv, UpdatePlayer PROVE Inv'
  <1> USE DEF UpdatePlayer, Updating, cardVars, storageVars, libraryVars, boundVars, Go
  <1>1. TypeOK /\ SelectionSavable
    BY DEF Inv
  <1>2. /\ UNCHANGED <<settings, reload, clear, displayed, lost, saved, storage, task>>
        /\ pc = "update" /\ pc' = "idle" /\ settings.photo = 0 /\ settings.video = 0
    BY DEF Wants
  <1>3. DisplayOK'
    <2>1. playing \in Ids \cup {0} /\ again \in BOOLEAN /\ frame \in Frames
      BY <1>1 DEF TypeOK, DisplayOK
    <2>2. NextVideoFrame => frame' \in Frames
      BY <2>1, VideoFrame
    <2> QED
      BY <2>1, <2>2, WholeValues DEF DisplayOK, displayVars
  <1>4. UNCHANGED <<files, legacy, restored, total, rejected, arrived, tcpVideo,
                    requests, faults, tried>>
        /\ adopt' = FALSE
    OBVIOUS
  <1> HIDE DEF UpdatePlayer
  <1>5. TypeOK'
    <2>1. CardOK' /\ StorageOK' /\ LibraryOK'
      BY <1>1, <1>2, <1>3, <1>4 DEF TypeOK, CardOK, StorageOK, LibraryOK
    <2>2. TablesOK' /\ UploadOK'
      BY <1>1, <1>2, <1>3, <1>4 DEF TypeOK, TablesOK, UploadOK
    <2>3. StepOK' /\ BoundsOK'
      BY <1>1, <1>2, <1>3, <1>4 DEF TypeOK, StepOK, BoundsOK, Points
    <2> QED
      BY <1>3, <2>1, <2>2, <2>3 DEF TypeOK
  <1>6. SelectionSavable'
    BY <1>1, <1>2 DEF SelectionSavable
  <1>7. NothingShownYet' /\ ReloadDue' /\ DisplayedIsShown'
    BY <1>2 DEF Inv, NothingShownYet, ReloadDue, DisplayedIsShown, Wants
  <1> QED
    BY <1>2, <1>5, <1>6, <1>7, NoItemInHand DEF Inv

\* The item in hand is shown: a photo is the displayed one, a video the
\* selected one.
LEMMA LoadSucceedsKeeps == ASSUME Inv, LoadSucceeds PROVE Inv'
  <1> USE DEF LoadSucceeds, CanLoad, uploadVars, Go
  <1>1. TypeOK /\ SelectionSavable
    BY DEF Inv
  <1>2. /\ UNCHANGED <<reload, clear, lost>> /\ task' = NoTask
        /\ pc = "load" /\ pc' = "idle" /\ storage = "ready"
        /\ frame' = Item(task.kind, task.id)
    OBVIOUS
  <1>3. /\ task.id \in Ids /\ task.kind \in Kinds
        /\ task.kind = IF settings.video # 0 THEN "video" ELSE "photo"
    BY <1>1 DEF Inv, Handling, Kinds, TypeOK, StepOK, Tasks
  <1>4. frame' \in Frames
    BY <1>2, <1>3, WholeValues
  <1>5. \/ /\ task.kind = "photo" /\ playing' = 0 /\ displayed' = task.id
           /\ UNCHANGED <<saved, storage, faults, settings>>
        \/ /\ task.kind = "video" /\ playing' = task.id /\ displayed' = 0
           /\ settings' = [settings EXCEPT !.video = task.id]
           /\ \/ UNCHANGED <<saved, storage, faults>>
              \/ SaveSucceeds([settings EXCEPT !.video = task.id])
              \/ SaveFails([settings EXCEPT !.video = task.id])
    OBVIOUS
  <1>6. /\ UNCHANGED <<files, legacy, restored, rejected, total, arrived, adopt,
                       tcpVideo, tried, requests>>
        /\ again' = FALSE
    OBVIOUS
  <1> HIDE DEF LoadSucceeds
  <1>7. CASE /\ task.kind = "photo" /\ playing' = 0 /\ displayed' = task.id
             /\ UNCHANGED <<saved, storage, faults, settings>>
    <2>1. TypeOK'
      BY <1>1, <1>2, <1>3, <1>4, <1>6, <1>7, WholeValues DEF TypeOK, CardOK, StorageOK,
         LibraryOK, TablesOK, DisplayOK, UploadOK, StepOK, BoundsOK, Points
    <2>2. SelectionSavable'
      BY <1>1, <1>2, <1>7, WholeValues DEF SelectionSavable
    <2>3. settings.video = 0
      BY <1>3, <1>7
    <2>4. NothingShownYet' /\ ReloadDue' /\ DisplayedIsShown'
      BY <1>2, <1>7, <2>3 DEF Inv, NothingShownYet, ReloadDue, DisplayedIsShown, Wants
    <2> QED
      BY <1>2, <2>1, <2>2, <2>4, NoItemInHand DEF Inv
  <1>8. CASE /\ task.kind = "video" /\ playing' = task.id /\ displayed' = 0
             /\ settings' = [settings EXCEPT !.video = task.id]
             /\ \/ UNCHANGED <<saved, storage, faults>>
                \/ SaveSucceeds([settings EXCEPT !.video = task.id])
                \/ SaveFails([settings EXCEPT !.video = task.id])
    <2> DEFINE selected == [settings EXCEPT !.video = task.id]
    <2>1. settings \in Selections /\ Savable(settings) /\ settings.video # 0
      BY <1>1, <1>3, <1>8 DEF TypeOK, LibraryOK, SelectionSavable
    <2>2. /\ selected \in Selections /\ Savable(selected)
          /\ selected.photo = settings.photo
      BY <1>3, <2>1 DEF Selections, Savable
    <2>3. SaveSucceeds(selected) \/ SaveFails(selected)
          \/ UNCHANGED <<saved, storage, faults>>
      BY <1>8
    <2>4. settings' = selected
      BY <1>8
    <2> HIDE DEF selected
    <2>5. /\ saved' \in Selections /\ Savable(saved')
          /\ storage' \in {"ready", "recovering", "unavailable"}
          /\ storage' \in {storage, "recovering"}
          /\ faults' \in 0 .. MaxFaults
      <3>1. CASE UNCHANGED <<saved, storage, faults>>
        BY <1>1, <3>1 DEF TypeOK, CardOK, StorageOK, BoundsOK, SelectionSavable
      <3>2. CASE SaveSucceeds(selected) \/ SaveFails(selected)
        BY <1>1, <2>2, <3>2, SaveKeeps DEF SelectionSavable
      <3> QED
        BY <2>3, <3>1, <3>2
    <2>6. TypeOK'
      BY <1>1, <1>2, <1>3, <1>4, <1>6, <1>8, <2>2, <2>4, <2>5, WholeValues DEF TypeOK,
         CardOK, StorageOK, LibraryOK, TablesOK, DisplayOK, UploadOK, StepOK, BoundsOK,
         Points
    <2>7. SelectionSavable'
      BY <1>2, <2>2, <2>4, <2>5, WholeValues DEF SelectionSavable
    <2>8. clear => reload
      BY <2>1 DEF Inv, ReloadDue, Wants
    <2>9. NothingShownYet' /\ ReloadDue' /\ DisplayedIsShown'
      BY <1>2, <1>8, <2>5, <2>8 DEF NothingShownYet, ReloadDue, DisplayedIsShown
    <2> QED
      BY <1>2, <2>6, <2>7, <2>9, NoItemInHand DEF Inv
  <1> QED
    BY <1>5, <1>7, <1>8

\* A damaged item is rejected and the next one taken in hand.
LEMMA LoadFailsKeeps == ASSUME Inv, LoadFails PROVE Inv'
  <1> USE DEF LoadFails, CanLoad, cardVars, storageVars, uploadVars, boundVars
  <1>1. TypeOK /\ SelectionSavable
    BY DEF Inv
  <1>2. /\ UNCHANGED <<settings, reload, clear, displayed, lost, saved, storage, pc>>
        /\ pc = "load" /\ storage = "ready"
    OBVIOUS
  <1>3. /\ task \in Tasks /\ task.id \in Ids /\ task.kind \in Kinds
        /\ task.kind = IF settings.video # 0 THEN "video" ELSE "photo"
    BY <1>1 DEF Inv, Handling, Kinds, TypeOK, StepOK, Tasks
  <1>4. rejected' \in [Kinds -> Rings]
    BY <1>1, <1>3, RingsKept DEF TypeOK, TablesOK
  <1> DEFINE next == NextIn(rejected', task.kind, task.id, 0)
  <1>5. next \in Ids \cup {0}
    BY NextFound
  <1>6. task' = [task EXCEPT !.id = next]
    OBVIOUS
  <1> HIDE DEF next
  <1>7. /\ task' \in Tasks /\ task'.kind = task.kind /\ task'.selected = task.selected
    BY <1>3, <1>5, <1>6 DEF Tasks
  <1>12. StepOK'
    BY <1>1, <1>2, <1>7 DEF TypeOK, StepOK
  <1>13. DisplayOK'
    BY <1>1, WholeValues DEF DisplayOK
  <1>8. TypeOK'
    BY <1>1, <1>2, <1>4, <1>12, <1>13 DEF TypeOK, CardOK, StorageOK, LibraryOK,
       TablesOK, UploadOK, BoundsOK
  <1>9. SelectionSavable'
    BY <1>1, <1>2, <1>7 DEF SelectionSavable
  <1>10. Deleting' /\ Handling'
    BY <1>2, <1>3, <1>7 DEF Deleting, Handling
  <1>11. NothingShownYet' /\ ReloadDue' /\ DisplayedIsShown'
    BY <1>2 DEF Inv, NothingShownYet, ReloadDue, DisplayedIsShown, Wants
  <1> QED
    BY <1>8, <1>9, <1>10, <1>11 DEF Inv

\* The card fails while an item is loaded.
LEMMA LoadInterruptedKeeps == ASSUME Inv, LoadInterrupted PROVE Inv'
  <1> USE DEF LoadInterrupted, CanLoad, cardVars, libraryVars, uploadVars, Go
  <1>1. TypeOK /\ SelectionSavable
    BY DEF Inv
  <1>2. /\ UNCHANGED <<settings, reload, clear, displayed, lost, saved>>
        /\ pc = "load" /\ pc' = "idle" /\ task' = NoTask
    OBVIOUS
  <1>3. storage' = "recovering" /\ faults' \in 0 .. MaxFaults
    BY <1>1, FaultsCounted
  <1>4. TypeOK'
    BY <1>1, <1>2, <1>3, WholeValues DEF TypeOK, CardOK, StorageOK, LibraryOK,
       TablesOK, DisplayOK, UploadOK, StepOK, BoundsOK, Points
  <1>5. SelectionSavable'
    BY <1>1, <1>2, WholeValues DEF SelectionSavable
  <1>6. NothingShownYet' /\ ReloadDue' /\ DisplayedIsShown'
    BY <1>2, <1>3 DEF Inv, NothingShownYet, ReloadDue, DisplayedIsShown, Wants
  <1> QED
    BY <1>2, <1>4, <1>5, <1>6, NoItemInHand DEF Inv

\* No usable item is left: its kind is not selected any more.
LEMMA LoadExhaustedKeeps == ASSUME Inv, LoadExhausted PROVE Inv'
  <1> USE DEF LoadExhausted, cardVars, storageVars, uploadVars, boundVars, Go
  <1>1. TypeOK /\ SelectionSavable
    BY DEF Inv
  <1>2. /\ UNCHANGED <<files, legacy, restored, rejected, total, reload, clear, lost,
                       saved, storage, arrived, adopt, tcpVideo, tried, requests, faults>>
        /\ pc = "load" /\ pc' = "idle" /\ task' = NoTask
    OBVIOUS
  <1>3. task.kind = IF settings.video # 0 THEN "video" ELSE "photo"
    BY <1>2 DEF Inv, Handling
  <1>4. settings \in Selections /\ Savable(settings)
    BY <1>1 DEF TypeOK, LibraryOK, SelectionSavable
  <1>5. DisplayOK'
    BY <1>1, WholeValues DEF TypeOK, DisplayOK, displayVars
  <1>6. /\ settings' \in Selections /\ Savable(settings')
        /\ settings'.photo = 0 /\ settings'.video = 0 /\ displayed' \in {0, displayed}
    <2>1. CASE /\ task.kind = "photo" /\ displayed' = 0
               /\ settings' = [settings EXCEPT !.photo = 0, !.slideshow = FALSE]
      BY <1>3, <1>4, <2>1 DEF Selections, Savable
    <2>2. CASE /\ task.kind = "video" /\ displayed' = displayed
               /\ settings' = [settings EXCEPT !.video = 0]
      BY <1>3, <1>4, <2>2 DEF Selections, Savable
    <2> QED
      BY <2>1, <2>2
  <1> HIDE DEF LoadExhausted
  <1>7. TypeOK'
    BY <1>1, <1>2, <1>5, <1>6, WholeValues DEF TypeOK, CardOK, StorageOK, LibraryOK,
       TablesOK, UploadOK, StepOK, BoundsOK, Points
  <1>8. SelectionSavable'
    BY <1>1, <1>2, <1>6, WholeValues DEF SelectionSavable
  <1>9. NothingShownYet' /\ ReloadDue' /\ DisplayedIsShown'
    BY <1>2, <1>6 DEF Inv, NothingShownYet, ReloadDue, DisplayedIsShown, Wants
  <1> QED
    BY <1>2, <1>7, <1>8, <1>9, NoItemInHand DEF Inv

\* A file is damaged, or the health check finds the card gone.
LEMMA DamageKeeps == ASSUME Inv, Damage \/ HealthCheckFails PROVE Inv'
  <1>1. TypeOK /\ SelectionSavable
    BY DEF Inv
  <1>2. /\ UNCHANGED <<settings, reload, clear, displayed, frame, lost, saved, pc, task,
                       restored, rejected, total, playing, again, arrived, adopt, legacy,
                       tcpVideo, tried, requests>>
        /\ pc = "idle" /\ storage' \in {storage, "recovering"}
    BY DEF Damage, HealthCheckFails, DeviceLost, Stay, stepVars, cardVars, storageVars,
       libraryVars, displayVars, uploadVars
  <1>3. faults' \in 0 .. MaxFaults
    BY <1>1, FaultsCounted DEF Damage, HealthCheckFails
  <1>4. files' \in Files
    <2>1. files \in Files
      BY <1>1 DEF TypeOK, CardOK
    <2>2. CASE Damage
      <3>1. PICK kind \in Kinds, id \in Ids, part \in {"header", "pixels"} :
               files' = [files EXCEPT ![kind][id] = part]
        BY <2>2, Zenon DEF Damage
      <3> QED
        BY <2>1, <3>1, FilesKept DEF FileStates
    <2>3. CASE HealthCheckFails
      BY <2>1, <2>3 DEF HealthCheckFails, cardVars
    <2> QED
      BY <2>2, <2>3
  <1>5. TypeOK'
    BY <1>1, <1>2, <1>3, <1>4 DEF TypeOK, CardOK, StorageOK, LibraryOK,
       TablesOK, DisplayOK, UploadOK, StepOK, BoundsOK
  <1>6. SelectionSavable'
    BY <1>1, <1>2 DEF SelectionSavable
  <1>7. NothingShownYet' /\ ReloadDue' /\ DisplayedIsShown'
    BY <1>2, DisplayLeftAlone
  <1> QED
    BY <1>2, <1>5, <1>6, <1>7, NoItemInHand DEF Inv

\* Power is lost: only the card keeps what it was.
LEMMA PowerLossKeeps == ASSUME Inv, PowerLoss PROVE Inv'
  <1> USE DEF PowerLoss, PoweredOff, cardVars
  <1>1. TypeOK /\ SelectionSavable
    BY DEF Inv
  <1>2. faults' \in 0 .. MaxFaults
    BY <1>1, FaultsCounted
  <1>3. total' \in [Kinds -> Nat]
    OBVIOUS
  <1>4. TypeOK'
    BY <1>1, <1>2, <1>3, WholeValues DEF TypeOK, CardOK, StorageOK, LibraryOK,
       TablesOK, DisplayOK, UploadOK, StepOK, BoundsOK, Points
  <1>5. SelectionSavable'
    BY <1>1, WholeValues DEF SelectionSavable
  <1>6. Deleting' /\ Handling' /\ NothingShownYet' /\ ReloadDue' /\ DisplayedIsShown'
    BY DEF Deleting, Handling, NothingShownYet, ReloadDue, DisplayedIsShown
  <1> QED
    BY <1>4, <1>5, <1>6 DEF Inv

\* The controller starts, with the card or without it.
LEMMA BootKeeps == ASSUME Inv, Boot PROVE Inv'
  <1> USE DEF Boot, uploadVars, Go
  <1>1. TypeOK /\ SelectionSavable
    BY DEF Inv
  <1>2. /\ UNCHANGED <<lost, restored, clear, playing, frame, arrived, adopt, tcpVideo,
                       task, tried, requests>>
        /\ pc = "boot" /\ pc' \in {"update", "idle"} /\ ~lost
    BY DEF Inv, NothingShownYet
  <1>3. \/ Initialize /\ again' = ~Wants(settings')
        \/ /\ Fault /\ storage' \in {"unavailable", "recovering"}
           /\ UNCHANGED <<settings, reload, displayed, again>>
           /\ UNCHANGED <<cardVars, rejected, total>> \/ InitializeFails
    OBVIOUS
  <1> HIDE DEF Boot
  <1>4. CASE Initialize /\ again' = ~Wants(settings')
    <2>1. /\ CardOK' /\ Savable(saved') /\ TablesOK'
          /\ settings' \in Selections /\ Savable(settings')
          /\ storage' \in {"ready", "recovering"} /\ faults' \in 0 .. MaxFaults
          /\ reload' \in BOOLEAN /\ displayed' = 0
          /\ (settings'.photo # 0 \/ settings'.video # 0 => reload')
      BY <1>1, <1>4, InitializeKeeps
    <2>2. again' \in BOOLEAN
      BY <1>4, Zenon DEF Wants
    <2>3. TypeOK'
      BY <1>1, <1>2, <2>1, <2>2 DEF TypeOK, StorageOK, LibraryOK,
         DisplayOK, UploadOK, StepOK, BoundsOK, Points
    <2>4. SelectionSavable'
      BY <1>1, <1>2, <2>1 DEF SelectionSavable
    <2>5. NothingShownYet' /\ ReloadDue' /\ DisplayedIsShown'
      BY <1>2, <2>1 DEF NothingShownYet, ReloadDue, DisplayedIsShown, Wants
    <2> QED
      BY <1>2, <2>3, <2>4, <2>5, NoItemInHand DEF Inv
  <1>5. CASE /\ Fault /\ storage' \in {"unavailable", "recovering"}
             /\ UNCHANGED <<settings, reload, displayed, again>>
             /\ UNCHANGED <<cardVars, rejected, total>> \/ InitializeFails
    <2>1. faults' \in 0 .. MaxFaults
      BY <1>1, <1>5, FaultsCounted
    <2>2. CardOK' /\ Savable(saved') /\ TablesOK'
      <3>1. CASE UNCHANGED <<cardVars, rejected, total>>
        BY <1>1, <3>1 DEF TypeOK, CardOK, TablesOK, cardVars, SelectionSavable
      <3>2. CASE InitializeFails
        BY <1>1, <3>2, InitializeFailsKeeps
      <3> QED
        BY <1>5, <3>1, <3>2
    <2>3. TypeOK'
      BY <1>1, <1>2, <1>5, <2>1, <2>2 DEF TypeOK, StorageOK, LibraryOK,
         DisplayOK, UploadOK, StepOK, BoundsOK, Points
    <2>4. SelectionSavable'
      BY <1>1, <1>2, <1>5, <2>2 DEF SelectionSavable
    <2>5. NothingShownYet' /\ ReloadDue' /\ DisplayedIsShown'
      BY <1>2, <1>5 DEF Inv, NothingShownYet, ReloadDue, DisplayedIsShown, Wants
    <2> QED
      BY <1>2, <2>3, <2>4, <2>5, NoItemInHand DEF Inv
  <1> QED
    BY <1>3, <1>4, <1>5

\* A step changes nothing, or is one of the steps above.
LEMMA NextInv == Inv /\ [Next]_vars => Inv'
  <1> SUFFICES ASSUME Inv, [Next]_vars PROVE Inv'
    OBVIOUS
  <1>1. CASE Requests
    <2>1. ASSUME NEW enabled \in BOOLEAN, SetSlideshow(enabled) PROVE Inv'
      BY <2>1, SetSlideshowKeeps
    <2> QED
      BY <1>1, <2>1, SelectRequestKeeps, SetDisplaySettingsKeeps, RemoveKeeps,
         HttpUploadSavedKeeps, TcpVideoSavedKeeps, UploadFailsKeeps, PhotoArrivesKeeps,
         PhotoAbortedKeeps DEF Requests
  <1>2. CASE PrepareFrame
    <2>1. CASE Delete \/ DeleteFails \/ Notify \/ Adopt \/ NoImport \/ Import
               \/ Imported \/ ImportFails \/ UpdateClears
      BY <2>1, DeleteKeeps, DeleteFailsKeeps, NotifyStepKeeps, AdoptKeeps, NoImportKeeps,
         ImportKeeps, ImportedKeeps, ImportFailsKeeps, UpdateClearsKeeps
    <2>2. CASE UpdateIdle \/ UpdateLoads \/ UpdatePlays \/ UpdatePlayer \/ LoadSucceeds
               \/ LoadFails \/ LoadInterrupted \/ LoadExhausted \/ Boot
      BY <2>2, UpdateIdleKeeps, UpdateLoadsKeeps, UpdatePlaysKeeps, UpdatePlayerKeeps,
         LoadSucceedsKeeps, LoadFailsKeeps, LoadInterruptedKeeps, LoadExhaustedKeeps,
         BootKeeps
    <2> QED
      BY <1>2, <2>1, <2>2 DEF PrepareFrame
  <1>3. CASE UpdateMemory \/ Reselect \/ Faults
    BY <1>3, UpdateMemoryKeeps, ReselectKeeps, DamageKeeps, PowerLossKeeps DEF Faults
  <1>4. CASE UNCHANGED vars
    <2> USE <1>4 DEF vars, cardVars, storageVars, libraryVars, displayVars, uploadVars,
            stepVars, boundVars
    <2>1. TypeOK'
      BY DEF Inv, TypeOK, CardOK, StorageOK, LibraryOK, TablesOK, DisplayOK, UploadOK,
         StepOK, BoundsOK
    <2>2. SelectionSavable' /\ Deleting' /\ Handling'
      BY DEF Inv, SelectionSavable, Deleting, Handling, Wants
    <2>3. NothingShownYet' /\ ReloadDue' /\ DisplayedIsShown'
      BY DEF Inv, NothingShownYet, ReloadDue, DisplayedIsShown, Wants
    <2> QED
      BY <2>1, <2>2, <2>3 DEF Inv
  <1> QED
    BY <1>1, <1>2, <1>3, <1>4 DEF Next

\* The selection in RAM, on the card and in a pending deletion can always be
\* saved again, and while a photo is selected and no reload is due the photo that
\* counts as displayed is the one in the frame unless a raw upload wrote over it,
\* whole or in part (MediaLibrary::Select, SetSlideshow, Remove, Update;
\* FrameReceiver::Abort): whatever fails, whenever power is lost.
THEOREM InvHolds == Spec => []Inv
  <1> QED
    BY InitInv, NextInv, PTL DEF Spec

-----------------------------------------------------------------------------
(* Deletions.                                                              *)

\* Only the second half of a deletion takes a file from the card, the file of the
\* item in hand, and it leaves the saved selection alone.
LEMMA OnlyDeletionsDelete ==
    ASSUME TypeOK, [Next]_vars, NEW kind \in Kinds, NEW id \in Ids,
           files[kind][id] # "none", files'[kind][id] = "none"
    PROVE  pc = "delete" /\ kind = task.kind /\ id = task.id
  <1>1. files \in Files
    BY DEF TypeOK, CardOK
  <1>2. files' # files
    OBVIOUS
  <1>3. ASSUME NEW k \in Kinds, NEW i \in Ids, NEW state \in {"good", "header", "pixels"},
               files' = [files EXCEPT ![k][i] = state]
        PROVE  FALSE
    BY <1>1, <1>3 DEF Files
  <1>4. Delete \/ DeleteFails
    <2>1. ~ HttpUploadSaved
      <3> SUFFICES ASSUME HttpUploadSaved PROVE FALSE
        OBVIOUS
      <3>1. PICK k \in Kinds, i \in Ids : files' = [files EXCEPT ![k][i] = "good"]
        BY Zenon DEF HttpUploadSaved, NewId, AddFile
      <3> QED
        BY <1>3, <3>1
    <2>2. ~ TcpVideoSaved
      <3> SUFFICES ASSUME TcpVideoSaved PROVE FALSE
        OBVIOUS
      <3>1. PICK i \in Ids : files' = [files EXCEPT !["video"][i] = "good"]
        BY Zenon DEF TcpVideoSaved, NewId, AddFile
      <3> QED
        BY <1>3, <3>1 DEF Kinds
    <2>3. ~ Import
      <3> SUFFICES ASSUME Import PROVE FALSE
        OBVIOUS
      <3>1. PICK i \in Ids : files' = [files EXCEPT !["photo"][i] = "good"]
        BY Zenon DEF Import, NewId, AddFile
      <3> QED
        BY <1>3, <3>1 DEF Kinds
    <2>4. ~ Damage
      <3> SUFFICES ASSUME Damage PROVE FALSE
        OBVIOUS
      <3>1. PICK k \in Kinds, i \in Ids, part \in {"header", "pixels"} :
               files' = [files EXCEPT ![k][i] = part]
        BY Zenon DEF Damage
      <3> QED
        BY <1>3, <3>1
    <2>9. ~ Initialize
      <3> SUFFICES ASSUME Initialize PROVE FALSE
        OBVIOUS
      <3>1. files' = files \/ \E i \in NewId("video") : AddFile("video", i)
        BY DEF Initialize, AdoptClip
      <3>2. PICK i \in Ids : files' = [files EXCEPT !["video"][i] = "good"]
        BY <1>2, <3>1, Zenon DEF NewId, AddFile
      <3> QED
        BY <1>3, <3>2 DEF Kinds
    <2>5. /\ ~ SelectRequest /\ ~ SetDisplaySettings /\ ~ Remove /\ ~ UploadFails
          /\ ~ PhotoArrives /\ ~ PhotoAborted
          /\ ~ \E enabled \in BOOLEAN : SetSlideshow(enabled)
      BY <1>2 DEF SelectRequest, SetDisplaySettings, Remove, UploadFails, PhotoArrives,
         PhotoAborted, SetSlideshow, cardVars
    <2>6. /\ ~ Notify /\ ~ Adopt /\ ~ NoImport /\ ~ Imported /\ ~ ImportFails
          /\ ~ UpdateClears /\ ~ UpdateIdle /\ ~ UpdateLoads /\ ~ UpdatePlays
          /\ ~ UpdatePlayer
      BY <1>2 DEF Notify, Adopt, NoImport, Imported, ImportFails, UpdateClears,
         UpdateIdle, UpdateLoads, UpdatePlays, UpdatePlayer, cardVars
    <2>7. /\ ~ LoadSucceeds /\ ~ LoadFails /\ ~ LoadInterrupted /\ ~ LoadExhausted
          /\ ~ Boot /\ ~ UpdateMemory /\ ~ Reselect /\ ~ HealthCheckFails
          /\ ~ PowerLoss
      BY <1>2, <2>9 DEF LoadSucceeds, LoadFails, LoadInterrupted, LoadExhausted, Boot,
         InitializeFails, UpdateMemory, Reselect, HealthCheckFails, PowerLoss, cardVars
    <2>8. Next
      BY <1>2 DEF vars, cardVars
    <2> QED
      BY <2>1, <2>2, <2>3, <2>4, <2>5, <2>6, <2>7, <2>8
         DEF Next, Requests, PrepareFrame, Faults
  <1>5. pc = "delete" /\ files' = [files EXCEPT ![task.kind][task.id] = "none"]
    BY <1>2, <1>4 DEF Delete, DeleteFails
  <1> QED
    BY <1>1, <1>5 DEF Files

\* A deletion that has to replace the selection has the replacement on the card
\* before the file is gone (MediaLibrary::Remove and RemoveVideo save first).
THEOREM ReplacedBeforeDeletedHolds == Spec => ReplacedBeforeDeleted
  <1> DEFINE Replaced == \A kind \in Kinds : \A id \in Ids :
                 files[kind][id] # "none" /\ files'[kind][id] = "none"
                 /\ settings[kind] = id => saved[kind] # id
  <1>1. Inv /\ [Next]_vars => Replaced
    <2> SUFFICES ASSUME Inv, [Next]_vars, NEW kind \in Kinds, NEW id \in Ids,
                        files[kind][id] # "none", files'[kind][id] = "none",
                        settings[kind] = id
                 PROVE  saved[kind] # id
      OBVIOUS
    <2>1. TypeOK /\ Deleting
      BY DEF Inv
    <2>2. pc = "delete" /\ kind = task.kind /\ id = task.id
      BY <2>1, OnlyDeletionsDelete
    <2> QED
      BY <2>1, <2>2 DEF Deleting
  <1> HIDE DEF Replaced
  <1>2. Spec => [][Replaced]_vars
    BY <1>1, InvHolds, PTL DEF Spec
  <1> QED
    BY <1>2 DEF Replaced, ReplacedBeforeDeleted
=============================================================================
