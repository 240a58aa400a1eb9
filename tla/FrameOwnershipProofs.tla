------------------------ MODULE FrameOwnershipProofs ------------------------
(***************************************************************************)
(* The framebuffer is never shared by accident, whatever the size of a     *)
(* frame and the number of images: Inv is inductive, and from it follow    *)
(* that the panel is only given whole images, that a skipped submission    *)
(* shows what the framebuffer holds and that a held photo is untouched.    *)
(***************************************************************************)
EXTENDS FrameOwnership, TLAPS

\* A whole image is a frame.
LEMMA WholeFrame ==
    ASSUME NEW image \in 0 .. MaxSequence + 1
    PROVE  /\ Whole(image) \in Frames
           /\ \A c \in Chunks : Whole(image)[c] = image
  BY DEF Whole, Frames

\* A frame all of whose chunks belong to one image is that image, whole.
LEMMA AllChunks ==
    ASSUME NEW image, NEW frame \in Frames,
           \A c \in 1 .. FrameChunks : frame[c] = image
    PROVE  frame = Whole(image)
  BY DEF Whole, Frames, Chunks

\* The empty copy.
LEMMA EmptyCopy ==
    /\ <<>> \in Seq(0 .. MaxSequence + 1)
    /\ Len(<<>>) = 0
    /\ Len(<<>>) <= FrameChunks
  BY FrameAssumption

\* The initial states satisfy the invariant.
LEMMA InitHolds == Init => Inv
  <1> SUFFICES ASSUME Init PROVE Inv
    OBVIOUS
  <1>1. PICK image \in {1, BuiltIn, Provisional} :
            /\ hasFrame = (image = 1) /\ fromStorage = hasFrame
            /\ sequence = (IF hasFrame THEN 1 ELSE 0) /\ revision = sequence
            /\ pixels = Whole(image) /\ panel \in {Whole(image), Whole(BuiltIn)}
    BY DEF Init
  <1>2. image \in 0 .. MaxSequence + 1 /\ BuiltIn \in 0 .. MaxSequence + 1
    BY FrameAssumption DEF BuiltIn, Provisional
  <1>3. FlagsOK
    BY <1>1, Zenon DEF Init, FlagsOK
  <1>4. ModesOK
    BY DEF Init, ModesOK, States, Clients, Points, Jobs
  <1>5. CountsOK
    BY <1>1, FrameAssumption DEF Init, CountsOK, Tokens
  <1>6. PixelsOK
    BY <1>1, <1>2, WholeFrame, EmptyCopy DEF Init, PixelsOK
  <1>7. Ownership
    BY DEF Init, Ownership, Preparing
  <1>8. Available
    BY <1>1, <1>3 DEF Init, Available, FlagsOK, BuiltIn, Provisional
  <1>9. Showing
    BY <1>1, <1>3 DEF Init, Showing
  <1>10. ImportIsWhole
    BY DEF Init, ImportIsWhole
  <1> QED
    BY <1>3, <1>4, <1>5, <1>6, <1>7, <1>8, <1>9, <1>10 DEF Inv, TypeOK

-----------------------------------------------------------------------------
(* Core 1's steps.                                                         *)

LEMMA AcceptKeeps == Inv /\ Accept => Inv'
  <1> SUFFICES ASSUME Inv, Accept PROVE Inv'
    OBVIOUS
  <1> USE FrameAssumption DEF Inv, TypeOK, frameVars, receiverVars, core1Vars,
                             pipelineVars, loopVars, panelVars
  <1>1. FlagsOK' /\ ModesOK' /\ CountsOK' /\ PixelsOK'
    BY DEF Accept, FlagsOK, ModesOK, CountsOK, PixelsOK, States, Clients,
           Tokens
  <1>2. Ownership'
    BY DEF Accept, Ownership, CountsOK, Tokens
  <1>3. Available'
    BY DEF Accept, Available, CountsOK, Tokens
  <1>4. Showing' /\ ImportIsWhole'
    BY DEF Accept, Showing, ImportIsWhole
  <1> QED
    BY <1>1, <1>2, <1>3, <1>4

LEMMA FeedKeeps == Inv /\ Feed => Inv'
  <1> SUFFICES ASSUME Inv, Feed PROVE Inv'
    OBVIOUS
  <1> USE FrameAssumption DEF Inv, TypeOK, frameVars, receiverVars, core1Vars,
                             pipelineVars, loopVars, panelVars
  <1>1. FlagsOK' /\ ModesOK' /\ CountsOK'
    BY DEF Feed, FlagsOK, ModesOK, CountsOK, Clients, Ownership
  <1>2. pixels' \in Frames
    <2>1. rawOwner \in 0 .. MaxSequence + 1
      BY DEF CountsOK, Tokens
    <2>2. pixels' = [pixels EXCEPT ![received'] = rawOwner] /\ pixels \in Frames
      BY DEF Feed, PixelsOK
    <2> QED
      BY <2>1, <2>2 DEF Frames
  <1>3. Ownership'
    BY DEF Feed, Ownership, CountsOK
  <1>4. Available'
    BY DEF Feed, Available, Ownership, CountsOK, PixelsOK, Frames, Chunks,
           Owns
  <1>5. ~prepared /\ pc \notin {"import", "read", "pack"}
    BY DEF Feed, Ownership, Preparing
  <1>6. Showing' /\ ImportIsWhole'
    BY <1>5 DEF Feed, Showing, ImportIsWhole
  <1> QED
    BY <1>1, <1>2, <1>3, <1>4, <1>6 DEF Feed, PixelsOK

LEMMA PublishFrameKeeps == Inv /\ PublishFrame => Inv'
  <1> SUFFICES ASSUME Inv, PublishFrame PROVE Inv'
    OBVIOUS
  <1> USE FrameAssumption DEF Inv, TypeOK, frameVars, receiverVars, core1Vars,
                             pipelineVars, loopVars, panelVars
  <1>1. FlagsOK' /\ ModesOK' /\ CountsOK' /\ PixelsOK'
    BY DEF PublishFrame, FlagsOK, ModesOK, CountsOK, PixelsOK, Clients
  <1>2. Ownership'
    BY DEF PublishFrame, Ownership
  <1>3. pixels = Whole(owner)
    BY AllChunks DEF PublishFrame, Available, Ownership, PixelsOK
  <1>4. Available'
    BY <1>3 DEF PublishFrame, Available, Ownership, CountsOK, Tokens
  <1>5. ~prepared /\ pc \notin {"import", "read", "pack"}
    BY DEF PublishFrame, Ownership, Preparing
  <1>6. displayed' < revision'
    BY DEF PublishFrame, Showing, Available, Ownership, CountsOK, Tokens
  <1>7. Showing' /\ ImportIsWhole'
    <2>1. displayed' <= revision' /\ displayed' # revision'
      BY <1>1, <1>6 DEF CountsOK, Tokens
    <2>2. ~prepared' /\ pc' \notin {"import", "read", "pack"}
      BY <1>5 DEF PublishFrame
    <2> QED
      BY <2>1, <2>2 DEF Showing, ImportIsWhole
  <1> QED
    BY <1>1, <1>2, <1>4, <1>7

LEMMA HoldFrameKeeps == Inv /\ HoldFrame => Inv'
  <1> SUFFICES ASSUME Inv, HoldFrame PROVE Inv'
    OBVIOUS
  <1> USE FrameAssumption DEF Inv, TypeOK, frameVars, receiverVars, core1Vars,
                             pipelineVars, loopVars, panelVars
  <1>1. FlagsOK' /\ ModesOK' /\ CountsOK' /\ PixelsOK'
    BY DEF HoldFrame, FlagsOK, ModesOK, CountsOK, PixelsOK, Clients, States,
           Tokens
  <1>2. Ownership'
    BY DEF HoldFrame, Ownership
  <1>3. Available'
    BY DEF HoldFrame, Available
  <1>4. Showing' /\ ImportIsWhole'
    BY DEF HoldFrame, Showing, ImportIsWhole
  <1> QED
    BY <1>1, <1>2, <1>3, <1>4

LEMMA FinishReplyKeeps == Inv /\ FinishReply => Inv'
  BY FrameAssumption
     DEF Inv, TypeOK, frameVars, receiverVars, core1Vars, pipelineVars,
         loopVars, panelVars, FinishReply, FlagsOK, ModesOK, CountsOK,
         PixelsOK, Clients, Ownership, Available, Showing, ImportIsWhole

LEMMA AbortClientKeeps == Inv /\ AbortClient => Inv'
  <1> SUFFICES ASSUME Inv, AbortClient PROVE Inv'
    OBVIOUS
  <1> USE FrameAssumption DEF Inv, TypeOK, frameVars, receiverVars, core1Vars,
                             pipelineVars, loopVars, panelVars
  <1>1. hasFrame' \in BOOLEAN /\ (hasFrame' => hasFrame)
    BY DEF AbortClient
  <1>2. CASE client = "replying"
    <2>1. ~Owns(rawOwner)
      BY <1>2 DEF Owns, Ownership
    <2>2. hasFrame' = hasFrame /\ client' = "none"
      BY <2>1 DEF AbortClient, FlagsOK
    <2> QED
      BY <1>2, <2>2
         DEF AbortClient, FlagsOK, ModesOK, CountsOK, PixelsOK, Clients,
             Ownership, Available, Showing, ImportIsWhole
  <1>3. CASE client = "receiving"
    <2>1. Owns(rawOwner) /\ state = "Upload"
      BY <1>3 DEF Owns, Ownership
    <2>2. client' = "releasing" /\ (received = 0 \/ ~hasFrame')
      <3>1. client' = "releasing" /\ ~(hasFrame' /\ received > 0)
        BY <2>1, Zenon DEF AbortClient
      <3> QED
        BY <3>1 DEF CountsOK
    <2>3. ~prepared /\ pc \notin {"import", "read", "pack"}
      BY <2>1 DEF Ownership, Preparing
    <2>4. FlagsOK' /\ ModesOK' /\ CountsOK' /\ PixelsOK'
      BY <1>1, <2>2
         DEF AbortClient, FlagsOK, ModesOK, CountsOK, PixelsOK, Clients
    <2>5. Ownership'
      BY <1>3, <2>2 DEF AbortClient, Ownership
    <2>6. Available'
      BY <1>1, <1>3, <2>1, <2>2 DEF AbortClient, Available
    <2>7. Showing' /\ ImportIsWhole'
      BY <1>1, <2>3 DEF AbortClient, Showing, ImportIsWhole
    <2> QED
      BY <2>4, <2>5, <2>6, <2>7
  <1> QED
    BY <1>2, <1>3 DEF AbortClient

LEMMA ReleaseAbortedKeeps == Inv /\ ReleaseAborted => Inv'
  <1> SUFFICES ASSUME Inv, ReleaseAborted PROVE Inv'
    OBVIOUS
  <1> USE FrameAssumption DEF Inv, TypeOK, frameVars, receiverVars, core1Vars,
                             pipelineVars, loopVars, panelVars
  <1>1. FlagsOK' /\ ModesOK' /\ CountsOK' /\ PixelsOK'
    BY DEF ReleaseAborted, FlagsOK, ModesOK, CountsOK, PixelsOK, Clients,
           States, Tokens
  <1>2. Ownership'
    BY DEF ReleaseAborted, Ownership
  <1>3. Available'
    BY DEF ReleaseAborted, Available
  <1>4. Showing' /\ ImportIsWhole'
    BY DEF ReleaseAborted, Showing, ImportIsWhole
  <1> QED
    BY <1>1, <1>2, <1>3, <1>4

\* One more piece of a copy.
LEMMA Appended ==
    ASSUME NEW s \in Seq(0 .. MaxSequence + 1), NEW x \in 0 .. MaxSequence + 1,
           Len(s) < FrameChunks
    PROVE  /\ Append(s, x) \in Seq(0 .. MaxSequence + 1)
           /\ Len(Append(s, x)) = Len(s) + 1
           /\ Len(Append(s, x)) <= FrameChunks
  BY FrameAssumption

\* A copy of the framebuffer stays one when the next piece is read.
LEMMA Copied ==
    ASSUME NEW s \in Seq(0 .. MaxSequence + 1), pixels \in Frames,
           Len(s) < FrameChunks
    PROVE  LET t == Append(s, pixels[Len(s) + 1])
           IN  /\ t \in Seq(0 .. MaxSequence + 1)
               /\ Len(t) <= FrameChunks
               /\ (\A i \in 1 .. Len(s) : s[i] = pixels[i]) =>
                      \A i \in 1 .. Len(t) : t[i] = pixels[i]
  <1>1. pixels[Len(s) + 1] \in 0 .. MaxSequence + 1
    BY FrameAssumption DEF Frames, Chunks
  <1>2. /\ Len(Append(s, pixels[Len(s) + 1])) = Len(s) + 1
        /\ \A i \in 1 .. Len(s) : Append(s, pixels[Len(s) + 1])[i] = s[i]
        /\ Append(s, pixels[Len(s) + 1])[Len(s) + 1] = pixels[Len(s) + 1]
    BY <1>1
  <1> QED
    BY <1>1, <1>2, Appended

-----------------------------------------------------------------------------
(* Core 0's steps.                                                         *)

LEMMA HandlePauseKeeps == Inv /\ HandlePause => Inv'
  <1> SUFFICES ASSUME Inv, HandlePause PROVE Inv'
    OBVIOUS
  <1> USE FrameAssumption DEF Inv, TypeOK, frameVars, receiverVars, core1Vars,
                             pipelineVars, loopVars, panelVars
  <1>1. FlagsOK' /\ ModesOK' /\ CountsOK' /\ PixelsOK'
    <2>1. FlagsOK'
      BY DEF HandlePause, Reset, FlagsOK
    <2>2. ModesOK'
      <3>1. pc' \in {"paused", "storage"} /\ UNCHANGED <<client, job>>
        BY DEF HandlePause, Go
      <3>2. state' \in {state, "Idle"}
        BY DEF HandlePause, Reset
      <3> QED
        BY <3>1, <3>2 DEF ModesOK, States, Points
    <2>3. CountsOK'
      BY DEF HandlePause, Reset, CountsOK
    <2>4. PixelsOK'
      BY DEF HandlePause, PixelsOK
    <2> QED
      BY <2>1, <2>2, <2>3, <2>4
  <1>2. Ownership'
    BY DEF HandlePause, Reset, Go, Ownership, Preparing
  <1>3. Available'
    BY DEF HandlePause, Reset, Go, Available, Ownership
  <1>4. Showing' /\ ImportIsWhole'
    BY DEF HandlePause, Reset, Go, Showing, ImportIsWhole
  <1> QED
    BY <1>1, <1>2, <1>3, <1>4

LEMMA BeginPassKeeps == Inv /\ BeginPass => Inv'
  <1> SUFFICES ASSUME Inv, BeginPass PROVE Inv'
    OBVIOUS
  <1> USE FrameAssumption DEF Inv, TypeOK, frameVars, receiverVars, core1Vars,
                             pipelineVars, loopVars, panelVars
  <1>1. FlagsOK' /\ ModesOK' /\ CountsOK' /\ PixelsOK'
    BY DEF BeginPass, Go, FlagsOK, ModesOK, CountsOK, PixelsOK, Points
  <1>2. Ownership'
    BY DEF BeginPass, Go, Ownership, Preparing
  <1>3. Available'
    BY DEF BeginPass, Go, Available
  <1>4. Showing' /\ ImportIsWhole'
    BY DEF BeginPass, Go, Showing, ImportIsWhole, Preparing
  <1> QED
    BY <1>1, <1>2, <1>3, <1>4

LEMMA UpdateMemoryKeeps == Inv /\ UpdateMemory => Inv'
  <1> SUFFICES ASSUME Inv, UpdateMemory PROVE Inv'
    OBVIOUS
  <1> USE FrameAssumption DEF Inv, TypeOK, frameVars, receiverVars, core1Vars,
                             pipelineVars, loopVars, panelVars
  <1>1. FlagsOK' /\ ModesOK' /\ CountsOK' /\ PixelsOK'
    <2>1. FlagsOK'
      BY DEF UpdateMemory, Reset, FlagsOK
    <2>2. state' \in States
      BY DEF UpdateMemory, Reset, ModesOK, States
    <2>3. pc' \in Points /\ client' \in Clients /\ job' \in Jobs
      BY Zenon DEF UpdateMemory, Go, ModesOK, Points
    <2>4. CountsOK' /\ PixelsOK'
      BY DEF UpdateMemory, CountsOK, PixelsOK
    <2> QED
      BY <2>1, <2>2, <2>3, <2>4 DEF ModesOK
  <1>2. Ownership'
    BY DEF UpdateMemory, Reset, Go, Ownership, Preparing
  <1>3. Available'
    BY DEF UpdateMemory, Reset, Go, Available, Ownership
  <1>4. Showing' /\ ImportIsWhole'
    BY DEF UpdateMemory, Reset, Go, Showing, ImportIsWhole, Preparing
  <1> QED
    BY <1>1, <1>2, <1>3, <1>4

LEMMA ClaimForStorageKeeps == Inv /\ ClaimForStorage => Inv'
  <1> SUFFICES ASSUME Inv, ClaimForStorage PROVE Inv'
    OBVIOUS
  <1> USE FrameAssumption DEF Inv, TypeOK, frameVars, receiverVars, core1Vars,
                             pipelineVars, loopVars, panelVars
  <1>1. FlagsOK' /\ ModesOK' /\ CountsOK' /\ PixelsOK'
    BY DEF ClaimForStorage, CanRender, Go, FlagsOK, ModesOK, CountsOK,
           PixelsOK, States, Points
  <1>2. Ownership'
    BY DEF ClaimForStorage, CanRender, Go, Ownership, Preparing
  <1>3. Available'
    BY DEF ClaimForStorage, CanRender, Go, Available
  <1>4. Showing' /\ ImportIsWhole'
    BY DEF ClaimForStorage, CanRender, Go, Showing, ImportIsWhole, Preparing
  <1> QED
    BY <1>1, <1>2, <1>3, <1>4

LEMMA ReselectKeeps == Inv /\ Reselect => Inv'
  <1> SUFFICES ASSUME Inv, Reselect PROVE Inv'
    OBVIOUS
  <1> USE FrameAssumption DEF Inv, TypeOK, frameVars, receiverVars, core1Vars,
                             pipelineVars, loopVars, panelVars
  <1>1. FlagsOK' /\ ModesOK' /\ CountsOK' /\ PixelsOK'
    <2>1. FlagsOK'
      BY DEF Reselect, Go, FlagsOK
    <2>2. ModesOK'
      BY DEF Reselect, Go, ModesOK, States, Points
    <2>3. CountsOK'
      BY DEF Reselect, Go, CountsOK
    <2>4. PixelsOK'
      BY DEF Reselect, PixelsOK
    <2> QED
      BY <2>1, <2>2, <2>3, <2>4
  <1>2. Ownership'
    BY DEF Reselect, Go, Ownership, Preparing
  <1>3. Available'
    BY DEF Reselect, Go, Available, Ownership
  <1>4. Showing' /\ ImportIsWhole'
    BY DEF Reselect, Go, Showing, ImportIsWhole, Ownership
  <1> QED
    BY <1>1, <1>2, <1>3, <1>4

LEMMA BeginJobKeeps == Inv /\ BeginJob => Inv'
  <1> SUFFICES ASSUME Inv, BeginJob PROVE Inv'
    OBVIOUS
  <1> USE FrameAssumption DEF Inv, TypeOK, frameVars, receiverVars, core1Vars,
                             pipelineVars, loopVars, panelVars
  <1>1. FlagsOK' /\ ModesOK' /\ CountsOK' /\ PixelsOK'
    BY DEF BeginJob, FlagsOK, ModesOK, CountsOK, PixelsOK, States, Jobs
  <1>2. Ownership'
    BY DEF BeginJob, Ownership
  <1>3. Available'
    BY DEF BeginJob, Available
  <1>4. Showing' /\ ImportIsWhole'
    BY DEF BeginJob, Showing, ImportIsWhole
  <1> QED
    BY <1>1, <1>2, <1>3, <1>4

LEMMA EndJobKeeps == Inv /\ EndJob => Inv'
  <1> SUFFICES ASSUME Inv, EndJob PROVE Inv'
    OBVIOUS
  <1> USE FrameAssumption DEF Inv, TypeOK, frameVars, receiverVars, core1Vars,
                             pipelineVars, loopVars, panelVars
  <1>1. FlagsOK' /\ ModesOK' /\ CountsOK' /\ PixelsOK'
    BY DEF EndJob, Go, After, FlagsOK, ModesOK, CountsOK, PixelsOK, States,
           Points, Jobs
  <1>2. Ownership'
    BY DEF EndJob, Go, After, Ownership, Preparing
  <1>3. Available'
    BY DEF EndJob, Go, After, Available, Ownership
  <1>4. Showing' /\ ImportIsWhole'
    BY DEF EndJob, Go, After, Showing, ImportIsWhole, Ownership
  <1> QED
    BY <1>1, <1>2, <1>3, <1>4

LEMMA ServeJobKeeps == Inv /\ ServeJob => Inv'
  <1> SUFFICES ASSUME Inv, ServeJob PROVE Inv'
    OBVIOUS
  <1> USE FrameAssumption DEF Inv, TypeOK, frameVars, receiverVars, core1Vars,
                             pipelineVars, loopVars, panelVars
  <1>1. FlagsOK' /\ ModesOK' /\ CountsOK' /\ PixelsOK'
    BY DEF ServeJob, Go, After, FlagsOK, ModesOK, CountsOK, PixelsOK, Points
  <1>2. Ownership'
    BY DEF ServeJob, Go, After, Ownership, Preparing
  <1>3. Available'
    BY DEF ServeJob, Go, After, Available
  <1>4. Showing' /\ ImportIsWhole'
    BY DEF ServeJob, Go, After, Showing, ImportIsWhole, Preparing
  <1> QED
    BY <1>1, <1>2, <1>3, <1>4

LEMMA TryPrepareKeeps == Inv /\ TryPrepare => Inv'
  <1> SUFFICES ASSUME Inv, TryPrepare PROVE Inv'
    OBVIOUS
  <1> USE FrameAssumption DEF Inv, TypeOK, frameVars, receiverVars, core1Vars,
                             pipelineVars, loopVars, panelVars
  <1>1. FlagsOK' /\ ModesOK' /\ CountsOK' /\ PixelsOK'
    <2>1. FlagsOK'
      BY DEF TryPrepare, FlagsOK
    <2>2. state' \in States
      BY DEF TryPrepare, ModesOK, States
    <2>3. pc' \in Points /\ client' \in Clients /\ job' \in Jobs
      BY DEF TryPrepare, Go, ModesOK, Points
    <2>4. CountsOK' /\ PixelsOK'
      BY DEF TryPrepare, CountsOK, PixelsOK
    <2> QED
      BY <2>1, <2>2, <2>3, <2>4 DEF ModesOK
  <1>2. Ownership'
    BY DEF TryPrepare, CanRender, Go, Ownership, Preparing
  <1>3. Available'
    BY DEF TryPrepare, CanRender, Go, Available
  <1>4. Showing' /\ ImportIsWhole'
    BY DEF TryPrepare, CanRender, Go, Showing, ImportIsWhole, Preparing
  <1> QED
    BY <1>1, <1>2, <1>3, <1>4

LEMMA AdoptKeeps == Inv /\ Adopt => Inv'
  <1> SUFFICES ASSUME Inv, Adopt PROVE Inv'
    OBVIOUS
  <1> USE FrameAssumption DEF Inv, TypeOK, frameVars, receiverVars, core1Vars,
                             pipelineVars, loopVars, panelVars
  <1>1. FlagsOK' /\ ModesOK' /\ CountsOK' /\ PixelsOK'
    BY DEF Adopt, Unsaved, Go, FlagsOK, ModesOK, CountsOK, PixelsOK, Points
  <1>2. Ownership'
    BY DEF Adopt, Unsaved, Go, Ownership, Preparing
  <1>3. Available'
    BY DEF Adopt, Unsaved, Go, Available
  <1>4. Showing' /\ ImportIsWhole'
    BY DEF Adopt, Unsaved, Go, Showing, ImportIsWhole, Preparing
  <1> QED
    BY <1>1, <1>2, <1>3, <1>4

LEMMA ImportChunkKeeps == Inv /\ ImportChunk => Inv'
  <1> SUFFICES ASSUME Inv, ImportChunk PROVE Inv'
    OBVIOUS
  <1> USE FrameAssumption DEF Inv, TypeOK, frameVars, receiverVars, core1Vars,
                             pipelineVars, loopVars, panelVars
  <1>1. FlagsOK' /\ ModesOK' /\ CountsOK' /\ PixelsOK'
    <2>1. copy' \in Seq(0 .. MaxSequence + 1) /\ Len(copy') <= FrameChunks
      BY Copied DEF ImportChunk, PixelsOK
    <2> QED
      BY <2>1 DEF ImportChunk, FlagsOK, ModesOK, CountsOK, PixelsOK
  <1>2. Ownership'
    BY DEF ImportChunk, Ownership
  <1>3. Available'
    BY DEF ImportChunk, Available
  <1>4. Showing' /\ ImportIsWhole'
    <2>1. state = "Render" /\ pixels = Whole(attempted)
      BY DEF ImportChunk, Ownership, Preparing, Showing, Available
    <2>2. \A i \in 1 .. Len(copy') : copy'[i] = pixels[i]
      BY Copied DEF ImportChunk, Showing
    <2>3. Len(copy') <= FrameChunks
      BY <1>1 DEF PixelsOK
    <2>4. \A i \in 1 .. Len(copy') : copy'[i] = attempted
      BY <2>1, <2>2, <2>3 DEF Whole, Chunks
    <2> QED
      BY <2>2, <2>4 DEF ImportChunk, Showing, ImportIsWhole
  <1> QED
    BY <1>1, <1>2, <1>3, <1>4

LEMMA ImportEndsKeeps == Inv /\ ImportEnds => Inv'
  <1> SUFFICES ASSUME Inv, ImportEnds PROVE Inv'
    OBVIOUS
  <1> USE FrameAssumption DEF Inv, TypeOK, frameVars, receiverVars, core1Vars,
                             pipelineVars, loopVars, panelVars
  <1>1. FlagsOK' /\ ModesOK' /\ CountsOK' /\ PixelsOK'
    BY DEF ImportEnds, Go, FlagsOK, ModesOK, CountsOK, PixelsOK, Points
  <1>2. Ownership'
    BY DEF ImportEnds, Go, Ownership, Preparing
  <1>3. Available'
    BY DEF ImportEnds, Go, Available
  <1>4. Showing' /\ ImportIsWhole'
    BY DEF ImportEnds, Go, Showing, ImportIsWhole, Preparing
  <1> QED
    BY <1>1, <1>2, <1>3, <1>4

LEMMA UpdateMediaKeeps == Inv /\ UpdateMedia => Inv'
  <1> SUFFICES ASSUME Inv, UpdateMedia PROVE Inv'
    OBVIOUS
  <1> USE FrameAssumption DEF Inv, TypeOK, frameVars, receiverVars, core1Vars,
                             pipelineVars, loopVars, panelVars
  <1>1. FlagsOK' /\ ModesOK' /\ CountsOK' /\ PixelsOK'
    <2>1. hasFrame' \in BOOLEAN /\ pc' \in Points
      BY DEF UpdateMedia, Go, FlagsOK, Points
    <2> QED
      BY <2>1, EmptyCopy DEF UpdateMedia, FlagsOK, ModesOK, CountsOK, PixelsOK
  <1>2. Ownership'
    BY DEF UpdateMedia, Go, Ownership, Preparing
  <1>3. Available'
    BY DEF UpdateMedia, Go, Available, Ownership, Preparing
  <1>4. Showing' /\ ImportIsWhole'
    BY DEF UpdateMedia, Go, Showing, ImportIsWhole, Preparing
  <1> QED
    BY <1>1, <1>2, <1>3, <1>4

LEMMA ReadChunkKeeps == Inv /\ ReadChunk => Inv'
  <1> SUFFICES ASSUME Inv, ReadChunk PROVE Inv'
    OBVIOUS
  <1> USE FrameAssumption DEF Inv, TypeOK, frameVars, receiverVars, core1Vars,
                             pipelineVars, loopVars, panelVars
  <1>1. FlagsOK' /\ ModesOK' /\ CountsOK' /\ PixelsOK'
    <2>1. Provisional \in 0 .. MaxSequence + 1
      BY DEF Provisional
    <2>2. copy' \in Seq(0 .. MaxSequence + 1) /\ Len(copy') <= FrameChunks
      BY <2>1, Appended DEF ReadChunk, PixelsOK
    <2>3. pixels' \in Frames
      <3>1. pixels' = [pixels EXCEPT ![Len(copy')] = Provisional] /\ pixels \in Frames
        BY DEF ReadChunk, PixelsOK
      <3> QED
        BY <2>1, <3>1 DEF Frames
    <2> QED
      BY <2>2, <2>3 DEF ReadChunk, FlagsOK, ModesOK, CountsOK, PixelsOK
  <1>2. Ownership'
    BY DEF ReadChunk, Ownership
  <1>3. Available'
    BY DEF ReadChunk, Available, Ownership, Preparing
  <1>4. Showing' /\ ImportIsWhole'
    <2>1. \A i \in 1 .. Len(copy') : pixels'[i] = Provisional
      <3>1. copy \in Seq(0 .. MaxSequence + 1) /\ Len(copy) \in Nat
        BY DEF PixelsOK
      <3>2. Len(copy') = Len(copy) + 1 /\ Len(copy) < FrameChunks
        BY <3>1 DEF ReadChunk
      <3>3. \A i \in 1 .. Len(copy) : pixels[i] = Provisional
        BY DEF ReadChunk, Showing
      <3>4. pixels' = [pixels EXCEPT ![Len(copy')] = Provisional] /\ pixels \in Frames
        BY DEF ReadChunk, PixelsOK
      <3> QED
        BY <3>1, <3>2, <3>3, <3>4 DEF Frames, Chunks
    <2> QED
      BY <2>1 DEF ReadChunk, Showing, ImportIsWhole, Preparing
  <1> QED
    BY <1>1, <1>2, <1>3, <1>4

LEMMA ReadFailsKeeps == Inv /\ ReadFails => Inv'
  <1> SUFFICES ASSUME Inv, ReadFails PROVE Inv'
    OBVIOUS
  <1> USE FrameAssumption DEF Inv, TypeOK, frameVars, receiverVars, core1Vars,
                             pipelineVars, loopVars, panelVars
  <1>1. FlagsOK' /\ ModesOK' /\ CountsOK' /\ PixelsOK'
    <2>1. pc' \in Points
      BY DEF ReadFails, Go, Points
    <2>2. attempts' \in 0 .. ReadAttempts - 1
      BY DEF ReadFails, CountsOK
    <2> QED
      BY <2>1, <2>2, EmptyCopy
         DEF ReadFails, FlagsOK, ModesOK, CountsOK, PixelsOK
  <1>2. Ownership'
    BY DEF ReadFails, Go, Ownership, Preparing
  <1>3. Available'
    BY DEF ReadFails, Go, Available, Ownership, Preparing
  <1>4. Showing' /\ ImportIsWhole'
    BY DEF ReadFails, Go, Showing, ImportIsWhole, Preparing
  <1> QED
    BY <1>1, <1>2, <1>3, <1>4

LEMMA PublishStoredFrameKeeps == Inv /\ PublishStoredFrame => Inv'
  <1> SUFFICES ASSUME Inv, PublishStoredFrame PROVE Inv'
    OBVIOUS
  <1> USE FrameAssumption DEF Inv, TypeOK, frameVars, receiverVars, core1Vars,
                             pipelineVars, loopVars, panelVars
  <1>1. FlagsOK' /\ ModesOK' /\ CountsOK' /\ PixelsOK'
    <2>1. sequence' \in Tokens /\ revision' \in Tokens
      BY DEF PublishStoredFrame, CountsOK, Tokens
    <2>2. CountsOK'
      BY <2>1 DEF PublishStoredFrame, CountsOK
    <2>3. pixels' \in Frames
      BY <2>1 DEF PublishStoredFrame, PixelsOK, Frames, Tokens
    <2> QED
      BY <2>2, <2>3, EmptyCopy
         DEF PublishStoredFrame, Go, FlagsOK, ModesOK, PixelsOK, Points
  <1>2. Ownership'
    BY DEF PublishStoredFrame, Go, Ownership, Preparing
  <1>3. Available'
    <2>1. \A c \in 1 .. FrameChunks : pixels[c] = Provisional
      BY DEF PublishStoredFrame, Showing
    <2>2. pixels' = Whole(sequence')
      BY <2>1 DEF PublishStoredFrame, Whole, Chunks
    <2>3. revision' = sequence' /\ sequence' > 0 /\ sequence' \in Nat
      BY DEF PublishStoredFrame, CountsOK, Tokens
    <2>4. state' # "Upload" /\ client' \notin {"receiving", "finishing", "publishing", "releasing"}
      BY DEF PublishStoredFrame, Ownership, Preparing
    <2> QED
      BY <2>2, <2>3, <2>4 DEF Available
  <1>4. Showing' /\ ImportIsWhole'
    <2>1. displayed' <= revision' /\ displayed' # revision'
      BY DEF PublishStoredFrame, Showing, Available, CountsOK, Tokens
    <2>2. pc' = "draw"
      BY DEF PublishStoredFrame, Go
    <2> QED
      BY <2>1, <2>2 DEF Showing, ImportIsWhole, Preparing
  <1> QED
    BY <1>1, <1>2, <1>3, <1>4

LEMMA DrawFallbackKeeps == Inv /\ DrawFallback => Inv'
  <1> SUFFICES ASSUME Inv, DrawFallback PROVE Inv'
    OBVIOUS
  <1> USE FrameAssumption DEF Inv, TypeOK, frameVars, receiverVars, core1Vars,
                             pipelineVars, loopVars, panelVars
  <1>1. FlagsOK' /\ ModesOK' /\ CountsOK' /\ PixelsOK'
    <2>1. overlay' \in BOOLEAN
      BY DEF DrawFallback
    <2>2. BuiltIn \in 0 .. MaxSequence + 1
      BY DEF BuiltIn
    <2>3. pixels' \in Frames
      BY <2>2, WholeFrame DEF DrawFallback, PixelsOK
    <2> QED
      BY <2>1, <2>3
         DEF DrawFallback, Go, FlagsOK, ModesOK, CountsOK, PixelsOK, Points
  <1>2. Ownership'
    BY DEF DrawFallback, Go, Ownership, Preparing
  <1>3. Available'
    BY DEF DrawFallback, Go, Available, Ownership, Preparing
  <1>4. Showing' /\ ImportIsWhole'
    BY DEF DrawFallback, Go, Showing, ImportIsWhole
  <1> QED
    BY <1>1, <1>2, <1>3, <1>4

LEMMA SkipSubmitKeeps == Inv /\ SkipSubmit => Inv'
  <1> SUFFICES ASSUME Inv, SkipSubmit PROVE Inv'
    OBVIOUS
  <1> USE FrameAssumption DEF Inv, TypeOK, frameVars, receiverVars, core1Vars,
                             pipelineVars, loopVars, panelVars
  <1>1. FlagsOK' /\ ModesOK' /\ CountsOK' /\ PixelsOK'
    BY DEF SkipSubmit, Go, FlagsOK, ModesOK, CountsOK, PixelsOK, Points
  <1>2. Ownership'
    BY DEF SkipSubmit, Go, Ownership, Preparing
  <1>3. Available'
    BY DEF SkipSubmit, Go, Available
  <1>4. Showing' /\ ImportIsWhole'
    BY DEF SkipSubmit, Go, Showing, ImportIsWhole, Preparing
  <1> QED
    BY <1>1, <1>2, <1>3, <1>4

LEMMA StallKeeps == Inv /\ Stall => Inv'
  <1> SUFFICES ASSUME Inv, Stall PROVE Inv'
    OBVIOUS
  <1> USE FrameAssumption DEF Inv, TypeOK, frameVars, receiverVars, core1Vars,
                             pipelineVars, loopVars, panelVars
  <1>1. FlagsOK' /\ ModesOK' /\ CountsOK' /\ PixelsOK'
    BY DEF Stall, Go, FlagsOK, ModesOK, CountsOK, PixelsOK, States, Points
  <1>2. Ownership'
    BY DEF Stall, Go, Ownership, Preparing
  <1>3. Available'
    BY DEF Stall, Go, Available, Ownership
  <1>4. Showing' /\ ImportIsWhole'
    BY DEF Stall, Go, Showing, ImportIsWhole
  <1> QED
    BY <1>1, <1>2, <1>3, <1>4

LEMMA SubmitHeldKeeps == Inv /\ SubmitHeld => Inv'
  <1> SUFFICES ASSUME Inv, SubmitHeld PROVE Inv'
    OBVIOUS
  <1> USE FrameAssumption DEF Inv, TypeOK, frameVars, receiverVars, core1Vars,
                             pipelineVars, loopVars, panelVars
  <1>1. FlagsOK' /\ ModesOK' /\ CountsOK' /\ PixelsOK'
    BY DEF SubmitHeld, Reset, Go, FlagsOK, ModesOK, CountsOK, PixelsOK,
           States, Points
  <1>2. Ownership'
    BY DEF SubmitHeld, Reset, Go, Ownership, Preparing
  <1>3. Available'
    BY DEF SubmitHeld, Reset, Go, Available, Ownership
  <1>4. Showing' /\ ImportIsWhole'
    BY DEF SubmitHeld, Reset, Go, Showing, ImportIsWhole
  <1> QED
    BY <1>1, <1>2, <1>3, <1>4

LEMMA SubmitDrawnKeeps == Inv /\ SubmitDrawn => Inv'
  <1> SUFFICES ASSUME Inv, SubmitDrawn PROVE Inv'
    OBVIOUS
  <1> USE FrameAssumption DEF Inv, TypeOK, frameVars, receiverVars, core1Vars,
                             pipelineVars, loopVars, panelVars
  <1>1. FlagsOK' /\ ModesOK' /\ CountsOK' /\ PixelsOK'
    BY DEF SubmitDrawn, Go, FlagsOK, ModesOK, CountsOK, PixelsOK, Points
  <1>2. Ownership'
    BY DEF SubmitDrawn, Go, Ownership
  <1>3. Available'
    BY DEF SubmitDrawn, Go, Available
  <1>4. Showing' /\ ImportIsWhole'
    BY DEF SubmitDrawn, Go, Showing, ImportIsWhole, Preparing
  <1> QED
    BY <1>1, <1>2, <1>3, <1>4

LEMMA PackChunkKeeps == Inv /\ PackChunk => Inv'
  <1> SUFFICES ASSUME Inv, PackChunk PROVE Inv'
    OBVIOUS
  <1> USE FrameAssumption DEF Inv, TypeOK, frameVars, receiverVars, core1Vars,
                             pipelineVars, loopVars, panelVars
  <1>1. FlagsOK' /\ ModesOK' /\ CountsOK' /\ PixelsOK'
    <2>1. copy' \in Seq(0 .. MaxSequence + 1) /\ Len(copy') <= FrameChunks
      BY Copied DEF PackChunk, PixelsOK
    <2> QED
      BY <2>1 DEF PackChunk, FlagsOK, ModesOK, CountsOK, PixelsOK
  <1>2. Ownership'
    BY DEF PackChunk, Ownership
  <1>3. Available'
    BY DEF PackChunk, Available
  <1>4. Showing' /\ ImportIsWhole'
    <2>1. \A i \in 1 .. Len(copy') : copy'[i] = pixels[i]
      BY Copied DEF PackChunk, Showing
    <2> QED
      BY <2>1 DEF PackChunk, Showing, ImportIsWhole
  <1> QED
    BY <1>1, <1>2, <1>3, <1>4

\* What is submitted is what the framebuffer holds.
LEMMA PackedFrame ==
    ASSUME Inv, Submitted
    PROVE  panel' = pixels /\ state = "Render" /\ prepared
  <1>1. copy \in Seq(0 .. MaxSequence + 1) /\ Len(copy) = FrameChunks
    BY DEF Submitted, Inv, TypeOK, PixelsOK
  <1>2. \A c \in 1 .. FrameChunks : copy[c] = pixels[c]
    BY <1>1 DEF Submitted, Inv, Showing
  <1>3. DOMAIN copy = 1 .. FrameChunks /\ copy = [c \in DOMAIN copy |-> copy[c]]
    BY <1>1
  <1>4. pixels \in [1 .. FrameChunks -> 0 .. MaxSequence + 1]
    BY DEF Inv, TypeOK, PixelsOK, Frames, Chunks
  <1>5. copy = pixels
    BY <1>2, <1>3, <1>4
  <1> QED
    BY <1>5 DEF Submitted, Inv, Ownership

LEMMA SubmittedKeeps == Inv /\ Submitted => Inv'
  <1> SUFFICES ASSUME Inv, Submitted PROVE Inv'
    OBVIOUS
  <1> USE FrameAssumption DEF Inv, TypeOK, frameVars, receiverVars, core1Vars,
                             pipelineVars, loopVars, panelVars
  <1>1. FlagsOK' /\ ModesOK' /\ CountsOK' /\ PixelsOK'
    <2>1. PixelsOK'
      BY PackedFrame, EmptyCopy DEF Submitted, PixelsOK
    <2>2. ModesOK'
      BY PackedFrame DEF Submitted, Reset, Go, ModesOK, States, Points
    <2> QED
      BY <2>1, <2>2 DEF Submitted, Reset, FlagsOK, CountsOK
  <1>2. Ownership'
    BY DEF Submitted, Reset, Go, Ownership, Preparing
  <1>3. Available'
    BY DEF Submitted, Reset, Go, Available, Ownership
  <1>4. Showing' /\ ImportIsWhole'
    <2>1. hasFrame => panel' = Whole(revision)
      BY PackedFrame DEF Submitted, Available
    <2>2. displayed' = revision' /\ revision' <= revision'
      BY DEF Submitted, CountsOK, Tokens
    <2>3. pc' = "top" /\ ~prepared'
      BY DEF Submitted, Reset, Go
    <2> QED
      BY <2>1, <2>2, <2>3 DEF Submitted, Showing, ImportIsWhole
  <1> QED
    BY <1>1, <1>2, <1>3, <1>4

-----------------------------------------------------------------------------
(* Time, the scanner, and the theorems.                                    *)

LEMMA DeadlinePassesKeeps == Inv /\ DeadlinePasses => Inv'
  <1> SUFFICES ASSUME Inv, DeadlinePasses PROVE Inv'
    OBVIOUS
  <1> USE FrameAssumption DEF Inv, TypeOK, frameVars, receiverVars, core1Vars,
                             pipelineVars, loopVars, panelVars
  <1>1. FlagsOK' /\ ModesOK' /\ CountsOK' /\ PixelsOK'
    BY DEF DeadlinePasses, FlagsOK, ModesOK, CountsOK, PixelsOK
  <1>2. Ownership'
    BY DEF DeadlinePasses, Ownership
  <1>3. Available'
    BY DEF DeadlinePasses, Available
  <1>4. Showing' /\ ImportIsWhole'
    BY DEF DeadlinePasses, Showing, ImportIsWhole
  <1> QED
    BY <1>1, <1>2, <1>3, <1>4

LEMMA ScannerSwapsKeeps == Inv /\ ScannerSwaps => Inv'
  <1> SUFFICES ASSUME Inv, ScannerSwaps PROVE Inv'
    OBVIOUS
  <1> USE FrameAssumption DEF Inv, TypeOK, frameVars, receiverVars, core1Vars,
                             pipelineVars, loopVars, panelVars
  <1>1. FlagsOK' /\ ModesOK' /\ CountsOK' /\ PixelsOK'
    BY DEF ScannerSwaps, FlagsOK, ModesOK, CountsOK, PixelsOK
  <1>2. Ownership'
    BY DEF ScannerSwaps, Ownership
  <1>3. Available'
    BY DEF ScannerSwaps, Available
  <1>4. Showing' /\ ImportIsWhole'
    BY DEF ScannerSwaps, Showing, ImportIsWhole
  <1> QED
    BY <1>1, <1>2, <1>3, <1>4

\* Every step preserves the invariant.
LEMMA StepHolds == Inv /\ [Next]_vars => Inv'
  <1> SUFFICES ASSUME Inv, [Next]_vars PROVE Inv'
    OBVIOUS
  <1>1. CASE Accept
    BY <1>1, AcceptKeeps
  <1>2. CASE PhotoClient
    BY <1>2, FeedKeeps, PublishFrameKeeps, HoldFrameKeeps, FinishReplyKeeps,
       AbortClientKeeps, ReleaseAbortedKeeps
       DEF PhotoClient
  <1>3. CASE RenderLoop
    BY <1>3, HandlePauseKeeps, BeginPassKeeps, UpdateMemoryKeeps,
       ClaimForStorageKeeps, ReselectKeeps, BeginJobKeeps, EndJobKeeps,
       ServeJobKeeps, TryPrepareKeeps, AdoptKeeps, ImportChunkKeeps,
       ImportEndsKeeps, UpdateMediaKeeps, ReadChunkKeeps, ReadFailsKeeps,
       PublishStoredFrameKeeps, DrawFallbackKeeps, SkipSubmitKeeps,
       StallKeeps, SubmitHeldKeeps, SubmitDrawnKeeps, PackChunkKeeps,
       SubmittedKeeps
       DEF RenderLoop
  <1>4. CASE DeadlinePasses
    BY <1>4, DeadlinePassesKeeps
  <1>5. CASE ScannerSwaps
    BY <1>5, ScannerSwapsKeeps
  <1>6. CASE UNCHANGED vars
    BY <1>6
       DEF vars, frameVars, receiverVars, core1Vars, pipelineVars, loopVars,
           panelVars, Inv, TypeOK, FlagsOK, ModesOK, CountsOK, PixelsOK,
           Ownership, Available, Showing, ImportIsWhole
  <1> QED
    BY <1>1, <1>2, <1>3, <1>4, <1>5, <1>6 DEF Next

\* In every reachable state the owner recorded in state_ agrees with what both
\* cores are doing, an available frame is whole, and a photo that is being
\* imported is copied from one image only.
THEOREM InvHolds == Spec => []Inv
  <1> QED
    BY InitHolds, StepHolds, PTL DEF Spec

\* Only Submitted changes the panel.
LEMMA PanelSteps ==
    ASSUME [Next]_vars, panel' # panel
    PROVE  Submitted
  <1> USE DEF panelVars
  <1>1. CASE Accept
    BY <1>1 DEF Accept
  <1>2. CASE PhotoClient
    BY <1>2
       DEF PhotoClient, Feed, PublishFrame, HoldFrame, FinishReply,
           AbortClient, ReleaseAborted
  <1>3. CASE RenderLoop
    <2>1. ~HandlePause /\ ~BeginPass /\ ~UpdateMemory /\ ~ClaimForStorage
      BY DEF HandlePause, BeginPass, UpdateMemory, ClaimForStorage
    <2>2. ~Reselect /\ ~BeginJob /\ ~EndJob /\ ~ServeJob /\ ~TryPrepare
      BY DEF Reselect, BeginJob, EndJob, ServeJob, TryPrepare
    <2>3. ~Adopt /\ ~ImportChunk /\ ~ImportEnds /\ ~UpdateMedia /\ ~ReadChunk
      BY DEF Adopt, ImportChunk, ImportEnds, UpdateMedia, ReadChunk
    <2>4. ~ReadFails /\ ~PublishStoredFrame /\ ~DrawFallback /\ ~SkipSubmit
      BY DEF ReadFails, PublishStoredFrame, DrawFallback, SkipSubmit
    <2>5. ~Stall /\ ~SubmitHeld /\ ~SubmitDrawn /\ ~PackChunk
      BY DEF Stall, SubmitHeld, SubmitDrawn, PackChunk
    <2> QED
      BY <1>3, <2>1, <2>2, <2>3, <2>4, <2>5 DEF RenderLoop
  <1>4. CASE DeadlinePasses \/ ScannerSwaps
    BY <1>4 DEF DeadlinePasses, ScannerSwaps
  <1>5. CASE UNCHANGED vars
    BY <1>5 DEF vars
  <1> QED
    BY <1>1, <1>2, <1>3, <1>4, <1>5 DEF Next

\* A step gives the panel a whole image, and a submission is only skipped when
\* the panel shows what the framebuffer holds.
LEMMA StepFaithful ==
    ASSUME Inv, [Next]_vars
    PROVE  /\ panel' # panel => \E image \in 0 .. MaxSequence : panel' = Whole(image)
           /\ SubmitHeld => panel = pixels
  <1>1. ASSUME panel' # panel
        PROVE  \E image \in 0 .. MaxSequence : panel' = Whole(image)
    <2>1. Submitted
      BY <1>1, PanelSteps
    <2>2. panel' = pixels /\ state = "Render" /\ prepared
      BY <2>1, PackedFrame
    <2>3. CASE hasFrame
      <3>1. pixels = Whole(revision)
        BY <2>1, <2>2, <2>3 DEF Submitted, Inv, Available
      <3> QED
        BY <2>2, <3>1 DEF Inv, TypeOK, CountsOK, Tokens
    <2>4. CASE ~hasFrame
      <3>1. pixels = Whole(BuiltIn)
        BY <2>1, <2>2, <2>4 DEF Submitted, Inv, Showing, Preparing
      <3> QED
        BY <2>2, <3>1, FrameAssumption DEF BuiltIn
    <2> QED
      BY <2>3, <2>4
  <1>2. ASSUME SubmitHeld
        PROVE  panel = pixels
    <2>1. hasFrame /\ displayed = revision /\ state = "Render" /\ pc = "submit"
      BY <1>2
         DEF SubmitHeld, FreshFrame, Inv, TypeOK, Showing, Preparing,
             Ownership
    <2> QED
      BY <2>1 DEF Inv, Showing, Available
  <1> QED
    BY <1>1, <1>2

\* The panel is only ever given one whole, verified image or the built-in one,
\* and an unchanged revision stands for unchanged pixels, so that
\* SubmitDisplayFrame may skip it.
THEOREM PanelFaithfulHolds == Spec => PanelFaithful
  <1> DEFINE A == /\ panel' # panel => \E image \in 0 .. MaxSequence : panel' = Whole(image)
                  /\ SubmitHeld => panel = pixels
  <1>1. Inv /\ [Next]_vars => [A]_vars
    BY StepFaithful
  <1> HIDE DEF A
  <1>2. Spec => [][A]_vars
    BY <1>1, InvHolds, PTL DEF Spec
  <1> QED
    BY <1>2 DEF A, PanelFaithful

\* What is known of both cores while a photo is held.
LEMMA Held ==
    ASSUME Inv, state = "Pending"
    PROVE  /\ client \in {"none", "replying"} /\ rawOwner = 0 /\ job = "none"
           /\ ~prepared /\ pc \notin Preparing \cup {"pack", "reselect"}
  BY DEF Inv, TypeOK, ModesOK, Clients, Ownership

\* No step but a rendering claim touches a held photo.
LEMMA StepHeld ==
    ASSUME Inv, [Next]_vars, state = "Pending"
    PROVE  /\ state' \in {"Pending", "Render"}
           /\ UNCHANGED <<pixels, revision, hasFrame, fromStorage>>
  <1> USE Held DEF frameVars, receiverVars, core1Vars, pipelineVars, loopVars
  <1>1. CASE Accept
    BY <1>1 DEF Accept
  <1>2. CASE PhotoClient
    <2>1. FinishReply \/ AbortClient
      BY <1>2 DEF PhotoClient, Feed, PublishFrame, HoldFrame, ReleaseAborted
    <2>2. ~Owns(rawOwner)
      BY DEF Owns
    <2>3. hasFrame' = hasFrame
      BY <2>1, <2>2 DEF FinishReply, AbortClient, Inv, TypeOK, FlagsOK
    <2> QED
      BY <2>1, <2>3 DEF FinishReply, AbortClient
  <1>3. CASE HandlePause \/ BeginPass \/ UpdateMemory \/ ClaimForStorage
    BY <1>3 DEF HandlePause, BeginPass, UpdateMemory, ClaimForStorage, Reset
  <1>4. CASE Reselect \/ BeginJob \/ EndJob \/ ServeJob \/ TryPrepare
    BY <1>4 DEF Reselect, BeginJob, EndJob, ServeJob, TryPrepare
  <1>5. CASE Adopt \/ ImportChunk \/ ImportEnds \/ UpdateMedia \/ ReadChunk
    BY <1>5
       DEF Adopt, ImportChunk, ImportEnds, UpdateMedia, ReadChunk, Preparing
  <1>6. CASE ReadFails \/ PublishStoredFrame \/ DrawFallback \/ SkipSubmit
    BY <1>6
       DEF ReadFails, PublishStoredFrame, DrawFallback, SkipSubmit, Preparing
  <1>7. CASE Stall \/ SubmitHeld \/ SubmitDrawn \/ PackChunk \/ Submitted
    BY <1>7 DEF Stall, SubmitHeld, SubmitDrawn, PackChunk, Submitted
  <1>8. CASE DeadlinePasses \/ ScannerSwaps
    BY <1>8 DEF DeadlinePasses, ScannerSwaps
  <1>9. CASE UNCHANGED vars
    BY <1>9 DEF vars
  <1> QED
    BY <1>1, <1>2, <1>3, <1>4, <1>5, <1>6, <1>7, <1>8, <1>9
       DEF Next, RenderLoop

\* A completed photo on hold is out of reach of its client's death, of a new
\* client and of a stopped listener; only a rendering claim ends the hold.
THEOREM HeldPhotoUntouchedHolds == Spec => HeldPhotoUntouched
  <1> DEFINE A == state = "Pending" =>
                      /\ state' \in {"Pending", "Render"}
                      /\ UNCHANGED <<pixels, revision, hasFrame, fromStorage>>
  <1>1. Inv /\ [Next]_vars => [A]_vars
    BY StepHeld
  <1> HIDE DEF A
  <1>2. Spec => [][A]_vars
    BY <1>1, InvHolds, PTL DEF Spec
  <1> QED
    BY <1>2 DEF A, HeldPhotoUntouched

=============================================================================
