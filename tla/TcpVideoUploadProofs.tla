------------------------ MODULE TcpVideoUploadProofs ------------------------
(***************************************************************************)
(* A video upload is safe for any length of a video, any number of         *)
(* connections and of failures: Inv is inductive.  What makes it so is     *)
(* what Core 0 may still assume of a connection that the callbacks went on *)
(* to serve, to cancel or to replace while it was at work on the card.     *)
(***************************************************************************)
EXTENDS TcpVideoUpload, SequenceTheorems, TLAPS

\* SAVED is only said of this client's video; where the client stands says
\* enough of the other replies.
Told == reply = "SAVED" /\ client # 0 => published = Prefix(client, Chunks)

IndInv ==
    /\ TypeOK /\ ConnectionPhase /\ SessionOwned /\ WrittenIsPrefix /\ Told
    /\ Claimed /\ VerdictFits /\ SessionPhase /\ ClientStands /\ PositionKept

LEMMA RepliesFollow == IndInv => Inv
  <1> SUFFICES ASSUME IndInv PROVE RepliesTruthful
    BY DEF IndInv, Inv
  <1> USE DEF IndInv
  <1>1. ASSUME reply = "NEXT", client # 0, storage = "ready", external
        PROVE  Len(save.data) \in {sent, sent - 1} /\ save.data # <<>>
    BY <1>1 DEF ClientStands, PositionKept
  <1>2. ASSUME reply = "VERIFY", client # 0, storage = "ready", external
        PROVE  save.data = Prefix(client, Chunks)
    BY <1>2 DEF ClientStands, PositionKept, SessionPhase, WrittenIsPrefix
  <1> QED
    BY <1>1, <1>2 DEF RepliesTruthful, Told

\* A prefix of what a client sent, continued by its next chunk, is a prefix.
LEMMA PrefixGrows ==
    ASSUME NEW c, NEW n \in Nat, Chunk(c, n + 1) \in Section,
           Prefix(c, n) \in Seq(Section)
    PROVE  /\ Append(Prefix(c, n), Chunk(c, n + 1)) = Prefix(c, n + 1)
           /\ Len(Prefix(c, n + 1)) = n + 1
  <1> DEFINE s == Prefix(c, n)
             t == Append(s, Chunk(c, n + 1))
  <1>1. Len(s) = n /\ \A i \in 1 .. n : s[i] = Chunk(c, i)
    BY DEF Prefix
  <1>2. /\ t \in Seq(Section) /\ Len(t) = n + 1 /\ t[n + 1] = Chunk(c, n + 1)
        /\ \A i \in 1 .. n : t[i] = s[i]
    BY <1>1, AppendProperties
  <1> HIDE DEF s, t
  <1>3. \A i \in 1 .. n + 1 : t[i] = Chunk(c, i)
    BY <1>1, <1>2
  <1>4. DOMAIN t = 1 .. n + 1 /\ t = [i \in DOMAIN t |-> t[i]]
    BY <1>2
  <1>5. t = [i \in 1 .. n + 1 |-> Chunk(c, i)]
    BY <1>3, <1>4
  <1> QED
    BY <1>2, <1>5 DEF s, t, Prefix

LEMMA NothingWritten ==
    ASSUME NEW c
    PROVE  <<>> = Prefix(c, 0) /\ Len(Prefix(c, 0)) = 0
  BY DEF Prefix

\* The sessions that the steps assign as a whole.
LEMMA Sessions ==
    LET opened == [phase |-> "writing", data |-> <<>>]
        other == [NoSave EXCEPT !.phase = "http"]
    IN  /\ NoSave \in Saves /\ opened \in Saves /\ other \in Saves
        /\ NoSave.phase = "idle" /\ NoSave.data = <<>>
        /\ opened.phase = "writing" /\ opened.data = <<>>
        /\ other.phase = "http" /\ other.data = <<>>
        /\ Len(<<>>) = 0
  <1>1. <<>> \in Seq(Section) /\ Len(<<>>) = 0
    OBVIOUS
  <1> QED
    BY <1>1 DEF NoSave, Saves

-----------------------------------------------------------------------------
(* Callbacks, and the listener.                                            *)

LEMMA AcceptKeeps == IndInv /\ Accept => IndInv'
  <1> SUFFICES ASSUME IndInv, Accept PROVE IndInv'
    OBVIOUS
  <1> USE UploadAssumption DEF IndInv, TypeOK, clientVars, replyVars, saveVars, core0Vars
  <1>1. FlagsOK'
    BY DEF Accept, FlagsOK
  <1>2. ModesOK'
    BY DEF Accept, ModesOK, Phases, Replies
  <1>3. CountsOK'
    BY DEF Accept, CountsOK
  <1>4. DataOK'
    BY DEF Accept, DataOK
  <1>5. ConnectionPhase'
    BY DEF Accept, ConnectionPhase, ModesOK, Phases, CountsOK
  <1>6. SessionOwned'
    BY DEF Accept, SessionOwned
  <1>7. WrittenIsPrefix'
    BY DEF Accept, WrittenIsPrefix, SessionPhase
  <1>8. Told'
    BY DEF Accept, Told
  <1>9. Claimed'
    BY DEF Accept, Claimed, Due, ConnectionPhase, ClientStands, SessionPhase
  <1>10. VerdictFits'
    BY DEF Accept, VerdictFits
  <1>11. SessionPhase'
    BY DEF Accept, SessionPhase
  <1>12. ClientStands'
    BY DEF Accept, ClientStands, ConnectionPhase, CountsOK, VerdictFits
  <1>13. PositionKept'
    BY DEF Accept, PositionKept, ClientStands, SessionPhase, Claimed, Due
  <1> QED
    BY <1>1, <1>2, <1>3, <1>4, <1>5, <1>6, <1>7, <1>8, <1>9, <1>10, <1>11, <1>12, <1>13

LEMMA ReceiveKeeps == IndInv /\ Receive => IndInv'
  <1> SUFFICES ASSUME IndInv, Receive PROVE IndInv'
    OBVIOUS
  <1> USE UploadAssumption DEF IndInv, TypeOK, clientVars, replyVars, saveVars, core0Vars
  <1>1. FlagsOK'
    BY DEF Receive, Callback, FlagsOK
  <1>2. ModesOK'
    BY DEF Receive, Callback, ModesOK, Phases, Replies
  <1>3. CountsOK'
    <2>1. phase = "Body" => sent + 1 \in 0 .. Chunks
      BY DEF Receive, Callback, ClientStands, CountsOK
    <2> QED
      BY <2>1 DEF Receive, Callback, CountsOK
  <1>4. DataOK'
    BY <1>3 DEF Receive, Callback, DataOK, CountsOK, Section
  <1>5. ConnectionPhase'
    BY DEF Receive, Callback, ConnectionPhase, ModesOK, Phases
  <1>6. SessionOwned'
    BY DEF Receive, Callback, SessionOwned
  <1>7. WrittenIsPrefix'
    BY DEF Receive, Callback, WrittenIsPrefix, SessionPhase
  <1>8. Told'
    BY DEF Receive, Callback, Told
  <1>9. Claimed'
    BY DEF Receive, Callback, Claimed, Due, ConnectionPhase, ClientStands,
           SessionPhase
  <1>10. VerdictFits'
    BY DEF Receive, Callback, VerdictFits
  <1>11. SessionPhase'
    BY DEF Receive, Callback, SessionPhase
  <1>12. ClientStands'
    <2>1. /\ client' # 0 /\ client' = client /\ phase' = phase /\ reply' = reply
          /\ full' = TRUE /\ enabled' = enabled
          /\ phase \in {"Header", "Name", "Body"} /\ clients' = clients
      BY DEF Receive, Callback
    <2>2. phase # "Body" => sent' = sent
      BY DEF Receive
    <2>3. phase = "Body" => buffer' = Chunk(client, sent')
      BY DEF Receive, Chunk
    <2> QED
      BY <2>1, <2>2, <2>3 DEF ClientStands
  <1>13. PositionKept'
    BY DEF Receive, Callback, PositionKept, ClientStands, SessionPhase,
           Claimed, Due
  <1> QED
    BY <1>1, <1>2, <1>3, <1>4, <1>5, <1>6, <1>7, <1>8, <1>9, <1>10, <1>11, <1>12, <1>13

\* Canceling a connection, in whatever phase, spoils nothing Core 0 relies on.
LEMMA CancelKeeps ==
    ASSUME IndInv, client # 0, Cancel, idle' \in BOOLEAN, enabled' \in BOOLEAN,
           faults' \in 0 .. MaxFaults,
           UNCHANGED <<buffer, sent, saveVars, storage, core0Vars, clients>>
    PROVE  IndInv'
  <1> USE UploadAssumption DEF IndInv, TypeOK, clientVars, replyVars, saveVars, core0Vars
  <1>1. FlagsOK'
    BY DEF Cancel, FlagsOK
  <1>2. ModesOK'
    BY DEF Cancel, ModesOK, Phases, Replies
  <1>3. CountsOK'
    BY DEF Cancel, CountsOK
  <1>4. DataOK'
    BY DEF Cancel, DataOK
  <1>5. ConnectionPhase'
    BY DEF Cancel, ConnectionPhase, ModesOK, Phases
  <1>6. SessionOwned'
    BY DEF Cancel, SessionOwned
  <1>7. WrittenIsPrefix'
    BY DEF Cancel, WrittenIsPrefix, SessionPhase
  <1>8. Told'
    BY DEF Cancel, Told
  <1>9. Claimed'
    BY DEF Cancel, Claimed, Due, ConnectionPhase, ClientStands, SessionPhase
  <1>10. VerdictFits'
    BY DEF Cancel, VerdictFits
  <1>11. SessionPhase'
    BY DEF Cancel, SessionPhase
  <1>12. ClientStands'
    BY DEF Cancel, ClientStands, ConnectionPhase, CountsOK, VerdictFits
  <1>13. PositionKept'
    BY DEF Cancel, PositionKept, ClientStands, SessionPhase, Claimed, Due
  <1> QED
    BY <1>1, <1>2, <1>3, <1>4, <1>5, <1>6, <1>7, <1>8, <1>9, <1>10, <1>11, <1>12, <1>13

LEMMA ErrorKeeps == IndInv /\ Error => IndInv'
  BY CancelKeeps DEF Error, Callback, IndInv, TypeOK, FlagsOK, CountsOK

\* Pump queues, waits, closes, or lets the next section come.
LEMMA PumpKeeps ==
    ASSUME IndInv, client # 0, NEW acked \in 0 .. 2, NEW left \in Nat, Pump(acked, left),
           idle' \in BOOLEAN,
           UNCHANGED <<enabled, buffer, sent, saveVars, storage, core0Vars,
                       clients, faults>>
    PROVE  IndInv'
  <1> USE UploadAssumption DEF IndInv, TypeOK, clientVars, replyVars, saveVars, core0Vars
  <1>1. FlagsOK'
    BY DEF Pump, Delivered, FlagsOK
  <1>2. ModesOK'
    BY DEF Pump, Delivered, ModesOK, Phases, Replies
  <1>3. CountsOK'
    <2>1. Length(reply) \in Nat
      BY DEF Length
    <2>2. client' \in {0, client} /\ acknowledged' = acked
          /\ inflight' \in {0, left, left + Length(reply)}
      BY DEF Pump
    <2> QED
      BY <2>1, <2>2 DEF CountsOK
  <1>4. DataOK'
    BY DEF Pump, Delivered, DataOK
  <1>5. ConnectionPhase'
    BY DEF Pump, Delivered, ConnectionPhase, ModesOK, Phases
  <1>6. SessionOwned'
    BY DEF Pump, Delivered, SessionOwned
  <1>7. WrittenIsPrefix'
    BY DEF Pump, Delivered, WrittenIsPrefix, SessionPhase
  <1>8. Told'
    BY DEF Pump, Delivered, Told
  <1>9. Claimed'
    BY DEF Pump, Delivered, Claimed, Due, ConnectionPhase, ClientStands,
           SessionPhase
  <1>10. VerdictFits'
    BY DEF Pump, Delivered, VerdictFits
  <1>11. SessionPhase'
    BY DEF Pump, Delivered, SessionPhase
  <1>12. ClientStands'
    BY DEF Pump, Delivered, ClientStands, ConnectionPhase, CountsOK,
           VerdictFits
  <1>13. PositionKept'
    BY DEF Pump, Delivered, PositionKept, ClientStands, SessionPhase,
           Claimed, Due
  <1> QED
    BY <1>1, <1>2, <1>3, <1>4, <1>5, <1>6, <1>7, <1>8, <1>9, <1>10, <1>11, <1>12, <1>13

LEMMA SentKeeps ==
    ASSUME IndInv, NEW n \in 1 .. inflight, Sent(n)
    PROVE  IndInv'
  <1>1. CASE reply = "none" \/ ~queued \/ n > Length(reply) - acknowledged
    BY <1>1, CancelKeeps DEF Sent, Callback, IndInv, TypeOK, FlagsOK, CountsOK
  <1>2. CASE ~(reply = "none" \/ ~queued \/ n > Length(reply) - acknowledged)
    <2>1. acknowledged + n \in 0 .. 2 /\ inflight - n \in Nat
      BY <1>2 DEF Length, IndInv, TypeOK, CountsOK
    <2>2. Pump(acknowledged + n, inflight - n) /\ idle' = FALSE
      BY <1>2 DEF Sent
    <2> QED
      BY <2>1, <2>2, PumpKeeps DEF Sent, Callback
  <1> QED
    BY <1>1, <1>2

LEMMA ElapseKeeps == IndInv /\ Elapse => IndInv'
  <1> SUFFICES ASSUME IndInv, Elapse PROVE IndInv'
    OBVIOUS
  <1> USE UploadAssumption DEF IndInv, TypeOK, clientVars, replyVars, saveVars, core0Vars
  <1>1. FlagsOK'
    BY DEF Elapse, Callback, FlagsOK
  <1>2. ModesOK'
    BY DEF Elapse, Callback, ModesOK, Phases, Replies
  <1>3. CountsOK'
    BY DEF Elapse, Callback, CountsOK
  <1>4. DataOK'
    BY DEF Elapse, Callback, DataOK
  <1>5. ConnectionPhase'
    BY DEF Elapse, Callback, ConnectionPhase, ModesOK, Phases
  <1>6. SessionOwned'
    BY DEF Elapse, Callback, SessionOwned
  <1>7. WrittenIsPrefix'
    BY DEF Elapse, Callback, WrittenIsPrefix, SessionPhase
  <1>8. Told'
    BY DEF Elapse, Callback, Told
  <1>9. Claimed'
    BY DEF Elapse, Callback, Claimed, Due, ConnectionPhase, ClientStands,
           SessionPhase
  <1>10. VerdictFits'
    BY DEF Elapse, Callback, VerdictFits
  <1>11. SessionPhase'
    BY DEF Elapse, Callback, SessionPhase
  <1>12. ClientStands'
    BY DEF Elapse, Callback, ClientStands, ConnectionPhase, CountsOK,
           VerdictFits
  <1>13. PositionKept'
    BY DEF Elapse, Callback, PositionKept, ClientStands, SessionPhase,
           Claimed, Due
  <1> QED
    BY <1>1, <1>2, <1>3, <1>4, <1>5, <1>6, <1>7, <1>8, <1>9, <1>10, <1>11, <1>12, <1>13

LEMMA PollKeeps == IndInv /\ Poll => IndInv'
  <1> SUFFICES ASSUME IndInv, Poll PROVE IndInv'
    OBVIOUS
  <1>1. acknowledged \in 0 .. 2 /\ inflight \in Nat /\ idle' \in BOOLEAN
    BY DEF Poll, IndInv, TypeOK, CountsOK, FlagsOK
  <1>2. CASE idle
    BY <1>1, <1>2, CancelKeeps DEF Poll, Callback, IndInv, TypeOK, FlagsOK, CountsOK
  <1>3. CASE ~idle
    BY <1>1, <1>3, PumpKeeps DEF Poll, Callback
  <1> QED
    BY <1>2, <1>3

LEMMA StartKeeps == IndInv /\ Start => IndInv'
  <1> SUFFICES ASSUME IndInv, Start PROVE IndInv'
    OBVIOUS
  <1> USE UploadAssumption DEF IndInv, TypeOK, clientVars, replyVars, saveVars, core0Vars
  <1>1. FlagsOK'
    BY DEF Start, FlagsOK
  <1>2. ModesOK'
    BY DEF Start, ModesOK, Phases, Replies
  <1>3. CountsOK'
    BY DEF Start, CountsOK
  <1>4. DataOK'
    BY DEF Start, DataOK
  <1>5. ConnectionPhase'
    BY DEF Start, ConnectionPhase, ModesOK, Phases
  <1>6. SessionOwned'
    BY DEF Start, SessionOwned
  <1>7. WrittenIsPrefix'
    BY DEF Start, WrittenIsPrefix, SessionPhase
  <1>8. Told'
    BY DEF Start, Told
  <1>9. Claimed'
    BY DEF Start, Claimed, Due, ConnectionPhase, ClientStands, SessionPhase
  <1>10. VerdictFits'
    BY DEF Start, VerdictFits
  <1>11. SessionPhase'
    BY DEF Start, SessionPhase
  <1>12. ClientStands'
    BY DEF Start, ClientStands, ConnectionPhase, CountsOK, VerdictFits
  <1>13. PositionKept'
    BY DEF Start, PositionKept, ClientStands, SessionPhase, Claimed, Due
  <1> QED
    BY <1>1, <1>2, <1>3, <1>4, <1>5, <1>6, <1>7, <1>8, <1>9, <1>10, <1>11, <1>12, <1>13

LEMMA StopKeeps == IndInv /\ Stop => IndInv'
  <1> SUFFICES ASSUME IndInv, Stop PROVE IndInv'
    OBVIOUS
  <1> USE UploadAssumption DEF IndInv, TypeOK, clientVars, replyVars, saveVars, core0Vars
  <1>1. FlagsOK'
    BY DEF Stop, Cancel, Fault, FlagsOK
  <1>2. ModesOK'
    BY DEF Stop, Cancel, Fault, ModesOK, Phases, Replies
  <1>3. CountsOK'
    BY DEF Stop, Cancel, Fault, CountsOK
  <1>4. DataOK'
    BY DEF Stop, Cancel, Fault, DataOK
  <1>5. ConnectionPhase'
    BY DEF Stop, Cancel, Fault, ConnectionPhase, ModesOK, Phases
  <1>6. SessionOwned'
    BY DEF Stop, Cancel, Fault, SessionOwned
  <1>7. WrittenIsPrefix'
    BY DEF Stop, Cancel, Fault, WrittenIsPrefix, SessionPhase
  <1>8. Told'
    BY DEF Stop, Cancel, Fault, Told
  <1>9. Claimed'
    BY DEF Stop, Cancel, Fault, Claimed, Due, ConnectionPhase, ClientStands,
           SessionPhase
  <1>10. VerdictFits'
    BY DEF Stop, Cancel, Fault, VerdictFits
  <1>11. SessionPhase'
    BY DEF Stop, Cancel, Fault, SessionPhase
  <1>12. ClientStands'
    BY DEF Stop, Cancel, Fault, ClientStands, ConnectionPhase, CountsOK,
           VerdictFits
  <1>13. PositionKept'
    BY DEF Stop, Cancel, Fault, PositionKept, ClientStands, SessionPhase,
           Claimed, Due
  <1> QED
    BY <1>1, <1>2, <1>3, <1>4, <1>5, <1>6, <1>7, <1>8, <1>9, <1>10, <1>11, <1>12, <1>13

-----------------------------------------------------------------------------
(* Core 0.                                                                 *)

\* AbortMediaSave ends the upload's session and no other.
LEMMA ReleaseGives ==
    ASSUME IndInv, Release
    PROVE  /\ external' = FALSE /\ taken' = taken
           /\ save' \in Saves /\ Len(save'.data) <= Chunks
           /\ save'.phase \in {"idle", "http"}
           /\ save'.phase = "idle" => save'.data = <<>>
           /\ save'.phase = "http" => taken
  <1> USE UploadAssumption DEF IndInv, TypeOK
  <1>1. save' = IF external THEN NoSave ELSE save
    BY DEF Release
  <1>2. external' = FALSE /\ taken' = taken
    BY DEF Release
  <1>3. CASE external
    BY <1>1, <1>2, <1>3, Sessions
  <1>4. CASE ~external
    <2>1. save.phase \in {"idle", "http"}
      BY <1>4 DEF SessionOwned, DataOK, Saves
    <2> QED
      BY <1>1, <1>2, <1>4, <2>1 DEF SessionOwned, SessionPhase, DataOK
  <1> QED
    BY <1>3, <1>4

LEMMA UpdateDisabledKeeps == IndInv /\ UpdateDisabled => IndInv'
  <1> SUFFICES ASSUME IndInv, UpdateDisabled PROVE IndInv'
    OBVIOUS
  <1> USE UploadAssumption DEF IndInv, TypeOK, clientVars, replyVars, saveVars, core0Vars
  <1>1. FlagsOK'
    BY ReleaseGives DEF UpdateDisabled, Go, Core0, FlagsOK
  <1>2. ModesOK'
    BY ReleaseGives DEF UpdateDisabled, Go, Core0, ModesOK, Phases, Replies
  <1>3. CountsOK'
    BY ReleaseGives DEF UpdateDisabled, Go, Core0, CountsOK
  <1>4. DataOK'
    BY ReleaseGives DEF UpdateDisabled, Go, Core0, DataOK
  <1>5. ConnectionPhase'
    BY ReleaseGives DEF UpdateDisabled, Go, Core0, ConnectionPhase, ModesOK,
           Phases, ClientStands
  <1>6. SessionOwned'
    BY ReleaseGives DEF UpdateDisabled, Go, Core0, SessionOwned
  <1>7. WrittenIsPrefix'
    BY ReleaseGives DEF UpdateDisabled, Go, Core0, WrittenIsPrefix,
           SessionPhase
  <1>8. Told'
    BY ReleaseGives DEF UpdateDisabled, Go, Core0, Told
  <1>9. Claimed'
    BY ReleaseGives DEF UpdateDisabled, Go, Core0, Claimed, Due,
           ConnectionPhase, ClientStands, SessionPhase
  <1>10. VerdictFits'
    BY ReleaseGives DEF UpdateDisabled, Go, Core0, VerdictFits
  <1>11. SessionPhase'
    BY ReleaseGives DEF UpdateDisabled, Go, Core0, SessionPhase
  <1>12. ClientStands'
    BY ReleaseGives DEF UpdateDisabled, Go, Core0, ClientStands,
           ConnectionPhase, CountsOK, VerdictFits
  <1>13. PositionKept'
    BY ReleaseGives DEF UpdateDisabled, Go, Core0, PositionKept,
           ClientStands, SessionPhase, Claimed, Due
  <1> QED
    BY <1>1, <1>2, <1>3, <1>4, <1>5, <1>6, <1>7, <1>8, <1>9, <1>10, <1>11, <1>12, <1>13

LEMMA SnapshotKeeps == IndInv /\ Snapshot => IndInv'
  <1> SUFFICES ASSUME IndInv, Snapshot PROVE IndInv'
    OBVIOUS
  <1> USE UploadAssumption DEF IndInv, TypeOK, clientVars, replyVars, saveVars, core0Vars
  <1>1. FlagsOK'
    BY DEF Snapshot, Go, Locked, Core0, FlagsOK
  <1>2. ModesOK'
    <2>1. seen' \in Snapshots
      BY DEF Snapshot, FlagsOK, ModesOK, Snapshots
    <2>2. phase' \in Phases
      BY DEF Snapshot, ModesOK, Phases
    <2> QED
      BY <2>1, <2>2 DEF Snapshot, Go, Locked, Core0, ModesOK
  <1>3. CountsOK'
    BY DEF Snapshot, Go, Locked, Core0, CountsOK
  <1>4. DataOK'
    BY DEF Snapshot, Go, Locked, Core0, DataOK
  <1>5. ConnectionPhase'
    BY DEF Snapshot, Go, Locked, Core0, ConnectionPhase, ModesOK, Phases
  <1>6. SessionOwned'
    BY DEF Snapshot, Go, Locked, Core0, SessionOwned
  <1>7. WrittenIsPrefix'
    BY DEF Snapshot, Go, Locked, Core0, WrittenIsPrefix, SessionPhase
  <1>8. Told'
    BY DEF Snapshot, Go, Locked, Core0, Told
  <1>9. Claimed'
    BY DEF Snapshot, Go, Locked, Core0, Claimed, Due, ConnectionPhase,
           ClientStands, SessionPhase
  <1>10. VerdictFits'
    BY DEF Snapshot, Go, Locked, Core0, VerdictFits
  <1>11. SessionPhase'
    BY DEF Snapshot, Go, Locked, Core0, SessionPhase
  <1>12. ClientStands'
    BY DEF Snapshot, Go, Locked, Core0, ClientStands, ConnectionPhase,
           CountsOK, VerdictFits
  <1>13. PositionKept'
    <2> DEFINE claimed == full /\ reply = "none"
    <2>1. pc = "storage" /\ pc' = "work" /\ phase \notin {"Opening", "Writing"}
      BY DEF Snapshot, Go, Claimed
    <2>2. UNCHANGED <<external, storage, save, sent, client, full, buffer, reply>>
      BY DEF Snapshot, Locked, Core0
    <2>3. seen'.phase = phase /\ seen'.full = full /\ seen'.pending = (reply # "none")
      BY DEF Snapshot
    <2>4. phase' = "Body" => phase = "Body"
      BY <2>1 DEF Snapshot
    <2>5. phase' = "Verifying" => phase = "Verifying"
      BY <2>1 DEF Snapshot
    <2>6. phase' = "Writing" => phase = "Body" /\ full
      BY <2>1 DEF Snapshot
    <2>7. ASSUME external, storage # "unavailable", Due({"Body"})'
          PROVE  /\ buffer = Chunk(buffer.client, Len(save.data) + 1)
                 /\ save.data = Prefix(buffer.client, Len(save.data))
                 /\ buffer.client # 0
      <3>1. phase = "Body" /\ full
        BY <2>3, <2>7 DEF Due
      <3>2. client # 0 /\ buffer = Chunk(client, sent)
        BY <3>1 DEF ConnectionPhase, ClientStands
      <3>3. Len(save.data) + 1 = sent
        BY <2>7, <3>1 DEF PositionKept, CountsOK
      <3>4. buffer.client = client
        BY <3>2 DEF Chunk
      <3>5. save.data = Prefix(client, Len(save.data))
        BY <2>7, <3>2 DEF WrittenIsPrefix
      <3> QED
        BY <3>2, <3>3, <3>4, <3>5
    <2> QED
      BY <2>1, <2>2, <2>4, <2>5, <2>6, <2>7 DEF PositionKept
  <1> QED
    BY <1>1, <1>2, <1>3, <1>4, <1>5, <1>6, <1>7, <1>8, <1>9, <1>10, <1>11, <1>12, <1>13

LEMMA CleanUpKeeps == IndInv /\ CleanUp => IndInv'
  <1> SUFFICES ASSUME IndInv, CleanUp PROVE IndInv'
    OBVIOUS
  <1> USE UploadAssumption DEF IndInv, TypeOK, clientVars, replyVars, saveVars, core0Vars
  <1>1. FlagsOK'
    BY ReleaseGives DEF CleanUp, Work, Unlocked, Core0, Go, FlagsOK
  <1>2. ModesOK'
    BY ReleaseGives DEF CleanUp, Work, Unlocked, Core0, Go, ModesOK, Phases,
           Replies
  <1>3. CountsOK'
    BY ReleaseGives DEF CleanUp, Work, Unlocked, Core0, Go, CountsOK
  <1>4. DataOK'
    BY ReleaseGives DEF CleanUp, Work, Unlocked, Core0, Go, DataOK
  <1>5. ConnectionPhase'
    BY ReleaseGives DEF CleanUp, Work, Unlocked, Core0, Go, ConnectionPhase,
           ModesOK, Phases
  <1>6. SessionOwned'
    BY ReleaseGives DEF CleanUp, Work, Unlocked, Core0, Go, SessionOwned
  <1>7. WrittenIsPrefix'
    BY ReleaseGives DEF CleanUp, Work, Unlocked, Core0, Go, WrittenIsPrefix,
           SessionPhase
  <1>8. Told'
    BY ReleaseGives DEF CleanUp, Work, Unlocked, Core0, Go, Told
  <1>9. Claimed'
    BY ReleaseGives DEF CleanUp, Work, Unlocked, Core0, Go, Claimed, Due,
           ConnectionPhase, ClientStands, SessionPhase
  <1>10. VerdictFits'
    BY ReleaseGives DEF CleanUp, Work, Unlocked, Core0, Go, VerdictFits,
           Claimed
  <1>11. SessionPhase'
    BY ReleaseGives DEF CleanUp, Work, Unlocked, Core0, Go, SessionPhase
  <1>12. ClientStands'
    BY ReleaseGives DEF CleanUp, Work, Unlocked, Core0, Go, ClientStands,
           ConnectionPhase, CountsOK, VerdictFits
  <1>13. PositionKept'
    BY ReleaseGives DEF CleanUp, Work, Unlocked, Core0, Go, PositionKept,
           ClientStands, SessionPhase, Claimed, Due
  <1> QED
    BY <1>1, <1>2, <1>3, <1>4, <1>5, <1>6, <1>7, <1>8, <1>9, <1>10, <1>11, <1>12, <1>13

\* A job that ends in an error gives everything back before it says so.
LEMMA JobFails ==
    ASSUME IndInv, Work, FinishJob("ERR"), UNCHANGED <<published, saved>>,
           storage' \in {"ready", "recovering", "unavailable"},
           faults' \in 0 .. MaxFaults
    PROVE  IndInv'
  <1> USE UploadAssumption DEF IndInv, TypeOK, clientVars, replyVars, saveVars, core0Vars
  <1>1. FlagsOK'
    BY ReleaseGives DEF Work, Unlocked, Core0, Go, FinishJob, FlagsOK
  <1>2. ModesOK'
    BY ReleaseGives DEF Work, Unlocked, Core0, Go, FinishJob, ModesOK,
           Phases, Replies
  <1>3. CountsOK'
    BY ReleaseGives DEF Work, Unlocked, Core0, Go, FinishJob, CountsOK
  <1>4. DataOK'
    BY ReleaseGives DEF Work, Unlocked, Core0, Go, FinishJob, DataOK
  <1>5. ConnectionPhase'
    BY ReleaseGives DEF Work, Unlocked, Core0, Go, FinishJob,
           ConnectionPhase, ModesOK, Phases
  <1>6. SessionOwned'
    BY ReleaseGives DEF Work, Unlocked, Core0, Go, FinishJob, SessionOwned
  <1>7. WrittenIsPrefix'
    BY ReleaseGives DEF Work, Unlocked, Core0, Go, FinishJob,
           WrittenIsPrefix, SessionPhase
  <1>8. Told'
    BY ReleaseGives DEF Work, Unlocked, Core0, Go, FinishJob, Told
  <1>9. Claimed'
    BY ReleaseGives DEF Work, Unlocked, Core0, Go, FinishJob, Claimed, Due,
           ConnectionPhase, ClientStands, SessionPhase
  <1>10. VerdictFits'
    BY ReleaseGives DEF Work, Unlocked, Core0, Go, FinishJob, VerdictFits
  <1>11. SessionPhase'
    BY ReleaseGives DEF Work, Unlocked, Core0, Go, FinishJob, SessionPhase
  <1>12. ClientStands'
    BY ReleaseGives DEF Work, Unlocked, Core0, Go, FinishJob, ClientStands,
           ConnectionPhase, CountsOK, VerdictFits
  <1>13. PositionKept'
    BY ReleaseGives DEF Work, Unlocked, Core0, Go, FinishJob, PositionKept,
           ClientStands, SessionPhase, Claimed, Due
  <1> QED
    BY <1>1, <1>2, <1>3, <1>4, <1>5, <1>6, <1>7, <1>8, <1>9, <1>10, <1>11, <1>12, <1>13

LEMMA FailLostKeeps == IndInv /\ FailLost => IndInv'
  BY JobFails DEF FailLost, IndInv, TypeOK, ModesOK, CountsOK

LEMMA RejectRequestKeeps == IndInv /\ RejectRequest => IndInv'
  BY JobFails DEF RejectRequest, Job, IndInv, TypeOK, ModesOK, CountsOK

\* What a failing card leaves.
LEMMA CardFailsGives ==
    ASSUME IndInv, CardFails
    PROVE  /\ storage' \in {"ready", "recovering", "unavailable"}
           /\ faults' \in 0 .. MaxFaults
  BY UploadAssumption DEF CardFails, Fault, IndInv, TypeOK, ModesOK, CountsOK

\* The header and the name belong to no session yet.
LEMMA NotYetOpen ==
    ASSUME IndInv, Work, NEW phases \in SUBSET {"Header", "Name"}, Due(phases)
    PROVE  ~external /\ phase \in {"Opening", "Canceled"}
  BY DEF IndInv, Work, Claimed, Due

LEMMA AskNameKeeps == IndInv /\ AskName => IndInv'
  <1> SUFFICES ASSUME IndInv, AskName PROVE IndInv'
    OBVIOUS
  <1> USE UploadAssumption DEF IndInv, TypeOK, clientVars, replyVars, saveVars, core0Vars
  <1>1. FlagsOK'
    BY DEF AskName, Job, Work, Unlocked, Core0, Go, StorageLost, FlagsOK
  <1>2. ModesOK'
    BY DEF AskName, Job, Work, Unlocked, Core0, Go, StorageLost, ModesOK,
           Phases, Replies
  <1>3. CountsOK'
    BY DEF AskName, Job, Work, Unlocked, Core0, Go, StorageLost, CountsOK
  <1>4. DataOK'
    BY DEF AskName, Job, Work, Unlocked, Core0, Go, StorageLost, DataOK
  <1>5. ConnectionPhase'
    BY DEF AskName, Job, Work, Unlocked, Core0, Go, StorageLost,
           ConnectionPhase, ModesOK, Phases
  <1>6. SessionOwned'
    BY DEF AskName, Job, Work, Unlocked, Core0, Go, StorageLost,
           SessionOwned
  <1>7. WrittenIsPrefix'
    BY DEF AskName, Job, Work, Unlocked, Core0, Go, StorageLost,
           WrittenIsPrefix, SessionPhase
  <1>8. Told'
    BY DEF AskName, Job, Work, Unlocked, Core0, Go, StorageLost, Told
  <1>9. Claimed'
    BY DEF AskName, Job, Work, Unlocked, Core0, Go, StorageLost, Claimed,
           Due, ConnectionPhase, ClientStands, SessionPhase
  <1>10. VerdictFits'
    BY NotYetOpen DEF AskName, Job, Work, Unlocked, Core0, Go, StorageLost,
           VerdictFits
  <1>11. SessionPhase'
    BY DEF AskName, Job, Work, Unlocked, Core0, Go, StorageLost,
           SessionPhase
  <1>12. ClientStands'
    BY DEF AskName, Job, Work, Unlocked, Core0, Go, StorageLost,
           ClientStands, ConnectionPhase, CountsOK, VerdictFits
  <1>13. PositionKept'
    BY DEF AskName, Job, Work, Unlocked, Core0, Go, StorageLost,
           PositionKept, ClientStands, SessionPhase, Claimed, Due
  <1> QED
    BY <1>1, <1>2, <1>3, <1>4, <1>5, <1>6, <1>7, <1>8, <1>9, <1>10, <1>11, <1>12, <1>13

\* A session was opened for the client whose descriptor was accepted.
LEMMA Opened ==
    ASSUME IndInv, Work, ~external, ~taken, phase \in {"Opening", "Canceled"},
           CardWorks, save' = [phase |-> "writing", data |-> <<>>],
           external' = TRUE, verdict' = "READY", Go("settle"),
           UNCHANGED <<saved, published, taken>>
    PROVE  IndInv'
  <1> USE UploadAssumption DEF IndInv, TypeOK, clientVars, replyVars, saveVars, core0Vars
  <1>1. FlagsOK'
    BY Sessions DEF Work, Unlocked, Core0, Go, CardWorks, FlagsOK
  <1>2. ModesOK'
    BY Sessions DEF Work, Unlocked, Core0, Go, CardWorks, ModesOK, Phases,
           Replies
  <1>3. CountsOK'
    BY Sessions DEF Work, Unlocked, Core0, Go, CardWorks, CountsOK
  <1>4. DataOK'
    BY Sessions DEF Work, Unlocked, Core0, Go, CardWorks, DataOK
  <1>5. ConnectionPhase'
    BY Sessions DEF Work, Unlocked, Core0, Go, CardWorks, ConnectionPhase,
           ModesOK, Phases
  <1>6. SessionOwned'
    BY Sessions DEF Work, Unlocked, Core0, Go, CardWorks, SessionOwned
  <1>7. WrittenIsPrefix'
    <2>1. client' \in 0 .. MaxClients /\ client' = client /\ save'.data = <<>>
      BY Sessions DEF Work, Unlocked, Core0, CountsOK
    <2>2. CASE client # 0
      BY <2>1, <2>2, NothingWritten, Sessions DEF WrittenIsPrefix, CountsOK
    <2>3. CASE client = 0
      <3>1. 1 \in 1 .. MaxClients
        BY DEF ClientStands, CountsOK
      <3> QED
        BY <2>1, <2>3, <3>1, NothingWritten, Sessions DEF WrittenIsPrefix
    <2> QED
      BY <2>2, <2>3
  <1>8. Told'
    BY Sessions DEF Work, Unlocked, Core0, Go, CardWorks, Told
  <1>9. Claimed'
    BY Sessions DEF Work, Unlocked, Core0, Go, CardWorks, Claimed, Due,
           ConnectionPhase, ClientStands, SessionPhase
  <1>10. VerdictFits'
    BY Sessions DEF Work, Unlocked, Core0, Go, CardWorks, VerdictFits
  <1>11. SessionPhase'
    BY Sessions DEF Work, Unlocked, Core0, Go, CardWorks, SessionPhase
  <1>12. ClientStands'
    BY Sessions DEF Work, Unlocked, Core0, Go, CardWorks, ClientStands,
           ConnectionPhase, CountsOK, VerdictFits
  <1>13. PositionKept'
    BY Sessions DEF Work, Unlocked, Core0, Go, CardWorks, PositionKept,
           ClientStands, SessionPhase, Claimed, Due
  <1> QED
    BY <1>1, <1>2, <1>3, <1>4, <1>5, <1>6, <1>7, <1>8, <1>9, <1>10, <1>11, <1>12, <1>13

LEMMA OpenKeeps == IndInv /\ Open => IndInv'
  <1> SUFFICES ASSUME IndInv, Open PROVE IndInv'
    OBVIOUS
  <1>1. Work /\ Due({"Header", "Name"}) /\ UNCHANGED <<saved, published, taken>>
    BY DEF Open, Job
  <1>2. ~external /\ phase \in {"Opening", "Canceled"}
    BY <1>1, NotYetOpen
  <1>3. \/ FinishJob("ERR") /\ UNCHANGED <<storage, faults>>
        \/ /\ CardWorks /\ save' = [phase |-> "writing", data |-> <<>>]
           /\ external' = TRUE /\ verdict' = "READY" /\ Go("settle") /\ ~taken
        \/ /\ CardFails /\ verdict' = "ERR" /\ Go("settle")
           /\ UNCHANGED <<save, external>>
    BY Zenon DEF Open, CanOpen
  <1>4. CASE FinishJob("ERR") /\ UNCHANGED <<storage, faults>>
    BY <1>1, <1>4, JobFails DEF IndInv, TypeOK, ModesOK, CountsOK
  <1>5. CASE /\ CardWorks /\ save' = [phase |-> "writing", data |-> <<>>]
             /\ external' = TRUE /\ verdict' = "READY" /\ Go("settle") /\ ~taken
    BY <1>1, <1>2, <1>5, Opened
  <1>6. CASE /\ CardFails /\ verdict' = "ERR" /\ Go("settle")
             /\ UNCHANGED <<save, external>>
    <2>1. FinishJob("ERR")
      <3>1. external' = FALSE
        BY <1>2, <1>6 DEF IndInv, TypeOK, FlagsOK
      <3> QED
        BY <1>1, <1>2, <1>6, <3>1 DEF FinishJob, Release
    <2> QED
      BY <1>1, <1>6, <2>1, CardFailsGives, JobFails
  <1> QED
    BY <1>3, <1>4, <1>5, <1>6

\* The claimed section is written, whatever became of its client; it is the one
\* after the sections that were written before.
LEMMA Written ==
    ASSUME IndInv, Work, ~StorageLost, Due({"Body"}), CardWorks,
           save.phase = "writing", NEW last \in BOOLEAN,
           last = (Len(Append(save.data, buffer)) = Chunks),
           save' = [phase |-> IF last THEN "verifying" ELSE "writing",
                    data |-> Append(save.data, buffer)],
           verdict' = IF last THEN "VERIFY" ELSE "NEXT", Go("settle"),
           UNCHANGED <<saved, published, external, taken>>
    PROVE  IndInv'
  <1> USE UploadAssumption DEF IndInv, TypeOK, clientVars, replyVars, saveVars, core0Vars
  <1>s. external /\ storage = "ready" /\ UNCHANGED <<storage, faults>>
    BY DEF SessionOwned, StorageLost, CardWorks
  <1>b. /\ buffer = Chunk(buffer.client, Len(save.data) + 1)
        /\ save.data = Prefix(buffer.client, Len(save.data))
        /\ buffer.client \in 1 .. MaxClients
        /\ client \in {0, buffer.client}
        /\ phase \in {"Writing", "Canceled"}
    <2>1. /\ buffer = Chunk(buffer.client, Len(save.data) + 1)
          /\ save.data = Prefix(buffer.client, Len(save.data))
          /\ buffer.client # 0
      BY <1>s DEF PositionKept, Work
    <2>2. buffer.client \in 0 .. MaxClients
      BY DEF DataOK, Section
    <2>3. phase \in {"Writing", "Canceled"}
      BY DEF Claimed, Work
    <2>4. client # 0 => buffer = Chunk(client, sent)
      BY <2>3 DEF ConnectionPhase, ClientStands
    <2> QED
      BY <2>1, <2>2, <2>3, <2>4 DEF Chunk
  <1>d. /\ save.data \in Seq(Section) /\ buffer \in Section
        /\ Len(save.data) \in Nat /\ Len(save.data) < Chunks
    BY DEF DataOK, Saves, SessionPhase
  <1>g. /\ Append(save.data, buffer) = Prefix(buffer.client, Len(save.data) + 1)
        /\ Append(save.data, buffer) \in Seq(Section)
        /\ Append(save.data, buffer) # <<>>
        /\ Len(Append(save.data, buffer)) = Len(save.data) + 1
    <2> DEFINE c == buffer.client
               n == Len(save.data)
    <2>1. n \in Nat /\ Chunk(c, n + 1) = buffer /\ Prefix(c, n) = save.data
      BY <1>b, <1>d
    <2> HIDE DEF c, n
    <2>2. Append(Prefix(c, n), Chunk(c, n + 1)) = Prefix(c, n + 1)
      BY <1>d, <2>1, PrefixGrows
    <2>3. Append(save.data, buffer) = Prefix(c, n + 1)
      BY <2>1, <2>2
    <2>4. /\ Append(save.data, buffer) \in Seq(Section)
          /\ Append(save.data, buffer) # <<>>
          /\ Len(Append(save.data, buffer)) = Len(save.data) + 1
      BY <1>d, AppendProperties
    <2> QED
      BY <2>3, <2>4 DEF c, n
  <1>w. /\ save' \in Saves /\ Len(save'.data) = Len(save.data) + 1
        /\ save'.phase = IF last THEN "verifying" ELSE "writing"
        /\ save'.data # <<>>
        /\ save'.data = Prefix(buffer.client, Len(save'.data))
        /\ last <=> Len(save'.data) = Chunks
        /\ Len(save'.data) \in Nat /\ Len(save'.data) <= Chunks
    <2>1. save'.data = Append(save.data, buffer)
      OBVIOUS
    <2>2. save'.phase = IF last THEN "verifying" ELSE "writing"
      OBVIOUS
    <2>3. save' \in Saves
      BY <1>g DEF Saves
    <2>4. save'.data # <<>> /\ Len(save'.data) = Len(save.data) + 1
      BY <1>g, <2>1
    <2>5. save'.data = Prefix(buffer.client, Len(save'.data))
      BY <1>g, <2>1, <2>4
    <2>6. last <=> Len(save'.data) = Chunks
      BY <2>1, Zenon
    <2> QED
      BY <1>d, <2>2, <2>3, <2>4, <2>5, <2>6
  <1>1. FlagsOK'
    BY <1>w, <1>s DEF Work, Unlocked, Core0, Go, FlagsOK
  <1>2. ModesOK'
    BY <1>w, <1>s DEF Work, Unlocked, Core0, Go, ModesOK, Phases, Replies
  <1>3. CountsOK'
    BY <1>w, <1>s DEF Work, Unlocked, Core0, Go, CountsOK
  <1>4. DataOK'
    BY <1>w, <1>s DEF Work, Unlocked, Core0, Go, DataOK
  <1>5. ConnectionPhase'
    BY <1>w, <1>s DEF Work, Unlocked, Core0, Go, ConnectionPhase, ModesOK,
           Phases
  <1>6. SessionOwned'
    BY <1>w, <1>s DEF Work, Unlocked, Core0, Go, SessionOwned
  <1>7. WrittenIsPrefix'
    BY <1>w, <1>s, <1>b DEF Work, Unlocked, Core0, Go, WrittenIsPrefix,
           SessionPhase
  <1>8. Told'
    BY <1>w, <1>s DEF Work, Unlocked, Core0, Go, Told
  <1>9. Claimed'
    BY <1>w, <1>s DEF Work, Unlocked, Core0, Go, Claimed, Due,
           ConnectionPhase, ClientStands, SessionPhase
  <1>10. VerdictFits'
    BY <1>w, <1>s, <1>b DEF Work, Unlocked, Core0, Go, VerdictFits
  <1>11. SessionPhase'
    BY <1>w, <1>s, <1>b DEF Work, Unlocked, Core0, Go, SessionPhase
  <1>12. ClientStands'
    BY <1>w, <1>s DEF Work, Unlocked, Core0, Go, ClientStands,
           ConnectionPhase, CountsOK, VerdictFits
  <1>13. PositionKept'
    BY <1>w, <1>s, <1>b DEF Work, Unlocked, Core0, Go, PositionKept,
           ClientStands, SessionPhase, Claimed, Due, CountsOK
  <1> QED
    BY <1>1, <1>2, <1>3, <1>4, <1>5, <1>6, <1>7, <1>8, <1>9, <1>10, <1>11, <1>12, <1>13

LEMMA WriteChunkKeeps == IndInv /\ WriteChunk => IndInv'
  <1> SUFFICES ASSUME IndInv, WriteChunk PROVE IndInv'
    OBVIOUS
  <1>1. Work /\ ~StorageLost /\ Due({"Body"}) /\ UNCHANGED <<saved, published>>
    BY DEF WriteChunk, Job
  <1>2. CASE CardFails /\ FinishJob("ERR")
    BY <1>1, <1>2, CardFailsGives, JobFails
  <1>3. CASE ~(CardFails /\ FinishJob("ERR"))
    <2> DEFINE last == Len(Append(save.data, buffer)) = Chunks
    <2>1. /\ CardWorks /\ save.phase = "writing"
          /\ save' = [phase |-> IF last THEN "verifying" ELSE "writing",
                      data |-> Append(save.data, buffer)]
          /\ verdict' = IF last THEN "VERIFY" ELSE "NEXT"
          /\ Go("settle") /\ UNCHANGED <<external, taken>>
      BY <1>3, Zenon DEF WriteChunk
    <2>2. PICK b \in BOOLEAN : b = last
      OBVIOUS
    <2> HIDE DEF last
    <2> QED
      BY <1>1, <2>1, <2>2, Written DEF last
  <1> QED
    BY <1>2, <1>3

LEMMA Compared ==
    ASSUME IndInv, Work, ~StorageLost, Due({"Verifying"}), CardWorks,
           save.phase = "verifying", save' = [save EXCEPT !.phase = "verified"],
           verdict' = "progress", Go("settle"),
           UNCHANGED <<saved, published, external, taken>>
    PROVE  IndInv'
  <1> USE UploadAssumption DEF IndInv, TypeOK, clientVars, replyVars, saveVars, core0Vars
  <1>s. external /\ storage = "ready" /\ UNCHANGED <<storage, faults>>
    BY DEF SessionOwned, StorageLost, CardWorks
  <1>w. save' \in Saves /\ save'.phase = "verified" /\ save'.data = save.data
    BY DEF DataOK, Saves
  <1>1. FlagsOK'
    BY <1>s, <1>w DEF Work, Unlocked, Core0, Go, FlagsOK
  <1>2. ModesOK'
    BY <1>s, <1>w DEF Work, Unlocked, Core0, Go, ModesOK, Phases, Replies
  <1>3. CountsOK'
    BY <1>s, <1>w DEF Work, Unlocked, Core0, Go, CountsOK
  <1>4. DataOK'
    BY <1>s, <1>w DEF Work, Unlocked, Core0, Go, DataOK
  <1>5. ConnectionPhase'
    BY <1>s, <1>w DEF Work, Unlocked, Core0, Go, ConnectionPhase, ModesOK,
           Phases
  <1>6. SessionOwned'
    BY <1>s, <1>w DEF Work, Unlocked, Core0, Go, SessionOwned
  <1>7. WrittenIsPrefix'
    BY <1>s, <1>w DEF Work, Unlocked, Core0, Go, WrittenIsPrefix,
           SessionPhase
  <1>8. Told'
    BY <1>s, <1>w DEF Work, Unlocked, Core0, Go, Told
  <1>9. Claimed'
    BY <1>s, <1>w DEF Work, Unlocked, Core0, Go, Claimed, Due,
           ConnectionPhase, ClientStands, SessionPhase
  <1>10. VerdictFits'
    BY <1>s, <1>w DEF Work, Unlocked, Core0, Go, VerdictFits, Claimed, Due
  <1>11. SessionPhase'
    BY <1>s, <1>w DEF Work, Unlocked, Core0, Go, SessionPhase
  <1>12. ClientStands'
    BY <1>s, <1>w DEF Work, Unlocked, Core0, Go, ClientStands,
           ConnectionPhase, CountsOK, VerdictFits
  <1>13. PositionKept'
    BY <1>s, <1>w DEF Work, Unlocked, Core0, Go, PositionKept, ClientStands,
           SessionPhase, Claimed, Due, SessionOwned
  <1> QED
    BY <1>1, <1>2, <1>3, <1>4, <1>5, <1>6, <1>7, <1>8, <1>9, <1>10, <1>11, <1>12, <1>13

LEMMA PublishedVideo ==
    ASSUME IndInv, Work, ~StorageLost, Due({"Verifying"}), CardWorks,
           save.phase = "verified", published' = save.data, saved' = TRUE,
           FinishJob("SAVED")
    PROVE  IndInv'
  <1> USE UploadAssumption DEF IndInv, TypeOK, clientVars, replyVars, saveVars, core0Vars
  <1>s. external /\ storage = "ready" /\ UNCHANGED <<storage, faults>>
    BY DEF SessionOwned, StorageLost, CardWorks
  <1>w. /\ phase \in {"Verifying", "Canceled"} /\ reply' = reply /\ phase' = phase
        /\ client' = client
        /\ client # 0 => save.data = Prefix(client, Chunks) /\ reply # "SAVED"
    BY <1>s DEF Claimed, Due, Work, Unlocked, WrittenIsPrefix, SessionPhase, ClientStands
  <1>1. FlagsOK'
    BY ReleaseGives, <1>s, <1>w DEF Work, Unlocked, Core0, Go, FinishJob,
           FlagsOK
  <1>2. ModesOK'
    BY ReleaseGives, <1>s, <1>w DEF Work, Unlocked, Core0, Go, FinishJob,
           ModesOK, Phases, Replies
  <1>3. CountsOK'
    BY ReleaseGives, <1>s, <1>w DEF Work, Unlocked, Core0, Go, FinishJob,
           CountsOK
  <1>4. DataOK'
    BY ReleaseGives, <1>s, <1>w DEF Work, Unlocked, Core0, Go, FinishJob,
           DataOK
  <1>5. ConnectionPhase'
    BY ReleaseGives, <1>s, <1>w DEF Work, Unlocked, Core0, Go, FinishJob,
           ConnectionPhase, ModesOK, Phases
  <1>6. SessionOwned'
    BY ReleaseGives, <1>s, <1>w DEF Work, Unlocked, Core0, Go, FinishJob,
           SessionOwned
  <1>7. WrittenIsPrefix'
    BY ReleaseGives, <1>s, <1>w DEF Work, Unlocked, Core0, Go, FinishJob,
           WrittenIsPrefix, SessionPhase
  <1>8. Told'
    BY ReleaseGives, <1>s, <1>w DEF Work, Unlocked, Core0, Go, FinishJob,
           Told
  <1>9. Claimed'
    BY ReleaseGives, <1>s, <1>w DEF Work, Unlocked, Core0, Go, FinishJob,
           Claimed, Due, ConnectionPhase, ClientStands, SessionPhase
  <1>10. VerdictFits'
    BY ReleaseGives, <1>s, <1>w DEF Work, Unlocked, Core0, Go, FinishJob,
           VerdictFits
  <1>11. SessionPhase'
    BY ReleaseGives, <1>s, <1>w DEF Work, Unlocked, Core0, Go, FinishJob,
           SessionPhase
  <1>12. ClientStands'
    BY ReleaseGives, <1>s, <1>w DEF Work, Unlocked, Core0, Go, FinishJob,
           ClientStands, ConnectionPhase, CountsOK, VerdictFits
  <1>13. PositionKept'
    BY ReleaseGives, <1>s, <1>w DEF Work, Unlocked, Core0, Go, FinishJob,
           PositionKept, ClientStands, SessionPhase, Claimed, Due
  <1> QED
    BY <1>1, <1>2, <1>3, <1>4, <1>5, <1>6, <1>7, <1>8, <1>9, <1>10, <1>11, <1>12, <1>13

LEMMA VerifyKeeps == IndInv /\ Verify => IndInv'
  <1> SUFFICES ASSUME IndInv, Verify PROVE IndInv'
    OBVIOUS
  <1>1. Work /\ ~StorageLost /\ Due({"Verifying"})
    BY DEF Verify, Job
  <1>2. \/ /\ CardWorks /\ save.phase = "verifying"
           /\ save' = [save EXCEPT !.phase = "verified"]
           /\ verdict' = "progress" /\ Go("settle")
           /\ UNCHANGED <<saved, published, external, taken>>
        \/ /\ CardWorks /\ save.phase = "verified"
           /\ published' = save.data /\ saved' = TRUE /\ FinishJob("SAVED")
        \/ CardFails /\ FinishJob("ERR") /\ UNCHANGED <<saved, published>>
    BY Zenon DEF Verify
  <1> QED
    BY <1>1, <1>2, Compared, PublishedVideo, CardFailsGives, JobFails

LEMMA NothingToDoKeeps == IndInv /\ NothingToDo => IndInv'
  <1> SUFFICES ASSUME IndInv, NothingToDo PROVE IndInv'
    OBVIOUS
  <1> USE UploadAssumption DEF IndInv, TypeOK, clientVars, replyVars, saveVars, core0Vars
  <1>1. FlagsOK'
    BY DEF NothingToDo, Work, Unlocked, Core0, Go, StorageLost, FlagsOK
  <1>2. ModesOK'
    BY DEF NothingToDo, Work, Unlocked, Core0, Go, StorageLost, ModesOK,
           Phases, Replies
  <1>3. CountsOK'
    BY DEF NothingToDo, Work, Unlocked, Core0, Go, StorageLost, CountsOK
  <1>4. DataOK'
    BY DEF NothingToDo, Work, Unlocked, Core0, Go, StorageLost, DataOK
  <1>5. ConnectionPhase'
    BY DEF NothingToDo, Work, Unlocked, Core0, Go, StorageLost,
           ConnectionPhase, ModesOK, Phases
  <1>6. SessionOwned'
    BY DEF NothingToDo, Work, Unlocked, Core0, Go, StorageLost, SessionOwned
  <1>7. WrittenIsPrefix'
    BY DEF NothingToDo, Work, Unlocked, Core0, Go, StorageLost,
           WrittenIsPrefix, SessionPhase
  <1>8. Told'
    BY DEF NothingToDo, Work, Unlocked, Core0, Go, StorageLost, Told
  <1>9. Claimed'
    BY DEF NothingToDo, Work, Unlocked, Core0, Go, StorageLost, Claimed,
           Due, ConnectionPhase, ClientStands, SessionPhase
  <1>10. VerdictFits'
    BY DEF NothingToDo, Work, Unlocked, Core0, Go, StorageLost, VerdictFits
  <1>11. SessionPhase'
    BY DEF NothingToDo, Work, Unlocked, Core0, Go, StorageLost, SessionPhase
  <1>12. ClientStands'
    BY DEF NothingToDo, Work, Unlocked, Core0, Go, StorageLost,
           ClientStands, ConnectionPhase, CountsOK, VerdictFits
  <1>13. PositionKept'
    BY DEF NothingToDo, Work, Unlocked, Core0, Go, StorageLost,
           PositionKept, ClientStands, SessionPhase, Claimed, Due
  <1> QED
    BY <1>1, <1>2, <1>3, <1>4, <1>5, <1>6, <1>7, <1>8, <1>9, <1>10, <1>11, <1>12, <1>13

\* Nothing is said to a client that is gone.
LEMMA Unsaid ==
    ASSUME IndInv, Settle, UNCHANGED <<clientVars, replyVars>>, idle' \in BOOLEAN,
           phase \notin {"Opening", "Writing"}
    PROVE  IndInv'
  <1> USE UploadAssumption DEF IndInv, TypeOK, clientVars, replyVars, saveVars, core0Vars
  <1>1. FlagsOK'
    BY DEF Settle, Locked, Core0, Go, FlagsOK
  <1>2. ModesOK'
    BY DEF Settle, Locked, Core0, Go, ModesOK, Phases, Replies
  <1>3. CountsOK'
    BY DEF Settle, Locked, Core0, Go, CountsOK
  <1>4. DataOK'
    BY DEF Settle, Locked, Core0, Go, DataOK
  <1>5. ConnectionPhase'
    BY DEF Settle, Locked, Core0, Go, ConnectionPhase, ModesOK, Phases
  <1>6. SessionOwned'
    BY DEF Settle, Locked, Core0, Go, SessionOwned
  <1>7. WrittenIsPrefix'
    BY DEF Settle, Locked, Core0, Go, WrittenIsPrefix, SessionPhase
  <1>8. Told'
    BY DEF Settle, Locked, Core0, Go, Told
  <1>9. Claimed'
    BY DEF Settle, Locked, Core0, Go, Claimed, Due, ConnectionPhase,
           ClientStands, SessionPhase
  <1>10. VerdictFits'
    BY DEF Settle, Locked, Core0, Go, VerdictFits
  <1>11. SessionPhase'
    BY DEF Settle, Locked, Core0, Go, SessionPhase, VerdictFits
  <1>12. ClientStands'
    BY DEF Settle, Locked, Core0, Go, ClientStands, ConnectionPhase,
           CountsOK, VerdictFits
  <1>13. PositionKept'
    BY DEF Settle, Locked, Core0, Go, PositionKept, ClientStands,
           SessionPhase, Claimed, Due, VerdictFits
  <1> QED
    BY <1>1, <1>2, <1>3, <1>4, <1>5, <1>6, <1>7, <1>8, <1>9, <1>10, <1>11, <1>12, <1>13

LEMMA AnswerName ==
    ASSUME IndInv, Settle, verdict = "NAME", client' = client, phase # "Canceled",
           phase' = "Name", full' = FALSE, idle' = FALSE, Reply("NAME")
    PROVE  IndInv'
  <1> USE UploadAssumption DEF IndInv, TypeOK, clientVars, replyVars, saveVars, core0Vars
  <1>p. phase = "Opening" /\ client # 0
    BY DEF Settle, VerdictFits, ConnectionPhase, ModesOK
  <1>1. FlagsOK'
    BY <1>p DEF Settle, Locked, Core0, Go, Reply, FlagsOK
  <1>2. ModesOK'
    BY <1>p DEF Settle, Locked, Core0, Go, Reply, ModesOK, Phases, Replies
  <1>3. CountsOK'
    BY <1>p DEF Settle, Locked, Core0, Go, Reply, CountsOK
  <1>4. DataOK'
    BY <1>p DEF Settle, Locked, Core0, Go, Reply, DataOK
  <1>5. ConnectionPhase'
    BY <1>p DEF Settle, Locked, Core0, Go, Reply, ConnectionPhase, ModesOK,
           Phases
  <1>6. SessionOwned'
    BY <1>p DEF Settle, Locked, Core0, Go, Reply, SessionOwned
  <1>7. WrittenIsPrefix'
    BY <1>p DEF Settle, Locked, Core0, Go, Reply, WrittenIsPrefix,
           SessionPhase
  <1>8. Told'
    BY <1>p DEF Settle, Locked, Core0, Go, Reply, Told
  <1>9. Claimed'
    BY <1>p DEF Settle, Locked, Core0, Go, Reply, Claimed, Due,
           ConnectionPhase, ClientStands, SessionPhase
  <1>10. VerdictFits'
    BY <1>p DEF Settle, Locked, Core0, Go, Reply, VerdictFits
  <1>11. SessionPhase'
    BY <1>p DEF Settle, Locked, Core0, Go, Reply, SessionPhase, VerdictFits
  <1>12. ClientStands'
    BY <1>p, Sessions DEF Settle, Locked, Core0, Go, Reply, ClientStands,
           ConnectionPhase, CountsOK, VerdictFits, PositionKept,
           SessionPhase
  <1>13. PositionKept'
    BY <1>p, Sessions DEF Settle, Locked, Core0, Go, Reply, PositionKept,
           ClientStands, SessionPhase, Claimed, Due, VerdictFits, CountsOK
  <1> QED
    BY <1>1, <1>2, <1>3, <1>4, <1>5, <1>6, <1>7, <1>8, <1>9, <1>10, <1>11, <1>12, <1>13

LEMMA AnswerReady ==
    ASSUME IndInv, Settle, verdict = "READY", client' = client, phase # "Canceled",
           phase' = "Body", full' = FALSE, idle' = FALSE, Reply("READY")
    PROVE  IndInv'
  <1> USE UploadAssumption DEF IndInv, TypeOK, clientVars, replyVars, saveVars, core0Vars
  <1>p. phase = "Opening" /\ client # 0
    BY DEF Settle, VerdictFits, ConnectionPhase, ModesOK
  <1>1. FlagsOK'
    BY <1>p DEF Settle, Locked, Core0, Go, Reply, FlagsOK
  <1>2. ModesOK'
    BY <1>p DEF Settle, Locked, Core0, Go, Reply, ModesOK, Phases, Replies
  <1>3. CountsOK'
    BY <1>p DEF Settle, Locked, Core0, Go, Reply, CountsOK
  <1>4. DataOK'
    BY <1>p DEF Settle, Locked, Core0, Go, Reply, DataOK
  <1>5. ConnectionPhase'
    BY <1>p DEF Settle, Locked, Core0, Go, Reply, ConnectionPhase, ModesOK,
           Phases
  <1>6. SessionOwned'
    BY <1>p DEF Settle, Locked, Core0, Go, Reply, SessionOwned
  <1>7. WrittenIsPrefix'
    BY <1>p DEF Settle, Locked, Core0, Go, Reply, WrittenIsPrefix,
           SessionPhase
  <1>8. Told'
    BY <1>p DEF Settle, Locked, Core0, Go, Reply, Told
  <1>9. Claimed'
    BY <1>p DEF Settle, Locked, Core0, Go, Reply, Claimed, Due,
           ConnectionPhase, ClientStands, SessionPhase
  <1>10. VerdictFits'
    BY <1>p DEF Settle, Locked, Core0, Go, Reply, VerdictFits
  <1>11. SessionPhase'
    BY <1>p DEF Settle, Locked, Core0, Go, Reply, SessionPhase, VerdictFits
  <1>12. ClientStands'
    BY <1>p, Sessions DEF Settle, Locked, Core0, Go, Reply, ClientStands,
           ConnectionPhase, CountsOK, VerdictFits, PositionKept,
           SessionPhase
  <1>13. PositionKept'
    BY <1>p, Sessions DEF Settle, Locked, Core0, Go, Reply, PositionKept,
           ClientStands, SessionPhase, Claimed, Due, VerdictFits, CountsOK
  <1> QED
    BY <1>1, <1>2, <1>3, <1>4, <1>5, <1>6, <1>7, <1>8, <1>9, <1>10, <1>11, <1>12, <1>13

LEMMA AnswerNext ==
    ASSUME IndInv, Settle, verdict = "NEXT", client' = client, phase # "Canceled",
           phase' = "Body", full' = FALSE, idle' = FALSE, Reply("NEXT")
    PROVE  IndInv'
  <1> USE UploadAssumption DEF IndInv, TypeOK, clientVars, replyVars, saveVars, core0Vars
  <1>p. phase = "Writing" /\ client # 0
    BY DEF Settle, VerdictFits, ConnectionPhase, ModesOK
  <1>1. FlagsOK'
    BY <1>p DEF Settle, Locked, Core0, Go, Reply, FlagsOK
  <1>2. ModesOK'
    BY <1>p DEF Settle, Locked, Core0, Go, Reply, ModesOK, Phases, Replies
  <1>3. CountsOK'
    BY <1>p DEF Settle, Locked, Core0, Go, Reply, CountsOK
  <1>4. DataOK'
    BY <1>p DEF Settle, Locked, Core0, Go, Reply, DataOK
  <1>5. ConnectionPhase'
    BY <1>p DEF Settle, Locked, Core0, Go, Reply, ConnectionPhase, ModesOK,
           Phases
  <1>6. SessionOwned'
    BY <1>p DEF Settle, Locked, Core0, Go, Reply, SessionOwned
  <1>7. WrittenIsPrefix'
    BY <1>p DEF Settle, Locked, Core0, Go, Reply, WrittenIsPrefix,
           SessionPhase
  <1>8. Told'
    BY <1>p DEF Settle, Locked, Core0, Go, Reply, Told
  <1>9. Claimed'
    BY <1>p DEF Settle, Locked, Core0, Go, Reply, Claimed, Due,
           ConnectionPhase, ClientStands, SessionPhase
  <1>10. VerdictFits'
    BY <1>p DEF Settle, Locked, Core0, Go, Reply, VerdictFits
  <1>11. SessionPhase'
    BY <1>p DEF Settle, Locked, Core0, Go, Reply, SessionPhase, VerdictFits
  <1>12. ClientStands'
    BY <1>p, Sessions DEF Settle, Locked, Core0, Go, Reply, ClientStands,
           ConnectionPhase, CountsOK, VerdictFits, PositionKept,
           SessionPhase
  <1>13. PositionKept'
    BY <1>p, Sessions DEF Settle, Locked, Core0, Go, Reply, PositionKept,
           ClientStands, SessionPhase, Claimed, Due, VerdictFits, CountsOK
  <1> QED
    BY <1>1, <1>2, <1>3, <1>4, <1>5, <1>6, <1>7, <1>8, <1>9, <1>10, <1>11, <1>12, <1>13

LEMMA AnswerVerify ==
    ASSUME IndInv, Settle, verdict = "VERIFY", client' = client, phase # "Canceled",
           phase' = "Verifying", full' = FALSE, idle' = FALSE, Reply("VERIFY")
    PROVE  IndInv'
  <1> USE UploadAssumption DEF IndInv, TypeOK, clientVars, replyVars, saveVars, core0Vars
  <1>p. phase = "Writing" /\ client # 0
    BY DEF Settle, VerdictFits, ConnectionPhase, ModesOK
  <1>1. FlagsOK'
    BY <1>p DEF Settle, Locked, Core0, Go, Reply, FlagsOK
  <1>2. ModesOK'
    BY <1>p DEF Settle, Locked, Core0, Go, Reply, ModesOK, Phases, Replies
  <1>3. CountsOK'
    BY <1>p DEF Settle, Locked, Core0, Go, Reply, CountsOK
  <1>4. DataOK'
    BY <1>p DEF Settle, Locked, Core0, Go, Reply, DataOK
  <1>5. ConnectionPhase'
    BY <1>p DEF Settle, Locked, Core0, Go, Reply, ConnectionPhase, ModesOK,
           Phases
  <1>6. SessionOwned'
    BY <1>p DEF Settle, Locked, Core0, Go, Reply, SessionOwned
  <1>7. WrittenIsPrefix'
    BY <1>p DEF Settle, Locked, Core0, Go, Reply, WrittenIsPrefix,
           SessionPhase
  <1>8. Told'
    BY <1>p DEF Settle, Locked, Core0, Go, Reply, Told
  <1>9. Claimed'
    BY <1>p DEF Settle, Locked, Core0, Go, Reply, Claimed, Due,
           ConnectionPhase, ClientStands, SessionPhase
  <1>10. VerdictFits'
    BY <1>p DEF Settle, Locked, Core0, Go, Reply, VerdictFits
  <1>11. SessionPhase'
    BY <1>p DEF Settle, Locked, Core0, Go, Reply, SessionPhase, VerdictFits
  <1>12. ClientStands'
    BY <1>p, Sessions DEF Settle, Locked, Core0, Go, Reply, ClientStands,
           ConnectionPhase, CountsOK, VerdictFits, PositionKept,
           SessionPhase
  <1>13. PositionKept'
    BY <1>p, Sessions DEF Settle, Locked, Core0, Go, Reply, PositionKept,
           ClientStands, SessionPhase, Claimed, Due, VerdictFits, CountsOK
  <1> QED
    BY <1>1, <1>2, <1>3, <1>4, <1>5, <1>6, <1>7, <1>8, <1>9, <1>10, <1>11, <1>12, <1>13

\* FinishJob tells its client how it ended.
LEMMA Concluded ==
    ASSUME IndInv, Settle, verdict \in {"SAVED", "ERR"}, client # 0, phase # "Canceled",
           phase' = "Closing", Reply(verdict), UNCHANGED <<client, full, idle>>
    PROVE  IndInv'
  <1> USE UploadAssumption DEF IndInv, TypeOK, clientVars, replyVars, saveVars, core0Vars
  <1>1. FlagsOK'
    BY DEF Settle, Locked, Core0, Go, Reply, FlagsOK
  <1>2. ModesOK'
    BY DEF Settle, Locked, Core0, Go, Reply, ModesOK, Phases, Replies
  <1>3. CountsOK'
    BY DEF Settle, Locked, Core0, Go, Reply, CountsOK
  <1>4. DataOK'
    BY DEF Settle, Locked, Core0, Go, Reply, DataOK
  <1>5. ConnectionPhase'
    BY DEF Settle, Locked, Core0, Go, Reply, ConnectionPhase, ModesOK,
           Phases
  <1>6. SessionOwned'
    BY DEF Settle, Locked, Core0, Go, Reply, SessionOwned
  <1>7. WrittenIsPrefix'
    BY DEF Settle, Locked, Core0, Go, Reply, WrittenIsPrefix, SessionPhase
  <1>8. Told'
    BY DEF Settle, Locked, Core0, Go, Reply, Told, VerdictFits
  <1>9. Claimed'
    BY DEF Settle, Locked, Core0, Go, Reply, Claimed, Due, ConnectionPhase,
           ClientStands, SessionPhase
  <1>10. VerdictFits'
    BY DEF Settle, Locked, Core0, Go, Reply, VerdictFits
  <1>11. SessionPhase'
    BY DEF Settle, Locked, Core0, Go, Reply, SessionPhase, VerdictFits
  <1>12. ClientStands'
    BY DEF Settle, Locked, Core0, Go, Reply, ClientStands, ConnectionPhase,
           CountsOK, VerdictFits
  <1>13. PositionKept'
    BY DEF Settle, Locked, Core0, Go, Reply, PositionKept, ClientStands,
           SessionPhase, Claimed, Due, VerdictFits
  <1> QED
    BY <1>1, <1>2, <1>3, <1>4, <1>5, <1>6, <1>7, <1>8, <1>9, <1>10, <1>11, <1>12, <1>13

LEMMA CleanedUp ==
    ASSUME IndInv, Settle, verdict = "cleanup", phase' = "Idle", full' = FALSE, reply' = "none",
           UNCHANGED <<client, acknowledged, queued, idle>>
    PROVE  IndInv'
  <1> USE UploadAssumption DEF IndInv, TypeOK, clientVars, replyVars, saveVars, core0Vars
  <1>1. FlagsOK'
    BY DEF Settle, Locked, Core0, Go, FlagsOK
  <1>2. ModesOK'
    BY DEF Settle, Locked, Core0, Go, ModesOK, Phases, Replies
  <1>3. CountsOK'
    BY DEF Settle, Locked, Core0, Go, CountsOK
  <1>4. DataOK'
    BY DEF Settle, Locked, Core0, Go, DataOK
  <1>5. ConnectionPhase'
    BY DEF Settle, Locked, Core0, Go, ConnectionPhase, ModesOK, Phases,
           VerdictFits
  <1>6. SessionOwned'
    BY DEF Settle, Locked, Core0, Go, SessionOwned
  <1>7. WrittenIsPrefix'
    BY DEF Settle, Locked, Core0, Go, WrittenIsPrefix, SessionPhase
  <1>8. Told'
    BY DEF Settle, Locked, Core0, Go, Told
  <1>9. Claimed'
    BY DEF Settle, Locked, Core0, Go, Claimed, Due, ConnectionPhase,
           ClientStands, SessionPhase
  <1>10. VerdictFits'
    BY DEF Settle, Locked, Core0, Go, VerdictFits
  <1>11. SessionPhase'
    BY DEF Settle, Locked, Core0, Go, SessionPhase, VerdictFits
  <1>12. ClientStands'
    BY DEF Settle, Locked, Core0, Go, ClientStands, ConnectionPhase,
           CountsOK, VerdictFits
  <1>13. PositionKept'
    BY DEF Settle, Locked, Core0, Go, PositionKept, ClientStands,
           SessionPhase, Claimed, Due, VerdictFits
  <1> QED
    BY <1>1, <1>2, <1>3, <1>4, <1>5, <1>6, <1>7, <1>8, <1>9, <1>10, <1>11, <1>12, <1>13

LEMMA AnswerUnsaid ==
    ASSUME IndInv, Settle, NEW next, NEW message, Answer(next, message),
           phase = "Canceled"
    PROVE  IndInv'
  BY Unsaid DEF Answer, clientVars, IndInv, TypeOK, FlagsOK

LEMMA SettleVerdictKeeps == IndInv /\ SettleVerdict => IndInv'
  <1> SUFFICES ASSUME IndInv, SettleVerdict PROVE IndInv'
    OBVIOUS
  <1>1. Settle
    BY DEF SettleVerdict
  <1>2. idle \in BOOLEAN
    BY DEF IndInv, TypeOK, FlagsOK
  <1>3. ASSUME Answer("Name", "NAME") PROVE IndInv'
    BY <1>1, <1>3, AnswerUnsaid, AnswerName DEF Answer
  <1>4. ASSUME Answer("Body", "READY") PROVE IndInv'
    BY <1>1, <1>4, AnswerUnsaid, AnswerReady DEF Answer
  <1>5. ASSUME Answer("Body", "NEXT") PROVE IndInv'
    BY <1>1, <1>5, AnswerUnsaid, AnswerNext DEF Answer
  <1>6. ASSUME Answer("Verifying", "VERIFY") PROVE IndInv'
    BY <1>1, <1>6, AnswerUnsaid, AnswerVerify DEF Answer
  <1>7. ASSUME Conclude PROVE IndInv'
    <2>1. CASE client # 0 /\ phase # "Canceled"
      BY <1>1, <1>7, <2>1, Concluded DEF Conclude
    <2>2. CASE ~(client # 0 /\ phase # "Canceled")
      <3>1. phase \notin {"Opening", "Writing"}
        BY <2>2 DEF IndInv, ConnectionPhase
      <3> QED
        BY <1>1, <1>2, <1>7, <2>2, <3>1, Unsaid DEF Conclude, clientVars
    <2> QED
      BY <2>1, <2>2
  <1>8. ASSUME verdict = "progress", idle' = FALSE, UNCHANGED <<clientVars, replyVars>>
        PROVE  IndInv'
    <2>1. phase \notin {"Opening", "Writing"}
      BY <1>1, <1>8 DEF Settle, IndInv, VerdictFits
    <2> QED
      BY <1>1, <1>8, <2>1, Unsaid
  <1>9. ASSUME verdict = "cleanup", phase' = "Idle", full' = FALSE, reply' = "none",
               UNCHANGED <<client, acknowledged, queued, idle>>
        PROVE  IndInv'
    BY <1>1, <1>9, CleanedUp
  <1> QED
    BY <1>3, <1>4, <1>5, <1>6, <1>7, <1>8, <1>9 DEF SettleVerdict

LEMMA UpdateMemoryKeeps == IndInv /\ UpdateMemory => IndInv'
  <1> SUFFICES ASSUME IndInv, UpdateMemory PROVE IndInv'
    OBVIOUS
  <1> USE UploadAssumption DEF IndInv, TypeOK, clientVars, replyVars, saveVars, core0Vars
  <1>1. FlagsOK'
    BY Sessions DEF UpdateMemory, Go, Elsewhere, FlagsOK
  <1>2. ModesOK'
    BY Sessions DEF UpdateMemory, Go, Elsewhere, ModesOK, Phases, Replies
  <1>3. CountsOK'
    BY Sessions DEF UpdateMemory, Go, Elsewhere, CountsOK
  <1>4. DataOK'
    BY Sessions DEF UpdateMemory, Go, Elsewhere, DataOK
  <1>5. ConnectionPhase'
    BY Sessions DEF UpdateMemory, Go, Elsewhere, ConnectionPhase, ModesOK,
           Phases
  <1>6. SessionOwned'
    BY Sessions DEF UpdateMemory, Go, Elsewhere, SessionOwned
  <1>7. WrittenIsPrefix'
    <2>1. save'.data \in {save.data, <<>>} /\ external' = external /\ client' = client
      BY Sessions DEF UpdateMemory, Elsewhere
    <2>2. ASSUME external
          PROVE  \E c \in 1 .. MaxClients : /\ save'.data = Prefix(c, Len(save'.data))
                                            /\ client \in {0, c}
      <3>1. PICK c \in 1 .. MaxClients : /\ save.data = Prefix(c, Len(save.data))
                                         /\ client \in {0, c}
        BY <2>2 DEF WrittenIsPrefix
      <3> QED
        BY <2>1, <3>1, NothingWritten, Sessions
    <2> QED
      BY <2>1, <2>2 DEF WrittenIsPrefix
  <1>8. Told'
    BY Sessions DEF UpdateMemory, Go, Elsewhere, Told
  <1>9. Claimed'
    BY Sessions DEF UpdateMemory, Go, Elsewhere, Claimed, Due,
           ConnectionPhase, ClientStands, SessionPhase
  <1>10. VerdictFits'
    BY Sessions DEF UpdateMemory, Go, Elsewhere, VerdictFits
  <1>11. SessionPhase'
    BY Sessions DEF UpdateMemory, Go, Elsewhere, SessionPhase
  <1>12. ClientStands'
    BY Sessions DEF UpdateMemory, Go, Elsewhere, ClientStands,
           ConnectionPhase, CountsOK, VerdictFits
  <1>13. PositionKept'
    BY Sessions DEF UpdateMemory, Go, Elsewhere, PositionKept, ClientStands,
           SessionPhase, Claimed, Due
  <1> QED
    BY <1>1, <1>2, <1>3, <1>4, <1>5, <1>6, <1>7, <1>8, <1>9, <1>10, <1>11, <1>12, <1>13

LEMMA EndPassKeeps == IndInv /\ EndPass => IndInv'
  <1> SUFFICES ASSUME IndInv, EndPass PROVE IndInv'
    OBVIOUS
  <1> USE UploadAssumption DEF IndInv, TypeOK, clientVars, replyVars, saveVars, core0Vars
  <1>1. FlagsOK'
    BY Sessions DEF EndPass, Go, Elsewhere, CanOpen, Fault, FlagsOK
  <1>2. ModesOK'
    BY Sessions DEF EndPass, Go, Elsewhere, CanOpen, Fault, ModesOK, Phases,
           Replies
  <1>3. CountsOK'
    BY Sessions DEF EndPass, Go, Elsewhere, CanOpen, Fault, CountsOK
  <1>4. DataOK'
    <2>1. save' \in {save, NoSave, [NoSave EXCEPT !.phase = "http"]}
      BY DEF EndPass
    <2>2. save' \in Saves
      BY <2>1, Sessions DEF DataOK
    <2>3. save'.data \in {save.data, <<>>}
      BY <2>1, Sessions
    <2>4. Len(save'.data) <= Chunks
      BY <2>3, Sessions DEF DataOK
    <2> QED
      BY <2>2, <2>4 DEF EndPass, Elsewhere, DataOK
  <1>5. ConnectionPhase'
    BY Sessions DEF EndPass, Go, Elsewhere, CanOpen, Fault, ConnectionPhase,
           ModesOK, Phases
  <1>6. SessionOwned'
    <2>1. \/ save' = save /\ taken' = taken
          \/ CanOpen /\ taken' = TRUE /\ save'.phase = "http"
          \/ save.phase = "http" /\ taken' = FALSE /\ save'.phase = "idle"
      BY Sessions DEF EndPass
    <2>2. external' = external
      BY DEF EndPass, Elsewhere
    <2> QED
      BY <2>1, <2>2 DEF SessionOwned, CanOpen
  <1>7. WrittenIsPrefix'
    <2>1. external' = external /\ client' = client
      BY DEF EndPass, Elsewhere
    <2>2. external => save' = save
      BY DEF EndPass, CanOpen, SessionOwned
    <2> QED
      BY <2>1, <2>2 DEF WrittenIsPrefix
  <1>8. Told'
    BY Sessions DEF EndPass, Go, Elsewhere, CanOpen, Fault, Told
  <1>9. Claimed'
    BY Sessions DEF EndPass, Go, Elsewhere, CanOpen, Fault, Claimed, Due,
           ConnectionPhase, ClientStands, SessionPhase
  <1>10. VerdictFits'
    BY Sessions DEF EndPass, Go, Elsewhere, CanOpen, Fault, VerdictFits
  <1>11. SessionPhase'
    BY Sessions DEF EndPass, Go, Elsewhere, CanOpen, Fault, SessionPhase,
           SessionOwned
  <1>12. ClientStands'
    BY Sessions DEF EndPass, Go, Elsewhere, CanOpen, Fault, ClientStands,
           ConnectionPhase, CountsOK, VerdictFits
  <1>13. PositionKept'
    BY Sessions DEF EndPass, Go, Elsewhere, CanOpen, Fault, PositionKept,
           ClientStands, SessionPhase, Claimed, Due, SessionOwned
  <1> QED
    BY <1>1, <1>2, <1>3, <1>4, <1>5, <1>6, <1>7, <1>8, <1>9, <1>10, <1>11, <1>12, <1>13

LEMMA OtherHolderKeeps == IndInv /\ OtherHolder => IndInv'
  <1> SUFFICES ASSUME IndInv, OtherHolder PROVE IndInv'
    OBVIOUS
  <1> USE UploadAssumption DEF IndInv, TypeOK, clientVars, replyVars, saveVars, core0Vars
  <1>1. FlagsOK'
    BY DEF OtherHolder, Elsewhere, FlagsOK
  <1>2. ModesOK'
    BY DEF OtherHolder, Elsewhere, ModesOK, Phases, Replies
  <1>3. CountsOK'
    BY DEF OtherHolder, Elsewhere, CountsOK
  <1>4. DataOK'
    BY DEF OtherHolder, Elsewhere, DataOK
  <1>5. ConnectionPhase'
    BY DEF OtherHolder, Elsewhere, ConnectionPhase, ModesOK, Phases
  <1>6. SessionOwned'
    BY DEF OtherHolder, Elsewhere, SessionOwned
  <1>7. WrittenIsPrefix'
    BY DEF OtherHolder, Elsewhere, WrittenIsPrefix, SessionPhase
  <1>8. Told'
    BY DEF OtherHolder, Elsewhere, Told
  <1>9. Claimed'
    BY DEF OtherHolder, Elsewhere, Claimed, Due, ConnectionPhase,
           ClientStands, SessionPhase
  <1>10. VerdictFits'
    BY DEF OtherHolder, Elsewhere, VerdictFits
  <1>11. SessionPhase'
    BY DEF OtherHolder, Elsewhere, SessionPhase
  <1>12. ClientStands'
    BY DEF OtherHolder, Elsewhere, ClientStands, ConnectionPhase, CountsOK,
           VerdictFits
  <1>13. PositionKept'
    BY DEF OtherHolder, Elsewhere, PositionKept, ClientStands, SessionPhase,
           Claimed, Due
  <1> QED
    BY <1>1, <1>2, <1>3, <1>4, <1>5, <1>6, <1>7, <1>8, <1>9, <1>10, <1>11, <1>12, <1>13

-----------------------------------------------------------------------------
(* The theorem.                                                            *)

LEMMA InitHolds == Init => IndInv
  <1> SUFFICES ASSUME Init PROVE IndInv
    OBVIOUS
  <1> USE UploadAssumption DEF Init, IndInv, TypeOK
  <1>1. FlagsOK /\ CountsOK
    <2>1. FlagsOK
      BY Zenon DEF FlagsOK
    <2>2. CountsOK
      BY DEF CountsOK
    <2> QED
      BY <2>1, <2>2
  <1>2. ModesOK
    BY DEF ModesOK, Phases, Replies, Snapshots, NothingSeen
  <1>3. DataOK
    BY Sessions DEF DataOK, Section
  <1>4. ConnectionPhase /\ Claimed /\ VerdictFits /\ ClientStands
    BY DEF ConnectionPhase, Claimed, VerdictFits, ClientStands
  <1>5. SessionOwned /\ WrittenIsPrefix /\ Told /\ SessionPhase /\ PositionKept
    BY Sessions DEF SessionOwned, WrittenIsPrefix, Told, SessionPhase, PositionKept
  <1> QED
    BY <1>1, <1>2, <1>3, <1>4, <1>5

\* Every step preserves the invariant.
LEMMA StepHolds == IndInv /\ [Next]_vars => IndInv'
  <1> SUFFICES ASSUME IndInv, [Next]_vars PROVE IndInv'
    OBVIOUS
  <1>1. CASE Core1Next
    BY <1>1, AcceptKeeps, ReceiveKeeps, SentKeeps, ErrorKeeps, ElapseKeeps,
       PollKeeps, StartKeeps, StopKeeps
       DEF Core1Next
  <1>2. CASE UpdateStorage
    BY <1>2, UpdateDisabledKeeps, SnapshotKeeps, CleanUpKeeps, FailLostKeeps,
       RejectRequestKeeps, AskNameKeeps, OpenKeeps, WriteChunkKeeps, VerifyKeeps,
       NothingToDoKeeps, SettleVerdictKeeps
       DEF UpdateStorage
  <1>3. CASE UpdateMemory \/ EndPass \/ OtherHolder
    BY <1>3, UpdateMemoryKeeps, EndPassKeeps, OtherHolderKeeps
  <1>4. CASE UNCHANGED vars
    BY <1>4 DEF vars, clientVars, replyVars, saveVars, core0Vars, IndInv, TypeOK,
                FlagsOK, ModesOK, CountsOK, DataOK, ConnectionPhase, SessionOwned,
                WrittenIsPrefix, Told, Claimed, Due, VerdictFits, SessionPhase,
                ClientStands, PositionKept
  <1> QED
    BY <1>1, <1>2, <1>3, <1>4 DEF Next, RenderLoop

\* A video is written in order from one client, the session ends with its owner,
\* and no reply says more than has happened, however the connection changes
\* while the card is at work.
THEOREM InvHolds == Spec => []Inv
  <1>1. Spec => []IndInv
    BY InitHolds, StepHolds, PTL DEF Spec
  <1> QED
    BY <1>1, RepliesFollow, PTL
=============================================================================
