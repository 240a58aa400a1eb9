-------------------------- MODULE HttpUploadProofs --------------------------
(***************************************************************************)
(* Browser uploads are safe for any set of pages, any length of a file and *)
(* any number of faults: Inv is inductive.  One part of it is the mailbox, *)
(* which never carries two requests; one the session, whose data is the    *)
(* confirmed part of one page's file; and one what the pages, the requests *)
(* under way and the last answer still know of the session.                *)
(***************************************************************************)
EXTENDS HttpUpload, SequenceTheorems, TLAPS

Mailbox ==
    /\ MessagesOK /\ InputUntouched /\ RequestServed /\ ResponseHeld
    /\ MailboxOrder /\ ConnectionOrder

Session == UploadOK /\ SessionHeld /\ SavedOnce /\ SessionPosition /\ SpentOnce

Agreement == AnswerHolds /\ RequestsKnown /\ PagesKnown /\ PositionsAgree

LEMMA Groups == Inv <=> FlagsOK /\ ModesOK /\ Mailbox /\ Session /\ Agreement
  BY DEF Inv, TypeOK, Mailbox, Session, Agreement

-----------------------------------------------------------------------------
(* Facts about the records.                                                *)

LEMMA NoneOfThem ==
    /\ NoRequest \in Requests /\ NoRequest \notin RealRequests
    /\ NoResponse \notin Answers /\ NoResponse.own = FALSE
    /\ NoClient \in Connections
    /\ NoClient.request = NoRequest /\ NoClient.stage = "none"
    /\ NoClient.video = FALSE /\ NoClient.body = "none"
  BY DEF NoRequest, NoResponse, NoClient, Requests, RealRequests, Answers,
         Connections, Senders, Visitor

LEMMA ConnectedClient ==
    ASSUME NEW r \in RealRequests
    PROVE  /\ Connected(r) \in Connections
           /\ Connected(r).request = r /\ Connected(r).stage = "header"
           /\ Connected(r).video = FALSE /\ Connected(r).body = "none"
  <1>1. r \in Requests /\ r.from \in Senders
    BY DEF Requests, RealRequests
  <1> QED
    BY <1>1, NoneOfThem DEF Connected, NoClient, Connections

\* What a connection that is not ended turns to when a response is built.
Turned(c) ==
    /\ c \in Connections /\ c.video = client.video
    /\ \/ /\ c.stage = client.stage /\ c.body = client.body
          /\ c.request = client.request
       \/ /\ client.stage = "header" /\ c.stage = "responding"
          /\ c.body \in {"conflict", "other"} /\ c.request = NoRequest
       \/ /\ client.stage = "waiting" /\ responseReady /\ c.stage = "responding"
          /\ c.body = "mailbox" /\ c.request = NoRequest

LEMMA Turns ==
    ASSUME Mailbox
    PROVE  /\ Turned(client)
           /\ Turned([client EXCEPT !.acknowledged = TRUE])
           /\ client.stage = "header" =>
                  /\ Turned(BuildHttpResponse(client, "conflict"))
                  /\ Turned(BuildHttpResponse(client, "other"))
           /\ client.stage = "waiting" /\ responseReady =>
                  Turned(BuildHttpResponse(client, "mailbox"))
  BY NoneOfThem DEF Mailbox, MessagesOK, Turned, BuildHttpResponse, Connections

\* A connection that answers is as good as the one that asked.
LEMMA StayMailbox ==
    ASSUME Mailbox, NEW c, Turned(c), client' = c,
           UNCHANGED <<pending, responseReady, cancel, abandoned, input, response,
                       serving, pc>>
    PROVE  Mailbox'
  <1>1. MessagesOK'
    BY DEF Mailbox, MessagesOK, Turned
  <1>2. InputUntouched' /\ RequestServed' /\ ResponseHeld'
    BY DEF Mailbox, InputUntouched, RequestServed, ResponseHeld, MailboxOrder,
           ConnectionOrder, Turned
  <1>3. MailboxOrder'
    BY DEF Mailbox, MailboxOrder, RequestServed, ConnectionOrder, Turned
  <1>4. ConnectionOrder'
    BY DEF Mailbox, ConnectionOrder, Turned
  <1> QED
    BY <1>1, <1>2, <1>3, <1>4 DEF Mailbox

\* A connection that ends leaves the mailbox to nobody until Core 0 has noticed,
\* and what Core 0 reads is not written over.
LEMMA LeaveMailbox ==
    ASSUME FlagsOK, ModesOK, Mailbox, NEW c, Turned(c), Leave(c),
           \/ client' = NoClient
           \/ \E r \in RealRequests : client' = Connected(r),
           cancel' \in {cancel, TRUE},
           UNCHANGED <<pending, responseReady, input, response, pc>>
    PROVE  Mailbox' /\ reserved' \in BOOLEAN /\ abandoned' \in BOOLEAN
                    /\ serving' \in {"none", "live", "lost"}
  <1>1. /\ client' \in Connections /\ ~client'.video /\ client'.body = "none"
        /\ client'.stage \in {"none", "header"}
        /\ client'.stage = "header" <=> client'.request # NoRequest
    <2>1. CASE client' = NoClient
      BY <2>1, NoneOfThem
    <2>2. ASSUME NEW r \in RealRequests, client' = Connected(r) PROVE /\ client' \in Connections /\ ~client'.video
                 /\ client'.body = "none" /\ client'.stage = "header"
                 /\ client'.request # NoRequest
      BY <2>2, NoneOfThem, ConnectedClient
    <2> QED
      BY <2>1, <2>2
  <1>2. /\ reserved' \in BOOLEAN /\ abandoned' \in BOOLEAN
        /\ serving' = IF serving = "live" THEN "lost" ELSE serving
        /\ abandoned => abandoned'
        /\ c.video /\ c.stage # "responding" => abandoned'
    BY Zenon DEF Leave, FlagsOK
  <1>3. serving' \in {"none", "lost"}
    BY <1>2 DEF ModesOK
  <1>4. serving = "live" \/ (pending /\ ~abandoned) => abandoned'
    <2>1. serving = "live" \/ (pending /\ ~abandoned) =>
              client.video /\ client.stage = "waiting" /\ ~responseReady
      BY DEF Mailbox, InputUntouched, RequestServed, MailboxOrder, ConnectionOrder
    <2> QED
      BY <1>2, <2>1 DEF Turned
  <1>5. MessagesOK'
    BY <1>1 DEF Mailbox, MessagesOK
  <1>6. InputUntouched' /\ RequestServed' /\ ResponseHeld' /\ ConnectionOrder'
    BY <1>1, <1>3 DEF InputUntouched, RequestServed, ResponseHeld, ConnectionOrder
  <1>7. MailboxOrder'
    BY <1>1, <1>2, <1>3, <1>4 DEF Mailbox, MailboxOrder
  <1> QED
    BY <1>2, <1>3, <1>5, <1>6, <1>7 DEF Mailbox

-----------------------------------------------------------------------------
(* The transport.                                                          *)

\* No request comes up that was not under way, and no answer.
Fewer ==
    /\ client'.request \in {client.request, NoRequest}
    /\ input' \in {client.request, input, NoRequest}
    /\ response' \in {response, NoResponse}

Moves == FlagsOK' /\ ModesOK' /\ Mailbox' /\ Fewer

LEMMA Sends ==
    ASSUME FlagsOK, ModesOK, Mailbox, NEW c, Turned(c), SendPendingHttpResponse(c),
           UNCHANGED <<enabled, pending, responseReady, cancel, input, response,
                       idle, storage, pc, faults>>
    PROVE  Moves
  <1>1. CASE client' = c /\ UNCHANGED <<reserved, abandoned, serving>>
    BY <1>1, StayMailbox DEF Moves, Fewer, FlagsOK, ModesOK, Turned
  <1>2. CASE Leave(c) /\ client' = NoClient
    <2>1. /\ Mailbox' /\ reserved' \in BOOLEAN /\ abandoned' \in BOOLEAN
          /\ serving' \in {"none", "live", "lost"}
      BY <1>2, LeaveMailbox
    <2> QED
      BY <1>2, <2>1, NoneOfThem DEF Moves, Fewer, FlagsOK, ModesOK
  <1> QED
    BY <1>1, <1>2, Zenon DEF SendPendingHttpResponse, CloseHttpClient, AbortHttpClient

LEMMA Aborts ==
    ASSUME FlagsOK, ModesOK, Mailbox, AbortHttpClient(client), cancel' \in {cancel, TRUE},
           UNCHANGED <<pending, responseReady, input, response,
                       idle, storage, pc>>, faults' \in 0 .. MaxFaults,
           enabled' \in BOOLEAN
    PROVE  Moves
  <1>1. /\ Mailbox' /\ reserved' \in BOOLEAN /\ abandoned' \in BOOLEAN
        /\ serving' \in {"none", "live", "lost"}
    BY LeaveMailbox, Turns DEF AbortHttpClient
  <1>2. client' = NoClient /\ cancel' \in BOOLEAN
    BY DEF AbortHttpClient, FlagsOK
  <1> QED
    BY <1>1, <1>2, NoneOfThem DEF Moves, Fewer, FlagsOK, ModesOK

\* The client that submits waits for an answer of its own.
LEMMA Submits ==
    ASSUME FlagsOK, ModesOK, Mailbox, client.request \in RealRequests,
           ~abandoned, ~cancel, serving = "none", Submit, client' = Waiting,
           reserved' \in BOOLEAN,
           UNCHANGED <<enabled, cancel, abandoned, serving, idle, storage, pc, faults>>
    PROVE  Moves
  <1>1. /\ input' = client.request /\ pending' = TRUE
        /\ responseReady' = FALSE /\ response' = NoResponse
    BY DEF Submit
  <1>2. /\ client' \in Connections /\ client'.stage = "waiting" /\ client'.video
        /\ client'.request = NoRequest /\ client'.body = client.body
    BY NoneOfThem DEF Waiting, Mailbox, MessagesOK, Connections
  <1>3. client.request # NoRequest /\ client.body = "none"
    BY NoneOfThem DEF Mailbox, ConnectionOrder
  <1>4. MessagesOK'
    BY <1>1, <1>2, NoneOfThem DEF MessagesOK, Requests
  <1>5. /\ InputUntouched' /\ RequestServed' /\ ResponseHeld' /\ ConnectionOrder'
    BY <1>1, <1>2, <1>3
       DEF InputUntouched, RequestServed, ResponseHeld, ConnectionOrder
  <1>6. MailboxOrder'
    BY <1>1, <1>2, <1>3 DEF Mailbox, MailboxOrder
  <1> QED
    BY <1>1, <1>2, <1>4, <1>5, <1>6 DEF Moves, Fewer, FlagsOK, ModesOK, Mailbox

LEMMA RoutesMailbox ==
    ASSUME FlagsOK, ModesOK, Mailbox, RouteHttpRequest,
           UNCHANGED <<idle, storage, pc, faults>>
    PROVE  Moves
  <1>1. client.stage = "header" /\ UNCHANGED <<enabled, cancel>>
    BY DEF RouteHttpRequest
  <1>2. CASE RouteWithoutMailbox
    <2>1. PICK body \in {"conflict", "other"} :
              SendPendingHttpResponse(BuildHttpResponse(client, body))
      BY <1>2, Zenon DEF RouteWithoutMailbox
    <2>2. Turned(BuildHttpResponse(client, body))
      BY <1>1, Turns
    <2> QED
      BY <1>1, <1>2, <2>1, <2>2, Sends DEF RouteWithoutMailbox, NotSubmitted
  <1>3. /\ client \in Connections /\ client.request \in RealRequests
        /\ client.request # NoRequest /\ ~client.video /\ client.body = "none"
    BY <1>1, NoneOfThem
       DEF Mailbox, MessagesOK, ConnectionOrder, Connections, Requests
  <1>4. CanReserve => serving = "none"
    BY <1>1 DEF Mailbox, InputUntouched, MailboxOrder, ModesOK, CanReserve
  <1>5. CASE RouteControl
    BY <1>1, <1>3, <1>4, <1>5, Submits DEF RouteControl, CanReserve
  <1>6. CASE RouteMedia
    <2>1. /\ ~reserved /\ ~cancel /\ ~abandoned /\ serving = "none"
          /\ UNCHANGED <<input, pending, responseReady, response, abandoned, serving>>
          /\ reserved' = TRUE
          /\ client' = [client EXCEPT !.stage = "receiving", !.video = TRUE]
      BY <1>4, <1>6 DEF RouteMedia, CanReserve, NotSubmitted
    <2>2. /\ client' \in Connections /\ client'.stage = "receiving" /\ client'.video
          /\ client'.request = client.request /\ client'.body = "none"
      BY <1>3, <2>1 DEF Connections
    <2>3. ~pending
      BY <1>1, <2>1 DEF Mailbox, MailboxOrder
    <2>4. /\ MessagesOK' /\ InputUntouched' /\ RequestServed' /\ ResponseHeld'
          /\ ConnectionOrder'
      BY <1>3, <2>1, <2>2, <2>3 DEF Mailbox, MessagesOK, InputUntouched,
         RequestServed, ResponseHeld, ConnectionOrder
    <2>5. MailboxOrder'
      BY <1>1, <2>1, <2>2, <2>3 DEF Mailbox, MailboxOrder
    <2> QED
      BY <1>1, <2>1, <2>2, <2>4, <2>5 DEF Moves, Fewer, FlagsOK, ModesOK, Mailbox
  <1> QED
    BY <1>2, <1>5, <1>6 DEF RouteHttpRequest

LEMMA ReceivesMailbox ==
    ASSUME FlagsOK, ModesOK, Mailbox, ReceiveBody,
           UNCHANGED <<idle, storage, pc, faults>>
    PROVE  Moves
  <1>1. /\ client.stage = "receiving" /\ UNCHANGED <<enabled, cancel>>
    BY DEF ReceiveBody
  <1>2. /\ client \in Connections /\ client.request \in RealRequests
        /\ client.request # NoRequest /\ client.video
        /\ ~pending /\ ~abandoned /\ ~cancel /\ serving = "none"
        /\ pc \notin {"serve", "publish"}
    BY <1>1, NoneOfThem
       DEF Mailbox, MessagesOK, ConnectionOrder, MailboxOrder, Connections, Requests
  <1>3. CASE client.request.route = "media" /\ Submit
    <2>1. client' = Waiting /\ UNCHANGED <<reserved, abandoned, serving>>
      BY <1>3, NoneOfThem DEF ReceiveBody
    <2> QED
      BY <1>1, <1>2, <1>3, <2>1, Submits DEF FlagsOK
  <1>4. CASE client.request.route = "oversize" /\ NotSubmitted
    <2> DEFINE c == BuildHttpResponse(client, "other")
    <2>1. /\ abandoned' = TRUE /\ UNCHANGED serving
          /\ UNCHANGED <<input, pending, responseReady, response>>
          /\ \/ client' = c /\ UNCHANGED reserved
             \/ client' = NoClient /\ reserved' = FALSE
      BY <1>4 DEF ReceiveBody, NotSubmitted
    <2>2. /\ c \in Connections /\ c.stage = "responding" /\ c.body = "other"
          /\ c.request = NoRequest
      BY <1>2, NoneOfThem DEF BuildHttpResponse, Connections
    <2>3. /\ client' \in Connections /\ client'.stage \in {"responding", "none"}
          /\ client'.stage = "none" <=> ~client'.video
          /\ client'.body \in {"none", "other"} /\ client'.request = NoRequest
          /\ client'.stage = "none" => client'.body = "none"
      <3>1. c.video
        BY <1>2 DEF BuildHttpResponse, Connections
      <3> QED
        BY <2>1, <2>2, <3>1, NoneOfThem
    <2>4. /\ MessagesOK' /\ InputUntouched' /\ RequestServed' /\ ResponseHeld'
          /\ ConnectionOrder'
      BY <1>2, <2>1, <2>3 DEF Mailbox, MessagesOK, InputUntouched,
         RequestServed, ResponseHeld, ConnectionOrder
    <2>5. MailboxOrder'
      BY <1>1, <1>2, <2>1, <2>3 DEF Mailbox, MailboxOrder
    <2>6. FlagsOK'
      <3>1. reserved' \in BOOLEAN /\ abandoned' \in BOOLEAN /\ reserved \in BOOLEAN
        BY <2>1 DEF FlagsOK
      <3> QED
        BY <1>1, <2>1, <3>1, Zenon DEF FlagsOK
    <2>7. ModesOK'
      BY <2>1, Zenon DEF ModesOK
    <2>8. Fewer
      BY <2>1, <2>3 DEF Fewer
    <2> QED
      BY <2>4, <2>5, <2>6, <2>7, <2>8 DEF Moves, Mailbox
  <1> QED
    BY <1>3, <1>4, Zenon DEF ReceiveBody

LEMMA TransportMoves ==
    ASSUME FlagsOK, ModesOK, Mailbox, Transport
    PROVE  Moves
  <1>1. UNCHANGED <<uploadVars, pc, page, faults>>
    BY DEF Transport
  <1>2. CASE RouteHttpRequest
    BY <1>1, <1>2, RoutesMailbox DEF uploadVars
  <1>3. CASE ReceiveBody
    BY <1>1, <1>3, ReceivesMailbox DEF uploadVars
  <1>4. CASE HandleHttpResponseAcknowledgement
    BY <1>1, <1>4, Turns, Sends DEF HandleHttpResponseAcknowledgement, uploadVars
  <1>5. CASE HandleHttpClientError \/ TimeOut
    BY <1>1, <1>5, Aborts DEF HandleHttpClientError, TimeOut, uploadVars, FlagsOK, ModesOK
  <1>6. CASE UpdateTransport
    BY <1>1, <1>6, Turns, Sends DEF UpdateTransport, uploadVars
  <1> QED
    BY <1>2, <1>3, <1>4, <1>5, <1>6 DEF Transport

LEMMA Starts ==
    ASSUME FlagsOK, ModesOK, Mailbox, Start
    PROVE  Moves
  <1>1. /\ enabled' = TRUE
        /\ UNCHANGED <<client, flagVars, input, response, serving, uploadVars, pc, faults>>
    BY DEF Start, StartServer
  <1> QED
    BY <1>1, Turns, StayMailbox DEF flagVars, uploadVars, Moves, Fewer, FlagsOK, ModesOK

LEMMA Faults ==
    ASSUME ModesOK, Fault
    PROVE  faults' \in 0 .. MaxFaults
  BY UploadAssumption DEF ModesOK, Fault

LEMMA Stops ==
    ASSUME FlagsOK, ModesOK, Mailbox, Stop
    PROVE  Moves
  BY Faults, Aborts DEF Stop, StopServer, uploadVars

\* A new connection brings its request.
LEMMA Accepts ==
    ASSUME FlagsOK, ModesOK, Mailbox, NEW r \in RealRequests, AcceptHttpClient(r),
           faults' \in 0 .. MaxFaults, UNCHANGED <<idle, storage, pc>>
    PROVE  /\ FlagsOK' /\ ModesOK' /\ Mailbox'
           /\ client'.request = r /\ UNCHANGED <<input, response>>
  <1>1. /\ Leave(client) /\ client' = Connected(r)
        /\ UNCHANGED <<enabled, pending, responseReady, cancel, input, response>>
    BY DEF AcceptHttpClient
  <1>2. /\ Mailbox' /\ reserved' \in BOOLEAN /\ abandoned' \in BOOLEAN
        /\ serving' \in {"none", "live", "lost"}
    BY <1>1, Turns, LeaveMailbox
  <1> QED
    BY <1>1, <1>2, ConnectedClient DEF FlagsOK, ModesOK

\* A page that stopped to wait leaves its connection as it is.
LEMMA Detaches ==
    ASSUME FlagsOK, ModesOK, Mailbox, NEW p, client' = Detached(p),
           UNCHANGED <<enabled, flagVars, input, response, serving, idle, storage, pc>>,
           faults' \in 0 .. MaxFaults
    PROVE  Moves /\ client'.request = client.request
  <1>1. Turned(Detached(p)) /\ Detached(p).request = client.request
    BY Turns DEF Detached, Turned, Connections, Visitor, Senders, Mailbox, MessagesOK
  <1>2. Mailbox'
    BY <1>1, StayMailbox DEF flagVars
  <1> QED
    BY <1>1, <1>2 DEF Moves, Fewer, FlagsOK, ModesOK, flagVars

-----------------------------------------------------------------------------
(* Core 0's sections.                                                      *)

LEMMA TakesMailbox ==
    ASSUME FlagsOK, ModesOK, Mailbox, TakeRequest, pc = "top", UNCHANGED idle,
           storage' \in {"ready", "recovering", "unavailable"},
           faults' \in 0 .. MaxFaults,
           pc' \in {"top", "drop", "serve", "verify"},
           cancel <=> pc' = "drop",
           ~cancel /\ serving' = "live" <=> pc' = "serve"
    PROVE  Moves
  <1>1. /\ abandoned' = FALSE /\ pending' = FALSE /\ cancel' = FALSE
        /\ reserved' = (reserved /\ ~abandoned)
        /\ serving' = (IF pending /\ ~abandoned THEN "live" ELSE "none")
        /\ input' = (IF abandoned THEN NoRequest ELSE input)
        /\ abandoned => responseReady' = FALSE /\ response' = NoResponse
        /\ ~abandoned => UNCHANGED <<responseReady, response>>
        /\ UNCHANGED <<enabled, client>>
    BY DEF TakeRequest
  <1>2. FlagsOK' /\ ModesOK'
    <2>1. reserved' \in BOOLEAN /\ responseReady' \in BOOLEAN
      BY <1>1, Zenon DEF FlagsOK
    <2> QED
      BY <1>1, <2>1 DEF FlagsOK, ModesOK
  <1>3. Fewer /\ MessagesOK'
    BY <1>1, NoneOfThem DEF Fewer, Mailbox, MessagesOK, Requests
  <1>4. serving = "none"
    BY DEF Mailbox, MailboxOrder
  <1>5. InputUntouched' /\ RequestServed' /\ ResponseHeld' /\ ConnectionOrder'
    BY <1>1, <1>4 DEF Mailbox, InputUntouched, RequestServed, ResponseHeld,
       ConnectionOrder, MailboxOrder
  <1>6. MailboxOrder'
    <2>1. cancel => serving' = "none" /\ client.stage # "waiting"
                    /\ client.body # "mailbox"
      BY <1>1 DEF Mailbox, MailboxOrder, ConnectionOrder
    <2>2. serving' # "none" <=> pc' \in {"serve", "publish"}
      BY <1>1, <2>1
    <2>3. input' # NoRequest => pc' \in {"serve", "publish"}
      BY <1>1, <1>4, <2>1, <2>2 DEF Mailbox, MailboxOrder
    <2>4. pc' = "serve" => input' # NoRequest
      BY <1>1 DEF Mailbox, MailboxOrder
    <2> QED
      BY <1>1, <2>1, <2>2, <2>3, <2>4 DEF MailboxOrder
  <1> QED
    BY <1>2, <1>3, <1>5, <1>6 DEF Moves, Mailbox

LEMMA ForgetMoves ==
    ASSUME FlagsOK, ModesOK, Mailbox, Forget
    PROVE  Moves
  <1>1. /\ pc = "drop" /\ pc' = "top"
        /\ reserved' = FALSE /\ serving' = "none"
        /\ responseReady' = FALSE /\ response' = NoResponse
        /\ UNCHANGED <<enabled, client, pending, cancel, abandoned, input>>
        /\ UNCHANGED <<idle, storage, faults>>
    BY DEF Forget, DropCanceled, Go, uploadVars
  <1>2. FlagsOK' /\ ModesOK' /\ Fewer /\ MessagesOK'
    BY <1>1 DEF FlagsOK, ModesOK, Fewer, Mailbox, MessagesOK
  <1>3. serving = "none"
    BY <1>1 DEF Mailbox, MailboxOrder
  <1>4. InputUntouched' /\ RequestServed' /\ ResponseHeld' /\ ConnectionOrder'
    BY <1>1, <1>3 DEF Mailbox, InputUntouched, RequestServed, ResponseHeld,
       ConnectionOrder, MailboxOrder
  <1>5. MailboxOrder'
    BY <1>1, <1>3 DEF Mailbox, MailboxOrder
  <1> QED
    BY <1>2, <1>4, <1>5 DEF Moves, Mailbox

LEMMA PublishMoves ==
    ASSUME FlagsOK, ModesOK, Mailbox, Publish
    PROVE  Moves
  <1>1. /\ pc = "publish" /\ pc' = "top"
        /\ responseReady' = TRUE /\ serving' = "none" /\ input' = NoRequest
        /\ UNCHANGED <<enabled, client, reserved, pending, cancel, abandoned, response>>
        /\ UNCHANGED <<idle, storage, faults>>
    BY DEF Publish, PublishResponse, Go, uploadVars
  <1>2. FlagsOK' /\ ModesOK' /\ Fewer /\ MessagesOK'
    BY <1>1, NoneOfThem DEF FlagsOK, ModesOK, Fewer, Mailbox, MessagesOK
  <1>3. serving \in {"live", "lost"} /\ ~pending
    BY <1>1 DEF Mailbox, MailboxOrder, ModesOK
  <1>4. client.stage = "waiting" => serving = "live" /\ response.own
    BY <1>1, <1>3 DEF Mailbox, RequestServed, MailboxOrder
  <1>5. client.body # "mailbox"
    BY <1>3 DEF Mailbox, ResponseHeld
  <1>6. InputUntouched' /\ RequestServed' /\ ResponseHeld' /\ ConnectionOrder'
    BY <1>1, <1>3, <1>4, <1>5 DEF Mailbox, InputUntouched, RequestServed,
       ResponseHeld, ConnectionOrder
  <1>7. MailboxOrder'
    BY <1>1, <1>3, <1>5 DEF Mailbox, MailboxOrder
  <1> QED
    BY <1>2, <1>6, <1>7 DEF Moves, Mailbox

\* What is written while the request is served is an answer to it.
LEMMA Replies ==
    ASSUME FlagsOK, ModesOK, Mailbox, pc = "serve", pc' = "publish",
           upload' \in Uploads, NEW error \in BOOLEAN, Reply(error),
           idle' \in BOOLEAN, storage' \in {"ready", "recovering", "unavailable"},
           faults' \in 0 .. MaxFaults
    PROVE  /\ FlagsOK' /\ ModesOK' /\ Mailbox'
           /\ UNCHANGED <<client, input>>
           /\ response'.id = upload'.id /\ response'.token = upload'.token
           /\ response'.state = upload'.state /\ response'.offset = upload'.offset
  <1> DEFINE own == serving = "live"
             failed == error \/ upload'.failed
  <1>1. /\ response' = [own |-> own, error |-> failed, id |-> upload'.id,
                        token |-> upload'.token, state |-> upload'.state,
                        offset |-> upload'.offset]
        /\ UNCHANGED <<enabled, client, flagVars, input, serving>>
    BY DEF Reply, Write
  <1>2. own \in BOOLEAN /\ failed \in BOOLEAN
    BY DEF Uploads
  <1> HIDE DEF own, failed
  <1>3. response' \in Answers /\ response'.own = own
    BY <1>1, <1>2 DEF Answers, Uploads
  <1>4. FlagsOK' /\ ModesOK' /\ MessagesOK' /\ response' # NoResponse
    BY <1>1, <1>3, NoneOfThem DEF flagVars, FlagsOK, ModesOK, Mailbox, MessagesOK
  <1>5. serving \in {"live", "lost"} /\ ~pending /\ client.body # "mailbox"
    BY DEF Mailbox, MailboxOrder, ResponseHeld, ModesOK
  <1>6. InputUntouched' /\ RequestServed' /\ ResponseHeld' /\ ConnectionOrder'
    BY <1>1, <1>5 DEF flagVars, Mailbox, InputUntouched, RequestServed, ResponseHeld,
       ConnectionOrder
  <1>7. MailboxOrder'
    BY <1>1, <1>3, <1>4, <1>5 DEF flagVars, Mailbox, MailboxOrder, own
  <1> QED
    BY <1>1, <1>4, <1>6, <1>7 DEF Mailbox

-----------------------------------------------------------------------------
(* What a step leaves of the session and of what is known of it.           *)

LEMMA UnderwayIsReal ==
    ASSUME Mailbox, NEW r, Underway(r)
    PROVE  r \in RealRequests /\ r.id \in Nat /\ r.offset \in Nat /\ r.from \in Senders
  <1>1. r \in RealRequests
    BY DEF Mailbox, MessagesOK, Underway, Connections, Requests
  <1> QED
    BY <1>1 DEF RealRequests

LEMMA PagesAreSenders ==
    /\ \A p \in Pages : p \in Nat /\ p # Visitor /\ p \in Senders
    /\ \A p \in Senders : p # Visitor => p \in Pages
  BY UploadAssumption DEF Senders, Visitor

\* The session itself does not change.
LEMMA SessionStays ==
    ASSUME Session, UNCHANGED <<upload, data, published>>, page' \in [Pages -> Jobs],
           \A p \in Pages : page'[p].step = "saved" =>
               \E i \in DOMAIN published : published[i].from = p,
           upload.external => storage' = "ready",
           pc' = "verify" => upload.state = "verifying"
    PROVE  Session'
  <1>1. UploadOK' /\ SessionHeld' /\ SpentOnce'
    BY DEF Session, UploadOK, SessionHeld, SpentOnce
  <1>2. SavedOnce'
    BY DEF Session, SavedOnce, SessionPosition
  <1>3. SessionPosition'
    BY DEF Session, SessionPosition
  <1> QED
    BY <1>1, <1>2, <1>3 DEF Session

\* The session ends without an item.
LEMMA SessionEnds ==
    ASSUME Session, upload' \in Uploads, ~upload'.external,
           upload'.state \in {"canceled", "error"}, data' = <<>>,
           UNCHANGED <<published, page>>, pc' # "verify"
    PROVE  Session'
  <1>1. UploadOK'
    BY EmptySeq DEF Session, UploadOK
  <1>2. SessionHeld' /\ SpentOnce' /\ SessionPosition'
    BY DEF SessionHeld, SpentOnce, SessionPosition
  <1>3. SavedOnce'
    BY DEF Session, SavedOnce
  <1> QED
    BY <1>1, <1>2, <1>3 DEF Session

\* Nobody begins anew, and no request turns up.
LEMMA KnownStays ==
    ASSUME RequestsKnown, PagesKnown,
           upload'.id = upload.id, upload'.token = upload.token, UNCHANGED page,
           \A r : Underway(r)' => Underway(r),
           \A p \in Senders : Begun(p)' => Begun(p),
           \A r : Underway(r) => r.from \in Senders
    PROVE  RequestsKnown' /\ PagesKnown'
  <1>1. RequestsKnown'
    <2> SUFFICES ASSUME NEW r, Underway(r)'
                 PROVE  /\ r.id <= upload'.id
                        /\ r.id # 0 => r.from # Visitor
                        /\ r.id # 0 /\ r.id = upload'.id => r.from = upload'.token
                        /\ r.op \in {"begin", "chunk"} => r.from # Visitor
                        /\ r.op = "begin" => ~Begun(r.from)'
                        /\ r.op = "chunk" =>
                               /\ r.id # 0
                               /\ /\ page'[r.from].step \in Transferring \cup {"paused"}
                                  /\ page'[r.from].id = r.id
                                  => r.offset < page'[r.from].pendingEnd
      BY Zenon DEF RequestsKnown
    <2>1. Underway(r) /\ r \in {client.request, input} /\ r.from \in Senders
      BY DEF Underway
    <2> QED
      BY <2>1 DEF RequestsKnown
  <1>2. PagesKnown'
    BY PagesAreSenders DEF PagesKnown
  <1> QED
    BY <1>1, <1>2

LEMMA FewerUnderway ==
    ASSUME Fewer
    PROVE  \A r : Underway(r)' => Underway(r)
  BY DEF Fewer, Underway

\* Nothing happens to the session: the steps of transport, mailbox and card.
LEMMA NothingNew ==
    ASSUME Mailbox, Session, Agreement, Fewer,
           UNCHANGED <<upload, data, published, page>>,
           upload.external => storage' = "ready",
           pc' = "verify" => upload.state = "verifying"
    PROVE  Session' /\ Agreement'
  <1>1. Session'
    BY SessionStays DEF Session, UploadOK, SavedOnce
  <1>2. \A p \in Senders : Begun(p)' => Begun(p)
    BY FewerUnderway DEF Begun, Fewer, Underway
  <1>3. RequestsKnown' /\ PagesKnown'
    BY <1>2, FewerUnderway, KnownStays, UnderwayIsReal DEF Agreement
  <1>4. PositionsAgree'
    BY DEF Agreement, PositionsAgree
  <1>5. AnswerHolds'
    BY DEF Agreement, AnswerHolds, Fewer
  <1> QED
    BY <1>1, <1>3, <1>4, <1>5 DEF Agreement

\* The session ends: an answer that holds keeps holding, because id, token and
\* position stay.
LEMMA NothingLeft ==
    ASSUME Mailbox, Session, Agreement, NEW state \in {"canceled", "error"}, Ends(state),
           Fewer, UNCHANGED <<published, page>>, pc' # "verify"
    PROVE  /\ upload' \in Uploads /\ Session' /\ Agreement'
           /\ RequestsKnown' /\ PagesKnown' /\ PositionsAgree'
  <1>1. /\ upload' \in Uploads /\ ~upload'.external /\ upload'.state = state
        /\ upload'.id = upload.id /\ upload'.token = upload.token
        /\ upload'.offset = upload.offset /\ data' = <<>>
    BY DEF Ends, Finish, Session, UploadOK, Uploads, UploadStates
  <1>2. Session'
    BY <1>1, SessionEnds
  <1>3. \A p \in Senders : Begun(p)' => Begun(p)
    BY <1>1, FewerUnderway DEF Begun, Fewer, Underway
  <1>4. RequestsKnown' /\ PagesKnown'
    BY <1>1, <1>3, FewerUnderway, KnownStays, UnderwayIsReal DEF Agreement
  <1>5. PositionsAgree'
    BY <1>1 DEF PositionsAgree
  <1>6. AnswerHolds'
    BY <1>1 DEF Agreement, AnswerHolds, Fewer
  <1> QED
    BY <1>1, <1>2, <1>4, <1>5, <1>6 DEF Agreement

LEMMA BeginPassKeeps ==
    ASSUME FlagsOK, ModesOK, Mailbox, Session, Agreement, BeginPass
    PROVE  FlagsOK' /\ ModesOK' /\ Mailbox' /\ Session' /\ Agreement'
  <1>1. /\ pc = "top" /\ UpdateMemory /\ TakeRequest
        /\ UNCHANGED <<idle, published, page>>
        /\ pc' = (IF cancel THEN "drop"
                  ELSE IF serving' = "live" THEN "serve"
                  ELSE IF upload'.state = "verifying" THEN "verify" ELSE "top")
    BY DEF BeginPass, Go
  <1>2. /\ storage' \in {"ready", "recovering", "unavailable"}
        /\ faults' \in 0 .. MaxFaults
    BY <1>1, Faults DEF UpdateMemory, ModesOK
  <1>3. Moves
    BY <1>1, <1>2, TakesMailbox
  <1>4. CASE cancel
    BY <1>1, <1>3, <1>4, NothingLeft DEF BeginPass, Moves
  <1>5. CASE ~cancel /\ Expired
    <2>1. Ends("error")
      BY <1>5 DEF BeginPass
    <2>2. upload'.state = "error"
      BY <2>1 DEF Ends, Finish, Session, UploadOK, Uploads
    <2> QED
      BY <1>1, <1>3, <2>1, <2>2, NothingLeft DEF Moves
  <1>6. CASE ~cancel /\ ~Expired
    <2>1. UNCHANGED <<upload, data>> /\ (upload.external => storage' = "ready")
      BY <1>6 DEF BeginPass, Expired
    <2> QED
      BY <1>1, <1>3, <2>1, NothingNew DEF Moves
  <1> QED
    BY <1>4, <1>5, <1>6

\* Transport and the mailbox's sections leave the session alone.
LEMMA MailboxStepKeeps ==
    ASSUME FlagsOK, ModesOK, Mailbox, Session, Agreement,
           Transport \/ Start \/ Stop \/ Forget \/ Publish
    PROVE  FlagsOK' /\ ModesOK' /\ Mailbox' /\ Session' /\ Agreement'
  <1>1. Moves
    BY TransportMoves, Starts, Stops, ForgetMoves, PublishMoves
  <1>2. /\ UNCHANGED <<upload, data, published, page, storage>>
        /\ pc' \in {pc, "top"}
    BY DEF Transport, Start, Stop, Forget, Publish, Go, uploadVars
  <1>3. (upload.external => storage' = "ready") /\ (pc' = "verify" => upload.state = "verifying")
    BY <1>2 DEF Session, SessionPosition
  <1> QED
    BY <1>1, <1>2, <1>3, NothingNew DEF Moves

-----------------------------------------------------------------------------
(* The requests.                                                           *)

\* The answer to a request says what the session is.
LEMMA AnsweredWell ==
    ASSUME FlagsOK, ModesOK, Mailbox, pc = "serve", pc' = "publish",
           NEW error \in BOOLEAN, Reply(error),
           idle' \in BOOLEAN, storage' \in {"ready", "recovering", "unavailable"},
           faults' \in 0 .. MaxFaults,
           Session', RequestsKnown', PagesKnown', PositionsAgree'
    PROVE  FlagsOK' /\ ModesOK' /\ Mailbox' /\ Session' /\ Agreement'
  <1>1. upload' \in Uploads
    BY DEF Session, UploadOK
  <1>2. /\ FlagsOK' /\ ModesOK' /\ Mailbox'
        /\ response'.id = upload'.id /\ response'.token = upload'.token
        /\ response'.state = upload'.state /\ response'.offset = upload'.offset
    BY <1>1, Replies
  <1>3. AnswerHolds'
    BY <1>2 DEF AnswerHolds, Session, SessionPosition
  <1> QED
    BY <1>2, <1>3 DEF Agreement

\* Requests that change nothing.
LEMMA LeavesUpload ==
    ASSUME FlagsOK, ModesOK, Mailbox, Session, Agreement, UNCHANGED <<published, page>>,
           pc = "serve", pc' = "publish", Report \/ Refuse
    PROVE  FlagsOK' /\ ModesOK' /\ Mailbox' /\ Session' /\ Agreement'
  <1>1. /\ UNCHANGED <<upload, data, storage, faults>>
        /\ idle' \in BOOLEAN
    BY Zenon DEF Report, Refuse, NoCard, Renewed, FlagsOK
  <1>2. PICK error \in BOOLEAN : Reply(error)
    BY Zenon DEF Report, Refuse
  <1>3. UNCHANGED <<client, input>>
    BY <1>2 DEF Reply, Write
  <1>4. Session'
    BY <1>1, SessionStays DEF Session, UploadOK, SavedOnce, SessionPosition
  <1>5. RequestsKnown' /\ PagesKnown' /\ PositionsAgree'
    BY <1>1, <1>3 DEF Agreement, RequestsKnown, PagesKnown, PositionsAgree, Underway, Begun
  <1> QED
    BY <1>1, <1>2, <1>4, <1>5, AnsweredWell DEF ModesOK

\* A card operation that fails keeps the types.
LEMMA CardKeeps ==
    ASSUME ModesOK, CardWorks \/ CardFails \/ NoCard
    PROVE  /\ storage' \in {"ready", "recovering", "unavailable"}
           /\ faults' \in 0 .. MaxFaults
  BY Faults DEF ModesOK, CardWorks, CardFails, NoCard

LEMMA CancelKeeps ==
    ASSUME FlagsOK, ModesOK, Mailbox, Session, Agreement, UNCHANGED <<published, page>>,
           pc = "serve", pc' = "publish", NEW r, Cancel(r)
    PROVE  FlagsOK' /\ ModesOK' /\ Mailbox' /\ Session' /\ Agreement'
  <1>1. CASE ~upload.external
    BY <1>1, LeavesUpload DEF Cancel
  <1>2. CASE upload.external
    <2>1. Ends("canceled") /\ Reply(FALSE) /\ NoCard /\ UNCHANGED idle
      BY <1>2 DEF Cancel
    <2>2. UNCHANGED <<client, input>>
      BY <2>1 DEF Reply, Write
    <2>3. /\ upload' \in Uploads /\ ~upload'.external /\ upload'.state = "canceled"
          /\ upload'.id = upload.id /\ upload'.token = upload.token
          /\ upload'.offset = upload.offset /\ data' = <<>>
      BY <2>1 DEF Ends, Finish, Session, UploadOK, Uploads, UploadStates
    <2>4. Session'
      BY <2>3, SessionEnds
    <2>5. \A p \in Senders : Begun(p)' => Begun(p)
      BY <2>2, <2>3 DEF Begun, Underway
    <2>6. RequestsKnown' /\ PagesKnown' /\ PositionsAgree'
      BY <2>2, <2>3, <2>5, KnownStays, UnderwayIsReal
         DEF Agreement, Underway, PositionsAgree
    <2> QED
      BY <2>1, <2>4, <2>6, CardKeeps, AnsweredWell DEF FlagsOK
  <1> QED
    BY <1>1, <1>2

LEMMA FreshSession ==
    ASSUME NEW id \in Nat, NEW from \in Senders
    PROVE  LET session == [NoUpload EXCEPT !.id = id + 1, !.token = from]
           IN  /\ session \in Uploads /\ session.id = id + 1
               /\ session.token = from /\ session.offset = 0 /\ ~session.external
  <1> DEFINE n == id + 1
             session == [NoUpload EXCEPT !.id = n, !.token = from]
  <1>1. n \in Nat
    OBVIOUS
  <1> HIDE DEF n
  <1>2. /\ NoUpload \in Uploads /\ NoUpload.offset = 0 /\ NoUpload.external = FALSE
    BY UploadAssumption DEF NoUpload, Uploads, UploadStates, Senders, Visitor
  <1>3. /\ session \in Uploads /\ session.id = n
        /\ session.token = from /\ session.offset = 0 /\ ~session.external
    BY <1>1, <1>2 DEF Uploads
  <1> QED
    BY <1>3 DEF n

\* A new session takes a new id; its page has had no other.
LEMMA BeginKeeps ==
    ASSUME FlagsOK, ModesOK, Mailbox, Session, Agreement, UNCHANGED <<published, page>>,
           pc = "serve", pc' = "publish", input.op = "begin", Begin(input)
    PROVE  FlagsOK' /\ ModesOK' /\ Mailbox' /\ Session' /\ Agreement'
  <1>1. CASE Report \/ Refuse
    BY <1>1, LeavesUpload
  <1>2. CASE ~(Report \/ Refuse)
    <2> DEFINE session == [NoUpload EXCEPT !.id = upload.id + 1, !.token = input.from]
    <2>1. /\ ~upload.external /\ data' = <<>> /\ Reply(FALSE)
          /\ \/ /\ CardWorks /\ idle' = FALSE
                /\ upload' = [session EXCEPT !.state = "receiving", !.external = TRUE]
             \/ /\ CardFails /\ UNCHANGED idle
                /\ upload' = [session EXCEPT !.state = "error", !.failed = TRUE]
      BY <1>2, Zenon DEF Begin
    <2>2. UNCHANGED <<client, input>>
      BY <2>1 DEF Reply, Write
    <2>3. /\ Underway(input) /\ input.from \in Senders /\ ~Begun(input.from)
          /\ upload.id \in Nat
      <3>1. Underway(input)
        BY DEF Mailbox, MailboxOrder, Underway
      <3> QED
        BY <3>1, UnderwayIsReal DEF Agreement, RequestsKnown, Underway, Session, UploadOK, Uploads
    <2>4. /\ upload' \in Uploads /\ upload'.id = upload.id + 1
          /\ upload'.token = input.from /\ upload'.offset = 0
          /\ \/ upload'.state = "receiving" /\ upload'.external /\ storage' = "ready"
             \/ upload'.state = "error" /\ ~upload'.external
      <3>1. /\ session \in Uploads /\ session.id = upload.id + 1
            /\ session.token = input.from /\ session.offset = 0 /\ ~session.external
        BY <2>3, FreshSession
      <3> HIDE DEF session
      <3>2. CASE /\ CardWorks
                 /\ upload' = [session EXCEPT !.state = "receiving", !.external = TRUE]
        BY <3>1, <3>2 DEF Uploads, UploadStates, CardWorks
      <3>3. CASE upload' = [session EXCEPT !.state = "error", !.failed = TRUE]
        BY <3>1, <3>3 DEF Uploads, UploadStates
      <3> QED
        BY <2>1, <3>2, <3>3
    <2>5. Session'
      <3>1. UploadOK' /\ SessionHeld'
        BY <2>1, <2>4, EmptySeq DEF Session, UploadOK, SessionHeld
      <3>2. data' = File(upload'.token, upload'.offset)
        BY <2>1, <2>4 DEF File
      <3>3. SpentOnce'
        BY <2>3, <2>4 DEF SpentOnce, Begun
      <3>4. SavedOnce'
        BY <3>2 DEF Session, SavedOnce
      <3>5. SessionPosition'
        BY <2>3, <2>4, <3>2, UploadAssumption DEF SessionPosition
      <3> QED
        BY <3>1, <3>3, <3>4, <3>5 DEF Session
    <2>6. \A p \in Senders : Begun(p)' => Begun(p)
      BY <2>2, <2>4 DEF Begun, Underway
    <2>7. RequestsKnown'
      <3> SUFFICES ASSUME NEW r, Underway(r)
                   PROVE  /\ r.id <= upload'.id
                          /\ r.id # 0 => r.from # Visitor
                          /\ r.id # 0 /\ r.id = upload'.id => r.from = upload'.token
                          /\ r.op \in {"begin", "chunk"} => r.from # Visitor
                          /\ r.op = "begin" => ~Begun(r.from)'
                          /\ r.op = "chunk" =>
                                 /\ r.id # 0
                                 /\ /\ page[r.from].step \in Transferring \cup {"paused"}
                                    /\ page[r.from].id = r.id
                                    => r.offset < page[r.from].pendingEnd
        BY <2>2, Zenon DEF RequestsKnown, Underway
      <3>1. r.id \in Nat /\ r.from \in Senders /\ r.id <= upload.id
        BY UnderwayIsReal DEF Agreement, RequestsKnown, Underway
      <3>2. r.id <= upload'.id /\ r.id # upload'.id
        BY <2>3, <2>4, <3>1
      <3> QED
        BY <2>6, <3>1, <3>2 DEF Agreement, RequestsKnown, Underway
    <2>8. \A p \in Pages : page[p].id \in Nat /\ page[p].id <= upload.id
      BY DEF Agreement, PagesKnown, Session, UploadOK, Jobs
    <2>9. PagesKnown'
      BY <2>3, <2>4, <2>6, <2>8, PagesAreSenders DEF Agreement, PagesKnown
    <2>10. PositionsAgree'
      BY <2>3, <2>4, <2>8 DEF PositionsAgree
    <2>11. idle' \in BOOLEAN
      BY <2>1, Zenon DEF FlagsOK
    <2> QED
      BY <2>1, <2>5, <2>7, <2>9, <2>10, <2>11, CardKeeps, AnsweredWell
  <1> QED
    BY <1>1, <1>2

LEMMA FileGrows ==
    ASSUME NEW p \in Senders, NEW n \in Nat, File(p, n) \in Seq(Pieces)
    PROVE  /\ Append(File(p, n), [from |-> p, chunk |-> n]) = File(p, n + 1)
           /\ File(p, n + 1) \in Seq(Pieces)
  <1> DEFINE s == File(p, n)
             x == [from |-> p, chunk |-> n]
             t == Append(s, x)
  <1>1. /\ Len(s) = n /\ \A i \in 1 .. n : s[i] = [from |-> p, chunk |-> i - 1]
        /\ x \in Pieces
    BY DEF File, Pieces
  <1>2. t \in Seq(Pieces)
    BY <1>1, AppendProperties
  <1>3. Len(t) = n + 1 /\ t[n + 1] = x
    BY <1>1, AppendProperties
  <1>4. \A i \in 1 .. n : t[i] = s[i]
    BY <1>1, AppendProperties
  <1> HIDE DEF s, t
  <1>5. \A i \in 1 .. n + 1 : t[i] = [from |-> p, chunk |-> i - 1]
    BY <1>1, <1>3, <1>4
  <1>6. DOMAIN t = 1 .. n + 1 /\ t = [i \in DOMAIN t |-> t[i]]
    BY <1>2, <1>3
  <1>7. t = [i \in 1 .. n + 1 |-> [from |-> p, chunk |-> i - 1]]
    BY <1>5, <1>6
  <1> QED
    BY <1>2, <1>7 DEF s, t, File

\* The chunk's page is the session's, which had sent it no other.
LEMMA ChunkOwn ==
    ASSUME Mailbox, Session, Agreement, pc = "serve", input.op = "chunk",
           Addressed(input)
    PROVE  /\ Underway(input) /\ input.from = upload.token
           /\ input.from \in Pages /\ Begun(input.from)
           /\ \A r : Underway(r) => r.from \in Senders
           /\ /\ page[input.from].step \in Transferring \cup {"paused"}
              /\ page[input.from].id = upload.id
              => input.offset < page[input.from].pendingEnd
  <1>1. Underway(input)
    BY DEF Mailbox, MailboxOrder, Underway
  <1>2. input.from \in Senders /\ input.from # Visitor /\ input.from = upload.token
    BY <1>1, UnderwayIsReal DEF Agreement, RequestsKnown, Underway, Addressed
  <1>3. Begun(input.from)
    BY <1>1 DEF Begun, Underway
  <1> QED
    BY <1>1, <1>2, <1>3, PagesAreSenders, UnderwayIsReal
       DEF Agreement, RequestsKnown, Underway, Addressed

LEMMA ChunkFails ==
    ASSUME FlagsOK, ModesOK, Mailbox, Session, Agreement, UNCHANGED <<published, page>>,
           pc = "serve", pc' = "publish", input.op = "chunk", Addressed(input),
           Expects(input), CardFails, data' = <<>>, UNCHANGED idle, Reply(FALSE),
           NEW taken \in {0, 1},
           upload' = [Finish("error") EXCEPT !.offset = @ + taken]
    PROVE  FlagsOK' /\ ModesOK' /\ Mailbox' /\ Session' /\ Agreement'
  <1>1. UNCHANGED <<client, input>>
    BY DEF Reply, Write
  <1>2. /\ upload.offset \in Nat /\ upload.offset < Chunks
        /\ upload.offset + taken \in 0 .. Chunks + 1
    BY UploadAssumption
       DEF Session, SessionPosition, Expects, UploadOK, Uploads
  <1>3. /\ Finish("error") \in Uploads /\ Finish("error").offset = upload.offset
        /\ Finish("error").id = upload.id /\ Finish("error").token = upload.token
        /\ Finish("error").state = "error" /\ ~Finish("error").external
    BY DEF Finish, Session, UploadOK, Uploads, UploadStates
  <1>4. /\ upload' \in Uploads /\ ~upload'.external /\ upload'.state = "error"
        /\ upload'.id = upload.id /\ upload'.token = upload.token
    BY <1>2, <1>3 DEF Uploads
  <1>5. Session'
    BY <1>4, SessionEnds
  <1>6. \A p \in Senders : Begun(p)' => Begun(p)
    BY <1>1, <1>4, ChunkOwn DEF Begun, Underway
  <1>7. \A r : Underway(r)' => Underway(r)
    BY <1>1 DEF Underway
  <1>8. RequestsKnown' /\ PagesKnown'
    BY <1>4, <1>6, <1>7, ChunkOwn, KnownStays DEF Agreement
  <1>9. PositionsAgree'
    BY <1>4 DEF PositionsAgree
  <1> QED
    BY <1>5, <1>8, <1>9, CardKeeps, AnsweredWell DEF FlagsOK

LEMMA ChunkTaken ==
    ASSUME FlagsOK, ModesOK, Mailbox, Session, Agreement, UNCHANGED <<published, page>>,
           pc = "serve", pc' = "publish", input.op = "chunk", Addressed(input),
           Expects(input), CardWorks, idle' = FALSE, Reply(FALSE),
           data' = Append(data, [from |-> input.from, chunk |-> input.offset]),
           upload' = [upload EXCEPT !.offset = @ + 1,
                                    !.state = IF Complete(upload.offset + 1)
                                              THEN "verifying" ELSE @]
    PROVE  FlagsOK' /\ ModesOK' /\ Mailbox' /\ Session' /\ Agreement'
  <1>1. UNCHANGED <<client, input>>
    BY DEF Reply, Write
  <1>2. /\ upload \in Uploads /\ upload.offset \in Nat /\ upload.offset < Chunks
        /\ upload.token \in Senders
        /\ upload.state = "receiving" /\ upload.external /\ upload.id # 0
        /\ data = File(upload.token, upload.offset) /\ data \in Seq(Pieces)
        /\ input.offset = upload.offset /\ input.from = upload.token
    BY UploadAssumption, ChunkOwn
       DEF Session, SessionHeld, SessionPosition, Expects, UploadOK, Uploads
  <1> DEFINE state == IF upload.offset + 1 = Chunks THEN "verifying" ELSE "receiving"
  <1>3. /\ upload' = [upload EXCEPT !.offset = upload.offset + 1, !.state = state]
        /\ state \in UploadStates /\ upload.offset + 1 \in 0 .. Chunks + 1
    BY <1>2, UploadAssumption DEF Complete, Uploads, UploadStates
  <1>4. /\ state \in {"receiving", "verifying"}
        /\ state = "verifying" <=> upload.offset + 1 = Chunks
    OBVIOUS
  <1> HIDE DEF state
  <1>5. /\ upload' \in Uploads /\ upload'.external /\ upload'.state = state
        /\ upload'.id = upload.id /\ upload'.token = upload.token
        /\ upload'.offset = upload.offset + 1
    BY <1>2, <1>3 DEF Uploads
  <1>6. data' = File(upload'.token, upload'.offset) /\ data' \in Seq(Pieces)
    BY <1>2, <1>5, FileGrows
  <1>7. Session'
    <2>1. UploadOK' /\ SessionHeld' /\ SpentOnce'
      BY <1>2, <1>4, <1>5, <1>6 DEF Session, UploadOK, SessionHeld, SpentOnce
    <2>2. SavedOnce'
      BY <1>6 DEF Session, SavedOnce
    <2>3. SessionPosition'
      <3>1. storage' = "ready"
        BY DEF CardWorks
      <3>2. upload'.state = "receiving" => upload'.offset < Chunks
        BY <1>2, <1>4, <1>5, UploadAssumption
      <3>3. upload'.state \in {"verifying", "saved"} => upload'.offset = Chunks
        BY <1>4, <1>5
      <3> QED
        BY <1>2, <1>4, <1>5, <1>6, <3>1, <3>2, <3>3 DEF SessionPosition
    <2> QED
      BY <2>1, <2>2, <2>3 DEF Session
  <1>8. \A p \in Senders : Begun(p)' => Begun(p)
    BY <1>1, <1>2, <1>5, ChunkOwn DEF Begun, Underway
  <1>9. \A r : Underway(r)' => Underway(r)
    BY <1>1 DEF Underway
  <1>10. RequestsKnown' /\ PagesKnown'
    BY <1>5, <1>8, <1>9, ChunkOwn, KnownStays DEF Agreement
  <1>11. PositionsAgree'
    <2> SUFFICES ASSUME NEW p \in Pages, upload'.token = p, upload'.id = page[p].id,
                        page[p].step \in Transferring \cup {"paused"}
                 PROVE  upload'.offset \in page[p].confirmed .. page[p].pendingEnd
      BY DEF PositionsAgree
    <2>1. upload.offset \in page[p].confirmed .. page[p].pendingEnd
      BY <1>2, <1>5 DEF Agreement, PositionsAgree
    <2>2. upload.offset < page[p].pendingEnd
      BY <1>2, <1>5, ChunkOwn
    <2>3. page[p].confirmed \in Nat /\ page[p].pendingEnd \in Nat
      BY DEF Session, UploadOK, Jobs
    <2> QED
      BY <1>2, <1>5, <2>1, <2>2, <2>3
  <1> QED
    BY <1>7, <1>10, <1>11, CardKeeps, AnsweredWell

LEMMA ChunkKeeps ==
    ASSUME FlagsOK, ModesOK, Mailbox, Session, Agreement, UNCHANGED <<published, page>>,
           pc = "serve", pc' = "publish", input.op = "chunk", Addressed(input),
           Chunk(input)
    PROVE  FlagsOK' /\ ModesOK' /\ Mailbox' /\ Session' /\ Agreement'
  <1>1. CASE Refuse
    BY <1>1, LeavesUpload
  <1>2. CASE ~Refuse
    <2> DEFINE Taken ==
                   /\ CardWorks /\ idle' = FALSE
                   /\ data' = Append(data, [from |-> input.from, chunk |-> input.offset])
                   /\ upload' = [upload EXCEPT
                                     !.offset = @ + 1,
                                     !.state = IF Complete(upload.offset + 1)
                                               THEN "verifying" ELSE @]
               Failed ==
                   /\ CardFails /\ data' = <<>> /\ UNCHANGED idle
                   /\ \E taken \in {0, 1} :
                          upload' = [Finish("error") EXCEPT !.offset = @ + taken]
    <2>1. Expects(input) /\ Reply(FALSE) /\ (Taken \/ Failed)
      BY <1>2, Zenon DEF Chunk
    <2>2. CASE Taken
      BY <2>1, <2>2, ChunkTaken
    <2>3. CASE Failed
      <3>1. PICK taken \in {0, 1} :
                upload' = [Finish("error") EXCEPT !.offset = @ + taken]
        BY <2>3
      <3> QED
        BY <2>1, <2>3, <3>1, ChunkFails
    <2> QED
      BY <2>1, <2>2, <2>3
  <1> QED
    BY <1>1, <1>2

LEMMA ServeRequestKeeps ==
    ASSUME FlagsOK, ModesOK, Mailbox, Session, Agreement, ServeRequest
    PROVE  FlagsOK' /\ ModesOK' /\ Mailbox' /\ Session' /\ Agreement'
  <1>1. pc = "serve" /\ pc' = "publish" /\ Serve(input) /\ UNCHANGED <<published, page>>
    BY DEF ServeRequest, Go
  <1>2. CASE Report \/ Refuse
    BY <1>1, <1>2, LeavesUpload
  <1>3. CASE input.op = "begin" /\ Begin(input)
    BY <1>1, <1>3, BeginKeeps
  <1>4. CASE input.op = "chunk" /\ Addressed(input) /\ Chunk(input)
    BY <1>1, <1>4, ChunkKeeps
  <1>5. CASE input.op = "cancel" /\ Cancel(input)
    BY <1>1, <1>5, CancelKeeps
  <1> QED
    BY <1>1, <1>2, <1>3, <1>4, <1>5, Zenon DEF Serve

LEMMA OneMore ==
    ASSUME NEW S, NEW s \in Seq(S), NEW x \in S, NEW t, t = Append(s, x)
    PROVE  /\ t \in Seq(S)
           /\ \A i \in DOMAIN s : i \in DOMAIN t /\ t[i] = s[i]
           /\ \E i \in DOMAIN t : t[i] = x
           /\ \A i \in DOMAIN t : (i \in DOMAIN s /\ t[i] = s[i]) \/ (i = Len(s) + 1 /\ t[i] = x)
           /\ Len(s) + 1 \notin DOMAIN s
  <1>1. t \in Seq(S) /\ Len(t) = Len(s) + 1
    BY AppendProperties
  <1>2. \A i \in 1 .. Len(s) : t[i] = s[i]
    BY AppendProperties
  <1>3. t[Len(s) + 1] = x
    BY AppendProperties
  <1>4. DOMAIN s = 1 .. Len(s) /\ DOMAIN t = 1 .. Len(s) + 1 /\ Len(s) \in Nat
    BY <1>1
  <1>5. Len(s) + 1 \in DOMAIN t /\ Len(s) + 1 \notin DOMAIN s
    BY <1>4
  <1>6. \A i \in DOMAIN t : i \in DOMAIN s \/ i = Len(s) + 1
    BY <1>4
  <1>7. \A i \in DOMAIN s : i \in DOMAIN t
    BY <1>4
  <1> QED
    BY <1>1, <1>2, <1>3, <1>4, <1>5, <1>6, <1>7

\* The item is the whole file of a page that had no other session.
LEMMA VerifyKeeps ==
    ASSUME FlagsOK, ModesOK, Mailbox, Session, Agreement, Verify
    PROVE  FlagsOK' /\ ModesOK' /\ Mailbox' /\ Session' /\ Agreement'
  <1>1. /\ pc = "verify" /\ pc' = "top" /\ UNCHANGED <<mailboxVars, idle, page>>
        /\ storage' \in {"ready", "recovering", "unavailable"}
        /\ faults' \in 0 .. MaxFaults
    BY CardKeeps DEF Verify, Go
  <1>2. FlagsOK' /\ ModesOK' /\ Fewer /\ Mailbox'
    <2>1. UNCHANGED <<client, reserved, pending, responseReady, cancel, abandoned,
                      input, response, serving, enabled>>
      BY <1>1 DEF mailboxVars, flagVars
    <2>2. MailboxOrder'
      BY <1>1, <2>1 DEF Mailbox, MailboxOrder
    <2>3. /\ MessagesOK' /\ InputUntouched' /\ RequestServed' /\ ResponseHeld'
          /\ ConnectionOrder'
      BY <2>1 DEF Mailbox, MessagesOK, InputUntouched, RequestServed, ResponseHeld,
         ConnectionOrder
    <2> QED
      BY <1>1, <2>1, <2>2, <2>3 DEF Mailbox, FlagsOK, ModesOK, Fewer
  <1>3. CASE Ends("error") /\ UNCHANGED published
    BY <1>1, <1>2, <1>3, NothingLeft
  <1>4. CASE /\ Ends("saved")
             /\ published' = Append(published, [from |-> upload.token, data |-> data])
    <2> DEFINE item == [from |-> upload.token, data |-> data]
    <2>1. /\ upload \in Uploads /\ upload.state = "verifying" /\ upload.external
          /\ upload.offset = Chunks /\ data = File(upload.token, Chunks)
          /\ item \in Items /\ item.from = upload.token /\ item.data = data
          /\ published \in Seq(Items)
      <3>1. upload \in Uploads /\ upload.state = "verifying" /\ upload.external
        BY <1>1 DEF Session, UploadOK, SessionHeld, SessionPosition
      <3>2. upload.offset = Chunks /\ data = File(upload.token, Chunks)
        BY <3>1 DEF Session, SessionPosition
      <3> QED
        BY <3>1, <3>2 DEF Session, UploadOK, Uploads, Items
    <2>2. /\ upload' \in Uploads /\ ~upload'.external /\ upload'.state = "saved"
          /\ upload'.id = upload.id /\ upload'.token = upload.token
          /\ upload'.offset = upload.offset /\ data' = <<>>
      BY <1>4, <2>1 DEF Ends, Finish, Uploads, UploadStates
    <2> HIDE DEF item
    <2>3. /\ published' \in Seq(Items)
          /\ \A i \in DOMAIN published :
                 i \in DOMAIN published' /\ published'[i] = published[i]
          /\ \E i \in DOMAIN published' : published'[i] = item
          /\ \A i \in DOMAIN published' :
                 \/ i \in DOMAIN published /\ published'[i] = published[i]
                 \/ i = Len(published) + 1 /\ published'[i] = item
      BY <1>4, <2>1, OneMore DEF item
    <2>4. \A i \in DOMAIN published : published[i].from # upload.token
      BY <2>1 DEF Session, SpentOnce
    <2>5. Session'
      <3>1. UploadOK'
        BY <1>1, <2>2, <2>3, EmptySeq DEF Session, UploadOK
      <3>2. SessionHeld' /\ SpentOnce'
        BY <2>2 DEF SessionHeld, SpentOnce
      <3>3. SavedOnce'
        <4>1. \A i \in DOMAIN published' :
                  published'[i].data = File(published'[i].from, Chunks)
          BY <2>1, <2>3 DEF Session, SavedOnce
        <4>2. \A i, j \in DOMAIN published' :
                  published'[i].from = published'[j].from => i = j
          BY <2>1, <2>3, <2>4 DEF Session, SavedOnce
        <4>3. \A p \in Pages : page'[p].step = "saved" =>
                  \E i \in DOMAIN published' : published'[i].from = p
          BY <1>1, <2>3 DEF Session, SavedOnce
        <4> QED
          BY <2>2, <4>1, <4>2, <4>3 DEF SavedOnce
      <3>4. SessionPosition'
        BY <1>1, <2>1, <2>2, <2>3 DEF SessionPosition
      <3> QED
        BY <3>1, <3>2, <3>3, <3>4 DEF Session
    <2>6. \A p \in Senders : Begun(p)' => Begun(p)
      <3> SUFFICES ASSUME NEW p \in Senders, Begun(p)' PROVE Begun(p)
        OBVIOUS
      <3>1. CASE p = upload.token
        <4>1. upload.offset > 0
          BY <2>1, UploadAssumption
        <4> QED
          BY <3>1, <4>1 DEF Begun
      <3>2. CASE p # upload.token
        BY <1>1, <1>2, <2>1, <2>2, <2>3, <3>2 DEF Begun, Fewer, Underway
      <3> QED
        BY <3>1, <3>2
    <2>7. RequestsKnown' /\ PagesKnown'
      BY <1>1, <1>2, <2>2, <2>6, FewerUnderway, KnownStays, UnderwayIsReal DEF Agreement
    <2>8. PositionsAgree'
      BY <2>2 DEF PositionsAgree
    <2>9. AnswerHolds'
      BY <1>2, <2>2, <2>3 DEF Agreement, AnswerHolds, Fewer
    <2> QED
      BY <1>2, <2>5, <2>7, <2>8, <2>9 DEF Agreement
  <1> QED
    BY <1>3, <1>4, Zenon DEF Verify

-----------------------------------------------------------------------------
(* The pages.                                                              *)

\* What a page may turn to: it knows no more of the session than is so.
JobFits(p, job) ==
    /\ job \in Jobs
    /\ job.open => job.step \in Sending
    /\ job.step = "saved" => \E i \in DOMAIN published : published[i].from = p
    /\ /\ job.step \in Transferring \cup {"paused"}
       /\ upload.external /\ upload.token = p /\ upload.id = job.id
       => upload.offset \in job.confirmed .. job.pendingEnd
    /\ job.id <= upload.id
    /\ job.id # 0 /\ job.id = upload.id => upload.token = p
    /\ job.step \in {"chunk", "verify", "resume"} => job.id # 0
    /\ job.step = "chunk" => job.pendingEnd = job.at + 1
    /\ job.id = 0 => job.confirmed = 0
    /\ Begun(p) \/ job.id # 0 => /\ job.step \notin {"idle", "begin"}
                                 /\ job.step = "paused" => job.id # 0
    /\ \A r : Underway(r) /\ r.from = p =>
           /\ r.op = "begin" => job.id = 0
           /\ /\ r.op = "chunk" /\ job.id = r.id
              /\ job.step \in Transferring \cup {"paused"}
              => r.offset < job.pendingEnd

LEMMA JobChanges ==
    ASSUME Mailbox, Session, Agreement, NEW p \in Pages, NEW job, JobFits(p, job),
           Change(p, job), Fewer, UNCHANGED <<upload, data, published, storage, pc>>
    PROVE  Session' /\ Agreement'
  <1>1. /\ page \in [Pages -> Jobs] /\ job \in Jobs
        /\ page' = [page EXCEPT ![p] = job]
    BY DEF Session, UploadOK, Change, JobFits
  <1>2. /\ page' \in [Pages -> Jobs] /\ page'[p] = job
        /\ \A q \in Pages : q # p => page'[q] = page[q]
    BY <1>1
  <1>3. \A q \in Pages : page'[q].step = "saved" =>
            \E i \in DOMAIN published : published[i].from = q
    BY <1>2 DEF JobFits, Session, SavedOnce
  <1>4. Session'
    BY <1>2, <1>3, SessionStays DEF Session, SessionPosition
  <1>5. /\ \A r : Underway(r)' => Underway(r)
        /\ \A r : Underway(r) => r.from \in Senders
    BY FewerUnderway, UnderwayIsReal
  <1>6. /\ \A q \in Pages : q # p /\ Begun(q)' => Begun(q)
        /\ Begun(p)' => Begun(p) \/ job.id # 0
    BY <1>2, <1>5 DEF Begun, Fewer, Underway
  <1>7. RequestsKnown'
    <2> SUFFICES ASSUME NEW r, Underway(r)'
                 PROVE  /\ r.id <= upload.id
                        /\ r.id # 0 => r.from # Visitor
                        /\ r.id # 0 /\ r.id = upload.id => r.from = upload.token
                        /\ r.op \in {"begin", "chunk"} => r.from # Visitor
                        /\ r.op = "begin" => ~Begun(r.from)'
                        /\ r.op = "chunk" =>
                               /\ r.id # 0
                               /\ /\ page'[r.from].step \in Transferring \cup {"paused"}
                                  /\ page'[r.from].id = r.id
                                  => r.offset < page'[r.from].pendingEnd
      BY Zenon DEF RequestsKnown
    <2>1. /\ Underway(r) /\ r \in {client.request, input}
          /\ r.op \in {"begin", "chunk"} => r.from \in Pages
      BY <1>5, PagesAreSenders DEF Agreement, RequestsKnown, Underway
    <2>2. r.op = "begin" => ~Begun(r.from)'
      BY <1>6, <2>1 DEF Agreement, RequestsKnown, JobFits
    <2>3. /\ r.op = "chunk"
          /\ page'[r.from].step \in Transferring \cup {"paused"}
          /\ page'[r.from].id = r.id
          => r.offset < page'[r.from].pendingEnd
      BY <1>2, <2>1 DEF Agreement, RequestsKnown, JobFits
    <2> QED
      BY <2>1, <2>2, <2>3 DEF Agreement, RequestsKnown
  <1>8. PagesKnown'
    <2> SUFFICES ASSUME NEW q \in Pages
                 PROVE  /\ page'[q].open => page'[q].step \in Sending
                        /\ page'[q].id <= upload.id
                        /\ page'[q].id # 0 /\ page'[q].id = upload.id => upload.token = q
                        /\ page'[q].step \in {"chunk", "verify", "resume"} => page'[q].id # 0
                        /\ page'[q].step = "chunk" => page'[q].pendingEnd = page'[q].at + 1
                        /\ page'[q].id = 0 => page'[q].confirmed = 0
                        /\ Begun(q)' => /\ page'[q].step \notin {"idle", "begin"}
                                        /\ page'[q].step = "paused" => page'[q].id # 0
      BY DEF PagesKnown
    <2>1. CASE q = p
      BY <1>2, <1>6, <2>1 DEF JobFits
    <2>2. CASE q # p
      BY <1>2, <1>6, <2>2 DEF Agreement, PagesKnown
    <2> QED
      BY <2>1, <2>2
  <1>9. PositionsAgree'
    BY <1>2 DEF Agreement, PositionsAgree, JobFits
  <1>10. AnswerHolds'
    BY DEF Agreement, AnswerHolds, Fewer
  <1> QED
    BY <1>4, <1>7, <1>8, <1>9, <1>10 DEF Agreement

\* What a page or a visitor may ask.
RequestFits(r) ==
    /\ r \in RealRequests
    /\ r.id <= upload.id
    /\ r.id # 0 => r.from # Visitor
    /\ r.id # 0 /\ r.id = upload.id => r.from = upload.token
    /\ r.op \in {"begin", "chunk"} => r.from \in Pages
    /\ r.op = "begin" => ~Begun(r.from)
    /\ r.op = "chunk" => /\ r.id # 0 /\ page[r.from].id # 0
                         /\ page[r.from].id = r.id => r.offset < page[r.from].pendingEnd

LEMMA OneMoreRequest ==
    ASSUME Mailbox, Session, Agreement, NEW q, RequestFits(q), client'.request = q,
           UNCHANGED <<input, response, upload, data, published, storage, pc>>,
           page' \in [Pages -> Jobs],
           \A p \in Pages :
               /\ page'[p].step = page[p].step /\ page'[p].id = page[p].id
               /\ page'[p].at = page[p].at /\ page'[p].confirmed = page[p].confirmed
               /\ page'[p].pendingEnd = page[p].pendingEnd
               /\ page'[p].open => page[p].step \in Sending
    PROVE  Session' /\ Agreement'
  <1>1. Session'
    BY SessionStays DEF Session, SessionPosition, SavedOnce
  <1>2. \A r : Underway(r)' => Underway(r) \/ r = q
    BY DEF Underway
  <1>3. \A p \in Pages : Begun(p)' => Begun(p)
    BY <1>2 DEF Begun, RequestFits, Underway
  <1>4. RequestsKnown'
    <2> SUFFICES ASSUME NEW r, Underway(r)'
                 PROVE  /\ r.id <= upload.id
                        /\ r.id # 0 => r.from # Visitor
                        /\ r.id # 0 /\ r.id = upload.id => r.from = upload.token
                        /\ r.op \in {"begin", "chunk"} => r.from # Visitor
                        /\ r.op = "begin" => ~Begun(r.from)'
                        /\ r.op = "chunk" =>
                               /\ r.id # 0
                               /\ /\ page'[r.from].step \in Transferring \cup {"paused"}
                                  /\ page'[r.from].id = r.id
                                  => r.offset < page'[r.from].pendingEnd
      BY Zenon DEF RequestsKnown
    <2>1. CASE r = q
      BY <1>3, <2>1, PagesAreSenders DEF RequestFits
    <2>2. CASE Underway(r)
      <3>1. /\ r \in {client.request, input}
            /\ r.op \in {"begin", "chunk"} => r.from \in Pages
        BY <2>2, UnderwayIsReal, PagesAreSenders DEF Agreement, RequestsKnown, Underway
      <3> QED
        BY <1>3, <2>2, <3>1 DEF Agreement, RequestsKnown
    <2> QED
      BY <1>2, <2>1, <2>2
  <1>5. PagesKnown' /\ PositionsAgree'
    BY <1>3 DEF Agreement, PagesKnown, PositionsAgree
  <1>6. AnswerHolds'
    BY DEF Agreement, AnswerHolds
  <1> QED
    BY <1>1, <1>4, <1>5, <1>6 DEF Agreement

LEMMA PageFacts ==
    ASSUME Mailbox, Session, Agreement, NEW p \in Pages
    PROVE  /\ page[p] \in Jobs /\ page[p].id \in Nat /\ upload.id \in Nat
           /\ page[p].id <= upload.id /\ JobFits(p, page[p])
           /\ p \in Senders /\ p # Visitor
  <1>1. page[p] \in Jobs /\ page[p].id \in Nat /\ upload.id \in Nat
    BY DEF Session, UploadOK, Uploads, Jobs
  <1>2. \A r : Underway(r) /\ r.from = p =>
            /\ r.op = "begin" => page[p].id = 0
            /\ /\ r.op = "chunk" /\ page[p].id = r.id
               /\ page[p].step \in Transferring \cup {"paused"}
               => r.offset < page[p].pendingEnd
    BY DEF Agreement, RequestsKnown, Underway, Begun
  <1> QED
    BY <1>1, <1>2, PagesAreSenders
       DEF JobFits, Session, SavedOnce, Agreement, PagesKnown, PositionsAgree, Begun

\* What it may turn to does not depend on how it repeats a request.
LEMMA SameFits ==
    ASSUME NEW p \in Pages, NEW old, JobFits(p, old), NEW job \in Jobs,
           job.step = old.step, job.id = old.id, job.at = old.at,
           job.confirmed = old.confirmed, job.pendingEnd = old.pendingEnd,
           job.open => old.step \in Sending
    PROVE  JobFits(p, job)
  BY DEF JobFits

LEMMA NewJobFits ==
    /\ NewJob \in Jobs /\ ~NewJob.open /\ NewJob.id = 0 /\ NewJob.confirmed = 0
    /\ \A step \in {"saved", "failed", "resolve"} :
           /\ Over(step) \in Jobs /\ Over(step).step = step /\ ~Over(step).open
           /\ Over(step).id = 0 /\ Over(step).confirmed = 0
  <1>1. NewJob \in Jobs /\ NewJob.open = FALSE /\ NewJob.id = 0 /\ NewJob.confirmed = 0
    BY DEF NewJob, Jobs
  <1> QED
    BY <1>1 DEF Over, Jobs, Sending

LEMMA OverFits ==
    ASSUME Session, NEW p \in Pages
    PROVE  /\ JobFits(p, Over("failed"))
           /\ (\E i \in DOMAIN published : published[i].from = p) => JobFits(p, Over("saved"))
  BY NewJobFits DEF JobFits, Transferring, Session, UploadOK, Uploads

LEMMA CancelingFits ==
    ASSUME Session, NEW p \in Pages, NEW job, job.id \in Nat, job.id <= upload.id,
           job.id # 0 /\ job.id = upload.id => upload.token = p,
           \A r : Underway(r) /\ r.from = p /\ r.op = "begin" => job.id = 0
    PROVE  JobFits(p, Canceling(job)) /\ ~Canceling(job).open
  <1>1. /\ Canceling(job) \in Jobs /\ Canceling(job).step = "resolve"
        /\ ~Canceling(job).open /\ Canceling(job).id = job.id
        /\ Canceling(job).confirmed = 0
    BY NewJobFits DEF Canceling, Jobs
  <1> QED
    BY <1>1 DEF JobFits, Transferring, Sending

\* A job that is asked of again, without its request.
LEMMA AskFields ==
    ASSUME NEW job \in Jobs, NEW step \in Sending \cup {"paused"}
    PROVE  /\ Ask(job, step) \in Jobs /\ Ask(job, step).step = step
           /\ Ask(job, step).id = job.id /\ Ask(job, step).at = job.at
           /\ Ask(job, step).confirmed = job.confirmed
           /\ Ask(job, step).pendingEnd = job.pendingEnd
           /\ Ask(job, step).open = job.open
  BY DEF Ask, Jobs

LEMMA RetryFits ==
    ASSUME Mailbox, Session, Agreement, NEW p \in Pages, page[p].step \in Sending,
           NEW job \in Retry([page[p] EXCEPT !.open = FALSE])
    PROVE  JobFits(p, job)
  <1> DEFINE closed == [page[p] EXCEPT !.open = FALSE]
  <1>1. /\ closed \in Jobs /\ closed.step = page[p].step /\ closed.id = page[p].id
        /\ closed.at = page[p].at /\ closed.confirmed = page[p].confirmed
        /\ closed.pendingEnd = page[p].pendingEnd /\ ~closed.open
    BY PageFacts DEF Jobs
  <1> HIDE DEF closed
  <1>2. JobFits(p, closed)
    BY <1>1, PageFacts, SameFits
  <1>3. CASE job = Over("failed")
    BY <1>3, OverFits
  <1>4. CASE job = [closed EXCEPT !.reconcile = (closed.step = "chunk")]
    <2> DEFINE b == closed.step = "chunk"
    <2>1. b \in BOOLEAN
      OBVIOUS
    <2> HIDE DEF b
    <2>2. /\ [closed EXCEPT !.reconcile = b] \in Jobs
          /\ [closed EXCEPT !.reconcile = b].step = closed.step
          /\ [closed EXCEPT !.reconcile = b].id = closed.id
          /\ [closed EXCEPT !.reconcile = b].at = closed.at
          /\ [closed EXCEPT !.reconcile = b].confirmed = closed.confirmed
          /\ [closed EXCEPT !.reconcile = b].pendingEnd = closed.pendingEnd
          /\ ~[closed EXCEPT !.reconcile = b].open
      BY <1>1, <2>1 DEF Jobs
    <2>3. job = [closed EXCEPT !.reconcile = b]
      BY <1>4 DEF b
    <2> QED
      BY <1>2, <2>2, <2>3, SameFits
  <1>5. CASE job = Ask(closed, "paused") /\ closed.step \notin {"resolve", "cancel"}
    <2>1. closed.step \in Transferring
      BY <1>1, <1>5 DEF Sending, Transferring
    <2>2. Begun(p) => closed.id # 0
      BY <1>1, <2>1 DEF Agreement, PagesKnown, Transferring
    <2> QED
      BY <1>1, <1>2, <1>5, <2>1, <2>2, AskFields DEF JobFits, Transferring
  <1>6. CASE job = Canceling(closed)
    <2>1. \A r : Underway(r) /\ r.from = p /\ r.op = "begin" => closed.id = 0
      BY <1>2 DEF JobFits
    <2> QED
      BY <1>1, <1>2, <1>6, <2>1, PageFacts, CancelingFits DEF JobFits
  <1> QED
    BY <1>3, <1>4, <1>5, <1>6, Zenon DEF Retry, closed

LEMMA FetchFailedFits ==
    ASSUME ModesOK, Mailbox, Session, Agreement, NEW p \in Pages, page[p].step \in Sending,
           FetchFailed(p)
    PROVE  /\ faults' \in 0 .. MaxFaults
           /\ \E job : JobFits(p, job) /\ Change(p, job)
  <1>1. faults' \in 0 .. MaxFaults
    BY Faults DEF FetchFailed, ModesOK
  <1>2. CASE \E job \in Retry([page[p] EXCEPT !.open = FALSE]) : Change(p, job)
    BY <1>1, <1>2, RetryFits
  <1>3. CASE Change(p, Over("failed"))
    BY <1>1, <1>3, OverFits
  <1> QED
    BY <1>2, <1>3, Zenon DEF FetchFailed

\* What a page asks is about what it knows.
LEMMA AskedFits ==
    ASSUME Mailbox, Session, Agreement, NEW p \in Pages, page[p].step \in Sending
    PROVE  RequestFits(RequestOf(p))
  <1>1. /\ page[p] \in Jobs /\ page[p].id \in Nat /\ page[p].at \in Nat
        /\ page[p].id <= upload.id /\ 0 <= upload.id
        /\ p \in Senders /\ p # Visitor
        /\ page[p].id # 0 /\ page[p].id = upload.id => upload.token = p
    BY PageFacts DEF Jobs, JobFits
  <1>2. \A op \in {"status", "cancel"} : RequestFits(Request("media", p, op, page[p].id, 0))
    BY <1>1 DEF RequestFits, Request, RealRequests
  <1>3. RequestFits(Request("media", p, "resume", 0, 0))
    BY <1>1 DEF RequestFits, Request, RealRequests
  <1>4. page[p].step = "begin" => RequestFits(Request("media", p, "begin", 0, 0))
    <2>1. page[p].step = "begin" => ~Begun(p)
      BY DEF Agreement, PagesKnown
    <2> QED
      BY <1>1, <2>1 DEF RequestFits, Request, RealRequests
  <1>5. page[p].step = "chunk" =>
            RequestFits(Request("media", p, "chunk", page[p].id, page[p].at))
    <2>1. page[p].step = "chunk" => page[p].id # 0 /\ page[p].at < page[p].pendingEnd
      BY <1>1 DEF Agreement, PagesKnown
    <2> QED
      BY <1>1, <2>1 DEF RequestFits, Request, RealRequests
  <1> QED
    BY <1>2, <1>3, <1>4, <1>5, Zenon DEF RequestOf

\* An answer that arrives is about the session, and nothing else is under way.
AnswerFacts ==
    /\ response \in Answers
    /\ response.id = upload.id /\ response.token = upload.token
    /\ response.offset = upload.offset /\ response.offset \in Nat
    /\ response.id \in Nat
    /\ response.state = "saved" =>
           \E i \in DOMAIN published : published[i].from = upload.token
    /\ \A r : ~Underway(r)

LEMMA AnswerArrives ==
    ASSUME Mailbox, Session, Agreement, ModesOK, client.stage = "responding", client.body = "mailbox"
    PROVE  AnswerFacts
  <1>1. response.own /\ serving = "none"
    BY DEF Mailbox, ResponseHeld
  <1>2. response # NoResponse
    BY <1>1, NoneOfThem
  <1>3. response \in Answers /\ response.offset \in Nat /\ response.id \in Nat
    <2>1. response \in Answers
      BY <1>2 DEF Mailbox, MessagesOK
    <2> QED
      BY <2>1, UploadAssumption DEF Answers
  <1>4. client.request = NoRequest
    BY DEF Mailbox, ConnectionOrder
  <1>5. input = NoRequest
    BY <1>1 DEF Mailbox, MailboxOrder
  <1> QED
    BY <1>2, <1>3, <1>4, <1>5 DEF AnswerFacts, Agreement, AnswerHolds, Underway

\* A page that learned the position goes on from it.
LEMMA ProceedFits ==
    ASSUME Session, AnswerFacts, NEW p \in Pages, NEW job \in Jobs, ~job.open,
           job.id # 0, job.id = upload.id, upload.token = p,
           upload.external => upload.offset \in job.confirmed .. job.pendingEnd
    PROVE  JobFits(p, Proceed(job, response, upload.offset))
  <1>1. /\ upload.id \in Nat /\ upload.offset \in Nat
        /\ job.confirmed \in Nat /\ job.pendingEnd \in Nat
        /\ \A r : ~Underway(r)
    BY DEF Session, UploadOK, Uploads, Jobs, AnswerFacts
  <1>2. JobFits(p, Canceling(job))
    BY <1>1, CancelingFits
  <1>3. JobFits(p, Ask(job, "verify"))
    BY <1>1, AskFields DEF JobFits, Sending, Transferring
  <1>4. response.state = "saved" => JobFits(p, Over("saved"))
    BY OverFits DEF AnswerFacts
  <1>5. JobFits(p, Outstanding(job, upload.offset))
    <2> DEFINE asked == Ask(job, "chunk")
               at == upload.offset
               end == at + 1
               next == [asked EXCEPT !.at = at, !.pendingEnd = end]
    <2>1. /\ asked \in Jobs /\ asked.step = "chunk" /\ asked.id = job.id
          /\ asked.confirmed = job.confirmed /\ asked.open = job.open
      BY AskFields DEF Sending
    <2>2. at \in Nat /\ end \in Nat
      BY <1>1
    <2> HIDE DEF asked, end
    <2>3. /\ next \in Jobs /\ next.step = "chunk" /\ next.id = job.id
          /\ next.confirmed = job.confirmed /\ ~next.open
          /\ next.at = at /\ next.pendingEnd = end
      BY <2>1, <2>2 DEF Jobs
    <2> HIDE DEF next
    <2>4. end = upload.offset + 1
      BY DEF end
    <2>5. JobFits(p, next)
      BY <1>1, <2>3, <2>4 DEF JobFits
    <2> QED
      BY <2>5 DEF next, end, asked, Outstanding
  <1> QED
    BY <1>2, <1>3, <1>4, <1>5, Zenon DEF Proceed

LEMMA WithId ==
    ASSUME NEW job \in Jobs, NEW id \in Nat
    PROVE  /\ [job EXCEPT !.id = id] \in Jobs
           /\ [job EXCEPT !.id = id].id = id
           /\ [job EXCEPT !.id = id].step = job.step
           /\ [job EXCEPT !.id = id].at = job.at
           /\ [job EXCEPT !.id = id].confirmed = job.confirmed
           /\ [job EXCEPT !.id = id].pendingEnd = job.pendingEnd
           /\ [job EXCEPT !.id = id].open = job.open
  BY DEF Jobs

LEMMA StartedFits ==
    ASSUME Session, AnswerFacts, NEW p \in Pages, NEW job, JobFits(p, job), ~job.open,
           job.step = "begin", upload.id # 0, upload.token = p
    PROVE  JobFits(p, Started(job, response))
  <1> DEFINE known == [job EXCEPT !.id = response.id]
  <1>1. /\ job \in Jobs /\ job.id = 0 /\ job.confirmed = 0 /\ job.pendingEnd \in Nat
        /\ response.id \in Nat /\ response.id = upload.id
        /\ response.offset = upload.offset /\ \A r : ~Underway(r)
    BY DEF JobFits, Jobs, AnswerFacts
  <1>2. /\ known \in Jobs /\ known.id = upload.id /\ ~known.open
        /\ known.confirmed = 0 /\ known.pendingEnd \in Nat
    BY <1>1, WithId
  <1> HIDE DEF known
  <1>3. JobFits(p, Canceling(known))
    BY <1>1, <1>2, CancelingFits
  <1>4. response.offset = 0 => JobFits(p, Proceed(known, response, 0))
    <2> SUFFICES ASSUME response.offset = 0
                 PROVE  JobFits(p, Proceed(known, response, 0))
      OBVIOUS
    <2>1. upload.offset = 0 /\ 0 \in known.confirmed .. known.pendingEnd
      BY <1>1, <1>2
    <2>2. JobFits(p, Proceed(known, response, upload.offset))
      BY <1>2, <2>1, ProceedFits
    <2> QED
      BY <2>1, <2>2
  <1> QED
    BY <1>3, <1>4, Zenon DEF Started, known

LEMMA ChunkAnsweredFits ==
    ASSUME Session, AnswerFacts, NEW p \in Pages, NEW job, JobFits(p, job), ~job.open,
           job.step = "chunk", job.id = upload.id, upload.token = p
    PROVE  JobFits(p, ChunkAnswered(job, response))
  <1>1. /\ job \in Jobs /\ job.id # 0 /\ job.id \in Nat /\ job.at \in Nat
        /\ job.confirmed \in Nat /\ job.pendingEnd = job.at + 1
        /\ response.offset = upload.offset /\ \A r : ~Underway(r)
        /\ upload.id \in Nat
    BY DEF JobFits, Jobs, AnswerFacts, Session, UploadOK, Uploads
  <1>2. JobFits(p, Canceling(job))
    BY <1>1, CancelingFits
  <1>3. JobFits(p, [job EXCEPT !.reconcile = FALSE])
    <2>1. /\ [job EXCEPT !.reconcile = FALSE] \in Jobs
          /\ [job EXCEPT !.reconcile = FALSE].step = job.step
          /\ [job EXCEPT !.reconcile = FALSE].id = job.id
          /\ [job EXCEPT !.reconcile = FALSE].at = job.at
          /\ [job EXCEPT !.reconcile = FALSE].confirmed = job.confirmed
          /\ [job EXCEPT !.reconcile = FALSE].pendingEnd = job.pendingEnd
          /\ [job EXCEPT !.reconcile = FALSE].open = job.open
      BY <1>1 DEF Jobs
    <2> QED
      BY <2>1, SameFits
  <1>4. response.offset = job.at + 1 =>
            JobFits(p, Proceed([job EXCEPT !.confirmed = job.at + 1], response, job.at + 1))
    <2> SUFFICES ASSUME response.offset = job.at + 1
                 PROVE  JobFits(p, Proceed([job EXCEPT !.confirmed = job.at + 1],
                                           response, job.at + 1))
      OBVIOUS
    <2> DEFINE at == job.at + 1
               known == [job EXCEPT !.confirmed = at]
    <2>1. at \in Nat /\ upload.offset = at /\ job.pendingEnd = at
      BY <1>1
    <2> HIDE DEF at
    <2>2. /\ known \in Jobs /\ known.id = job.id /\ ~known.open
          /\ known.confirmed = at /\ known.pendingEnd = at
      BY <1>1, <2>1 DEF Jobs
    <2> HIDE DEF known
    <2>3. upload.offset \in known.confirmed .. known.pendingEnd
      BY <2>1, <2>2
    <2>4. JobFits(p, Proceed(known, response, upload.offset))
      BY <1>1, <2>2, <2>3, ProceedFits
    <2> QED
      BY <2>1, <2>4 DEF known, at
  <1> QED
    BY <1>2, <1>3, <1>4, Zenon DEF ChunkAnswered

LEMMA AnsweredFits ==
    ASSUME Session, AnswerFacts, NEW p \in Pages, NEW job, JobFits(p, job), ~job.open,
           job.step \in Sending, Begun(p) => job.step # "begin"
    PROVE  JobFits(p, Answered(p, job, response))
  <1>1. JobFits(p, Over("failed"))
    BY OverFits
  <1>2. CASE job.step = "cancel" \/ ~Own(p, job, response)
    BY <1>1, <1>2, Zenon DEF Answered
  <1>3. CASE job.step # "cancel" /\ Own(p, job, response)
    <2>1. /\ upload.token = p /\ upload.id # 0 /\ (job.id = 0 \/ job.id = upload.id)
          /\ response.id \in Nat /\ response.id = upload.id
          /\ job \in Jobs /\ job.id \in Nat /\ job.id <= upload.id
          /\ response.offset = upload.offset /\ response.offset \in Nat
          /\ \A r : ~Underway(r)
      BY <1>3 DEF Own, AnswerFacts, JobFits, Jobs
    <2>2. JobFits(p, Canceling(job))
      BY <2>1, CancelingFits
    <2>3. job.step \in {"chunk", "verify", "resume"} => job.id = upload.id
      BY <2>1 DEF JobFits
    <2>4. upload.external /\ job.step \in {"chunk", "verify", "resume"} =>
              upload.offset \in job.confirmed .. job.pendingEnd
      BY <2>1, <2>3 DEF JobFits, Transferring
    <2>5. job.step = "begin" => JobFits(p, Started(job, response))
      BY <2>1, StartedFits
    <2>6. job.step = "chunk" => JobFits(p, ChunkAnswered(job, response))
      BY <2>1, <2>3, ChunkAnsweredFits
    <2>7. job.step = "resume" => JobFits(p, Resumed(job, response))
      <3>1. job.step = "resume" => JobFits(p, Proceed(job, response, response.offset))
        BY <2>1, <2>3, <2>4, ProceedFits
      <3> QED
        BY <2>2, <3>1, Zenon DEF Resumed
    <2>8. job.step = "verify" => JobFits(p, Verified(job, response))
      <3>1. job.step = "verify" /\ response.offset = Chunks =>
                JobFits(p, Proceed(job, response, Chunks))
        BY <2>1, <2>3, <2>4, ProceedFits
      <3> QED
        BY <2>2, <3>1, Zenon DEF Verified
    <2>9. job.step = "resolve" => JobFits(p, Resolved(job, response))
      <3> DEFINE asked == Ask(job, "cancel")
                 known == [asked EXCEPT !.id = response.id]
      <3>1. asked \in Jobs /\ asked.step = "cancel" /\ ~asked.open
        BY <2>1, AskFields DEF Sending
      <3> HIDE DEF asked
      <3>2. /\ known \in Jobs /\ known.step = "cancel" /\ ~known.open
            /\ known.id = upload.id
        BY <2>1, <3>1, WithId
      <3> HIDE DEF known
      <3>3. JobFits(p, known)
        BY <2>1, <3>2 DEF JobFits, Transferring, Sending
      <3> QED
        BY <1>1, <3>3, Zenon DEF Resolved, known, asked
    <2>10. job.step \in {"begin", "chunk", "verify", "resume", "resolve"}
      BY <1>3 DEF Sending
    <2> QED
      BY <1>1, <1>3, <2>2, <2>5, <2>6, <2>7, <2>8, <2>9, <2>10, Zenon DEF Answered
  <1> QED
    BY <1>2, <1>3

LEMMA DeliverKeeps ==
    ASSUME FlagsOK, ModesOK, Mailbox, Session, Agreement, NEW p \in Pages, Deliver(p),
           UNCHANGED <<uploadVars, pc>>
    PROVE  FlagsOK' /\ ModesOK' /\ Mailbox' /\ Session' /\ Agreement'
  <1>1. /\ page[p].open /\ page[p].step \in Sending
        /\ client.stage = "responding" /\ client' = Detached(p)
        /\ UNCHANGED <<enabled, flagVars, input, response, serving>>
    BY DEF Deliver, Agreement, PagesKnown
  <1>2. /\ faults' \in 0 .. MaxFaults
        /\ \E job : JobFits(p, job) /\ Change(p, job)
    <2>1. CASE client.body = "mailbox"
      <3> DEFINE job == [page[p] EXCEPT !.open = FALSE]
      <3>1. Change(p, Answered(p, job, response)) /\ UNCHANGED faults
        BY <2>1 DEF Deliver
      <3>2. /\ job \in Jobs /\ job.step = page[p].step /\ job.id = page[p].id
            /\ job.at = page[p].at /\ job.confirmed = page[p].confirmed
            /\ job.pendingEnd = page[p].pendingEnd /\ ~job.open
        BY PageFacts DEF Jobs
      <3> HIDE DEF job
      <3>3. JobFits(p, job)
        BY <3>2, PageFacts, SameFits
      <3>4. Begun(p) => job.step # "begin"
        BY <3>2 DEF Agreement, PagesKnown
      <3>5. JobFits(p, Answered(p, job, response))
        BY <1>1, <2>1, <3>2, <3>3, <3>4, AnswerArrives, AnsweredFits
      <3> QED
        BY <3>1, <3>5 DEF ModesOK
    <2>2. CASE client.body # "mailbox"
      BY <1>1, <2>2, FetchFailedFits DEF Deliver
    <2> QED
      BY <2>1, <2>2
  <1>3. Moves
    BY <1>1, <1>2, Detaches DEF uploadVars
  <1> QED
    BY <1>2, <1>3, JobChanges DEF Moves, uploadVars

LEMMA FetchFailsKeeps ==
    ASSUME FlagsOK, ModesOK, Mailbox, Session, Agreement, NEW p \in Pages, FetchFails(p),
           UNCHANGED <<uploadVars, pc>>
    PROVE  FlagsOK' /\ ModesOK' /\ Mailbox' /\ Session' /\ Agreement'
  <1>1. /\ page[p].open /\ page[p].step \in Sending /\ FetchFailed(p)
        /\ client' = Detached(p)
        /\ UNCHANGED <<enabled, flagVars, input, response, serving>>
    BY DEF FetchFails, Agreement, PagesKnown
  <1>2. /\ faults' \in 0 .. MaxFaults
        /\ \E job : JobFits(p, job) /\ Change(p, job)
    BY <1>1, FetchFailedFits
  <1>3. Moves
    BY <1>1, <1>2, Detaches DEF uploadVars
  <1> QED
    BY <1>2, <1>3, JobChanges DEF Moves, uploadVars

LEMMA UserCancelsKeeps ==
    ASSUME FlagsOK, ModesOK, Mailbox, Session, Agreement, NEW p \in Pages, UserCancels(p),
           UNCHANGED <<uploadVars, pc>>
    PROVE  FlagsOK' /\ ModesOK' /\ Mailbox' /\ Session' /\ Agreement'
  <1> DEFINE canceling == Canceling(page[p])
             job == [canceling EXCEPT !.open = FALSE]
  <1>1. /\ Change(p, job) /\ client' = Detached(p) /\ faults' \in 0 .. MaxFaults
        /\ UNCHANGED <<enabled, flagVars, input, response, serving>>
    BY Faults DEF UserCancels
  <1>2. JobFits(p, canceling) /\ ~canceling.open
    BY PageFacts, CancelingFits DEF JobFits
  <1> HIDE DEF canceling
  <1>3. /\ job \in Jobs /\ job.step = canceling.step /\ job.id = canceling.id
        /\ job.at = canceling.at /\ job.confirmed = canceling.confirmed
        /\ job.pendingEnd = canceling.pendingEnd /\ ~job.open
    BY <1>2 DEF JobFits, Jobs
  <1> HIDE DEF job
  <1>4. JobFits(p, job)
    BY <1>2, <1>3, SameFits
  <1>5. Moves
    BY <1>1, Detaches DEF uploadVars
  <1> QED
    BY <1>1, <1>4, <1>5, JobChanges DEF Moves, uploadVars

LEMMA SendKeeps ==
    ASSUME FlagsOK, ModesOK, Mailbox, Session, Agreement, NEW p \in Pages, Send(p),
           UNCHANGED <<uploadVars, pc>>
    PROVE  FlagsOK' /\ ModesOK' /\ Mailbox' /\ Session' /\ Agreement'
  <1>1. page[p].step \in Sending
    BY DEF Send
  <1>2. CASE FetchFailed(p) /\ UNCHANGED mailboxVars
    <2>1. /\ faults' \in 0 .. MaxFaults
          /\ \E job : JobFits(p, job) /\ Change(p, job)
      BY <1>1, <1>2, FetchFailedFits
    <2>2. /\ UNCHANGED <<enabled, client, reserved, pending, responseReady, cancel,
                         abandoned, input, response, serving, idle, storage, pc>>
      BY <1>2 DEF mailboxVars, flagVars, uploadVars
    <2>3. Mailbox'
      BY <2>2, Turns, StayMailbox
    <2>4. FlagsOK' /\ ModesOK' /\ Fewer
      BY <2>1, <2>2 DEF FlagsOK, ModesOK, Fewer
    <2> QED
      BY <2>1, <2>3, <2>4, JobChanges DEF uploadVars
  <1>3. CASE /\ Change(p, [page[p] EXCEPT !.open = TRUE]) /\ UNCHANGED faults
             /\ AcceptHttpClient(RequestOf(p))
    <2> DEFINE job == [page[p] EXCEPT !.open = TRUE]
    <2>1. RequestFits(RequestOf(p)) /\ RequestOf(p) \in RealRequests
      BY <1>1, AskedFits DEF RequestFits
    <2>2. /\ FlagsOK' /\ ModesOK' /\ Mailbox'
          /\ client'.request = RequestOf(p) /\ UNCHANGED <<input, response>>
      BY <1>3, <2>1, Accepts DEF ModesOK, uploadVars
    <2>3. /\ job \in Jobs /\ job.step = page[p].step /\ job.id = page[p].id
          /\ job.at = page[p].at /\ job.confirmed = page[p].confirmed
          /\ job.pendingEnd = page[p].pendingEnd
      BY PageFacts DEF Jobs
    <2>4. page' = [page EXCEPT ![p] = job] /\ page \in [Pages -> Jobs]
      BY <1>3 DEF Change, Session, UploadOK
    <2> HIDE DEF job
    <2>5. page' \in [Pages -> Jobs] /\ page'[p] = job
          /\ \A q \in Pages : q # p => page'[q] = page[q]
      BY <2>3, <2>4
    <2>6. \A q \in Pages :
              /\ page'[q].step = page[q].step /\ page'[q].id = page[q].id
              /\ page'[q].at = page[q].at /\ page'[q].confirmed = page[q].confirmed
              /\ page'[q].pendingEnd = page[q].pendingEnd
              /\ page'[q].open => page[q].step \in Sending
      BY <1>1, <2>3, <2>5 DEF Agreement, PagesKnown
    <2> QED
      BY <2>1, <2>2, <2>5, <2>6, OneMoreRequest DEF uploadVars
  <1> QED
    BY <1>2, <1>3, Zenon DEF Send

LEMMA PauseKeeps ==
    ASSUME FlagsOK, ModesOK, Mailbox, Session, Agreement, NEW p \in Pages,
           StartUpload(p) \/ UserResumes(p), UNCHANGED <<uploadVars, pc>>
    PROVE  FlagsOK' /\ ModesOK' /\ Mailbox' /\ Session' /\ Agreement'
  <1>1. UNCHANGED <<enabled, client, reserved, pending, responseReady, cancel,
                    abandoned, input, response, serving, idle, storage, pc, faults>>
    BY DEF StartUpload, UserResumes, mailboxVars, flagVars, uploadVars
  <1>2. Mailbox'
    BY <1>1, Turns, StayMailbox
  <1>3. FlagsOK' /\ ModesOK' /\ Fewer
    BY <1>1 DEF FlagsOK, ModesOK, Fewer
  <1>4. \E job : JobFits(p, job) /\ Change(p, job)
    <2>1. CASE StartUpload(p)
      <3>1. page[p].step = "idle" /\ Change(p, Ask(NewJob, "begin"))
        BY <2>1 DEF StartUpload
      <3>2. ~Begun(p)
        BY <3>1 DEF Agreement, PagesKnown
      <3>3. /\ Ask(NewJob, "begin") \in Jobs /\ Ask(NewJob, "begin").step = "begin"
            /\ Ask(NewJob, "begin").id = 0 /\ Ask(NewJob, "begin").confirmed = 0
            /\ ~Ask(NewJob, "begin").open
        BY NewJobFits, AskFields DEF Sending
      <3>4. upload.id \in Nat /\ (upload.external => upload.id # 0)
        BY DEF Session, SessionPosition, UploadOK, Uploads
      <3>5. \A r : Underway(r) /\ r.op = "chunk" => r.id # 0
        BY DEF Agreement, RequestsKnown, Underway
      <3>6. JobFits(p, Ask(NewJob, "begin"))
        BY <3>2, <3>3, <3>4, <3>5 DEF JobFits
      <3> QED
        BY <3>1, <3>6
    <2>2. CASE UserResumes(p)
      <3> DEFINE step == IF page[p].id # 0 THEN "resume" ELSE "begin"
                 asked == Ask(page[p], step)
                 job == [asked EXCEPT !.resumed = TRUE]
      <3>1. page[p].step = "paused" /\ Change(p, job)
        BY <2>2 DEF UserResumes
      <3>2. /\ asked \in Jobs /\ asked.step = step /\ asked.id = page[p].id
            /\ asked.at = page[p].at /\ asked.confirmed = page[p].confirmed
            /\ asked.pendingEnd = page[p].pendingEnd /\ asked.open = page[p].open
        BY PageFacts, AskFields DEF Sending
      <3>3. /\ step \in {"resume", "begin"} /\ (step = "resume" <=> page[p].id # 0)
        OBVIOUS
      <3> HIDE DEF asked, step
      <3>4. /\ job \in Jobs /\ job.step = step /\ job.id = page[p].id
            /\ job.at = page[p].at /\ job.confirmed = page[p].confirmed
            /\ job.pendingEnd = page[p].pendingEnd /\ job.open = page[p].open
        BY <3>2 DEF Jobs
      <3> HIDE DEF job
      <3>5. ~page[p].open
        BY <3>1 DEF Agreement, PagesKnown, Sending
      <3>6. JobFits(p, job)
        BY <3>1, <3>3, <3>4, <3>5, PageFacts DEF JobFits, Transferring
      <3> QED
        BY <3>1, <3>6
    <2> QED
      BY <2>1, <2>2
  <1> QED
    BY <1>1, <1>2, <1>3, <1>4, JobChanges DEF uploadVars

LEMMA VisitKeeps ==
    ASSUME FlagsOK, ModesOK, Mailbox, Session, Agreement, Visit
    PROVE  FlagsOK' /\ ModesOK' /\ Mailbox' /\ Session' /\ Agreement'
  <1>1. PICK route \in {"page", "oversize", "control"} :
            AcceptHttpClient(Request(route, Visitor, "library", 0, 0))
    BY DEF Visit
  <1> DEFINE r == Request(route, Visitor, "library", 0, 0)
  <1>2. /\ r \in RealRequests /\ r.id = 0 /\ r.op = "library"
    BY DEF Request, RealRequests, Senders
  <1> HIDE DEF r
  <1>3. RequestFits(r)
    BY <1>2 DEF RequestFits, Session, UploadOK, Uploads
  <1>4. /\ FlagsOK' /\ ModesOK' /\ Mailbox'
        /\ client'.request = r /\ UNCHANGED <<input, response>>
    BY <1>1, <1>2, Faults, Accepts DEF Visit, uploadVars, r
  <1>5. page' = page /\ \A p \in Pages : page[p].open => page[p].step \in Sending
    BY DEF Visit, Agreement, PagesKnown
  <1> QED
    BY <1>3, <1>4, <1>5, OneMoreRequest DEF Visit, uploadVars, Session, UploadOK

-----------------------------------------------------------------------------
(* The theorems.                                                           *)

LEMMA StutterKeeps ==
    ASSUME FlagsOK, ModesOK, Mailbox, Session, Agreement, idle' \in BOOLEAN,
           UNCHANGED <<mailboxVars, upload, data, published, storage, pc, page, faults>>
    PROVE  FlagsOK' /\ ModesOK' /\ Mailbox' /\ Session' /\ Agreement'
  <1>1. UNCHANGED <<enabled, client, reserved, pending, responseReady, cancel,
                    abandoned, input, response, serving>>
    BY DEF mailboxVars, flagVars
  <1>2. Mailbox' /\ FlagsOK' /\ ModesOK' /\ Fewer
    BY <1>1, Turns, StayMailbox DEF FlagsOK, ModesOK, Fewer
  <1> QED
    BY <1>2, NothingNew DEF Session, SessionPosition

LEMMA InitHolds == Init => Inv
  <1> SUFFICES ASSUME Init PROVE Inv
    OBVIOUS
  <1>1. FlagsOK /\ ModesOK
    <2>1. faults \in 0 .. MaxFaults
      BY UploadAssumption DEF Init
    <2> QED
      BY <2>1, Zenon DEF Init, FlagsOK, ModesOK
  <1>2. Mailbox
    BY NoneOfThem DEF Init, Mailbox, MessagesOK, InputUntouched, RequestServed,
       ResponseHeld, MailboxOrder, ConnectionOrder
  <1>3. /\ NoUpload \in Uploads /\ NoUpload.external = FALSE
        /\ NoUpload.state = "idle" /\ NoUpload.offset = 0 /\ NoUpload.id = 0
    BY UploadAssumption DEF NoUpload, Uploads, UploadStates, Senders, Visitor
  <1>4. NewJob.step = "idle" /\ NewJob.id = 0
    BY DEF NewJob
  <1>5. Session
    BY <1>3, <1>4, NewJobFits, EmptySeq DEF Init, Session, UploadOK, SessionHeld,
       SavedOnce, SessionPosition, SpentOnce
  <1>6. \A r : ~Underway(r)
    BY NoneOfThem DEF Init, Underway
  <1>7. \A p : p \in Pages => ~Begun(p)
    <2>1. ASSUME NEW p \in Pages PROVE page[p].id = 0
      BY <1>4 DEF Init
    <2>2. upload.offset = 0 /\ published = <<>>
      BY <1>3 DEF Init
    <2>3. ~(upload.offset > 0) /\ DOMAIN published = {}
      BY <2>2
    <2> QED
      BY <1>6, <2>1, <2>3, Zenon DEF Begun
  <1>8. AnswerHolds /\ RequestsKnown /\ PositionsAgree
    <2>1. AnswerHolds
      BY DEF Init, AnswerHolds
    <2>2. RequestsKnown
      BY <1>6, Zenon DEF RequestsKnown
    <2>3. PositionsAgree
      BY <1>3 DEF Init, PositionsAgree
    <2> QED
      BY <2>1, <2>2, <2>3
  <1>9. PagesKnown
    BY <1>3, <1>4, <1>7, NewJobFits DEF Init, PagesKnown
  <1> QED
    BY <1>1, <1>2, <1>5, <1>8, <1>9, Groups DEF Agreement

LEMMA NextKeeps == Inv /\ [Next]_vars => Inv'
  <1> SUFFICES ASSUME FlagsOK, ModesOK, Mailbox, Session, Agreement, [Next]_vars
               PROVE  FlagsOK' /\ ModesOK' /\ Mailbox' /\ Session' /\ Agreement'
    BY Groups DEF Inv, TypeOK, Mailbox, Session, Agreement
  <1>1. CASE RenderLoop
    <2>1. CASE BeginPass
      BY <2>1, BeginPassKeeps
    <2>2. CASE ServeRequest
      BY <2>2, ServeRequestKeeps
    <2>3. CASE Verify
      BY <2>3, VerifyKeeps
    <2>4. CASE Forget \/ Publish
      BY <2>4, MailboxStepKeeps
    <2> QED
      BY <1>1, <2>1, <2>2, <2>3, <2>4 DEF RenderLoop
  <1>2. CASE Elapse
    BY <1>2, StutterKeeps DEF Elapse
  <1>3. CASE Core1Next
    BY <1>3, VisitKeeps, MailboxStepKeeps DEF Core1Next
  <1>4. ASSUME NEW p \in Pages, PageStep(p)
        PROVE  FlagsOK' /\ ModesOK' /\ Mailbox' /\ Session' /\ Agreement'
    <2>1. UNCHANGED <<uploadVars, pc>>
      BY <1>4 DEF PageStep
    <2>2. CASE Send(p)
      BY <2>1, <2>2, SendKeeps
    <2>3. CASE FetchFails(p)
      BY <2>1, <2>3, FetchFailsKeeps
    <2>4. CASE Deliver(p)
      BY <2>1, <2>4, DeliverKeeps
    <2>5. CASE UserCancels(p)
      BY <2>1, <2>5, UserCancelsKeeps
    <2>6. CASE StartUpload(p) \/ UserResumes(p)
      BY <2>1, <2>6, PauseKeeps
    <2> QED
      BY <1>4, <2>2, <2>3, <2>4, <2>5, <2>6 DEF PageStep
  <1>5. CASE UNCHANGED vars
    BY <1>5, StutterKeeps DEF vars, uploadVars, FlagsOK
  <1> QED
    BY <1>1, <1>2, <1>3, <1>4, <1>5 DEF Next

\* Whatever is lost on the way, the mailbox carries one request at a time and its
\* answer, and the session holds the confirmed part of one page's file: a chunk
\* is written once, a page makes one item at most, and it is a whole file.
THEOREM InvHolds == Spec => []Inv
  BY InitHolds, NextKeeps, PTL DEF Spec

\* A cancellation that ends an upload was sent by the page that began it.
THEOREM OnlyOwnCanceledHolds == Spec => OnlyOwnCanceled
  <1> DEFINE A == pc = "serve" /\ upload.external /\ upload'.state = "canceled"
                      => input.from = upload.token
  <1>1. Inv /\ [Next]_vars => [A]_vars
    <2> SUFFICES ASSUME Inv, Next, pc = "serve", upload.external,
                        upload'.state = "canceled"
                 PROVE  input.from = upload.token
      BY Zenon
    <2>1. upload.state \in {"receiving", "verifying"} /\ upload \in Uploads
      BY DEF Inv, SessionHeld, TypeOK, UploadOK
    <2>2. upload' # upload
      BY <2>1
    <2>3. Serve(input)
      <3>1. \/ ServeRequest \/ Forget \/ Publish \/ Elapse \/ Core1Next
            \/ \E p \in Pages : PageStep(p)
        BY DEF Next, RenderLoop, BeginPass, Verify
      <3> QED
        BY <2>2, <3>1 DEF ServeRequest, Forget, Publish, Elapse, Core1Next, Visit,
           Transport, Start, Stop, PageStep, uploadVars
    <2>4. ~Begin(input)
      <3>1. ASSUME Begin(input) PROVE FALSE
        BY <2>2, <3>1 DEF Begin, Report, Refuse
      <3> QED
        BY <3>1
    <2>5. ~Chunk(input)
      <3>1. ASSUME Chunk(input) PROVE FALSE
        <4>1. upload'.state \in {"receiving", "verifying", "error"}
          BY <2>1, <2>2, <3>1 DEF Chunk, Refuse, Finish, Uploads
        <4> QED
          BY <4>1
      <3> QED
        BY <3>1
    <2>6. ~Report /\ ~Refuse
      BY <2>2 DEF Report, Refuse
    <2>7. Addressed(input)
      BY <2>3, <2>4, <2>5, <2>6, Zenon DEF Serve
    <2>8. Underway(input)
      BY DEF Inv, MailboxOrder, Underway
    <2> QED
      BY <2>7, <2>8 DEF Inv, RequestsKnown, Underway, Addressed
  <1> HIDE DEF A
  <1>2. Spec => [][A]_vars
    BY <1>1, InvHolds, PTL DEF Spec
  <1> QED
    BY <1>2 DEF A, OnlyOwnCanceled

=============================================================================
