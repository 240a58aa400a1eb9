---------------------------- MODULE HttpMailbox ----------------------------
(***************************************************************************)
(* The one HTTP connection of webServer.cpp and the mailbox through which  *)
(* it hands a request to HttpMediaUpload.                                  *)
(*                                                                         *)
(* lwIP's callbacks run on Core 1, each atomically; HttpMediaUpload::Update*)
(* runs on Core 0 and takes the lwIP lock only to claim a request, to drop *)
(* a canceled one and to publish a response.  In between it reads input_   *)
(* and writes response_ without the lock, for as long as the card takes.   *)
(*                                                                         *)
(* A request is a record whose field "route" says what RouteHttpRequest    *)
(* makes of it; the other fields belong to who extends this module.        *)
(***************************************************************************)
EXTENDS Naturals

VARIABLES
    enabled,          \* webServer.cpp: enabled, listener
    client,           \* webServer.cpp: client
    reserved, pending, responseReady, cancel, abandoned,  \* HttpMediaUpload
    input, response,  \* input_ and response_, as long as they are of use;
                      \* response.own: written for the client that waits (history)
    serving           \* Update's local "pending"; "lost" when the client that
                      \* submitted the request has gone since (history)

flagVars == <<reserved, pending, responseReady, cancel, abandoned>>
mailboxVars == <<enabled, client, flagVars, input, response, serving>>

NoRequest == [route |-> "none"]
NoResponse == [own |-> FALSE]
NoClient == [request |-> NoRequest, stage |-> "none", video |-> FALSE,
             body |-> "none", acknowledged |-> FALSE, peer |-> 0]

\* "peer": who still waits for the answer, 0 when nobody does.
Connected(request) ==
    [NoClient EXCEPT !.request = request, !.stage = "header", !.peer = request.from]

-----------------------------------------------------------------------------
(* The end of a connection.                                                *)

\* The flags when a client c that holds the mailbox is dropped.
Leave(c) ==
    /\ reserved' = (reserved /\ ~(c.video /\ c.stage = "responding"))
    /\ abandoned' = (abandoned \/ (c.video /\ c.stage # "responding"))
    /\ serving' = IF serving = "live" THEN "lost" ELSE serving

AbortHttpClient(c) == Leave(c) /\ client' = NoClient

\* tcp_close succeeds, has no memory and is tried again, or fails.
CloseHttpClient(c) ==
    \/ AbortHttpClient(c)
    \/ client' = c /\ UNCHANGED <<reserved, abandoned, serving>>

\* More of the response is queued as there is room; a fatal error aborts; a
\* response acknowledged to its end closes the connection.
SendPendingHttpResponse(c) ==
    \/ ~c.acknowledged /\ client' = c /\ UNCHANGED <<reserved, abandoned, serving>>
    \/ ~c.acknowledged /\ c.stage = "responding" /\ AbortHttpClient(c)
    \/ c.acknowledged /\ CloseHttpClient(c)

BuildHttpResponse(c, body) ==
    [c EXCEPT !.request = NoRequest, !.stage = "responding", !.body = body]

-----------------------------------------------------------------------------
(* Callbacks.                                                              *)

\* A connection is accepted when there is none, or the last is out of time: no
\* progress for ten seconds, or thirty since it began.
AcceptHttpClient(request) ==
    /\ enabled /\ Leave(client) /\ client' = Connected(request)
    /\ UNCHANGED <<enabled, pending, responseReady, cancel, input, response>>

CanReserve == ~reserved /\ ~cancel /\ ~abandoned

Submit ==
    /\ input' = client.request /\ pending' = TRUE
    /\ responseReady' = FALSE /\ response' = NoResponse

NotSubmitted == UNCHANGED <<input, pending, responseReady, response>>

Waiting == [client EXCEPT !.request = NoRequest, !.stage = "waiting", !.video = TRUE]

\* A control without a body: Reserve, and Submit at once.
RouteControl ==
    /\ client.request.route = "control"
    /\ CanReserve /\ Submit
    /\ reserved' = TRUE /\ client' = Waiting
    /\ UNCHANGED <<abandoned, serving>>

RouteMedia ==
    /\ client.request.route \in {"media", "oversize"}
    /\ CanReserve /\ NotSubmitted
    /\ reserved' = TRUE
    /\ client' = [client EXCEPT !.stage = "receiving", !.video = TRUE]
    /\ UNCHANGED <<abandoned, serving>>

\* The mailbox is taken; or a page was asked for, or the header is refused.
RouteWithoutMailbox ==
    /\ NotSubmitted
    /\ \/ /\ client.request.route # "page" /\ ~CanReserve
          /\ SendPendingHttpResponse(BuildHttpResponse(client, "conflict"))
       \/ /\ client.request.route = "page"
          /\ SendPendingHttpResponse(BuildHttpResponse(client, "other"))

RouteHttpRequest ==
    /\ client.stage = "header"
    /\ RouteControl \/ RouteMedia \/ RouteWithoutMailbox
    /\ UNCHANGED <<enabled, cancel>>

\* The rest of the body.  Bytes beyond the announced length are refused, and
\* the mailbox is given up with the bytes that are in it.
ReceiveBody ==
    /\ client.stage = "receiving"
    /\ \/ /\ client.request.route = "media" /\ Submit
          /\ client' = Waiting
          /\ UNCHANGED <<reserved, abandoned, serving>>
       \/ /\ client.request.route = "oversize" /\ NotSubmitted
          /\ LET c == BuildHttpResponse(client, "other")
             IN  /\ abandoned' = TRUE /\ UNCHANGED serving
                 /\ \/ client' = c /\ UNCHANGED reserved
                    \/ client' = NoClient /\ reserved' = FALSE
    /\ UNCHANGED <<enabled, cancel>>

HandleHttpResponseAcknowledgement ==
    /\ client.stage = "responding" /\ ~client.acknowledged
    /\ \/ SendPendingHttpResponse([client EXCEPT !.acknowledged = TRUE])
       \/ SendPendingHttpResponse(client)      \* not yet all of it
    /\ UNCHANGED <<enabled, pending, responseReady, cancel, input, response>>

\* The peer resets or closes the connection, sends what it must not, or lwIP
\* reports a fatal error.
HandleHttpClientError ==
    /\ client # NoClient /\ AbortHttpClient(client)
    /\ UNCHANGED <<enabled, pending, responseReady, cancel, input, response>>

\* PollHttpClient and UpdateTransport: a connection out of time is aborted ...
TimeOut ==
    /\ enabled /\ client # NoClient /\ AbortHttpClient(client)
    /\ UNCHANGED <<enabled, pending, responseReady, cancel, input, response>>

\* ... and otherwise UpdateTransport turns to a response that is ready.
UpdateTransport ==
    /\ enabled /\ client # NoClient
    /\ SendPendingHttpResponse(
           IF client.stage = "waiting" /\ responseReady
           THEN BuildHttpResponse(client, "mailbox") ELSE client)
    /\ UNCHANGED <<enabled, pending, responseReady, cancel, input, response>>

\* Start and Stop, while Core 0 is parked (Core1!ListenersExclusive).
StartServer ==
    /\ ~enabled /\ enabled' = TRUE
    /\ UNCHANGED <<client, flagVars, input, response, serving>>

StopServer ==
    /\ enabled /\ enabled' = FALSE /\ cancel' = TRUE
    /\ AbortHttpClient(client)
    /\ UNCHANGED <<pending, responseReady, input, response>>

-----------------------------------------------------------------------------
(* The locked sections of HttpMediaUpload::Update.                         *)

\* MUTANT: an abandoned request is dropped, but not its reservation.
TakeRequest_KeepsReservation ==
    /\ abandoned' = FALSE /\ pending' = FALSE /\ cancel' = FALSE
    /\ serving' = IF pending /\ ~abandoned THEN "live" ELSE "none"
    /\ responseReady' = (responseReady /\ ~abandoned)
    /\ UNCHANGED <<enabled, client, reserved, input, response>>

\* An abandoned request is dropped; a pending one is claimed.
TakeRequest ==
    /\ abandoned' = FALSE /\ pending' = FALSE /\ cancel' = FALSE
    /\ reserved' = (reserved /\ ~abandoned)
    /\ serving' = IF pending /\ ~abandoned THEN "live" ELSE "none"
    /\ input' = IF abandoned THEN NoRequest ELSE input
    /\ IF abandoned THEN responseReady' = FALSE /\ response' = NoResponse
       ELSE UNCHANGED <<responseReady, response>>
    /\ UNCHANGED <<enabled, client>>

\* After a canceled upload was finished; its request, if any, is forgotten.
DropCanceled ==
    /\ reserved' = FALSE /\ serving' = "none"
    /\ responseReady' = FALSE /\ response' = NoResponse
    /\ UNCHANGED <<enabled, client, pending, cancel, abandoned, input>>

\* Respond, up to PublishResponse's lock.
Write(answer) ==
    /\ response' = [answer EXCEPT !.own = (serving = "live")]
    /\ UNCHANGED <<enabled, client, flagVars, input, serving>>

PublishResponse ==
    /\ responseReady' = TRUE /\ serving' = "none" /\ input' = NoRequest
    /\ UNCHANGED <<enabled, client, reserved, pending, cancel, abandoned, response>>

-----------------------------------------------------------------------------
(* Properties of the mailbox.                                              *)

\* While Core 0 reads a request nobody writes another into the mailbox.
InputUntouched ==
    /\ serving = "lost" => ~(client.video /\ client.stage # "responding")
    /\ serving = "live" => client.video /\ client.stage = "waiting"

\* A submitted request is neither forgotten nor answered with another's answer:
\* while its client waits it is pending, being served, or answered.
RequestServed ==
    client.stage = "waiting" =>
        \/ pending /\ ~abandoned /\ serving = "none" /\ ~responseReady
        \/ ~pending /\ serving = "live" /\ ~responseReady
        \/ ~pending /\ serving = "none" /\ responseReady /\ response.own

\* What is being sent stays as it was when it was published.
ResponseHeld ==
    client.body = "mailbox" => response.own /\ responseReady /\ serving = "none"
=============================================================================
