----------------------------- MODULE WebSockets -----------------------------
(***************************************************************************)
(* The web sockets of the chat pages: websocket_endpoint, one coroutine    *)
(* per socket, over two structures of the process: the registry of         *)
(* ConnectionManager, one socket per client, which agents' replies go      *)
(* through, and the number of sockets of each address.  Nothing is         *)
(* modelled of a socket refused for its origin or its signature: it        *)
(* touches neither.  Whether a message is over the limit per minute is     *)
(* the choice of an external library, what handle_message answers is the   *)
(* business of Dialogue.                                                   *)
(***************************************************************************)
EXTENDS Naturals, FiniteSets

CONSTANTS
    Sockets,        \* connection attempts, each used once
    Clients,        \* identifiers given by GET /chat/session
    Addresses,
    ClientOf,       \* the client_id in the path of a socket
    AddressOf,      \* websocket.client.host
    NoSocket,       \* None
    Replies,        \* agents' replies to a web customer
    MaxSockets,     \* RATE_LIMIT_WS_CONNECTIONS
    MaxRestarts     \* bound on the restarts of the server

ASSUME SocketAssumption ==
    /\ IsFiniteSet(Sockets) /\ NoSocket \notin Sockets
    /\ ClientOf \in [Sockets -> Clients]
    /\ AddressOf \in [Sockets -> Addresses]
ASSUME LimitAssumption == MaxSockets \in Nat /\ MaxRestarts \in Nat

VARIABLES
    endpoint,   \* where the coroutine of a socket is
    page,       \* the browser's side of the socket
    registry,   \* ConnectionManager._connections
    count,      \* _ws_connections; 0 stands for an address without an entry
    reply,      \* what send_to told the agent
    crossed,    \* history variable: sockets that met another one of their client
    restarts

vars == <<endpoint, page, registry, count, reply, crossed, restarts>>

\* Places where the coroutine awaits while its socket is counted.
Accepted == {"open", "handling", "rejecting"}
Counted == {"accepting"} \cup Accepted

Init ==
    /\ endpoint = [s \in Sockets |-> "none"]
    /\ page = [s \in Sockets |-> "away"]
    /\ registry = [c \in Clients |-> NoSocket]
    /\ count = [a \in Addresses |-> 0]
    /\ reply = [r \in Replies |-> "none"]
    /\ crossed = {}
    /\ restarts = 0

\* The other sockets of the client of s that an endpoint still serves.
Siblings(s) == {t \in Sockets \ {s} : ClientOf[t] = ClientOf[s] /\ endpoint[t] \in Counted}

\* The sockets of an address that an endpoint serves.
Served(a) == {s \in Sockets : AddressOf[s] = a /\ endpoint[s] \in Counted}

---------------------------------------------------------------------------
\* Variant: the limit is tested with ">".
Admit_OneMore(s) ==
    /\ endpoint[s] = "none" /\ count[AddressOf[s]] <= MaxSockets
    /\ endpoint' = [endpoint EXCEPT ![s] = "accepting"]
    /\ page' = [page EXCEPT ![s] = "there"]
    /\ count' = [count EXCEPT ![AddressOf[s]] = @ + 1]
    /\ crossed' = crossed \cup Siblings(s) \cup (IF Siblings(s) = {} THEN {} ELSE {s})
    /\ UNCHANGED <<registry, reply, restarts>>

\* ws_connection_opened counts the socket; the coroutine awaits accept().
Admit(s) ==
    /\ endpoint[s] = "none" /\ count[AddressOf[s]] < MaxSockets
    /\ endpoint' = [endpoint EXCEPT ![s] = "accepting"]
    /\ page' = [page EXCEPT ![s] = "there"]
    /\ count' = [count EXCEPT ![AddressOf[s]] = @ + 1]
    /\ crossed' = crossed \cup Siblings(s) \cup (IF Siblings(s) = {} THEN {} ELSE {s})
    /\ UNCHANGED <<registry, reply, restarts>>

\* The entry of an address is deleted with its last socket.
ws_connection_closed(s) ==
    count' = [count EXCEPT ![AddressOf[s]] = IF @ <= 1 THEN 0 ELSE @ - 1]

\* Variants: the test of the limit is inside the try, whose finally clause
\* then gives back a place that was not taken ...
Refuse_GivesBack(s) ==
    /\ endpoint[s] = "none" /\ count[AddressOf[s]] >= MaxSockets
    /\ endpoint' = [endpoint EXCEPT ![s] = "closed"]
    /\ page' = [page EXCEPT ![s] = "left"]
    /\ ws_connection_closed(s)
    /\ UNCHANGED <<registry, reply, crossed, restarts>>

\* ... or a refused socket leaves the registry like one that was in it.
Refuse_Disconnects(s) ==
    /\ endpoint[s] = "none" /\ count[AddressOf[s]] >= MaxSockets
    /\ endpoint' = [endpoint EXCEPT ![s] = "closed"]
    /\ page' = [page EXCEPT ![s] = "left"]
    /\ registry' = [registry EXCEPT ![ClientOf[s]] = NoSocket]
    /\ UNCHANGED <<count, reply, crossed, restarts>>

\* The address has its MaxSockets: accepted, told so and closed, before the
\* try clause.
Refuse(s) ==
    /\ endpoint[s] = "none" /\ count[AddressOf[s]] >= MaxSockets
    /\ endpoint' = [endpoint EXCEPT ![s] = "closed"]
    /\ page' = [page EXCEPT ![s] = "left"]
    /\ UNCHANGED <<registry, count, reply, crossed, restarts>>

\* ConnectionManager.connect, after accept(): the entry of the client becomes
\* this socket, whatever it was.
Connect(s) ==
    /\ endpoint[s] = "accepting"
    /\ endpoint' = [endpoint EXCEPT ![s] = "open"]
    /\ registry' = [registry EXCEPT ![ClientOf[s]] = s]
    /\ UNCHANGED <<page, count, reply, crossed, restarts>>

\* A message, within the limit per minute or over it. One that is read after
\* the page left is one that was read just before.
Message(s) ==
    /\ endpoint[s] = "open" /\ page[s] = "there"
    /\ \E next \in {"handling", "rejecting"} : endpoint' = [endpoint EXCEPT ![s] = next]
    /\ UNCHANGED <<page, registry, count, reply, crossed, restarts>>

\* handle_message returned and its answer is sent, possibly into the void.
Answered(s) ==
    /\ endpoint[s] = "handling"
    /\ endpoint' = [endpoint EXCEPT ![s] = "open"]
    /\ UNCHANGED <<page, registry, count, reply, crossed, restarts>>

---------------------------------------------------------------------------
\* disconnect(client_id), then the finally clause: ws_connection_closed.
Ends(s) ==
    /\ endpoint' = [endpoint EXCEPT ![s] = "closed"]
    /\ page' = [page EXCEPT ![s] = "left"]
    /\ registry' = [registry EXCEPT ![ClientOf[s]] = NoSocket]
    /\ ws_connection_closed(s)
    /\ UNCHANGED <<reply, crossed, restarts>>

\* Variant: a disconnection is taken for a message without text.
Disconnected_Ignored(s) ==
    endpoint[s] = "open" /\ page[s] = "left" /\ UNCHANGED vars

\* WebSocketDisconnect from receive_text.
Disconnected(s) == endpoint[s] = "open" /\ page[s] = "left" /\ Ends(s)

\* Any other exception: accept or a send fails, handle_message raises, the
\* frame holds no text.
Raises(s) == endpoint[s] \in {"accepting", "open", "handling"} /\ Ends(s)

\* Variant: the return for too many messages forgets the registry.
Rejected_StaysListed(s) ==
    /\ endpoint[s] = "rejecting"
    /\ endpoint' = [endpoint EXCEPT ![s] = "closed"]
    /\ page' = [page EXCEPT ![s] = "left"]
    /\ ws_connection_closed(s)
    /\ UNCHANGED <<registry, reply, crossed, restarts>>

\* _reject returned or raised.
Rejected(s) == endpoint[s] = "rejecting" /\ Ends(s)

---------------------------------------------------------------------------
\* The page is closed, reloaded or loses its network.
Leave(s) ==
    /\ page[s] = "there"
    /\ page' = [page EXCEPT ![s] = "left"]
    /\ UNCHANGED <<endpoint, registry, count, reply, crossed, restarts>>

\* Variant: the identifier keeps the prefix of the session.
Reply_Prefixed(r, c) ==
    /\ reply[r] = "none"
    /\ reply' = [reply EXCEPT ![r] = "unreachable"]
    /\ UNCHANGED <<endpoint, page, registry, count, crossed, restarts>>

\* send_to: 409 when the client has no entry; else the reply is sent, or the
\* send raises (502) as it may while the socket is being closed or is gone.
Reply(r, c) ==
    /\ reply[r] = "none"
    /\ IF registry[c] = NoSocket
       THEN reply' = [reply EXCEPT ![r] = "unreachable"]
       ELSE \E result \in {"sent", "failed"} : reply' = [reply EXCEPT ![r] = result]
    /\ UNCHANGED <<endpoint, page, registry, count, crossed, restarts>>

\* The process starts again: both structures live in it.
Restart ==
    /\ restarts < MaxRestarts
    /\ restarts' = restarts + 1
    /\ endpoint' = [s \in Sockets |-> IF endpoint[s] = "none" THEN "none" ELSE "closed"]
    /\ page' = [s \in Sockets |-> IF page[s] = "away" THEN "away" ELSE "left"]
    /\ registry' = [c \in Clients |-> NoSocket]
    /\ count' = [a \in Addresses |-> 0]
    /\ UNCHANGED <<reply, crossed>>

Next ==
    \/ \E s \in Sockets :
         \/ Admit(s) \/ Refuse(s) \/ Connect(s) \/ Message(s) \/ Answered(s)
         \/ Disconnected(s) \/ Raises(s) \/ Rejected(s)
         \/ Leave(s)
    \/ \E r \in Replies, c \in Clients : Reply(r, c)
    \/ Restart

Spec == Init /\ [][Next]_vars

\* The event loop resumes a coroutine whose await is over: accept() and the
\* sends end, a closed socket ends receive_text, and handle_message returns:
\* of the databases, whose queries have no time limit in the code, it is
\* assumed that they answer or break the connection.
Fairness == \A s \in Sockets :
    WF_vars(Connect(s) \/ Answered(s) \/ Disconnected(s) \/ Rejected(s))

FairSpec == Spec /\ Fairness

---------------------------------------------------------------------------
(* Properties                                                              *)

\* The type of every variable; an entry of the registry is a socket of its
\* client, and an address never has more than MaxSockets.
TypeOK ==
    /\ endpoint \in [Sockets -> {"none", "closed"} \cup Counted]
    /\ page \in [Sockets -> {"away", "there", "left"}]
    /\ registry \in [Clients -> Sockets \cup {NoSocket}]
    /\ \A c \in Clients : registry[c] # NoSocket => ClientOf[registry[c]] = c
    /\ count \in [Addresses -> 0..MaxSockets]
    /\ reply \in [Replies -> {"none", "sent", "failed", "unreachable"}]
    /\ crossed \subseteq Sockets
    /\ restarts \in 0..MaxRestarts

\* "connexions simultanees par IP": the count of an address is the number of
\* sockets an endpoint serves for it, through refusals, exceptions and
\* closings: an address is neither locked out by a place that was not given
\* back nor let in for one given back twice.
CountIsExact ==
    \A a \in Addresses : count[a] = Cardinality(Served(a))

\* "connexions WebSocket actives": no entry outlives the endpoint of its
\* socket, so a reply is never handed to one that nobody serves any more.
RegistryIsLive ==
    \A c \in Clients : registry[c] # NoSocket => endpoint[registry[c]] \in Accepted

\* A socket that an endpoint serves is the one agents reach, as long as no
\* other socket of the client was served at the same time. Two that meet may
\* hide one another: the entry is removed by client, not by socket.
AloneIsReachable ==
    \A s \in Sockets \ crossed : endpoint[s] \in Accepted => registry[ClientOf[s]] = s

\* "Client web injoignable : il n'est plus connecte au chat du site": an agent
\* is told so only when no endpoint serves a socket of the client, but those
\* that met another one.
UnreachableIsGone ==
    [][\A r \in Replies, c \in Clients :
         Reply(r, c) /\ reply'[r] = "unreachable"
           => \A s \in Sockets \ crossed : ClientOf[s] = c => endpoint[s] \notin Accepted]_vars

\* A page that leaves, in the middle of an answer too, gives its place back.
PlaceIsFreed ==
    \A s \in Sockets : (page[s] = "left") ~> (endpoint[s] = "closed")
=============================================================================
