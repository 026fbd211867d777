------------------------------ MODULE Channels ------------------------------
(***************************************************************************)
(* The ways in and the customers' table: the webhooks of WhatsApp and      *)
(* Messenger, the chat pages (/ws and POST /chat/), which all call         *)
(* handle_message, and what becomes of each exchange in the table users,   *)
(* whose look-up goes by identifier and channel and whose unique key is    *)
(* the identifier alone.  Answers are the business of Dialogue, take-overs *)
(* of Takeover: a conversation is here under an agent's hand or not.       *)
(***************************************************************************)
EXTENDS Naturals, Sequences, FiniteSets

CONSTANTS
    Numbers,      \* phone numbers and PSIDs, given by Meta
    WebIds,       \* "web:" and an identifier given by the server
    Deliveries,   \* messages as Meta posts them, one delivery each
    Handlers,     \* calls of a route, each used once
    NoChannel, NoDelivery,
    MaxRestarts

ASSUME IdAssumption == Numbers \cap WebIds = {}

Meta == {"whatsapp", "messenger"}
ChannelNames == Meta \cup {"web"}
Ids == Numbers \cup WebIds

ASSUME NoneAssumption ==
    NoDelivery \notin Deliveries /\ NoChannel \notin ChannelNames \cup Ids

VARIABLES
    signed,    \* web identifiers whose signature this process accepts
    mail,      \* a delivery: its sender, its channel, whether it is a text
    meta,      \* what Meta knows of it
    at,        \* where a handler is
    call,      \* its identifier, channel and delivery
    chain,     \* exchanges of an identifier to be written, the first one under way
    looking,   \* identifiers whose writer found no row and is about to insert one
    users,     \* the channel of the row of an identifier
    stored,    \* identifiers with a conversation
    taken,     \* those an agent has taken over
    restarts,
    used,      \* history: the routes an identifier really came by
    lost,      \* history: exchanges that hit the unique key
    raced      \* history: identifiers inserted by POST /users/ under a writer's eyes

front == <<signed, mail, meta, at, call, used>>
back == <<chain, looking, users, stored, lost, raced>>
vars == <<front, back, taken, restarts>>

Open == {"checking", "answering", "sending"}

Init ==
    /\ signed = {}
    /\ mail \in [Deliveries -> [id : Numbers, channel : Meta, text : BOOLEAN]]
    /\ meta = [d \in Deliveries |-> "none"]
    /\ at = [h \in Handlers |-> "new"]
    /\ call = [h \in Handlers |-> [id |-> NoChannel, channel |-> NoChannel, delivery |-> NoDelivery]]
    /\ chain = [i \in Ids |-> <<>>]
    /\ looking = {} /\ stored = {} /\ taken = {}
    /\ users = [i \in Ids |-> NoChannel]
    /\ restarts = 0
    /\ used = [i \in Ids |-> {}]
    /\ lost = {} /\ raced = {}

---------------------------------------------------------------------------
(* The routes                                                              *)

\* new_signed_client_id, for GET /chat/session or a first POST /chat/.
NewSession(i) ==
    /\ i \in WebIds \ signed /\ used[i] = {}
    /\ signed' = signed \cup {i}
    /\ UNCHANGED <<mail, meta, at, call, used, back, taken, restarts>>

\* handle_message is called for i, on the channel that is declared, by a route.
Enters(h, i, declared, route, d) ==
    /\ at[h] = "new"
    /\ at' = [at EXCEPT ![h] = "checking"]
    /\ call' = [call EXCEPT ![h] = [id |-> i, channel |-> declared, delivery |-> d]]
    /\ used' = [used EXCEPT ![i] = @ \cup {route}]
    /\ UNCHANGED <<signed, mail, back, taken, restarts>>

\* A message of a page with a valid signature. On /ws the channel is "web";
\* POST /chat/ takes the one the client declares, under the same identifier.
WebMessage(h, i, declared) ==
    i \in signed /\ Enters(h, i, declared, "web", NoDelivery) /\ UNCHANGED meta

\* Meta posts a delivery, and posts it again as long as it has not been
\* acknowledged, whether a handler is at work on it or not.
Deliver(h, d) ==
    /\ meta[d] # "acknowledged" /\ mail[d].text
    /\ Enters(h, mail[d].id, mail[d].channel, mail[d].channel, d)
    /\ meta' = [meta EXCEPT ![d] = "due"]

\* receive_message of either webhook, the signature of Meta being valid. The
\* identifier is the phone number or the PSID.
WhatsAppMessage(h, d) == mail[d].channel = "whatsapp" /\ Deliver(h, d)
MessengerMessage(h, d) == mail[d].channel = "messenger" /\ Deliver(h, d)

\* A status, an echo, a picture: acknowledged at once.
Ignore(h, d) ==
    /\ meta[d] # "acknowledged" /\ ~mail[d].text /\ at[h] = "new"
    /\ at' = [at EXCEPT ![h] = "returned"]
    /\ meta' = [meta EXCEPT ![d] = "acknowledged"]
    /\ UNCHANGED <<signed, mail, call, used, back, taken, restarts>>

\* Variant: the route ends with a 500, which Meta takes for a failure.
Returns_Failing(h) ==
    /\ at' = [at EXCEPT ![h] = "returned"]
    /\ meta' = meta

\* The route returns: 200 for Meta, whatever happened.
Returns(h) ==
    /\ at' = [at EXCEPT ![h] = "returned"]
    /\ meta' = [d \in Deliveries |-> IF d = call[h].delivery THEN "acknowledged" ELSE meta[d]]

\* _schedule_persist.
Schedules(h) ==
    chain' = [chain EXCEPT ![call[h].id] = Append(@, call[h].channel)]

\* agent_has_the_conversation finds the customer by identifier and channel;
\* if an agent has the conversation, the exchange is stored without an answer.
Silent(h) ==
    /\ at[h] = "checking"
    /\ call[h].id \in taken /\ users[call[h].id] = call[h].channel
    /\ Schedules(h) /\ Returns(h)
    /\ UNCHANGED <<signed, mail, call, used, looking, users, stored, lost, raced, taken, restarts>>

\* Else, or when the database fails, the bot sets to work.
BotWorks(h) ==
    /\ at[h] = "checking"
    /\ at' = [at EXCEPT ![h] = "answering"]
    /\ UNCHANGED <<signed, mail, meta, call, used, back, taken, restarts>>

Answers(h) ==
    /\ at[h] = "answering" /\ Schedules(h)
    /\ at' = [at EXCEPT ![h] = "sending"]
    /\ UNCHANGED <<signed, mail, meta, call, used, looking, users, stored, lost, raced, taken, restarts>>

\* handle_message raises: logged, and 200 all the same.
Raises(h) ==
    /\ at[h] = "answering" /\ Returns(h)
    /\ UNCHANGED <<signed, mail, call, used, back, taken, restarts>>

\* _send_whatsapp_message, _send_messenger_message, or the web page: sent, or
\* an error that is only logged.
Replies(h) ==
    /\ at[h] = "sending" /\ Returns(h)
    /\ UNCHANGED <<signed, mail, call, used, back, taken, restarts>>

---------------------------------------------------------------------------
(* The table                                                               *)

\* The write at the head of the chain of i is over.
Pops(i) == chain' = [chain EXCEPT ![i] = Tail(@)] /\ UNCHANGED <<front, taken, restarts>>

\* get_or_create finds the row: identifier and channel.
Found(i) ==
    /\ chain[i] # <<>> /\ i \notin looking /\ users[i] = Head(chain[i])
    /\ Pops(i) /\ stored' = stored \cup {i}
    /\ UNCHANGED <<looking, users, lost, raced>>

\* get_by_external_id finds nothing: no row, or one of another channel.
NotFound(i) ==
    /\ chain[i] # <<>> /\ i \notin looking /\ users[i] # Head(chain[i])
    /\ looking' = looking \cup {i}
    /\ UNCHANGED <<front, chain, users, stored, lost, raced, taken, restarts>>

\* Variant: the rollback of the failed insertion takes the existing row along.
Insert_Overwrites(i) ==
    /\ i \in looking /\ looking' = looking \ {i} /\ Pops(i)
    /\ users' = [users EXCEPT ![i] = Head(chain[i])]
    /\ IF users[i] = NoChannel THEN stored' = stored \cup {i} /\ UNCHANGED lost
       ELSE lost' = lost \cup {<<i, Head(chain[i])>>} /\ UNCHANGED stored
    /\ UNCHANGED raced

\* The insertion, with the conversation in the same transaction; the unique
\* key refuses a second row for the identifier and the exchange is dropped.
Insert(i) ==
    /\ i \in looking /\ looking' = looking \ {i} /\ Pops(i)
    /\ IF users[i] = NoChannel
       THEN users' = [users EXCEPT ![i] = Head(chain[i])] /\ stored' = stored \cup {i} /\ UNCHANGED lost
       ELSE lost' = lost \cup {<<i, Head(chain[i])>>} /\ UNCHANGED <<users, stored>>
    /\ UNCHANGED raced

\* The database fails under the write: dropped, with a warning.
WriteFails(i) ==
    /\ chain[i] # <<>> /\ Pops(i) /\ looking' = looking \ {i}
    /\ UNCHANGED <<users, stored, lost, raced>>

\* POST /users/: create, refused if the identifier has a row.
CreateUser(i, channel) ==
    /\ users[i] = NoChannel
    /\ users' = [users EXCEPT ![i] = channel]
    /\ raced' = IF i \in looking THEN raced \cup {i} ELSE raced
    /\ UNCHANGED <<front, chain, looking, stored, lost, taken, restarts>>

---------------------------------------------------------------------------
(* Agents and the process                                                  *)

\* Variant: the declared channel is believed.
RealChannel_Declared(i) == users[i]

\* _real_channel: "web:" is always the chat of the site.
RealChannel(i) == IF i \in WebIds THEN "web" ELSE users[i]

\* An agent answers the customer of a conversation and takes it over, or hands
\* it back.
TakeOver(i) == i \in stored \ taken /\ taken' = taken \cup {i} /\ UNCHANGED <<front, back, restarts>>
HandBack(i) == i \in taken /\ taken' = taken \ {i} /\ UNCHANGED <<front, back, restarts>>

\* Handlers and chains die with the process; without WS_SESSION_SECRET the
\* signatures given so far do too.
Restart ==
    /\ restarts < MaxRestarts /\ restarts' = restarts + 1
    /\ signed' \in {signed, {}}
    /\ at' = [h \in Handlers |-> IF at[h] \in Open THEN "stopped" ELSE at[h]]
    /\ chain' = [i \in Ids |-> <<>>] /\ looking' = {}
    /\ UNCHANGED <<mail, meta, call, used, users, stored, lost, raced, taken>>

Next ==
    \/ \E i \in Ids :
         \/ NewSession(i) \/ TakeOver(i) \/ HandBack(i)
         \/ Found(i) \/ NotFound(i) \/ Insert(i) \/ WriteFails(i)
         \/ \E c \in ChannelNames :
              \/ CreateUser(i, c)
              \/ \E h \in Handlers : WebMessage(h, i, c)
    \/ \E h \in Handlers :
         \/ \E d \in Deliveries : WhatsAppMessage(h, d) \/ MessengerMessage(h, d) \/ Ignore(h, d)
         \/ Silent(h) \/ BotWorks(h) \/ Answers(h) \/ Raises(h) \/ Replies(h)
    \/ Restart

\* The awaits of a handler end.  The HTTP clients time out; of the databases,
\* whose queries the code gives no time limit, it is assumed that they answer
\* or break the connection.
Fairness == \A h \in Handlers :
    WF_vars(Silent(h) \/ BotWorks(h) \/ Answers(h) \/ Raises(h) \/ Replies(h))

Spec == Init /\ [][Next]_vars /\ Fairness

---------------------------------------------------------------------------
(* Properties                                                              *)

\* "Recupere un user existant OU en cree un nouveau": an exchange hits the
\* unique key only when the customer is registered under another channel than
\* the one it came by, or was being registered by POST /users/ meanwhile. Two
\* first messages of one customer never do, as their writes wait in line.
LostOnlyByConflict == \A l \in lost : users[l[1]] # l[2] \/ l[1] \in raced

\* "Repondre sur WhatsApp enverrait le message a un faux numero": the channel
\* on which an agent answers a stored conversation is one its customer really
\* came by, whatever channel was declared.
ReplyReaches == \A i \in stored : RealChannel(i) \in used[i]

\* "Retourne TOUJOURS 200": a delivery that is being handled is acknowledged,
\* after exceptions too, unless the process stops.
AlwaysAcknowledged ==
    \A h \in Handlers : at[h] \in Open ~> (at[h] = "stopped" \/
        (at[h] = "returned" /\ (call[h].delivery # NoDelivery => meta[call[h].delivery] = "acknowledged")))
=============================================================================
