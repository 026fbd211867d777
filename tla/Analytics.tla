----------------------------- MODULE Analytics -----------------------------
(***************************************************************************)
(* The statistics of /admin/statistiques (analytics) over a database that  *)
(* goes on changing: GET /admin/stats reads the conversations of a period, *)
(* then the messages, in two READ COMMITTED queries, while exchanges are   *)
(* stored after their answer and agents reply and resolve.  Two messages   *)
(* of one customer may be answered at the same time.                       *)
(*                                                                         *)
(* A customer has one conversation here.  The kind of a reply stands for   *)
(* its metadata and its text; a question is told from another by its       *)
(* customer and its time only.                                             *)
(***************************************************************************)
EXTENDS Integers, FiniteSets

CONSTANTS
    Customers,
    Exchanges,        \* messages of customers
    Kinds,            \* replies of the bot, members of AllKinds
    Period,           \* days of the request, as ticks of the clock
    Day,              \* a day in Tunis, as ticks
    MaxTime           \* bound of the clock

AllKinds == {"product", "no_info", "low_rag_confidence", "repeated_rag_failure", "explicit",
             "frustration", "order_transfer", "thanks", "order_tracking"}

ASSUME KindAssumption == Kinds \subseteq AllKinds
ASSUME CustomerAssumption == IsFiniteSet(Customers)
ASSUME ExchangeAssumption == IsFiniteSet(Exchanges)
ASSUME TimeAssumption == {Period, Day, MaxTime} \subseteq Nat \ {0}

VARIABLES
    clock,
    exchange,         \* where each of them is: "none", "asked", "answered" or "stored"
    conversations,    \* table: status and started_at of the conversation of a customer
    messages,         \* table
    request,          \* the statistics request: since, until, the rows it read, its stage
    before, after,    \* conversations a human was in at its first, at its second read
    report

vars == <<clock, exchange, conversations, messages, request, before, after, report>>

Idle == [stage |-> "idle", since |-> 0, until |-> 0, rows |-> {}]

Init ==
    /\ clock = Period
    /\ exchange = [e \in Exchanges |-> [stage |-> "none"]]
    /\ conversations = [c \in Customers |-> [status |-> "none", started |-> 0]]
    /\ messages = {}
    /\ request = Idle /\ before = {} /\ after = {}
    /\ report = [total |-> 0]

---------------------------------------------------------------------------
(* build_stats and build_leads, pure functions                             *)

\* The reasons of a transfer.  The reason "order_tracking" is order_transfer
\* here, as a reply about an order is no transfer.
Transfers == {"low_rag_confidence", "repeated_rag_failure", "explicit", "frustration", "order_transfer"}
Unanswered == {"low_rag_confidence", "repeated_rag_failure", "no_info"}
EscalatedStatuses == {"escalated", "agent", "resolved"}

\* Variant: the conversations are not told apart.
Pairs_Mixed(ms) ==
    {pair \in ms \X ms : LET q == pair[1] r == pair[2] IN
        /\ q.role = "user" /\ r.role = "assistant" /\ q.at < r.at
        /\ \A m \in ms : m.role = "agent" \/ m.at \notin (q.at + 1)..(r.at - 1)}

\* question_reply_pairs: a reply and the last message of the customer before
\* it, unless another reply took that one.
Pairs(ms) ==
    {pair \in ms \X ms : LET q == pair[1] r == pair[2] IN
        /\ q.role = "user" /\ r.role = "assistant" /\ q.at < r.at /\ q.customer = r.customer
        /\ \A m \in ms : \/ m.role = "agent" \/ m.customer # r.customer
                         \/ m.at \notin (q.at + 1)..(r.at - 1)}

\* Variant: the metadata of the messages of the period alone.
EscalatedIds_Messages(rows, ms) ==
    {m.customer : m \in {n \in ms : n.role = "assistant" /\ n.kind \in Transfers}}

EscalatedIds(rows, ms) ==
    {m.customer : m \in {n \in ms : n.role = "assistant" /\ n.kind \in Transfers}}
        \cup {row.customer : row \in {r \in rows : r.status \in EscalatedStatuses}}

reply_type(kind) ==
    CASE kind \in Transfers -> "transfert"
      [] kind = "thanks" -> "politesse"
      [] kind = "order_tracking" -> "suivi_commande"
      [] OTHER -> "rag"

DayOf(t) == t \div Day

build_stats(rows, ms, since, until) ==
    LET clients == {m \in ms : m.role = "user"}
        replies == {m \in ms : m.role = "assistant"}
        escalated == Cardinality(EscalatedIds(rows, ms) \cap {row.customer : row \in rows})
    IN  [total |-> Cardinality(rows), escalated |-> escalated,
         automated |-> Cardinality(rows) - escalated,
         client_messages |-> Cardinality(clients),
         agent_replies |-> Cardinality({m \in ms : m.role = "agent"}),
         replies_by_type |-> [t \in {"transfert", "politesse", "suivi_commande", "rag"} |->
                                 Cardinality({m \in replies : reply_type(m.kind) = t})],
         daily |-> [d \in DayOf(since)..DayOf(until) |-> Cardinality({m \in clients : DayOf(m.at) = d})],
         unanswered |-> {pair \in Pairs(ms) : pair[2].kind \in Unanswered}]

\* A question and an answer that names a product of the question.
build_leads(ms) ==
    LET asked(c) == Cardinality({pair \in Pairs(ms) : pair[1].customer = c /\ pair[2].kind = "product"})
    IN  [c \in {customer \in Customers : asked(customer) > 0} |-> asked(c)]

---------------------------------------------------------------------------
(* The exchanges                                                           *)

Advances == request.stage # "done" /\ clock < MaxTime /\ clock' = clock + 1
Message(c, role, kind, at) == [customer |-> c, role |-> role, kind |-> kind, at |-> at]

\* handle_message: a message arrives, and the bot keeps silent if an agent has
\* the conversation; a take-over that is over is undone.
Receive(e, c, silent) ==
    /\ exchange[e].stage = "none" /\ Advances
    /\ silent => conversations[c].status = "agent"
    /\ exchange' = [exchange EXCEPT ![e] =
           [stage |-> "asked", customer |-> c, received |-> clock', answered |-> 0,
            kind |-> IF silent THEN "silent" ELSE "none"]]
    /\ conversations' = [conversations EXCEPT ![c].status =
           IF @ = "agent" /\ ~silent THEN "escalated" ELSE @]
    /\ UNCHANGED <<messages, request, before, after, report>>

\* The answer: later than the message by its clock, and scheduled to be stored.
Answer(e, kind) ==
    /\ exchange[e].stage = "asked" /\ Advances
    /\ exchange' = [exchange EXCEPT ![e].stage = "answered", ![e].answered = clock',
                                    ![e].kind = IF @ = "silent" THEN @ ELSE kind]
    /\ UNCHANGED <<conversations, messages, request, before, after, report>>

\* _persist_exchange, after those that the customer was answered before.  The
\* conversation is dated by the transaction, its messages by the exchange.
Persist(e) ==
    LET x == exchange[e] IN
    /\ request.stage # "done" /\ x.stage = "answered"
    /\ \A f \in Exchanges \ {e} : exchange[f].stage = "answered" =>
           (exchange[f].customer = x.customer => exchange[f].answered > x.answered)
    /\ messages' = messages \cup {Message(x.customer, "user", "none", x.received)} \cup
           (IF x.kind = "silent" THEN {} ELSE {Message(x.customer, "assistant", x.kind, x.answered)})
    /\ conversations' = [conversations EXCEPT ![x.customer] =
           [status |-> IF x.kind \in Transfers THEN "escalated" ELSE IF @.status = "none" THEN "active" ELSE @.status,
            started |-> IF @.status = "none" THEN clock ELSE @.started]]
    /\ exchange' = [exchange EXCEPT ![e].stage = "stored"]
    /\ UNCHANGED <<clock, request, before, after, report>>

\* An agent writes in a conversation, escalated or not, and takes it over.
AgentReply(c) ==
    /\ conversations[c].status # "none" /\ Advances
    /\ messages' = messages \cup {Message(c, "agent", "none", clock')}
    /\ conversations' = [conversations EXCEPT ![c].status = "agent"]
    /\ UNCHANGED <<exchange, request, before, after, report>>

Resolve(c) ==
    /\ request.stage # "done" /\ conversations[c].status \in {"escalated", "agent"}
    /\ conversations' = [conversations EXCEPT ![c].status = "resolved"]
    /\ UNCHANGED <<clock, exchange, messages, request, before, after, report>>

---------------------------------------------------------------------------
(* The request                                                             *)

\* A transfer or an agent's message in the whole history.
WithHuman ==
    {m.customer : m \in {n \in messages : n.role = "agent" \/ n.kind \in Transfers}}

\* compute_stats and the first query of load_period: the conversations that
\* started in the period.
ReadConversations ==
    /\ request.stage = "idle"
    /\ request' = [stage |-> "reading", since |-> clock - Period, until |-> clock,
           rows |-> {[customer |-> c, status |-> conversations[c].status] :
                        c \in {d \in Customers : /\ conversations[d].status # "none"
                                                 /\ conversations[d].started >= clock - Period}}]
    /\ before' = WithHuman
    /\ UNCHANGED <<clock, exchange, conversations, messages, after, report>>

InPeriod == {m \in messages : m.at >= request.since}

\* The second query and the figures.
ReadMessages ==
    /\ request.stage = "reading"
    /\ request' = [request EXCEPT !.stage = "done"]
    /\ after' = WithHuman
    /\ report' = [stats |-> build_stats(request.rows, InPeriod, request.since, request.until),
                  leads |-> build_leads(InPeriod)]
    /\ UNCHANGED <<clock, exchange, conversations, messages, before>>

Next ==
    \/ \E e \in Exchanges, c \in Customers, silent \in BOOLEAN : Receive(e, c, silent)
    \/ \E e \in Exchanges, kind \in Kinds : Answer(e, kind)
    \/ \E e \in Exchanges : Persist(e)
    \/ \E c \in Customers : AgentReply(c) \/ Resolve(c)
    \/ ReadConversations \/ ReadMessages

Spec == Init /\ [][Next]_vars

---------------------------------------------------------------------------
(* Properties                                                              *)

Done == request.stage = "done"
Listed == {row.customer : row \in request.rows}

\* "conversations jamais transferees": the rate of automation lies between
\* those of the two reads.  A conversation that a human was in when the
\* request began is never counted as automated, even if its transfer is older
\* than the period or was resolved since; one that no human was in when it
\* ended always is, whatever is stored in between.
RateBetweenReads ==
    Done => report.stats.automated \in Cardinality(Listed \ after)..Cardinality(Listed \ before)

\* Two exchanges of one customer at the same time.
Overlapped(c) ==
    \E e, f \in {x \in Exchanges : exchange[x].stage # "none"} :
        /\ e # f /\ exchange[e].customer = c /\ exchange[f].customer = c
        /\ exchange[e].received < exchange[f].received
        /\ exchange[e].stage = "asked" \/ exchange[f].received < exchange[e].answered

\* The exchanges of c that are stored, wholly in the period, with such a reply.
Stored(c, kinds) ==
    {e \in Exchanges : /\ exchange[e].stage = "stored" /\ exchange[e].customer = c
                       /\ exchange[e].kind \in kinds /\ exchange[e].received >= request.since}

\* A product asked for by a customer, and a question the bot could not answer,
\* are counted once per exchange, for the customer who asked, whatever other
\* customers, silent messages and agents write in between; and the days add up
\* to the messages of the period, but for those of a day that begins while the
\* request runs.
FiguresAreExchanges ==
    Done =>
        /\ \A c \in Customers : ~Overlapped(c) =>
             /\ (IF c \in DOMAIN report.leads THEN report.leads[c] ELSE 0) = Cardinality(Stored(c, {"product"}))
             /\ {<<pair[1].at, pair[2].at>> : pair \in {p \in report.stats.unanswered : p[2].customer = c}}
                    = {<<exchange[e].received, exchange[e].answered>> : e \in Stored(c, Unanswered)}
        /\ \A m \in InPeriod : m.role = "user" =>
             (DayOf(m.at) \in DOMAIN report.stats.daily \/ m.at > request.until)
=============================================================================
