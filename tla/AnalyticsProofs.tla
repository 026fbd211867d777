-------------------------- MODULE AnalyticsProofs --------------------------
(***************************************************************************)
(* The figures of a report, for any number of customers and exchanges.     *)
(*                                                                         *)
(* The rate: a conversation's status remembers that a human was in it,     *)
(* however old the messages are (Remembered), and a status that says so is *)
(* never without a message of it (Justified).  So the first read, which    *)
(* sees statuses, and the second, which sees messages, count as escalated  *)
(* all that were before the first and nothing that is not by the second.   *)
(*                                                                         *)
(* The exchanges: the table of messages holds the two messages of every    *)
(* stored exchange (Kept), no two of them have one time (Dated), and the   *)
(* exchanges of a customer that do not overlap lie apart.  A pair that     *)
(* question_reply_pairs makes is therefore an exchange, and each is made.  *)
(***************************************************************************)
EXTENDS Analytics, FiniteSetTheorems, TLAPS

Statuses == {"none", "active"} \cup EscalatedStatuses

\* A human was in the conversation of c.
Human(c) == \E n \in messages : n.customer = c /\ (n.role = "agent" \/ n.kind \in Transfers)

Asked == [stage : {"asked", "answered", "stored"}, customer : Customers, received : Int, answered : Int,
          kind : AllKinds \cup {"none", "silent"}]

TablesOK ==
    /\ conversations \in [Customers -> [status : Statuses, started : Int]]
    /\ clock \in Int
    /\ exchange \in [Exchanges -> {[stage |-> "none"]} \cup Asked]

Remembered == \A c \in Customers : Human(c) => conversations[c].status \in EscalatedStatuses
Justified == \A c \in Customers : conversations[c].status \in EscalatedStatuses => Human(c)

\* The rows of the request: one for a customer, and what its status says.
RowsOK ==
    /\ request \in [stage : {"idle", "reading", "done"}, since : Int, until : Int,
                    rows : SUBSET [customer : Customers, status : Statuses]]
    /\ \A p, q \in request.rows : p.customer = q.customer => p = q
RowsTell ==
    \A row \in request.rows :
        /\ row.customer \in before => row.status \in EscalatedStatuses
        /\ row.status \in EscalatedStatuses => Human(row.customer)

---------------------------------------------------------------------------
(* Pure functions                                                          *)

\* One row for a customer: as many rows as customers.
LEMMA RowsAreCustomers ==
    ASSUME NEW rows, rows \subseteq [customer : Customers, status : Statuses],
           \A p, q \in rows : p.customer = q.customer => p = q
    PROVE  /\ IsFiniteSet({row.customer : row \in rows})
           /\ Cardinality(rows) = Cardinality({row.customer : row \in rows})
  <1> DEFINE L == {row.customer : row \in rows}
             f == [row \in rows |-> row.customer]
  <1>1. IsFiniteSet(L)
    BY CustomerAssumption, FS_Subset
  <1>2. f \in Injection(rows, L)
    BY DEF Injection, IsInjective
  <1>3. f \in Surjection(rows, L)
    BY DEF Surjection
  <1>4. QED
    BY <1>1, <1>2, <1>3, FS_Injection

LEMMA AutomatedFigure ==
    ASSUME NEW rows, NEW ms, NEW since, NEW until
    PROVE  build_stats(rows, ms, since, until).automated =
             Cardinality(rows) - Cardinality(EscalatedIds(rows, ms) \cap {row.customer : row \in rows})
  BY DEF build_stats

\* A set between two others has a cardinality between theirs.
LEMMA Between ==
    ASSUME NEW L, NEW E, NEW F, NEW A, IsFiniteSet(L), L \cap F \subseteq E, E \cap L \subseteq A
    PROVE  Cardinality(L) - Cardinality(E \cap L) \in Cardinality(L \ A)..Cardinality(L \ F)
  <1>0. L \cap E = E \cap L
    OBVIOUS
  <1>1. Cardinality(L \ E) = Cardinality(L) - Cardinality(E \cap L)
    BY <1>0, FS_Difference
  <1>2. L \ A \subseteq L \ E /\ L \ E \subseteq L \ F
    OBVIOUS
  <1>3. IsFiniteSet(L \ E) /\ IsFiniteSet(L \ F)
    BY FS_Difference
  <1>4. Cardinality(L \ A) <= Cardinality(L \ E)
    BY <1>2, <1>3, FS_Subset
  <1>5. Cardinality(L \ E) <= Cardinality(L \ F)
    BY <1>2, <1>3, FS_Subset
  <1>6. Cardinality(L \ E) \in Nat /\ Cardinality(L \ A) \in Nat /\ Cardinality(L \ F) \in Nat
    BY <1>2, <1>3, FS_Subset, FS_CardinalityType
  <1>7. QED
    BY <1>1, <1>4, <1>5, <1>6

---------------------------------------------------------------------------
(* The tables                                                              *)

LEMMA InitTables == Init => TablesOK /\ Remembered /\ Justified /\ RowsOK /\ RowsTell
  <1> SUFFICES ASSUME Init PROVE TablesOK /\ Remembered /\ Justified /\ RowsOK /\ RowsTell
    OBVIOUS
  <1>1. TablesOK
    BY TimeAssumption DEF Init, TablesOK, Statuses
  <1>2. Remembered /\ Justified
    BY DEF Init, Remembered, Justified, Human, EscalatedStatuses
  <1>3. request.rows = {}
    BY DEF Init, Idle
  <1>4. QED
    BY <1>1, <1>2, <1>3 DEF Init, Idle, RowsOK, RowsTell

LEMMA MessageFields ==
    ASSUME NEW c, NEW role, NEW kind, NEW time
    PROVE  /\ Message(c, role, kind, time).customer = c /\ Message(c, role, kind, time).role = role
           /\ Message(c, role, kind, time).kind = kind
  BY DEF Message

LEMMA ReceiveStep ==
    ASSUME TablesOK, Remembered, Justified, NEW e \in Exchanges, NEW c \in Customers, NEW silent \in BOOLEAN,
           Receive(e, c, silent)
    PROVE  TablesOK' /\ Remembered' /\ Justified'
  <1>1. clock' \in Int
    BY DEF TablesOK, Receive, Advances
  <1>2. /\ conversations' \in [Customers -> [status : Statuses, started : Int]]
        /\ \A d \in Customers : conversations'[d].status \in EscalatedStatuses
                                  <=> conversations[d].status \in EscalatedStatuses
    <2>1. conversations' = [conversations EXCEPT ![c] =
              [conversations[c] EXCEPT !.status = IF conversations[c].status = "agent" /\ ~silent
                                                  THEN "escalated" ELSE conversations[c].status]]
      BY DEF Receive
    <2>2. QED
      BY <2>1 DEF TablesOK, Statuses, EscalatedStatuses
  <1>3. exchange' \in [Exchanges -> {[stage |-> "none"]} \cup Asked]
    <2> DEFINE x == [stage |-> "asked", customer |-> c, received |-> clock', answered |-> 0,
                     kind |-> IF silent THEN "silent" ELSE "none"]
    <2>1. x \in Asked
      BY <1>1 DEF Asked
    <2>2. exchange' = [exchange EXCEPT ![e] = x]
      BY DEF Receive
    <2> HIDE DEF x
    <2>3. QED
      BY <2>1, <2>2 DEF TablesOK
  <1>4. messages' = messages
    BY DEF Receive
  <1>5. TablesOK'
    BY <1>1, <1>2, <1>3 DEF TablesOK
  <1>6. QED
    BY <1>2, <1>4, <1>5 DEF Remembered, Justified, Human

LEMMA AnswerStep ==
    ASSUME TablesOK, Remembered, Justified, NEW e \in Exchanges, NEW kind \in Kinds, Answer(e, kind)
    PROVE  TablesOK' /\ Remembered' /\ Justified'
  <1>1. UNCHANGED <<conversations, messages>> /\ clock' \in Int
    BY DEF TablesOK, Answer, Advances
  <1>2. exchange[e] \in Asked
    BY DEF TablesOK, Answer
  <1>3. exchange' \in [Exchanges -> {[stage |-> "none"]} \cup Asked]
    <2> DEFINE x == [exchange[e] EXCEPT !.stage = "answered", !.answered = clock',
                                        !.kind = IF exchange[e].kind = "silent" THEN exchange[e].kind ELSE kind]
    <2>1. x \in Asked
      BY <1>1, <1>2, KindAssumption DEF Asked
    <2>2. exchange' = [exchange EXCEPT ![e] = x]
      BY <1>2 DEF Answer, TablesOK, Asked
    <2> HIDE DEF x
    <2>3. QED
      BY <2>1, <2>2 DEF TablesOK
  <1>4. QED
    BY <1>1, <1>3 DEF TablesOK, Remembered, Justified, Human

\* The only step that stores a transfer sets its status.
LEMMA PersistStep ==
    ASSUME TablesOK, Remembered, Justified, NEW e \in Exchanges, Persist(e)
    PROVE  TablesOK' /\ Remembered' /\ Justified' /\ messages \subseteq messages'
  <1> DEFINE x == exchange[e]
             c == exchange[e].customer
             transfer == exchange[e].kind \in Transfers
             old == conversations[c]
             new == [status |-> IF transfer THEN "escalated" ELSE IF old.status = "none" THEN "active" ELSE old.status,
                     started |-> IF old.status = "none" THEN clock ELSE old.started]
  <1>1. x \in Asked /\ c \in Customers /\ x.stage = "answered" /\ UNCHANGED clock
    BY DEF TablesOK, Persist, Asked
  <1>2. conversations' = [conversations EXCEPT ![c] = new]
    BY DEF Persist
  <1>3. messages' = messages \cup {Message(c, "user", "none", x.received)} \cup
           (IF x.kind = "silent" THEN {} ELSE {Message(c, "assistant", x.kind, x.answered)})
    BY DEF Persist
  <1>4. exchange' \in [Exchanges -> {[stage |-> "none"]} \cup Asked]
    <2>1. [x EXCEPT !.stage = "stored"] \in Asked
      BY <1>1 DEF Asked
    <2>2. exchange' = [exchange EXCEPT ![e] = [x EXCEPT !.stage = "stored"]]
      BY DEF Persist
    <2>3. QED
      BY <2>1, <2>2 DEF TablesOK
  <1>5. old \in [status : Statuses, started : Int] /\ new \in [status : Statuses, started : Int]
    BY <1>1 DEF TablesOK, Statuses, EscalatedStatuses
  <1>6. new.status \in EscalatedStatuses <=> (transfer \/ old.status \in EscalatedStatuses)
    BY <1>5 DEF Statuses, EscalatedStatuses
  <1>7. \A d \in Customers : Human(d)' <=> (Human(d) \/ (d = c /\ transfer))
    <2>1. "user" # "agent" /\ "none" \notin Transfers /\ "silent" \notin Transfers
      BY DEF Transfers
    <2>2. QED
      BY <1>3, <2>1, MessageFields DEF Human
  <1> HIDE DEF x, c, new, old
  <1>8. TablesOK'
    BY <1>1, <1>2, <1>4, <1>5 DEF TablesOK
  <1>9. /\ conversations'[c] = new /\ conversations[c] = old
        /\ \A d \in Customers \ {c} : conversations'[d] = conversations[d]
    BY <1>1, <1>2 DEF TablesOK, old
  <1>10. Remembered' /\ Justified'
    BY <1>1, <1>6, <1>7, <1>9 DEF Remembered, Justified
  <1>11. QED
    BY <1>3, <1>8, <1>10

LEMMA AgentStep ==
    ASSUME TablesOK, Remembered, Justified, NEW c \in Customers, AgentReply(c) \/ Resolve(c)
    PROVE  TablesOK' /\ Remembered' /\ Justified' /\ messages \subseteq messages'
  <1> DEFINE status == IF AgentReply(c) THEN "agent" ELSE "resolved"
  <1>1. clock' \in Int /\ UNCHANGED exchange
    BY DEF TablesOK, AgentReply, Resolve, Advances
  <1>2. /\ conversations' \in [Customers -> [status : Statuses, started : Int]]
        /\ \A d \in Customers \ {c} : conversations'[d] = conversations[d]
        /\ conversations'[c].status \in EscalatedStatuses
    BY DEF TablesOK, AgentReply, Resolve, Statuses, EscalatedStatuses
  <1>3. messages \subseteq messages' /\ \A d \in Customers \ {c} : Human(d)' <=> Human(d)
    <2>1. CASE Resolve(c)
      BY <2>1 DEF Resolve, Human
    <2>2. CASE AgentReply(c)
      <3>1. messages' = messages \cup {Message(c, "agent", "none", clock')}
        BY <2>2 DEF AgentReply
      <3>2. QED
        BY <3>1, MessageFields DEF Human
    <2>3. QED
      BY <2>1, <2>2
  <1>4. Human(c)'
    <2>1. CASE Resolve(c)
      BY <2>1 DEF Resolve, Human, Justified, EscalatedStatuses
    <2>2. CASE AgentReply(c)
      <3>1. messages' = messages \cup {Message(c, "agent", "none", clock')}
        BY <2>2 DEF AgentReply
      <3>2. QED
        BY <3>1, MessageFields DEF Human
    <2>3. QED
      BY <2>1, <2>2
  <1>5. TablesOK'
    BY <1>1, <1>2 DEF TablesOK
  <1>6. QED
    BY <1>2, <1>3, <1>4, <1>5 DEF Remembered, Justified

LEMMA StepTables ==
    TablesOK /\ Remembered /\ Justified /\ [Next]_vars => TablesOK' /\ Remembered' /\ Justified' /\ messages \subseteq messages'
  <1> SUFFICES ASSUME TablesOK, Remembered, Justified, [Next]_vars
               PROVE  TablesOK' /\ Remembered' /\ Justified' /\ messages \subseteq messages'
    OBVIOUS
  <1>1. CASE UNCHANGED <<clock, exchange, conversations, messages>>
    BY <1>1 DEF TablesOK, Remembered, Justified, Human
  <1>2. CASE UNCHANGED vars \/ ReadConversations \/ ReadMessages
    BY <1>1, <1>2 DEF ReadConversations, ReadMessages, vars
  <1>3. ASSUME NEW e \in Exchanges, NEW c \in Customers, NEW silent \in BOOLEAN, Receive(e, c, silent)
        PROVE  TablesOK' /\ Remembered' /\ Justified' /\ messages \subseteq messages'
    BY <1>3, ReceiveStep DEF Receive
  <1>4. ASSUME NEW e \in Exchanges, NEW kind \in Kinds, Answer(e, kind)
        PROVE  TablesOK' /\ Remembered' /\ Justified' /\ messages \subseteq messages'
    BY <1>4, AnswerStep DEF Answer
  <1>5. QED
    BY <1>2, <1>3, <1>4, PersistStep, AgentStep DEF Next

---------------------------------------------------------------------------
(* The request                                                             *)

\* The first read takes the statuses as they are.
LEMMA FirstRead ==
    ASSUME TablesOK, Remembered, Justified, ReadConversations
    PROVE  RowsOK' /\ RowsTell'
  <1>1. request'.rows = {[customer |-> c, status |-> conversations[c].status] :
            c \in {d \in Customers : conversations[d].status # "none" /\ conversations[d].started >= clock - Period}}
    BY DEF ReadConversations
  <1>2. ASSUME NEW row \in request'.rows
        PROVE  /\ row.customer \in Customers /\ row = [customer |-> row.customer, status |-> row.status]
               /\ row.status = conversations[row.customer].status
    BY <1>1
  <1>3. RowsOK'
    <2>1. request'.rows \subseteq [customer : Customers, status : Statuses]
      BY <1>2 DEF TablesOK
    <2>2. /\ request' = [stage |-> "reading", since |-> clock - Period, until |-> clock, rows |-> request'.rows]
          /\ clock \in Int /\ clock - Period \in Int
      BY TimeAssumption DEF ReadConversations, TablesOK
    <2>3. \A p, q \in request'.rows : p.customer = q.customer => p = q
      BY <1>2
    <2>4. QED
      BY <2>1, <2>2, <2>3 DEF RowsOK
  <1>4. RowsTell'
    BY <1>2 DEF RowsTell, Remembered, Justified, Human, ReadConversations, WithHuman
  <1>5. QED
    BY <1>3, <1>4

LEMMA StepRows ==
    TablesOK /\ Remembered /\ Justified /\ RowsOK /\ RowsTell /\ [Next]_vars => RowsOK' /\ RowsTell'
  <1> SUFFICES ASSUME TablesOK, Remembered, Justified, RowsOK, RowsTell, [Next]_vars PROVE RowsOK' /\ RowsTell'
    OBVIOUS
  <1>1. messages \subseteq messages'
    BY StepTables
  <1>2. CASE UNCHANGED <<request, before>>
    BY <1>1, <1>2 DEF RowsOK, RowsTell, Human
  <1>3. CASE ReadMessages
    <2>1. request' = [request EXCEPT !.stage = "done"] /\ before' = before
      BY <1>3 DEF ReadMessages
    <2>2. request'.rows = request.rows /\ request' \in [stage : {"idle", "reading", "done"}, since : Int, until : Int,
                    rows : SUBSET [customer : Customers, status : Statuses]]
      BY <2>1 DEF RowsOK
    <2>3. QED
      BY <1>1, <2>1, <2>2 DEF RowsOK, RowsTell, Human
  <1>4. QED
    BY <1>2, <1>3, FirstRead DEF Next, Receive, Answer, Persist, AgentReply, Resolve, vars

\* The second read computes a figure between the two.
LEMMA SecondRead ==
    ASSUME RowsOK, RowsTell, ReadMessages
    PROVE  RateBetweenReads'
  <1> DEFINE rows == request.rows
             L == {row.customer : row \in rows}
             E == EscalatedIds(rows, InPeriod)
  <1>1. Listed' = L /\ before' = before /\ after' = WithHuman
    <2>1. request'.rows = rows
      BY DEF ReadMessages, RowsOK
    <2>2. QED
      BY <2>1 DEF ReadMessages, Listed
  <1>2. IsFiniteSet(L) /\ Cardinality(rows) = Cardinality(L)
    BY RowsAreCustomers DEF RowsOK
  <1>3. L \cap before \subseteq E
    BY DEF RowsTell, EscalatedIds
  <1>4. E \cap L \subseteq WithHuman
    BY DEF RowsTell, EscalatedIds, InPeriod, WithHuman, Human
  <1>5. report'.stats.automated = Cardinality(rows) - Cardinality(E \cap L)
    <2>1. report'.stats = build_stats(rows, InPeriod, request.since, request.until)
      BY DEF ReadMessages
    <2>2. QED
      BY <2>1, AutomatedFigure
  <1> HIDE DEF rows, L, E
  <1>6. Cardinality(L) - Cardinality(E \cap L) \in Cardinality(L \ WithHuman)..Cardinality(L \ before)
    BY <1>2, <1>3, <1>4, Between
  <1>7. QED
    BY <1>1, <1>2, <1>5, <1>6 DEF RateBetweenReads

\* Nothing happens after the report.
LEMMA StepRate == RowsOK /\ RowsTell /\ RateBetweenReads /\ [Next]_vars => RateBetweenReads'
  <1> SUFFICES ASSUME RowsOK, RowsTell, RateBetweenReads, [Next]_vars PROVE RateBetweenReads'
    OBVIOUS
  <1>1. CASE UNCHANGED <<request, before, after, report>>
    BY <1>1 DEF RateBetweenReads, Done, Listed
  <1>2. CASE ReadConversations
    BY <1>2 DEF ReadConversations, RateBetweenReads, Done
  <1>3. QED
    BY <1>1, <1>2, SecondRead DEF Next, Receive, Answer, Persist, AgentReply, Resolve, vars

\* build_stats (analytics.py): the number of automated conversations lies
\* between those of the two reads.
THEOREM RateInvariant == Spec => []RateBetweenReads
  <1> DEFINE Inv == TablesOK /\ Remembered /\ Justified /\ RowsOK /\ RowsTell /\ RateBetweenReads
  <1>1. Init => Inv
    BY InitTables DEF Init, Idle, RateBetweenReads, Done
  <1>2. Inv /\ [Next]_vars => Inv'
    BY StepTables, StepRows, StepRate
  <1>3. QED
    BY <1>1, <1>2, PTL DEF Spec

---------------------------------------------------------------------------
(* The exchanges of the report                                             *)

Told(e) == exchange[e].stage # "none"
UserOf(e) == Message(exchange[e].customer, "user", "none", exchange[e].received)
ReplyOf(e) == Message(exchange[e].customer, "assistant", exchange[e].kind, exchange[e].answered)

\* No two messages of customers have one time, and none is later than its answer.
Dated ==
    /\ \A e \in Exchanges : Told(e) =>
         /\ exchange[e].received <= clock
         /\ exchange[e].stage # "asked" => exchange[e].received < exchange[e].answered
    /\ \A e, f \in Exchanges :
         Told(e) /\ Told(f) /\ exchange[e].received = exchange[f].received => e = f

\* The table holds the two messages of every exchange stored, and agents' ones.
Kept ==
    /\ \A n \in messages : n.role = "agent" \/ \E e \in Exchanges :
         exchange[e].stage = "stored" /\ (n = UserOf(e) \/ (exchange[e].kind # "silent" /\ n = ReplyOf(e)))
    /\ \A e \in Exchanges : exchange[e].stage = "stored" =>
         UserOf(e) \in messages /\ (exchange[e].kind # "silent" => ReplyOf(e) \in messages)

LEMMA ReceiveDated ==
    ASSUME TablesOK, Dated, Kept, NEW e \in Exchanges, NEW c \in Customers, NEW silent \in BOOLEAN,
           Receive(e, c, silent)
    PROVE  Dated' /\ Kept'
  <1>1. PICK x : x = [stage |-> "asked", customer |-> c, received |-> clock', answered |-> 0,
                      kind |-> IF silent THEN "silent" ELSE "none"]
    OBVIOUS
  <1>2. exchange' = [exchange EXCEPT ![e] = x] /\ exchange[e].stage = "none" /\ messages' = messages
    BY <1>1 DEF Receive
  <1>3. x.stage = "asked" /\ x.received = clock'
    BY <1>1
  <1>4. clock \in Int /\ clock' = clock + 1
    BY DEF TablesOK, Receive, Advances
  <1>5. exchange'[e] = x /\ \A f \in Exchanges \ {e} : exchange'[f] = exchange[f]
    BY <1>2 DEF TablesOK
  <1>6. \A f \in Exchanges : Told(f) => exchange[f].received \in Int /\ exchange[f].received < clock'
    BY <1>4 DEF TablesOK, Dated, Told, Asked
  <1>7. Dated'
    BY <1>2, <1>3, <1>4, <1>5, <1>6 DEF Dated, Told
  <1>8. Kept'
    BY <1>2, <1>3, <1>5 DEF Kept, UserOf, ReplyOf
  <1>9. QED
    BY <1>7, <1>8

LEMMA AnswerDated ==
    ASSUME TablesOK, Dated, Kept, NEW e \in Exchanges, NEW kind \in Kinds, Answer(e, kind)
    PROVE  Dated' /\ Kept'
  <1>1. exchange[e] \in Asked /\ exchange[e].stage = "asked" /\ messages' = messages
    BY DEF TablesOK, Answer
  <1>2. clock \in Int /\ clock' = clock + 1
    BY DEF TablesOK, Answer, Advances
  <1>3. /\ exchange'[e].stage = "answered" /\ exchange'[e].received = exchange[e].received
        /\ exchange'[e].answered = clock'
        /\ \A f \in Exchanges \ {e} : exchange'[f] = exchange[f]
    BY <1>1 DEF TablesOK, Answer, Asked
  <1>4. Dated'
    BY <1>1, <1>2, <1>3 DEF Dated, Told, TablesOK, Asked
  <1>5. Kept'
    BY <1>1, <1>3 DEF Kept, UserOf, ReplyOf
  <1>6. QED
    BY <1>4, <1>5

LEMMA PersistDated ==
    ASSUME TablesOK, Dated, Kept, NEW e \in Exchanges, Persist(e)
    PROVE  Dated' /\ Kept'
  <1>1. exchange[e] \in Asked /\ exchange[e].stage = "answered" /\ clock' = clock
    BY DEF TablesOK, Persist
  <1>2. /\ exchange'[e].stage = "stored" /\ exchange'[e].received = exchange[e].received
        /\ exchange'[e].answered = exchange[e].answered /\ exchange'[e].customer = exchange[e].customer
        /\ exchange'[e].kind = exchange[e].kind
        /\ \A f \in Exchanges \ {e} : exchange'[f] = exchange[f]
    BY <1>1 DEF TablesOK, Persist, Asked
  <1>3. /\ messages' = messages \cup {UserOf(e)} \cup (IF exchange[e].kind = "silent" THEN {} ELSE {ReplyOf(e)})
        /\ UserOf(e)' = UserOf(e) /\ ReplyOf(e)' = ReplyOf(e)
    BY <1>2 DEF Persist, UserOf, ReplyOf
  <1>4. \A f \in Exchanges \ {e} : UserOf(f)' = UserOf(f) /\ ReplyOf(f)' = ReplyOf(f)
    BY <1>2 DEF UserOf, ReplyOf
  <1>5. Dated'
    BY <1>1, <1>2 DEF Dated, Told
  <1>6. Kept'
    <2>1. ASSUME NEW n \in messages', n.role # "agent"
          PROVE  \E f \in Exchanges : exchange'[f].stage = "stored" /\
                     (n = UserOf(f)' \/ (exchange'[f].kind # "silent" /\ n = ReplyOf(f)'))
      <3>1. CASE n \in messages
        <4>1. PICK f \in Exchanges : exchange[f].stage = "stored" /\
                     (n = UserOf(f) \/ (exchange[f].kind # "silent" /\ n = ReplyOf(f)))
          BY <2>1, <3>1 DEF Kept
        <4>2. f # e
          BY <1>1, <4>1
        <4>3. QED
          BY <1>2, <1>4, <4>1, <4>2
      <3>2. CASE n \notin messages
        BY <1>2, <1>3, <2>1, <3>2
      <3>3. QED
        BY <3>1, <3>2
    <2>2. ASSUME NEW f \in Exchanges, exchange'[f].stage = "stored"
          PROVE  UserOf(f)' \in messages' /\ (exchange'[f].kind # "silent" => ReplyOf(f)' \in messages')
      <3>1. CASE f = e
        BY <1>2, <1>3, <3>1
      <3>2. CASE f # e
        BY <1>2, <1>3, <1>4, <2>2, <3>2 DEF Kept
      <3>3. QED
        BY <3>1, <3>2
    <2>3. QED
      BY <2>1, <2>2 DEF Kept
  <1>7. QED
    BY <1>5, <1>6

LEMMA StepDated == TablesOK /\ Dated /\ Kept /\ [Next]_vars => Dated' /\ Kept'
  <1> SUFFICES ASSUME TablesOK, Dated, Kept, [Next]_vars PROVE Dated' /\ Kept'
    OBVIOUS
  <1>1. CASE UNCHANGED <<clock, exchange, messages>>
    BY <1>1 DEF Dated, Kept, Told, UserOf, ReplyOf
  <1>2. ASSUME NEW c \in Customers, AgentReply(c) PROVE Dated' /\ Kept'
    <2>1. messages' = messages \cup {Message(c, "agent", "none", clock')} /\ exchange' = exchange
      BY <1>2 DEF AgentReply
    <2>2. clock \in Int /\ clock' = clock + 1
      BY <1>2 DEF TablesOK, AgentReply, Advances
    <2>3. Dated'
      BY <2>1, <2>2 DEF TablesOK, Dated, Told, Asked
    <2>4. Kept'
      BY <2>1, MessageFields DEF Kept, UserOf, ReplyOf
    <2>5. QED
      BY <2>3, <2>4
  <1>3. ASSUME NEW c \in Customers, Resolve(c) PROVE Dated' /\ Kept'
    BY <1>1, <1>3 DEF Resolve
  <1>4. CASE ReadConversations \/ ReadMessages \/ UNCHANGED vars
    BY <1>1, <1>4 DEF ReadConversations, ReadMessages, vars
  <1>5. QED
    BY <1>2, <1>3, <1>4, ReceiveDated, AnswerDated, PersistDated DEF Next

LEMMA MessagesOfExchange ==
    ASSUME NEW e
    PROVE  /\ UserOf(e).customer = exchange[e].customer /\ UserOf(e).role = "user"
           /\ UserOf(e).kind = "none" /\ UserOf(e).at = exchange[e].received
           /\ ReplyOf(e).customer = exchange[e].customer /\ ReplyOf(e).role = "assistant"
           /\ ReplyOf(e).kind = exchange[e].kind /\ ReplyOf(e).at = exchange[e].answered
  BY DEF UserOf, ReplyOf, Message

LEMMA StoredIsDated ==
    ASSUME TablesOK, Dated, NEW e \in Exchanges, exchange[e].stage = "stored"
    PROVE  /\ exchange[e].received \in Int /\ exchange[e].answered \in Int
           /\ exchange[e].received < exchange[e].answered
  BY DEF TablesOK, Dated, Told, Asked

\* Exchanges of one customer that do not overlap lie apart.
LEMMA LieApart ==
    ASSUME TablesOK, Dated, NEW c, ~Overlapped(c), NEW e \in Exchanges, NEW f \in Exchanges, e # f,
           exchange[e].stage = "stored", exchange[f].stage = "stored",
           exchange[e].customer = c, exchange[f].customer = c
    PROVE  exchange[e].answered <= exchange[f].received \/ exchange[f].answered <= exchange[e].received
  <1>1. /\ exchange[e].received \in Int /\ exchange[e].answered \in Int
        /\ exchange[f].received \in Int /\ exchange[f].answered \in Int
    BY StoredIsDated
  <1>2. exchange[e].received # exchange[f].received
    BY DEF Dated, Told
  <1>3. /\ exchange[e].received < exchange[f].received => ~(exchange[f].received < exchange[e].answered)
        /\ exchange[f].received < exchange[e].received => ~(exchange[e].received < exchange[f].answered)
    BY DEF Overlapped
  <1>4. QED
    BY <1>1, <1>2, <1>3

\* question_reply_pairs: a pair of c is the question and the reply of one exchange.
LEMMA PairIsExchange ==
    ASSUME TablesOK, Dated, Kept, request.since \in Int, NEW c, ~Overlapped(c), NEW p \in Pairs(InPeriod),
           p[1].customer = c
    PROVE  \E e \in Exchanges : /\ exchange[e].stage = "stored" /\ exchange[e].customer = c
                                /\ exchange[e].received >= request.since
                                /\ p = <<UserOf(e), ReplyOf(e)>>
  <1>1. PICK q \in InPeriod, r \in InPeriod : p = <<q, r>>
    BY DEF Pairs
  <1>2. /\ q.role = "user" /\ r.role = "assistant" /\ q.at < r.at /\ q.customer = c /\ r.customer = c
        /\ \A n \in InPeriod : n.role = "agent" \/ n.customer # c \/ n.at \notin (q.at + 1)..(r.at - 1)
    BY <1>1 DEF Pairs
  <1>3. PICK e \in Exchanges : exchange[e].stage = "stored" /\ q = UserOf(e)
    BY <1>1, <1>2, MessagesOfExchange DEF Kept, InPeriod
  <1>4. PICK f \in Exchanges : exchange[f].stage = "stored" /\ r = ReplyOf(f)
    BY <1>1, <1>2, MessagesOfExchange DEF Kept, InPeriod
  <1>5. /\ exchange[e].customer = c /\ exchange[f].customer = c
        /\ q.at = exchange[e].received /\ r.at = exchange[f].answered
    BY <1>2, <1>3, <1>4, MessagesOfExchange
  <1>6. /\ exchange[e].received \in Int /\ exchange[e].answered \in Int /\ exchange[e].received < exchange[e].answered
        /\ exchange[f].received \in Int /\ exchange[f].answered \in Int /\ exchange[f].received < exchange[f].answered
    BY <1>3, <1>4, StoredIsDated
  <1>7. exchange[e].received >= request.since
    BY <1>1, <1>5 DEF InPeriod
  <1>8. ASSUME e # f PROVE FALSE
    <2>1. exchange[e].answered <= exchange[f].received
      BY <1>2, <1>3, <1>4, <1>5, <1>6, <1>8, LieApart
    <2>2. UserOf(f) \in InPeriod
      <3>1. UserOf(f) \in messages /\ UserOf(f).at = exchange[f].received
        BY <1>4, MessagesOfExchange DEF Kept
      <3>2. QED
        BY <1>6, <1>7, <2>1, <3>1 DEF InPeriod
    <2>3. UserOf(f).role # "agent" /\ UserOf(f).customer = c /\ UserOf(f).at = exchange[f].received
      BY <1>5, MessagesOfExchange
    <2>4. exchange[f].received \in (q.at + 1)..(r.at - 1)
      BY <1>5, <1>6, <2>1
    <2>5. QED
      BY <1>2, <2>2, <2>3, <2>4
  <1>9. QED
    BY <1>1, <1>3, <1>4, <1>5, <1>7, <1>8

\* And every stored exchange of c that has a reply is a pair.
LEMMA ExchangeIsPair ==
    ASSUME TablesOK, Dated, Kept, request.since \in Int, NEW c, ~Overlapped(c), NEW e \in Exchanges,
           exchange[e].stage = "stored", exchange[e].customer = c, exchange[e].kind # "silent",
           exchange[e].received >= request.since
    PROVE  <<UserOf(e), ReplyOf(e)>> \in Pairs(InPeriod)
  <1> DEFINE q == UserOf(e)
             r == ReplyOf(e)
  <1>1. /\ exchange[e].received \in Int /\ exchange[e].answered \in Int
        /\ exchange[e].received < exchange[e].answered
    BY StoredIsDated
  <1>2. /\ q.customer = c /\ q.role = "user" /\ q.at = exchange[e].received
        /\ r.customer = c /\ r.role = "assistant" /\ r.at = exchange[e].answered
    BY MessagesOfExchange
  <1>3. q \in InPeriod /\ r \in InPeriod
    BY <1>1, <1>2 DEF Kept, InPeriod
  <1>4. ASSUME NEW n \in InPeriod, n.role # "agent", n.customer = c, n.at \in (q.at + 1)..(r.at - 1)
        PROVE  FALSE
    <2>1. PICK f \in Exchanges : exchange[f].stage = "stored" /\
              (n = UserOf(f) \/ (exchange[f].kind # "silent" /\ n = ReplyOf(f)))
      BY <1>4 DEF Kept, InPeriod
    <2>2. exchange[f].customer = c /\ (n.at = exchange[f].received \/ n.at = exchange[f].answered)
      BY <1>4, <2>1, MessagesOfExchange
    <2>3. /\ exchange[f].received \in Int /\ exchange[f].answered \in Int
          /\ exchange[f].received < exchange[f].answered
      BY <2>1, StoredIsDated
    <2>4. exchange[e].received < n.at /\ n.at < exchange[e].answered
      BY <1>1, <1>2, <1>4
    <2>5. f # e
      BY <1>1, <2>2, <2>4
    <2>6. exchange[e].answered <= exchange[f].received \/ exchange[f].answered <= exchange[e].received
      BY <2>1, <2>2, <2>5, LieApart
    <2>7. QED
      BY <1>1, <2>2, <2>3, <2>4, <2>6
  <1> HIDE DEF q, r
  <1>5. <<q, r>> \in InPeriod \X InPeriod /\ q.at < r.at
    BY <1>1, <1>2, <1>3
  <1>6. PICK pair : pair = <<q, r>>
    OBVIOUS
  <1>7. pair \in Pairs(InPeriod)
    <2>1. pair[1] = q /\ pair[2] = r
      BY <1>6
    <2>2. QED
      BY <1>2, <1>4, <1>5, <1>6, <2>1 DEF Pairs
  <1>8. QED
    BY <1>6, <1>7 DEF q, r

\* The pairs of c with a reply of these kinds, and its exchanges with one.
LEMMA PairsAreExchanges ==
    ASSUME TablesOK, Dated, Kept, request.since \in Int, NEW c, ~Overlapped(c), NEW kinds, kinds \subseteq AllKinds
    PROVE  {p \in Pairs(InPeriod) : p[1].customer = c /\ p[2].kind \in kinds}
              = {<<UserOf(e), ReplyOf(e)>> : e \in Stored(c, kinds)}
  <1>1. ASSUME NEW p \in Pairs(InPeriod), p[1].customer = c, p[2].kind \in kinds
        PROVE  \E e \in Stored(c, kinds) : p = <<UserOf(e), ReplyOf(e)>>
    <2>1. PICK e \in Exchanges : /\ exchange[e].stage = "stored" /\ exchange[e].customer = c
                                 /\ exchange[e].received >= request.since
                                 /\ p = <<UserOf(e), ReplyOf(e)>>
      BY <1>1, PairIsExchange
    <2>2. p[2].kind = exchange[e].kind
      BY <2>1, MessagesOfExchange
    <2>3. QED
      BY <1>1, <2>1, <2>2 DEF Stored
  <1>2. ASSUME NEW e \in Stored(c, kinds)
        PROVE  LET p == <<UserOf(e), ReplyOf(e)>> IN
               p \in Pairs(InPeriod) /\ p[1].customer = c /\ p[2].kind \in kinds
    <2>1. /\ e \in Exchanges /\ exchange[e].stage = "stored" /\ exchange[e].customer = c
          /\ exchange[e].kind \in kinds /\ exchange[e].received >= request.since
      BY DEF Stored
    <2>2. exchange[e].kind # "silent"
      BY <2>1 DEF AllKinds
    <2>3. <<UserOf(e), ReplyOf(e)>> \in Pairs(InPeriod)
      BY <2>1, <2>2, ExchangeIsPair
    <2>4. QED
      BY <2>1, <2>3, MessagesOfExchange
  <1>3. QED
    BY <1>1, <1>2

LEMMA AsManyPairs ==
    ASSUME TablesOK, Dated, NEW c, NEW kinds
    PROVE  LET pairs == {<<UserOf(e), ReplyOf(e)>> : e \in Stored(c, kinds)} IN
           Cardinality(pairs) = Cardinality(Stored(c, kinds)) /\ Cardinality(pairs) \in Nat
  <1> DEFINE S == Stored(c, kinds)
             T == {<<UserOf(e), ReplyOf(e)>> : e \in S}
             g == [e \in S |-> <<UserOf(e), ReplyOf(e)>>]
  <1>1. IsFiniteSet(S)
    BY ExchangeAssumption, FS_Subset DEF Stored
  <1>2. ASSUME NEW e \in S, NEW f \in S, g[e] = g[f] PROVE e = f
    <2>1. UserOf(e) = UserOf(f)
      BY <1>2
    <2>2. exchange[e].received = exchange[f].received
      BY <2>1, MessagesOfExchange
    <2>3. QED
      BY <2>2 DEF Dated, Told, Stored
  <1>3. g \in Bijection(S, T)
    <2>1. g \in [S -> T] /\ \A t \in T : \E s \in S : g[s] = t
      OBVIOUS
    <2>2. QED
      BY <1>2, <2>1 DEF Bijection, Injection, Surjection, IsInjective
  <1> HIDE DEF S, T, g
  <1>4. Cardinality(T) = Cardinality(S)
    BY <1>1, <1>3, FS_Bijection DEF ExistsBijection
  <1>5. QED
    BY <1>1, <1>4, FS_CardinalityType DEF S, T

LEMMA StatsFields ==
    ASSUME NEW rows, NEW ms, NEW since, NEW until
    PROVE  /\ build_stats(rows, ms, since, until).unanswered = {p \in Pairs(ms) : p[2].kind \in Unanswered}
           /\ DOMAIN build_stats(rows, ms, since, until).daily = DayOf(since)..DayOf(until)
  BY DEF build_stats

\* The questions of c without an answer.
LEMMA UnansweredFigure ==
    ASSUME TablesOK, Dated, Kept, request.since \in Int, NEW c, ~Overlapped(c),
           NEW asked, asked = {p \in Pairs(InPeriod) : p[2].kind \in Unanswered}
    PROVE  {<<p[1].at, p[2].at>> : p \in {q \in asked : q[2].customer = c}}
              = {<<exchange[e].received, exchange[e].answered>> : e \in Stored(c, Unanswered)}
  <1> DEFINE pairs == {q \in Pairs(InPeriod) : q[1].customer = c /\ q[2].kind \in Unanswered}
  <1>1. {q \in asked : q[2].customer = c} = pairs
    BY DEF Pairs
  <1>2. pairs = {<<UserOf(e), ReplyOf(e)>> : e \in Stored(c, Unanswered)}
    <2>1. Unanswered \subseteq AllKinds
      BY DEF Unanswered, AllKinds
    <2>2. QED
      BY <2>1, PairsAreExchanges
  <1>3. \A e \in Exchanges : UserOf(e).at = exchange[e].received /\ ReplyOf(e).at = exchange[e].answered
    BY MessagesOfExchange
  <1> HIDE DEF pairs
  <1>4. {<<p[1].at, p[2].at>> : p \in pairs}
            = {<<exchange[e].received, exchange[e].answered>> : e \in Stored(c, Unanswered)}
    <2>1. ASSUME NEW p \in pairs
          PROVE  \E e \in Stored(c, Unanswered) :
                     <<p[1].at, p[2].at>> = <<exchange[e].received, exchange[e].answered>>
      <3>1. PICK e \in Stored(c, Unanswered) : p = <<UserOf(e), ReplyOf(e)>>
        BY <1>2
      <3>2. p[1] = UserOf(e) /\ p[2] = ReplyOf(e) /\ e \in Exchanges
        BY <3>1 DEF Stored
      <3>3. QED
        BY <1>3, <3>2
    <2>2. ASSUME NEW e \in Stored(c, Unanswered)
          PROVE  \E p \in pairs : <<p[1].at, p[2].at>> = <<exchange[e].received, exchange[e].answered>>
      <3>1. PICK p \in pairs : p = <<UserOf(e), ReplyOf(e)>>
        BY <1>2
      <3>2. p[1] = UserOf(e) /\ p[2] = ReplyOf(e) /\ e \in Exchanges
        BY <3>1 DEF Stored
      <3>3. QED
        BY <1>3, <3>2
    <2>3. QED
      BY <2>1, <2>2
  <1>5. QED
    BY <1>1, <1>4

\* build_leads: the leads of c are its exchanges about a product.
LEMMA LeadsFigure ==
    ASSUME TablesOK, Dated, Kept, request.since \in Int, NEW c \in Customers, ~Overlapped(c),
           NEW leads, leads = build_leads(InPeriod)
    PROVE  (IF c \in DOMAIN leads THEN leads[c] ELSE 0) = Cardinality(Stored(c, {"product"}))
  <1> DEFINE asked(d) == Cardinality({p \in Pairs(InPeriod) : p[1].customer = d /\ p[2].kind = "product"})
  <1>1. leads = [d \in {customer \in Customers : asked(customer) > 0} |-> asked(d)]
    BY DEF build_leads
  <1>2. {p \in Pairs(InPeriod) : p[1].customer = c /\ p[2].kind = "product"}
            = {<<UserOf(e), ReplyOf(e)>> : e \in Stored(c, {"product"})}
    <2>1. {"product"} \subseteq AllKinds
      BY DEF AllKinds
    <2>2. QED
      BY <2>1, PairsAreExchanges
  <1>3. asked(c) = Cardinality(Stored(c, {"product"})) /\ asked(c) \in Nat
    BY <1>2, AsManyPairs
  <1> HIDE DEF asked
  <1>4. QED
    BY <1>1, <1>3

LEMMA DaysAreOrdered ==
    ASSUME NEW s \in Int, NEW t \in Int, s <= t
    PROVE  DayOf(s) <= DayOf(t) /\ DayOf(s) \in Int
  <1>1. Day \in Nat \ {0}
    BY TimeAssumption
  <1>2. PICK a \in Int, b \in Int : a = s \div Day /\ b = t \div Day
    BY <1>1
  <1>3. s = a * Day + (s % Day) /\ s % Day \in 0..(Day - 1) /\ t = b * Day + (t % Day) /\ t % Day \in 0..(Day - 1)
    BY <1>1, <1>2
  <1>4. a <= b
    <2>1. SUFFICES ASSUME a >= b + 1 PROVE FALSE
      BY <1>2
    <2>2. a * Day >= (b + 1) * Day /\ (b + 1) * Day = b * Day + Day
      BY <1>1, <2>1
    <2>3. QED
      BY <1>1, <1>2, <1>3, <2>2
  <1>5. QED
    BY <1>2, <1>4 DEF DayOf

\* The read of the messages computes the figures of the exchanges.
LEMMA FiguresRead ==
    ASSUME TablesOK, Dated, Kept, RowsOK, ReadMessages
    PROVE  FiguresAreExchanges'
  <1>1. /\ report'.leads = build_leads(InPeriod)
        /\ report'.stats = build_stats(request.rows, InPeriod, request.since, request.until)
        /\ UNCHANGED <<clock, exchange, conversations, messages>>
    BY DEF ReadMessages
  <1>2. /\ request'.since = request.since /\ request'.until = request.until
        /\ request.since \in Int /\ request.until \in Int
    BY DEF ReadMessages, RowsOK
  <1>3. /\ InPeriod' = InPeriod
        /\ \A c \in Customers : Overlapped(c)' = Overlapped(c)
        /\ \A c \in Customers : /\ Stored(c, {"product"})' = Stored(c, {"product"})
                                /\ Stored(c, Unanswered)' = Stored(c, Unanswered)
    BY <1>1, <1>2 DEF InPeriod, Overlapped, Stored
  <1>4. ASSUME NEW c \in Customers, ~Overlapped(c)
        PROVE  /\ (IF c \in DOMAIN report'.leads THEN report'.leads[c] ELSE 0) = Cardinality(Stored(c, {"product"}))
               /\ {<<pair[1].at, pair[2].at>> : pair \in {p \in report'.stats.unanswered : p[2].customer = c}}
                    = {<<exchange[e].received, exchange[e].answered>> : e \in Stored(c, Unanswered)}
    <2>1. report'.stats.unanswered = {p \in Pairs(InPeriod) : p[2].kind \in Unanswered}
      BY <1>1, StatsFields
    <2>2. QED
      BY <1>1, <1>2, <1>4, <2>1, LeadsFigure, UnansweredFigure
  <1>5. ASSUME NEW n \in InPeriod, n.role = "user"
        PROVE  DayOf(n.at) \in DOMAIN report'.stats.daily \/ n.at > request.until
    <2>1. PICK e \in Exchanges : exchange[e].stage = "stored" /\ n = UserOf(e)
      BY <1>5, MessagesOfExchange DEF Kept, InPeriod
    <2>2. n.at \in Int /\ n.at >= request.since
      BY <2>1, StoredIsDated, MessagesOfExchange DEF InPeriod
    <2>3. ASSUME n.at <= request.until PROVE DayOf(n.at) \in DayOf(request.since)..DayOf(request.until)
      <3>1. /\ DayOf(request.since) <= DayOf(n.at) /\ DayOf(n.at) <= DayOf(request.until)
            /\ DayOf(n.at) \in Int
        BY <1>2, <2>2, <2>3, DaysAreOrdered
      <3>2. QED
        BY <3>1, <1>2, DaysAreOrdered
    <2>4. DOMAIN report'.stats.daily = DayOf(request.since)..DayOf(request.until)
      BY <1>1, StatsFields
    <2>5. QED
      BY <1>2, <2>2, <2>3, <2>4
  <1>6. QED
    BY <1>1, <1>2, <1>3, <1>4, <1>5 DEF FiguresAreExchanges, Unanswered

LEMMA StepFigures ==
    TablesOK /\ Dated /\ Kept /\ RowsOK /\ FiguresAreExchanges /\ [Next]_vars => FiguresAreExchanges'
  <1> SUFFICES ASSUME TablesOK, Dated, Kept, RowsOK, FiguresAreExchanges, [Next]_vars PROVE FiguresAreExchanges'
    OBVIOUS
  <1>1. CASE UNCHANGED vars
    BY <1>1 DEF vars, FiguresAreExchanges, Done, Overlapped, Stored, InPeriod
  <1>2. CASE ReadMessages
    BY <1>2, FiguresRead
  <1>3. CASE ~Done'
    BY <1>3 DEF FiguresAreExchanges
  <1>4. CASE Next /\ ~ReadMessages
    <2>1. CASE ReadConversations
      BY <1>3, <2>1 DEF ReadConversations, Done
    <2>2. CASE request' = request /\ request.stage # "done"
      BY <1>3, <2>2 DEF Done
    <2>3. ASSUME NEW e \in Exchanges, NEW c \in Customers, NEW silent \in BOOLEAN, Receive(e, c, silent)
          PROVE  request' = request /\ request.stage # "done"
      BY <2>3 DEF Receive, Advances
    <2>4. ASSUME NEW e \in Exchanges, NEW kind \in Kinds, Answer(e, kind)
          PROVE  request' = request /\ request.stage # "done"
      BY <2>4 DEF Answer, Advances
    <2>5. ASSUME NEW e \in Exchanges, Persist(e) PROVE request' = request /\ request.stage # "done"
      BY <2>5 DEF Persist
    <2>6. ASSUME NEW c \in Customers, AgentReply(c) \/ Resolve(c)
          PROVE  request' = request /\ request.stage # "done"
      BY <2>6 DEF AgentReply, Resolve, Advances
    <2>7. QED
      BY <1>4, <2>1, <2>2, <2>3, <2>4, <2>5, <2>6 DEF Next
  <1>5. QED
    BY <1>1, <1>2, <1>4

\* build_stats and build_leads (analytics.py): whatever is stored between the
\* two reads, the leads and the unanswered questions of a customer whose
\* messages do not overlap are its exchanges, and no day is left out.
THEOREM FiguresInvariant == Spec => []FiguresAreExchanges
  <1> DEFINE Inv == /\ TablesOK /\ Remembered /\ Justified /\ RowsOK /\ RowsTell
                    /\ Dated /\ Kept /\ FiguresAreExchanges
  <1>1. Init => Inv
    BY InitTables DEF Init, Idle, Dated, Kept, Told, FiguresAreExchanges, Done
  <1>2. Inv /\ [Next]_vars => Inv'
    BY StepTables, StepRows, StepDated, StepFigures
  <1>3. QED
    BY <1>1, <1>2, PTL DEF Spec
=============================================================================
