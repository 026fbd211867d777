--------------------------- MODULE TakeoverProofs ---------------------------
(***************************************************************************)
(* What Takeover keeps for any number of messages, requests and ticks.     *)
(*                                                                         *)
(* The argument: a conversation's status is only ever appended or          *)
(* overwritten in place (lemmas SetStatus and AddStatus), and message rows *)
(* are only ever added; so each invariant needs, action by action, what    *)
(* the action writes to one conversation.                                  *)
(* Without overlaps one operation is open, and what it remembers of the    *)
(* conversations still holds (Calm): the four promises that overlaps break *)
(* then follow from what its last step writes.                             *)
(***************************************************************************)
EXTENDS Takeover, SequenceTheorems, TLAPS

USE TimeoutAssumption

HandlerType ==
    [pc: HandlerPc, received: Nat, answered: Nat, cutoff: Int,
     conv: Nat, seen: Status, outcome: {"plain", "escalated", "silent"}]
RequestType == [pc: RequestPc, conv: Nat, seen: Status, sentAt: Nat]

\* Overwriting the status of a conversation keeps the table's shape.
LEMMA SetStatus ==
    ASSUME status \in Seq(Status), NEW c \in Conversations, NEW s \in Status
    PROVE  /\ [status EXCEPT ![c] = s] \in Seq(Status)
           /\ Len([status EXCEPT ![c] = s]) = Len(status)
           /\ \A d \in Conversations :
                [status EXCEPT ![c] = s][d] = IF d = c THEN s ELSE status[d]
  BY ExceptSeq DEF Conversations

\* A new conversation goes last; the others keep their status.
LEMMA AddStatus ==
    ASSUME status \in Seq(Status), NEW s \in Status
    PROVE  /\ Append(status, s) \in Seq(Status)
           /\ Len(Append(status, s)) = Len(status) + 1
           /\ Append(status, s)[Len(status) + 1] = s
           /\ \A d \in Conversations : Append(status, s)[d] = status[d]
  BY DEF Conversations

LEMMA InitType == Init => TypeOK
  <1> SUFFICES ASSUME Init PROVE TypeOK
    OBVIOUS
  <1>1. status \in Seq(Status) /\ chain \in Seq(Messages)
    BY EmptySeq DEF Init
  <1>2. handler \in [Messages -> HandlerType]
    BY DEF Init, HandlerAt, HandlerType, HandlerPc, Status, NoConversation
  <1>3. request \in [Requests -> RequestType]
    BY DEF Init, RequestAt, RequestType, RequestPc, Status, NoConversation
  <1>4. QED
    BY <1>1, <1>2, <1>3
    DEF Init, TypeOK, HandlerType, RequestType, HandlerAt, RequestAt

\* What TypeOK says of the tables, and of the processes that use them.
TablesOK ==
    /\ now \in Nat
    /\ status \in Seq(Status)
    /\ rows \subseteq Row
    /\ \A row \in rows : row.conv \in Conversations
    /\ chain \in Seq(Messages)
HandlersOK ==
    /\ handler \in [Messages -> HandlerType]
    /\ \A m \in Messages :
         /\ handler[m].pc \in {"taken", "expired"} => handler[m].conv \in Conversations
         /\ handler[m].pc = "writing" => handler[m].conv \in Conversations \cup {NoConversation}
RequestsOK ==
    /\ request \in [Requests -> RequestType]
    /\ \A r \in Requests :
         request[r].pc \in {"sending", "sent", "resolving"} => request[r].conv \in Conversations

LEMMA TypeParts == TypeOK <=> TablesOK /\ HandlersOK /\ RequestsOK
  BY DEF TypeOK, TablesOK, HandlersOK, RequestsOK, HandlerType, RequestType

LEMMA TypePartsNext == TypeOK' <=> TablesOK' /\ HandlersOK' /\ RequestsOK'
  BY DEF TypeOK, TablesOK, HandlersOK, RequestsOK, HandlerType, RequestType

\* One handler's record changes.
LEMMA HandlerUpdate ==
    ASSUME HandlersOK, NEW m \in Messages, NEW h \in HandlerType,
           handler' = [handler EXCEPT ![m] = h],
           Conversations \subseteq Conversations',
           h.pc \in {"taken", "expired"} => h.conv \in Conversations,
           h.pc = "writing" => h.conv \in Conversations \cup {NoConversation}
    PROVE  HandlersOK'
  BY DEF HandlersOK

\* One request's record changes.
LEMMA RequestUpdate ==
    ASSUME RequestsOK, NEW r \in Requests, NEW q \in RequestType,
           request' = [request EXCEPT ![r] = q],
           Conversations \subseteq Conversations',
           q.pc \in {"sending", "sent", "resolving"} => q.conv \in Conversations
    PROVE  RequestsOK'
  BY DEF RequestsOK

\* The steps of a handler before its write: at most one status is rewritten.
LEMMA CheckTypes ==
    ASSUME TypeOK, NEW m \in Messages,
           \/ Receive(m) \/ ReadStatus(m) \/ ReadLastAgent(m) \/ ExpireTakeover(m)
           \/ CheckFails(m) \/ BotRaises(m)
    PROVE  TypeOK'
  <1> USE TypeParts DEF HandlersOK, HandlerType, HandlerPc
  <1>1. CASE Receive(m)
    <2>1. TablesOK' /\ RequestsOK'
      BY <1>1 DEF Receive, TablesOK, RequestsOK, Conversations
    <2>2. HandlersOK'
      BY <1>1 DEF Receive, TablesOK, Conversations
    <2>3. QED
      BY <2>1, <2>2, TypePartsNext
  <1>2. CASE ReadStatus(m)
    <2>1. TablesOK' /\ RequestsOK'
      BY <1>2 DEF ReadStatus, TablesOK, RequestsOK, Conversations
    <2>2. HandlersOK'
      <3>1. CASE handler' = [handler EXCEPT ![m].pc = "bot"]
        BY <1>2, <3>1 DEF ReadStatus, Conversations
      <3>2. ASSUME NEW c \in Conversations,
                   handler' = [handler EXCEPT ![m] =
                     [@ EXCEPT !.pc = "taken", !.conv = c, !.cutoff = now - Timeout]]
            PROVE  HandlersOK'
        <4>1. c \in Nat /\ now - Timeout \in Int
          BY DEF Conversations, TablesOK
        <4>2. [handler[m] EXCEPT !.pc = "taken", !.conv = c, !.cutoff = now - Timeout]
                \in HandlerType
          BY <4>1
        <4>3. QED
          BY <1>2, <3>2, <4>2, HandlerUpdate DEF ReadStatus, Conversations
      <3>3. QED
        BY <1>2, <3>1, <3>2 DEF ReadStatus
    <2>3. QED
      BY <2>1, <2>2, TypePartsNext
  <1>3. CASE ReadLastAgent(m)
    <2>1. TablesOK' /\ RequestsOK'
      BY <1>3 DEF ReadLastAgent, TablesOK, RequestsOK, Conversations
    <2>2. HandlersOK'
      BY <1>3 DEF ReadLastAgent, TablesOK, Conversations
    <2>3. QED
      BY <2>1, <2>2, TypePartsNext
  <1>4. CASE ExpireTakeover(m)
    <2>1. /\ status' \in Seq(Status)
          /\ Conversations' = Conversations
      BY <1>4, SetStatus DEF ExpireTakeover, TablesOK, Status, Conversations
    <2>2. TablesOK' /\ RequestsOK'
      BY <1>4, <2>1 DEF ExpireTakeover, TablesOK, RequestsOK
    <2>3. HandlersOK'
      BY <1>4, <2>1 DEF ExpireTakeover
    <2>4. QED
      BY <2>2, <2>3, TypePartsNext
  <1>5. CASE CheckFails(m)
    <2>1. TablesOK' /\ RequestsOK'
      BY <1>5 DEF CheckFails, TablesOK, RequestsOK, Conversations
    <2>2. HandlersOK'
      BY <1>5 DEF CheckFails, TablesOK, Conversations
    <2>3. QED
      BY <2>1, <2>2, TypePartsNext
  <1>6. CASE BotRaises(m)
    <2>1. TablesOK' /\ RequestsOK'
      BY <1>6 DEF BotRaises, TablesOK, RequestsOK, Conversations
    <2>2. HandlersOK'
      BY <1>6 DEF BotRaises, TablesOK, Conversations, HandlerAt, Status, NoConversation
    <2>3. QED
      BY <2>1, <2>2, TypePartsNext
  <1>7. QED
    BY <1>1, <1>2, <1>3, <1>4, <1>5, <1>6

\* The answer and its background write.
LEMMA WriteTypes ==
    ASSUME TypeOK, NEW m \in Messages,
           \/ BotAnswers(m) \/ StaySilent(m)
           \/ PersistRead(m) \/ PersistCommit(m) \/ PersistFails(m)
    PROVE  TypeOK'
  <1> USE TypeParts DEF HandlersOK, HandlerType, HandlerPc
  <1>1. ASSUME NEW o \in {"plain", "escalated", "silent"}, Schedule(m, o)
        PROVE  TypeOK'
    <2>1. chain' \in Seq(Messages)
      BY <1>1 DEF Schedule, TablesOK
    <2>2. TablesOK' /\ RequestsOK'
      BY <1>1, <2>1 DEF Schedule, TablesOK, RequestsOK, Conversations
    <2>3. HandlersOK'
      BY <1>1 DEF Schedule, TablesOK, Conversations
    <2>4. QED
      BY <2>2, <2>3, TypePartsNext
  <1>2. CASE BotAnswers(m) \/ StaySilent(m)
    BY <1>1, <1>2 DEF BotAnswers, StaySilent
  <1>3. CASE PersistRead(m)
    <2>1. TablesOK' /\ RequestsOK'
      BY <1>3 DEF PersistRead, TablesOK, RequestsOK, Conversations
    <2>2. ASSUME NEW c \in Conversations PROVE status[c] \in Status /\ c \in Nat
      BY DEF TablesOK, Conversations
    <2>3. HandlersOK'
      <3>1. PICK c \in Conversations \cup {NoConversation}, s \in Status :
              handler' = [handler EXCEPT ![m] =
                [@ EXCEPT !.pc = "writing", !.conv = c, !.seen = s]]
        BY <1>3, <2>2 DEF PersistRead, Status
      <3>2. [handler[m] EXCEPT !.pc = "writing", !.conv = c, !.seen = s] \in HandlerType
        <4>1. c \in Nat
          BY <2>2 DEF NoConversation
        <4>2. QED
          BY <4>1
      <3>3. QED
        BY <1>3, <3>1, <3>2, HandlerUpdate DEF PersistRead, Conversations
    <2>4. QED
      BY <2>1, <2>3, TypePartsNext
  <1>4. CASE PersistCommit(m)
    <2>1. chain' \in Seq(Messages)
      BY <1>4, HeadTailProperties DEF PersistCommit, AtHead, TablesOK
    <2>2. /\ status' \in Seq(Status)
          /\ Len(status') \in Nat /\ Len(status') >= Len(status)
          /\ Target(m) \in 1..Len(status')
      <3> DEFINE c == handler[m].conv
      <3>1. status \in Seq(Status) /\ Len(status) \in Nat /\ status' = StatusAfter(m)
        BY <1>4 DEF TablesOK, PersistCommit
      <3>2. CASE c = NoConversation
        <4>1. PICK s \in Status : status' = Append(status, s)
          BY <3>1, <3>2 DEF StatusAfter, Status
        <4>2. QED
          BY <3>1, <3>2, <4>1, AddStatus DEF Target
      <3>3. CASE c # NoConversation
        <4>1. c \in Conversations
          BY <1>4, <3>3 DEF PersistCommit
        <4>2. status' = status \/ status' = [status EXCEPT ![c] = "escalated"]
          BY <3>1, <3>3 DEF StatusAfter
        <4>3. "escalated" \in Status
          BY DEF Status
        <4>4. QED
          BY <3>1, <3>3, <4>1, <4>2, <4>3, SetStatus DEF Target, Conversations
      <3>4. QED
        BY <3>2, <3>3
    <2>3. ExchangeRows(m) \subseteq Row /\ \A row \in ExchangeRows(m) : row.conv = Target(m)
      <3>1. Target(m) \in Nat \ {0}
        BY <2>2
      <3>2. handler[m].received \in Nat /\ handler[m].answered \in Nat
        OBVIOUS
      <3>3. QED
        <4> DEFINE asked == [conv |-> Target(m), role |-> "user", at |-> handler[m].received,
                             by |-> m, transfer |-> FALSE]
                   told == [conv |-> Target(m), role |-> "assistant", at |-> handler[m].answered,
                            by |-> m, transfer |-> handler[m].outcome = "escalated"]
        <4>1. asked \in Row /\ told \in Row
          BY <3>1, <3>2 DEF Row
        <4>2. asked.conv = Target(m) /\ told.conv = Target(m)
          OBVIOUS
        <4>3. \A row \in ExchangeRows(m) : row = asked \/ row = told
          BY DEF ExchangeRows
        <4>4. QED
          BY <4>1, <4>2, <4>3
    <2>4. TablesOK'
      BY <1>4, <2>1, <2>2, <2>3 DEF PersistCommit, TablesOK, Conversations
    <2>5. RequestsOK' /\ HandlersOK'
      BY <1>4, <2>2 DEF PersistCommit, TablesOK, RequestsOK, Conversations, HandlerAt,
                        Status, NoConversation
    <2>6. QED
      BY <2>4, <2>5, TypePartsNext
  <1>5. CASE PersistFails(m)
    <2>1. chain' \in Seq(Messages)
      BY <1>5, HeadTailProperties DEF PersistFails, AtHead, TablesOK
    <2>2. TablesOK' /\ RequestsOK'
      BY <1>5, <2>1 DEF PersistFails, TablesOK, RequestsOK, Conversations
    <2>3. HandlersOK'
      BY <1>5 DEF PersistFails, TablesOK, Conversations, HandlerAt, Status, NoConversation
    <2>4. QED
      BY <2>2, <2>3, TypePartsNext
  <1>6. QED
    BY <1>2, <1>3, <1>4, <1>5

LEMMA EndedRequest ==
    ASSUME NEW pc \in {"done", "failed"}
    PROVE  RequestAt(pc) \in RequestType /\ RequestAt(pc).pc = pc
  BY DEF RequestAt, RequestType, RequestPc, Status, NoConversation

LEMMA RequestTypes ==
    ASSUME TypeOK, NEW r \in Requests, AgentStep(r)
    PROVE  TypeOK'
  <1> USE TypeParts DEF RequestsOK, RequestType, RequestPc
  <1>1. ASSUME NEW c \in Conversations, ReplyLoad(r, c) \/ ResolveLoad(r, c)
        PROVE  TypeOK'
    <2>1. status[c] \in Status /\ c \in Nat
      BY DEF TablesOK, Conversations
    <2>2. TablesOK' /\ HandlersOK'
      BY <1>1 DEF ReplyLoad, ResolveLoad, TablesOK, HandlersOK, Conversations
    <2>3. RequestsOK'
      BY <1>1, <2>1 DEF ReplyLoad, ResolveLoad, TablesOK, Conversations
    <2>4. QED
      BY <2>2, <2>3, TypePartsNext
  <1>2. CASE ReplySent(r) \/ RequestFails(r)
    <2>1. TablesOK' /\ HandlersOK'
      BY <1>2 DEF ReplySent, RequestFails, TablesOK, HandlersOK, Conversations
    <2>2. RequestsOK'
      <3>1. CASE ReplySent(r)
        <4>1. [request[r] EXCEPT !.pc = "sent", !.sentAt = now] \in RequestType
          BY DEF TablesOK
        <4>2. QED
          BY <3>1, <4>1, RequestUpdate DEF ReplySent, Conversations
      <3>2. CASE RequestFails(r)
        BY <3>2, EndedRequest, RequestUpdate DEF RequestFails, Conversations
      <3>3. QED
        BY <1>2, <3>1, <3>2
    <2>3. QED
      BY <2>1, <2>2, TypePartsNext
  <1>3. CASE ReplyCommit(r) \/ ResolveCommit(r)
    <2>1. request[r].conv \in Conversations
      BY <1>3 DEF ReplyCommit, ResolveCommit
    <2>2. /\ status' \in Seq(Status)
          /\ Conversations' = Conversations
      BY <1>3, <2>1, SetStatus
      DEF ReplyCommit, ResolveCommit, TablesOK, Status, Conversations
    <2>3. \A row \in rows' : row \in Row /\ row.conv \in Conversations
      <3>1. request[r].sentAt \in Nat /\ request[r].conv \in Nat \ {0}
        BY <2>1 DEF Conversations
      <3>2. [conv |-> request[r].conv, role |-> "agent", at |-> request[r].sentAt,
             by |-> r, transfer |-> FALSE] \in Row
        BY <3>1 DEF Row
      <3>3. QED
        <4>1. CASE ReplyCommit(r)
          <5> DEFINE new == [conv |-> request[r].conv, role |-> "agent",
                             at |-> request[r].sentAt, by |-> r, transfer |-> FALSE]
          <5>1. rows' = rows \cup {new} /\ new \in Row /\ new.conv \in Conversations
            BY <4>1, <3>2, <2>1 DEF ReplyCommit
          <5> HIDE DEF new
          <5>2. QED
            BY <5>1 DEF TablesOK
        <4>2. CASE ResolveCommit(r)
          BY <4>2 DEF ResolveCommit, TablesOK
        <4>3. QED
          BY <1>3, <4>1, <4>2
    <2>4. TablesOK' /\ HandlersOK'
      BY <1>3, <2>2, <2>3 DEF ReplyCommit, ResolveCommit, TablesOK, HandlersOK
    <2>5. RequestsOK'
      BY <1>3, <2>2, EndedRequest, RequestUpdate DEF ReplyCommit, ResolveCommit
    <2>6. QED
      BY <2>4, <2>5, TypePartsNext
  <1>4. QED
    BY <1>1, <1>2, <1>3 DEF AgentStep

LEMMA TypeStep == TypeOK /\ [Next]_vars => TypeOK'
  <1> SUFFICES ASSUME TypeOK, [Next]_vars PROVE TypeOK'
    OBVIOUS
  <1>1. ASSUME NEW m \in Messages, Receive(m) \/ HandlerStep(m) PROVE TypeOK'
    BY <1>1, CheckTypes, WriteTypes DEF HandlerStep
  <1>2. ASSUME NEW r \in Requests, AgentStep(r) PROVE TypeOK'
    BY <1>2, RequestTypes
  <1>3. CASE Tick
    BY <1>3, MaxTimeAssumption DEF Tick, TypeOK, Conversations
  <1>4. CASE UNCHANGED vars
    BY <1>4 DEF vars, TypeOK, Conversations
  <1>5. QED
    BY <1>1, <1>2, <1>3, <1>4 DEF Next

(* Every variable keeps its type, and handlers and requests only ever      *)
(* refer to conversations that exist: the rows a handler read before an    *)
(* await are still there after it.                                         *)
THEOREM TypeCorrect == Spec => []TypeOK
  BY InitType, TypeStep, PTL DEF Spec

---------------------------------------------------------------------------
(* The safety invariant.  A conversation that holds a transfer is never    *)
(* "active" again; that alone is not inductive, since a write that loaded  *)
(* "escalated" sends no UPDATE, so what it loaded must still forbid        *)
(* "active" when it commits.  The same holds of the value on which the 409 *)
(* guard of resolve_escalation decided.                                    *)

TransferNotActive == \A row \in rows : row.transfer => status[row.conv] # "active"

LoadedNotActive ==
    \A m \in Messages :
        handler[m].pc = "writing" /\ handler[m].conv # NoConversation
          /\ handler[m].seen # "active"
        => status[handler[m].conv] # "active"
ResolvingNotActive ==
    \A r \in Requests : request[r].pc = "resolving" => status[request[r].conv] # "active"

SafetyInv ==
    /\ TypeOK
    /\ AgentStatusHasMessage
    /\ TransferNotActive
    /\ LoadedNotActive
    /\ ResolvingNotActive

AgentRow(c, table) == \E row \in table : row.conv = c /\ row.role = "agent"

\* What any step does to the two tables.
TablesStep ==
    /\ Len(status') \in Nat /\ Len(status') >= Len(status)
    /\ rows \subseteq rows'
    /\ \A c \in Conversations : status'[c] # status[c] => status'[c] # "active"
    /\ \A c \in Conversations' : c \notin Conversations => status'[c] # "agent"
    /\ \A c \in Conversations :
         status'[c] = "agent" /\ status[c] # "agent" => AgentRow(c, rows')
    /\ \A row \in rows' : row \notin rows /\ row.transfer => status'[row.conv] # "active"

LEMMA TablesUnchanged ==
    ASSUME TypeOK, UNCHANGED <<status, rows>> PROVE TablesStep
  BY DEF TablesStep, TypeOK, Conversations

LEMMA PersistCommitTables ==
    ASSUME SafetyInv, NEW m \in Messages, PersistCommit(m)
    PROVE  TablesStep
  <1> DEFINE c == handler[m].conv
  <1>1. /\ status \in Seq(Status) /\ Len(status) \in Nat
        /\ status' = StatusAfter(m) /\ rows' = rows \cup ExchangeRows(m)
        /\ handler[m].pc = "writing"
    BY DEF SafetyInv, TypeOK, PersistCommit
  <1>2. \A row \in ExchangeRows(m) :
          row.conv = Target(m) /\ (row.transfer => handler[m].outcome = "escalated")
    <2> DEFINE escalates == handler[m].outcome = "escalated"
               asked == [conv |-> Target(m), role |-> "user", at |-> handler[m].received,
                         by |-> m, transfer |-> FALSE]
               told == [conv |-> Target(m), role |-> "assistant", at |-> handler[m].answered,
                        by |-> m, transfer |-> escalates]
    <2>1. \A row \in ExchangeRows(m) : row = asked \/ row = told
      BY DEF ExchangeRows
    <2>2. asked.conv = Target(m) /\ told.conv = Target(m)
      OBVIOUS
    <2>3. asked.transfer = FALSE /\ told.transfer = escalates
      <3> HIDE DEF escalates
      <3>1. QED
        BY Zenon
    <2>4. QED
      BY <2>1, <2>2, <2>3
  <1>3. CASE c = NoConversation
    <2>1. PICK s \in {"active", "escalated"} :
            status' = Append(status, s) /\ (handler[m].outcome = "escalated" => s = "escalated")
      BY <1>1, <1>3 DEF StatusAfter
    <2>2. /\ Len(status') = Len(status) + 1 /\ status'[Len(status) + 1] = s
          /\ \A d \in Conversations : status'[d] = status[d]
      BY <1>1, <2>1, AddStatus DEF Status
    <2>3. Target(m) = Len(status) + 1
      BY <1>3 DEF Target
    <2>4. QED
      BY <1>1, <1>2, <2>1, <2>2, <2>3 DEF TablesStep, Conversations
  <1>4. CASE c # NoConversation
    <2>1. c \in Conversations /\ Target(m) = c
      BY <1>1, <1>4 DEF SafetyInv, TypeOK, Target
    <2>2. CASE handler[m].outcome = "escalated" /\ handler[m].seen # "escalated"
      <3>1. status' = [status EXCEPT ![c] = "escalated"]
        BY <1>1, <1>4, <2>2 DEF StatusAfter
      <3>2. /\ Len(status') = Len(status)
            /\ \A d \in Conversations : status'[d] = IF d = c THEN "escalated" ELSE status[d]
        BY <1>1, <2>1, <3>1, SetStatus DEF Status
      <3>3. QED
        BY <1>1, <1>2, <2>1, <3>2 DEF TablesStep, Conversations
    <2>3. CASE ~(handler[m].outcome = "escalated" /\ handler[m].seen # "escalated")
      <3>1. status' = status
        BY <1>1, <1>4, <2>3 DEF StatusAfter
      <3>2. handler[m].outcome = "escalated" => status[c] # "active"
        BY <1>1, <1>4, <2>3 DEF SafetyInv, LoadedNotActive
      <3>3. QED
        BY <1>1, <1>2, <2>1, <3>1, <3>2 DEF TablesStep, Conversations
    <2>4. QED
      BY <2>2, <2>3
  <1>5. QED
    BY <1>3, <1>4

LEMMA RequestTables ==
    ASSUME SafetyInv, NEW r \in Requests, AgentStep(r)
    PROVE  TablesStep
  <1> DEFINE c == request[r].conv
  <1>1. status \in Seq(Status) /\ Len(status) \in Nat /\ TypeOK
    BY DEF SafetyInv, TypeOK
  <1>2. CASE ReplyCommit(r)
    <2> DEFINE new == [conv |-> c, role |-> "agent",
                       at |-> request[r].sentAt, by |-> r, transfer |-> FALSE]
    <2>1. c \in Conversations
      BY <1>2 DEF ReplyCommit, SafetyInv, TypeOK
    <2>2. rows' = rows \cup {new} /\ ~new.transfer /\ new.conv = c /\ new.role = "agent"
      BY <1>2 DEF ReplyCommit
    <2>3. status' = status \/ status' = [status EXCEPT ![c] = "agent"]
      BY <1>2 DEF ReplyCommit
    <2>4. /\ Len(status') = Len(status)
          /\ \A d \in Conversations : status'[d] = status[d] \/ (d = c /\ status'[d] = "agent")
      BY <1>1, <2>1, <2>3, SetStatus DEF Status
    <2> HIDE DEF new, c
    <2>5. QED
      BY <1>1, <2>1, <2>2, <2>4 DEF TablesStep, Conversations, AgentRow
  <1>3. CASE ResolveCommit(r)
    <2>1. c \in Conversations
      BY <1>3 DEF ResolveCommit, SafetyInv, TypeOK
    <2>2. rows' = rows /\ status' = [status EXCEPT ![c] = "resolved"]
      BY <1>3 DEF ResolveCommit
    <2>3. /\ Len(status') = Len(status)
          /\ \A d \in Conversations : status'[d] = IF d = c THEN "resolved" ELSE status[d]
      BY <1>1, <2>1, <2>2, SetStatus DEF Status
    <2>4. QED
      BY <1>1, <2>2, <2>3 DEF TablesStep, Conversations
  <1>4. CASE \/ \E d \in Conversations : ReplyLoad(r, d) \/ ResolveLoad(r, d)
             \/ ReplySent(r) \/ RequestFails(r)
    BY <1>1, <1>4, TablesUnchanged DEF ReplyLoad, ResolveLoad, ReplySent, RequestFails
  <1>5. QED
    BY <1>2, <1>3, <1>4 DEF AgentStep

LEMMA ExpireTables ==
    ASSUME SafetyInv, NEW m \in Messages, ExpireTakeover(m)
    PROVE  TablesStep
  <1> DEFINE c == handler[m].conv
  <1>1. status \in Seq(Status) /\ Len(status) \in Nat /\ c \in Conversations
    BY DEF SafetyInv, TypeOK, ExpireTakeover
  <1>2. rows' = rows /\ status' = [status EXCEPT ![c] = "escalated"]
    BY DEF ExpireTakeover
  <1>3. /\ Len(status') = Len(status)
        /\ \A d \in Conversations : status'[d] = IF d = c THEN "escalated" ELSE status[d]
    BY <1>1, <1>2, SetStatus DEF Status
  <1>4. QED
    BY <1>1, <1>2, <1>3 DEF TablesStep, Conversations

LEMMA EveryStepOnTables == SafetyInv /\ [Next]_vars => TablesStep
  <1> SUFFICES ASSUME SafetyInv, [Next]_vars PROVE TablesStep
    OBVIOUS
  <1>1. TypeOK
    BY DEF SafetyInv
  <1>2. ASSUME NEW m \in Messages, Receive(m) \/ HandlerStep(m) PROVE TablesStep
    <2>1. CASE PersistCommit(m)
      BY <2>1, PersistCommitTables
    <2>2. CASE ExpireTakeover(m)
      BY <2>2, ExpireTables
    <2>3. CASE UNCHANGED <<status, rows>>
      BY <1>1, <2>3, TablesUnchanged
    <2>4. QED
      BY <1>2, <2>1, <2>2, <2>3
      DEF HandlerStep, Receive, ReadStatus, ReadLastAgent, CheckFails, BotAnswers, StaySilent,
          Schedule, BotRaises, PersistRead, PersistFails
  <1>3. ASSUME NEW r \in Requests, AgentStep(r) PROVE TablesStep
    BY <1>3, RequestTables
  <1>4. CASE Tick \/ UNCHANGED vars
    BY <1>1, <1>4, TablesUnchanged DEF Tick, vars
  <1>5. QED
    BY <1>2, <1>3, <1>4 DEF Next

\* A record that is not written by the step keeps its guarantees: statuses
\* never go back to "active" (TablesStep).
LEMMA HandlersKeepLoaded ==
    ASSUME SafetyInv, [Next]_vars, TablesStep
    PROVE  LoadedNotActive'
  <1> SUFFICES ASSUME NEW m \in Messages, handler'[m].pc = "writing",
                      handler'[m].conv # NoConversation, handler'[m].seen # "active"
               PROVE  status'[handler'[m].conv] # "active"
    BY DEF LoadedNotActive
  <1> USE DEF SafetyInv
  <1>1. \/ handler'[m] = handler[m]
        \/ PersistRead(m)
    <2>1. ASSUME NEW n \in Messages, Receive(n) \/ HandlerStep(n)
          PROVE  handler'[m] = handler[m] \/ PersistRead(m)
      <3>1. CASE m # n
        BY <2>1, <3>1 DEF HandlerStep, Receive, ReadStatus, ReadLastAgent, CheckFails, BotAnswers,
             StaySilent, Schedule, BotRaises, PersistRead, PersistFails, PersistCommit,
             ExpireTakeover, TypeOK
      <3>2. CASE m = n
        <4>1. handler \in [Messages -> HandlerType]
          BY DEF TypeOK, HandlerType
        <4>2. CASE Receive(m) \/ ReadStatus(m) \/ ReadLastAgent(m)
          <5>1. handler'[m].pc \in {"received", "bot", "taken", "silent", "expired"}
            <6>1. CASE Receive(m)
              BY <4>1, <6>1 DEF Receive, HandlerType
            <6>2. CASE ReadStatus(m)
              <7>1. CASE handler' = [handler EXCEPT ![m].pc = "bot"]
                BY <4>1, <7>1 DEF HandlerType
              <7>2. ASSUME NEW c \in Conversations,
                           handler' = [handler EXCEPT ![m] =
                             [@ EXCEPT !.pc = "taken", !.conv = c, !.cutoff = now - Timeout]]
                    PROVE  handler'[m].pc = "taken"
                BY <4>1, <7>2 DEF HandlerType
              <7>3. QED
                BY <6>2, <7>1, <7>2 DEF ReadStatus
            <6>3. CASE ReadLastAgent(m)
              BY <4>1, <6>3 DEF ReadLastAgent, HandlerType
            <6>4. QED
              BY <4>2, <6>1, <6>2, <6>3
          <5>2. QED
            BY <5>1
        <4>3. CASE BotAnswers(m) \/ StaySilent(m)
          <5>1. ASSUME NEW o, Schedule(m, o) PROVE handler'[m].pc = "chained"
            BY <4>1, <5>1 DEF Schedule, HandlerType
          <5>2. QED
            BY <4>3, <5>1 DEF BotAnswers, StaySilent
        <4>4. CASE ExpireTakeover(m) \/ CheckFails(m)
          BY <4>1, <4>4 DEF ExpireTakeover, CheckFails, HandlerType
        <4>5. CASE BotRaises(m) \/ PersistFails(m) \/ PersistCommit(m)
          BY <4>1, <4>5 DEF BotRaises, PersistFails, PersistCommit, HandlerAt
        <4>6. QED
          BY <2>1, <3>2, <4>2, <4>3, <4>4, <4>5 DEF HandlerStep
      <3>3. QED
        BY <3>1, <3>2
    <2>2. ASSUME NEW r \in Requests, AgentStep(r) PROVE handler'[m] = handler[m]
      BY <2>2 DEF AgentStep, ReplyLoad, ReplySent, ReplyCommit, ResolveLoad, ResolveCommit,
           RequestFails
    <2>3. CASE Tick \/ UNCHANGED vars
      BY <2>3 DEF Tick, vars
    <2>4. QED
      BY <2>1, <2>2, <2>3 DEF Next
  <1>2. CASE handler'[m] = handler[m]
    <2>1. handler[m].conv \in Conversations /\ status[handler[m].conv] # "active"
      BY <1>2 DEF LoadedNotActive, TypeOK
    <2>2. QED
      BY <1>2, <2>1 DEF TablesStep
  <1>3. CASE PersistRead(m)
    <2>1. status' = status
      BY <1>3 DEF PersistRead
    <2>2. PICK c \in Conversations : handler'[m].conv = c /\ handler'[m].seen = status[c]
      BY <1>3 DEF PersistRead, TypeOK
    <2>3. QED
      BY <2>1, <2>2
  <1>4. QED
    BY <1>1, <1>2, <1>3

LEMMA RequestsKeepLoaded ==
    ASSUME SafetyInv, [Next]_vars, TablesStep
    PROVE  ResolvingNotActive'
  <1> SUFFICES ASSUME NEW r \in Requests, request'[r].pc = "resolving"
               PROVE  status'[request'[r].conv] # "active"
    BY DEF ResolvingNotActive
  <1> USE DEF SafetyInv
  <1>1. request'[r] = request[r] \/ \E c \in Conversations : ResolveLoad(r, c)
    <2>1. ASSUME NEW q \in Requests, AgentStep(q)
          PROVE  request'[r] = request[r] \/ \E c \in Conversations : ResolveLoad(r, c)
      <3>1. CASE r # q
        BY <2>1, <3>1 DEF AgentStep, ReplyLoad, ReplySent, ReplyCommit, ResolveLoad,
             ResolveCommit, RequestFails, TypeOK
      <3>2. CASE r = q
        <4>1. request \in [Requests -> RequestType]
          BY DEF TypeOK, RequestType
        <4>2. CASE ReplySent(r) \/ \E c \in Conversations : ReplyLoad(r, c)
          BY <4>1, <4>2 DEF ReplySent, ReplyLoad, RequestType
        <4>3. CASE ReplyCommit(r) \/ ResolveCommit(r) \/ RequestFails(r)
          BY <4>1, <4>3 DEF ReplyCommit, ResolveCommit, RequestFails, RequestAt
        <4>4. QED
          BY <2>1, <3>2, <4>2, <4>3 DEF AgentStep
      <3>3. QED
        BY <3>1, <3>2
    <2>2. ASSUME NEW n \in Messages, Receive(n) \/ HandlerStep(n)
          PROVE  request'[r] = request[r]
      BY <2>2 DEF HandlerStep, Receive, ReadStatus, ReadLastAgent, CheckFails, BotAnswers,
           StaySilent, Schedule, BotRaises, PersistRead, PersistFails, PersistCommit, ExpireTakeover
    <2>3. CASE Tick \/ UNCHANGED vars
      BY <2>3 DEF Tick, vars
    <2>4. QED
      BY <2>1, <2>2, <2>3 DEF Next
  <1>2. CASE request'[r] = request[r]
    <2>1. request[r].conv \in Conversations /\ status[request[r].conv] # "active"
      BY <1>2 DEF ResolvingNotActive, TypeOK
    <2>2. QED
      BY <1>2, <2>1 DEF TablesStep
  <1>3. ASSUME NEW c \in Conversations, ResolveLoad(r, c)
        PROVE  status'[request'[r].conv] # "active"
    BY <1>3 DEF ResolveLoad, TypeOK
  <1>4. QED
    BY <1>1, <1>2, <1>3

\* Nothing but ResolveCommit writes "resolved".
LEMMA OnlyResolveResolves ==
    ASSUME SafetyInv, Next, NEW c \in Conversations,
           status'[c] = "resolved", status[c] # "resolved"
    PROVE  \E r \in Requests : ResolveCommit(r) /\ request[r].conv = c
  <1>1. status \in Seq(Status) /\ TypeOK
    BY DEF SafetyInv, TypeOK
  <1>2. ASSUME NEW m \in Messages, ExpireTakeover(m) PROVE FALSE
    <2>1. handler[m].conv \in Conversations
      BY <1>1, <1>2 DEF ExpireTakeover, TypeOK
    <2>2. status'[c] = IF c = handler[m].conv THEN "escalated" ELSE status[c]
      BY <1>1, <1>2, <2>1, SetStatus DEF ExpireTakeover, Status
    <2>3. QED
      BY <2>2
  <1>3. ASSUME NEW m \in Messages, PersistCommit(m) PROVE FALSE
    <2>1. handler[m].conv \in Conversations \cup {NoConversation} /\ status' = StatusAfter(m)
      BY <1>1, <1>3 DEF PersistCommit, TypeOK
    <2>2. status'[c] = status[c] \/ status'[c] = "escalated"
      <3>1. CASE handler[m].conv = NoConversation
        BY <1>1, <2>1, <3>1, AddStatus DEF StatusAfter, Status
      <3>2. CASE handler[m].conv \in Conversations /\ handler[m].conv # NoConversation
        BY <1>1, <2>1, <3>2, SetStatus DEF StatusAfter, Status
      <3>3. QED
        BY <2>1, <3>1, <3>2
    <2>3. QED
      BY <2>2
  <1>4. ASSUME NEW r \in Requests, ReplyCommit(r) PROVE FALSE
    <2>1. request[r].conv \in Conversations
      BY <1>1, <1>4 DEF ReplyCommit, TypeOK
    <2>2. status'[c] = status[c] \/ status'[c] = "agent"
      BY <1>1, <1>4, <2>1, SetStatus DEF ReplyCommit, Status
    <2>3. QED
      BY <2>2
  <1>5. ASSUME NEW r \in Requests, ResolveCommit(r)
        PROVE  request[r].conv = c
    <2>1. request[r].conv \in Conversations
      BY <1>1, <1>5 DEF ResolveCommit, TypeOK
    <2>2. status'[c] = IF c = request[r].conv THEN "resolved" ELSE status[c]
      BY <1>1, <1>5, <2>1, SetStatus DEF ResolveCommit, Status
    <2>3. QED
      BY <2>2
  <1>6. ASSUME UNCHANGED status PROVE FALSE
    BY <1>6
  <1>7. QED
    BY <1>2, <1>3, <1>4, <1>5, <1>6
    DEF Next, HandlerStep, AgentStep, Tick, Receive, ReadStatus, ReadLastAgent, CheckFails,
        BotAnswers, StaySilent, Schedule, BotRaises, PersistRead, PersistFails,
        ReplyLoad, ReplySent, ResolveLoad, RequestFails

LEMMA SafetyStep == SafetyInv /\ [Next]_vars => SafetyInv'
  <1> SUFFICES ASSUME SafetyInv, [Next]_vars PROVE SafetyInv'
    OBVIOUS
  <1>1. TypeOK /\ TypeOK'
    BY TypeStep DEF SafetyInv
  <1>2. TablesStep
    BY EveryStepOnTables
  <1>3. AgentStatusHasMessage'
    <2> SUFFICES ASSUME NEW c \in Conversations', status'[c] = "agent"
                 PROVE  AgentRow(c, rows')
      BY DEF AgentStatusHasMessage, AgentRow
    <2>1. c \in Conversations
      BY <1>2 DEF TablesStep
    <2>2. CASE status[c] = "agent"
      BY <1>2, <2>1, <2>2 DEF SafetyInv, AgentStatusHasMessage, AgentRow, TablesStep
    <2>3. CASE status[c] # "agent"
      BY <1>2, <2>1, <2>3 DEF TablesStep
    <2>4. QED
      BY <2>2, <2>3
  <1>4. TransferNotActive'
    <2> SUFFICES ASSUME NEW row \in rows', row.transfer PROVE status'[row.conv] # "active"
      BY DEF TransferNotActive
    <2>1. CASE row \in rows
      BY <1>1, <1>2, <2>1 DEF SafetyInv, TransferNotActive, TablesStep, TypeOK
    <2>2. CASE row \notin rows
      BY <1>2, <2>2 DEF TablesStep
    <2>3. QED
      BY <2>1, <2>2
  <1>5. LoadedNotActive' /\ ResolvingNotActive'
    BY <1>2, HandlersKeepLoaded, RequestsKeepLoaded
  <1>6. QED
    BY <1>1, <1>3, <1>4, <1>5 DEF SafetyInv

LEMMA SafetyInit == Init => SafetyInv
  <1> SUFFICES ASSUME Init PROVE SafetyInv
    OBVIOUS
  <1>1. TypeOK
    BY InitType
  <1>2. Conversations = {} /\ rows = {}
    BY DEF Init, Conversations
  <1>3. LoadedNotActive /\ ResolvingNotActive
    BY DEF Init, HandlerAt, RequestAt, LoadedNotActive, ResolvingNotActive
  <1>4. QED
    BY <1>1, <1>2, <1>3 DEF SafetyInv, AgentStatusHasMessage, TransferNotActive

THEOREM SafetyInvariant == Spec => []SafetyInv
  BY SafetyInit, SafetyStep, PTL DEF Spec

(* Every conversation in status "agent" holds a message of an agent, so    *)
(* the time-out of a take-over is always measured from a real message.     *)
THEOREM AgentStatusIsDated == Spec => []AgentStatusHasMessage
  <1>1. SafetyInv => AgentStatusHasMessage
    BY DEF SafetyInv
  <1>2. QED
    BY <1>1, SafetyInvariant, PTL

(* A transfer the customer was told of is on the list of /admin, or its    *)
(* conversation was closed, until the messages list_escalated reads have   *)
(* all followed it.                                                        *)
THEOREM TransfersAreKept == Spec => []TransferNotForgotten
  <1>1. SafetyInv => TransferNotForgotten
    <2> SUFFICES ASSUME SafetyInv, NEW row \in rows, row.transfer, ~Buried(row), status[row.conv] # "resolved"
                 PROVE  Listed(row.conv)
      BY DEF TransferNotForgotten
    <2>1. row.conv \in Conversations /\ status[row.conv] # "active"
      BY DEF SafetyInv, TypeOK, TransferNotActive
    <2>2. status[row.conv] \in {"escalated", "agent"}
      BY <2>1, ElementOfSeq DEF SafetyInv, TypeOK, Conversations, Status
    <2>3. TransferInWindow(row.conv)
      BY DEF TransferInWindow
    <2>4. QED
      BY <2>2, <2>3 DEF Listed
  <1>2. QED
    BY <1>1, SafetyInvariant, PTL

(* "Marquer traitee" closes only conversations that wait or are held, even *)
(* when they changed between its guard and its write.                      *)
THEOREM ResolvesOnlyOpen == Spec => ResolvesOpenConversations
  <1> DEFINE Allowed == \A c \in Conversations :
               status'[c] = "resolved" /\ status[c] # "resolved"
                 => status[c] \in {"escalated", "agent"}
  <1>1. SafetyInv /\ [Next]_vars => [Allowed]_vars
    <2> SUFFICES ASSUME SafetyInv, Next, NEW c \in Conversations,
                        status'[c] = "resolved", status[c] # "resolved"
                 PROVE  status[c] \in {"escalated", "agent"}
      OBVIOUS
    <2>1. status[c] # "active" => status[c] \in {"escalated", "agent"}
      BY ElementOfSeq DEF SafetyInv, TypeOK, Conversations, Status
    <2>2. PICK r \in Requests : ResolveCommit(r) /\ request[r].conv = c
      BY OnlyResolveResolves
    <2>3. QED
      BY <2>1, <2>2 DEF SafetyInv, ResolvingNotActive, ResolveCommit
  <1>2. QED
    BY <1>1, SafetyInvariant, PTL DEF Spec, ResolvesOpenConversations

---------------------------------------------------------------------------
(* What the comments promise, while operations do not overlap.  The        *)
(* argument: nothing can change what the one open operation has read, so   *)
(* what it remembers of the conversation still holds when it writes.       *)

Busy(r) == request[r].pc \in {"sending", "sent", "resolving"}

\* The agent has the current conversation, c; nobody has it.
Held(c) == IsRecent(c, now - Timeout) /\ status[c] = "agent"
Free == \A c \in Conversations : ~Held(c)

\* What a handler remembers still holds.
Current(h) ==
    /\ h.pc \in {"taken", "expired", "silent"} => Held(h.conv)
    /\ h.pc \in {"taken", "expired"} => h.cutoff = now - Timeout
    /\ h.pc = "expired" => ~AgentWroteSince(h.conv, now - Timeout)
    /\ h.pc = "bot" => Free
    /\ h.pc = "chained" => IF h.outcome = "silent" THEN ~Free ELSE Free
    /\ h.pc = "writing" =>
         /\ h.conv # NoConversation => h.seen = status[h.conv]
         /\ IF h.outcome = "silent" THEN h.conv \in Conversations /\ status[h.conv] = "agent"
            ELSE h.conv # NoConversation => status[h.conv] # "agent"

\* One operation is open, and it is up to date.
Calm ==
    /\ \A m, n \in Messages : Open(m) /\ Open(n) => m = n
    /\ \A m \in Messages, r \in Requests : ~(Open(m) /\ Busy(r))
    /\ \A r, q \in Requests : Busy(r) /\ Busy(q) => r = q
    /\ \A m \in Messages : Current(handler[m])
    /\ \A r \in Requests : Busy(r) => request[r].seen = status[request[r].conv]

\* get_recent_for_user returns one conversation.
LEMMA OneRecent ==
    ASSUME NEW c, NEW d, IsRecent(c, now - Timeout), IsRecent(d, now - Timeout), TypeOK
    PROVE  c = d
  <1>1. c \in Nat /\ d \in Nat /\ c \in Conversations /\ d \in Conversations
    BY DEF IsRecent, Conversations, TypeOK
  <1>2. ~(d > c) /\ ~(c > d)
    BY <1>1 DEF IsRecent
  <1>3. QED
    BY <1>1, <1>2

LEMMA FreeUnless ==
    ASSUME NEW c, IsRecent(c, now - Timeout), TypeOK
    PROVE  Free <=> status[c] # "agent"
  <1>1. \A d : IsRecent(d, now - Timeout) => d = c
    BY OneRecent
  <1>2. c \in Conversations
    BY DEF IsRecent
  <1>3. QED
    BY <1>1, <1>2 DEF Free, Held

LEMMA FreeWithout ==
    ASSUME NoneRecent(now - Timeout)
    PROVE  Free
  BY DEF Free, Held, IsRecent, NoneRecent

\* Nothing is open: there is nothing to remember.
LEMMA AtRest == Quiet' => Calm'
  <1> SUFFICES ASSUME Quiet' PROVE Calm'
    OBVIOUS
  <1>1. \A m \in Messages : ~Open(m)' /\ handler'[m].pc \in {"idle", "stored", "lost", "raised"}
    BY DEF Quiet, Open
  <1>2. \A r \in Requests : ~Busy(r)'
    BY DEF Quiet, Busy
  <1>3. \A m \in Messages : Current(handler[m])'
    BY <1>1 DEF Current
  <1>4. QED
    BY <1>1, <1>2, <1>3 DEF Calm

\* Only m is open, if any operation is.
Only(m) == (\A n \in Messages : Open(n) => n = m) /\ \A r \in Requests : ~Busy(r)

LEMMA OpenIsOnly ==
    ASSUME Calm, NEW m \in Messages, Open(m) \/ Quiet
    PROVE  Only(m)
  BY DEF Calm, Only, Quiet, Busy

\* A step of that message, which becomes h.
LEMMA OnlyMoves ==
    ASSUME HandlersOK, Calm, NEW m \in Messages, Only(m), NEW h, handler' = [handler EXCEPT ![m] = h],
           request' = request, Current(handler[m])'
    PROVE  Calm'
  <1>1. \A n \in Messages : handler'[n] = IF n = m THEN h ELSE handler[n]
    BY DEF HandlersOK
  <1>2. ASSUME NEW n \in Messages, n # m
        PROVE  ~Open(n)' /\ Current(handler[n])'
    <2>1. handler'[n] = handler[n] /\ ~Open(n)
      BY <1>1, <1>2 DEF Only
    <2>2. handler'[n].pc \in {"idle", "stored", "lost", "raised"}
      BY <2>1 DEF Open
    <2>3. QED
      BY <2>2 DEF Open, Current
  <1>3. \A r \in Requests : ~Busy(r)'
    BY DEF Only, Busy
  <1>4. QED
    BY <1>2, <1>3 DEF Calm

\* ... that reads, or waits.
LEMMA OnlyReads ==
    ASSUME HandlersOK, Calm, NEW m \in Messages, Only(m), NEW h, handler' = [handler EXCEPT ![m] = h],
           UNCHANGED <<now, status, rows, request>>, Current(h)
    PROVE  Calm'
  <1>1. handler'[m] = h
    BY DEF HandlersOK
  <1>2. Current(handler[m])'
    BY <1>1 DEF Current, Held, Free, IsRecent, ActiveSince, AgentWroteSince, Conversations
  <1>3. QED
    BY <1>2, OnlyMoves

\* ... that ends.
LEMMA OnlyEnds ==
    ASSUME HandlersOK, NEW m \in Messages, Only(m), NEW pc \in {"stored", "lost", "raised"},
           handler' = [handler EXCEPT ![m] = HandlerAt(pc)], request' = request
    PROVE  Calm'
  <1>1. \A n \in Messages : handler'[n] = IF n = m THEN HandlerAt(pc) ELSE handler[n]
    BY DEF HandlersOK
  <1>2. HandlerAt(pc).pc = pc
    BY DEF HandlerAt
  <1>3. \A n \in Messages : ~Open(n)'
    BY <1>1, <1>2 DEF Only, Open
  <1>4. \A r \in Requests : request'[r].pc \notin {"sending", "sent", "resolving"}
    BY DEF Only, Busy
  <1>5. QED
    BY <1>3, <1>4, AtRest DEF Quiet

LEMMA CalmMessage ==
    ASSUME ~Overlap, ~CheckFaults, TypeOK, Calm, NEW m \in Messages, Receive(m) \/ HandlerStep(m)
    PROVE  Calm'
  <1>0. HandlersOK /\ handler[m] \in HandlerType /\ Current(handler[m])
    BY TypeParts DEF HandlersOK, Calm
  <1>1. Only(m)
    <2>1. Open(m) \/ Quiet
      BY DEF HandlerStep, Receive, ReadStatus, ReadLastAgent, ExpireTakeover, CheckFails, BotAnswers,
             StaySilent, BotRaises, PersistRead, PersistCommit, PersistFails, Open, MayStart
    <2>2. QED
      BY <2>1, OpenIsOnly
  <1>2. CASE Receive(m)
    <2> DEFINE h == [handler[m] EXCEPT !.pc = "received", !.received = now]
    <2>1. h.pc = "received"
      BY <1>0 DEF HandlerType
    <2>2. handler' = [handler EXCEPT ![m] = h] /\ UNCHANGED <<now, status, rows, request>>
      BY <1>2 DEF Receive
    <2> HIDE DEF h
    <2>3. Current(h)
      BY <2>1 DEF Current
    <2>4. QED
      BY <1>0, <1>1, <2>2, <2>3, OnlyReads
  <1>3. CASE ReadStatus(m)
    <2>0. UNCHANGED <<now, status, rows, request>>
      BY <1>3 DEF ReadStatus
    <2>1. CASE Free /\ handler' = [handler EXCEPT ![m].pc = "bot"]
      <3> DEFINE h == [handler[m] EXCEPT !.pc = "bot"]
      <3>1. h.pc = "bot"
        BY <1>0 DEF HandlerType
      <3>2. handler' = [handler EXCEPT ![m] = h]
        BY <2>1
      <3> HIDE DEF h
      <3>3. Current(h)
        BY <2>1, <3>1 DEF Current
      <3>4. QED
        BY <1>0, <1>1, <2>0, <3>2, <3>3, OnlyReads
    <2>2. ASSUME NEW c \in Conversations, Held(c),
                 handler' = [handler EXCEPT ![m] =
                   [@ EXCEPT !.pc = "taken", !.conv = c, !.cutoff = now - Timeout]]
          PROVE  Calm'
      <3> DEFINE h == [handler[m] EXCEPT !.pc = "taken", !.conv = c, !.cutoff = now - Timeout]
      <3>1. h.pc = "taken" /\ h.conv = c /\ h.cutoff = now - Timeout
        BY <1>0 DEF HandlerType
      <3>2. handler' = [handler EXCEPT ![m] = h]
        BY <2>2
      <3> HIDE DEF h
      <3>3. Current(h)
        BY <2>2, <3>1 DEF Current
      <3>4. QED
        BY <1>0, <1>1, <2>0, <3>2, <3>3, OnlyReads
    <2>3. CASE NoneRecent(now - Timeout) /\ handler' = [handler EXCEPT ![m].pc = "bot"]
      BY <2>1, <2>3, FreeWithout
    <2>4. ASSUME NEW c \in Conversations, IsRecent(c, now - Timeout),
                 handler' = IF status[c] = "agent"
                   THEN [handler EXCEPT ![m] =
                          [@ EXCEPT !.pc = "taken", !.conv = c, !.cutoff = now - Timeout]]
                   ELSE [handler EXCEPT ![m].pc = "bot"]
          PROVE  Calm'
      BY <2>1, <2>2, <2>4, FreeUnless DEF Held
    <2>5. QED
      BY <1>3, <2>3, <2>4 DEF ReadStatus
  <1>4. CASE ReadLastAgent(m)
    <2>1. PICK pc : pc = IF AgentWroteSince(handler[m].conv, handler[m].cutoff) THEN "silent" ELSE "expired"
      OBVIOUS
    <2> DEFINE h == [handler[m] EXCEPT !.pc = pc]
    <2>2. h.pc = pc /\ h.conv = handler[m].conv /\ h.cutoff = handler[m].cutoff
      BY <1>0 DEF HandlerType
    <2>3. handler' = [handler EXCEPT ![m] = h] /\ UNCHANGED <<now, status, rows, request>>
      BY <1>4, <2>1 DEF ReadLastAgent
    <2>4. Held(handler[m].conv) /\ handler[m].cutoff = now - Timeout
      BY <1>0, <1>4 DEF ReadLastAgent, Current
    <2> HIDE DEF h
    <2>5. Current(h)
      BY <2>1, <2>2, <2>4 DEF Current
    <2>6. QED
      BY <1>0, <1>1, <2>3, <2>5, OnlyReads
  <1>5. CASE ExpireTakeover(m)
    <2> DEFINE h == [handler[m] EXCEPT !.pc = "bot"]
               c == handler[m].conv
    <2>1. h.pc = "bot" /\ handler' = [handler EXCEPT ![m] = h] /\ handler'[m].pc = "bot"
      BY <1>0, <1>5 DEF ExpireTakeover, HandlerType, HandlersOK
    <2>2. Held(c) /\ c \in Conversations /\ status \in Seq(Status)
      BY <1>0, <1>5 DEF ExpireTakeover, Current, Held, IsRecent, TypeOK
    <2>3. status' = [status EXCEPT ![c] = "escalated"] /\ UNCHANGED <<now, rows, request>>
      BY <1>5 DEF ExpireTakeover
    <2>4. Conversations' = Conversations /\ status'[c] = "escalated"
      BY <2>2, <2>3, SetStatus DEF Conversations, Status
    <2>5. \A d : IsRecent(d, now - Timeout)' => IsRecent(d, now - Timeout)
      BY <2>3, <2>4 DEF IsRecent, ActiveSince
    <2>6. \A d : IsRecent(d, now - Timeout)' => d = c
      BY <2>2, <2>5, OneRecent DEF Held
    <2>7. Free'
      BY <2>4, <2>6 DEF Free, Held
    <2>8. Current(handler[m])'
      BY <2>1, <2>7 DEF Current
    <2>9. QED
      BY <1>0, <1>1, <2>1, <2>3, <2>8, OnlyMoves
  <1>6. CASE CheckFails(m)
    BY <1>6 DEF CheckFails
  <1>7. ASSUME NEW o \in {"plain", "escalated", "silent"}, Schedule(m, o),
               IF o = "silent" THEN ~Free ELSE Free
        PROVE  Calm'
    <2> DEFINE h == [handler[m] EXCEPT !.pc = "chained", !.outcome = o, !.answered = now]
    <2>1. h.pc = "chained" /\ h.outcome = o
      BY <1>0 DEF HandlerType
    <2>2. handler' = [handler EXCEPT ![m] = h] /\ UNCHANGED <<now, status, rows, request>>
      BY <1>7 DEF Schedule
    <2> HIDE DEF h
    <2>3. Current(h)
      BY <1>7, <2>1 DEF Current
    <2>4. QED
      BY <1>0, <1>1, <2>2, <2>3, OnlyReads
  <1>8. CASE BotAnswers(m)
    BY <1>0, <1>7, <1>8 DEF BotAnswers, Current
  <1>9. CASE StaySilent(m)
    <2>1. ~Free
      BY <1>0, <1>9 DEF StaySilent, Current, Free, Held, IsRecent
    <2>2. QED
      BY <1>7, <1>9, <2>1 DEF StaySilent
  <1>10. CASE PersistRead(m)
    <2>0. UNCHANGED <<now, status, rows, request>> /\ handler[m].pc = "chained"
      BY <1>10 DEF PersistRead
    <2>1. ASSUME NEW c \in Nat, NEW s \in Status, Current([handler[m] EXCEPT !.pc = "writing", !.conv = c, !.seen = s]),
                 handler' = [handler EXCEPT ![m] = [@ EXCEPT !.pc = "writing", !.conv = c, !.seen = s]]
          PROVE  Calm'
      <3>1. PICK h : h = [handler[m] EXCEPT !.pc = "writing", !.conv = c, !.seen = s]
        OBVIOUS
      <3>2. handler' = [handler EXCEPT ![m] = h] /\ Current(h)
        BY <2>1, <3>1
      <3>3. QED
        BY <1>0, <1>1, <2>0, <3>2, OnlyReads
    <2>2. ASSUME NEW c \in Nat, NEW s \in Status, c # NoConversation => s = status[c],
                 IF handler[m].outcome = "silent" THEN c \in Conversations /\ status[c] = "agent"
                 ELSE c # NoConversation => status[c] # "agent"
          PROVE  Current([handler[m] EXCEPT !.pc = "writing", !.conv = c, !.seen = s])
      <3> DEFINE h == [handler[m] EXCEPT !.pc = "writing", !.conv = c, !.seen = s]
      <3>1. h.pc = "writing" /\ h.conv = c /\ h.seen = s /\ h.outcome = handler[m].outcome
        BY <1>0 DEF HandlerType
      <3> HIDE DEF h
      <3>2. Current(h)
        BY <2>2, <3>1 DEF Current
      <3>3. QED
        BY <3>2 DEF h
    <2>3. IF handler[m].outcome = "silent" THEN ~Free ELSE Free
      BY <1>0, <2>0 DEF Current
    <2>4. CASE NoneRecent(now - Timeout) /\ handler' = [handler EXCEPT ![m] =
                 [@ EXCEPT !.pc = "writing", !.conv = NoConversation, !.seen = "active"]]
      <3>1. handler[m].outcome # "silent"
        BY <2>3, <2>4, FreeWithout
      <3>2. NoConversation \in Nat /\ "active" \in Status
        BY DEF NoConversation, Status
      <3>3. QED
        BY <2>1, <2>2, <2>4, <3>1, <3>2
    <2>5. ASSUME NEW c \in Conversations, IsRecent(c, now - Timeout),
                 handler' = [handler EXCEPT ![m] = [@ EXCEPT !.pc = "writing", !.conv = c, !.seen = status[c]]]
          PROVE  Calm'
      <3>1. IF handler[m].outcome = "silent" THEN status[c] = "agent" ELSE status[c] # "agent"
        BY <2>3, <2>5, FreeUnless
      <3>2. c \in Nat /\ status[c] \in Status
        BY DEF Conversations, TypeOK
      <3>3. PICK s \in Status : s = status[c]
        BY <3>2
      <3>4. QED
        BY <2>1, <2>2, <2>5, <3>1, <3>2, <3>3
    <2>6. QED
      BY <1>10, <2>4, <2>5 DEF PersistRead
  <1>11. CASE BotRaises(m) \/ PersistCommit(m) \/ PersistFails(m)
    BY <1>0, <1>1, <1>11, OnlyEnds DEF BotRaises, PersistCommit, PersistFails
  <1>12. QED
    BY <1>2, <1>3, <1>4, <1>5, <1>6, <1>8, <1>9, <1>10, <1>11 DEF HandlerStep

LEMMA CalmRequest ==
    ASSUME ~Overlap, TypeOK, Calm, NEW r \in Requests, AgentStep(r)
    PROVE  Calm'
  <1>0. RequestsOK /\ request[r] \in RequestType
    BY TypeParts DEF RequestsOK
  <1>1. (\A m \in Messages : ~Open(m)) /\ \A q \in Requests : Busy(q) => q = r
    <2>1. Busy(r) \/ Quiet
      BY DEF AgentStep, ReplyLoad, ReplySent, ReplyCommit, ResolveLoad, ResolveCommit, RequestFails,
             Busy, MayStart
    <2>2. QED
      BY <2>1 DEF Calm, Quiet, Busy
  <1>2. handler' = handler
    BY DEF AgentStep, ReplyLoad, ReplySent, ReplyCommit, ResolveLoad, ResolveCommit, RequestFails
  <1>3. \A m \in Messages : ~Open(m)' /\ handler'[m].pc \in {"idle", "stored", "lost", "raised"}
    BY <1>1, <1>2 DEF Open
  <1>4. \A m \in Messages : Current(handler[m])'
    BY <1>3 DEF Current
  <1>5. ASSUME NEW q, request' = [request EXCEPT ![r] = q], status' = status, q.seen = status[q.conv]
        PROVE  Calm'
    <2>1. \A p \in Requests : request'[p] = IF p = r THEN q ELSE request[p]
      BY <1>0, <1>5 DEF RequestsOK
    <2>2. \A p \in Requests : p # r => ~Busy(p)'
      BY <1>1, <2>1 DEF Busy
    <2>3. \A p \in Requests : Busy(p)' => request'[p].seen = status'[request'[p].conv]
      BY <1>5, <2>1, <2>2
    <2>4. QED
      BY <1>3, <1>4, <2>2, <2>3 DEF Calm
  <1>6. ASSUME NEW pc \in {"done", "failed"}, request' = [request EXCEPT ![r] = RequestAt(pc)]
        PROVE  Calm'
    <2>1. \A p \in Requests : request'[p] = IF p = r THEN RequestAt(pc) ELSE request[p]
      BY <1>0, <1>6 DEF RequestsOK
    <2>2. \A p \in Requests : request'[p].pc \notin {"sending", "sent", "resolving"}
      BY <1>1, <2>1, EndedRequest DEF Busy
    <2>3. QED
      BY <1>3, <2>2, AtRest DEF Quiet
  <1>7. ASSUME NEW c \in Conversations, ReplyLoad(r, c)
        PROVE  Calm'
    <2>1. PICK q : q = [request[r] EXCEPT !.pc = "sending", !.conv = c, !.seen = status[c]]
      OBVIOUS
    <2>2. q.seen = status[c] /\ q.conv = c
      BY <1>0, <2>1 DEF RequestType
    <2>3. QED
      BY <1>5, <1>7, <2>1, <2>2 DEF ReplyLoad
  <1>8. ASSUME NEW c \in Conversations, ResolveLoad(r, c)
        PROVE  Calm'
    <2>1. PICK q : q = [request[r] EXCEPT !.pc = "resolving", !.conv = c, !.seen = status[c]]
      OBVIOUS
    <2>2. q.seen = status[c] /\ q.conv = c
      BY <1>0, <2>1 DEF RequestType
    <2>3. QED
      BY <1>5, <1>8, <2>1, <2>2 DEF ResolveLoad
  <1>9. CASE ReplySent(r)
    <2>1. PICK q : q = [request[r] EXCEPT !.pc = "sent", !.sentAt = now]
      OBVIOUS
    <2>2. q.seen = request[r].seen /\ q.conv = request[r].conv
      BY <1>0, <2>1 DEF RequestType
    <2>3. request[r].seen = status[request[r].conv]
      BY <1>9 DEF ReplySent, Calm, Busy
    <2>4. QED
      BY <1>5, <1>9, <2>1, <2>2, <2>3 DEF ReplySent
  <1>10. CASE ReplyCommit(r) \/ ResolveCommit(r) \/ RequestFails(r)
    BY <1>6, <1>10 DEF ReplyCommit, ResolveCommit, RequestFails
  <1>11. QED
    BY <1>7, <1>8, <1>9, <1>10 DEF AgentStep

LEMMA CalmStep ==
    ASSUME ~Overlap, ~CheckFaults, TypeOK, Calm, [Next]_vars
    PROVE  Calm'
  <1>1. CASE UNCHANGED vars
    BY <1>1 DEF vars, Calm, Open, Busy, Current, Held, Free, IsRecent, ActiveSince, AgentWroteSince,
                Conversations
  <1>2. CASE Tick
    <2>1. Quiet'
      BY <1>2 DEF Tick, MayStart, Quiet, Open
    <2>2. QED
      BY <2>1, AtRest
  <1>3. QED
    BY <1>1, <1>2, CalmMessage, CalmRequest DEF Next

LEMMA CalmInit == Init => Calm
  <1> SUFFICES ASSUME Init PROVE Calm
    OBVIOUS
  <1>1. \A m \in Messages : handler[m].pc = "idle"
    BY DEF Init, HandlerAt
  <1>2. \A r \in Requests : request[r].pc = "idle"
    BY DEF Init, RequestAt
  <1>3. QED
    BY <1>1, <1>2 DEF Calm, Open, Busy, Current

LEMMA CalmInvariant ==
    ASSUME ~Overlap, ~CheckFaults
    PROVE  Spec => [](TypeOK /\ Calm)
  <1>1. TypeOK /\ Calm /\ [Next]_vars => (TypeOK /\ Calm)'
    BY CalmStep, TypeStep
  <1>2. QED
    BY <1>1, CalmInit, InitType, PTL DEF Spec


\* A step that writes the statuses, by who makes it.
LEMMA StatusSteps ==
    ASSUME TypeOK, Next, status' # status
    PROVE  \/ \E m \in Messages : ExpireTakeover(m) \/ PersistCommit(m)
           \/ \E r \in Requests : ReplyCommit(r) \/ ResolveCommit(r)
  BY DEF Next, HandlerStep, AgentStep, Tick, Receive, ReadStatus, ReadLastAgent, CheckFails,
         BotAnswers, StaySilent, Schedule, BotRaises, PersistRead, PersistFails,
         ReplyLoad, ReplySent, ResolveLoad, RequestFails

\* What a stored exchange leaves of the status of its conversation.
LEMMA StatusOfExchange ==
    ASSUME TypeOK, Calm, NEW m \in Messages, PersistCommit(m)
    PROVE  /\ handler[m].outcome = "escalated" => status'[Target(m)] = "escalated"
           /\ \A c \in Conversations :
                \/ status'[c] = status[c]
                \/ c = handler[m].conv /\ c # NoConversation /\ handler[m].outcome = "escalated"
  <1> DEFINE c == handler[m].conv
  <1>1. status \in Seq(Status) /\ Len(status) \in Nat /\ status' = StatusAfter(m) /\ handler[m].pc = "writing"
    BY DEF TypeOK, PersistCommit
  <1>2. c \in Conversations \cup {NoConversation} /\ (c # NoConversation => handler[m].seen = status[c])
    BY <1>1 DEF TypeOK, Calm, Current
  <1>3. CASE c = NoConversation
    <2>1. PICK s \in Status : /\ status' = Append(status, s) /\ Target(m) = Len(status) + 1
                              /\ handler[m].outcome = "escalated" => s = "escalated"
      BY <1>1, <1>3 DEF StatusAfter, Status, Target
    <2>2. QED
      BY <1>1, <2>1, AddStatus
  <1>4. CASE c \in Conversations /\ c # NoConversation
    <2>1. Target(m) = c
      BY <1>4 DEF Target
    <2>2. CASE handler[m].outcome = "escalated" /\ handler[m].seen # "escalated"
      <3>1. status' = [status EXCEPT ![c] = "escalated"]
        BY <1>1, <1>4, <2>2 DEF StatusAfter
      <3>2. QED
        BY <1>1, <1>4, <2>1, <2>2, <3>1, SetStatus DEF Status
    <2>3. CASE ~(handler[m].outcome = "escalated" /\ handler[m].seen # "escalated")
      <3>1. status' = status
        BY <1>1, <1>4, <2>3 DEF StatusAfter
      <3>2. QED
        BY <1>2, <1>4, <2>1, <2>3, <3>1
    <2>4. QED
      BY <2>2, <2>3
  <1>5. QED
    BY <1>2, <1>3, <1>4

(* take_over, without overlaps: the bot stays silent until "Marquer        *)
(* traitee" or an hour without a message of the agent.                     *)
THEOREM CalmTakeoverLasts ==
    ASSUME ~Overlap, ~CheckFaults
    PROVE  Spec => TakeoverLasts
  <1> DEFINE Lasts == \A c \in Conversations :
               status[c] = "agent" /\ status'[c] # "agent"
                 => status'[c] = "resolved" \/ ~AgentWroteSince(c, now - Timeout)
  <1>1. TypeOK /\ Calm /\ [Next]_vars => [Lasts]_vars
    <2> SUFFICES ASSUME TypeOK, Calm, Next, NEW c \in Conversations,
                        status[c] = "agent", status'[c] # "agent"
                 PROVE  status'[c] = "resolved" \/ ~AgentWroteSince(c, now - Timeout)
      OBVIOUS
    <2>0. status \in Seq(Status)
      BY DEF TypeOK
    <2>1. ASSUME NEW m \in Messages, ExpireTakeover(m)
          PROVE  ~AgentWroteSince(c, now - Timeout)
      <3>1. handler[m].conv \in Conversations /\ handler[m].pc = "expired"
        BY <2>1 DEF ExpireTakeover, TypeOK
      <3>2. status'[c] = IF c = handler[m].conv THEN "escalated" ELSE status[c]
        BY <2>0, <2>1, <3>1, SetStatus DEF ExpireTakeover, Status
      <3>3. c = handler[m].conv
        BY <3>2
      <3>4. QED
        BY <3>1, <3>3 DEF Calm, Current
    <2>2. ASSUME NEW m \in Messages, PersistCommit(m)
          PROVE  FALSE
      <3>1. c = handler[m].conv /\ c # NoConversation /\ handler[m].outcome = "escalated"
        BY <2>2, StatusOfExchange
      <3>2. handler[m].pc = "writing" /\ Current(handler[m])
        BY <2>2 DEF PersistCommit, Calm
      <3>3. QED
        BY <3>1, <3>2 DEF Current
    <2>3. ASSUME NEW r \in Requests, ReplyCommit(r)
          PROVE  FALSE
      <3>1. request[r].conv \in Conversations
        BY <2>3 DEF ReplyCommit, TypeOK
      <3>2. status'[c] = status[c] \/ status'[c] = "agent"
        BY <2>0, <2>3, <3>1, SetStatus DEF ReplyCommit, Status
      <3>3. QED
        BY <3>2
    <2>4. ASSUME NEW r \in Requests, ResolveCommit(r)
          PROVE  status'[c] = "resolved"
      <3>1. request[r].conv \in Conversations
        BY <2>4 DEF ResolveCommit, TypeOK
      <3>2. status'[c] = IF c = request[r].conv THEN "resolved" ELSE status[c]
        BY <2>0, <2>4, <3>1, SetStatus DEF ResolveCommit, Status
      <3>3. QED
        BY <3>2
    <2>5. QED
      BY <2>1, <2>2, <2>3, <2>4, StatusSteps
  <1>2. QED
    BY <1>1, CalmInvariant, PTL DEF Spec, TakeoverLasts

(* reply_to_customer, without overlaps: an agent whose reply is recorded    *)
(* has taken over, although the UPDATE is only sent for another status.     *)
THEOREM CalmReplyTakesOver ==
    ASSUME ~Overlap, ~CheckFaults
    PROVE  Spec => ReplyTakesOver
  <1> DEFINE Takes == \A r \in Requests : ReplyCommit(r) => status'[request[r].conv] = "agent"
  <1>1. TypeOK /\ Calm /\ [Next]_vars => [Takes]_vars
    <2> SUFFICES ASSUME TypeOK, Calm, NEW r \in Requests, ReplyCommit(r)
                 PROVE  status'[request[r].conv] = "agent"
      OBVIOUS
    <2>1. request[r].conv \in Conversations /\ request[r].seen = status[request[r].conv]
      BY DEF ReplyCommit, TypeOK, Calm, Busy
    <2>2. CASE request[r].seen = "agent"
      BY <2>1, <2>2 DEF ReplyCommit
    <2>3. CASE request[r].seen # "agent"
      BY <2>1, <2>3, SetStatus DEF ReplyCommit, TypeOK, Status
    <2>4. QED
      BY <2>2, <2>3
  <1>2. QED
    BY <1>1, CalmInvariant, PTL DEF Spec, ReplyTakesOver

(* _persist_exchange, without overlaps: a transfer puts its conversation    *)
(* back on the list, even if it was closed.                                 *)
THEOREM CalmTransferReopens ==
    ASSUME ~Overlap, ~CheckFaults
    PROVE  Spec => TransferReopens
  <1> DEFINE Reopens == \A m \in Messages :
               PersistCommit(m) /\ handler[m].outcome = "escalated"
                 => status'[Target(m)] \in {"escalated", "agent"}
  <1>1. TypeOK /\ Calm /\ [Next]_vars => [Reopens]_vars
    BY StatusOfExchange
  <1>2. QED
    BY <1>1, CalmInvariant, PTL DEF Spec, TransferReopens

(* agent_has_the_conversation and _persist_exchange, without overlaps: they *)
(* agree on the conversation, and a silenced message reaches its agent.     *)
THEOREM CalmSilencedReaches ==
    ASSUME ~Overlap, ~CheckFaults
    PROVE  Spec => SilencedReachesAgent
  <1> DEFINE Reaches == \A m \in Messages :
               PersistCommit(m) /\ handler[m].outcome = "silent"
                 => Target(m) \in Conversations /\ status[Target(m)] = "agent"
  <1>1. TypeOK /\ Calm /\ [Next]_vars => [Reaches]_vars
    <2> SUFFICES ASSUME TypeOK, Calm, NEW m \in Messages, PersistCommit(m), handler[m].outcome = "silent"
                 PROVE  Target(m) \in Conversations /\ status[Target(m)] = "agent"
      OBVIOUS
    <2>1. handler[m].conv \in Conversations /\ status[handler[m].conv] = "agent"
      BY DEF PersistCommit, Calm, Current
    <2>2. handler[m].conv # NoConversation
      BY <2>1 DEF Conversations, NoConversation
    <2>3. QED
      BY <2>1, <2>2 DEF Target
  <1>2. QED
    BY <1>1, CalmInvariant, PTL DEF Spec, SilencedReachesAgent
=============================================================================
