------------------------------ MODULE Takeover ------------------------------
(***************************************************************************)
(* Who answers one customer: the bot or an agent.                          *)
(*                                                                         *)
(* A customer message passes through dialogue_manager.handle_message: read *)
(* the status of the current conversation in PostgreSQL, answer (or stay   *)
(* silent), then store the exchange in a background task.  An agent works  *)
(* on the same rows through POST /admin/escalations/{id}/reply and         *)
(* /resolve.  Nothing locks a conversation between the read and the write  *)
(* of these handlers, so each one is cut at every database call (READ      *)
(* COMMITTED), and any two may interleave.                                 *)
(*                                                                         *)
(* SQLAlchemy sends an UPDATE only for a column whose value differs from   *)
(* the one the transaction LOADED.  Setting status to its loaded value     *)
(* therefore writes nothing, whatever the row holds by then: that is the   *)
(* field "seen" below.                                                     *)
(*                                                                         *)
(* One customer: rows of other customers are never touched by these steps. *)
(***************************************************************************)
EXTENDS Integers, Sequences, FiniteSets

CONSTANTS
    Messages,   \* messages the customer sends
    Requests,   \* requests agents make on /admin
    Timeout,    \* AGENT_TAKEOVER_TIMEOUT = SESSION_TTL, one hour, in ticks
    MaxTime,    \* bound on the clock
    ListLimit,  \* list_escalated reads this many last messages (50)
    Overlap,    \* FALSE: an operation, or a tick, starts only when none is open
    CheckFaults \* whether PostgreSQL may fail while a handler reads the status

ASSUME TimeoutAssumption == Timeout \in Nat \ {0}
ASSUME MaxTimeAssumption == MaxTime \in Nat
ASSUME ListLimitAssumption == ListLimit \in Nat \ {0}
ASSUME OverlapAssumption == Overlap \in BOOLEAN
ASSUME CheckFaultsAssumption == CheckFaults \in BOOLEAN
ASSUME IdsAssumption == Messages \cap Requests = {}

VARIABLES
    now,        \* the clock every handler reads
    status,     \* table conversations: status of each row, oldest started first
    rows,       \* table messages
    handler,    \* handle_message and its background write, per message
    chain,      \* background writes of this session, in the order scheduled
    request     \* the agents' requests

vars == <<now, status, rows, handler, chain, request>>

Status == {"active", "escalated", "agent", "resolved"}
Conversations == 1..Len(status)
NoConversation == 0

Row == [conv: Nat \ {0}, role: {"user", "assistant", "agent"}, at: Nat,
        by: Messages \cup Requests, transfer: BOOLEAN]

HandlerPc == {"idle", "received", "taken", "expired", "bot", "silent", "chained",
              "writing", "stored", "lost", "raised"}
RequestPc == {"idle", "sending", "sent", "resolving", "done", "failed"}

\* A handler or a request that has not begun, or whose locals are gone.
HandlerAt(pc) ==
    [pc |-> pc, received |-> 0, answered |-> 0, cutoff |-> 0,
     conv |-> NoConversation, seen |-> "active", outcome |-> "plain"]
RequestAt(pc) == [pc |-> pc, conv |-> NoConversation, seen |-> "active", sentAt |-> 0]

Init ==
    /\ now = 0
    /\ status = <<>>
    /\ rows = {}
    /\ handler = [m \in Messages |-> HandlerAt("idle")]
    /\ chain = <<>>
    /\ request = [r \in Requests |-> RequestAt("idle")]

---------------------------------------------------------------------------
(* Reads of the repository.                                                *)

\* get_recent_for_user: some message of the conversation is not older than since.
ActiveSince(c, since) == \E row \in rows : row.conv = c /\ row.at >= since

\* ... and of those conversations, the one started last.
IsRecent(c, since) ==
    /\ c \in Conversations
    /\ ActiveSince(c, since)
    /\ \A d \in Conversations : d > c => ~ActiveSince(d, since)

NoneRecent(since) == \A c \in Conversations : ~ActiveSince(c, since)

\* last_agent_message_at(c) >= since (None compares as too old)
AgentWroteSince(c, since) ==
    \E row \in rows : row.conv = c /\ row.role = "agent" /\ row.at >= since

\* As many messages of other exchanges as list_escalated reads may follow it.
Buried(row) ==
    Cardinality({x \in rows : x.conv = row.conv /\ x.by # row.by /\ x.at >= row.at}) >= ListLimit

\* The transfer message is among the last ListLimit ones of the conversation.
TransferInWindow(c) == \E row \in rows : row.conv = c /\ row.transfer /\ ~Buried(row)

\* list_escalated: the conversations /admin shows.
Listed(c) ==
    /\ status[c] \in {"escalated", "agent"}
    /\ status[c] = "agent" \/ TransferInWindow(c)

---------------------------------------------------------------------------
(* The customer's side.                                                    *)

Open(m) == handler[m].pc \notin {"idle", "stored", "lost", "raised"}
Quiet ==
    /\ \A m \in Messages : ~Open(m)
    /\ \A r \in Requests : request[r].pc \notin {"sending", "sent", "resolving"}
MayStart == Overlap \/ Quiet

Receive(m) ==
    /\ handler[m].pc = "idle" /\ MayStart
    /\ handler' = [handler EXCEPT ![m] = [@ EXCEPT !.pc = "received", !.received = now]]
    /\ UNCHANGED <<now, status, rows, chain, request>>

\* agent_has_the_conversation, first SELECT: only a conversation in status
\* "agent" needs the second one; every other case lets the bot answer.
ReadStatus(m) ==
    /\ handler[m].pc = "received"
    /\ \/ /\ NoneRecent(now - Timeout)
          /\ handler' = [handler EXCEPT ![m].pc = "bot"]
       \/ \E c \in Conversations :
            /\ IsRecent(c, now - Timeout)
            /\ handler' = IF status[c] = "agent"
                 THEN [handler EXCEPT ![m] =
                        [@ EXCEPT !.pc = "taken", !.conv = c, !.cutoff = now - Timeout]]
                 ELSE [handler EXCEPT ![m].pc = "bot"]
    /\ UNCHANGED <<now, status, rows, chain, request>>

\* Variant: the take-over ends one tick early.
ReadLastAgent_Early(m) ==
    /\ handler[m].pc = "taken"
    /\ handler' = [handler EXCEPT ![m].pc =
         IF AgentWroteSince(handler[m].conv, handler[m].cutoff + 1)
         THEN "silent" ELSE "expired"]
    /\ UNCHANGED <<now, status, rows, chain, request>>

\* Second SELECT: the agent still has it, or the take-over has expired.
ReadLastAgent(m) ==
    /\ handler[m].pc = "taken"
    /\ handler' = [handler EXCEPT ![m].pc =
         IF AgentWroteSince(handler[m].conv, handler[m].cutoff)
         THEN "silent" ELSE "expired"]
    /\ UNCHANGED <<now, status, rows, chain, request>>

\* Expired: the conversation goes back to "escalated" and the bot answers.
ExpireTakeover(m) ==
    /\ handler[m].pc = "expired"
    /\ status' = [status EXCEPT ![handler[m].conv] = "escalated"]
    /\ handler' = [handler EXCEPT ![m].pc = "bot"]
    /\ UNCHANGED <<now, rows, chain, request>>

\* PostgreSQL fails during the check: the bot answers.
CheckFails(m) ==
    /\ CheckFaults
    /\ handler[m].pc \in {"received", "taken", "expired"}
    /\ handler' = [handler EXCEPT ![m].pc = "bot"]
    /\ UNCHANGED <<now, status, rows, chain, request>>

\* The answer is ready: the write joins the chain of this session.
Schedule(m, outcome) ==
    /\ handler' = [handler EXCEPT ![m] =
         [@ EXCEPT !.pc = "chained", !.outcome = outcome, !.answered = now]]
    /\ chain' = Append(chain, m)
    /\ UNCHANGED <<now, status, rows, request>>

BotAnswers(m) ==
    /\ handler[m].pc = "bot"
    /\ \E outcome \in {"plain", "escalated"} : Schedule(m, outcome)

StaySilent(m) == handler[m].pc = "silent" /\ Schedule(m, "silent")

\* _handle_message raised (the LLM timed out...): nothing is scheduled.
BotRaises(m) ==
    /\ handler[m].pc = "bot"
    /\ handler' = [handler EXCEPT ![m] = HandlerAt("raised")]
    /\ UNCHANGED <<now, status, rows, chain, request>>

---------------------------------------------------------------------------
(* _persist_exchange, at the head of the chain: a transaction that reads   *)
(* the current conversation, then inserts and commits.                     *)

AtHead(m) == chain # <<>> /\ Head(chain) = m

\* Variant: the write looks for the conversation in a shorter window.
PersistRead_Shorter(m) ==
    /\ AtHead(m) /\ handler[m].pc = "chained"
    /\ \/ /\ NoneRecent(now - Timeout + 1)
          /\ handler' = [handler EXCEPT ![m] =
               [@ EXCEPT !.pc = "writing", !.conv = NoConversation, !.seen = "active"]]
       \/ \E c \in Conversations :
            /\ IsRecent(c, now - Timeout + 1)
            /\ handler' = [handler EXCEPT ![m] =
                 [@ EXCEPT !.pc = "writing", !.conv = c, !.seen = status[c]]]
    /\ UNCHANGED <<now, status, rows, chain, request>>

PersistRead(m) ==
    /\ AtHead(m) /\ handler[m].pc = "chained"
    /\ \/ /\ NoneRecent(now - Timeout)
          /\ handler' = [handler EXCEPT ![m] =
               [@ EXCEPT !.pc = "writing", !.conv = NoConversation, !.seen = "active"]]
       \/ \E c \in Conversations :
            /\ IsRecent(c, now - Timeout)
            /\ handler' = [handler EXCEPT ![m] =
                 [@ EXCEPT !.pc = "writing", !.conv = c, !.seen = status[c]]]
    /\ UNCHANGED <<now, status, rows, chain, request>>

\* Variant: every exchange opens a conversation.
Target_New(m) == Len(status) + 1

\* The conversation the exchange of m is written to; a new one goes last.
Target(m) == IF handler[m].conv = NoConversation THEN Len(status) + 1 ELSE handler[m].conv

\* Variant: a conversation opened by a transfer stays "active".
StatusAfter_Forgets(m) ==
    IF handler[m].conv = NoConversation THEN Append(status, "active")
    ELSE IF handler[m].outcome = "escalated"
         THEN [status EXCEPT ![handler[m].conv] = "escalated"] ELSE status

\* Variant: only an "active" conversation is escalated, not a closed one.
StatusAfter_ActiveOnly(m) ==
    LET escalates == handler[m].outcome = "escalated"
    IN  IF handler[m].conv = NoConversation
        THEN Append(status, IF escalates THEN "escalated" ELSE "active")
        ELSE IF escalates /\ handler[m].seen = "active"
             THEN [status EXCEPT ![handler[m].conv] = "escalated"]
             ELSE status

\* The statuses once the exchange of m is committed: "escalated" is only
\* sent when the transaction loaded something else.
StatusAfter(m) ==
    LET escalates == handler[m].outcome = "escalated"
    IN  IF handler[m].conv = NoConversation
        THEN Append(status, IF escalates THEN "escalated" ELSE "active")
        ELSE IF escalates /\ handler[m].seen # "escalated"
             THEN [status EXCEPT ![handler[m].conv] = "escalated"]
             ELSE status

\* The rows of the exchange: a silenced message has no answer.
ExchangeRows(m) ==
    {[conv |-> Target(m), role |-> "user", at |-> handler[m].received,
      by |-> m, transfer |-> FALSE]}
    \cup (IF handler[m].outcome = "silent" THEN {}
          ELSE {[conv |-> Target(m), role |-> "assistant", at |-> handler[m].answered,
                 by |-> m, transfer |-> handler[m].outcome = "escalated"]})

PersistCommit(m) ==
    /\ AtHead(m) /\ handler[m].pc = "writing"
    /\ status' = StatusAfter(m)
    /\ rows' = rows \cup ExchangeRows(m)
    /\ chain' = Tail(chain)
    /\ handler' = [handler EXCEPT ![m] = HandlerAt("stored")]
    /\ UNCHANGED <<now, request>>

\* Any error rolls back; it is logged and the exchange is dropped.
PersistFails(m) ==
    /\ AtHead(m) /\ handler[m].pc \in {"chained", "writing"}
    /\ chain' = Tail(chain)
    /\ handler' = [handler EXCEPT ![m] = HandlerAt("lost")]
    /\ UNCHANGED <<now, status, rows, request>>

---------------------------------------------------------------------------
(* The agents' side: reply_to_customer and resolve_escalation.             *)

ReplyLoad(r, c) ==
    /\ request[r].pc = "idle" /\ MayStart
    /\ request' = [request EXCEPT ![r] =
         [@ EXCEPT !.pc = "sending", !.conv = c, !.seen = status[c]]]
    /\ UNCHANGED <<now, status, rows, handler, chain>>

\* The channel takes the message before anything is written...
ReplySent(r) ==
    /\ request[r].pc = "sending"
    /\ request' = [request EXCEPT ![r] = [@ EXCEPT !.pc = "sent", !.sentAt = now]]
    /\ UNCHANGED <<now, status, rows, handler, chain>>

\* Variant: the agent takes over without the message being stored.
ReplyCommit_Unrecorded(r) ==
    /\ request[r].pc = "sent"
    /\ status' = IF request[r].seen = "agent" THEN status
                 ELSE [status EXCEPT ![request[r].conv] = "agent"]
    /\ request' = [request EXCEPT ![r] = RequestAt("done")]
    /\ UNCHANGED <<now, rows, handler, chain>>

\* Variant: only a waiting conversation is taken over.
ReplyCommit_WaitingOnly(r) ==
    /\ request[r].pc = "sent"
    /\ rows' = rows \cup {[conv |-> request[r].conv, role |-> "agent",
                           at |-> request[r].sentAt, by |-> r, transfer |-> FALSE]}
    /\ status' = IF request[r].seen = "escalated"
                 THEN [status EXCEPT ![request[r].conv] = "agent"] ELSE status
    /\ request' = [request EXCEPT ![r] = RequestAt("done")]
    /\ UNCHANGED <<now, handler, chain>>

\* ... then the message row and take_over are committed together.
ReplyCommit(r) ==
    /\ request[r].pc = "sent"
    /\ rows' = rows \cup {[conv |-> request[r].conv, role |-> "agent",
                           at |-> request[r].sentAt, by |-> r, transfer |-> FALSE]}
    /\ status' = IF request[r].seen = "agent" THEN status
                 ELSE [status EXCEPT ![request[r].conv] = "agent"]
    /\ request' = [request EXCEPT ![r] = RequestAt("done")]
    /\ UNCHANGED <<now, handler, chain>>

\* Variant: without the 409 guard.
ResolveLoad_Unguarded(r, c) ==
    /\ request[r].pc = "idle" /\ MayStart
    /\ request' = [request EXCEPT ![r] =
         [@ EXCEPT !.pc = "resolving", !.conv = c, !.seen = status[c]]]
    /\ UNCHANGED <<now, status, rows, handler, chain>>

ResolveLoad(r, c) ==
    /\ request[r].pc = "idle" /\ MayStart
    /\ status[c] \in {"escalated", "agent"}       \* otherwise 409
    /\ request' = [request EXCEPT ![r] =
         [@ EXCEPT !.pc = "resolving", !.conv = c, !.seen = status[c]]]
    /\ UNCHANGED <<now, status, rows, handler, chain>>

ResolveCommit(r) ==
    /\ request[r].pc = "resolving"
    /\ status' = [status EXCEPT ![request[r].conv] = "resolved"]
    /\ request' = [request EXCEPT ![r] = RequestAt("done")]
    /\ UNCHANGED <<now, rows, handler, chain>>

\* 409/502 from the channel, or get_db rolls the transaction back.
RequestFails(r) ==
    /\ request[r].pc \in {"sending", "sent", "resolving"}
    /\ request' = [request EXCEPT ![r] = RequestAt("failed")]
    /\ UNCHANGED <<now, status, rows, handler, chain>>

---------------------------------------------------------------------------

Tick ==
    /\ now < MaxTime /\ MayStart
    /\ now' = now + 1
    /\ UNCHANGED <<status, rows, handler, chain, request>>

HandlerStep(m) ==
    \/ ReadStatus(m)
    \/ ReadLastAgent(m)
    \/ ExpireTakeover(m)
    \/ CheckFails(m)
    \/ BotAnswers(m)
    \/ StaySilent(m)
    \/ BotRaises(m)
    \/ PersistRead(m)
    \/ PersistCommit(m)
    \/ PersistFails(m)

AgentStep(r) ==
    \/ \E c \in Conversations : ReplyLoad(r, c)
    \/ ReplySent(r)
    \/ ReplyCommit(r)
    \/ \E c \in Conversations : ResolveLoad(r, c)
    \/ ResolveCommit(r)
    \/ RequestFails(r)

Next ==
    \/ \E m \in Messages : Receive(m) \/ HandlerStep(m)
    \/ \E r \in Requests : AgentStep(r)
    \/ Tick

Spec == Init /\ [][Next]_vars

---------------------------------------------------------------------------
(* What every interleaving keeps.                                          *)

\* Every variable holds values of its type; conversations that handlers and
\* requests refer to exist.
TypeOK ==
    /\ now \in Nat
    /\ status \in Seq(Status)
    /\ rows \subseteq Row
    /\ \A row \in rows : row.conv \in Conversations
    /\ handler \in [Messages ->
         [pc: HandlerPc, received: Nat, answered: Nat, cutoff: Int,
          conv: Nat, seen: Status, outcome: {"plain", "escalated", "silent"}]]
    /\ chain \in Seq(Messages)
    /\ request \in [Requests ->
         [pc: RequestPc, conv: Nat, seen: Status, sentAt: Nat]]
    /\ \A m \in Messages :
         /\ handler[m].pc \in {"taken", "expired"} => handler[m].conv \in Conversations
         /\ handler[m].pc = "writing" => handler[m].conv \in Conversations \cup {NoConversation}
    /\ \A r \in Requests :
         request[r].pc \in {"sending", "sent", "resolving"} => request[r].conv \in Conversations

\* A conversation is held by an agent only if an agent's message to the
\* customer is in it: agent_has_the_conversation and displayed_status never
\* meet the "agent" status without a date to measure the time-out from.
AgentStatusHasMessage ==
    \A c \in Conversations : status[c] = "agent" =>
        \E row \in rows : row.conv = c /\ row.role = "agent"

\* A customer who was told "I am transferring you" is on the list of /admin,
\* waiting or held, unless an agent closed the conversation, whatever answers,
\* replies and time-outs came later; but list_escalated looks for the transfer
\* among the last ListLimit messages only, and a waiting conversation leaves
\* the list once that many have followed it.
TransferNotForgotten ==
    \A row \in rows : row.transfer =>
        Listed(row.conv) \/ status[row.conv] = "resolved" \/ Buried(row)

\* "Marquer traitee" only ever closes a conversation that was waiting or
\* held when it is written, though the 409 guard looked at an older value.
ResolvesOpenConversations ==
    [][\A c \in Conversations :
         status'[c] = "resolved" /\ status[c] # "resolved"
           => status[c] \in {"escalated", "agent"}]_vars

---------------------------------------------------------------------------
(* What the comments of the code promise about a take-over.                *)

\* take_over: the bot stays silent until "Marquer traitee" or one hour
\* without a message of the agent; nothing else takes the agent's status away.
TakeoverLasts ==
    [][\A c \in Conversations :
         status[c] = "agent" /\ status'[c] # "agent"
           => status'[c] = "resolved" \/ ~AgentWroteSince(c, now - Timeout)]_vars

\* reply_to_customer: an agent whose reply is recorded has taken over.
ReplyTakesOver ==
    [][\A r \in Requests : ReplyCommit(r) => status'[request[r].conv] = "agent"]_vars

\* resolve: an escalation that comes after "Marquer traitee" puts the
\* conversation back on the list; a transfer is never committed to a
\* conversation that stays closed.
TransferReopens ==
    [][\A m \in Messages :
         PersistCommit(m) /\ handler[m].outcome = "escalated"
           => status'[Target(m)] \in {"escalated", "agent"}]_vars

\* A message the bot left to the agent is stored in the conversation the
\* agent holds, where the agent reads it.
SilencedReachesAgent ==
    [][\A m \in Messages :
         PersistCommit(m) /\ handler[m].outcome = "silent"
           => Target(m) \in Conversations /\ status[Target(m)] = "agent"]_vars
=============================================================================
