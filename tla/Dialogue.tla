------------------------------ MODULE Dialogue ------------------------------
(***************************************************************************)
(* The messages of one session through dialogue_manager._handle_message,   *)
(* over session_manager.  The session (history, failure counter, flag of   *)
(* the order number request) is one JSON value in Redis: every operation   *)
(* reads the whole value, awaits, changes it and writes it all back.       *)
(* Handlers of the same session may run at the same time (two webhook      *)
(* calls, two tabs, POST /chat): Concurrent.  After the first failed read  *)
(* or write, session_manager uses a dict of the process for good.          *)
(***************************************************************************)
EXTENDS Integers, Sequences, FiniteSets

CONSTANTS
    Handlers,       \* messages of the customer, or of an agent, on the session
    Kinds,          \* the kinds of messages that come in
    Threshold,      \* RAG_LOOP_THRESHOLD (3)
    MaxHistory,     \* messages a session keeps (20)
    Concurrent,     \* may two handlers of the session overlap?
    Faults          \* may Redis fail?

AllKinds == {"escalation", "order", "number", "smalltalk", "question", "thanks", "silent", "agent"}

ASSUME KindsAssumption == Kinds \subseteq AllKinds
ASSUME HandlersAssumption == IsFiniteSet(Handlers)
ASSUME DialogueThresholdAssumption == Threshold \in Nat \ {0}
ASSUME MaxHistoryAssumption == MaxHistory \in Nat \ {0}

VARIABLES
    redis, memory,  \* the two places the session may be stored in
    fallback,       \* ~_redis_available
    handler,        \* one record per message
    shown           \* history variable: what each message got (DialoguePolicy)

vars == <<redis, memory, fallback, handler, shown>>

Policy == INSTANCE DialoguePolicy

Ops == {"create", "user", "assistant", "reset", "count", "prompt", "clear",
        "context", "history"}

NoSession == [alive |-> FALSE, msgs |-> <<>>, count |-> 0, prompted |-> FALSE]
FreshSession == [NoSession EXCEPT !.alive = TRUE]

HandlerAt(pc) ==
    [pc |-> pc, kind |-> "question", todo |-> <<>>, snap |-> NoSession, prompted |-> FALSE,
     count |-> 0, counted |-> FALSE, own |-> TRUE, degraded |-> FALSE, say |-> "none"]

Init ==
    /\ redis = NoSession /\ memory = NoSession
    /\ fallback = FALSE
    /\ handler = [h \in Handlers |-> HandlerAt("idle")]
    /\ shown = <<>>

Running(h) == handler[h].pc \in {"ready", "loaded"}
Idle == \A h \in Handlers : ~Running(h)

---------------------------------------------------------------------------
(* session_manager                                                         *)

\* Variant: one message too many.
LastOnes_OneMore(s) ==
    IF Len(s) > MaxHistory + 1 THEN SubSeq(s, Len(s) - MaxHistory, Len(s)) ELSE s

\* Variant: the first ones.
LastOnes_First(s) ==
    IF Len(s) > MaxHistory THEN SubSeq(s, 1, MaxHistory) ELSE s

LastOnes(s) ==
    IF Len(s) > MaxHistory THEN SubSeq(s, Len(s) - MaxHistory + 1, Len(s)) ELSE s

\* The operations that only read, or find nothing to change, do not save.
Saves(op, s) ==
    CASE op = "create" -> ~s.alive
      [] op \in {"context", "history"} -> FALSE
      [] op = "clear" -> s.alive /\ s.prompted
      [] OTHER -> s.alive

\* The session an operation writes back, from the one it read.
Changed(op, s, h) ==
    CASE op = "create" -> FreshSession
      [] op \in {"user", "assistant"} -> [s EXCEPT !.msgs = LastOnes(Append(@, <<op, h>>))]
      [] op = "reset" -> [s EXCEPT !.count = 0]
      [] op = "count" -> [s EXCEPT !.count = @ + 1]
      [] op = "prompt" -> [s EXCEPT !.prompted = TRUE]
      [] op = "clear" -> [s EXCEPT !.prompted = FALSE]

\* What the handler keeps of what it read: the relance flag, the new count
\* (0 without a session), whether the history ends with its own message.
Noted(h, op, s) ==
    [handler[h] EXCEPT
       !.prompted = IF op = "context" THEN s.prompted ELSE @,
       !.count = IF op = "count" THEN (IF s.alive THEN s.count + 1 ELSE 0) ELSE @,
       !.own = IF op = "history" /\ s.alive
               THEN s.msgs # <<>> /\ s.msgs[Len(s.msgs)] = <<"user", h>> ELSE @]

MayFail == IF Faults /\ ~fallback THEN BOOLEAN ELSE {FALSE}

\* get_session. A failed read finds the memory dict empty: what the session
\* held is forgotten, before this message if it had not yet been created.
Load(h) ==
    /\ handler[h].pc = "ready" /\ handler[h].todo # <<>>
    /\ \E fails \in MayFail :
         LET op == Head(handler[h].todo)
             s == IF fallback \/ fails THEN memory ELSE redis
             early == op = "create" \/ handler[h].kind = "agent"
             noted == [Noted(h, op, s) EXCEPT !.degraded = @ \/ (fails /\ ~early)]
         IN  /\ handler' = [handler EXCEPT ![h] =
                  IF Saves(op, s) THEN [noted EXCEPT !.pc = "loaded", !.snap = s]
                  ELSE [noted EXCEPT !.todo = Tail(@)]]
             /\ fallback' = (fallback \/ fails)
             /\ shown' = IF fails /\ early
                         THEN Append(shown, [say |-> "forgot", thanks |-> FALSE,
                                             degraded |-> FALSE])
                         ELSE shown
    /\ UNCHANGED <<redis, memory>>

\* Variant: a failed write is dropped.
Save_Dropped(h) ==
    /\ handler[h].pc = "loaded"
    /\ \E fails \in MayFail :
         LET s == Changed(Head(handler[h].todo), handler[h].snap, h)
         IN  /\ memory' = IF fallback THEN s ELSE memory
             /\ redis' = IF fallback \/ fails THEN redis ELSE s
             /\ fallback' = (fallback \/ fails)
    /\ handler' = [handler EXCEPT ![h] =
         [handler[h] EXCEPT !.pc = "ready", !.todo = Tail(@), !.snap = NoSession]]
    /\ UNCHANGED shown

\* Variant: a failed write goes to the memory dict and the operation is done again.
Save_Retries(h) ==
    /\ handler[h].pc = "loaded"
    /\ \E fails \in MayFail :
         LET s == Changed(Head(handler[h].todo), handler[h].snap, h)
         IN  /\ memory' = IF fallback \/ fails THEN s ELSE memory
             /\ redis' = IF fallback \/ fails THEN redis ELSE s
             /\ fallback' = (fallback \/ fails)
             /\ handler' = [handler EXCEPT ![h] =
                  [handler[h] EXCEPT !.pc = "ready", !.todo = IF fails THEN @ ELSE Tail(@),
                            !.snap = NoSession]]
    /\ UNCHANGED shown

\* _save. A failed write goes to the memory dict: nothing is lost.
Save(h) ==
    /\ handler[h].pc = "loaded"
    /\ \E fails \in MayFail :
         LET s == Changed(Head(handler[h].todo), handler[h].snap, h)
         IN  /\ memory' = IF fallback \/ fails THEN s ELSE memory
             /\ redis' = IF fallback \/ fails THEN redis ELSE s
             /\ fallback' = (fallback \/ fails)
    /\ handler' = [handler EXCEPT ![h] =
         [handler[h] EXCEPT !.pc = "ready", !.todo = Tail(@), !.snap = NoSession]]
    /\ UNCHANGED shown

\* SESSION_TTL after the last access; a handler never waits that long.
\* The memory dict keeps its sessions.
Expire ==
    /\ Idle /\ redis.alive /\ ~fallback
    /\ redis' = NoSession
    /\ shown' = Append(shown, [say |-> "forgot", thanks |-> FALSE, degraded |-> FALSE])
    /\ UNCHANGED <<memory, fallback, handler>>

---------------------------------------------------------------------------
(* dialogue_manager: which operations a message goes through.              *)

\* Variant: the flag of the order number survives another subject.
FirstOps_KeepsFlag(kind) ==
    CASE kind = "escalation" -> <<"create", "user", "reset", "assistant">>
      [] kind = "order"      -> <<"create", "user", "context", "reset">>
      [] kind = "number"     -> <<"create", "user", "history", "context", "reset">>
      [] kind = "smalltalk"  -> <<"create", "user", "reset", "assistant">>
      [] kind = "thanks"     -> <<"create", "user", "reset", "history">>
      [] kind = "question"   -> <<"create", "user", "history">>
      [] kind = "silent"     -> <<"create", "user">>
      [] kind = "agent"      -> <<"assistant">>

\* Up to the first decision. A bare order number also reads the history: the
\* language is the one of the customer's previous message.
FirstOps(kind) ==
    CASE kind = "escalation" -> <<"create", "user", "reset", "assistant">>
      [] kind = "order"      -> <<"create", "user", "context", "reset">>
      [] kind = "number"     -> <<"create", "user", "history", "context", "reset">>
      [] kind = "smalltalk"  -> <<"create", "user", "clear", "reset", "assistant">>
      [] kind = "thanks"     -> <<"create", "user", "clear", "reset", "history">>
      [] kind = "question"   -> <<"create", "user", "clear", "history">>
      [] kind = "silent"     -> <<"create", "user">>
      [] kind = "agent"      -> <<"assistant">>

FirstSay(kind) ==
    CASE kind = "escalation" -> "transfer"
      [] kind = "smalltalk"  -> "smalltalk"
      [] kind = "silent"     -> "silence"
      [] kind = "agent"      -> "agent"
      [] OTHER               -> "none"

Start(h, kind) ==
    /\ handler[h].pc = "idle"
    /\ Concurrent \/ Idle
    /\ handler' = [handler EXCEPT ![h] =
         [HandlerAt("ready") EXCEPT !.kind = kind, !.todo = FirstOps(kind),
                                    !.say = FirstSay(kind)]]
    /\ UNCHANGED <<redis, memory, fallback, shown>>

Deciding(h) == handler[h].pc = "ready" /\ handler[h].todo = <<>> /\ handler[h].say = "none"

Goes(h, ops, say) ==
    /\ handler' = [handler EXCEPT ![h] = [@ EXCEPT !.todo = ops, !.say = say]]
    /\ UNCHANGED <<redis, memory, fallback, shown>>

\* _handle_order_tracking: the order is found, or not (no number, or an
\* unknown one), or the database does not answer.
TrackOrder(h) ==
    /\ Deciding(h) /\ handler[h].kind \in {"order", "number"}
    /\ \/ Goes(h, <<"clear", "assistant">>, "order")
       \/ Goes(h, <<"clear", "assistant">>, "transfer_outage")
       \/ /\ handler[h].prompted
          /\ Goes(h, <<"clear", "assistant">>, "transfer_order")
       \/ /\ ~handler[h].prompted
          /\ Goes(h, <<"prompt", "assistant">>, "ask")

\* Retrieval and LLM: low confidence, an exception, an informative answer,
\* or "I do not have this information", which is counted.
AnswerQuestion(h) ==
    /\ Deciding(h) /\ handler[h].kind \in {"question", "thanks"} /\ ~handler[h].counted
    /\ \/ Goes(h, <<"reset", "assistant">>, "transfer_rag")
       \/ Goes(h, <<>>, "error")
       \/ Goes(h, <<"reset", "assistant">>, "answer")
       \/ /\ handler' = [handler EXCEPT ![h] = [@ EXCEPT !.todo = <<"count">>, !.counted = TRUE]]
          /\ UNCHANGED <<redis, memory, fallback, shown>>

\* Variant: the counter is compared with ">".
CheckLoop_Late(h) ==
    /\ Deciding(h) /\ handler[h].counted
    /\ IF handler[h].count > Threshold
       THEN Goes(h, <<"reset", "assistant">>, "transfer_loop")
       ELSE Goes(h, <<"assistant">>, "noinfo")

\* Variant: one failure too early.
CheckLoop_Early(h) ==
    /\ Deciding(h) /\ handler[h].counted
    /\ IF handler[h].count >= Threshold - 1
       THEN Goes(h, <<"reset", "assistant">>, "transfer_loop")
       ELSE Goes(h, <<"assistant">>, "noinfo")

\* The Threshold-th failure in a row is replaced by a transfer.
CheckLoop(h) ==
    /\ Deciding(h) /\ handler[h].counted
    /\ IF handler[h].count >= Threshold
       THEN Goes(h, <<"reset", "assistant">>, "transfer_loop")
       ELSE Goes(h, <<"assistant">>, "noinfo")

\* The customer gets the answer; an agent's message answers nobody.
Finish(h) ==
    /\ handler[h].pc = "ready" /\ handler[h].todo = <<>> /\ handler[h].say # "none"
    /\ shown' = IF handler[h].kind = "agent" THEN shown
                ELSE Append(shown, [say |-> handler[h].say,
                                    thanks |-> handler[h].kind = "thanks",
                                    degraded |-> handler[h].degraded])
    /\ handler' = [handler EXCEPT ![h] = HandlerAt("done")]
    /\ UNCHANGED <<redis, memory, fallback>>

HandlerStep(h) ==
    \/ Load(h) \/ Save(h)
    \/ TrackOrder(h) \/ AnswerQuestion(h) \/ CheckLoop(h)
    \/ Finish(h)

Next ==
    \/ \E h \in Handlers : HandlerStep(h) \/ \E kind \in Kinds : Start(h, kind)
    \/ Expire

Spec == Init /\ [][Next]_vars

---------------------------------------------------------------------------
(* Properties                                                              *)

SessionType ==
    [alive : BOOLEAN, msgs : Seq({"user", "assistant"} \X Handlers),
     count : Nat, prompted : BOOLEAN]

\* The type of every variable; a session, stored or being changed by a
\* handler, never holds more than MaxHistory messages.
TypeOK ==
    /\ {redis, memory} \subseteq SessionType
    /\ \A s \in {redis, memory} \cup {handler[h].snap : h \in Handlers} :
          Len(s.msgs) <= MaxHistory
    /\ fallback \in BOOLEAN
    /\ handler \in [Handlers ->
         [pc : {"idle", "ready", "loaded", "done"}, kind : AllKinds, todo : Seq(Ops),
          snap : SessionType, prompted : BOOLEAN, count : Nat, counted : BOOLEAN,
          own : BOOLEAN, degraded : BOOLEAN,
          say : Policy!Says \cup {"none", "agent"}]]
    /\ shown \in Seq(Policy!Entry)

\* One message at a time, whatever the messages, a failure of Redis at any
\* read or write and the expiry of the session: the customer sees what the
\* policy allows. The counter and the flag of the stored session, trimmed,
\* rewritten and moved to memory, amount to what was said.
PolicySpec == Policy!Spec

\* "le message courant, déjà ajouté à l'étape 3, est retiré": the message a
\* handler drops from the end of the history it read, before the search and
\* the call of the LLM, is its own. True one message at a time.
OwnMessageLast == \A h \in Handlers : handler[h].own

\* Handlers that overlap lose each other's messages, but never store one
\* twice, nor a reply before the message it answers.
HistoryInOrder ==
    \A s \in {redis, memory} : \A i, j \in DOMAIN s.msgs :
        i < j => /\ s.msgs[i] # s.msgs[j]
                 /\ ~(s.msgs[i][1] = "assistant" /\ s.msgs[j] = <<"user", s.msgs[i][2]>>)

\* Whatever the overlaps and the updates they lose, a customer is transferred
\* for repeated failures only after Threshold messages that really failed.
EarnedTransfer ==
    \A h \in Handlers : handler[h].say = "transfer_loop" =>
        Cardinality({g \in Handlers : handler[g].counted})
        + Cardinality({i \in DOMAIN shown : shown[i].say \in {"noinfo", "transfer_loop"}})
        >= Threshold
=============================================================================
