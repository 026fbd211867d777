--------------------------- MODULE DialogueProofs ---------------------------
(***************************************************************************)
(* What overlapping messages of one session leave of its history and of    *)
(* its failure counter, for any number of messages and whatever fails.     *)
(*                                                                         *)
(* The argument for the history: a message that is still to be stored is   *)
(* in no copy of the session, neither stored nor loaded (NotYet), so the   *)
(* copy that is written back last may miss messages but holds none twice.  *)
(* The argument for the counter: no copy counts more failures than there   *)
(* were messages that failed and have counted (CountsEarned); a write that *)
(* is lost can only make it smaller.                                       *)
(* The argument for the handler's own message: without overlaps one        *)
(* handler runs, and until it looks at the history nothing but a failure   *)
(* of Redis, which empties it, changes what it added last (Turn).          *)
(* The argument for the policy (DialoguePolicy): with one handler, what is *)
(* stored and what the handler has yet to do amount, together, to what the *)
(* customer was told and is about to be told (Kept).                       *)
(***************************************************************************)
EXTENDS Dialogue, FiniteSetTheorems, SequenceTheorems, TLAPS

Messages == {"user", "assistant"} \X Handlers
Sayings == Policy!Says \cup {"none", "agent"}
HandlerType ==
    [pc : {"idle", "ready", "loaded", "done"}, kind : AllKinds, todo : Seq(Ops),
     snap : SessionType, prompted : BOOLEAN, count : Nat, counted : BOOLEAN,
     own : BOOLEAN, degraded : BOOLEAN, say : Sayings]

\* The copies of the session: stored, in memory, being changed.
Copies == {redis, memory} \cup {handler[h].snap : h \in Handlers}

Shape ==
    /\ redis \in SessionType /\ memory \in SessionType
    /\ fallback \in BOOLEAN
    /\ handler \in [Handlers -> HandlerType]
    /\ shown \in Seq(Policy!Entry)

Short == \A s \in Copies : Len(s.msgs) <= MaxHistory

Has(t, op) == \E i \in 1..Len(t) : t[i] = op

\* Operations to come: none twice, a reply after its message, the count alone.
Fit(t) ==
    /\ \A i, j \in 1..Len(t) : t[i] = t[j] => i = j
    /\ \A i, j \in 1..Len(t) : t[i] = "assistant" /\ t[j] = "user" => j < i
    /\ Has(t, "count") => t = <<"count">>

\* What a handler has to do agrees with what it has found out.
Sane(r) ==
    /\ Fit(r.todo)
    /\ r.say = "none" => ~Has(r.todo, "assistant")
    /\ r.pc = "loaded" => r.todo # <<>> /\ Head(r.todo) \notin {"context", "history"}
    /\ r.pc \in {"idle", "done"} => ~r.counted
    /\ r.counted => r.kind \in {"question", "thanks"} /\ r.say \in {"none", "noinfo", "transfer_loop"}
    /\ Has(r.todo, "count") => r.counted
    /\ r.say = "agent" => r.kind = "agent"

AllSane == \A h \in Handlers : Sane(handler[h])

---------------------------------------------------------------------------
(* Records                                                                 *)

LEMMA SessionTypes == NoSession \in SessionType /\ FreshSession \in SessionType
  BY EmptySeq DEF NoSession, FreshSession, SessionType

LEMMA HandlerAtType == \A pc \in {"idle", "ready", "done"} : HandlerAt(pc) \in HandlerType
  BY EmptySeq, SessionTypes DEF HandlerAt, HandlerType, AllKinds, Sayings

LEMMA ShapeIsType == TypeOK <=> Shape /\ Short
  BY DEF TypeOK, Shape, Short, Copies, HandlerType, Sayings

\* t is s without its first k messages.
Offset(s, t, k) == \A i \in 1..Len(t) : i + k \in 1..Len(s) /\ t[i] = s[i + k]

\* The messages that are kept are the last ones, in their order.
LEMMA LastOnesKeeps ==
    ASSUME NEW S, NEW s \in Seq(S)
    PROVE  /\ LastOnes(s) \in Seq(S) /\ Len(LastOnes(s)) <= MaxHistory
           /\ \E k \in Nat : Offset(s, LastOnes(s), k)
  <1> USE MaxHistoryAssumption
  <1>1. CASE Len(s) <= MaxHistory
    <2>1. LastOnes(s) = s
      BY <1>1 DEF LastOnes
    <2>2. Offset(s, s, 0) /\ 0 \in Nat
      BY DEF Offset
    <2>3. QED
      BY <1>1, <2>1, <2>2
  <1>2. CASE Len(s) > MaxHistory
    <2> DEFINE k == Len(s) - MaxHistory
               t == SubSeq(s, k + 1, Len(s))
    <2>1. LastOnes(s) = t /\ k \in Nat /\ Len(s) \in Nat
      BY <1>2 DEF LastOnes
    <2>2. t \in Seq(S) /\ Len(t) = MaxHistory
      BY <1>2, <2>1
    <2>3. \A i \in 1..MaxHistory : t[i] = s[i + k] /\ i + k \in 1..Len(s)
      BY <1>2, <2>1
    <2>4. Offset(s, t, k)
      BY <2>2, <2>3 DEF Offset
    <2> HIDE DEF k, t
    <2>5. QED
      BY <2>1, <2>2, <2>4
  <1>3. QED
    <2>1. Len(s) \in Nat
      OBVIOUS
    <2>2. QED
      BY <1>1, <1>2, <2>1

LEMMA ChangedType ==
    ASSUME NEW s \in SessionType, Len(s.msgs) <= MaxHistory, NEW h \in Handlers,
           NEW op \in Ops \ {"context", "history"}
    PROVE  Changed(op, s, h) \in SessionType /\ Len(Changed(op, s, h).msgs) <= MaxHistory
  <1> USE MaxHistoryAssumption
  <1>1. CASE op = "create"
    BY <1>1, SessionTypes DEF Changed, FreshSession, NoSession
  <1>2. CASE op \in {"user", "assistant"}
    <2>1. Append(s.msgs, <<op, h>>) \in Seq({"user", "assistant"} \X Handlers)
      BY <1>2 DEF SessionType
    <2>2. PICK m \in Seq({"user", "assistant"} \X Handlers) :
             m = LastOnes(Append(s.msgs, <<op, h>>)) /\ Len(m) <= MaxHistory
      BY <2>1, LastOnesKeeps
    <2>3. Changed(op, s, h) = [s EXCEPT !.msgs = m]
      BY <1>2, <2>2 DEF Changed
    <2>4. QED
      BY <2>2, <2>3 DEF SessionType
  <1>3. CASE op = "reset" \/ op = "count"
    <2>1. s.count \in Nat
      BY DEF SessionType
    <2>2. Changed(op, s, h) = [s EXCEPT !.count = IF op = "reset" THEN 0 ELSE s.count + 1]
      BY <1>3 DEF Changed
    <2>3. PICK n \in Nat : n = IF op = "reset" THEN 0 ELSE s.count + 1
      BY <2>1
    <2>4. QED
      BY <2>2, <2>3 DEF SessionType
  <1>4. CASE op = "prompt" \/ op = "clear"
    <2>1. PICK b \in BOOLEAN : Changed(op, s, h) = [s EXCEPT !.prompted = b]
      BY <1>4 DEF Changed
    <2>2. QED
      BY <2>1 DEF SessionType
  <1>5. QED
    BY <1>1, <1>2, <1>3, <1>4 DEF Ops

LEMMA NotedType ==
    ASSUME Shape, NEW h \in Handlers, NEW op \in Ops, NEW s \in SessionType
    PROVE  /\ Noted(h, op, s) \in HandlerType
           /\ Noted(h, op, s).pc = handler[h].pc /\ Noted(h, op, s).todo = handler[h].todo
           /\ Noted(h, op, s).snap = handler[h].snap /\ Noted(h, op, s).say = handler[h].say
           /\ Noted(h, op, s).counted = handler[h].counted
           /\ Noted(h, op, s).kind = handler[h].kind
           /\ Noted(h, op, s).count \in (IF op = "count" THEN {s.count + 1, 0} ELSE {handler[h].count})
  <1> DEFINE r == handler[h]
  <1>1. r \in HandlerType
    BY DEF Shape
  <1>2. PICK p \in BOOLEAN : p = IF op = "context" THEN s.prompted ELSE r.prompted
    BY <1>1 DEF SessionType, HandlerType
  <1>3. PICK n \in Nat : n = (IF op = "count" THEN (IF s.alive THEN s.count + 1 ELSE 0) ELSE r.count)
                         /\ n \in (IF op = "count" THEN {s.count + 1, 0} ELSE {r.count})
    BY <1>1 DEF SessionType, HandlerType
  <1>4. PICK o \in BOOLEAN : o = IF op = "history" /\ s.alive
               THEN s.msgs # <<>> /\ s.msgs[Len(s.msgs)] = <<"user", h>> ELSE r.own
    BY <1>1 DEF HandlerType
  <1>5. Noted(h, op, s) = [r EXCEPT !.prompted = p, !.count = n, !.own = o]
    BY <1>1, <1>2, <1>3, <1>4 DEF Noted
  <1> HIDE DEF r
  <1>6. QED
    BY <1>1, <1>2, <1>3, <1>4, <1>5 DEF HandlerType, r

---------------------------------------------------------------------------
(* What a step does to the record of its handler, h, which becomes r.      *)

NextOp(h) == Head(handler[h].todo)

\* It reads the session and holds the copy it read, or goes on.
Loaded(h, r) ==
    /\ UNCHANGED <<redis, memory>>
    /\ \E s \in {redis, memory} :
         /\ r.say = handler[h].say /\ r.counted = handler[h].counted
         /\ r.kind = handler[h].kind
         /\ r.count \in (IF NextOp(h) = "count" THEN {s.count + 1, 0} ELSE {handler[h].count})
         /\ handler[h].pc = "ready" /\ handler[h].todo # <<>> /\ NextOp(h) \in Ops
         /\ \/ /\ r.pc = "loaded" /\ r.snap = s /\ r.todo = handler[h].todo
               /\ NextOp(h) \notin {"context", "history"}
            \/ r.pc = "ready" /\ r.snap = handler[h].snap /\ r.todo = Tail(handler[h].todo)
    /\ shown' = shown \/ \E e \in Policy!Entry : e.say = "forgot" /\ shown' = Append(shown, e)

\* It writes the session w, to Redis or to the memory dict.
Saved(h, r, w) ==
    /\ r.pc = "ready" /\ r.todo = Tail(handler[h].todo) /\ r.snap = NoSession
    /\ r.say = handler[h].say /\ r.counted = handler[h].counted
    /\ r.kind = handler[h].kind /\ r.count = handler[h].count
    /\ handler[h].pc = "loaded" /\ handler[h].todo # <<>>
    /\ NextOp(h) \in Ops \ {"context", "history"}
    /\ w = Changed(NextOp(h), handler[h].snap, h) /\ Len(w.msgs) <= MaxHistory
    /\ {redis', memory'} \subseteq {redis, memory, w}
    /\ shown' = shown

\* It starts on a message of this kind.
Started(h, r) ==
    /\ UNCHANGED <<redis, memory, shown>>
    /\ handler[h].pc = "idle" /\ r.pc = "ready" /\ r.kind \in AllKinds
    /\ r.todo = FirstOps(r.kind) /\ r.say = FirstSay(r.kind)
    /\ r.counted = FALSE /\ r.count = 0 /\ r.snap = NoSession

\* What is left to do after a decision.
Rest == {<<>>, <<"assistant">>} \cup {<<op, "assistant">> : op \in {"clear", "prompt", "reset"}}

\* It decides what the bot says, or to count a failure first.
Decided(h, r) ==
    /\ UNCHANGED <<redis, memory, shown>>
    /\ handler[h].pc = "ready" /\ handler[h].todo = <<>> /\ handler[h].say = "none"
    /\ r.pc = "ready" /\ r.snap = handler[h].snap
    /\ r.kind = handler[h].kind /\ r.count = handler[h].count
    /\ \/ /\ r.todo = <<"count">> /\ r.say = "none" /\ r.counted /\ ~handler[h].counted
          /\ r.kind \in {"question", "thanks"}
       \/ /\ r.todo \in Rest /\ r.say \notin {"none", "agent"} /\ r.counted = handler[h].counted
          /\ r.counted => r.say \in {"noinfo", "transfer_loop"}
          /\ r.say = "transfer_loop" => r.counted /\ r.count >= Threshold

\* Its customer gets the answer.
Finished(h, r) ==
    /\ UNCHANGED <<redis, memory>>
    /\ handler[h].pc = "ready" /\ handler[h].todo = <<>> /\ handler[h].say # "none"
    /\ r = HandlerAt("done")
    /\ \/ shown' = shown /\ handler[h].kind = "agent"
       \/ \E e \in Policy!Entry : e.say = handler[h].say /\ shown' = Append(shown, e)

\* The variables that every step keeps in their types.
Framed == fallback' \in BOOLEAN /\ shown' \in Seq(Policy!Entry)

Becomes(h, r) == handler' = [handler EXCEPT ![h] = r]

---------------------------------------------------------------------------
(* Steps                                                                   *)

LEMMA FirstOpsFit ==
    ASSUME NEW kind \in AllKinds
    PROVE  /\ FirstOps(kind) \in Seq(Ops) /\ Fit(FirstOps(kind)) /\ ~Has(FirstOps(kind), "count")
           /\ FirstSay(kind) \in {"transfer", "smalltalk", "silence", "agent", "none"}
           /\ FirstSay(kind) = "none" => ~Has(FirstOps(kind), "assistant")
           /\ FirstSay(kind) = "agent" => kind = "agent"
  <1> USE DEF Ops, Fit, Has, FirstOps, FirstSay
  <1>1. CASE kind = "escalation"
    BY <1>1
  <1>2. CASE kind = "order"
    BY <1>2
  <1>3. CASE kind = "number"
    BY <1>3
  <1>4. CASE kind = "smalltalk"
    BY <1>4
  <1>5. CASE kind = "thanks"
    BY <1>5
  <1>6. CASE kind = "question"
    BY <1>6
  <1>7. CASE kind = "silent"
    BY <1>7
  <1>8. CASE kind = "agent"
    BY <1>8
  <1>9. QED
    BY <1>1, <1>2, <1>3, <1>4, <1>5, <1>6, <1>7, <1>8 DEF AllKinds

LEMMA TailFit ==
    ASSUME NEW t \in Seq(Ops), t # <<>>, Fit(t)
    PROVE  /\ Tail(t) \in Seq(Ops) /\ Fit(Tail(t))
           /\ \A op : Has(Tail(t), op) => Has(t, op) /\ op # Head(t)
           /\ Head(t) = "assistant" => ~Has(Tail(t), "user")
           /\ Head(t) = "count" => Tail(t) = <<>>
  <1>1. /\ Tail(t) \in Seq(Ops) /\ Len(t) \in Nat \ {0} /\ Len(Tail(t)) = Len(t) - 1
        /\ \A i \in 1..Len(Tail(t)) : Tail(t)[i] = t[i + 1] /\ i + 1 \in 1..Len(t)
        /\ Head(t) = t[1] /\ 1 \in 1..Len(t)
    OBVIOUS
  <1>2. \A op : Has(Tail(t), op) => Has(t, op) /\ op # Head(t)
    <2> SUFFICES ASSUME NEW op, Has(Tail(t), op)
                 PROVE  Has(t, op) /\ op # Head(t)
      OBVIOUS
    <2>1. PICK i \in 1..Len(Tail(t)) : Tail(t)[i] = op
      BY DEF Has
    <2>2. i + 1 \in 1..Len(t) /\ t[i + 1] = op /\ i + 1 # 1
      BY <1>1, <2>1
    <2>3. QED
      BY <1>1, <2>2 DEF Has, Fit
  <1>3. Head(t) = "count" => Tail(t) = <<>>
    <2>1. ASSUME Head(t) = "count" PROVE Tail(t) = <<>>
      <3>1. t = <<"count">>
        BY <1>1, <2>1 DEF Has, Fit
      <3>2. Len(Tail(t)) = 0
        BY <1>1, <3>1
      <3>3. QED
        BY <1>1, <3>2, EmptySeq
    <2>2. QED
      BY <2>1
  <1>4. Head(t) = "assistant" => ~Has(Tail(t), "user")
    <2> SUFFICES ASSUME Head(t) = "assistant", Has(Tail(t), "user")
                 PROVE  FALSE
      OBVIOUS
    <2>1. PICK i \in 1..Len(Tail(t)) : Tail(t)[i] = "user"
      BY DEF Has
    <2>2. i + 1 \in 1..Len(t) /\ t[i + 1] = "user" /\ ~(i + 1 < 1)
      BY <1>1, <2>1
    <2>3. QED
      BY <1>1, <2>2 DEF Fit
  <1>5. Fit(Tail(t))
    <2>1. ASSUME NEW i \in 1..Len(Tail(t)), NEW j \in 1..Len(Tail(t))
          PROVE  /\ Tail(t)[i] = Tail(t)[j] => i = j
                 /\ Tail(t)[i] = "assistant" /\ Tail(t)[j] = "user" => j < i
      <3>1. /\ i + 1 \in 1..Len(t) /\ j + 1 \in 1..Len(t)
            /\ Tail(t)[i] = t[i + 1] /\ Tail(t)[j] = t[j + 1]
        BY <1>1
      <3>2. /\ t[i + 1] = t[j + 1] => i + 1 = j + 1
            /\ t[i + 1] = "assistant" /\ t[j + 1] = "user" => j + 1 < i + 1
        BY <3>1 DEF Fit
      <3>3. QED
        BY <3>1, <3>2
    <2>2. ~Has(Tail(t), "count")
      <3> SUFFICES ASSUME Has(Tail(t), "count") PROVE FALSE
        OBVIOUS
      <3>1. t = <<"count">>
        BY <1>2 DEF Fit
      <3>2. QED
        BY <1>2, <3>1
    <2>3. QED
      BY <2>1, <2>2 DEF Fit
  <1>6. QED
    BY <1>1, <1>2, <1>3, <1>4, <1>5

\* What a handler's record becomes when it notes a failure of Redis, when it
\* has loaded the session, and when an operation is over.
LEMMA RecordDegraded ==
    ASSUME NEW r \in HandlerType, NEW d \in BOOLEAN
    PROVE  LET q == [r EXCEPT !.degraded = d]
           IN  /\ q \in HandlerType
               /\ q.kind = r.kind /\ q.say = r.say /\ q.counted = r.counted /\ q.count = r.count
               /\ q.pc = r.pc /\ q.todo = r.todo /\ q.snap = r.snap
  BY DEF HandlerType

LEMMA RecordLoaded ==
    ASSUME NEW r \in HandlerType, NEW s \in SessionType
    PROVE  LET q == [r EXCEPT !.pc = "loaded", !.snap = s]
           IN  /\ q \in HandlerType
               /\ q.kind = r.kind /\ q.say = r.say /\ q.counted = r.counted /\ q.count = r.count
               /\ q.pc = "loaded" /\ q.todo = r.todo /\ q.snap = s
  BY DEF HandlerType

LEMMA RecordPassed ==
    ASSUME NEW r \in HandlerType, NEW t \in Seq(Ops)
    PROVE  LET q == [r EXCEPT !.todo = t]
           IN  /\ q \in HandlerType
               /\ q.kind = r.kind /\ q.say = r.say /\ q.counted = r.counted /\ q.count = r.count
               /\ q.pc = r.pc /\ q.todo = t /\ q.snap = r.snap
  BY DEF HandlerType

\* A handler reads the session: it holds the copy it read, or goes on.
LEMMA LoadStep ==
    ASSUME Shape, NEW h \in Handlers, Load(h)
    PROVE  Framed /\ \E r \in HandlerType : Becomes(h, r) /\ Loaded(h, r)
  <1> DEFINE op == Head(handler[h].todo)
  <1>1. /\ handler[h] \in HandlerType /\ handler[h].pc = "ready" /\ handler[h].todo # <<>>
        /\ op \in Ops /\ Tail(handler[h].todo) \in Seq(Ops)
    <2>1. handler[h] \in HandlerType /\ handler[h].todo \in Seq(Ops)
      BY DEF Shape, HandlerType
    <2>2. QED
      BY <2>1 DEF Load
  <1>2. PICK fails \in BOOLEAN :
         LET s == IF fallback \/ fails THEN memory ELSE redis
             early == op = "create" \/ handler[h].kind = "agent"
             noted == [Noted(h, op, s) EXCEPT !.degraded = @ \/ (fails /\ ~early)]
         IN  /\ handler' = [handler EXCEPT ![h] =
                  IF Saves(op, s) THEN [noted EXCEPT !.pc = "loaded", !.snap = s]
                  ELSE [noted EXCEPT !.todo = Tail(@)]]
             /\ fallback' = (fallback \/ fails)
             /\ shown' = IF fails /\ early
                         THEN Append(shown, [say |-> "forgot", thanks |-> FALSE, degraded |-> FALSE])
                         ELSE shown
    BY DEF Load, MayFail
  <1>3. PICK s \in {redis, memory} : s = IF fallback \/ fails THEN memory ELSE redis
    OBVIOUS
  <1>4. PICK d \in BOOLEAN : d = (Noted(h, op, s).degraded \/ (fails /\ ~(op = "create" \/ handler[h].kind = "agent")))
    OBVIOUS
  <1>5. s \in SessionType
    BY DEF Shape
  <1>6. PICK n \in HandlerType : n = [Noted(h, op, s) EXCEPT !.degraded = d]
             /\ n.say = handler[h].say /\ n.counted = handler[h].counted
             /\ n.pc = handler[h].pc /\ n.todo = handler[h].todo /\ n.snap = handler[h].snap
             /\ n.kind = handler[h].kind
             /\ n.count \in (IF op = "count" THEN {s.count + 1, 0} ELSE {handler[h].count})
    <2> DEFINE r == Noted(h, op, s)
               n == [r EXCEPT !.degraded = d]
    <2>1. /\ r \in HandlerType
          /\ r.pc = handler[h].pc /\ r.todo = handler[h].todo
          /\ r.snap = handler[h].snap /\ r.say = handler[h].say
          /\ r.counted = handler[h].counted /\ r.kind = handler[h].kind
          /\ r.count \in (IF op = "count" THEN {s.count + 1, 0} ELSE {handler[h].count})
      BY <1>1, <1>5, NotedType
    <2> HIDE DEF r
    <2>2. /\ n \in HandlerType
          /\ n.kind = r.kind /\ n.say = r.say /\ n.counted = r.counted /\ n.count = r.count
          /\ n.pc = r.pc /\ n.todo = r.todo /\ n.snap = r.snap
      BY <2>1, RecordDegraded
    <2>3. n = [Noted(h, op, s) EXCEPT !.degraded = d]
      BY DEF r
    <2> HIDE DEF n
    <2>4. QED
      BY <2>1, <2>2, <2>3
  <1>7. handler' = [handler EXCEPT ![h] = IF Saves(op, s) THEN [n EXCEPT !.pc = "loaded", !.snap = s]
                                          ELSE [n EXCEPT !.todo = Tail(n.todo)]]
    BY <1>2, <1>3, <1>4, <1>6
  <1>8. Saves(op, s) => op \notin {"context", "history"}
    BY DEF Saves
  <1>9. PICK r \in HandlerType :
            /\ r = IF Saves(op, s) THEN [n EXCEPT !.pc = "loaded", !.snap = s] ELSE [n EXCEPT !.todo = Tail(n.todo)]
            /\ r.kind = n.kind /\ r.say = n.say /\ r.counted = n.counted /\ r.count = n.count
            /\ \/ r.pc = "loaded" /\ r.snap = s /\ r.todo = n.todo /\ Saves(op, s)
               \/ r.pc = "ready" /\ r.snap = n.snap /\ r.todo = Tail(n.todo)
    <2>1. CASE Saves(op, s)
      <3> DEFINE r == [n EXCEPT !.pc = "loaded", !.snap = s]
      <3>1. /\ r \in HandlerType /\ r.kind = n.kind /\ r.say = n.say /\ r.counted = n.counted /\ r.count = n.count
            /\ r.pc = "loaded" /\ r.snap = s /\ r.todo = n.todo
        BY <1>5, RecordLoaded
      <3>2. QED
        BY <2>1, <3>1
    <2>2. CASE ~Saves(op, s)
      <3> DEFINE r == [n EXCEPT !.todo = Tail(n.todo)]
      <3>1. /\ r \in HandlerType /\ r.kind = n.kind /\ r.say = n.say /\ r.counted = n.counted /\ r.count = n.count
            /\ r.pc = n.pc /\ r.snap = n.snap /\ r.todo = Tail(n.todo)
        BY <1>1, <1>6, RecordPassed
      <3>2. QED
        BY <1>1, <1>6, <2>2, <3>1
    <2>3. QED
      BY <2>1, <2>2
  <1>10. /\ shown' \in Seq(Policy!Entry)
         /\ \/ shown' = shown
            \/ \E e \in Policy!Entry : e.say = "forgot" /\ shown' = Append(shown, e)
    <2>1. [say |-> "forgot", thanks |-> FALSE, degraded |-> FALSE] \in Policy!Entry
      BY DEF Policy!Entry, Policy!Says
    <2>2. QED
      BY <1>2, <2>1 DEF Shape
  <1>11. UNCHANGED <<redis, memory>> /\ fallback' \in BOOLEAN
    BY <1>2 DEF Load
  <1>12. QED
    BY <1>1, <1>6, <1>7, <1>8, <1>9, <1>10, <1>11 DEF Framed, Becomes, Loaded, NextOp

\* What a write makes of the messages and of the counter of a copy.
LEMMA ChangedEffect ==
    ASSUME NEW s \in SessionType, NEW h \in Handlers, NEW op \in Ops \ {"context", "history"}
    PROVE  LET w == Changed(op, s, h) IN
           /\ op \in {"user", "assistant"} =>
                \E k \in Nat : Offset(Append(s.msgs, <<op, h>>), w.msgs, k)
           /\ op \notin {"user", "assistant"} => w.msgs = s.msgs \/ w.msgs = <<>>
           /\ w.count <= s.count \/ (op = "count" /\ w.count = s.count + 1)
  <1>0. s.count \in Nat
    BY DEF SessionType
  <1>1. CASE op = "create"
    BY <1>0, <1>1 DEF Changed, FreshSession, NoSession
  <1>2. CASE op \in {"user", "assistant"}
    <2>1. Append(s.msgs, <<op, h>>) \in Seq(Messages)
      BY <1>2 DEF SessionType, Messages
    <2>2. PICK m : m = LastOnes(Append(s.msgs, <<op, h>>))
                   /\ \E k \in Nat : Offset(Append(s.msgs, <<op, h>>), m, k)
      BY <2>1, LastOnesKeeps
    <2>3. Changed(op, s, h) = [s EXCEPT !.msgs = m]
      BY <1>2, <2>2 DEF Changed
    <2>4. Changed(op, s, h).msgs = m /\ Changed(op, s, h).count = s.count
      BY <2>3 DEF SessionType
    <2>5. QED
      BY <1>0, <1>2, <2>2, <2>4
  <1>3. CASE op = "reset"
    BY <1>0, <1>3 DEF Changed, SessionType
  <1>4. CASE op = "count"
    BY <1>0, <1>4 DEF Changed, SessionType
  <1>5. CASE op \in {"prompt", "clear"}
    BY <1>0, <1>5 DEF Changed, SessionType
  <1>6. QED
    BY <1>1, <1>2, <1>3, <1>4, <1>5 DEF Ops

\* A handler writes the session: to Redis, or to the memory dict.
LEMMA SaveStep ==
    ASSUME Shape, Short, AllSane, NEW h \in Handlers, Save(h)
    PROVE  Framed /\ \E r \in HandlerType, w \in SessionType : Becomes(h, r) /\ Saved(h, r, w)
  <1> DEFINE op == Head(handler[h].todo)
             r == [handler[h] EXCEPT !.pc = "ready", !.todo = Tail(@), !.snap = NoSession]
             w == Changed(op, handler[h].snap, h)
  <1>1. handler[h] \in HandlerType /\ handler[h].pc = "loaded"
    BY DEF Shape, Save
  <1>2. /\ handler[h].todo \in Seq(Ops) /\ handler[h].todo # <<>>
        /\ Tail(handler[h].todo) \in Seq(Ops) /\ op \in Ops \ {"context", "history"}
    <2>1. handler[h].todo \in Seq(Ops) /\ handler[h].todo # <<>> /\ op \notin {"context", "history"}
      BY <1>1 DEF HandlerType, AllSane, Sane
    <2>2. QED
      BY <2>1
  <1>3. handler[h].snap \in SessionType /\ Len(handler[h].snap.msgs) <= MaxHistory
    BY <1>1 DEF HandlerType, Short, Copies
  <1>4. w \in SessionType /\ Len(w.msgs) <= MaxHistory
    BY <1>2, <1>3, ChangedType
  <1>5. PICK fails \in BOOLEAN :
          /\ memory' = (IF fallback \/ fails THEN w ELSE memory)
          /\ redis' = (IF fallback \/ fails THEN redis ELSE w)
          /\ fallback' = (fallback \/ fails)
    BY DEF Save, MayFail
  <1>6. {redis', memory'} \subseteq {redis, memory, w} /\ fallback' \in BOOLEAN
    BY <1>5 DEF Shape
  <1>7. /\ r \in HandlerType /\ r.pc = "ready" /\ r.todo = Tail(handler[h].todo)
        /\ r.snap = NoSession /\ r.say = handler[h].say /\ r.counted = handler[h].counted
        /\ r.kind = handler[h].kind /\ r.count = handler[h].count
    BY <1>1, <1>2, SessionTypes DEF HandlerType
  <1>8. handler' = [handler EXCEPT ![h] = r] /\ shown' = shown
    BY DEF Save
  <1> HIDE DEF r, w
  <1>9. QED
    BY <1>1, <1>2, <1>4, <1>6, <1>7, <1>8 DEF w, Framed, Becomes, Saved, NextOp, Shape

\* A message comes in.
LEMMA StartStep ==
    ASSUME Shape, NEW h \in Handlers, NEW kind \in Kinds, Start(h, kind)
    PROVE  Framed /\ \E r \in HandlerType : Becomes(h, r) /\ Started(h, r)
  <1>1. kind \in AllKinds
    BY KindsAssumption
  <1>2. FirstOps(kind) \in Seq(Ops) /\ FirstSay(kind) \in Sayings
    BY <1>1, FirstOpsFit DEF Policy!Says, Sayings
  <1> DEFINE q == HandlerAt("ready")
             r == [q EXCEPT !.kind = kind, !.todo = FirstOps(kind), !.say = FirstSay(kind)]
  <1>3. q \in HandlerType /\ q.pc = "ready" /\ q.counted = FALSE /\ q.count = 0 /\ q.snap = NoSession
    BY HandlerAtType DEF HandlerAt
  <1>4. handler' = [handler EXCEPT ![h] = r] /\ UNCHANGED <<redis, memory, fallback, shown>> /\ handler[h].pc = "idle"
    BY DEF Start
  <1> HIDE DEF q
  <1>5. /\ r \in HandlerType /\ r.pc = "ready" /\ r.kind = kind /\ r.todo = FirstOps(kind)
        /\ r.say = FirstSay(kind) /\ r.counted = FALSE /\ r.count = 0 /\ r.snap = NoSession
    BY <1>1, <1>2, <1>3 DEF HandlerType
  <1> HIDE DEF r
  <1>6. QED
    BY <1>1, <1>4, <1>5 DEF Framed, Becomes, Started, Shape

LEMMA RestFit ==
    ASSUME NEW t \in Rest
    PROVE  /\ t \in Seq(Ops) /\ Fit(t) /\ ~Has(t, "count") /\ ~Has(t, "user")
  <1>1. CASE t = <<>>
    BY <1>1, EmptySeq DEF Fit, Has
  <1>2. CASE t = <<"assistant">>
    BY <1>2 DEF Fit, Has, Ops
  <1>3. ASSUME NEW op \in {"clear", "prompt", "reset"}, t = <<op, "assistant">>
        PROVE  t \in Seq(Ops) /\ Fit(t) /\ ~Has(t, "count") /\ ~Has(t, "user")
    BY <1>3 DEF Fit, Has, Ops
  <1>4. QED
    BY <1>1, <1>2, <1>3 DEF Rest

LEMMA RecordCounts ==
    ASSUME NEW q \in HandlerType
    PROVE  LET r == [q EXCEPT !.todo = <<"count">>, !.counted = TRUE]
           IN  /\ r \in HandlerType /\ r.pc = q.pc /\ r.todo = <<"count">> /\ r.say = q.say
               /\ r.counted = TRUE /\ r.kind = q.kind /\ r.count = q.count /\ r.snap = q.snap
  <1>0. <<"count">> \in Seq(Ops)
    BY DEF Ops
  <1>1. PICK t \in Seq(Ops) : t = <<"count">>
    BY <1>0
  <1>2. LET r == [q EXCEPT !.todo = t, !.counted = TRUE]
        IN  /\ r \in HandlerType /\ r.pc = q.pc /\ r.todo = t /\ r.say = q.say
            /\ r.counted = TRUE /\ r.kind = q.kind /\ r.count = q.count /\ r.snap = q.snap
    BY DEF HandlerType
  <1>3. QED
    BY <1>1, <1>2

LEMMA GoesStep ==
    ASSUME Shape, NEW h \in Handlers, NEW ops \in Rest, NEW say \in Policy!Says,
           Goes(h, ops, say), Deciding(h),
           handler[h].counted => say \in {"noinfo", "transfer_loop"},
           say = "transfer_loop" => handler[h].counted /\ handler[h].count >= Threshold
    PROVE  Framed /\ \E r \in HandlerType : Becomes(h, r) /\ Decided(h, r)
  <1>1. PICK q \in HandlerType : /\ q = handler[h] /\ q.pc = "ready" /\ q.todo = <<>> /\ q.say = "none"
                                 /\ q.counted => say \in {"noinfo", "transfer_loop"}
                                 /\ say = "transfer_loop" => q.counted /\ q.count >= Threshold
    BY DEF Shape, Deciding
  <1> DEFINE r == [q EXCEPT !.todo = ops, !.say = say]
  <1>2. handler' = [handler EXCEPT ![h] = r] /\ UNCHANGED <<redis, memory, fallback, shown>>
    BY <1>1 DEF Goes
  <1>3. say \notin {"none", "agent"} /\ ops \in Seq(Ops) /\ say \in Sayings
    BY RestFit DEF Policy!Says, Sayings
  <1>4. /\ r \in HandlerType /\ r.pc = q.pc /\ r.todo = ops /\ r.say = say
        /\ r.counted = q.counted /\ r.kind = q.kind /\ r.count = q.count /\ r.snap = q.snap
    BY <1>3 DEF HandlerType
  <1> HIDE DEF r
  <1>5. Decided(h, r)
    BY <1>1, <1>2, <1>3, <1>4 DEF Decided
  <1>6. QED
    BY <1>2, <1>4, <1>5 DEF Framed, Becomes, Shape

\* The order look-up, the retrieval and the LLM, the count of the failures.
LEMMA DecideStep ==
    ASSUME Shape, AllSane, NEW h \in Handlers, TrackOrder(h) \/ AnswerQuestion(h) \/ CheckLoop(h)
    PROVE  Framed /\ \E r \in HandlerType : Becomes(h, r) /\ Decided(h, r)
  <1> DEFINE q == handler[h]
  <1>1. q \in HandlerType /\ Sane(q)
    BY DEF Shape, AllSane
  <1>2. /\ <<>> \in Rest /\ <<"assistant">> \in Rest /\ <<"clear", "assistant">> \in Rest
        /\ <<"prompt", "assistant">> \in Rest /\ <<"reset", "assistant">> \in Rest
    BY DEF Rest
  <1>3. {"order", "transfer_outage", "transfer_order", "ask", "transfer_rag", "error", "answer",
         "transfer_loop", "noinfo"} \subseteq Policy!Says
    BY DEF Policy!Says
  <1>4. CASE TrackOrder(h)
    <2>1. Deciding(h) /\ ~q.counted
      BY <1>1, <1>4 DEF TrackOrder, Sane
    <2>2. PICK ops \in Rest, say \in Policy!Says \ {"transfer_loop"} : Goes(h, ops, say)
      BY <1>2, <1>3, <1>4 DEF TrackOrder
    <2>3. QED
      BY <2>1, <2>2, GoesStep
  <1>5. CASE AnswerQuestion(h)
    <2>1. Deciding(h) /\ ~q.counted /\ q.kind \in {"question", "thanks"}
      BY <1>5 DEF AnswerQuestion
    <2>2. CASE \E ops \in Rest, say \in Policy!Says \ {"transfer_loop"} : Goes(h, ops, say)
      BY <2>1, <2>2, GoesStep
    <2>3. CASE /\ handler' = [handler EXCEPT ![h] = [@ EXCEPT !.todo = <<"count">>, !.counted = TRUE]]
               /\ UNCHANGED <<redis, memory, fallback, shown>>
      <3> DEFINE r == [q EXCEPT !.todo = <<"count">>, !.counted = TRUE]
      <3>1. /\ r \in HandlerType /\ r.pc = q.pc /\ r.todo = <<"count">> /\ r.say = q.say
            /\ r.counted = TRUE /\ r.kind = q.kind /\ r.count = q.count /\ r.snap = q.snap
        BY <1>1, RecordCounts
      <3>2. handler' = [handler EXCEPT ![h] = r]
        BY <2>3
      <3> HIDE DEF r
      <3>3. Decided(h, r)
        BY <2>1, <2>3, <3>1 DEF Decided, Deciding
      <3>4. QED
        BY <2>3, <3>1, <3>2, <3>3 DEF Framed, Becomes, Shape
    <2>4. QED
      BY <1>2, <1>3, <1>5, <2>2, <2>3 DEF AnswerQuestion
  <1>6. CASE CheckLoop(h)
    <2>1. Deciding(h) /\ q.counted
      BY <1>6 DEF CheckLoop
    <2>2. CASE q.count >= Threshold
      <3>1. Goes(h, <<"reset", "assistant">>, "transfer_loop")
        BY <1>6, <2>2 DEF CheckLoop
      <3>2. QED
        BY <1>2, <1>3, <2>1, <2>2, <3>1, GoesStep
    <2>3. CASE ~(q.count >= Threshold)
      <3>1. Goes(h, <<"assistant">>, "noinfo")
        BY <1>6, <2>3 DEF CheckLoop
      <3>2. QED
        BY <1>2, <1>3, <2>1, <2>3, <3>1, GoesStep
    <2>4. QED
      BY <2>2, <2>3
  <1>7. QED
    BY <1>4, <1>5, <1>6

\* The customer gets the answer.
LEMMA FinishStep ==
    ASSUME Shape, AllSane, NEW h \in Handlers, Finish(h)
    PROVE  Framed /\ \E r \in HandlerType : Becomes(h, r) /\ Finished(h, r)
  <1>1. handler[h] \in HandlerType /\ HandlerAt("done") \in HandlerType /\ Sane(handler[h])
    BY HandlerAtType DEF Shape, AllSane
  <1>2. CASE handler[h].kind = "agent"
    BY <1>1, <1>2 DEF Finish, Shape, Framed, Becomes, Finished
  <1>3. CASE handler[h].kind # "agent"
    <2> DEFINE e == [say |-> handler[h].say, thanks |-> handler[h].kind = "thanks",
                     degraded |-> handler[h].degraded]
    <2>1. handler[h].say \in Policy!Says
      BY <1>1, <1>3 DEF Finish, HandlerType, Sane, Sayings
    <2>2. e \in Policy!Entry
      BY <1>1, <2>1 DEF HandlerType, Policy!Entry
    <2>3. shown' = Append(shown, e)
      BY <1>3 DEF Finish
    <2>4. shown \in Seq(Policy!Entry) /\ e.say = handler[h].say
      BY DEF Shape
    <2>5. /\ UNCHANGED <<redis, memory, fallback>>
          /\ handler[h].pc = "ready" /\ handler[h].todo = <<>> /\ handler[h].say # "none"
          /\ handler' = [handler EXCEPT ![h] = HandlerAt("done")]
      BY DEF Finish
    <2> HIDE DEF e
    <2>6. Append(shown, e) \in Seq(Policy!Entry)
      BY <2>2, <2>4
    <2>7. QED
      BY <1>1, <2>2, <2>3, <2>4, <2>5, <2>6 DEF Shape, Framed, Becomes, Finished
  <1>4. QED
    BY <1>2, <1>3

---------------------------------------------------------------------------
(* Types                                                                   *)

Sound == Shape /\ Short /\ AllSane

\* A step of Next is one of the above, or the expiry of the session.
LEMMA Moves ==
    ASSUME Sound, Next
    PROVE  /\ Framed
           /\ \/ \E h \in Handlers, r \in HandlerType :
                   /\ Becomes(h, r)
                   /\ \/ Loaded(h, r) \/ Started(h, r) \/ Decided(h, r) \/ Finished(h, r)
                      \/ \E w \in SessionType : Saved(h, r, w)
              \/ /\ redis' = NoSession /\ UNCHANGED <<memory, handler>>
                 /\ \E e \in Policy!Entry : e.say = "forgot" /\ shown' = Append(shown, e)
  <1> USE DEF Sound
  <1>1. ASSUME NEW h \in Handlers, HandlerStep(h)
        PROVE  Framed /\ \E r \in HandlerType : Becomes(h, r) /\
                   \/ Loaded(h, r) \/ Decided(h, r) \/ Finished(h, r)
                   \/ \E w \in SessionType : Saved(h, r, w)
    <2>1. CASE Load(h)
      BY <2>1, LoadStep
    <2>2. CASE Save(h)
      BY <2>2, SaveStep
    <2>3. CASE TrackOrder(h) \/ AnswerQuestion(h) \/ CheckLoop(h)
      BY <2>3, DecideStep
    <2>4. CASE Finish(h)
      BY <2>4, FinishStep
    <2>5. QED
      BY <1>1, <2>1, <2>2, <2>3, <2>4 DEF HandlerStep
  <1>2. ASSUME NEW h \in Handlers, NEW kind \in Kinds, Start(h, kind)
        PROVE  Framed /\ \E r \in HandlerType : Becomes(h, r) /\ Started(h, r)
    BY <1>2, StartStep
  <1>3. CASE Expire
    <2> DEFINE e == [say |-> "forgot", thanks |-> FALSE, degraded |-> FALSE]
    <2>1. e \in Policy!Entry /\ e.say = "forgot"
      BY DEF Policy!Entry, Policy!Says
    <2>2. shown \in Seq(Policy!Entry) /\ fallback \in BOOLEAN
      BY DEF Shape
    <2>3. shown' = Append(shown, e) /\ redis' = NoSession /\ UNCHANGED <<memory, fallback, handler>>
      BY <1>3 DEF Expire
    <2> HIDE DEF e
    <2>4. Append(shown, e) \in Seq(Policy!Entry)
      BY <2>1, <2>2
    <2>5. QED
      BY <2>1, <2>2, <2>3, <2>4 DEF Framed
  <1>4. QED
    BY <1>1, <1>2, <1>3 DEF Next

LEMMA BecomesOne ==
    ASSUME handler \in [Handlers -> HandlerType], NEW h \in Handlers, NEW r \in HandlerType,
           Becomes(h, r)
    PROVE  /\ handler' \in [Handlers -> HandlerType]
           /\ \A g \in Handlers : handler'[g] = IF g = h THEN r ELSE handler[g]
  BY DEF Becomes

\* What a handler has to do still agrees with what it has found out.
LEMMA SaneStep ==
    ASSUME Sound, NEW h \in Handlers, NEW r \in HandlerType,
           \/ Loaded(h, r) \/ Started(h, r) \/ Decided(h, r) \/ Finished(h, r)
           \/ \E w \in SessionType : Saved(h, r, w)
    PROVE  Sane(r)
  <1> DEFINE q == handler[h]
  <1>1. q \in HandlerType /\ Sane(q) /\ q.todo \in Seq(Ops)
    BY DEF Sound, Shape, AllSane, HandlerType
  <1>2. ASSUME q.todo # <<>>
        PROVE  /\ Fit(Tail(q.todo)) /\ \A op : Has(Tail(q.todo), op) => Has(q.todo, op)
    BY <1>1, <1>2, TailFit DEF Sane
  <1>3. CASE Loaded(h, r)
    <2>1. CASE r.pc = "loaded" /\ r.todo = q.todo
      BY <1>1, <1>3, <2>1 DEF Loaded, Sane, NextOp
    <2>2. CASE r.pc = "ready" /\ r.todo = Tail(q.todo)
      BY <1>1, <1>2, <1>3, <2>2 DEF Loaded, Sane
    <2>3. QED
      BY <1>3, <2>1, <2>2 DEF Loaded
  <1>4. CASE \E w \in SessionType : Saved(h, r, w)
    BY <1>1, <1>2, <1>4 DEF Saved, Sane
  <1>5. CASE Started(h, r)
    BY <1>5, FirstOpsFit DEF Started, Sane
  <1>6. CASE Decided(h, r)
    <2>1. Fit(<<"count">>) /\ ~Has(<<"count">>, "assistant")
      BY DEF Fit, Has
    <2>2. CASE r.todo = <<"count">> /\ r.say = "none" /\ r.counted /\ r.kind \in {"question", "thanks"}
      BY <1>6, <2>1, <2>2 DEF Decided, Sane
    <2>3. CASE /\ r.todo \in Rest /\ r.say \notin {"none", "agent"} /\ r.counted = q.counted
               /\ r.counted => r.say \in {"noinfo", "transfer_loop"}
      BY <1>1, <1>6, <2>3, RestFit DEF Decided, Sane
    <2>4. QED
      BY <1>6, <2>2, <2>3 DEF Decided
  <1>7. CASE Finished(h, r)
    <2>1. r.todo = <<>> /\ r.pc = "done" /\ r.counted = FALSE /\ r.say = "none"
      BY <1>7 DEF Finished, HandlerAt
    <2>2. QED
      BY <2>1, RestFit DEF Sane, Fit, Has
  <1>8. QED
    BY <1>3, <1>4, <1>5, <1>6, <1>7

\* Where the copies of a next state come from.
LEMMA CopiesStep ==
    ASSUME Sound, Next
    PROVE  \/ Copies' \subseteq Copies \cup {NoSession}
           \/ \E h \in Handlers, r \in HandlerType, w \in SessionType :
                Becomes(h, r) /\ Saved(h, r, w) /\ Copies' \subseteq Copies \cup {NoSession, w}
  <1>0. handler \in [Handlers -> HandlerType]
    BY DEF Sound, Shape
  <1>1. ASSUME NEW h \in Handlers, NEW r \in HandlerType, Becomes(h, r), NEW S, Copies \subseteq S,
               redis' \in S, memory' \in S, r.snap \in S
        PROVE  Copies' \subseteq S
    <2>1. \A g \in Handlers : handler'[g].snap \in S
      BY <1>0, <1>1, BecomesOne DEF Copies
    <2>2. QED
      BY <1>1, <2>1 DEF Copies
  <1>2. ASSUME NEW h \in Handlers, NEW r \in HandlerType, Becomes(h, r),
               Loaded(h, r) \/ Started(h, r) \/ Decided(h, r) \/ Finished(h, r)
        PROVE  Copies' \subseteq Copies \cup {NoSession}
    <2>1. redis' \in Copies /\ memory' \in Copies
      BY <1>2 DEF Loaded, Started, Decided, Finished, Copies
    <2>2. r.snap \in Copies \cup {NoSession}
      <3>1. CASE Loaded(h, r)
        BY <3>1 DEF Loaded, Copies
      <3>2. CASE Started(h, r)
        BY <3>2 DEF Started
      <3>3. CASE Decided(h, r)
        BY <3>3 DEF Decided, Copies
      <3>4. CASE Finished(h, r)
        BY <3>4 DEF Finished, HandlerAt
      <3>5. QED
        BY <1>2, <3>1, <3>2, <3>3, <3>4
    <2>3. QED
      BY <1>1, <1>2, <2>1, <2>2
  <1>3. ASSUME NEW h \in Handlers, NEW r \in HandlerType, NEW w \in SessionType, Becomes(h, r),
               Saved(h, r, w)
        PROVE  Copies' \subseteq Copies \cup {NoSession, w}
    <2>1. redis' \in Copies \cup {NoSession, w} /\ memory' \in Copies \cup {NoSession, w}
          /\ r.snap \in Copies \cup {NoSession, w}
      BY <1>3 DEF Saved, Copies
    <2>2. QED
      BY <1>1, <1>3, <2>1
  <1>4. ASSUME redis' = NoSession, UNCHANGED <<memory, handler>>
        PROVE  Copies' \subseteq Copies \cup {NoSession}
    BY <1>4 DEF Copies
  <1>5. QED
    BY <1>2, <1>3, <1>4, Moves

\* The types, the limit of the history and the plans of the handlers.
LEMMA SoundStep ==
    ASSUME Sound, Next
    PROVE  Sound'
  <1>0. handler \in [Handlers -> HandlerType] /\ redis \in SessionType /\ memory \in SessionType
    BY DEF Sound, Shape
  <1>1. Framed
    BY Moves
  <1>2. Short'
    <2>1. \A s \in Copies : Len(s.msgs) <= MaxHistory
      BY DEF Sound, Short
    <2>2. Len(NoSession.msgs) <= MaxHistory
      BY MaxHistoryAssumption DEF NoSession
    <2>3. \A s \in Copies' : Len(s.msgs) <= MaxHistory
      BY <2>1, <2>2, CopiesStep DEF Saved
    <2>4. QED
      BY <2>3 DEF Short
  <1>3. redis' \in SessionType /\ memory' \in SessionType
    <2>1. ASSUME NEW h \in Handlers, NEW r \in HandlerType,
                 Loaded(h, r) \/ Started(h, r) \/ Decided(h, r) \/ Finished(h, r)
          PROVE  UNCHANGED <<redis, memory>>
      BY <2>1 DEF Loaded, Started, Decided, Finished
    <2>2. ASSUME NEW h \in Handlers, NEW r \in HandlerType, NEW w \in SessionType, Saved(h, r, w)
          PROVE  redis' \in SessionType /\ memory' \in SessionType
      BY <1>0, <2>2 DEF Saved
    <2>3. QED
      BY <1>0, <2>1, <2>2, Moves, SessionTypes
  <1>4. handler' \in [Handlers -> HandlerType]
    BY <1>0, Moves, BecomesOne
  <1>5. AllSane'
    <2>1. \A g \in Handlers : Sane(handler[g])
      BY DEF Sound, AllSane
    <2>2. CASE handler' = handler
      BY <2>1, <2>2 DEF AllSane
    <2>3. ASSUME NEW h \in Handlers, NEW r \in HandlerType, Becomes(h, r), Sane(r)
          PROVE  AllSane'
      BY <1>0, <2>1, <2>3, BecomesOne DEF AllSane
    <2>4. QED
      BY <2>2, <2>3, Moves, SaneStep
  <1>6. QED
    BY <1>1, <1>2, <1>3, <1>4, <1>5 DEF Sound, Shape, Framed

LEMMA SoundInit == Init => Sound
  <1> SUFFICES ASSUME Init PROVE Sound
    OBVIOUS
  <1> DEFINE r == HandlerAt("idle")
  <1>1. r \in HandlerType /\ r.todo = <<>> /\ r.pc = "idle" /\ r.counted = FALSE /\ r.snap = NoSession
        /\ r.say = "none"
    BY HandlerAtType DEF HandlerAt
  <1>2. Sane(r)
    BY <1>1, RestFit DEF Sane, Fit, Has
  <1>3. handler = [h \in Handlers |-> r]
    BY DEF Init
  <1> HIDE DEF r
  <1>4. Shape
    BY <1>1, <1>3, SessionTypes, EmptySeq DEF Init, Shape
  <1>5. AllSane
    BY <1>2, <1>3 DEF AllSane
  <1>6. Short
    <2>1. Len(NoSession.msgs) = 0
      BY DEF NoSession
    <2>2. \A s \in Copies : s = NoSession
      BY <1>1, <1>3 DEF Copies, Init
    <2>3. QED
      BY <2>1, <2>2, MaxHistoryAssumption DEF Short
  <1>7. QED
    BY <1>4, <1>5, <1>6 DEF Sound

LEMMA SoundSame == Sound /\ UNCHANGED vars => Sound'
  BY DEF Sound, Shape, Short, Copies, AllSane, vars

LEMMA SoundInvariant == Spec => []Sound
  <1>1. Sound /\ [Next]_vars => Sound'
    BY SoundStep, SoundSame
  <1>2. QED
    BY <1>1, SoundInit, PTL DEF Spec

\* session_manager: every variable keeps its type, and a session, stored or
\* being changed, never holds more than MAX_HISTORY messages, however many
\* handlers overlap and whatever fails.
THEOREM TypeInvariant == Spec => []TypeOK
  <1>1. Sound => TypeOK
    BY ShapeIsType DEF Sound
  <1>2. QED
    BY <1>1, SoundInvariant, PTL

---------------------------------------------------------------------------
(* The history                                                             *)

\* The message, and the reply, of a handler that are still to be stored.
UserDue(q) == q.pc = "idle" \/ Has(q.todo, "user")
ReplyDue(q) ==
    UserDue(q) \/ Has(q.todo, "assistant") \/ (q.say = "none" /\ q.pc # "done")

NotYet ==
    \A h \in Handlers, s \in Copies :
        /\ UserDue(handler[h]) => ~Has(s.msgs, <<"user", h>>)
        /\ ReplyDue(handler[h]) => ~Has(s.msgs, <<"assistant", h>>)

Ordered(t) ==
    \A i, j \in 1..Len(t) : i < j =>
        /\ t[i] # t[j]
        /\ ~(t[i][1] = "assistant" /\ t[j] = <<"user", t[i][2]>>)

InOrder == \A s \in Copies : Ordered(s.msgs)

LEMMA OffsetKeeps ==
    ASSUME NEW s, NEW t, NEW k \in Nat, Offset(s, t, k)
    PROVE  /\ \A m : Has(t, m) => Has(s, m)
           /\ Ordered(s) => Ordered(t)
  <1>1. \A m : Has(t, m) => Has(s, m)
    BY DEF Offset, Has
  <1>2. ASSUME Ordered(s), NEW i \in 1..Len(t), NEW j \in 1..Len(t), i < j
        PROVE  t[i] # t[j] /\ ~(t[i][1] = "assistant" /\ t[j] = <<"user", t[i][2]>>)
    <2>1. /\ i + k \in 1..Len(s) /\ j + k \in 1..Len(s) /\ i + k < j + k
          /\ t[i] = s[i + k] /\ t[j] = s[j + k]
      BY <1>2 DEF Offset
    <2>2. QED
      BY <1>2, <2>1 DEF Ordered
  <1>3. QED
    BY <1>1, <1>2 DEF Ordered

\* A message that is in no copy goes to the end, a reply after its message.
LEMMA AppendOrdered ==
    ASSUME NEW s \in Seq(Messages), NEW op \in {"user", "assistant"}, NEW h \in Handlers,
           Ordered(s), ~Has(s, <<op, h>>), op = "user" => ~Has(s, <<"assistant", h>>)
    PROVE  /\ Ordered(Append(s, <<op, h>>))
           /\ \A n : Has(Append(s, <<op, h>>), n) => Has(s, n) \/ n = <<op, h>>
  <1> DEFINE m == <<op, h>>
             t == Append(s, m)
  <1>1. /\ Len(s) \in Nat /\ Len(t) = Len(s) + 1 /\ t[Len(s) + 1] = m
        /\ \A i \in 1..Len(s) : t[i] = s[i] /\ s[i] \in Messages
    OBVIOUS
  <1> HIDE DEF t
  <1>2. \A n : Has(t, n) => Has(s, n) \/ n = m
    <2> SUFFICES ASSUME NEW n, Has(t, n) PROVE Has(s, n) \/ n = m
      OBVIOUS
    <2>1. PICK i \in 1..Len(t) : t[i] = n
      BY DEF Has
    <2>2. i \in 1..Len(s) \/ i = Len(s) + 1
      BY <1>1
    <2>3. QED
      BY <1>1, <2>1, <2>2 DEF Has
  <1>3. ASSUME NEW i \in 1..Len(t), NEW j \in 1..Len(t), i < j
        PROVE  t[i] # t[j] /\ ~(t[i][1] = "assistant" /\ t[j] = <<"user", t[i][2]>>)
    <2>1. CASE j <= Len(s)
      <3>1. i \in 1..Len(s) /\ j \in 1..Len(s)
        BY <1>1, <1>3, <2>1
      <3>2. QED
        BY <1>1, <1>3, <3>1 DEF Ordered
    <2>2. CASE j = Len(s) + 1
      <3>1. i \in 1..Len(s) /\ t[i] = s[i] /\ t[j] = m /\ s[i] \in Messages
        BY <1>1, <1>3, <2>2
      <3>2. s[i] # m /\ (op = "user" => s[i] # <<"assistant", h>>)
        BY <3>1 DEF Has
      <3>3. s[i] = <<s[i][1], s[i][2]>>
        BY <3>1 DEF Messages
      <3>4. ASSUME s[i][1] = "assistant", m = <<"user", s[i][2]>> PROVE FALSE
        BY <3>2, <3>3, <3>4
      <3>5. QED
        BY <3>1, <3>2, <3>4
    <2>3. QED
      BY <1>1, <1>3, <2>1, <2>2
  <1>4. QED
    BY <1>2, <1>3 DEF Ordered, t

\* Nothing becomes due that was not.
LEMMA DueStep ==
    ASSUME Sound, NEW h \in Handlers, NEW r \in HandlerType,
           \/ Loaded(h, r) \/ Started(h, r) \/ Decided(h, r) \/ Finished(h, r)
           \/ \E w \in SessionType : Saved(h, r, w)
    PROVE  /\ UserDue(r) => UserDue(handler[h])
           /\ ReplyDue(r) => ReplyDue(handler[h])
  <1> DEFINE q == handler[h]
  <1>1. q \in HandlerType /\ Sane(q) /\ q.todo \in Seq(Ops)
    BY DEF Sound, Shape, AllSane, HandlerType
  <1>2. ASSUME q.todo # <<>>
        PROVE  \A op : Has(Tail(q.todo), op) => Has(q.todo, op)
    BY <1>1, <1>2, TailFit DEF Sane
  <1>3. CASE Loaded(h, r)
    <2>1. /\ r.pc \in {"ready", "loaded"} /\ q.pc = "ready" /\ r.say = q.say
          /\ \A op : Has(r.todo, op) => Has(q.todo, op)
      BY <1>2, <1>3 DEF Loaded
    <2>2. QED
      BY <2>1 DEF UserDue, ReplyDue
  <1>4. CASE \E w \in SessionType : Saved(h, r, w)
    <2>1. /\ r.pc = "ready" /\ q.pc = "loaded" /\ r.say = q.say
          /\ \A op : Has(r.todo, op) => Has(q.todo, op)
      BY <1>2, <1>4 DEF Saved
    <2>2. QED
      BY <2>1 DEF UserDue, ReplyDue
  <1>5. CASE Started(h, r)
    BY <1>5 DEF Started, UserDue, ReplyDue
  <1>6. CASE Decided(h, r)
    <2>1. r.pc = "ready" /\ q.pc = "ready" /\ q.say = "none"
      BY <1>6 DEF Decided
    <2>2. ~Has(<<"count">>, "user")
      BY DEF Has
    <2>3. ~Has(r.todo, "user")
      BY <1>6, <2>2, RestFit DEF Decided
    <2>4. QED
      BY <2>1, <2>3 DEF UserDue, ReplyDue
  <1>7. CASE Finished(h, r)
    <2>1. r.todo = <<>> /\ r.pc = "done"
      BY <1>7 DEF Finished, HandlerAt
    <2>2. \A op : ~Has(<<>>, op)
      BY DEF Has
    <2>3. QED
      BY <2>1, <2>2 DEF UserDue, ReplyDue
  <1>8. QED
    BY <1>3, <1>4, <1>5, <1>6, <1>7

\* The copy that is written back: what it holds was in the one that was read,
\* or is due no longer.
LEMMA SavedMessages ==
    ASSUME Sound, NotYet, InOrder, NEW h \in Handlers, NEW r \in HandlerType,
           NEW w \in SessionType, Saved(h, r, w)
    PROVE  /\ Ordered(w.msgs)
           /\ \A n : Has(w.msgs, n) =>
                \/ Has(handler[h].snap.msgs, n)
                \/ n = <<"user", h>> /\ ~UserDue(r)
                \/ n = <<"assistant", h>> /\ ~ReplyDue(r)
  <1> DEFINE q == handler[h]
             op == NextOp(h)
  <1>1. q \in HandlerType /\ Sane(q) /\ q.snap \in Copies /\ q.snap \in SessionType
    BY DEF Sound, Shape, AllSane, Copies, HandlerType
  <1>2. /\ q.todo \in Seq(Ops) /\ q.todo # <<>> /\ r.todo = Tail(q.todo) /\ r.pc = "ready"
        /\ r.say = q.say /\ op \in Ops \ {"context", "history"} /\ w = Changed(op, q.snap, h)
    BY <1>1 DEF Saved, HandlerType
  <1>3. Ordered(q.snap.msgs) /\ q.snap.msgs \in Seq(Messages)
    BY <1>1 DEF InOrder, SessionType, Messages
  <1>4. Has(q.todo, op) /\ ~Has(r.todo, op) /\ (op = "assistant" => ~Has(r.todo, "user"))
    <2>1. op = q.todo[1] /\ 1 \in 1..Len(q.todo)
      BY <1>2 DEF NextOp
    <2>2. Has(q.todo, op)
      BY <2>1 DEF Has
    <2>3. Fit(q.todo) /\ op = Head(q.todo)
      BY <1>1 DEF Sane, NextOp
    <2> HIDE DEF op, q
    <2>4. /\ \A o : Has(Tail(q.todo), o) => Has(q.todo, o) /\ o # Head(q.todo)
          /\ Head(q.todo) = "assistant" => ~Has(Tail(q.todo), "user")
      BY <1>2, <2>3, TailFit
    <2>5. QED
      BY <1>2, <2>2, <2>3, <2>4
  <1>5. CASE op \notin {"user", "assistant"}
    <2>1. w.msgs = q.snap.msgs \/ w.msgs = <<>>
      BY <1>1, <1>2, <1>5, ChangedEffect
    <2>2. Ordered(<<>>) /\ \A n : ~Has(<<>>, n)
      BY DEF Ordered, Has
    <2>3. QED
      BY <1>3, <2>1, <2>2
  <1>6. CASE op \in {"user", "assistant"}
    <2> DEFINE t == Append(q.snap.msgs, <<op, h>>)
    <2>1. PICK k \in Nat : Offset(t, w.msgs, k)
      BY <1>1, <1>2, <1>6, ChangedEffect
    <2>2. ~Has(q.snap.msgs, <<op, h>>) /\ (op = "user" => ~Has(q.snap.msgs, <<"assistant", h>>))
      <3>1. CASE op = "user"
        BY <1>1, <1>4, <3>1 DEF NotYet, UserDue, ReplyDue
      <3>2. CASE op = "assistant"
        BY <1>1, <1>4, <3>2 DEF NotYet, ReplyDue
      <3>3. QED
        BY <1>6, <3>1, <3>2
    <2>3. Ordered(t) /\ \A n : Has(t, n) => Has(q.snap.msgs, n) \/ n = <<op, h>>
      BY <1>3, <1>6, <2>2, AppendOrdered
    <2>4. op = "user" => ~UserDue(r)
      BY <1>2, <1>4 DEF UserDue
    <2>5. op = "assistant" => ~ReplyDue(r)
      BY <1>1, <1>2, <1>4 DEF UserDue, ReplyDue, Sane
    <2> HIDE DEF t
    <2>6. QED
      BY <1>6, <2>1, <2>3, <2>4, <2>5, OffsetKeeps
  <1>7. QED
    BY <1>5, <1>6

LEMMA HistoryStep ==
    ASSUME Sound, NotYet, InOrder, Next
    PROVE  NotYet' /\ InOrder'
  <1>0. handler \in [Handlers -> HandlerType]
    BY DEF Sound, Shape
  <1>1. \A g \in Handlers : /\ UserDue(handler'[g]) => UserDue(handler[g])
                            /\ ReplyDue(handler'[g]) => ReplyDue(handler[g])
    <2>1. CASE handler' = handler
      BY <2>1
    <2>2. ASSUME NEW h \in Handlers, NEW r \in HandlerType, Becomes(h, r),
                 /\ UserDue(r) => UserDue(handler[h])
                 /\ ReplyDue(r) => ReplyDue(handler[h])
          PROVE  \A g \in Handlers : /\ UserDue(handler'[g]) => UserDue(handler[g])
                                     /\ ReplyDue(handler'[g]) => ReplyDue(handler[g])
      BY <1>0, <2>2, BecomesOne
    <2>3. QED
      BY <2>1, <2>2, Moves, DueStep
  <1>2. /\ \A s \in Copies : Ordered(s.msgs)
        /\ \A g \in Handlers, s \in Copies :
             /\ UserDue(handler'[g]) => ~Has(s.msgs, <<"user", g>>)
             /\ ReplyDue(handler'[g]) => ~Has(s.msgs, <<"assistant", g>>)
    BY <1>1 DEF NotYet, InOrder
  <1>3. Ordered(NoSession.msgs) /\ \A n : ~Has(NoSession.msgs, n)
    BY DEF Ordered, Has, NoSession
  <1>4. CASE Copies' \subseteq Copies \cup {NoSession}
    <2>1. \A s \in Copies' : s \in Copies \/ s = NoSession
      BY <1>4
    <2>2. InOrder'
      <3>1. \A s \in Copies' : Ordered(s.msgs)
        BY <1>2, <1>3, <2>1
      <3>2. QED
        BY <3>1 DEF InOrder
    <2>3. \A g \in Handlers, s \in Copies' :
             /\ UserDue(handler'[g]) => ~Has(s.msgs, <<"user", g>>)
             /\ ReplyDue(handler'[g]) => ~Has(s.msgs, <<"assistant", g>>)
      BY <1>2, <1>3, <2>1
    <2>4. QED
      BY <2>2, <2>3 DEF NotYet
  <1>5. ASSUME NEW h \in Handlers, NEW r \in HandlerType, NEW w \in SessionType,
               Becomes(h, r), Saved(h, r, w), Copies' \subseteq Copies \cup {NoSession, w}
        PROVE  NotYet' /\ InOrder'
    <2>1. \A s \in Copies' : s \in Copies \/ s = NoSession \/ s = w
      BY <1>5
    <2>2. /\ Ordered(w.msgs)
          /\ \A n : Has(w.msgs, n) =>
                \/ Has(handler[h].snap.msgs, n)
                \/ n = <<"user", h>> /\ ~UserDue(r)
                \/ n = <<"assistant", h>> /\ ~ReplyDue(r)
      BY <1>5, SavedMessages
    <2>3. handler'[h] = r /\ handler[h].snap \in Copies
      BY <1>0, <1>5, BecomesOne DEF Copies
    <2>4. ASSUME NEW g \in Handlers
          PROVE  /\ UserDue(handler'[g]) => ~Has(w.msgs, <<"user", g>>)
                 /\ ReplyDue(handler'[g]) => ~Has(w.msgs, <<"assistant", g>>)
      BY <1>2, <2>2, <2>3
    <2>5. InOrder'
      <3>1. \A s \in Copies' : Ordered(s.msgs)
        BY <1>2, <1>3, <2>1, <2>2
      <3>2. QED
        BY <3>1 DEF InOrder
    <2>6. \A g \in Handlers, s \in Copies' :
             /\ UserDue(handler'[g]) => ~Has(s.msgs, <<"user", g>>)
             /\ ReplyDue(handler'[g]) => ~Has(s.msgs, <<"assistant", g>>)
      BY <1>2, <1>3, <2>1, <2>4
    <2>7. QED
      BY <2>5, <2>6 DEF NotYet
  <1>6. QED
    BY <1>4, <1>5, CopiesStep

\* _save (session_manager): handlers that overlap lose each other's messages,
\* but a stored history never holds a message twice, nor a reply before the
\* message it answers.
THEOREM HistoryInvariant == Spec => []HistoryInOrder
  <1> DEFINE H == NotYet /\ InOrder
  <1>1. Init => H
    <2>1. ASSUME Init PROVE \A s \in Copies : s.msgs = <<>>
      BY <2>1 DEF Init, Copies, HandlerAt, NoSession
    <2>2. Ordered(<<>>) /\ \A n : ~Has(<<>>, n)
      BY DEF Ordered, Has
    <2>3. QED
      BY <2>1, <2>2 DEF NotYet, InOrder
  <1>2. Sound /\ H /\ [Next]_vars => H'
    <2>1. ASSUME H, UNCHANGED vars PROVE H'
      BY <2>1 DEF vars, NotYet, InOrder, Copies
    <2>2. QED
      BY <2>1, HistoryStep
  <1>3. Sound /\ H => HistoryInOrder
    <2> SUFFICES ASSUME Sound, H, NEW s \in {redis, memory}
                 PROVE  \A i, j \in DOMAIN s.msgs :
                            i < j => /\ s.msgs[i] # s.msgs[j]
                                     /\ ~(s.msgs[i][1] = "assistant" /\ s.msgs[j] = <<"user", s.msgs[i][2]>>)
      BY DEF HistoryInOrder
    <2>1. s \in Copies /\ s.msgs \in Seq(Messages)
      BY DEF Copies, Sound, Shape, SessionType, Messages
    <2>2. Ordered(s.msgs) /\ DOMAIN s.msgs = 1..Len(s.msgs)
      BY <2>1 DEF InOrder
    <2>3. QED
      BY <2>2 DEF Ordered
  <1> HIDE DEF H
  <1>4. QED
    BY <1>1, <1>2, <1>3, SoundInvariant, PTL DEF Spec

---------------------------------------------------------------------------
(* The counter                                                             *)

\* A failure that has been counted, and is not yet in the log.
Over(q) == q.counted /\ ~Has(q.todo, "count")
Going == {g \in Handlers : Over(handler[g])}
Said == {i \in 1..Len(shown) : shown[i].say \in {"noinfo", "transfer_loop"}}
Earned == Cardinality(Going) + Cardinality(Said)

CountsEarned ==
    /\ \A s \in Copies : s.count <= Earned
    /\ \A h \in Handlers :
         /\ handler[h].count <= Earned + (IF Has(handler[h].todo, "count") THEN 1 ELSE 0)
         /\ handler[h].say = "transfer_loop" => Earned >= Threshold

LEMMA EarnedType ==
    ASSUME Sound, Sound'
    PROVE  /\ IsFiniteSet(Going) /\ IsFiniteSet(Said) /\ IsFiniteSet(Going') /\ IsFiniteSet(Said')
           /\ Cardinality(Going) \in Nat /\ Cardinality(Said) \in Nat
           /\ Cardinality(Going') \in Nat /\ Cardinality(Said') \in Nat
  <1>1. IsFiniteSet(Going) /\ IsFiniteSet(Going')
    BY HandlersAssumption, FS_Subset DEF Going
  <1>2. Len(shown) \in Nat /\ Len(shown') \in Nat /\ IsFiniteSet(1..Len(shown)) /\ IsFiniteSet(1..Len(shown'))
    <2>1. Len(shown) \in Nat /\ Len(shown') \in Nat
      BY DEF Sound, Shape
    <2>2. QED
      BY <2>1, FS_Interval
  <1>3. IsFiniteSet(Said) /\ IsFiniteSet(Said')
    BY <1>2, FS_Subset DEF Said
  <1>4. QED
    BY <1>1, <1>3, FS_CardinalityType

\* An entry at the end of the log.
LEMMA SaidGrows ==
    ASSUME Sound, NEW e \in Policy!Entry, shown' = Append(shown, e)
    PROVE  Said' = IF e.say \in {"noinfo", "transfer_loop"} THEN Said \cup {Len(shown) + 1} ELSE Said
  <1>1. /\ shown \in Seq(Policy!Entry) /\ Len(shown) \in Nat /\ Len(shown') = Len(shown) + 1
        /\ shown'[Len(shown) + 1] = e
        /\ \A i \in 1..Len(shown) : shown'[i] = shown[i]
    BY DEF Sound, Shape
  <1>2. \A i : i \in 1..Len(shown') <=> i \in 1..Len(shown) \/ i = Len(shown) + 1
    BY <1>1
  <1>3. QED
    BY <1>1, <1>2 DEF Said

\* What the handler of a step contributes: a failure it counted stays, or goes
\* to the log.
LEMMA OverStep ==
    ASSUME Sound, NEW h \in Handlers, NEW r \in HandlerType,
           \/ Loaded(h, r) \/ Started(h, r) \/ Decided(h, r) \/ Finished(h, r)
           \/ \E w \in SessionType : Saved(h, r, w)
    PROVE  Over(handler[h]) =>
             \/ Over(r)
             \/ \E e \in Policy!Entry : e.say \in {"noinfo", "transfer_loop"} /\ shown' = Append(shown, e)
  <1> SUFFICES ASSUME Over(handler[h]) PROVE
             \/ Over(r)
             \/ \E e \in Policy!Entry : e.say \in {"noinfo", "transfer_loop"} /\ shown' = Append(shown, e)
    OBVIOUS
  <1> DEFINE q == handler[h]
  <1>1. q \in HandlerType /\ Sane(q) /\ q.todo \in Seq(Ops) /\ q.counted /\ ~Has(q.todo, "count")
    BY DEF Sound, Shape, AllSane, HandlerType, Over
  <1>2. ASSUME q.todo # <<>>
        PROVE  \A op : Has(Tail(q.todo), op) => Has(q.todo, op)
    BY <1>1, <1>2, TailFit DEF Sane
  <1>3. CASE Loaded(h, r)
    <2>1. r.counted = q.counted /\ \A op : Has(r.todo, op) => Has(q.todo, op)
      BY <1>2, <1>3 DEF Loaded
    <2>2. QED
      BY <1>1, <2>1 DEF Over
  <1>4. CASE \E w \in SessionType : Saved(h, r, w)
    <2>1. r.counted = q.counted /\ \A op : Has(r.todo, op) => Has(q.todo, op)
      BY <1>2, <1>4 DEF Saved
    <2>2. QED
      BY <1>1, <2>1 DEF Over
  <1>5. CASE Started(h, r)
    BY <1>1, <1>5 DEF Started, Sane
  <1>6. CASE Decided(h, r)
    BY <1>1, <1>6, RestFit DEF Decided, Over
  <1>7. CASE Finished(h, r)
    <2>1. q.kind # "agent" /\ q.say \in {"noinfo", "transfer_loop"}
      BY <1>1, <1>7 DEF Finished, Sane
    <2>2. QED
      BY <1>7, <2>1 DEF Finished
  <1>8. QED
    BY <1>3, <1>4, <1>5, <1>6, <1>7

\* No step makes the number of failures smaller.
LEMMA EarnedGrows ==
    ASSUME Sound, Next
    PROVE  /\ Earned \in Nat /\ Earned' \in Nat /\ Earned <= Earned'
           /\ \A h \in Handlers, r \in HandlerType :
                Becomes(h, r) /\ Over(r) /\ ~Over(handler[h]) => Earned + 1 <= Earned'
  <1>0. handler \in [Handlers -> HandlerType] /\ Sound'
    BY SoundStep DEF Sound, Shape
  <1>1. /\ IsFiniteSet(Going) /\ IsFiniteSet(Said) /\ IsFiniteSet(Going') /\ IsFiniteSet(Said')
        /\ Cardinality(Going) \in Nat /\ Cardinality(Said) \in Nat
        /\ Cardinality(Going') \in Nat /\ Cardinality(Said') \in Nat
    BY <1>0, EarnedType
  <1>2. \/ shown' = shown /\ Said' = Said
        \/ \E e \in Policy!Entry : shown' = Append(shown, e)
    <2>1. ASSUME NEW h \in Handlers, NEW r \in HandlerType,
                 \/ Loaded(h, r) \/ Started(h, r) \/ Decided(h, r) \/ Finished(h, r)
                 \/ \E w \in SessionType : Saved(h, r, w)
          PROVE  shown' = shown \/ \E e \in Policy!Entry : shown' = Append(shown, e)
      BY <2>1 DEF Loaded, Started, Decided, Finished, Saved
    <2>2. shown' = shown => Said' = Said
      BY DEF Said
    <2>3. QED
      BY <2>1, <2>2, Moves
  <1>3. Said \subseteq Said' /\ Cardinality(Said) <= Cardinality(Said')
    <2>1. Said \subseteq Said'
      BY <1>2, SaidGrows
    <2>2. QED
      BY <1>1, <2>1, FS_Subset
  <1>4. ASSUME NEW e \in Policy!Entry, e.say \in {"noinfo", "transfer_loop"}, shown' = Append(shown, e)
        PROVE  Cardinality(Said') = Cardinality(Said) + 1
    <2>1. Len(shown) + 1 \notin Said
      <3>1. Len(shown) \in Nat
        BY DEF Sound, Shape
      <3>2. QED
        BY <3>1 DEF Said
    <2>2. Said' = Said \cup {Len(shown) + 1}
      BY <1>4, SaidGrows
    <2>3. QED
      BY <1>1, <2>1, <2>2, FS_AddElement
  <1>5. ASSUME NEW h \in Handlers, NEW r \in HandlerType, Becomes(h, r)
        PROVE  Going' = (Going \ {h}) \cup (IF Over(r) THEN {h} ELSE {})
    BY <1>0, <1>5, BecomesOne DEF Going
  <1>6. ASSUME NEW h \in Handlers, NEW r \in HandlerType, Becomes(h, r), Over(r), ~Over(handler[h])
        PROVE  Earned + 1 <= Earned'
    <2>1. h \notin Going /\ Going' = Going \cup {h}
      BY <1>5, <1>6 DEF Going
    <2>2. Cardinality(Going') = Cardinality(Going) + 1
      BY <1>1, <2>1, FS_AddElement
    <2>3. QED
      BY <1>1, <1>3, <2>2 DEF Earned
  <1>7. Earned <= Earned'
    <2>1. CASE handler' = handler
      <3>1. Going' = Going
        BY <2>1 DEF Going
      <3>2. QED
        BY <1>1, <1>3, <3>1 DEF Earned
    <2>2. ASSUME NEW h \in Handlers, NEW r \in HandlerType, Becomes(h, r),
                 Over(handler[h]) =>
                   \/ Over(r)
                   \/ \E e \in Policy!Entry : e.say \in {"noinfo", "transfer_loop"} /\ shown' = Append(shown, e)
          PROVE  Earned <= Earned'
      <3>1. CASE Over(handler[h]) => Over(r)
        <4>1. Going \subseteq Going'
          BY <1>5, <2>2, <3>1 DEF Going
        <4>2. Cardinality(Going) <= Cardinality(Going')
          BY <1>1, <4>1, FS_Subset
        <4>3. QED
          BY <1>1, <1>3, <4>2 DEF Earned
      <3>2. CASE Over(handler[h]) /\ ~Over(r)
        <4>1. h \in Going /\ Going' = Going \ {h}
          BY <1>5, <2>2, <3>2 DEF Going
        <4>2. Cardinality(Going') = Cardinality(Going) - 1
          BY <1>1, <4>1, FS_RemoveElement
        <4>3. Cardinality(Said') = Cardinality(Said) + 1
          BY <1>4, <2>2, <3>2
        <4>4. QED
          BY <1>1, <4>2, <4>3 DEF Earned
      <3>3. QED
        BY <3>1, <3>2
    <2>3. QED
      BY <2>1, <2>2, Moves, OverStep
  <1>8. QED
    BY <1>1, <1>6, <1>7 DEF Earned

LEMMA CountStep ==
    ASSUME Sound, CountsEarned, Next
    PROVE  CountsEarned'
  <1>0. handler \in [Handlers -> HandlerType] /\ Threshold \in Nat
    BY DialogueThresholdAssumption DEF Sound, Shape
  <1>1. /\ Earned \in Nat /\ Earned' \in Nat /\ Earned <= Earned'
        /\ \A h \in Handlers, r \in HandlerType :
             Becomes(h, r) /\ Over(r) /\ ~Over(handler[h]) => Earned + 1 <= Earned'
    BY EarnedGrows
  <1> DEFINE E == Earned
             F == Earned'
  <1>2. \A h \in Handlers : handler[h].count \in Nat
    BY <1>0 DEF HandlerType
  <1>3. \A s \in Copies : s.count \in Nat /\ s.count <= F
    <2>1. ASSUME NEW s \in Copies PROVE s \in SessionType
      BY <1>0 DEF Copies, Sound, Shape, HandlerType
    <2>2. ASSUME NEW s \in Copies PROVE s.count \in Nat
      BY <2>1 DEF SessionType
    <2>3. QED
      BY <1>1, <2>2 DEF CountsEarned
  \* The operation that counts is the only one left, and its failure is over after it.
  <1>4. ASSUME NEW h \in Handlers, NEW r \in HandlerType, Becomes(h, r),
               handler[h].todo # <<>>, r.todo = Tail(handler[h].todo), r.counted = handler[h].counted,
               NextOp(h) = "count"
        PROVE  Earned + 1 <= Earned'
    <2>1. handler[h].todo \in Seq(Ops) /\ Sane(handler[h])
      BY <1>0 DEF HandlerType, Sound, AllSane
    <2>2. Has(handler[h].todo, "count")
      <3>1. handler[h].todo[1] = "count" /\ 1 \in 1..Len(handler[h].todo)
        BY <1>4, <2>1 DEF NextOp
      <3>2. QED
        BY <3>1 DEF Has
    <2>3. handler[h].counted
      BY <2>1, <2>2 DEF Sane
    <2>4. ~Has(r.todo, "count")
      BY <1>4, <2>1, TailFit DEF Sane, NextOp
    <2>5. QED
      BY <1>1, <1>4, <2>2, <2>3, <2>4 DEF Over
  \* Before another operation nothing is left to count.
  <1>5. ASSUME NEW h \in Handlers, handler[h].todo # <<>>, NextOp(h) # "count"
        PROVE  ~Has(handler[h].todo, "count")
    <2>1. Fit(handler[h].todo)
      BY DEF Sound, AllSane, Sane
    <2>2. QED
      BY <1>5, <2>1 DEF Fit, NextOp
  <1>6. \A s \in Copies' : s.count <= F
    <2>1. NoSession.count <= F
      BY <1>1 DEF NoSession
    <2>2. ASSUME NEW h \in Handlers, NEW r \in HandlerType, NEW w \in SessionType,
                 Becomes(h, r), Saved(h, r, w)
          PROVE  w.count <= F
      <3>1. handler[h].snap \in Copies /\ handler[h].snap \in SessionType
        BY <1>0 DEF Copies, HandlerType
      <3>2. /\ NextOp(h) \in Ops \ {"context", "history"} /\ w = Changed(NextOp(h), handler[h].snap, h)
            /\ handler[h].todo # <<>> /\ r.todo = Tail(handler[h].todo) /\ r.counted = handler[h].counted
        BY <2>2 DEF Saved
      <3>3. w.count <= handler[h].snap.count \/ (NextOp(h) = "count" /\ w.count = handler[h].snap.count + 1)
        BY <3>1, <3>2, ChangedEffect
      <3>4. w.count \in Nat /\ handler[h].snap.count \in Nat /\ handler[h].snap.count <= E
        BY <1>3, <3>1 DEF SessionType, CountsEarned
      <3>5. NextOp(h) = "count" => E + 1 <= F
        BY <1>4, <2>2, <3>2
      <3>6. QED
        BY <1>1, <3>3, <3>4, <3>5
    <2>3. QED
      BY <1>3, <2>1, <2>2, CopiesStep
  <1>7. ASSUME NEW h \in Handlers, NEW r \in HandlerType, Becomes(h, r),
               \/ Loaded(h, r) \/ Started(h, r) \/ Decided(h, r) \/ Finished(h, r)
               \/ \E w \in SessionType : Saved(h, r, w)
        PROVE  /\ r.count <= F + (IF Has(r.todo, "count") THEN 1 ELSE 0)
               /\ r.say = "transfer_loop" => F >= Threshold
    <2> DEFINE q == handler[h]
    <2>1. /\ q.count \in Nat /\ r.count \in Nat
          /\ q.count <= E + (IF Has(q.todo, "count") THEN 1 ELSE 0)
          /\ q.say = "transfer_loop" => E >= Threshold
      BY <1>2 DEF CountsEarned, HandlerType
    <2>2. CASE Loaded(h, r)
      <3>1. PICK s \in Copies : r.count \in (IF NextOp(h) = "count" THEN {s.count + 1, 0} ELSE {q.count})
        BY <2>2 DEF Loaded, Copies
      <3>2. s.count \in Nat /\ s.count <= E
        BY <1>3 DEF CountsEarned
      <3>3. /\ q.todo # <<>> /\ r.say = q.say /\ r.counted = q.counted
            /\ r.todo = q.todo \/ r.todo = Tail(q.todo)
        BY <2>2 DEF Loaded
      <3>4. CASE NextOp(h) # "count"
        <4>1. q.count <= E /\ r.count = q.count
          BY <1>1, <1>5, <2>1, <3>1, <3>3, <3>4
        <4>2. QED
          BY <1>0, <1>1, <2>1, <3>3, <4>1
      <3>5. CASE NextOp(h) = "count"
        <4>1. r.count <= E + 1
          BY <1>1, <2>1, <3>1, <3>2, <3>5
        <4>2. CASE r.todo = Tail(q.todo)
          <5>1. E + 1 <= F
            BY <1>4, <1>7, <3>3, <3>5, <4>2
          <5>2. QED
            BY <1>0, <1>1, <2>1, <3>3, <4>1, <5>1
        <4>3. CASE r.todo = q.todo
          <5>1. Has(r.todo, "count")
            <6>1. q.todo \in Seq(Ops)
              BY <1>0 DEF HandlerType
            <6>2. q.todo[1] = "count" /\ 1 \in 1..Len(q.todo)
              BY <3>3, <3>5, <6>1 DEF NextOp
            <6>3. QED
              BY <4>3, <6>2 DEF Has
          <5>2. QED
            BY <1>0, <1>1, <2>1, <3>3, <4>1, <5>1
        <4>4. QED
          BY <3>3, <4>2, <4>3
      <3>6. QED
        BY <3>4, <3>5
    <2>3. CASE \E w \in SessionType : Saved(h, r, w)
      <3>1. /\ q.todo # <<>> /\ r.todo = Tail(q.todo) /\ r.say = q.say /\ r.counted = q.counted
            /\ r.count = q.count
        BY <2>3 DEF Saved
      <3>2. r.count <= F
        <4>1. CASE NextOp(h) = "count"
          <5>1. E + 1 <= F
            BY <1>4, <1>7, <3>1, <4>1
          <5>2. QED
            BY <1>1, <2>1, <3>1, <5>1
        <4>2. CASE NextOp(h) # "count"
          BY <1>1, <1>5, <2>1, <3>1, <4>2
        <4>3. QED
          BY <4>1, <4>2
      <3>3. QED
        BY <1>0, <1>1, <2>1, <3>1, <3>2
    <2>0. ASSUME r.count = 0, r.say # "transfer_loop"
          PROVE  /\ r.count <= F + (IF Has(r.todo, "count") THEN 1 ELSE 0)
                 /\ r.say = "transfer_loop" => F >= Threshold
      <3>1. F \in Nat
        BY <1>1
      <3> HIDE DEF F
      <3>2. CASE Has(r.todo, "count")
        BY <2>0, <3>1, <3>2
      <3>3. CASE ~Has(r.todo, "count")
        BY <2>0, <3>1, <3>3
      <3>4. QED
        BY <3>2, <3>3
    <2>4. CASE Started(h, r)
      <3>1. r.count = 0 /\ r.say # "transfer_loop"
        BY <2>4, FirstOpsFit DEF Started
      <3>2. QED
        BY <2>0, <3>1
    <2>5. CASE Decided(h, r)
      <3>1. q.todo = <<>> /\ r.count = q.count /\ (r.say = "transfer_loop" => r.count >= Threshold)
        BY <2>5 DEF Decided
      <3>2. ~Has(<<>>, "count")
        BY DEF Has
      <3>3. r.count <= E
        BY <1>1, <2>1, <3>1, <3>2
      <3>4. QED
        BY <1>0, <1>1, <2>1, <3>1, <3>3
    <2>6. CASE Finished(h, r)
      <3>1. r.count = 0 /\ r.say = "none"
        BY <2>6 DEF Finished, HandlerAt
      <3>2. QED
        BY <2>0, <3>1
    <2>7. QED
      BY <1>7, <2>2, <2>3, <2>4, <2>5, <2>6
  <1>8. ASSUME NEW g \in Handlers
        PROVE  /\ handler[g].count <= F + (IF Has(handler[g].todo, "count") THEN 1 ELSE 0)
               /\ handler[g].say = "transfer_loop" => F >= Threshold
    BY <1>0, <1>1, <1>2 DEF CountsEarned
  <1>9. \A g \in Handlers :
           /\ handler'[g].count <= F + (IF Has(handler'[g].todo, "count") THEN 1 ELSE 0)
           /\ handler'[g].say = "transfer_loop" => F >= Threshold
    <2>1. CASE handler' = handler
      BY <1>8, <2>1
    <2>2. ASSUME NEW h \in Handlers, NEW r \in HandlerType, Becomes(h, r),
                 \/ Loaded(h, r) \/ Started(h, r) \/ Decided(h, r) \/ Finished(h, r)
                 \/ \E w \in SessionType : Saved(h, r, w)
          PROVE  \A g \in Handlers :
                   /\ handler'[g].count <= F + (IF Has(handler'[g].todo, "count") THEN 1 ELSE 0)
                   /\ handler'[g].say = "transfer_loop" => F >= Threshold
      <3>1. \A g \in Handlers : handler'[g] = IF g = h THEN r ELSE handler[g]
        BY <1>0, <2>2, BecomesOne
      <3>2. QED
        BY <1>7, <1>8, <2>2, <3>1
    <2>3. QED
      BY <2>1, <2>2, Moves
  <1>10. QED
    BY <1>6, <1>9 DEF CountsEarned

\* _handle_message (RAG_LOOP_THRESHOLD): whatever the overlaps, the updates they
\* lose and the failures of Redis, a customer is transferred for repeated
\* failures only after Threshold messages that really failed.
THEOREM EarnedInvariant == Spec => []EarnedTransfer
  <1>1. Init => CountsEarned
    <2> SUFFICES ASSUME Init PROVE CountsEarned
      OBVIOUS
    <2>1. \A h \in Handlers : /\ handler[h].count = 0 /\ handler[h].say = "none"
                              /\ handler[h].counted = FALSE /\ handler[h].todo = <<>>
      BY DEF Init, HandlerAt
    <2>2. \A s \in Copies : s.count = 0
      BY DEF Init, Copies, HandlerAt, NoSession
    <2>3. Going = {} /\ Said = {}
      BY <2>1 DEF Going, Over, Said, Init
    <2>4. Earned = 0
      BY <2>3, FS_EmptySet DEF Earned
    <2>5. QED
      BY <2>1, <2>2, <2>4 DEF CountsEarned
  <1>2. Sound /\ CountsEarned /\ [Next]_vars => CountsEarned'
    <2>1. ASSUME CountsEarned, UNCHANGED vars PROVE CountsEarned'
      BY <2>1 DEF vars, CountsEarned, Copies, Earned, Going, Said
    <2>2. QED
      BY <2>1, CountStep
  <1>3. Sound /\ CountsEarned => EarnedTransfer
    <2> SUFFICES ASSUME Sound, CountsEarned, NEW h \in Handlers, handler[h].say = "transfer_loop"
                 PROVE  Cardinality({g \in Handlers : handler[g].counted})
                        + Cardinality({i \in DOMAIN shown : shown[i].say \in {"noinfo", "transfer_loop"}})
                        >= Threshold
      BY DEF EarnedTransfer
    <2> DEFINE C == {g \in Handlers : handler[g].counted}
               D == {i \in DOMAIN shown : shown[i].say \in {"noinfo", "transfer_loop"}}
    <2>1. Earned >= Threshold /\ Threshold \in Nat
      BY DialogueThresholdAssumption DEF CountsEarned
    <2>2. DOMAIN shown = 1..Len(shown) /\ Len(shown) \in Nat
      BY DEF Sound, Shape
    <2>3. D = Said /\ IsFiniteSet(Said)
      <3>1. D = Said
        BY <2>2 DEF Said
      <3>2. IsFiniteSet(1..Len(shown)) /\ Said \in SUBSET (1..Len(shown))
        BY <2>2, FS_Interval DEF Said
      <3>3. QED
        BY <3>1, <3>2, FS_Subset
    <2>4. IsFiniteSet(C) /\ Going \subseteq C
      BY HandlersAssumption, FS_Subset DEF Going, Over
    <2>5. IsFiniteSet(Going) /\ Cardinality(Going) <= Cardinality(C)
      BY <2>4, FS_Subset
    <2>6. Cardinality(C) \in Nat /\ Cardinality(Going) \in Nat /\ Cardinality(Said) \in Nat
      BY <2>3, <2>4, <2>5, FS_CardinalityType
    <2> HIDE DEF C, D
    <2>7. Cardinality(C) + Cardinality(D) >= Threshold
      BY <2>1, <2>3, <2>5, <2>6 DEF Earned
    <2>8. QED
      BY <2>7 DEF C, D
  <1>4. QED
    BY <1>1, <1>2, <1>3, SoundInvariant, PTL DEF Spec

---------------------------------------------------------------------------
(* One message at a time                                                   *)

Store == IF fallback THEN memory ELSE redis

\* The last message of the session, if there is one, is the handler's.
EndsWith(s, h) == s.alive => s.msgs # <<>> /\ s.msgs[Len(s.msgs)] = <<"user", h>>

\* What is left before the history is read, once the message is stored, and
\* before it is.
Stored == {<<"history", "context", "reset">>, <<"clear", "reset", "history">>,
           <<"reset", "history">>, <<"clear", "history">>, <<"history">>}
Coming == {<<"create", "user", "history", "context", "reset">>,
           <<"create", "user", "clear", "reset", "history">>,
           <<"create", "user", "clear", "history">>,
           <<"user", "history", "context", "reset">>,
           <<"user", "clear", "reset", "history">>,
           <<"user", "clear", "history">>}
Routed(t) == t \in Stored \cup Coming \/ ~Has(t, "history")

\* One handler runs; between the addition of its message and its look at the
\* history, nobody else writes the session, and Redis can only fail into an
\* empty memory.
Turn ==
    /\ ~fallback => memory = NoSession
    /\ \A g, h \in Handlers : Running(g) /\ Running(h) => g = h
    /\ \A h \in Handlers :
         /\ Routed(handler[h].todo) /\ handler[h].own
         /\ Running(h) /\ handler[h].todo \in Stored => EndsWith(Store, h)
         /\ handler[h].pc = "loaded" => handler[h].snap = Store

\* The message is not stored before its turn in the list.
LEMMA RoutesDiffer ==
    ASSUME NEW t \in Stored
    PROVE  Has(t, "history") /\ t[1] \in {"history", "clear", "reset"}
  <1>1. CASE t = <<"history", "context", "reset">>
    BY <1>1 DEF Has
  <1>2. CASE t = <<"clear", "reset", "history">>
    BY <1>2 DEF Has
  <1>3. CASE t = <<"reset", "history">>
    BY <1>3 DEF Has
  <1>4. CASE t = <<"clear", "history">>
    BY <1>4 DEF Has
  <1>5. CASE t = <<"history">>
    BY <1>5 DEF Has
  <1>6. QED
    BY <1>1, <1>2, <1>3, <1>4, <1>5 DEF Stored

\* An operation that is over.
LEMMA TailRouted ==
    ASSUME NEW t \in Seq(Ops), t # <<>>, Fit(t), Routed(t)
    PROVE  /\ Routed(Tail(t))
           /\ Tail(t) \in Stored => (t \in Stored /\ Head(t) \in {"clear", "reset"}) \/ Head(t) = "user"
           /\ Head(t) = "history" => t \in Stored
  <1>1. CASE t \in Stored \cup Coming
    <2>1. CASE t = <<"history", "context", "reset">>
      BY <2>1 DEF Routed, Stored, Has
    <2>2. CASE t = <<"clear", "reset", "history">>
      BY <2>2 DEF Routed, Stored, Has
    <2>3. CASE t = <<"reset", "history">>
      BY <2>3 DEF Routed, Stored, Has
    <2>4. CASE t = <<"clear", "history">>
      BY <2>4 DEF Routed, Stored, Has
    <2>5. CASE t = <<"history">>
      BY <2>5 DEF Routed, Stored, Has
    <2>6. CASE t = <<"create", "user", "history", "context", "reset">>
      <3>1. Tail(t) = <<"user", "history", "context", "reset">> /\ Head(t) = "create"
        BY <2>6
      <3>2. Tail(t) \in Coming
        BY <3>1 DEF Coming
      <3>3. Tail(t) \notin Stored
        <4>1. PICK u : u = Tail(t) /\ u = <<"user", "history", "context", "reset">>
          BY <3>1
        <4>2. u[1] = "user"
          BY <4>1
        <4>3. u \notin Stored
          BY <4>2, RoutesDiffer
        <4>4. QED
          BY <4>1, <4>3
      <3>4. QED
        BY <3>1, <3>2, <3>3 DEF Routed
    <2>7. CASE t = <<"create", "user", "clear", "reset", "history">>
      <3>1. Tail(t) = <<"user", "clear", "reset", "history">> /\ Head(t) = "create"
        BY <2>7
      <3>2. Tail(t) \in Coming
        BY <3>1 DEF Coming
      <3>3. Tail(t) \notin Stored
        <4>1. PICK u : u = Tail(t) /\ u = <<"user", "clear", "reset", "history">>
          BY <3>1
        <4>2. u[1] = "user"
          BY <4>1
        <4>3. u \notin Stored
          BY <4>2, RoutesDiffer
        <4>4. QED
          BY <4>1, <4>3
      <3>4. QED
        BY <3>1, <3>2, <3>3 DEF Routed
    <2>8. CASE t = <<"create", "user", "clear", "history">>
      <3>1. Tail(t) = <<"user", "clear", "history">> /\ Head(t) = "create"
        BY <2>8
      <3>2. Tail(t) \in Coming
        BY <3>1 DEF Coming
      <3>3. Tail(t) \notin Stored
        <4>1. PICK u : u = Tail(t) /\ u = <<"user", "clear", "history">>
          BY <3>1
        <4>2. u[1] = "user"
          BY <4>1
        <4>3. u \notin Stored
          BY <4>2, RoutesDiffer
        <4>4. QED
          BY <4>1, <4>3
      <3>4. QED
        BY <3>1, <3>2, <3>3 DEF Routed
    <2>9. CASE t = <<"user", "history", "context", "reset">>
      BY <2>9 DEF Routed, Stored, Has
    <2>10. CASE t = <<"user", "clear", "reset", "history">>
      BY <2>10 DEF Routed, Stored, Has
    <2>11. CASE t = <<"user", "clear", "history">>
      BY <2>11 DEF Routed, Stored, Has
    <2>12. QED
      BY <1>1, <2>1, <2>2, <2>3, <2>4, <2>5, <2>6, <2>7, <2>8, <2>9, <2>10, <2>11 DEF Stored, Coming
  <1>2. CASE ~Has(t, "history")
    <2>1. ~Has(Tail(t), "history")
      BY <1>2, TailFit
    <2>2. \A u \in Stored : Has(u, "history")
      BY RoutesDiffer
    <2>3. Head(t) # "history"
      <3>1. 1 \in 1..Len(t) /\ Head(t) = t[1]
        OBVIOUS
      <3>2. QED
        BY <1>2, <3>1 DEF Has
    <2>4. QED
      BY <2>1, <2>2, <2>3 DEF Routed
  <1>3. QED
    BY <1>1, <1>2 DEF Routed

LEMMA FirstRouted ==
    ASSUME NEW kind \in AllKinds
    PROVE  Routed(FirstOps(kind)) /\ FirstOps(kind) \notin Stored
  <1>1. CASE kind \in {"number", "thanks", "question"}
    <2>1. FirstOps(kind) \in Coming
      BY <1>1 DEF FirstOps, Coming
    <2>2. FirstOps(kind)[1] = "create"
      BY <1>1 DEF FirstOps
    <2>3. QED
      BY <2>1, <2>2, RoutesDiffer DEF Routed
  <1>2. CASE kind = "escalation"
    BY <1>2 DEF FirstOps, Routed, Has, Stored
  <1>3. CASE kind = "order"
    BY <1>3 DEF FirstOps, Routed, Has, Stored
  <1>4. CASE kind = "smalltalk"
    BY <1>4 DEF FirstOps, Routed, Has, Stored
  <1>5. CASE kind = "silent"
    BY <1>5 DEF FirstOps, Routed, Has, Stored
  <1>6. CASE kind = "agent"
    BY <1>6 DEF FirstOps, Routed, Has, Stored
  <1>7. QED
    BY <1>1, <1>2, <1>3, <1>4, <1>5, <1>6 DEF AllKinds

LEMMA RestRouted ==
    ASSUME NEW t, t \in Rest \/ t = <<"count">>
    PROVE  Routed(t) /\ t \notin Stored
  <1>1. CASE t = <<>>
    BY <1>1 DEF Routed, Has, Stored
  <1>2. CASE t = <<"assistant">> \/ t = <<"count">>
    BY <1>2 DEF Routed, Has, Stored
  <1>3. ASSUME NEW op \in {"clear", "prompt", "reset"}, t = <<op, "assistant">>
        PROVE  Routed(t) /\ t \notin Stored
    BY <1>3 DEF Routed, Has, Stored
  <1>4. QED
    BY <1>1, <1>2, <1>3 DEF Rest

\* The message that was just added is the last one, trimmed or not.
LEMMA LastIsKept ==
    ASSUME NEW S, NEW s \in Seq(S), NEW x \in S
    PROVE  LastOnes(Append(s, x)) # <<>> /\ LastOnes(Append(s, x))[Len(LastOnes(Append(s, x)))] = x
  <1> DEFINE a == Append(s, x)
             k == Len(a) - MaxHistory
  <1>1. a \in Seq(S) /\ Len(a) = Len(s) + 1 /\ a[Len(a)] = x /\ Len(a) \in Nat \ {0}
    OBVIOUS
  <1> HIDE DEF a
  <1>2. CASE Len(a) > MaxHistory
    <2>1. k + 1 \in 1..Len(a) /\ Len(a) - (k + 1) + 1 = MaxHistory /\ MaxHistory \in Nat \ {0}
      BY <1>1, <1>2, MaxHistoryAssumption
    <2>2. PICK t : t = SubSeq(a, k + 1, Len(a))
      OBVIOUS
    <2>3. Len(t) = MaxHistory /\ t[MaxHistory] = a[k + MaxHistory] /\ k + MaxHistory = Len(a)
      BY <1>1, <2>1, <2>2
    <2>4. t # <<>> /\ t[Len(t)] = x
      BY <1>1, <2>1, <2>3
    <2>5. QED
      BY <1>2, <2>2, <2>4 DEF LastOnes, a
  <1>3. CASE ~(Len(a) > MaxHistory)
    <2>1. LastOnes(a) = a
      BY <1>3 DEF LastOnes
    <2>2. QED
      BY <1>1, <2>1 DEF a
  <1>4. QED
    BY <1>2, <1>3

LEMMA ChangedEnds ==
    ASSUME NEW s \in SessionType, NEW h \in Handlers, NEW op,
           op = "user" \/ (op \in {"clear", "reset"} /\ EndsWith(s, h))
    PROVE  EndsWith(Changed(op, s, h), h)
  <1>1. CASE op = "user"
    <2>1. s.msgs \in Seq(Messages) /\ <<op, h>> \in Messages
      BY <1>1 DEF SessionType, Messages
    <2>2. PICK m : m = LastOnes(Append(s.msgs, <<op, h>>)) /\ m # <<>> /\ m[Len(m)] = <<op, h>>
      BY <2>1, LastIsKept
    <2>3. Changed(op, s, h) = [s EXCEPT !.msgs = m]
      BY <1>1, <2>2 DEF Changed
    <2>4. Changed(op, s, h).msgs = m
      BY <2>3 DEF SessionType
    <2>5. QED
      BY <1>1, <2>2, <2>4 DEF EndsWith
  <1>2. CASE op = "clear" /\ EndsWith(s, h)
    BY <1>2 DEF EndsWith, Changed, SessionType
  <1>3. CASE op = "reset" /\ EndsWith(s, h)
    BY <1>3 DEF EndsWith, Changed, SessionType
  <1>4. QED
    BY <1>1, <1>2, <1>3


\* Reading keeps the verdict on the history in the record.
LEMMA RecordOwn ==
    ASSUME NEW q \in HandlerType, NEW d \in BOOLEAN, NEW s \in SessionType, NEW t \in Seq(Ops)
    PROVE  /\ LET r == [[q EXCEPT !.degraded = d] EXCEPT !.pc = "loaded", !.snap = s]
              IN  r.own = q.own /\ r.snap = s /\ r.todo = q.todo
           /\ LET r == [[q EXCEPT !.degraded = d] EXCEPT !.todo = t]
              IN  r.own = q.own /\ r.todo = t /\ r.pc = q.pc
           /\ [q EXCEPT !.degraded = d].todo = q.todo
  BY DEF HandlerType

LEMMA NotedOwn ==
    ASSUME Shape, NEW h \in Handlers, NEW op, NEW s \in SessionType, handler[h].own,
           op = "history" => EndsWith(s, h)
    PROVE  Noted(h, op, s).own
  <1>1. handler[h] \in HandlerType
    BY DEF Shape
  <1>2. CASE op = "history" /\ s.alive
    <2>1. s.msgs # <<>> /\ s.msgs[Len(s.msgs)] = <<"user", h>>
      BY <1>2 DEF EndsWith
    <2>2. Noted(h, op, s).own = (s.msgs # <<>> /\ s.msgs[Len(s.msgs)] = <<"user", h>>)
      BY <1>1, <1>2 DEF Noted, HandlerType
    <2>3. QED
      BY <2>1, <2>2
  <1>3. CASE ~(op = "history" /\ s.alive)
    <2>1. Noted(h, op, s).own = handler[h].own
      BY <1>1, <1>3 DEF Noted, HandlerType
    <2>2. QED
      BY <2>1
  <1>4. QED
    BY <1>2, <1>3

\* What keeps Turn: a step of the handler h, which becomes r.
LEMMA TurnKept ==
    ASSUME Turn, Shape, NEW h \in Handlers, NEW r \in HandlerType, Becomes(h, r),
           \A g \in Handlers : Running(g) => g = h,
           ~fallback' => memory' = NoSession,
           Routed(r.todo), r.own,
           r.pc \in {"ready", "loaded"} /\ r.todo \in Stored => EndsWith(Store', h),
           r.pc = "loaded" => r.snap = Store'
    PROVE  Turn'
  <1>1. handler \in [Handlers -> HandlerType]
    BY DEF Shape
  <1>2. \A g \in Handlers : handler'[g] = IF g = h THEN r ELSE handler[g]
    BY <1>1, BecomesOne
  <1>3. ASSUME NEW g \in Handlers, g # h
        PROVE  /\ handler'[g] = handler[g] /\ ~Running(g) /\ ~Running(g)'
               /\ handler[g].pc # "loaded"
    BY <1>2, <1>3 DEF Running
  <1>4. \A f, g \in Handlers : Running(f)' /\ Running(g)' => f = g
    BY <1>3
  <1>5. ASSUME NEW g \in Handlers
        PROVE  /\ Routed(handler'[g].todo) /\ handler'[g].own
               /\ Running(g)' /\ handler'[g].todo \in Stored => EndsWith(Store', g)
               /\ handler'[g].pc = "loaded" => handler'[g].snap = Store'
    <2>1. CASE g = h
      BY <1>2, <2>1 DEF Running
    <2>2. CASE g # h
      BY <1>3, <2>2 DEF Turn
    <2>3. QED
      BY <2>1, <2>2
  <1>6. QED
    BY <1>4, <1>5 DEF Turn

LEMMA TurnLoad ==
    ASSUME Sound, Turn, NEW h \in Handlers, Load(h)
    PROVE  Turn'
  <1>0. Shape /\ AllSane
    BY DEF Sound
  <1> DEFINE op == NextOp(h)
             t == handler[h].todo
  <1>1. /\ handler[h] \in HandlerType /\ handler[h].pc = "ready" /\ t # <<>> /\ t \in Seq(Ops)
        /\ Fit(t) /\ Routed(t) /\ handler[h].own /\ op = Head(t) /\ op \in Ops /\ Tail(t) \in Seq(Ops)
    <2>1. handler[h] \in HandlerType /\ t \in Seq(Ops) /\ Fit(t)
      BY <1>0 DEF Shape, HandlerType, AllSane, Sane
    <2>2. t # <<>> /\ handler[h].pc = "ready" /\ Routed(t) /\ handler[h].own
      BY DEF Load, Turn
    <2>3. QED
      BY <2>1, <2>2 DEF NextOp
  <1>2. PICK r \in HandlerType : Becomes(h, r) /\ Loaded(h, r)
    BY <1>0, LoadStep
  <1>3. PICK fails \in BOOLEAN :
         LET s == IF fallback \/ fails THEN memory ELSE redis
             early == op = "create" \/ handler[h].kind = "agent"
             noted == [Noted(h, op, s) EXCEPT !.degraded = @ \/ (fails /\ ~early)]
         IN  /\ handler' = [handler EXCEPT ![h] =
                  IF Saves(op, s) THEN [noted EXCEPT !.pc = "loaded", !.snap = s]
                  ELSE [noted EXCEPT !.todo = Tail(@)]]
             /\ fallback' = (fallback \/ fails)
    BY DEF Load, MayFail, NextOp
  <1>4. PICK s : s = (IF fallback \/ fails THEN memory ELSE redis)
    OBVIOUS
  <1>5. s \in SessionType /\ s = Store' /\ (s = Store \/ s = NoSession)
    BY <1>0, <1>3, <1>4 DEF Shape, Turn, Store, Load
  <1>6. PICK d \in BOOLEAN : d = (Noted(h, op, s).degraded \/ (fails /\ ~(op = "create" \/ handler[h].kind = "agent")))
    OBVIOUS
  <1>7. PICK q \in HandlerType : q = Noted(h, op, s) /\ q.todo = t /\ q.pc = "ready"
    <2>1. /\ Noted(h, op, s) \in HandlerType
          /\ Noted(h, op, s).pc = handler[h].pc /\ Noted(h, op, s).todo = handler[h].todo
      BY <1>0, <1>1, <1>5, NotedType
    <2>2. QED
      BY <1>1, <2>1
  <1>8. r = IF Saves(op, s) THEN [[q EXCEPT !.degraded = d] EXCEPT !.pc = "loaded", !.snap = s]
            ELSE [[q EXCEPT !.degraded = d] EXCEPT !.todo = Tail(t)]
    <2>1. handler \in [Handlers -> HandlerType]
      BY <1>0 DEF Shape
    <2>2. handler'[h] = r
      BY <1>2, <2>1, BecomesOne
    <2>3. handler'[h] = IF Saves(op, s) THEN [[q EXCEPT !.degraded = d] EXCEPT !.pc = "loaded", !.snap = s]
                        ELSE [[q EXCEPT !.degraded = d] EXCEPT !.todo = Tail([q EXCEPT !.degraded = d].todo)]
      BY <1>3, <1>4, <1>6, <1>7, <2>1
    <2>4. [q EXCEPT !.degraded = d].todo = t
      BY <1>1, <1>5, <1>7, RecordOwn
    <2>5. QED
      BY <2>2, <2>3, <2>4
  <1>9. r.own
    <2>1. op = "history" => EndsWith(s, h)
      <3>1. op = "history" => EndsWith(Store, h)
        BY <1>1, TailRouted DEF Turn, Running
      <3>2. EndsWith(NoSession, h)
        BY DEF EndsWith, NoSession
      <3>3. QED
        BY <1>5, <3>1, <3>2
    <2>2. q.own
      BY <1>0, <1>1, <1>5, <1>7, <2>1, NotedOwn
    <2>3. QED
      BY <1>1, <1>5, <1>8, <2>2, RecordOwn
  <1>10. \A g \in Handlers : Running(g) => g = h
    BY <1>1 DEF Turn, Running
  <1>11. ~fallback' => memory' = NoSession
    BY <1>3 DEF Turn, Load
  <1>12. EndsWith(Store, h) => EndsWith(s, h)
    BY <1>5 DEF EndsWith, NoSession
  <1>13. CASE Saves(op, s)
    <2>1. r.snap = s /\ r.todo = t
      BY <1>1, <1>5, <1>7, <1>8, <1>13, RecordOwn
    <2>2. t \in Stored => EndsWith(s, h)
      BY <1>1, <1>12 DEF Turn, Running
    <2>3. QED
      BY <1>0, <1>1, <1>2, <1>5, <1>9, <1>10, <1>11, <2>1, <2>2, TurnKept
  <1>14. CASE ~Saves(op, s)
    <2>1. r.todo = Tail(t) /\ r.pc = "ready"
      BY <1>1, <1>5, <1>7, <1>8, <1>14, RecordOwn
    <2>2. Routed(Tail(t))
      BY <1>1, TailRouted
    <2>3. Tail(t) \in Stored => EndsWith(s, h)
      <3>1. CASE op = "user"
        BY <1>14, <3>1 DEF Saves, EndsWith
      <3>2. CASE t \in Stored
        BY <1>1, <1>12, <3>2 DEF Turn, Running
      <3>3. QED
        BY <1>1, <3>1, <3>2, TailRouted
    <2>4. QED
      BY <1>0, <1>2, <1>5, <1>9, <1>10, <1>11, <2>1, <2>2, <2>3, TurnKept
  <1>15. QED
    BY <1>13, <1>14

LEMMA TurnSave ==
    ASSUME Sound, Turn, NEW h \in Handlers, Save(h)
    PROVE  Turn'
  <1>0. Shape /\ Short /\ AllSane /\ handler \in [Handlers -> HandlerType]
    BY DEF Sound, Shape
  <1> DEFINE op == NextOp(h)
             t == handler[h].todo
             w == Changed(op, handler[h].snap, h)
  <1>1. PICK r \in HandlerType, v \in SessionType : Becomes(h, r) /\ Saved(h, r, v)
    BY <1>0, SaveStep
  <1>2. /\ t \in Seq(Ops) /\ t # <<>> /\ Fit(t) /\ Routed(t) /\ op = Head(t) /\ handler[h].pc = "loaded"
        /\ handler[h].own /\ handler[h].snap = Store /\ handler[h].snap \in SessionType
    BY <1>0, <1>1 DEF Turn, HandlerType, AllSane, Sane, Saved, NextOp
  <1>3. PICK fails \in BOOLEAN :
          /\ memory' = (IF fallback \/ fails THEN w ELSE memory)
          /\ redis' = (IF fallback \/ fails THEN redis ELSE w)
          /\ fallback' = (fallback \/ fails)
    BY DEF Save, MayFail, NextOp
  <1>4. Store' = w /\ (~fallback' => memory' = NoSession)
    BY <1>3 DEF Store, Turn
  <1>5. r.own
    <2>1. handler'[h] = r
      BY <1>0, <1>1, BecomesOne
    <2>2. handler'[h] = [handler[h] EXCEPT !.pc = "ready", !.todo = Tail(@), !.snap = NoSession]
      BY <1>0 DEF Save
    <2>3. handler[h] \in HandlerType
      BY <1>0
    <2>4. r.own = handler[h].own
      BY <2>1, <2>2, <2>3 DEF HandlerType
    <2>5. QED
      BY <1>2, <2>4
  <1>6. r.todo = Tail(t) /\ r.pc = "ready"
    BY <1>1 DEF Saved
  <1>7. Routed(Tail(t))
    BY <1>2, TailRouted
  <1>8. Tail(t) \in Stored => EndsWith(w, h)
    <2>1. CASE t \in Stored /\ op \in {"clear", "reset"}
      <3>1. EndsWith(handler[h].snap, h)
        BY <1>2, <2>1 DEF Turn, Running
      <3>2. QED
        BY <1>2, <2>1, <3>1, ChangedEnds
    <2>2. CASE op = "user"
      BY <1>2, <2>2, ChangedEnds
    <2>3. QED
      BY <1>2, <2>1, <2>2, TailRouted
  <1>9. \A g \in Handlers : Running(g) => g = h
    BY <1>2 DEF Turn, Running
  <1> HIDE DEF w
  <1>10. QED
    BY <1>0, <1>1, <1>4, <1>5, <1>6, <1>7, <1>8, <1>9, TurnKept

\* A decision reads and writes nothing of the session.
LEMMA TurnDecide ==
    ASSUME Sound, Turn, NEW h \in Handlers, TrackOrder(h) \/ AnswerQuestion(h) \/ CheckLoop(h)
    PROVE  Turn'
  <1>0. Shape /\ AllSane /\ handler \in [Handlers -> HandlerType] /\ handler[h] \in HandlerType
    BY DEF Sound, Shape
  <1>1. PICK r \in HandlerType : Becomes(h, r) /\ Decided(h, r)
    BY <1>0, DecideStep
  <1>2. UNCHANGED <<redis, memory, fallback>> /\ handler'[h].own = handler[h].own
    <2>1. ASSUME NEW ops, NEW say, Goes(h, ops, say)
          PROVE  UNCHANGED <<redis, memory, fallback>> /\ handler'[h].own = handler[h].own
      BY <1>0, <2>1 DEF Goes, HandlerType
    <2>2. CASE TrackOrder(h)
      BY <2>1, <2>2 DEF TrackOrder
    <2>3. CASE AnswerQuestion(h)
      <3>1. CASE /\ handler' = [handler EXCEPT ![h] = [@ EXCEPT !.todo = <<"count">>, !.counted = TRUE]]
                 /\ UNCHANGED <<redis, memory, fallback, shown>>
        BY <1>0, <3>1 DEF HandlerType
      <3>2. QED
        BY <2>1, <2>3, <3>1 DEF AnswerQuestion
    <2>4. CASE CheckLoop(h)
      BY <2>1, <2>4 DEF CheckLoop
    <2>5. QED
      BY <2>2, <2>3, <2>4
  <1>3. r.own
    BY <1>0, <1>1, <1>2, BecomesOne DEF Turn
  <1>4. r.pc = "ready" /\ handler[h].pc = "ready" /\ (r.todo \in Rest \/ r.todo = <<"count">>)
    BY <1>1 DEF Decided
  <1>5. Routed(r.todo) /\ r.todo \notin Stored
    BY <1>4, RestRouted
  <1>6. \A g \in Handlers : Running(g) => g = h
    BY <1>4 DEF Turn, Running
  <1>7. ~fallback' => memory' = NoSession
    BY <1>2 DEF Turn
  <1>8. QED
    BY <1>0, <1>1, <1>3, <1>4, <1>5, <1>6, <1>7, TurnKept

LEMMA TurnEdges ==
    ASSUME Sound, Turn, NEW h \in Handlers,
           Finish(h) \/ (Idle /\ \E kind \in Kinds : Start(h, kind))
    PROVE  Turn'
  <1>0. Shape /\ handler \in [Handlers -> HandlerType]
    BY DEF Sound, Shape
  <1>1. UNCHANGED <<redis, memory, fallback>> /\ (~fallback' => memory' = NoSession)
    BY DEF Turn, Finish, Start
  <1>2. \A g \in Handlers : Running(g) => g = h
    BY DEF Turn, Running, Finish, Idle
  <1>3. CASE Finish(h)
    <2>1. PICK r \in HandlerType : r = HandlerAt("done")
      BY HandlerAtType
    <2>2. r.own /\ r.pc = "done" /\ r.todo = <<>>
      BY <2>1 DEF HandlerAt
    <2>3. Becomes(h, r)
      BY <1>3, <2>1 DEF Finish, Becomes
    <2>4. Routed(r.todo)
      BY <2>2, RestRouted DEF Rest
    <2>5. QED
      BY <1>0, <1>1, <1>2, <2>2, <2>3, <2>4, TurnKept
  <1>4. ASSUME NEW kind \in Kinds, Start(h, kind)
        PROVE  Turn'
    <2>1. PICK r \in HandlerType : Becomes(h, r) /\ Started(h, r)
      BY <1>0, <1>4, StartStep
    <2>2. r.own
      <3>1. handler'[h] = [HandlerAt("ready") EXCEPT !.kind = kind, !.todo = FirstOps(kind), !.say = FirstSay(kind)]
        BY <1>0, <1>4 DEF Start
      <3>2. handler'[h].own = HandlerAt("ready").own
        BY <3>1, HandlerAtType DEF HandlerType
      <3>3. QED
        BY <1>0, <2>1, <3>2, BecomesOne DEF HandlerAt
    <2>3. r.pc = "ready" /\ Routed(r.todo) /\ r.todo \notin Stored
      BY <2>1, FirstRouted DEF Started
    <2>4. QED
      BY <1>0, <1>1, <1>2, <2>1, <2>2, <2>3, TurnKept
  <1>5. QED
    BY <1>3, <1>4

LEMMA TurnStep ==
    ASSUME ~Concurrent, Sound, Turn, [Next]_vars
    PROVE  Turn'
  <1>1. CASE UNCHANGED vars
    BY <1>1 DEF vars, Turn, Running, Store
  <1>2. ASSUME NEW h \in Handlers, HandlerStep(h)
        PROVE  Turn'
    BY <1>2, TurnLoad, TurnSave, TurnDecide, TurnEdges DEF HandlerStep
  <1>3. ASSUME NEW h \in Handlers, NEW kind \in Kinds, Start(h, kind)
        PROVE  Turn'
    <2>1. Idle
      BY <1>3 DEF Start
    <2>2. QED
      BY <1>3, <2>1, TurnEdges
  <1>4. CASE Expire
    <2>1. \A h \in Handlers : ~Running(h) /\ handler[h].pc # "loaded"
      BY <1>4 DEF Expire, Idle, Running
    <2>2. UNCHANGED <<memory, fallback, handler>>
      BY <1>4 DEF Expire
    <2>3. QED
      BY <2>1, <2>2 DEF Turn, Running
  <1>5. QED
    BY <1>1, <1>2, <1>3, <1>4 DEF Next

LEMMA TurnInit == Init => Turn
  <1> SUFFICES ASSUME Init PROVE Turn
    OBVIOUS
  <1>1. \A h \in Handlers : handler[h] = HandlerAt("idle")
    BY DEF Init
  <1>2. HandlerAt("idle").pc = "idle" /\ HandlerAt("idle").own /\ HandlerAt("idle").todo = <<>>
    BY DEF HandlerAt
  <1>3. Routed(<<>>)
    BY RestRouted DEF Rest
  <1>4. QED
    BY <1>1, <1>2, <1>3 DEF Turn, Running, Init

\* _handle_message (dialogue_manager.py:594), one message of the session at a
\* time: the last message of the history is the one being answered, whatever
\* fails and however the history is trimmed.
THEOREM OwnInvariant ==
    ASSUME ~Concurrent
    PROVE  Spec => []OwnMessageLast
  <1>1. Turn => OwnMessageLast
    BY DEF Turn, OwnMessageLast
  <1>2. Sound /\ Turn /\ [Next]_vars => Turn'
    BY TurnStep
  <1>3. QED
    BY <1>1, <1>2, TurnInit, SoundInvariant, PTL DEF Spec

---------------------------------------------------------------------------
(* The policy.  The counter and the flag that are stored amount to what    *)
(* was said (Agrees) only between two messages.  While one is handled they *)
(* will, once the operations to come are done (Total, Flag) and the answer *)
(* is given (Promised); before the answer is known, the state of the       *)
(* look-up (Searching) and of the count (Asking) leave every answer its    *)
(* way to get there.  A store that fails ends every promise: the session   *)
(* is empty, and the entry says so (degraded).                             *)

\* What the operations to come make of the counter and of the flag.
Total(t, n) == IF Has(t, "reset") THEN 0 ELSE IF Has(t, "count") THEN n + 1 ELSE n
Flag(t, p) == IF Has(t, "clear") THEN FALSE ELSE IF Has(t, "prompt") THEN TRUE ELSE p

\* What one more entry makes of the two figures of the policy.
Before(n, e) == IF e.thanks THEN 0 ELSE n
FailuresAfter(n, e) ==
    IF e.degraded THEN 0
    ELSE IF e.say = "noinfo" THEN Before(n, e) + 1
    ELSE IF e.say \in {"error", "silence"} THEN Before(n, e) ELSE 0
AskedAfter(a, e) == ~e.degraded /\ (e.say = "ask" \/ (e.say \in {"silence", "transfer"} /\ a))

EntryOf(r) == [say |-> r.say, thanks |-> r.kind = "thanks", degraded |-> r.degraded]

\* The stored session s amounts to the log.
Agrees(s, log) == s.count = Policy!Failures(log) /\ (s.prompted <=> Policy!Asked(log))

\* It will, once the handler r has done what it still has to do and said what
\* it is about to say, which the policy allows.
Promised(r, s, log) ==
    /\ Policy!Allowed(log, EntryOf(r))
    /\ Total(r.todo, s.count) = FailuresAfter(Policy!Failures(log), EntryOf(r))
    /\ Flag(r.todo, s.prompted) <=> AskedAfter(Policy!Asked(log), EntryOf(r))

\* An order or a number, before the look-up.
Searching(r, s, log) ==
    /\ Total(r.todo, s.count) = 0 /\ (s.prompted <=> Policy!Asked(log))
    /\ ~Has(r.todo, "clear") /\ ~Has(r.todo, "prompt")
    /\ Has(r.todo, "context") \/ (r.prompted <=> Policy!Asked(log))

\* A question, before its answer: the failure is counted, or may be.
Asking(r, s, log) ==
    /\ ~Flag(r.todo, s.prompted) /\ ~Has(r.todo, "prompt")
    /\ Total(r.todo, s.count) =
         (IF r.kind = "thanks" THEN 0 ELSE Policy!Failures(log)) + (IF r.counted THEN 1 ELSE 0)
    /\ r.counted /\ ~(r.pc = "ready" /\ Has(r.todo, "count")) => r.count = Total(r.todo, s.count)

\* What a handler has yet to do.
Plan(r) ==
    /\ ~(Has(r.todo, "clear") /\ Has(r.todo, "prompt"))
    /\ Has(r.todo, "create") =>
         r.todo = FirstOps(r.kind) /\ r.say = FirstSay(r.kind) /\ ~r.counted /\ ~r.degraded
    /\ r.kind = "agent" => r.todo \in {<<"assistant">>, <<>>} /\ r.say = "agent" /\ ~r.degraded
    /\ r.say = "agent" => r.kind = "agent"
    /\ r.say = "none" => r.kind \in {"order", "number", "question", "thanks"}
    /\ r.counted => r.kind \in {"question", "thanks"}

\* The record r of the handler at work, the stored session and the log.
Follows(r, s, log) ==
    /\ Plan(r)
    /\ r.pc = "loaded" => Saves(Head(r.todo), s)
    /\ IF r.degraded THEN ~s.alive
       ELSE /\ r.kind = "agent" \/ Has(r.todo, "create") \/ s.alive
            /\ r.say = "agent" => Agrees(s, log)
            /\ r.say \notin {"agent", "none"} => Promised(r, s, log)
            /\ r.say = "none" /\ r.kind \in {"order", "number"} => Searching(r, s, log)
            /\ r.say = "none" /\ r.kind \in {"question", "thanks"} => Asking(r, s, log)

\* A session that is not there holds no figures.
Blank(s) == ~s.alive => s.count = 0 /\ ~s.prompted

Kept ==
    /\ Blank(Store)
    /\ Policy!Failures(shown) < Threshold
    /\ Idle => Agrees(Store, shown)
    /\ \A h \in Handlers : Running(h) => Follows(handler[h], Store, shown)

---------------------------------------------------------------------------
(* The figures of the policy                                               *)

LEMMA OneMore ==
    ASSUME NEW S, NEW s \in Seq(S), NEW e \in S
    PROVE  /\ Append(s, e) \in Seq(S) /\ Len(s) \in Nat /\ Len(Append(s, e)) = Len(s) + 1
           /\ Append(s, e)[Len(s) + 1] = e /\ \A i \in 1..Len(s) : Append(s, e)[i] = s[i]
           /\ DOMAIN Append(s, e) = 1..(Len(s) + 1) /\ DOMAIN s = 1..Len(s)
  <1>1. Append(s, e) \in Seq(S) /\ Len(s) \in Nat /\ Len(Append(s, e)) = Len(s) + 1
    OBVIOUS
  <1>2. Append(s, e)[Len(s) + 1] = e /\ \A i \in 1..Len(s) : Append(s, e)[i] = s[i]
    OBVIOUS
  <1>3. QED
    BY <1>1, <1>2

\* The failures that count at the end of a log.
Counting(log) ==
    {i \in DOMAIN log :
        /\ log[i].say = "noinfo" /\ ~log[i].degraded
        /\ \A j \in (i + 1)..Len(log) :
             ~log[j].degraded /\ ~log[j].thanks /\ log[j].say \in {"noinfo", "error", "silence"}}

LEMMA CountingFinite ==
    ASSUME NEW log \in Seq(Policy!Entry)
    PROVE  /\ Counting(log) \subseteq 1..Len(log) /\ IsFiniteSet(Counting(log))
           /\ Policy!Failures(log) = Cardinality(Counting(log)) /\ Policy!Failures(log) \in Nat
  <1>1. Counting(log) \subseteq 1..Len(log) /\ Len(log) \in Nat
    BY DEF Counting
  <1>2. IsFiniteSet(Counting(log)) /\ Cardinality(Counting(log)) \in Nat
    <2>1. IsFiniteSet(1..Len(log))
      BY <1>1, FS_Interval
    <2>2. IsFiniteSet(Counting(log))
      BY <1>1, <2>1, FS_Subset
    <2>3. QED
      BY <2>2, FS_CardinalityType
  <1>3. Policy!Failures(log) = Cardinality(Counting(log))
    BY DEF Policy!Failures, Counting, Policy!Cardinality, Cardinality
  <1>4. QED
    BY <1>1, <1>2, <1>3

\* One more entry ends the failures in a row, keeps them, or is the next one.
LEMMA FailuresGrow ==
    ASSUME NEW log \in Seq(Policy!Entry), NEW e \in Policy!Entry
    PROVE  Policy!Failures(Append(log, e)) = FailuresAfter(Policy!Failures(log), e)
  <1> DEFINE n == Len(log)
             C == Counting(log)
             lasts == ~e.degraded /\ ~e.thanks /\ e.say \in {"noinfo", "error", "silence"}
             counts == e.say = "noinfo" /\ ~e.degraded
  <1>1. PICK new \in Seq(Policy!Entry) :
          /\ new = Append(log, e) /\ Len(new) = n + 1 /\ n \in Nat /\ new[n + 1] = e
          /\ DOMAIN new = 1..(n + 1) /\ DOMAIN log = 1..n
          /\ \A i \in 1..n : new[i] = log[i]
    <2>1. /\ Append(log, e) \in Seq(Policy!Entry) /\ n \in Nat /\ Len(Append(log, e)) = n + 1
          /\ Append(log, e)[n + 1] = e /\ \A i \in 1..n : Append(log, e)[i] = log[i]
          /\ DOMAIN Append(log, e) = 1..(n + 1) /\ DOMAIN log = 1..n
      BY OneMore
    <2>2. QED
      BY <2>1
  <1>2. ASSUME NEW i \in 1..n
        PROVE  i \in Counting(new) <=> i \in C /\ lasts
    <2>1. (i + 1)..(n + 1) = ((i + 1)..n) \cup {n + 1}
      BY <1>1
    <2>2. \A j \in (i + 1)..n : new[j] = log[j]
      BY <1>1
    <2>3. i \in DOMAIN new /\ i \in DOMAIN log /\ new[i] = log[i]
      BY <1>1
    <2>4. QED
      BY <1>1, <2>1, <2>2, <2>3 DEF Counting
  <1>3. n + 1 \in Counting(new) <=> counts
    <2>1. ((n + 1) + 1)..(n + 1) = {} /\ n + 1 \in DOMAIN new
      BY <1>1
    <2>2. QED
      BY <1>1, <2>1 DEF Counting
  <1>4. Counting(new) \subseteq 1..(n + 1) /\ C \subseteq 1..n /\ n + 1 \notin C
    <2>1. Counting(new) \subseteq 1..Len(new) /\ C \subseteq 1..n
      BY CountingFinite
    <2> HIDE DEF C
    <2>2. QED
      BY <1>1, <2>1
  <1>5. \A i \in 1..(n + 1) : i \in 1..n \/ i = n + 1
    BY <1>1
  <1>6. /\ Policy!Failures(new) = Cardinality(Counting(new))
        /\ Policy!Failures(log) = Cardinality(C) /\ Cardinality(C) \in Nat /\ IsFiniteSet(C)
    BY <1>1, CountingFinite
  <1> HIDE DEF C
  <1>7. CASE lasts /\ counts
    <2>1. Counting(new) = C \cup {n + 1}
      BY <1>2, <1>3, <1>4, <1>5, <1>7
    <2>2. Cardinality(Counting(new)) = Cardinality(C) + 1
      BY <1>4, <1>6, <2>1, FS_AddElement
    <2>3. QED
      BY <1>1, <1>6, <1>7, <2>2 DEF FailuresAfter, Before
  <1>8. CASE lasts /\ ~counts
    <2>1. Counting(new) = C
      BY <1>2, <1>3, <1>4, <1>5, <1>8
    <2>2. QED
      BY <1>1, <1>6, <1>8, <2>1 DEF FailuresAfter, Before
  <1>9. CASE ~lasts /\ counts
    <2>1. Counting(new) = {n + 1}
      BY <1>2, <1>3, <1>4, <1>5, <1>9
    <2>2. e.thanks
      BY <1>9
    <2>3. Cardinality({n + 1}) = 1
      BY FS_Singleton
    <2>4. QED
      BY <1>1, <1>6, <1>9, <2>1, <2>2, <2>3 DEF FailuresAfter, Before
  <1>10. CASE ~lasts /\ ~counts
    <2>1. Counting(new) = {}
      BY <1>2, <1>3, <1>4, <1>5, <1>10
    <2>2. Cardinality({}) = 0
      BY FS_EmptySet
    <2>3. QED
      BY <1>1, <1>6, <1>10, <2>1, <2>2 DEF FailuresAfter, Before
  <1>11. QED
    BY <1>7, <1>8, <1>9, <1>10

\* One more entry asks, keeps the request open, or ends it.
LEMMA AskedGrows ==
    ASSUME NEW log \in Seq(Policy!Entry), NEW e \in Policy!Entry
    PROVE  Policy!Asked(Append(log, e)) <=> AskedAfter(Policy!Asked(log), e)
  <1> DEFINE n == Len(log)
             Open(l, i) == /\ l[i].say = "ask" /\ ~l[i].degraded
                           /\ \A j \in (i + 1)..Len(l) : ~l[j].degraded /\ l[j].say \in {"silence", "transfer"}
             keeps == ~e.degraded /\ e.say \in {"silence", "transfer"}
             asks == ~e.degraded /\ e.say = "ask"
  <1>1. PICK new \in Seq(Policy!Entry) :
          /\ new = Append(log, e) /\ Len(new) = n + 1 /\ n \in Nat /\ new[n + 1] = e
          /\ DOMAIN new = 1..(n + 1) /\ DOMAIN log = 1..n
          /\ \A i \in 1..n : new[i] = log[i]
    <2>1. /\ Append(log, e) \in Seq(Policy!Entry) /\ n \in Nat /\ Len(Append(log, e)) = n + 1
          /\ Append(log, e)[n + 1] = e /\ \A i \in 1..n : Append(log, e)[i] = log[i]
          /\ DOMAIN Append(log, e) = 1..(n + 1) /\ DOMAIN log = 1..n
      BY OneMore
    <2>2. QED
      BY <2>1
  <1>2. ASSUME NEW i \in 1..n
        PROVE  Open(new, i) <=> Open(log, i) /\ keeps
    <2>1. (i + 1)..(n + 1) = ((i + 1)..n) \cup {n + 1}
      BY <1>1
    <2>2. \A j \in (i + 1)..n : new[j] = log[j]
      BY <1>1
    <2>3. new[i] = log[i]
      BY <1>1
    <2>4. QED
      BY <1>1, <2>1, <2>2, <2>3
  <1>3. Open(new, n + 1) <=> asks
    <2>1. ((n + 1) + 1)..(n + 1) = {}
      BY <1>1
    <2>2. QED
      BY <1>1, <2>1
  <1>4. Policy!Asked(new) <=> \E i \in 1..(n + 1) : Open(new, i)
    BY <1>1 DEF Policy!Asked
  <1>5. Policy!Asked(log) <=> \E i \in 1..n : Open(log, i)
    BY <1>1 DEF Policy!Asked
  <1> HIDE DEF Open
  <1>6. Policy!Asked(new) <=> (\E i \in 1..n : Open(new, i)) \/ Open(new, n + 1)
    <2>1. \A i \in 1..(n + 1) : i \in 1..n \/ i = n + 1
      BY <1>1
    <2>2. \A i \in 1..n : i \in 1..(n + 1)
      BY <1>1
    <2>3. n + 1 \in 1..(n + 1)
      BY <1>1
    <2>4. QED
      BY <1>4, <2>1, <2>2, <2>3
  <1>7. Policy!Asked(new) <=> asks \/ (Policy!Asked(log) /\ keeps)
    BY <1>2, <1>3, <1>5, <1>6
  <1>8. QED
    BY <1>1, <1>7 DEF AskedAfter

---------------------------------------------------------------------------
(* What is left to do                                                      *)

LEMMA HasTail ==
    ASSUME NEW t \in Seq(Ops), t # <<>>, Fit(t)
    PROVE  /\ Has(t, Head(t)) /\ Head(t) \in Ops /\ Tail(t) \in Seq(Ops)
           /\ \A op : Has(Tail(t), op) <=> Has(t, op) /\ op # Head(t)
  <1>1. /\ Tail(t) \in Seq(Ops) /\ Len(t) \in Nat \ {0} /\ Len(Tail(t)) = Len(t) - 1
        /\ \A i \in 1..Len(Tail(t)) : Tail(t)[i] = t[i + 1]
        /\ Head(t) = t[1] /\ 1 \in 1..Len(t) /\ Head(t) \in Ops
    OBVIOUS
  <1>2. ASSUME NEW op, Has(t, op), op # Head(t)
        PROVE  Has(Tail(t), op)
    <2>1. PICK i \in 1..Len(t) : t[i] = op
      BY <1>2 DEF Has
    <2>2. i # 1
      BY <1>1, <1>2, <2>1
    <2>3. i - 1 \in 1..Len(Tail(t)) /\ (i - 1) + 1 = i
      BY <1>1, <2>2
    <2>4. Tail(t)[i - 1] = op
      BY <1>1, <2>1, <2>3
    <2>5. QED
      BY <2>3, <2>4 DEF Has
  <1>3. Has(t, Head(t))
    BY <1>1 DEF Has
  <1>4. QED
    BY <1>1, <1>2, <1>3, TailFit

\* An operation that is over has had its part in the outcome.
LEMMA TotalTail ==
    ASSUME NEW t \in Seq(Ops), t # <<>>, Fit(t), NEW n \in Nat, NEW m \in Nat,
           m = IF Head(t) = "reset" THEN 0 ELSE IF Head(t) = "count" THEN n + 1 ELSE n
    PROVE  Total(Tail(t), m) = Total(t, n)
  <1>1. /\ Has(t, Head(t)) /\ (Has(t, "count") => t = <<"count">>)
        /\ \A op : Has(Tail(t), op) <=> Has(t, op) /\ op # Head(t)
    BY HasTail DEF Fit
  <1>2. t = <<"count">> => Head(t) = "count"
    OBVIOUS
  <1>3. QED
    BY <1>1, <1>2 DEF Total

LEMMA FlagTail ==
    ASSUME NEW t \in Seq(Ops), t # <<>>, Fit(t), ~(Has(t, "clear") /\ Has(t, "prompt")),
           NEW p \in BOOLEAN, NEW q \in BOOLEAN,
           q = IF Head(t) = "clear" THEN FALSE ELSE IF Head(t) = "prompt" THEN TRUE ELSE p
    PROVE  Flag(Tail(t), q) <=> Flag(t, p)
  <1>1. Has(t, Head(t)) /\ \A op : Has(Tail(t), op) <=> Has(t, op) /\ op # Head(t)
    BY HasTail
  <1>2. QED
    BY <1>1 DEF Flag

LEMMA OnlyOne ==
    ASSUME NEW t \in Seq(Ops), NEW op, t = <<op>>
    PROVE  Head(t) = op /\ Tail(t) = <<>> /\ t # <<>>
  <1>1. /\ Tail(t) \in Seq(Ops) /\ Len(t) = 1 /\ Head(t) = op /\ t # <<>>
    OBVIOUS
  <1>2. Len(Tail(t)) = Len(t) - 1
    BY <1>1, HeadTailProperties
  <1>3. QED
    BY <1>1, <1>2, EmptySeq

LEMMA NothingLeft ==
    ASSUME NEW n, NEW p
    PROVE  /\ \A op : ~Has(<<>>, op)
           /\ Total(<<>>, n) = n /\ Flag(<<>>, p) = p
  BY DEF Has, Total, Flag

\* What the first operations of each kind hold.
LEMMA FirstHas ==
    ASSUME NEW kind \in AllKinds
    PROVE  /\ kind # "agent" => Head(FirstOps(kind)) = "create" /\ FirstOps(kind) # <<>>
           /\ kind = "agent" => FirstOps(kind) = <<"assistant">>
           /\ Has(FirstOps(kind), "create") <=> kind # "agent"
           /\ ~Has(FirstOps(kind), "count") /\ ~Has(FirstOps(kind), "prompt")
           /\ Has(FirstOps(kind), "reset") <=> kind \in {"escalation", "order", "number", "smalltalk", "thanks"}
           /\ Has(FirstOps(kind), "clear") <=> kind \in {"smalltalk", "thanks", "question"}
           /\ Has(FirstOps(kind), "context") <=> kind \in {"order", "number"}
  <1> USE DEF Has, FirstOps
  <1>1. CASE kind = "escalation"
    BY <1>1
  <1>2. CASE kind = "order"
    BY <1>2
  <1>3. CASE kind = "number"
    BY <1>3
  <1>4. CASE kind = "smalltalk"
    BY <1>4
  <1>5. CASE kind = "thanks"
    BY <1>5
  <1>6. CASE kind = "question"
    BY <1>6
  <1>7. CASE kind = "silent"
    BY <1>7
  <1>8. CASE kind = "agent"
    BY <1>8
  <1>9. QED
    BY <1>1, <1>2, <1>3, <1>4, <1>5, <1>6, <1>7, <1>8 DEF AllKinds

LEMMA EntryType ==
    ASSUME NEW r \in HandlerType, r.say \notin {"none", "agent"}
    PROVE  /\ EntryOf(r) \in Policy!Entry
           /\ EntryOf(r).say = r.say /\ EntryOf(r).degraded = r.degraded
           /\ EntryOf(r).thanks = (r.kind = "thanks")
  <1>1. r.say \in Policy!Says /\ r.degraded \in BOOLEAN
    BY DEF HandlerType, Sayings
  <1>2. QED
    BY <1>1 DEF EntryOf, Policy!Entry

---------------------------------------------------------------------------
(* The promise, step by step                                               *)

\* A message comes in, or the session is forgotten before it is stored.
LEMMA FirstFollows ==
    ASSUME NEW r \in HandlerType, r.todo = FirstOps(r.kind), r.say = FirstSay(r.kind),
           ~r.counted, ~r.degraded, r.pc = "ready",
           NEW s \in SessionType, NEW log \in Seq(Policy!Entry), Agrees(s, log)
    PROVE  Follows(r, s, log)
  <1> DEFINE n == Policy!Failures(log)
             a == Policy!Asked(log)
  <1>1. r.kind \in AllKinds /\ s.count = n /\ (s.prompted <=> a) /\ n \in Nat
    BY CountingFinite DEF HandlerType, Agrees
  <1>2. FirstSay(r.kind) = IF r.kind = "escalation" THEN "transfer" ELSE IF r.kind = "smalltalk" THEN "smalltalk"
                           ELSE IF r.kind = "silent" THEN "silence" ELSE IF r.kind = "agent" THEN "agent" ELSE "none"
    BY <1>1 DEF FirstSay, AllKinds
  <1>3. Plan(r)
    BY <1>1, <1>2, FirstHas DEF Plan, AllKinds
  <1>4. r.kind = "agent" \/ Has(r.todo, "create")
    BY <1>1, FirstHas
  <1>5. Total(r.todo, s.count) = IF r.kind \in {"escalation", "order", "number", "smalltalk", "thanks"} THEN 0 ELSE n
    BY <1>1, FirstHas DEF Total
  <1>6. Flag(r.todo, s.prompted) <=> r.kind \notin {"smalltalk", "thanks", "question"} /\ a
    BY <1>1, FirstHas DEF Flag
  <1> HIDE DEF n, a
  <1>7. CASE r.kind \in {"escalation", "smalltalk", "silent"}
    <2>1. /\ EntryOf(r).say = r.say /\ EntryOf(r).degraded = FALSE /\ EntryOf(r).thanks = FALSE
      BY <1>2, <1>7, EntryType DEF HandlerType
    <2>2. Policy!Allowed(log, EntryOf(r))
      BY <1>2, <1>7, <2>1 DEF Policy!Allowed
    <2>3. Total(r.todo, s.count) = FailuresAfter(n, EntryOf(r))
      BY <1>2, <1>5, <1>7, <2>1 DEF FailuresAfter, Before
    <2>4. Flag(r.todo, s.prompted) <=> AskedAfter(a, EntryOf(r))
      BY <1>2, <1>6, <1>7, <2>1 DEF AskedAfter
    <2>5. QED
      BY <1>2, <1>3, <1>4, <1>7, <2>2, <2>3, <2>4 DEF Follows, Promised, n, a
  <1>8. CASE r.kind = "agent"
    BY <1>2, <1>3, <1>4, <1>8 DEF Follows
  <1>9. CASE r.kind \in {"order", "number"}
    <2>1. Searching(r, s, log)
      BY <1>1, <1>5, <1>9, FirstHas DEF Searching, a
    <2>2. QED
      BY <1>2, <1>3, <1>4, <1>9, <2>1 DEF Follows
  <1>10. CASE r.kind \in {"question", "thanks"}
    <2>1. Asking(r, s, log)
      BY <1>1, <1>5, <1>6, <1>10, FirstHas DEF Asking, n
    <2>2. QED
      BY <1>2, <1>3, <1>4, <1>10, <2>1 DEF Follows
  <1>11. QED
    BY <1>1, <1>7, <1>8, <1>9, <1>10 DEF AllKinds

\* What a handler that goes on keeps of its record.
Same(r, q) == q.kind = r.kind /\ q.say = r.say /\ q.counted = r.counted

\* The first operation of all but an agent's message looks for the session.
LEMMA CreateFirst ==
    ASSUME NEW r \in HandlerType, Plan(r), Fit(r.todo), r.todo # <<>>
    PROVE  /\ Has(r.todo, "create") => Head(r.todo) = "create" /\ r.kind # "agent"
           /\ ~Has(Tail(r.todo), "create")
  <1>1. r.kind \in AllKinds /\ r.todo \in Seq(Ops)
    BY DEF HandlerType
  <1>2. Has(r.todo, "create") => r.todo = FirstOps(r.kind)
    BY DEF Plan
  <1>3. Has(r.todo, "create") => Head(r.todo) = "create" /\ r.kind # "agent"
    BY <1>1, <1>2, FirstHas
  <1>4. QED
    BY <1>1, <1>3, HasTail

LEMMA PlanTail ==
    ASSUME NEW r \in HandlerType, Plan(r), Fit(r.todo), r.todo # <<>>,
           NEW q \in HandlerType, Same(r, q), q.todo = Tail(r.todo), r.kind = "agent" => ~q.degraded
    PROVE  Plan(q)
  <1>1. r.todo \in Seq(Ops)
    BY DEF HandlerType
  <1>2. ~Has(q.todo, "create") /\ \A op : Has(q.todo, op) => Has(r.todo, op)
    BY <1>1, CreateFirst, HasTail
  <1>3. r.kind = "agent" => q.todo = <<>>
    <2> SUFFICES ASSUME r.kind = "agent" PROVE q.todo = <<>>
      OBVIOUS
    <2>1. r.todo = <<"assistant">>
      BY DEF Plan
    <2>2. QED
      BY <1>1, <2>1, OnlyOne
  <1>4. QED
    BY <1>2, <1>3 DEF Plan, Same

\* The session was there and the operation changed nothing, or only read.
LEMMA ReadFollows ==
    ASSUME NEW r \in HandlerType, Sane(r), r.todo # <<>>, r.pc = "ready",
           NEW s \in SessionType, Blank(s), NEW log, Follows(r, s, log), ~Saves(Head(r.todo), s),
           NEW q \in HandlerType, Same(r, q), q.todo = Tail(r.todo), q.pc = "ready", q.degraded = r.degraded,
           q.prompted = IF Head(r.todo) = "context" THEN s.prompted ELSE r.prompted,
           Head(r.todo) # "count" => q.count = r.count
    PROVE  Follows(q, s, log)
  <1> DEFINE op == Head(r.todo)
  <1>1. /\ r.todo \in Seq(Ops) /\ Fit(r.todo) /\ op \in Ops /\ Has(r.todo, op)
        /\ \A o : Has(q.todo, o) <=> Has(r.todo, o) /\ o # op
    BY HasTail DEF HandlerType, Sane
  <1>2. s.count \in Nat /\ s.prompted \in BOOLEAN /\ s.alive \in BOOLEAN /\ r.degraded \in BOOLEAN
    BY DEF SessionType, HandlerType
  <1>3. Plan(r) /\ Plan(q)
    BY <1>1, PlanTail DEF Follows, Plan
  <1>4. CASE r.degraded
    BY <1>3, <1>4 DEF Follows
  <1>5. CASE ~r.degraded
    <2>1. r.kind = "agent" \/ op = "create" \/ s.alive
      BY <1>1, <1>3, <1>5, CreateFirst DEF Follows
    <2>2. op = "create" => s.alive
      BY DEF Saves
    <2>3. r.kind = "agent" => op = "assistant"
      BY <1>3 DEF Plan
    <2>4. op \in {"create", "context", "history", "clear", "assistant"} /\ (op = "clear" => ~s.prompted)
      BY <1>1, <1>2, <2>1, <2>3 DEF Saves, Ops
    <2>5. r.kind = "agent" \/ s.alive
      BY <2>1, <2>2
    <2>6. Total(q.todo, s.count) = Total(r.todo, s.count)
      BY <1>1, <1>2, <2>4, TotalTail
    <2>7. Flag(q.todo, s.prompted) <=> Flag(r.todo, s.prompted)
      <3>1. ~(Has(r.todo, "clear") /\ Has(r.todo, "prompt"))
        BY <1>3 DEF Plan
      <3>2. PICK p \in BOOLEAN : p = s.prompted
        BY <1>2
      <3>3. p = IF Head(r.todo) = "clear" THEN FALSE ELSE IF Head(r.todo) = "prompt" THEN TRUE ELSE p
        BY <2>4, <3>2
      <3>4. Flag(Tail(r.todo), p) <=> Flag(r.todo, p)
        BY <1>1, <3>1, <3>3, FlagTail
      <3>5. QED
        BY <3>2, <3>4
    <2>8. r.say \notin {"agent", "none"} => Promised(q, s, log)
      <3>1. EntryOf(q) = EntryOf(r)
        BY DEF EntryOf, Same
      <3>2. QED
        BY <1>5, <2>6, <2>7, <3>1 DEF Follows, Promised
    <2>9. r.say = "none" /\ r.kind \in {"order", "number"} => Searching(q, s, log)
      BY <1>1, <1>5, <2>4, <2>6 DEF Follows, Searching
    <2>10. r.say = "none" /\ r.kind \in {"question", "thanks"} => Asking(q, s, log)
      <3>1. ~Has(r.todo, "count")
        <4>1. Has(r.todo, "count") => r.todo = <<"count">>
          BY <1>1 DEF Fit
        <4>2. Has(r.todo, "count") => op = "count"
          BY <4>1
        <4>3. QED
          BY <2>4, <4>2
      <3>2. QED
        BY <1>1, <1>5, <2>4, <2>6, <2>7, <3>1 DEF Follows, Asking, Same
    <2>11. QED
      BY <1>3, <1>5, <2>5, <2>8, <2>9, <2>10 DEF Follows, Same
  <1>6. QED
    BY <1>4, <1>5

\* The session was read and is about to be changed.
LEMMA LoadedFollows ==
    ASSUME NEW r \in HandlerType, Sane(r), r.todo # <<>>, r.pc = "ready",
           NEW s \in SessionType, NEW log, Follows(r, s, log), Saves(Head(r.todo), s),
           NEW q \in HandlerType, Same(r, q), q.todo = r.todo, q.pc = "loaded", q.degraded = r.degraded,
           q.prompted = r.prompted,
           q.count = IF Head(r.todo) = "count" THEN s.count + 1 ELSE r.count
    PROVE  Follows(q, s, log)
  <1>1. EntryOf(q) = EntryOf(r) /\ Plan(q)
    BY DEF EntryOf, Same, Follows, Plan
  <1>2. ~r.degraded => (r.say \notin {"agent", "none"} => Promised(q, s, log))
    BY <1>1 DEF Follows, Promised
  <1>3. ~r.degraded => (r.say = "none" /\ r.kind \in {"order", "number"} => Searching(q, s, log))
    BY DEF Follows, Searching
  <1>4. ASSUME ~r.degraded, r.say = "none", r.kind \in {"question", "thanks"}
        PROVE  Asking(q, s, log)
    <2>1. Asking(r, s, log)
      BY <1>4 DEF Follows
    <2>2. CASE Has(r.todo, "count")
      <3>1. r.todo = <<"count">>
        BY <2>2 DEF Sane, Fit
      <3>2. Head(r.todo) = "count" /\ ~Has(r.todo, "reset")
        BY <3>1 DEF Has
      <3>3. q.count = Total(q.todo, s.count)
        BY <2>2, <3>2 DEF Total
      <3>4. QED
        BY <2>1, <3>3 DEF Asking, Same
    <2>3. CASE ~Has(r.todo, "count")
      <3>1. Has(r.todo, Head(r.todo))
        BY HasTail DEF HandlerType, Sane
      <3>2. q.count = r.count
        BY <2>3, <3>1
      <3>3. QED
        BY <2>1, <2>3, <3>2 DEF Asking, Same
    <2>4. QED
      BY <2>2, <2>3
  <1>5. QED
    BY <1>1, <1>2, <1>3, <1>4 DEF Follows, Same

\* What an operation makes of the counter, of the flag and of the session.
LEMMA ChangedFigures ==
    ASSUME NEW s \in SessionType, NEW h, NEW op \in Ops, Saves(op, s), Blank(s)
    PROVE  LET w == Changed(op, s, h) IN
           /\ w.alive
           /\ w.count = IF op = "reset" THEN 0 ELSE IF op = "count" THEN s.count + 1 ELSE s.count
           /\ w.prompted <=> IF op = "clear" THEN FALSE ELSE IF op = "prompt" THEN TRUE ELSE s.prompted
  <1>1. s.alive \in BOOLEAN /\ s.prompted \in BOOLEAN
    BY DEF SessionType
  <1>2. CASE op = "create"
    BY <1>1, <1>2 DEF Changed, FreshSession, NoSession, Saves, Blank
  <1>3. CASE op \in {"user", "assistant"}
    <2>1. PICK m : Changed(op, s, h) = [s EXCEPT !.msgs = m]
      BY <1>3 DEF Changed
    <2>2. QED
      BY <1>1, <1>3, <2>1 DEF SessionType, Saves
  <1>4. CASE op = "reset" \/ op = "count"
    BY <1>1, <1>4 DEF Changed, SessionType, Saves
  <1>5. CASE op = "prompt" \/ op = "clear"
    BY <1>1, <1>5 DEF Changed, SessionType, Saves
  <1>6. op \notin {"context", "history"}
    BY DEF Saves
  <1>7. QED
    BY <1>2, <1>3, <1>4, <1>5, <1>6 DEF Ops

\* The changed session is written.
LEMMA SaveFollows ==
    ASSUME NEW r \in HandlerType, Sane(r), r.todo # <<>>, r.pc = "loaded",
           NEW s \in SessionType, Blank(s), NEW log, Follows(r, s, log),
           NEW w \in SessionType, NEW h, w = Changed(Head(r.todo), s, h),
           NEW q \in HandlerType, Same(r, q), q.todo = Tail(r.todo), q.pc = "ready",
           q.degraded = r.degraded, q.prompted = r.prompted, q.count = r.count
    PROVE  Follows(q, w, log) /\ Blank(w)
  <1> DEFINE op == Head(r.todo)
  <1>1. /\ r.todo \in Seq(Ops) /\ Fit(r.todo) /\ op \in Ops /\ Has(r.todo, op) /\ Saves(op, s)
        /\ \A o : Has(q.todo, o) <=> Has(r.todo, o) /\ o # op
    BY HasTail DEF HandlerType, Sane, Follows
  <1>2. s.count \in Nat /\ s.prompted \in BOOLEAN /\ w.count \in Nat /\ w.prompted \in BOOLEAN
    BY DEF SessionType
  <1>3. /\ w.alive
        /\ w.count = IF op = "reset" THEN 0 ELSE IF op = "count" THEN s.count + 1 ELSE s.count
        /\ w.prompted <=> IF op = "clear" THEN FALSE ELSE IF op = "prompt" THEN TRUE ELSE s.prompted
    BY <1>1, ChangedFigures
  <1>4. Plan(r) /\ Plan(q)
    BY <1>1, PlanTail DEF Follows, Plan
  <1>5. ~r.degraded
    <2>1. op # "create" => s.alive
      BY <1>1 DEF Saves, Ops
    <2>2. op = "create" => ~r.degraded
      BY <1>1, <1>4 DEF Plan
    <2>3. QED
      BY <2>1, <2>2 DEF Follows
  <1>6. Total(q.todo, w.count) = Total(r.todo, s.count)
    BY <1>1, <1>2, <1>3, TotalTail
  <1>7. Flag(q.todo, w.prompted) <=> Flag(r.todo, s.prompted)
    <2>1. w.prompted = IF op = "clear" THEN FALSE ELSE IF op = "prompt" THEN TRUE ELSE s.prompted
      BY <1>2, <1>3
    <2>2. ~(Has(r.todo, "clear") /\ Has(r.todo, "prompt"))
      BY <1>4 DEF Plan
    <2>3. PICK p \in BOOLEAN, v \in BOOLEAN : p = s.prompted /\ v = w.prompted
      BY <1>2
    <2>4. v = IF Head(r.todo) = "clear" THEN FALSE ELSE IF Head(r.todo) = "prompt" THEN TRUE ELSE p
      BY <2>1, <2>3
    <2>5. Flag(Tail(r.todo), v) <=> Flag(r.todo, p)
      BY <1>1, <2>2, <2>4, FlagTail
    <2>6. QED
      BY <2>3, <2>5
  <1>8. r.say = "agent" => Agrees(w, log)
    <2>1. r.say = "agent" => op = "assistant" /\ Agrees(s, log)
      BY <1>4, <1>5 DEF Plan, Follows
    <2>2. QED
      BY <1>3, <2>1 DEF Agrees
  <1>9. r.say \notin {"agent", "none"} => Promised(q, w, log)
    <2>1. EntryOf(q) = EntryOf(r)
      BY DEF EntryOf, Same
    <2>2. QED
      BY <1>5, <1>6, <1>7, <2>1 DEF Follows, Promised
  <1>10. r.say = "none" /\ r.kind \in {"order", "number"} => Searching(q, w, log)
    <2>1. op # "context"
      BY <1>1 DEF Saves
    <2>2. QED
      BY <1>1, <1>3, <1>5, <1>6, <2>1 DEF Follows, Searching
  <1>11. r.say = "none" /\ r.kind \in {"question", "thanks"} => Asking(q, w, log)
    BY <1>1, <1>5, <1>6, <1>7 DEF Follows, Asking, Same
  <1>12. QED
    BY <1>3, <1>4, <1>5, <1>8, <1>9, <1>10, <1>11 DEF Follows, Same, Blank

\* What the rests of a decision hold.
LEMMA RestHas ==
    /\ \A op : Has(<<"assistant">>, op) <=> op = "assistant"
    /\ \A op : Has(<<"count">>, op) <=> op = "count"
    /\ \A first, op : Has(<<first, "assistant">>, op) <=> op = first \/ op = "assistant"
  <1>1. \A op : Has(<<"assistant">>, op) <=> op = "assistant"
    BY DEF Has
  <1>2. \A op : Has(<<"count">>, op) <=> op = "count"
    BY DEF Has
  <1>3. ASSUME NEW first, NEW op
        PROVE  Has(<<first, "assistant">>, op) <=> op = first \/ op = "assistant"
    <2>1. Len(<<first, "assistant">>) = 2 /\ 1..2 = {1, 2}
      OBVIOUS
    <2>2. <<first, "assistant">>[1] = first /\ <<first, "assistant">>[2] = "assistant"
      OBVIOUS
    <2>3. QED
      BY <2>1, <2>2 DEF Has
  <1>4. QED
    BY <1>1, <1>2, <1>3

\* A handler that decides while the store is failing promises nothing.
LEMMA DegradedFollows ==
    ASSUME NEW r \in HandlerType, r.degraded, r.say = "none", r.pc = "ready",
           NEW s, NEW log, Follows(r, s, log),
           NEW q \in HandlerType, q.kind = r.kind, q.degraded = r.degraded, q.pc = "ready",
           ~(Has(q.todo, "clear") /\ Has(q.todo, "prompt")), ~Has(q.todo, "create"), q.say # "agent",
           q.counted => q.kind \in {"question", "thanks"}
    PROVE  Follows(q, s, log)
  <1>1. r.kind \in {"order", "number", "question", "thanks"} /\ ~s.alive
    BY DEF Follows, Plan
  <1>2. Plan(q)
    BY <1>1 DEF Plan
  <1>3. QED
    BY <1>1, <1>2 DEF Follows

\* _handle_order_tracking.
LEMMA TrackFollows ==
    ASSUME NEW r \in HandlerType, r.pc = "ready", r.todo = <<>>, r.say = "none", r.kind \in {"order", "number"},
           NEW s \in SessionType, NEW log \in Seq(Policy!Entry), Follows(r, s, log), ~r.counted,
           NEW q \in HandlerType, q.kind = r.kind, q.degraded = r.degraded, q.pc = "ready", ~q.counted,
           \/ q.todo = <<"clear", "assistant">> /\ q.say \in {"order", "transfer_outage"}
           \/ q.todo = <<"clear", "assistant">> /\ q.say = "transfer_order" /\ r.prompted
           \/ q.todo = <<"prompt", "assistant">> /\ q.say = "ask" /\ ~r.prompted
    PROVE  Follows(q, s, log)
  <1> DEFINE a == Policy!Asked(log)
             e == EntryOf(q)
  <1>1. /\ ~Has(q.todo, "create") /\ ~Has(q.todo, "reset") /\ ~Has(q.todo, "count")
        /\ Has(q.todo, "prompt") <=> q.say = "ask"
        /\ Has(q.todo, "clear") <=> q.say # "ask"
    <2>1. CASE q.todo = <<"clear", "assistant">> /\ q.say \in {"order", "transfer_outage", "transfer_order"}
      BY <2>1, RestHas
    <2>2. CASE q.todo = <<"prompt", "assistant">> /\ q.say = "ask"
      BY <2>2, RestHas
    <2>3. QED
      BY <2>1, <2>2
  <1>2. CASE r.degraded
    BY <1>1, <1>2, DegradedFollows
  <1>3. CASE ~r.degraded
    <2>1. s.alive /\ Searching(r, s, log)
      BY <1>3, NothingLeft DEF Follows
    <2>2. s.count = 0 /\ (s.prompted <=> a) /\ (r.prompted <=> a)
      BY <2>1, NothingLeft DEF Searching
    <2>3. e.say = q.say /\ e.degraded = FALSE /\ e.thanks = FALSE
      BY <1>3, EntryType DEF HandlerType
    <2>4. Policy!Allowed(log, e)
      BY <2>2, <2>3 DEF Policy!Allowed
    <2> HIDE DEF e
    <2>5. Total(q.todo, s.count) = FailuresAfter(Policy!Failures(log), e)
      BY <1>1, <2>2, <2>3 DEF Total, FailuresAfter
    <2>6. Flag(q.todo, s.prompted) <=> AskedAfter(a, e)
      BY <1>1, <2>3 DEF Flag, AskedAfter
    <2>7. Plan(q)
      BY <1>1, <1>3 DEF Plan
    <2>8. QED
      BY <1>3, <2>1, <2>4, <2>5, <2>6, <2>7 DEF Follows, Promised, e
  <1>4. QED
    BY <1>2, <1>3 DEF HandlerType

\* The retrieval and the LLM.
LEMMA AnswerFollows ==
    ASSUME NEW r \in HandlerType, r.pc = "ready", r.todo = <<>>, r.say = "none", r.kind \in {"question", "thanks"},
           NEW s \in SessionType, NEW log \in Seq(Policy!Entry), Follows(r, s, log), ~r.counted,
           NEW q \in HandlerType, q.kind = r.kind, q.degraded = r.degraded, q.pc = "ready",
           \/ q.todo = <<"reset", "assistant">> /\ q.say \in {"transfer_rag", "answer"} /\ ~q.counted
           \/ q.todo = <<>> /\ q.say = "error" /\ ~q.counted
           \/ q.todo = <<"count">> /\ q.say = "none" /\ q.counted
    PROVE  Follows(q, s, log)
  <1> DEFINE n == Policy!Failures(log)
             e == EntryOf(q)
  <1>1. /\ ~Has(q.todo, "create") /\ ~Has(q.todo, "clear") /\ ~Has(q.todo, "prompt")
        /\ Has(q.todo, "reset") <=> q.say \in {"transfer_rag", "answer"}
        /\ Has(q.todo, "count") <=> q.say = "none"
    <2>1. CASE q.todo = <<"reset", "assistant">> /\ q.say \in {"transfer_rag", "answer"}
      BY <2>1, RestHas, NothingLeft
    <2>2. CASE q.todo = <<>> /\ q.say = "error"
      BY <2>2, RestHas, NothingLeft
    <2>3. CASE q.todo = <<"count">> /\ q.say = "none"
      BY <2>3, RestHas, NothingLeft
    <2>4. QED
      BY <2>1, <2>2, <2>3
  <1>2. CASE r.degraded
    BY <1>1, <1>2, DegradedFollows
  <1>3. CASE ~r.degraded
    <2>1. s.alive /\ Asking(r, s, log)
      BY <1>3, NothingLeft DEF Follows
    <2>2. ~s.prompted /\ s.count = (IF r.kind = "thanks" THEN 0 ELSE n) /\ n \in Nat
      <3>1. /\ ~Flag(<<>>, s.prompted) /\ n \in Nat
            /\ Total(<<>>, s.count) = (IF r.kind = "thanks" THEN 0 ELSE n) + 0
        BY <2>1, CountingFinite DEF Asking
      <3> HIDE DEF n
      <3>2. QED
        BY <3>1, NothingLeft
    <2> HIDE DEF n
    <2>3. Plan(q)
      BY <1>1, <1>3 DEF Plan
    <2>4. ~Flag(q.todo, s.prompted)
      BY <1>1, <2>2 DEF Flag
    <2>5. CASE q.say = "none"
      <3>1. Total(q.todo, s.count) = (IF q.kind = "thanks" THEN 0 ELSE n) + 1
        BY <1>1, <2>2, <2>5 DEF Total
      <3>2. Asking(q, s, log)
        BY <1>1, <2>4, <2>5, <3>1 DEF Asking, n
      <3>3. QED
        BY <1>3, <2>1, <2>3, <2>5, <3>2 DEF Follows
    <2>6. CASE q.say # "none"
      <3>1. e.say = q.say /\ e.degraded = FALSE /\ e.thanks = (q.kind = "thanks")
        BY <1>3, <2>6, EntryType DEF HandlerType
      <3>2. Policy!Allowed(log, e)
        BY <2>6, <3>1 DEF Policy!Allowed
      <3> HIDE DEF e
      <3>3. Total(q.todo, s.count) = FailuresAfter(n, e)
        BY <1>1, <2>2, <2>6, <3>1 DEF Total, FailuresAfter, Before
      <3>4. ~AskedAfter(Policy!Asked(log), e)
        BY <2>6, <3>1 DEF AskedAfter
      <3>5. QED
        BY <1>3, <2>1, <2>3, <2>4, <2>6, <3>2, <3>3, <3>4 DEF Follows, Promised, e, n
    <2>7. QED
      BY <2>5, <2>6
  <1>4. QED
    BY <1>2, <1>3 DEF HandlerType

\* The failure was counted: the counter has the number of failures in a row.
LEMMA LoopFollows ==
    ASSUME NEW r \in HandlerType, r.pc = "ready", r.todo = <<>>, r.say = "none", r.counted,
           NEW s \in SessionType, NEW log \in Seq(Policy!Entry), Follows(r, s, log),
           Policy!Failures(log) < Threshold,
           NEW q \in HandlerType, q.kind = r.kind, q.degraded = r.degraded, q.pc = "ready", q.counted,
           \/ q.todo = <<"reset", "assistant">> /\ q.say = "transfer_loop" /\ r.count >= Threshold
           \/ q.todo = <<"assistant">> /\ q.say = "noinfo" /\ ~(r.count >= Threshold)
    PROVE  Follows(q, s, log)
  <1> DEFINE n == Policy!Failures(log)
             e == EntryOf(q)
  <1>0. r.kind \in {"question", "thanks"}
    BY DEF Follows, Plan
  <1>1. /\ ~Has(q.todo, "create") /\ ~Has(q.todo, "clear") /\ ~Has(q.todo, "prompt") /\ ~Has(q.todo, "count")
        /\ Has(q.todo, "reset") <=> q.say = "transfer_loop"
    <2>1. CASE q.todo = <<"reset", "assistant">> /\ q.say = "transfer_loop"
      BY <2>1, RestHas
    <2>2. CASE q.todo = <<"assistant">> /\ q.say = "noinfo"
      BY <2>2, RestHas
    <2>3. QED
      BY <2>1, <2>2
  <1>2. CASE r.degraded
    BY <1>0, <1>1, <1>2, DegradedFollows
  <1>3. CASE ~r.degraded
    <2>1. s.alive /\ Asking(r, s, log)
      BY <1>0, <1>3, NothingLeft DEF Follows
    <2>2. /\ ~s.prompted /\ n \in Nat /\ r.count = s.count /\ s.count \in Nat
          /\ s.count = (IF r.kind = "thanks" THEN 1 ELSE n + 1)
      <3>1. /\ ~Flag(<<>>, s.prompted) /\ n \in Nat /\ s.count \in Nat
            /\ Total(<<>>, s.count) = (IF r.kind = "thanks" THEN 0 ELSE n) + 1
            /\ r.count = Total(<<>>, s.count)
        BY <2>1, CountingFinite, NothingLeft DEF Asking, SessionType
      <3> HIDE DEF n
      <3>2. QED
        BY <3>1, NothingLeft
    <2>3. Plan(q)
      BY <1>0, <1>1, <1>3 DEF Plan
    <2>4. e.say = q.say /\ e.degraded = FALSE /\ (e.thanks <=> q.kind = "thanks")
      BY <1>3, EntryType DEF HandlerType
    <2>5. n < Threshold /\ Threshold \in Nat \ {0}
      BY DialogueThresholdAssumption
    <2>6. Policy!Allowed(log, e)
      <3> HIDE DEF e
      <3>1. q.say = "noinfo" => (IF e.thanks THEN 1 ELSE n + 1) < Threshold
        <4> HIDE DEF n
        <4>1. QED
          BY <2>2, <2>4, <2>5
      <3>2. q.say = "transfer_loop" => (IF e.thanks THEN 1 ELSE n + 1) = Threshold
        <4> HIDE DEF n
        <4>1. QED
          BY <2>2, <2>4, <2>5
      <3>3. QED
        BY <2>4, <3>1, <3>2 DEF Policy!Allowed
    <2> HIDE DEF e
    <2>7. Total(q.todo, s.count) = FailuresAfter(n, e)
      <3> HIDE DEF n
      <3>1. QED
        BY <1>1, <2>2, <2>4 DEF Total, FailuresAfter, Before
    <2>8. ~AskedAfter(Policy!Asked(log), e)
      BY <2>4 DEF AskedAfter
    <2>9. ~Flag(q.todo, s.prompted)
      BY <1>1, <2>2 DEF Flag
    <2>10. QED
      BY <1>3, <2>1, <2>3, <2>6, <2>7, <2>8, <2>9 DEF Follows, Promised, e, n
  <1>4. QED
    BY <1>2, <1>3 DEF HandlerType

\* The answer is out: the stored session amounts to the longer log.
LEMMA FinishFollows ==
    ASSUME NEW r \in HandlerType, r.pc = "ready", r.todo = <<>>, r.say # "none",
           NEW s \in SessionType, Blank(s), NEW log \in Seq(Policy!Entry), Follows(r, s, log),
           Policy!Failures(log) < Threshold
    PROVE  /\ r.kind = "agent" => Agrees(s, log)
           /\ r.kind # "agent" => /\ EntryOf(r) \in Policy!Entry /\ Policy!Allowed(log, EntryOf(r))
                                  /\ Agrees(s, Append(log, EntryOf(r)))
                                  /\ Policy!Failures(Append(log, EntryOf(r))) < Threshold
  <1> DEFINE n == Policy!Failures(log)
             e == EntryOf(r)
             new == Append(log, e)
  <1>1. CASE r.kind = "agent"
    BY <1>1 DEF Follows, Plan
  <1>2. CASE r.kind # "agent"
    <2>1. r.say # "agent" /\ e \in Policy!Entry /\ e.say = r.say /\ e.degraded = r.degraded
      BY <1>2, EntryType DEF Follows, Plan
    <2>2. /\ Policy!Failures(new) = FailuresAfter(n, e) /\ n \in Nat
          /\ Policy!Asked(new) <=> AskedAfter(Policy!Asked(log), e)
      BY <2>1, FailuresGrow, AskedGrows, CountingFinite
    <2>3. Threshold \in Nat \ {0} /\ n < Threshold
      BY DialogueThresholdAssumption
    <2>4. CASE r.degraded
      <3>1. s.count = 0 /\ ~s.prompted
        BY <2>4 DEF Follows, Blank
      <3>2. FailuresAfter(n, e) = 0 /\ ~AskedAfter(Policy!Asked(log), e)
        BY <2>1, <2>4 DEF FailuresAfter, AskedAfter
      <3>3. Policy!Allowed(log, e)
        BY <2>1, <2>4 DEF Policy!Allowed
      <3> HIDE DEF e, n, new
      <3>4. 0 < Threshold
        BY <2>3
      <3>5. QED
        BY <1>2, <2>1, <2>2, <3>1, <3>2, <3>3, <3>4 DEF Agrees, e, new
    <2>5. CASE ~r.degraded
      <3>1. Promised(r, s, log)
        BY <2>1, <2>5 DEF Follows
      <3>2. /\ Policy!Allowed(log, e) /\ s.count = FailuresAfter(n, e)
            /\ s.prompted <=> AskedAfter(Policy!Asked(log), e)
        BY <3>1, NothingLeft DEF Promised
      <3>3. e.say = "noinfo" => (IF e.thanks THEN 1 ELSE n + 1) < Threshold
        BY <2>1, <2>5, <3>2 DEF Policy!Allowed
      <3>4. FailuresAfter(n, e) < Threshold
        <4> HIDE DEF e, n
        <4>1. QED
          BY <2>2, <2>3, <3>3 DEF FailuresAfter, Before
      <3> HIDE DEF e, n, new
      <3>5. QED
        BY <1>2, <2>1, <2>2, <3>2, <3>4 DEF Agrees, e, new
    <2>6. QED
      BY <2>4, <2>5 DEF HandlerType
  <1>3. QED
    BY <1>1, <1>2

---------------------------------------------------------------------------
(* The steps of the module                                                 *)

\* What a handler makes of the session it read.
Reads(r, q, s) ==
    /\ Same(r, q)
    /\ q.prompted = IF Head(r.todo) = "context" THEN s.prompted ELSE r.prompted
    /\ q.count = IF Head(r.todo) = "count" THEN (IF s.alive THEN s.count + 1 ELSE 0) ELSE r.count
    /\ IF Saves(Head(r.todo), s) THEN q.pc = "loaded" /\ q.todo = r.todo
       ELSE q.pc = "ready" /\ q.todo = Tail(r.todo)

LEMMA ReadRecord ==
    ASSUME Sound, Turn, NEW h \in Handlers, Load(h)
    PROVE  \E q \in HandlerType, s \in SessionType, fails, early \in BOOLEAN :
             /\ Becomes(h, q) /\ Reads(handler[h], q, s) /\ s = Store'
             /\ early <=> NextOp(h) = "create" \/ handler[h].kind = "agent"
             /\ q.degraded <=> handler[h].degraded \/ (fails /\ ~early)
             /\ s = IF fails THEN NoSession ELSE Store
             /\ shown' = IF fails /\ early THEN Append(shown, Policy!Forgot) ELSE shown
  <1>0. Shape /\ handler \in [Handlers -> HandlerType]
    BY DEF Sound, Shape
  <1> DEFINE op == NextOp(h)
             r == handler[h]
             t == r.todo
  <1>1. /\ r \in HandlerType /\ r.pc = "ready" /\ t # <<>> /\ t \in Seq(Ops)
        /\ op = Head(t) /\ op \in Ops /\ Tail(t) \in Seq(Ops)
    <2>1. r \in HandlerType /\ t \in Seq(Ops) /\ t # <<>> /\ r.pc = "ready"
      BY <1>0 DEF HandlerType, Load
    <2>2. QED
      BY <2>1 DEF NextOp
  <1>2. PICK fails \in BOOLEAN :
         LET s == IF fallback \/ fails THEN memory ELSE redis
             early == op = "create" \/ handler[h].kind = "agent"
             noted == [Noted(h, op, s) EXCEPT !.degraded = @ \/ (fails /\ ~early)]
         IN  /\ handler' = [handler EXCEPT ![h] =
                  IF Saves(op, s) THEN [noted EXCEPT !.pc = "loaded", !.snap = s]
                  ELSE [noted EXCEPT !.todo = Tail(@)]]
             /\ fallback' = (fallback \/ fails)
             /\ shown' = IF fails /\ early
                         THEN Append(shown, [say |-> "forgot", thanks |-> FALSE, degraded |-> FALSE])
                         ELSE shown
             /\ fails => ~fallback
    BY DEF Load, MayFail, NextOp
  <1>3. PICK s : s = (IF fallback \/ fails THEN memory ELSE redis)
    OBVIOUS
  <1>4. s \in SessionType /\ s = Store' /\ s = (IF fails THEN NoSession ELSE Store)
    BY <1>0, <1>2, <1>3 DEF Shape, Turn, Store, Load
  <1>5. PICK early \in BOOLEAN : early <=> op = "create" \/ r.kind = "agent"
    OBVIOUS
  <1>6. PICK d \in BOOLEAN : d <=> r.degraded \/ (fails /\ ~early)
    OBVIOUS
  <1>7. PICK p \in BOOLEAN : p = IF op = "context" THEN s.prompted ELSE r.prompted
    BY <1>1, <1>4 DEF SessionType, HandlerType
  <1>8. PICK n \in Nat : n = IF op = "count" THEN (IF s.alive THEN s.count + 1 ELSE 0) ELSE r.count
    BY <1>1, <1>4 DEF SessionType, HandlerType
  <1>9. PICK o \in BOOLEAN : o = IF op = "history" /\ s.alive
               THEN s.msgs # <<>> /\ s.msgs[Len(s.msgs)] = <<"user", h>> ELSE r.own
    BY <1>1 DEF HandlerType
  <1>10. PICK v \in HandlerType : v = [r EXCEPT !.prompted = p, !.count = n, !.own = o, !.degraded = d]
    BY <1>1 DEF HandlerType
  <1>11. /\ v.todo = t /\ v.pc = "ready" /\ v.prompted = p /\ v.count = n /\ v.degraded = d
         /\ v.kind = r.kind /\ v.say = r.say /\ v.counted = r.counted
    BY <1>1, <1>10 DEF HandlerType
  <1>12. [Noted(h, op, s) EXCEPT !.degraded = @ \/ (fails /\ ~early)] = v
    <2>1. Noted(h, op, s) = [r EXCEPT !.prompted = p, !.count = n, !.own = o]
      BY <1>1, <1>7, <1>8, <1>9 DEF Noted
    <2>2. r.degraded \in BOOLEAN
      BY <1>1 DEF HandlerType
    <2>3. Noted(h, op, s).degraded = r.degraded
      BY <1>1, <2>1 DEF HandlerType
    <2>4. (Noted(h, op, s).degraded \/ (fails /\ ~early)) = d
      BY <1>6, <2>2, <2>3
    <2>5. QED
      BY <1>1, <1>10, <2>1, <2>4 DEF HandlerType
  <1>13. handler' = [handler EXCEPT ![h] = IF Saves(op, s) THEN [v EXCEPT !.pc = "loaded", !.snap = s]
                                           ELSE [v EXCEPT !.todo = Tail(v.todo)]]
    BY <1>2, <1>3, <1>5, <1>12
  <1>14. PICK q \in HandlerType :
            /\ q = IF Saves(op, s) THEN [v EXCEPT !.pc = "loaded", !.snap = s] ELSE [v EXCEPT !.todo = Tail(v.todo)]
            /\ q.prompted = p /\ q.count = n /\ q.degraded = d /\ Same(r, q)
            /\ IF Saves(op, s) THEN q.pc = "loaded" /\ q.todo = t ELSE q.pc = "ready" /\ q.todo = Tail(t)
    <2>1. CASE Saves(op, s)
      <3> DEFINE q == [v EXCEPT !.pc = "loaded", !.snap = s]
      <3>1. /\ q \in HandlerType /\ q.prompted = p /\ q.count = n /\ q.degraded = d /\ q.kind = v.kind
            /\ q.say = v.say /\ q.counted = v.counted /\ q.pc = "loaded" /\ q.todo = t
        BY <1>4, <1>11 DEF HandlerType
      <3> HIDE DEF q
      <3>2. Same(r, q)
        BY <1>11, <3>1 DEF Same
      <3>3. QED
        BY <2>1, <3>1, <3>2 DEF q
    <2>2. CASE ~Saves(op, s)
      <3> DEFINE q == [v EXCEPT !.todo = Tail(v.todo)]
      <3>1. /\ q \in HandlerType /\ q.prompted = p /\ q.count = n /\ q.degraded = d /\ q.kind = v.kind
            /\ q.say = v.say /\ q.counted = v.counted /\ q.pc = "ready" /\ q.todo = Tail(t)
        BY <1>1, <1>11 DEF HandlerType
      <3> HIDE DEF q
      <3>2. Same(r, q)
        BY <1>11, <3>1 DEF Same
      <3>3. QED
        BY <2>2, <3>1, <3>2 DEF q
    <2>3. QED
      BY <2>1, <2>2
  <1>15. Becomes(h, q)
    BY <1>13, <1>14 DEF Becomes
  <1>16. Reads(r, q, s)
    BY <1>1, <1>7, <1>8, <1>14 DEF Reads
  <1>17. shown' = IF fails /\ early THEN Append(shown, Policy!Forgot) ELSE shown
    BY <1>2, <1>5 DEF Policy!Forgot
  <1>18. q.degraded <=> r.degraded \/ (fails /\ ~early)
    BY <1>6, <1>14
  <1> HIDE DEF op, r, t
  <1>19. QED
    BY <1>4, <1>5, <1>15, <1>16, <1>17, <1>18 DEF r, op

\* What a handler that read s goes on with.
LEMMA ReadsFollow ==
    ASSUME NEW r \in HandlerType, Sane(r), r.todo # <<>>, r.pc = "ready",
           NEW s \in SessionType, Blank(s), NEW log, Follows(r, s, log),
           NEW q \in HandlerType, Reads(r, q, s), q.degraded = r.degraded
    PROVE  Follows(q, s, log)
  <1>1. CASE Saves(Head(r.todo), s)
    <2>1. Head(r.todo) # "context" /\ (Head(r.todo) = "count" => s.alive)
      BY <1>1 DEF Saves
    <2>2. QED
      BY <1>1, <2>1, LoadedFollows DEF Reads
  <1>2. CASE ~Saves(Head(r.todo), s)
    BY <1>2, ReadFollows DEF Reads
  <1>3. QED
    BY <1>1, <1>2

\* The session is lost before the handler touched it: it starts again with none.
LEMMA ForgetFollows ==
    ASSUME NEW r \in HandlerType, r.pc = "ready", r.todo # <<>>, Fit(r.todo),
           Head(r.todo) = "create" \/ r.kind = "agent",
           NEW s, NEW log \in Seq(Policy!Entry), Follows(r, s, log)
    PROVE  LET new == Append(log, Policy!Forgot) IN
           /\ Policy!Forgot \in Policy!Entry /\ Policy!Allowed(log, Policy!Forgot)
           /\ Agrees(NoSession, new) /\ Policy!Failures(new) = 0 /\ Follows(r, NoSession, new)
  <1> DEFINE new == Append(log, Policy!Forgot)
  <1>1. Policy!Forgot \in Policy!Entry /\ Policy!Allowed(log, Policy!Forgot)
    BY DEF Policy!Forgot, Policy!Entry, Policy!Says, Policy!Allowed
  <1>2. Policy!Failures(new) = 0 /\ ~Policy!Asked(new)
    <2>1. /\ Policy!Failures(new) = FailuresAfter(Policy!Failures(log), Policy!Forgot)
          /\ Policy!Asked(new) <=> AskedAfter(Policy!Asked(log), Policy!Forgot)
      BY <1>1, FailuresGrow, AskedGrows
    <2>2. Policy!Forgot.say = "forgot"
      BY DEF Policy!Forgot
    <2>3. QED
      BY <2>1, <2>2 DEF FailuresAfter, AskedAfter
  <1>3. Agrees(NoSession, new)
    BY <1>2 DEF Agrees, NoSession
  <1>4. new \in Seq(Policy!Entry)
    BY <1>1
  <1>5. r.todo = FirstOps(r.kind) /\ r.say = FirstSay(r.kind) /\ ~r.counted /\ ~r.degraded
    <2>1. CASE Head(r.todo) = "create"
      <3>1. Has(r.todo, "create")
        BY <2>1, HasTail DEF HandlerType
      <3>2. QED
        BY <3>1 DEF Follows, Plan
    <2>2. CASE r.kind = "agent"
      BY <2>2 DEF Follows, Plan, FirstOps, FirstSay
    <2>3. QED
      BY <2>1, <2>2
  <1> HIDE DEF new
  <1>6. Follows(r, NoSession, new)
    BY <1>3, <1>4, <1>5, SessionTypes, FirstFollows
  <1>7. QED
    BY <1>1, <1>2, <1>3, <1>6 DEF new

\* The session is lost later: the handler promises nothing any more.
LEMMA LostFollows ==
    ASSUME NEW r \in HandlerType, Sane(r), r.todo # <<>>, r.pc = "ready",
           Head(r.todo) # "create", r.kind # "agent",
           NEW s, NEW log, Follows(r, s, log),
           NEW q \in HandlerType, Reads(r, q, NoSession), q.degraded
    PROVE  Follows(q, NoSession, log)
  <1>1. ~Saves(Head(r.todo), NoSession) /\ ~NoSession.alive
    BY DEF Saves, NoSession
  <1>2. Plan(q)
    BY <1>1, PlanTail DEF Follows, Sane, Reads
  <1>3. QED
    BY <1>1, <1>2 DEF Follows, Reads

\* What keeps the promises: a step of the only handler at work, which becomes r.
LEMMA KeptOne ==
    ASSUME Sound, Turn, NEW h \in Handlers, NEW r \in HandlerType, Becomes(h, r),
           \A g \in Handlers : Running(g) => g = h,
           Blank(Store'), Policy!Failures(shown') < Threshold,
           r.pc \in {"ready", "loaded"} => Follows(r, Store', shown'),
           r.pc \notin {"ready", "loaded"} => Agrees(Store', shown')
    PROVE  Kept'
  <1>1. handler \in [Handlers -> HandlerType]
    BY DEF Sound, Shape
  <1>2. \A g \in Handlers : handler'[g] = IF g = h THEN r ELSE handler[g]
    BY <1>1, BecomesOne
  <1>3. \A g \in Handlers : Running(g)' => g = h
    BY <1>2 DEF Running
  <1>4. Running(h)' <=> r.pc \in {"ready", "loaded"}
    BY <1>2 DEF Running
  <1>5. handler'[h] = r
    BY <1>2
  <1>6. Idle' => Agrees(Store', shown')
    BY <1>4 DEF Idle
  <1>7. \A g \in Handlers : Running(g)' => Follows(handler'[g], Store', shown')
    BY <1>3, <1>4, <1>5
  <1>8. Policy!Failures(shown)' = Policy!Failures(shown')
    BY DEF Policy!Failures
  <1>9. QED
    BY <1>6, <1>7, <1>8 DEF Kept, Blank, Agrees, Follows

\* The actions of a handler keep the promises and say what the policy allows.
Answers == shown' = shown \/ \E e \in Policy!Entry : Policy!Say(e)

LEMMA KeptLoad ==
    ASSUME Sound, Turn, Kept, NEW h \in Handlers, Load(h)
    PROVE  Kept' /\ Answers
  <1> DEFINE r == handler[h]
             op == NextOp(h)
  <1>1. /\ r \in HandlerType /\ r.pc = "ready" /\ r.todo # <<>> /\ Sane(r) /\ Fit(r.todo)
        /\ op = Head(r.todo) /\ Running(h) /\ shown \in Seq(Policy!Entry)
    BY DEF Sound, Shape, AllSane, Sane, Load, Running, NextOp
  <1>2. PICK q \in HandlerType, s \in SessionType, fails, early \in BOOLEAN :
             /\ Becomes(h, q) /\ Reads(r, q, s) /\ s = Store'
             /\ early <=> op = "create" \/ r.kind = "agent"
             /\ q.degraded <=> r.degraded \/ (fails /\ ~early)
             /\ s = IF fails THEN NoSession ELSE Store
             /\ shown' = IF fails /\ early THEN Append(shown, Policy!Forgot) ELSE shown
    BY ReadRecord
  <1>3. q.degraded \in BOOLEAN /\ r.degraded \in BOOLEAN
    BY <1>1 DEF HandlerType
  <1>4. Follows(r, Store, shown) /\ Blank(Store) /\ Policy!Failures(shown) < Threshold
    BY <1>1 DEF Kept
  <1>5. Blank(s)
    BY <1>2, <1>4 DEF Blank, NoSession
  <1>6. Policy!Failures(shown') < Threshold /\ Follows(q, s, shown') /\ Answers
    <2>1. CASE ~fails
      <3>1. q.degraded = r.degraded /\ s = Store /\ shown' = shown
        BY <1>2, <1>3, <2>1
      <3>2. Follows(q, s, shown)
        BY <1>1, <1>2, <1>4, <1>5, <3>1, ReadsFollow
      <3>3. QED
        BY <1>4, <3>1, <3>2 DEF Answers
    <2>2. CASE fails /\ early
      <3>1. q.degraded = r.degraded /\ s = NoSession /\ shown' = Append(shown, Policy!Forgot)
        BY <1>2, <1>3, <2>2
      <3>2. /\ Policy!Forgot \in Policy!Entry /\ Policy!Allowed(shown, Policy!Forgot)
            /\ Policy!Failures(shown') = 0 /\ Follows(r, NoSession, shown')
        BY <1>1, <1>2, <1>4, <2>2, <3>1, ForgetFollows
      <3>3. Follows(q, s, shown')
        BY <1>1, <1>2, <1>5, <3>1, <3>2, ReadsFollow
      <3>4. 0 < Threshold
        BY DialogueThresholdAssumption
      <3>5. QED
        BY <3>1, <3>2, <3>3, <3>4 DEF Answers, Policy!Say
    <2>3. CASE fails /\ ~early
      <3>1. q.degraded /\ s = NoSession /\ shown' = shown
        BY <1>2, <1>3, <2>3
      <3>2. Follows(q, s, shown)
        BY <1>1, <1>2, <1>4, <2>3, <3>1, LostFollows
      <3>3. QED
        BY <1>4, <3>1, <3>2 DEF Answers
    <2>4. QED
      BY <2>1, <2>2, <2>3
  <1>7. q.pc \in {"ready", "loaded"}
    BY <1>2 DEF Reads
  <1>8. \A g \in Handlers : Running(g) => g = h
    BY <1>1 DEF Turn
  <1>9. QED
    BY <1>2, <1>5, <1>6, <1>7, <1>8, KeptOne

LEMMA KeptSave ==
    ASSUME Sound, Turn, Kept, NEW h \in Handlers, Save(h)
    PROVE  Kept' /\ Answers
  <1>0. Shape /\ Short /\ AllSane /\ handler \in [Handlers -> HandlerType]
    BY DEF Sound, Shape
  <1> DEFINE r == handler[h]
             op == NextOp(h)
  <1>1. PICK q \in HandlerType, w \in SessionType : Becomes(h, q) /\ Saved(h, q, w)
    BY <1>0, SaveStep
  <1>2. /\ r \in HandlerType /\ r.pc = "loaded" /\ r.todo # <<>> /\ Sane(r) /\ Running(h)
        /\ op = Head(r.todo) /\ r.snap = Store /\ Store \in SessionType
    BY <1>0, <1>1 DEF AllSane, Saved, Running, NextOp, Turn, HandlerType
  <1>3. w = Changed(op, Store, h) /\ Store' = w /\ shown' = shown
    <2>1. PICK fails \in BOOLEAN :
            /\ memory' = (IF fallback \/ fails THEN Changed(op, r.snap, h) ELSE memory)
            /\ redis' = (IF fallback \/ fails THEN redis ELSE Changed(op, r.snap, h))
            /\ fallback' = (fallback \/ fails)
      BY DEF Save, MayFail, NextOp
    <2>2. w = Changed(op, r.snap, h) /\ shown' = shown
      BY <1>1 DEF Saved
    <2>3. QED
      BY <1>2, <2>1, <2>2 DEF Store
  <1>4. /\ Same(r, q) /\ q.todo = Tail(r.todo) /\ q.pc = "ready" /\ q.count = r.count
        /\ q.degraded = r.degraded /\ q.prompted = r.prompted
    <2>1. handler'[h] = q
      BY <1>0, <1>1, BecomesOne
    <2>2. q = [r EXCEPT !.pc = "ready", !.todo = Tail(r.todo), !.snap = NoSession]
      BY <1>0, <2>1 DEF Save
    <2>3. q.degraded = r.degraded /\ q.prompted = r.prompted
      BY <1>2, <2>2 DEF HandlerType
    <2>4. QED
      BY <1>1, <2>3 DEF Saved, Same
  <1>5. Follows(r, Store, shown) /\ Blank(Store) /\ Policy!Failures(shown) < Threshold
    BY <1>2 DEF Kept
  <1>6. Follows(q, w, shown) /\ Blank(w)
    BY <1>2, <1>3, <1>4, <1>5, SaveFollows
  <1>7. \A g \in Handlers : Running(g) => g = h
    BY <1>2 DEF Turn
  <1>8. Kept'
    BY <1>1, <1>3, <1>4, <1>5, <1>6, <1>7, KeptOne
  <1>9. QED
    BY <1>3, <1>8 DEF Answers

\* What a decision makes of the record r.
Chooses(r, q, ops, say, counted) ==
    /\ q.kind = r.kind /\ q.degraded = r.degraded /\ q.pc = r.pc
    /\ q.todo = ops /\ q.say = say /\ q.counted = counted

LEMMA GoesRecord ==
    ASSUME Shape, NEW h \in Handlers, NEW ops \in Seq(Ops), NEW say \in Sayings, Goes(h, ops, say)
    PROVE  /\ UNCHANGED <<redis, memory, fallback, shown>>
           /\ \E q \in HandlerType : Becomes(h, q) /\ Chooses(handler[h], q, ops, say, handler[h].counted)
  <1> DEFINE r == handler[h]
  <1>1. PICK q : q = [r EXCEPT !.todo = ops, !.say = say]
    OBVIOUS
  <1>2. q \in HandlerType /\ Chooses(r, q, ops, say, r.counted)
    <2>1. r \in HandlerType
      BY DEF Shape
    <2> HIDE DEF r
    <2>2. QED
      BY <1>1, <2>1 DEF HandlerType, Chooses
  <1>3. Becomes(h, q) /\ UNCHANGED <<redis, memory, fallback, shown>>
    BY <1>1 DEF Goes, Becomes
  <1>4. QED
    BY <1>2, <1>3

LEMMA CountsRecord ==
    ASSUME Shape, NEW h \in Handlers,
           handler' = [handler EXCEPT ![h] = [@ EXCEPT !.todo = <<"count">>, !.counted = TRUE]]
    PROVE  \E q \in HandlerType : Becomes(h, q) /\ Chooses(handler[h], q, <<"count">>, handler[h].say, TRUE)
  <1>0. <<"count">> \in Seq(Ops)
    BY DEF Ops
  <1>1. PICK t \in Seq(Ops) : t = <<"count">>
    BY <1>0
  <1>2. PICK r \in HandlerType : r = handler[h]
    BY DEF Shape
  <1>3. PICK q : q = [r EXCEPT !.todo = t, !.counted = TRUE]
    OBVIOUS
  <1>4. q \in HandlerType /\ Chooses(r, q, t, r.say, TRUE)
    BY <1>3 DEF HandlerType, Chooses
  <1>5. Becomes(h, q)
    BY <1>1, <1>2, <1>3 DEF Becomes
  <1>6. QED
    BY <1>1, <1>2, <1>4, <1>5

LEMMA KeptDecide ==
    ASSUME Sound, Turn, Kept, NEW h \in Handlers, TrackOrder(h) \/ AnswerQuestion(h) \/ CheckLoop(h)
    PROVE  Kept' /\ Answers
  <1> DEFINE r == handler[h]
  <1>0. Shape /\ AllSane /\ r \in HandlerType /\ Sane(r)
    BY DEF Sound, Shape, AllSane
  <1>1. /\ r.pc = "ready" /\ r.todo = <<>> /\ r.say = "none" /\ Running(h)
        /\ shown \in Seq(Policy!Entry) /\ Store \in SessionType
    BY <1>0 DEF TrackOrder, AnswerQuestion, CheckLoop, Deciding, Running, Shape, Store
  <1>2. Follows(r, Store, shown) /\ Blank(Store) /\ Policy!Failures(shown) < Threshold
    BY <1>1 DEF Kept
  <1>3. \A g \in Handlers : Running(g) => g = h
    BY <1>1 DEF Turn
  <1>4. ASSUME NEW q \in HandlerType, Becomes(h, q), q.pc = r.pc, Follows(q, Store, shown),
               UNCHANGED <<redis, memory, fallback, shown>>
        PROVE  Kept' /\ Answers
    <2>1. Store' = Store /\ shown' = shown
      BY <1>4 DEF Store
    <2>2. Kept'
      BY <1>1, <1>2, <1>3, <1>4, <2>1, KeptOne
    <2>3. QED
      BY <2>1, <2>2 DEF Answers
  <1>5. /\ <<>> \in Seq(Ops) /\ <<"assistant">> \in Seq(Ops) /\ <<"clear", "assistant">> \in Seq(Ops)
        /\ <<"prompt", "assistant">> \in Seq(Ops) /\ <<"reset", "assistant">> \in Seq(Ops)
    BY RestFit DEF Rest
  <1>6. {"order", "transfer_outage", "transfer_order", "ask", "transfer_rag", "error", "answer",
         "transfer_loop", "noinfo"} \subseteq Sayings
    BY DEF Policy!Says, Sayings
  <1> HIDE DEF r
  <1>7. CASE TrackOrder(h)
    <2>1. r.kind \in {"order", "number"} /\ ~r.counted
      BY <1>0, <1>7 DEF TrackOrder, Sane, r
    <2>2. CASE \E say \in {"order", "transfer_outage"} : Goes(h, <<"clear", "assistant">>, say)
      <3>1. PICK say \in {"order", "transfer_outage"} : Goes(h, <<"clear", "assistant">>, say)
        BY <2>2
      <3>2. PICK q \in HandlerType : Becomes(h, q) /\ Chooses(r, q, <<"clear", "assistant">>, say, r.counted)
        BY <1>0, <1>5, <1>6, <3>1, GoesRecord DEF r
      <3>3. Follows(q, Store, shown)
        BY <1>0, <1>1, <1>2, <2>1, <3>2, TrackFollows DEF Chooses
      <3>4. QED
        BY <1>4, <3>1, <3>2, <3>3 DEF Chooses, Goes
    <2>3. CASE r.prompted /\ Goes(h, <<"clear", "assistant">>, "transfer_order")
      <3>1. PICK q \in HandlerType :
              Becomes(h, q) /\ Chooses(r, q, <<"clear", "assistant">>, "transfer_order", r.counted)
        BY <1>0, <1>5, <1>6, <2>3, GoesRecord DEF r
      <3>2. Follows(q, Store, shown)
        BY <1>0, <1>1, <1>2, <2>1, <2>3, <3>1, TrackFollows DEF Chooses
      <3>3. QED
        BY <1>4, <2>3, <3>1, <3>2 DEF Chooses, Goes
    <2>4. CASE ~r.prompted /\ Goes(h, <<"prompt", "assistant">>, "ask")
      <3>1. PICK q \in HandlerType : Becomes(h, q) /\ Chooses(r, q, <<"prompt", "assistant">>, "ask", r.counted)
        BY <1>0, <1>5, <1>6, <2>4, GoesRecord DEF r
      <3>2. Follows(q, Store, shown)
        BY <1>0, <1>1, <1>2, <2>1, <2>4, <3>1, TrackFollows DEF Chooses
      <3>3. QED
        BY <1>4, <2>4, <3>1, <3>2 DEF Chooses, Goes
    <2>5. QED
      BY <1>7, <2>2, <2>3, <2>4 DEF TrackOrder, r
  <1>8. CASE AnswerQuestion(h)
    <2>1. r.kind \in {"question", "thanks"} /\ ~r.counted
      BY <1>8 DEF AnswerQuestion, r
    <2>2. CASE \E say \in {"transfer_rag", "answer"} : Goes(h, <<"reset", "assistant">>, say)
      <3>1. PICK say \in {"transfer_rag", "answer"} : Goes(h, <<"reset", "assistant">>, say)
        BY <2>2
      <3>2. PICK q \in HandlerType : Becomes(h, q) /\ Chooses(r, q, <<"reset", "assistant">>, say, r.counted)
        BY <1>0, <1>5, <1>6, <3>1, GoesRecord DEF r
      <3>3. Follows(q, Store, shown)
        BY <1>0, <1>1, <1>2, <2>1, <3>2, AnswerFollows DEF Chooses
      <3>4. QED
        BY <1>4, <3>1, <3>2, <3>3 DEF Chooses, Goes
    <2>3. CASE Goes(h, <<>>, "error")
      <3>1. PICK q \in HandlerType : Becomes(h, q) /\ Chooses(r, q, <<>>, "error", r.counted)
        BY <1>0, <1>5, <1>6, <2>3, GoesRecord DEF r
      <3>2. Follows(q, Store, shown)
        BY <1>0, <1>1, <1>2, <2>1, <3>1, AnswerFollows DEF Chooses
      <3>3. QED
        BY <1>4, <2>3, <3>1, <3>2 DEF Chooses, Goes
    <2>4. CASE /\ handler' = [handler EXCEPT ![h] = [@ EXCEPT !.todo = <<"count">>, !.counted = TRUE]]
               /\ UNCHANGED <<redis, memory, fallback, shown>>
      <3>1. PICK q \in HandlerType : Becomes(h, q) /\ Chooses(r, q, <<"count">>, r.say, TRUE)
        BY <1>0, <2>4, CountsRecord DEF r
      <3>2. Follows(q, Store, shown)
        BY <1>0, <1>1, <1>2, <2>1, <3>1, AnswerFollows DEF Chooses
      <3>3. QED
        BY <1>4, <2>4, <3>1, <3>2 DEF Chooses
    <2>5. QED
      BY <1>8, <2>2, <2>3, <2>4 DEF AnswerQuestion
  <1>9. CASE CheckLoop(h)
    <2>1. r.counted
      BY <1>9 DEF CheckLoop, r
    <2>2. CASE r.count >= Threshold /\ Goes(h, <<"reset", "assistant">>, "transfer_loop")
      <3>1. PICK q \in HandlerType :
              Becomes(h, q) /\ Chooses(r, q, <<"reset", "assistant">>, "transfer_loop", r.counted)
        BY <1>0, <1>5, <1>6, <2>2, GoesRecord DEF r
      <3>2. Follows(q, Store, shown)
        BY <1>0, <1>1, <1>2, <2>1, <2>2, <3>1, LoopFollows DEF Chooses
      <3>3. QED
        BY <1>4, <2>2, <3>1, <3>2 DEF Chooses, Goes
    <2>3. CASE ~(r.count >= Threshold) /\ Goes(h, <<"assistant">>, "noinfo")
      <3>1. PICK q \in HandlerType : Becomes(h, q) /\ Chooses(r, q, <<"assistant">>, "noinfo", r.counted)
        BY <1>0, <1>5, <1>6, <2>3, GoesRecord DEF r
      <3>2. Follows(q, Store, shown)
        BY <1>0, <1>1, <1>2, <2>1, <2>3, <3>1, LoopFollows DEF Chooses
      <3>3. QED
        BY <1>4, <2>3, <3>1, <3>2 DEF Chooses, Goes
    <2>4. QED
      BY <1>9, <2>2, <2>3 DEF CheckLoop, r
  <1>10. QED
    BY <1>7, <1>8, <1>9

LEMMA KeptFinish ==
    ASSUME Sound, Turn, Kept, NEW h \in Handlers, Finish(h)
    PROVE  Kept' /\ Answers
  <1> DEFINE r == handler[h]
  <1>1. /\ r \in HandlerType /\ r.pc = "ready" /\ r.todo = <<>> /\ r.say # "none" /\ Running(h)
        /\ shown \in Seq(Policy!Entry) /\ Store \in SessionType
    BY DEF Sound, Shape, Finish, Running, Store
  <1>2. Follows(r, Store, shown) /\ Blank(Store) /\ Policy!Failures(shown) < Threshold
    BY <1>1 DEF Kept
  <1>3. \A g \in Handlers : Running(g) => g = h
    BY <1>1 DEF Turn
  <1>4. PICK q \in HandlerType : q = HandlerAt("done") /\ q.pc = "done"
    BY HandlerAtType DEF HandlerAt
  <1>5. Becomes(h, q) /\ Store' = Store
    BY <1>4 DEF Finish, Becomes, Store
  <1>6. /\ Agrees(Store, shown') /\ Policy!Failures(shown') < Threshold /\ Answers
    <2>1. CASE r.kind = "agent"
      <3>1. shown' = shown /\ Agrees(Store, shown)
        BY <1>1, <1>2, <2>1, FinishFollows DEF Finish
      <3>2. QED
        BY <1>2, <3>1 DEF Answers
    <2>2. CASE r.kind # "agent"
      <3>1. shown' = Append(shown, EntryOf(r))
        BY <2>2 DEF Finish, EntryOf
      <3>2. /\ EntryOf(r) \in Policy!Entry /\ Policy!Allowed(shown, EntryOf(r))
            /\ Agrees(Store, shown') /\ Policy!Failures(shown') < Threshold
        BY <1>1, <1>2, <2>2, <3>1, FinishFollows
      <3>3. QED
        BY <3>1, <3>2 DEF Answers, Policy!Say
    <2>3. QED
      BY <2>1, <2>2
  <1>7. Kept'
    BY <1>2, <1>3, <1>4, <1>5, <1>6, KeptOne
  <1>8. QED
    BY <1>6, <1>7

LEMMA KeptStart ==
    ASSUME Sound, Turn, Kept, NEW h \in Handlers, NEW kind \in Kinds, Start(h, kind), Idle
    PROVE  Kept' /\ Answers
  <1>1. Shape /\ Store \in SessionType /\ shown \in Seq(Policy!Entry) /\ handler \in [Handlers -> HandlerType]
    BY DEF Sound, Shape, Store
  <1>2. PICK q \in HandlerType : Becomes(h, q) /\ Started(h, q)
    BY <1>1, StartStep
  <1>3. q.pc = "ready" /\ q.todo = FirstOps(q.kind) /\ q.say = FirstSay(q.kind) /\ ~q.counted
    BY <1>2 DEF Started
  <1>4. ~q.degraded
    <2>1. handler'[h] = [HandlerAt("ready") EXCEPT !.kind = kind, !.todo = FirstOps(kind), !.say = FirstSay(kind)]
      BY <1>1 DEF Start
    <2>2. handler'[h].degraded = HandlerAt("ready").degraded
      BY <2>1, HandlerAtType DEF HandlerType
    <2>3. QED
      BY <1>1, <1>2, <2>2, BecomesOne DEF HandlerAt
  <1>5. Agrees(Store, shown) /\ Blank(Store) /\ Policy!Failures(shown) < Threshold
    BY DEF Kept
  <1>6. Follows(q, Store, shown)
    BY <1>1, <1>3, <1>4, <1>5, FirstFollows
  <1>7. Store' = Store /\ shown' = shown
    BY DEF Start, Store
  <1>8. \A g \in Handlers : Running(g) => g = h
    BY DEF Idle
  <1>9. Kept'
    BY <1>2, <1>3, <1>5, <1>6, <1>7, <1>8, KeptOne
  <1>10. QED
    BY <1>7, <1>9 DEF Answers

\* A lost session, with no handler at work, has to be said to be forgotten.
LEMMA KeptExpire ==
    ASSUME Sound, Turn, Kept, Expire
    PROVE  Kept' /\ Answers
  <1>1. shown \in Seq(Policy!Entry) /\ shown' = Append(shown, Policy!Forgot) /\ Idle /\ ~fallback
    BY DEF Sound, Shape, Expire, Policy!Forgot
  <1>2. Policy!Forgot \in Policy!Entry /\ Policy!Allowed(shown, Policy!Forgot)
    BY DEF Policy!Forgot, Policy!Entry, Policy!Says, Policy!Allowed
  <1>3. Policy!Failures(shown') = 0 /\ ~Policy!Asked(shown')
    <2>1. /\ Policy!Failures(shown') = FailuresAfter(Policy!Failures(shown), Policy!Forgot)
          /\ Policy!Asked(shown') <=> AskedAfter(Policy!Asked(shown), Policy!Forgot)
      BY <1>1, <1>2, FailuresGrow, AskedGrows
    <2>2. Policy!Forgot.say = "forgot"
      BY DEF Policy!Forgot
    <2>3. QED
      BY <2>1, <2>2 DEF FailuresAfter, AskedAfter
  <1>4. Store' = NoSession /\ UNCHANGED handler
    BY <1>1 DEF Expire, Store
  <1>5. Blank(Store') /\ Agrees(Store', shown')
    BY <1>3, <1>4 DEF Blank, Agrees, NoSession
  <1>6. \A g \in Handlers : ~Running(g)'
    BY <1>1, <1>4 DEF Idle, Running
  <1>7. Policy!Failures(shown') < Threshold
    BY <1>3, DialogueThresholdAssumption
  <1>8. Kept'
    BY <1>5, <1>6, <1>7 DEF Kept, Blank, Agrees, Policy!Failures, Policy!Asked
  <1>9. QED
    BY <1>1, <1>2, <1>8 DEF Answers, Policy!Say

LEMMA KeptStep ==
    ASSUME ~Concurrent, Sound, Turn, Kept, [Next]_vars
    PROVE  Kept' /\ Answers
  <1>1. CASE UNCHANGED vars
    <2>1. Kept'
      BY <1>1 DEF vars, Kept, Blank, Idle, Running, Store
    <2>2. QED
      BY <1>1, <2>1 DEF vars, Answers
  <1>2. ASSUME NEW h \in Handlers, HandlerStep(h)
        PROVE  Kept' /\ Answers
    BY <1>2, KeptLoad, KeptSave, KeptDecide, KeptFinish DEF HandlerStep
  <1>3. ASSUME NEW h \in Handlers, NEW kind \in Kinds, Start(h, kind)
        PROVE  Kept' /\ Answers
    <2>1. Idle
      BY <1>3 DEF Start
    <2>2. QED
      BY <1>3, <2>1, KeptStart
  <1>4. CASE Expire
    BY <1>4, KeptExpire
  <1>5. QED
    BY <1>1, <1>2, <1>3, <1>4 DEF Next

LEMMA KeptInit == Init => Kept
  <1> SUFFICES ASSUME Init PROVE Kept
    OBVIOUS
  <1>1. shown = <<>> /\ Store = NoSession /\ \A h \in Handlers : ~Running(h)
    BY DEF Init, Store, Running, HandlerAt
  <1>2. Policy!Failures(<<>>) = 0
    <2>1. <<>> \in Seq(Policy!Entry) /\ Len(<<>>) = 0
      BY EmptySeq
    <2>2. Counting(<<>>) \subseteq 1..0 /\ Policy!Failures(<<>>) = Cardinality(Counting(<<>>))
      BY <2>1, CountingFinite
    <2>3. Counting(<<>>) = {}
      BY <2>2
    <2>4. QED
      BY <2>2, <2>3, FS_EmptySet
  <1>3. ~Policy!Asked(<<>>)
    BY DEF Policy!Asked
  <1>4. Agrees(Store, shown) /\ Blank(Store)
    BY <1>1, <1>2, <1>3 DEF Agrees, Blank, NoSession
  <1>5. Policy!Failures(shown) < Threshold
    BY <1>1, <1>2, DialogueThresholdAssumption
  <1>6. QED
    BY <1>1, <1>4, <1>5 DEF Kept

\* _handle_message and session_manager, one message of the session at a time:
\* whatever the messages, wherever Redis fails and whenever the session
\* expires, the customer sees what the policy allows.
THEOREM PolicyImplemented ==
    ASSUME ~Concurrent
    PROVE  Spec => PolicySpec
  <1>1. Init => Policy!Init
    BY DEF Init, Policy!Init
  <1>2. Sound /\ Turn /\ Kept /\ [Next]_vars => Kept' /\ [Policy!Next]_shown
    <2> SUFFICES ASSUME Sound, Turn, Kept, [Next]_vars
                 PROVE  Kept' /\ [Policy!Next]_shown
      OBVIOUS
    <2>1. Kept' /\ Answers
      BY KeptStep
    <2>2. QED
      BY <2>1 DEF Answers, Policy!Next
  <1>3. Sound /\ Turn /\ [Next]_vars => Turn'
    BY TurnStep
  <1>4. Spec => []Turn
    BY <1>3, TurnInit, SoundInvariant, PTL DEF Spec
  <1>5. Spec => Policy!Init /\ [][Policy!Next]_shown
    BY <1>1, <1>2, <1>4, KeptInit, SoundInvariant, PTL DEF Spec
  <1>6. QED
    BY <1>5, PTL DEF PolicySpec, Policy!Spec

---------------------------------------------------------------------------
(* What the customer can count on                                          *)

Asks(e) == e.say = "ask" /\ ~e.degraded

\* awaiting_order_number: between two requests for an order number the customer
\* got another answer, unless Redis failed on the way.
AskedOnce ==
    \A i, j \in DOMAIN shown : i < j /\ Asks(shown[i]) /\ Asks(shown[j]) =>
        \E k \in (i + 1)..(j - 1) : shown[k].degraded \/ shown[k].say \notin {"silence", "transfer"}

\* RAG_LOOP_THRESHOLD: the last of too many failures in a row is a transfer.
FewFailures == Policy!Failures(shown) < Threshold

LEMMA PolicyOnce ==
    ASSUME Sound, AskedOnce, [Policy!Next]_shown
    PROVE  AskedOnce'
  <1>1. CASE UNCHANGED shown
    BY <1>1 DEF AskedOnce
  <1>2. ASSUME NEW e \in Policy!Entry, Policy!Say(e)
        PROVE  AskedOnce'
    <2> DEFINE n == Len(shown)
    <2>1. /\ n \in Nat /\ shown'[n + 1] = e /\ \A i \in 1..n : shown'[i] = shown[i]
          /\ DOMAIN shown' = 1..(n + 1) /\ DOMAIN shown = 1..n
      BY <1>2, OneMore DEF Sound, Shape, Policy!Say
    <2> SUFFICES ASSUME NEW i \in 1..(n + 1), NEW j \in 1..(n + 1), i < j, Asks(shown'[i]), Asks(shown'[j])
                 PROVE  \E k \in (i + 1)..(j - 1) :
                          shown'[k].degraded \/ shown'[k].say \notin {"silence", "transfer"}
      BY <2>1 DEF AskedOnce
    <2>2. i \in 1..n /\ Asks(shown[i])
      BY <2>1
    <2>3. CASE j \in 1..n
      <3>1. PICK k \in (i + 1)..(j - 1) : shown[k].degraded \/ shown[k].say \notin {"silence", "transfer"}
        BY <2>1, <2>2, <2>3 DEF AskedOnce
      <3>2. k \in 1..n
        BY <2>1, <2>2, <2>3
      <3>3. QED
        BY <2>1, <3>1, <3>2
    <2>4. CASE j = n + 1
      <3>1. e.say = "ask" /\ ~e.degraded
        BY <2>1, <2>4 DEF Asks
      <3>2. ~Policy!Asked(shown)
        BY <1>2, <3>1 DEF Policy!Say, Policy!Allowed
      <3>3. PICK k \in (i + 1)..n : shown[k].degraded \/ shown[k].say \notin {"silence", "transfer"}
        BY <2>1, <2>2, <3>2 DEF Policy!Asked, Asks
      <3>4. k \in 1..n /\ k \in (i + 1)..(j - 1)
        BY <2>1, <2>2, <2>4
      <3>5. QED
        BY <2>1, <3>3, <3>4
    <2>5. QED
      BY <2>1, <2>3, <2>4
  <1>3. QED
    BY <1>1, <1>2 DEF Policy!Next

\* RAG_LOOP_THRESHOLD: one message at a time, the bot never says Threshold
\* times in a row that it does not know, wherever Redis fails.
THEOREM FailuresInARow ==
    ASSUME ~Concurrent
    PROVE  Spec => []FewFailures
  <1>1. Kept => FewFailures
    BY DEF Kept, FewFailures
  <1>2. Sound /\ Turn /\ Kept /\ [Next]_vars => Kept' /\ Turn'
    BY KeptStep, TurnStep
  <1>3. QED
    BY <1>1, <1>2, KeptInit, TurnInit, SoundInvariant, PTL DEF Spec

\* awaiting_order_number: one message at a time, a customer who was asked for
\* an order number is not asked again before another answer came, unless Redis
\* failed in between.
THEOREM AsksOnce ==
    ASSUME ~Concurrent
    PROVE  Spec => []AskedOnce
  <1>1. Init => AskedOnce
    BY DEF Init, AskedOnce
  <1>2. Sound /\ AskedOnce /\ [Policy!Next]_shown => AskedOnce'
    BY PolicyOnce
  <1>3. PolicySpec => [][Policy!Next]_shown
    BY PTL DEF PolicySpec, Policy!Spec
  <1>4. QED
    BY <1>1, <1>2, <1>3, PolicyImplemented, SoundInvariant, PTL DEF Spec
=============================================================================
