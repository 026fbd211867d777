---------------------------- MODULE PersistQueue ----------------------------
(***************************************************************************)
(* The background writes of dialogue_manager.  _schedule_persist creates a *)
(* task per exchange and hands it the last task of its session; the task   *)
(* waits for that one, then reads the current conversation, adds the       *)
(* messages and commits.  A callback takes a task that ended out of the    *)
(* two registries; the event loop runs it some time after the end, other   *)
(* handlers and tasks may run in between.  The registries live in the      *)
(* process: a stop loses them, and the tasks.                              *)
(*                                                                         *)
(* Of the database it keeps what the order of the writes decides: how many *)
(* conversations each session has got.  The age of a conversation is the   *)
(* business of Takeover.                                                   *)
(***************************************************************************)
EXTENDS Naturals, FiniteSets

CONSTANTS
    Tasks,      \* exchanges to store, one task each
    Sessions,
    NoTask,     \* None
    MaxStops    \* bound on the stops of the server

ASSUME NoTaskAssumption == NoTask \notin Tasks
ASSUME MaxStopsAssumption == MaxStops \in Nat

VARIABLES
    last,           \* _last_persist_task
    pending,        \* _pending_persist_tasks
    task,           \* one record per task
    before,         \* history variable: the tasks of its session scheduled before
    conversations,  \* table conversations: rows of each session
    waiter,         \* wait_for_pending_persistence
    stops

vars == <<last, pending, task, before, conversations, waiter, stops>>

\* "ended": the coroutine returned, the callback has not run yet.
TaskPc == {"none", "waiting", "open", "ended", "gone"}
TaskType == [pc : TaskPc, of : Sessions, prev : Tasks \cup {NoTask}, conv : {"none", "current"},
             fate : {"none", "owed", "stored", "dropped", "lost"}]

Init ==
    /\ last = [s \in Sessions |-> NoTask]
    /\ pending = {}
    /\ task \in [Tasks -> {[pc |-> "none", of |-> s, prev |-> NoTask, conv |-> "none",
                            fate |-> "none"] : s \in Sessions}]
    /\ before = [t \in Tasks |-> {}]
    /\ conversations = [s \in Sessions |-> 0]
    /\ waiter = [pc |-> "idle", tasks |-> {}, owed |-> {}]
    /\ stops = 0

\* _alive_in_this_loop (the process has one loop)
Alive(t) == task[t].pc \in {"waiting", "open"}
Scheduled(s) == {t \in Tasks : task[t].pc # "none" /\ task[t].of = s}
Done == {t \in Tasks : task[t].pc = "ended"}

---------------------------------------------------------------------------
\* Variant: the new task is not handed the last one.
Schedule_Unchained(t) ==
    LET s == task[t].of
    IN  /\ task[t].pc = "none"
        /\ task' = [task EXCEPT ![t] = [@ EXCEPT !.pc = "waiting", !.fate = "owed"]]
        /\ before' = [before EXCEPT ![t] = Scheduled(s)]
        /\ last' = [last EXCEPT ![s] = t]
        /\ pending' = pending \cup {t}
        /\ UNCHANGED <<conversations, waiter, stops>>

\* Variant: the previous task is tracked instead of the new one.
Schedule_Previous(t) ==
    LET s == task[t].of
    IN  /\ task[t].pc = "none"
        /\ task' = [task EXCEPT ![t] =
                      [@ EXCEPT !.pc = "waiting", !.prev = last[s], !.fate = "owed"]]
        /\ before' = [before EXCEPT ![t] = Scheduled(s)]
        /\ last' = [last EXCEPT ![s] = t]
        /\ pending' = pending \cup {last[s]}
        /\ UNCHANGED <<conversations, waiter, stops>>

\* Variant: only the last task of each session is tracked.
Schedule_Replaces(t) ==
    LET s == task[t].of
    IN  /\ task[t].pc = "none"
        /\ task' = [task EXCEPT ![t] =
                      [@ EXCEPT !.pc = "waiting", !.prev = last[s], !.fate = "owed"]]
        /\ before' = [before EXCEPT ![t] = Scheduled(s)]
        /\ last' = [last EXCEPT ![s] = t]
        /\ pending' = (pending \ {last[s]}) \cup {t}
        /\ UNCHANGED <<conversations, waiter, stops>>

\* Variant: the task is registered before the previous one is looked up.
Schedule_Itself(t) ==
    LET s == task[t].of
    IN  /\ task[t].pc = "none"
        /\ task' = [task EXCEPT ![t] =
                      [@ EXCEPT !.pc = "waiting", !.prev = t, !.fate = "owed"]]
        /\ before' = [before EXCEPT ![t] = Scheduled(s)]
        /\ last' = [last EXCEPT ![s] = t]
        /\ pending' = pending \cup {t}
        /\ UNCHANGED <<conversations, waiter, stops>>

\* _schedule_persist
Schedule(t) ==
    LET s == task[t].of
    IN  /\ task[t].pc = "none"
        /\ task' = [task EXCEPT ![t] =
                      [@ EXCEPT !.pc = "waiting", !.prev = last[s], !.fate = "owed"]]
        /\ before' = [before EXCEPT ![t] = Scheduled(s)]
        /\ last' = [last EXCEPT ![s] = t]
        /\ pending' = pending \cup {t}
        /\ UNCHANGED <<conversations, waiter, stops>>

\* _persist_exchange once the previous task has ended: the transaction looks
\* for the current conversation.
Begin(t) ==
    /\ task[t].pc = "waiting"
    /\ \A d \in {task[t].prev} \ {NoTask} : ~Alive(d)
    /\ task' = [task EXCEPT ![t] =
                  [@ EXCEPT !.pc = "open", !.conv = IF conversations[task[t].of] > 0 THEN "current" ELSE "none"]]
    /\ UNCHANGED <<last, pending, before, conversations, waiter, stops>>

Ends(t, fate) ==
    task' = [task EXCEPT ![t] = [@ EXCEPT !.pc = "ended", !.fate = fate]]

\* It commits, with a new conversation if there was none.
Commit(t) ==
    /\ task[t].pc = "open"
    /\ Ends(t, "stored")
    /\ conversations' = IF task[t].conv = "current" THEN conversations
                        ELSE [conversations EXCEPT ![task[t].of] = @ + 1]
    /\ UNCHANGED <<last, pending, before, waiter, stops>>

\* An exception of the database is logged; nothing is tried again.
Fail(t) ==
    /\ task[t].pc = "open"
    /\ Ends(t, "dropped")
    /\ UNCHANGED <<last, pending, before, conversations, waiter, stops>>

\* Variant: it does not look whether it is the last task.
Callback_Always(t) ==
    /\ task[t].pc = "ended"
    /\ task' = [task EXCEPT ![t] = [@ EXCEPT !.pc = "gone"]]
    /\ pending' = pending \ {t}
    /\ last' = [last EXCEPT ![task[t].of] = NoTask]
    /\ UNCHANGED <<before, conversations, waiter, stops>>

\* Variant: the last task of a session stays registered.
Callback_Keeps(t) ==
    /\ task[t].pc = "ended"
    /\ task' = [task EXCEPT ![t] = [@ EXCEPT !.pc = "gone"]]
    /\ pending' = pending \ {t}
    /\ UNCHANGED <<last, before, conversations, waiter, stops>>

\* _done
Callback(t) ==
    /\ task[t].pc = "ended"
    /\ task' = [task EXCEPT ![t] = [@ EXCEPT !.pc = "gone"]]
    /\ pending' = pending \ {t}
    /\ last' = IF last[task[t].of] = t THEN [last EXCEPT ![task[t].of] = NoTask] ELSE last
    /\ UNCHANGED <<before, conversations, waiter, stops>>

\* wait_for_pending_persistence forgets the tasks that ended, and waits for
\* the others.
Wait ==
    /\ waiter.pc = "idle"
    /\ waiter' = [pc |-> "waiting", tasks |-> {t \in pending : Alive(t)},
                  owed |-> {t \in Tasks : Alive(t)}]
    /\ pending' = {t \in pending : Alive(t)}
    /\ UNCHANGED <<last, task, before, conversations, stops>>

Waited ==
    /\ waiter.pc = "waiting"
    /\ \A t \in waiter.tasks : ~Alive(t)
    /\ waiter' = [waiter EXCEPT !.pc = "idle"]
    /\ UNCHANGED <<last, pending, task, before, conversations, stops>>

\* The process stops, on purpose or not, and starts again: lifespan waits for
\* nothing after its yield.
Stop ==
    /\ stops < MaxStops
    /\ stops' = stops + 1
    /\ last' = [s \in Sessions |-> NoTask]
    /\ pending' = {}
    /\ task' = [t \in Tasks |->
         IF task[t].pc = "none" THEN task[t]
         ELSE [task[t] EXCEPT !.pc = "gone", !.fate = IF Alive(t) THEN "lost" ELSE @]]
    /\ waiter' = [pc |-> "idle", tasks |-> {}, owed |-> {}]
    /\ UNCHANGED <<before, conversations>>

Next ==
    \/ \E t \in Tasks : Schedule(t) \/ Begin(t) \/ Commit(t) \/ Fail(t) \/ Callback(t)
    \/ Wait \/ Waited
    \/ Stop

Spec == Init /\ [][Next]_vars

\* The event loop resumes a task whose previous one has ended and runs the
\* callbacks.  That a transaction is over some day is assumed of the database:
\* no time limit of the code bounds a query, so a connection that stays open
\* and silent is outside of this.
Fairness ==
    \A t \in Tasks :
        WF_vars(Begin(t)) /\ WF_vars(Commit(t) \/ Fail(t)) /\ WF_vars(Callback(t))
FairSpec == Spec /\ Fairness

---------------------------------------------------------------------------
(* Properties                                                              *)

TypeOK ==
    /\ last \in [Sessions -> Tasks \cup {NoTask}]
    /\ pending \subseteq Tasks
    /\ task \in [Tasks -> TaskType]
    /\ before \in [Tasks -> SUBSET Tasks]
    /\ conversations \in [Sessions -> Nat]
    /\ waiter \in [pc : {"idle", "waiting"}, tasks : SUBSET Tasks, owed : SUBSET Tasks]
    /\ stops \in 0..MaxStops

\* "les messages d'une même conversation soient écrits dans l'ordre": a task
\* has a transaction open only once every earlier task of its session ended.
WrittenInOrder ==
    \A t \in Tasks : task[t].pc = "open" => \A d \in before[t] : ~Alive(d)

\* "la conversation ne soit créée qu'une fois": no session gets a second
\* conversation from two exchanges that both found none.
OneConversation == \A s \in Sessions : conversations[s] <= 1

\* The registries keep no task that is over: a server that runs for months
\* does not collect one entry per customer.
NothingKept ==
    /\ pending \subseteq {t \in Tasks : Alive(t)} \cup Done
    /\ \A s \in Sessions : last[s] \in {t \in Tasks : Alive(t)} \cup Done \cup {NoTask}

\* wait_for_pending_persistence waits for every write under way when it was
\* called, queued ones included.
WaitCovers ==
    waiter.pc = "waiting" => \A t \in waiter.owed : Alive(t) => t \in waiter.tasks

\* A write that is slow or fails stops none behind it: every exchange that is
\* scheduled is written, given up or lost with the process, and forgotten.
ExchangesSettle == \A t \in Tasks : task[t].fate = "owed" ~> task[t].pc = "gone"

\* The chain of tasks is a queue per session, whatever the failures, the
\* delays of the callbacks and the stops.
Log == INSTANCE ExchangeLog WITH
    Exchanges <- Tasks, fate <- [t \in Tasks |-> task[t].fate]
LogSpec == Log!Spec
=============================================================================
