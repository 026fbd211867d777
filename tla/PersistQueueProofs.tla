------------------------- MODULE PersistQueueProofs -------------------------
(***************************************************************************)
(* The background writes keep their order, whatever the number of tasks,   *)
(* sessions and stops.                                                     *)
(*                                                                         *)
(* The argument: a task that was handed a predecessor comes right after it *)
(* in its session (Chained), and one that was handed none comes after      *)
(* tasks that are all over, because the registry is only emptied by the    *)
(* last task of the session (Registered).  So when the predecessor is over *)
(* everything before it is, too (Served).                                  *)
(***************************************************************************)
EXTENDS PersistQueue, TLAPS

\* What was scheduled before a task: other tasks of its session.
Placed ==
    \A t \in Tasks : \A d \in before[t] :
        task[d].pc # "none" /\ task[t].pc # "none" /\ task[d].of = task[t].of /\ d # t

\* The tasks of a session are totally ordered.
Ordered ==
    \A t, u \in Tasks :
        (task[t].pc # "none" /\ task[u].pc # "none" /\ task[t].of = task[u].of /\ t # u)
        => t \in before[u] \/ u \in before[t]

\* The registered task is the last of its session; a session without one has
\* no task under way.
Registered ==
    \A s \in Sessions :
        /\ last[s] = NoTask => \A t \in Scheduled(s) : ~Alive(t)
        /\ last[s] # NoTask => /\ last[s] \in Scheduled(s)
                               /\ Scheduled(s) = before[last[s]] \cup {last[s]}

\* The predecessor a task was handed is the one just before it; without one,
\* nothing before it is under way.
Chained ==
    \A t \in Tasks : task[t].pc # "none" =>
        /\ task[t].prev = NoTask => \A d \in before[t] : ~Alive(d)
        /\ task[t].prev # NoTask => before[t] = before[task[t].prev] \cup {task[t].prev}

\* A task that stopped waiting comes after tasks that are over.
Served ==
    \A t \in Tasks : task[t].pc \notin {"none", "waiting"} => \A d \in before[t] : ~Alive(d)

\* An open transaction that found no conversation is about to create the first.
FirstOne ==
    \A t \in Tasks : (task[t].pc = "open" /\ task[t].conv = "none") => conversations[task[t].of] = 0

\* Every task under way is pending, and a waiter was only promised tasks that
\* had been scheduled.
Tracked ==
    /\ \A t \in Tasks : Alive(t) => t \in pending
    /\ \A t \in waiter.owed : task[t].pc # "none"

\* What became of a task follows its progress.
FateFits ==
    \A t \in Tasks : /\ task[t].fate = "none" <=> task[t].pc = "none"
                     /\ task[t].fate = "owed" <=> Alive(t)

OrderInv == TypeOK /\ Placed /\ Ordered /\ Registered /\ Chained /\ Served

QueueInv == OrderInv /\ FirstOne /\ OneConversation /\ NothingKept /\ Tracked /\ WaitCovers
            /\ FateFits


---------------------------------------------------------------------------
USE NoTaskAssumption

LEMMA InitType == Init => TypeOK
  <1> SUFFICES ASSUME Init PROVE TypeOK
    OBVIOUS
  <1>1. \A s \in Sessions : [pc |-> "none", of |-> s, prev |-> NoTask, conv |-> "none",
                             fate |-> "none"] \in TaskType
    BY DEF TaskType, TaskPc
  <1>2. task \in [Tasks -> TaskType]
    BY <1>1 DEF Init
  <1>3. waiter \in [pc : {"idle", "waiting"}, tasks : SUBSET Tasks, owed : SUBSET Tasks]
    BY DEF Init
  <1>4. QED
    BY <1>2, <1>3, MaxStopsAssumption DEF Init, TypeOK

\* Overwriting fields of a task keeps its type.
LEMMA FieldTypes ==
    ASSUME NEW x \in TaskType, NEW pc \in TaskPc, NEW prev \in Tasks \cup {NoTask},
           NEW conv \in {"none", "current"},
           NEW fate \in {"none", "owed", "stored", "dropped", "lost"}
    PROVE  /\ [x EXCEPT !.pc = pc, !.prev = prev, !.fate = fate] \in TaskType
           /\ [x EXCEPT !.pc = pc, !.conv = conv] \in TaskType
           /\ [x EXCEPT !.pc = pc] \in TaskType
           /\ x.of \in Sessions /\ x.fate \in {"none", "owed", "stored", "dropped", "lost"}
  BY DEF TaskType

LEMMA FateType ==
    ASSUME NEW x \in TaskType, NEW pc \in TaskPc,
           NEW fate \in {"none", "owed", "stored", "dropped", "lost"}
    PROVE  [x EXCEPT !.pc = pc, !.fate = fate] \in TaskType
  BY DEF TaskType

LEMMA NextType ==
    ASSUME TypeOK, [Next]_vars PROVE TypeOK'
  <1>a. /\ task \in [Tasks -> TaskType]
        /\ \A s \in Sessions : last[s] \in Tasks \cup {NoTask}
    BY DEF TypeOK
  <1>b. \A t \in Tasks : task[t].of \in Sessions
    BY <1>a, FieldTypes DEF TaskPc
  <1>1. ASSUME NEW t \in Tasks, Schedule(t) PROVE TypeOK'
    <2>1. [task[t] EXCEPT !.pc = "waiting", !.prev = last[task[t].of], !.fate = "owed"] \in TaskType
      BY <1>a, <1>b, FieldTypes DEF TaskPc
    <2>2. Scheduled(task[t].of) \subseteq Tasks
      BY DEF Scheduled
    <2>3. QED
      BY <1>1, <1>b, <2>1, <2>2 DEF Schedule, TypeOK
  <1>2. ASSUME NEW t \in Tasks, Begin(t) PROVE TypeOK'
    <2>1. PICK conv \in {"none", "current"} :
            task' = [task EXCEPT ![t] = [@ EXCEPT !.pc = "open", !.conv = conv]]
      BY <1>2 DEF Begin
    <2>2. [task[t] EXCEPT !.pc = "open", !.conv = conv] \in TaskType
      BY <1>a, FieldTypes DEF TaskPc
    <2>3. QED
      BY <1>2, <2>1, <2>2 DEF Begin, TypeOK
  <1>3. ASSUME NEW t \in Tasks, NEW fate \in {"stored", "dropped"}, Ends(t, fate)
        PROVE task' \in [Tasks -> TaskType]
    <2>1. [task[t] EXCEPT !.pc = "ended", !.fate = fate] \in TaskType
      BY <1>a, FateType DEF TaskPc
    <2>2. QED
      BY <1>3, <1>a, <2>1 DEF Ends
  <1>4. ASSUME NEW t \in Tasks, Commit(t) PROVE TypeOK'
    BY <1>3, <1>4, <1>b DEF Commit, TypeOK
  <1>5. ASSUME NEW t \in Tasks, Fail(t) PROVE TypeOK'
    BY <1>3, <1>5 DEF Fail, TypeOK
  <1>6. ASSUME NEW t \in Tasks, Callback(t) PROVE TypeOK'
    <2>1. [task[t] EXCEPT !.pc = "gone"] \in TaskType
      BY <1>a, FieldTypes DEF TaskPc
    <2>2. QED
      BY <1>6, <1>b, <2>1 DEF Callback, TypeOK
  <1>7. ASSUME Wait \/ Waited PROVE TypeOK'
    BY <1>7 DEF Wait, Waited, TypeOK
  <1>8. ASSUME Stop PROVE TypeOK'
    <2>1. ASSUME NEW t \in Tasks PROVE task'[t] \in TaskType
      <3>1. task[t].fate \in {"none", "owed", "stored", "dropped", "lost"}
        BY <1>a, FieldTypes DEF TaskPc
      <3>2. task[t] \in TaskType /\ "gone" \in TaskPc
        BY <1>a DEF TaskPc
      <3> DEFINE fate == IF Alive(t) THEN "lost" ELSE task[t].fate
      <3>3. task'[t] = IF task[t].pc = "none" THEN task[t]
                       ELSE [task[t] EXCEPT !.pc = "gone", !.fate = fate]
        BY <1>8 DEF Stop
      <3>4. [task[t] EXCEPT !.pc = "gone", !.fate = fate] \in TaskType
        BY <3>1, <3>2, FateType
      <3>5. QED
        BY <3>2, <3>3, <3>4
    <2>2. task' \in [Tasks -> TaskType]
      BY <1>8, <2>1 DEF Stop
    <2>3. stops' \in 0..MaxStops
      <3>1. stops \in 0..MaxStops /\ stops < MaxStops /\ stops' = stops + 1
        BY <1>8 DEF Stop, TypeOK
      <3>2. QED
        BY <3>1, MaxStopsAssumption
    <2>4. QED
      BY <1>8, <2>2, <2>3 DEF Stop, TypeOK
  <1>9. CASE UNCHANGED vars
    BY <1>9 DEF vars, TypeOK
  <1>10. QED
    BY <1>1, <1>2, <1>4, <1>5, <1>6, <1>7, <1>8, <1>9 DEF Next

\* The type of every variable holds in every reachable state.
THEOREM TypeCorrect == Spec => []TypeOK
  <1>1. QED
    BY InitType, NextType, PTL DEF Spec

---------------------------------------------------------------------------
(* The order of the writes.                                                *)

\* A step that schedules nothing: no task goes back to work.
Advance ==
    /\ before' = before
    /\ \A t \in Tasks :
         /\ task'[t].of = task[t].of /\ task'[t].prev = task[t].prev
         /\ task'[t].pc = "none" <=> task[t].pc = "none"
         /\ Alive(t)' => Alive(t)

LEMMA AdvanceKeeps ==
    ASSUME OrderInv, Advance
    PROVE  /\ Placed' /\ Ordered' /\ Chained'
           /\ \A s \in Sessions : Scheduled(s)' = Scheduled(s)
  <1>1. Placed'
    BY DEF OrderInv, Advance, Placed, TypeOK
  <1>2. Ordered'
    BY DEF OrderInv, Advance, Ordered
  <1>3. Chained'
    <2>1. ASSUME NEW t \in Tasks, task'[t].pc # "none"
          PROVE  /\ task'[t].prev = NoTask => \A d \in before'[t] : ~Alive(d)'
                 /\ task'[t].prev # NoTask =>
                      before'[t] = before'[task'[t].prev] \cup {task'[t].prev}
      <3>1. /\ task[t].pc # "none" /\ task'[t].prev = task[t].prev /\ before' = before
            /\ before[t] \subseteq Tasks
        BY <2>1 DEF Advance, OrderInv, TypeOK
      <3>2. /\ task[t].prev = NoTask => \A d \in before[t] : ~Alive(d)
            /\ task[t].prev # NoTask => before[t] = before[task[t].prev] \cup {task[t].prev}
        BY <3>1 DEF OrderInv, Chained
      <3>3. \A d \in Tasks : Alive(d)' => Alive(d)
        BY DEF Advance
      <3>4. QED
        BY <3>1, <3>2, <3>3
    <2>2. QED
      BY <2>1 DEF Chained
  <1>4. \A s \in Sessions : Scheduled(s)' = Scheduled(s)
    BY DEF Advance, Scheduled
  <1>5. QED
    BY <1>1, <1>2, <1>3, <1>4

\* What one step does to its task, field by field.
LEMMA TaskStep ==
    ASSUME TypeOK, NEW t \in Tasks
    PROVE  /\ Schedule(t) =>
                /\ \A u \in Tasks \ {t} : task'[u] = task[u]
                /\ task'[t].pc = "waiting" /\ task'[t].of = task[t].of
                /\ task'[t].prev = last[task[t].of] /\ task'[t].fate = "owed"
           /\ Begin(t) =>
                /\ \A u \in Tasks \ {t} : task'[u] = task[u]
                /\ task'[t].pc = "open" /\ task'[t].of = task[t].of
                /\ task'[t].prev = task[t].prev /\ task'[t].fate = task[t].fate
                /\ task'[t].conv = IF conversations[task[t].of] > 0 THEN "current" ELSE "none"
           /\ Commit(t) \/ Fail(t) =>
                /\ \A u \in Tasks \ {t} : task'[u] = task[u]
                /\ task'[t].pc = "ended" /\ task'[t].of = task[t].of
                /\ task'[t].prev = task[t].prev
                /\ task'[t].fate = IF Commit(t) THEN "stored" ELSE "dropped"
           /\ Callback(t) =>
                /\ \A u \in Tasks \ {t} : task'[u] = task[u]
                /\ task'[t].pc = "gone" /\ task'[t].of = task[t].of
                /\ task'[t].prev = task[t].prev /\ task'[t].fate = task[t].fate
  <1>1. task \in [Tasks -> TaskType] /\ task[t] \in TaskType
    BY DEF TypeOK
  <1>2. ASSUME NEW new, task' = [task EXCEPT ![t] = new]
        PROVE  task'[t] = new /\ \A u \in Tasks \ {t} : task'[u] = task[u]
    BY <1>1, <1>2
  <1>3. CASE Schedule(t)
    <2>1. task' = [task EXCEPT ![t] = [task[t] EXCEPT !.pc = "waiting",
                                         !.prev = last[task[t].of], !.fate = "owed"]]
          /\ task[t].pc = "none"
      BY <1>3 DEF Schedule
    <2>2. QED
      BY <1>1, <2>1, <1>2 DEF TaskType, Begin, Commit, Fail, Callback
  <1>4. CASE Begin(t)
    <2>1. task' = [task EXCEPT ![t] = [task[t] EXCEPT !.pc = "open",
                     !.conv = IF conversations[task[t].of] > 0 THEN "current" ELSE "none"]]
          /\ task[t].pc = "waiting"
      BY <1>4 DEF Begin
    <2>2. QED
      BY <1>1, <2>1, <1>2 DEF TaskType, Schedule, Commit, Fail, Callback
  <1>5. CASE Commit(t) \/ Fail(t)
    <2> DEFINE fate == IF Commit(t) THEN "stored" ELSE "dropped"
    <2>1. task' = [task EXCEPT ![t] = [task[t] EXCEPT !.pc = "ended", !.fate = fate]]
          /\ task[t].pc = "open"
      BY <1>5 DEF Commit, Fail, Ends
    <2> HIDE DEF fate
    <2>2. /\ \A u \in Tasks \ {t} : task'[u] = task[u]
          /\ task'[t].pc = "ended" /\ task'[t].of = task[t].of
          /\ task'[t].prev = task[t].prev /\ task'[t].fate = fate
      BY <1>1, <2>1, <1>2 DEF TaskType
    <2>3. ~Schedule(t) /\ ~Begin(t) /\ ~Callback(t)
      BY <2>1 DEF Schedule, Begin, Callback
    <2>4. QED
      BY <2>2, <2>3 DEF fate
  <1>6. CASE Callback(t)
    <2>1. task' = [task EXCEPT ![t] = [task[t] EXCEPT !.pc = "gone"]] /\ task[t].pc = "ended"
      BY <1>6 DEF Callback
    <2>2. QED
      BY <1>1, <2>1, <1>2 DEF TaskType, Schedule, Begin, Commit, Fail
  <1>7. QED
    BY <1>3, <1>4, <1>5, <1>6

LEMMA StopStep ==
    ASSUME TypeOK, Stop, NEW t \in Tasks
    PROVE  /\ task'[t].of = task[t].of /\ task'[t].prev = task[t].prev
           /\ task[t].pc = "none" => task'[t] = task[t]
           /\ task[t].pc # "none" =>
                /\ task'[t].pc = "gone"
                /\ task'[t].fate = IF Alive(t) THEN "lost" ELSE task[t].fate
  <1> task[t] \in TaskType
    BY DEF TypeOK
  <1>1. QED
    BY DEF Stop, TaskType

LEMMA InitOrder == Init => OrderInv
  <1> SUFFICES ASSUME Init PROVE OrderInv
    OBVIOUS
  <1>1. TypeOK /\ \A t \in Tasks : task[t].pc = "none" /\ before[t] = {}
    BY InitType DEF Init
  <1>2. \A s \in Sessions : Scheduled(s) = {} /\ last[s] = NoTask
    BY <1>1 DEF Init, Scheduled
  <1>3. QED
    BY <1>1, <1>2 DEF OrderInv, Placed, Ordered, Registered, Chained, Served

\* A new task comes after all those of its session.
LEMMA ScheduleOrder ==
    ASSUME OrderInv, TypeOK', NEW t \in Tasks, Schedule(t) PROVE OrderInv'
  <1>0. PICK s \in Sessions : s = task[t].of
    BY FieldTypes DEF OrderInv, TypeOK, TaskPc
  <1>1. /\ task[t].pc = "none" /\ last[s] \in Tasks \cup {NoTask}
        /\ before' = [before EXCEPT ![t] = Scheduled(s)]
        /\ last' = [last EXCEPT ![s] = t]
    BY <1>0 DEF OrderInv, TypeOK, Schedule
  <1>2. /\ \A u \in Tasks \ {t} : task'[u] = task[u] /\ before'[u] = before[u]
        /\ task'[t].pc = "waiting" /\ task'[t].of = s /\ task'[t].prev = last[s]
        /\ before'[t] = Scheduled(s) /\ last'[s] = t
        /\ \A z \in Sessions \ {s} : last'[z] = last[z]
        /\ t \notin Scheduled(s)
    BY <1>0, <1>1, TaskStep DEF OrderInv, TypeOK, Scheduled
  <1>3. Scheduled(s)' = Scheduled(s) \cup {t}
    BY <1>0, <1>1, <1>2 DEF Scheduled
  <1>4. \A z \in Sessions \ {s} : Scheduled(z)' = Scheduled(z)
    BY <1>0, <1>1, <1>2 DEF Scheduled
  <1>5. \A u \in Tasks \ {t} : Alive(u)' <=> Alive(u)
    BY <1>2 DEF Alive
  <1>6. \A u \in Tasks : t \notin before[u]
    BY <1>1 DEF OrderInv, Placed
  <1>7. Placed'
    <2>1. ASSUME NEW u \in Tasks, NEW d \in before'[u]
          PROVE  task'[d].pc # "none" /\ task'[u].pc # "none" /\ task'[d].of = task'[u].of
                 /\ d # u
      <3>1. CASE u = t
        BY <1>0, <1>2, <3>1 DEF Scheduled
      <3>2. CASE u # t
        <4>1. d \in before[u] /\ d # t /\ d \in Tasks
          BY <1>2, <1>6, <3>2 DEF OrderInv, TypeOK
        <4>2. QED
          BY <1>2, <3>2, <4>1 DEF OrderInv, Placed
      <3>3. QED
        BY <3>1, <3>2
    <2>2. QED
      BY <2>1 DEF Placed
  <1>8. Ordered'
    BY <1>0, <1>1, <1>2 DEF OrderInv, Ordered, Scheduled
  <1>9. Registered'
    <2>1. ASSUME NEW z \in Sessions
          PROVE  /\ last'[z] = NoTask => \A u \in Scheduled(z)' : ~Alive(u)'
                 /\ last'[z] # NoTask =>
                      /\ last'[z] \in Scheduled(z)'
                      /\ Scheduled(z)' = before'[last'[z]] \cup {last'[z]}
      <3>1. CASE z = s
        BY <1>2, <1>3, <3>1 DEF Scheduled
      <3>2. CASE z # s
        <4>1. last'[z] = last[z] /\ Scheduled(z)' = Scheduled(z) /\ t \notin Scheduled(z)
              /\ Scheduled(z) \subseteq Tasks
          BY <1>1, <1>2, <1>4, <3>2 DEF Scheduled
        <4>2. /\ last[z] = NoTask => \A u \in Scheduled(z) : ~Alive(u)
              /\ last[z] # NoTask => /\ last[z] \in Scheduled(z)
                                     /\ Scheduled(z) = before[last[z]] \cup {last[z]}
          BY DEF OrderInv, Registered
        <4>3. QED
          BY <1>2, <1>5, <4>1, <4>2
      <3>3. QED
        BY <3>1, <3>2
    <2>2. QED
      BY <2>1 DEF Registered
  <1>10. Chained'
    <2>1. ASSUME NEW u \in Tasks, task'[u].pc # "none"
          PROVE  /\ task'[u].prev = NoTask => \A d \in before'[u] : ~Alive(d)'
                 /\ task'[u].prev # NoTask =>
                      before'[u] = before'[task'[u].prev] \cup {task'[u].prev}
      <3>0. /\ last[s] = NoTask => \A d \in Scheduled(s) : ~Alive(d)
            /\ last[s] # NoTask => /\ last[s] \in Scheduled(s)
                                   /\ Scheduled(s) = before[last[s]] \cup {last[s]}
            /\ Scheduled(s) \subseteq Tasks
        BY <1>1 DEF OrderInv, Registered, Scheduled
      <3>1. CASE u = t
        BY <1>2, <1>5, <3>0, <3>1
      <3>2. CASE u # t
        <4>1. /\ task[u].prev = NoTask => \A d \in before[u] : ~Alive(d)
              /\ task[u].prev # NoTask => before[u] = before[task[u].prev] \cup {task[u].prev}
              /\ before[u] \subseteq Tasks
          BY <1>2, <2>1, <3>2 DEF OrderInv, Chained, TypeOK
        <4>2. task[u].prev # NoTask => task[u].prev \in Tasks \ {t}
          BY <1>6, <4>1
        <4>3. QED
          BY <1>2, <1>5, <1>6, <3>2, <4>1, <4>2
      <3>3. QED
        BY <3>1, <3>2
    <2>2. QED
      BY <2>1 DEF Chained
  <1>11. Served'
    <2>1. ASSUME NEW u \in Tasks, task'[u].pc \notin {"none", "waiting"}
          PROVE  \A d \in before'[u] : ~Alive(d)'
      <3>1. u # t /\ task[u].pc \notin {"none", "waiting"} /\ before'[u] = before[u]
            /\ before[u] \subseteq Tasks
        BY <1>2, <2>1 DEF OrderInv, TypeOK
      <3>2. \A d \in before[u] : ~Alive(d)
        BY <3>1 DEF OrderInv, Served
      <3>3. QED
        BY <1>5, <1>6, <3>1, <3>2
    <2>2. QED
      BY <2>1 DEF Served
  <1>12. QED
    BY <1>7, <1>8, <1>9, <1>10, <1>11 DEF OrderInv

\* A step that advances and leaves the registry alone keeps it truthful.
LEMMA AdvanceRegistered ==
    ASSUME OrderInv, Advance, last' = last PROVE Registered'
  <1>1. ASSUME NEW s \in Sessions
        PROVE  /\ last'[s] = NoTask => \A t \in Scheduled(s)' : ~Alive(t)'
               /\ last'[s] # NoTask => /\ last'[s] \in Scheduled(s)'
                                      /\ Scheduled(s)' = before'[last'[s]] \cup {last'[s]}
    <2>1. /\ last[s] = NoTask => \A t \in Scheduled(s) : ~Alive(t)
          /\ last[s] # NoTask => /\ last[s] \in Scheduled(s)
                                 /\ Scheduled(s) = before[last[s]] \cup {last[s]}
      BY DEF OrderInv, Registered
    <2>2. /\ Scheduled(s)' = Scheduled(s) /\ Scheduled(s) \subseteq Tasks
          /\ before' = before /\ \A t \in Tasks : Alive(t)' => Alive(t)
      BY AdvanceKeeps DEF Advance, Scheduled
    <2>3. QED
      BY <2>1, <2>2
  <1>2. QED
    BY <1>1 DEF Registered

\* The tasks that stopped waiting before stay served.
LEMMA AdvanceServed ==
    ASSUME OrderInv, Advance, NEW t \in Tasks, task[t].pc \notin {"none", "waiting"}
    PROVE  \A d \in before'[t] : ~Alive(d)'
  BY DEF OrderInv, Advance, Served, TypeOK

\* A transaction opens once the predecessor is over, hence all before it.
LEMMA BeginOrder ==
    ASSUME OrderInv, TypeOK', NEW t \in Tasks, Begin(t) PROVE OrderInv' /\ Advance
  <1>1. /\ \A u \in Tasks \ {t} : task'[u] = task[u]
        /\ task'[t].pc = "open" /\ task'[t].of = task[t].of /\ task'[t].prev = task[t].prev
        /\ task[t].pc = "waiting" /\ before' = before /\ last' = last
        /\ \A d \in {task[t].prev} \ {NoTask} : ~Alive(d)
    BY TaskStep DEF OrderInv, Begin
  <1>2. Advance
    BY <1>1 DEF Advance, Alive
  <1>3. \A d \in before[t] : ~Alive(d)
    <2>1. CASE task[t].prev = NoTask
      BY <1>1, <2>1 DEF OrderInv, Chained
    <2>2. CASE task[t].prev # NoTask
      <3>1. before[t] = before[task[t].prev] \cup {task[t].prev} /\ before[t] \subseteq Tasks
        BY <1>1, <2>2 DEF OrderInv, Chained, TypeOK
      <3>2. task[task[t].prev].pc \notin {"none", "waiting"}
        BY <1>1, <2>2, <3>1 DEF OrderInv, Placed, Alive
      <3>3. \A d \in before[task[t].prev] : ~Alive(d)
        BY <3>1, <3>2 DEF OrderInv, Served
      <3>4. QED
        BY <1>1, <2>2, <3>1, <3>3
    <2>3. QED
      BY <2>1, <2>2
  <1>4. Served'
    <2>1. ASSUME NEW u \in Tasks, task'[u].pc \notin {"none", "waiting"}
          PROVE  \A d \in before'[u] : ~Alive(d)'
      <3>1. CASE u = t
        BY <1>2, <1>3, <3>1 DEF Advance, OrderInv, TypeOK
      <3>2. CASE u # t
        BY <1>1, <1>2, <2>1, <3>2, AdvanceServed
      <3>3. QED
        BY <3>1, <3>2
    <2>2. QED
      BY <2>1 DEF Served
  <1>5. QED
    BY <1>1, <1>2, <1>4, AdvanceKeeps, AdvanceRegistered DEF OrderInv

LEMMA EndOrder ==
    ASSUME OrderInv, TypeOK', NEW t \in Tasks, Commit(t) \/ Fail(t) PROVE OrderInv' /\ Advance
  <1>1. /\ \A u \in Tasks \ {t} : task'[u] = task[u]
        /\ task'[t].pc = "ended" /\ task'[t].of = task[t].of /\ task'[t].prev = task[t].prev
        /\ task[t].pc = "open" /\ before' = before /\ last' = last
    BY TaskStep DEF OrderInv, Commit, Fail
  <1>2. Advance
    BY <1>1 DEF Advance, Alive
  <1>3. Served'
    BY <1>1, <1>2, AdvanceServed DEF Served
  <1>4. QED
    BY <1>1, <1>2, <1>3, AdvanceKeeps, AdvanceRegistered DEF OrderInv

\* The callback empties the registry only for the last task of the session.
LEMMA CallbackOrder ==
    ASSUME OrderInv, TypeOK', NEW t \in Tasks, Callback(t) PROVE OrderInv' /\ Advance
  <1>1. /\ \A u \in Tasks \ {t} : task'[u] = task[u]
        /\ task'[t].pc = "gone" /\ task'[t].of = task[t].of /\ task'[t].prev = task[t].prev
        /\ task[t].pc = "ended" /\ before' = before
        /\ last' = IF last[task[t].of] = t THEN [last EXCEPT ![task[t].of] = NoTask] ELSE last
    BY TaskStep DEF OrderInv, Callback
  <1>2. Advance
    BY <1>1 DEF Advance, Alive
  <1>3. Served'
    BY <1>1, <1>2, AdvanceServed DEF Served
  <1>4. Registered'
    <2>1. CASE last' = last
      BY <1>2, <2>1, AdvanceRegistered
    <2>2. CASE last' # last
      <3>0. PICK s \in Sessions : s = task[t].of
        BY FieldTypes DEF OrderInv, TypeOK, TaskPc
      <3>1. last[s] = t /\ last'[s] = NoTask /\ \A z \in Sessions \ {s} : last'[z] = last[z]
        BY <1>1, <2>2, <3>0 DEF OrderInv, TypeOK
      <3>2. Scheduled(s) = before[t] \cup {t} /\ before[t] \subseteq Tasks
        BY <3>1 DEF OrderInv, Registered, TypeOK
      <3>3. \A d \in Scheduled(s) : ~Alive(d)
        BY <1>1, <3>2 DEF OrderInv, Served, Alive
      <3>4. ASSUME NEW z \in Sessions
            PROVE  /\ last'[z] = NoTask => \A u \in Scheduled(z)' : ~Alive(u)'
                   /\ last'[z] # NoTask =>
                        /\ last'[z] \in Scheduled(z)'
                        /\ Scheduled(z)' = before'[last'[z]] \cup {last'[z]}
        <4>1. /\ Scheduled(z)' = Scheduled(z) /\ Scheduled(z) \subseteq Tasks
              /\ before' = before /\ \A u \in Tasks : Alive(u)' => Alive(u)
          BY <1>2, AdvanceKeeps DEF Advance, Scheduled
        <4>2. CASE z = s
          BY <3>1, <3>3, <4>1, <4>2
        <4>3. CASE z # s
          <5>1. /\ last[z] = NoTask => \A u \in Scheduled(z) : ~Alive(u)
                /\ last[z] # NoTask => /\ last[z] \in Scheduled(z)
                                       /\ Scheduled(z) = before[last[z]] \cup {last[z]}
            BY DEF OrderInv, Registered
          <5>2. QED
            BY <3>1, <4>1, <4>3, <5>1
        <4>4. QED
          BY <4>2, <4>3
      <3>5. QED
        BY <3>4 DEF Registered
    <2>3. QED
      BY <2>1, <2>2
  <1>5. QED
    BY <1>2, <1>3, <1>4, AdvanceKeeps DEF OrderInv

LEMMA StopOrder ==
    ASSUME OrderInv, TypeOK', Stop PROVE OrderInv' /\ Advance
  <1>1. \A t \in Tasks : ~Alive(t)' /\ task'[t].of = task[t].of /\ task'[t].prev = task[t].prev
                         /\ (task'[t].pc = "none" <=> task[t].pc = "none")
    BY StopStep DEF OrderInv, Alive
  <1>2. Advance
    BY <1>1 DEF Advance, Stop
  <1>3. Served'
    BY <1>1 DEF OrderInv, Served, TypeOK
  <1>4. Registered'
    BY <1>1 DEF Registered, Stop, Scheduled
  <1>5. QED
    BY <1>2, <1>3, <1>4, AdvanceKeeps DEF OrderInv

\* A step that leaves tasks and registry alone.
LEMMA StillOrder ==
    ASSUME OrderInv, TypeOK', task' = task, before' = before, last' = last
    PROVE  OrderInv' /\ Advance
  <1>1. Advance
    BY DEF Advance, Alive
  <1>2. Served'
    BY <1>1, AdvanceServed DEF Served
  <1>3. QED
    BY <1>1, <1>2, AdvanceKeeps, AdvanceRegistered DEF OrderInv

LEMMA NextOrder ==
    ASSUME OrderInv, [Next]_vars PROVE OrderInv'
  <1>1. TypeOK'
    BY NextType DEF OrderInv
  <1>2. CASE Next
    BY <1>1, <1>2, ScheduleOrder, BeginOrder, EndOrder, CallbackOrder, StopOrder, StillOrder
    DEF Next, Wait, Waited
  <1>3. CASE UNCHANGED vars
    BY <1>1, <1>3, StillOrder DEF vars
  <1>4. QED
    BY <1>2, <1>3

\* "les messages d'une même conversation soient écrits dans l'ordre".
THEOREM WritesKeepOrder == Spec => []WrittenInOrder
  <1>1. OrderInv => WrittenInOrder
    BY DEF OrderInv, Served, WrittenInOrder
  <1>2. QED
    BY InitOrder, NextOrder, <1>1, PTL DEF Spec

---------------------------------------------------------------------------
(* What the order brings: one conversation, clean registries.              *)

\* At most one task of a session has a transaction open.
LEMMA OneWriter ==
    ASSUME OrderInv, NEW t \in Tasks, NEW u \in Tasks, t # u, task[t].of = task[u].of,
           task[t].pc = "open"
    PROVE  task[u].pc # "open"
  BY DEF OrderInv, Ordered, Served, Alive

LEMMA NextConversations ==
    ASSUME OrderInv, FirstOne, OneConversation, [Next]_vars
    PROVE  FirstOne' /\ OneConversation'
  <1> USE DEF OrderInv, TypeOK
  <1>1. ASSUME NEW t \in Tasks, Schedule(t) PROVE FirstOne' /\ OneConversation'
    BY <1>1, TaskStep DEF Schedule, FirstOne, OneConversation
  <1>2. ASSUME NEW t \in Tasks, Begin(t) PROVE FirstOne' /\ OneConversation'
    <2>1. conversations' = conversations /\ conversations[task[t].of] \in Nat
      BY <1>2, FieldTypes DEF Begin, TaskPc
    <2>2. QED
      BY <1>2, <2>1, TaskStep DEF FirstOne, OneConversation
  <1>3. ASSUME NEW t \in Tasks, Commit(t) PROVE FirstOne' /\ OneConversation'
    <2>0. PICK s \in Sessions : s = task[t].of
      BY FieldTypes DEF TaskPc
    <2>1. /\ \A u \in Tasks \ {t} : task'[u] = task[u]
          /\ task'[t].pc = "ended" /\ task[t].pc = "open"
          /\ task[t].conv \in {"none", "current"}
      BY <1>3, TaskStep DEF Commit, TaskType
    <2>2. CASE task[t].conv = "current"
      BY <1>3, <2>1, <2>2 DEF Commit, FirstOne, OneConversation
    <2>3. CASE task[t].conv = "none"
      <3>1. /\ conversations[s] = 0 /\ conversations'[s] = 1
            /\ \A z \in Sessions \ {s} : conversations'[z] = conversations[z]
        BY <1>3, <2>0, <2>1, <2>3 DEF Commit, FirstOne
      <3>2. OneConversation'
        BY <3>1 DEF OneConversation
      <3>3. ASSUME NEW u \in Tasks, task'[u].pc = "open", task'[u].conv = "none"
            PROVE  conversations'[task'[u].of] = 0
        <4>1. u # t /\ task'[u] = task[u] /\ task[u].of # s
          BY <2>0, <2>1, <3>3, OneWriter
        <4>2. task[u].of \in Sessions
          BY FieldTypes DEF TaskPc
        <4>3. QED
          BY <3>1, <3>3, <4>1, <4>2 DEF FirstOne
      <3>4. QED
        BY <3>2, <3>3 DEF FirstOne
    <2>4. QED
      BY <2>1, <2>2, <2>3
  <1>4. ASSUME NEW t \in Tasks, Fail(t) \/ Callback(t) PROVE FirstOne' /\ OneConversation'
    BY <1>4, TaskStep DEF Fail, Callback, FirstOne, OneConversation
  <1>5. CASE Stop
    <2>1. \A t \in Tasks : task'[t].pc # "open"
      BY <1>5, StopStep
    <2>2. QED
      BY <1>5, <2>1 DEF Stop, FirstOne, OneConversation
  <1>6. CASE Wait \/ Waited \/ UNCHANGED vars
    BY <1>6 DEF Wait, Waited, vars, FirstOne, OneConversation
  <1>7. QED
    BY <1>1, <1>2, <1>3, <1>4, <1>5, <1>6 DEF Next

\* Under way, or with a callback due.
Working(t) == task[t].pc \in {"waiting", "open", "ended"}
OnlyWorking ==
    /\ \A t \in pending : Working(t)
    /\ \A s \in Sessions : last[s] # NoTask => Working(last[s])

\* The registries: nothing under way is missing, nothing over is kept, and a
\* waiter has taken every task it owes.
LEMMA NextRegistries ==
    ASSUME OrderInv, TypeOK', NothingKept, Tracked, WaitCovers, [Next]_vars
    PROVE  NothingKept' /\ Tracked' /\ WaitCovers'
  <1>a. OnlyWorking
    BY DEF OrderInv, TypeOK, NothingKept, OnlyWorking, Working, Alive, Done
  <1>b. OnlyWorking' => NothingKept'
    BY DEF TypeOK, NothingKept, OnlyWorking, Working, Alive, Done
  <1>c. /\ waiter.owed \subseteq Tasks /\ pending \subseteq Tasks
        /\ last \in [Sessions -> Tasks \cup {NoTask}]
        /\ \A t \in Tasks : task[t].of \in Sessions
    BY FieldTypes DEF OrderInv, TypeOK, TaskPc
  <1>d. TypeOK
    BY DEF OrderInv
  <1>1. ASSUME NEW t \in Tasks, Schedule(t) PROVE OnlyWorking' /\ Tracked' /\ WaitCovers'
    <2>1. /\ \A u \in Tasks \ {t} : task'[u] = task[u]
          /\ task'[t].pc = "waiting" /\ task[t].pc = "none"
          /\ pending' = pending \cup {t} /\ waiter' = waiter
          /\ last' = [last EXCEPT ![task[t].of] = t]
      BY <1>1, <1>d, TaskStep DEF Schedule
    <2>2. t \notin waiter.owed
      BY <2>1 DEF Tracked
    <2>3. OnlyWorking'
      BY <1>a, <1>c, <2>1 DEF OnlyWorking, Working
    <2>4. Tracked' /\ WaitCovers'
      BY <1>c, <2>1, <2>2 DEF Tracked, WaitCovers, Alive
    <2>5. QED
      BY <2>3, <2>4
  <1>2. ASSUME NEW t \in Tasks, Begin(t) \/ Commit(t) \/ Fail(t)
        PROVE OnlyWorking' /\ Tracked' /\ WaitCovers'
    <2>1. /\ \A u \in Tasks \ {t} : task'[u] = task[u]
          /\ task'[t].pc \in {"open", "ended"} /\ task[t].pc \in {"waiting", "open"}
          /\ pending' = pending /\ waiter' = waiter /\ last' = last
      BY <1>2, <1>d, TaskStep DEF Begin, Commit, Fail
    <2>2. OnlyWorking'
      BY <1>a, <1>c, <2>1 DEF OnlyWorking, Working
    <2>3. Tracked' /\ WaitCovers'
      BY <1>c, <2>1 DEF Tracked, WaitCovers, Alive
    <2>4. QED
      BY <2>2, <2>3
  <1>3. ASSUME NEW t \in Tasks, Callback(t) PROVE OnlyWorking' /\ Tracked' /\ WaitCovers'
    <2>1. /\ \A u \in Tasks \ {t} : task'[u] = task[u]
          /\ task'[t].pc = "gone" /\ task[t].pc = "ended"
          /\ pending' = pending \ {t} /\ waiter' = waiter
          /\ last' = IF last[task[t].of] = t THEN [last EXCEPT ![task[t].of] = NoTask] ELSE last
      BY <1>3, <1>d, TaskStep DEF Callback
    <2>2. \A z \in Sessions : last[z] = t => z = task[t].of
      BY DEF OrderInv, Registered, Scheduled
    <2>3. \A z \in Sessions : last'[z] # t /\ last'[z] \in {last[z], NoTask}
      BY <1>c, <2>1, <2>2
    <2>4. OnlyWorking'
      BY <1>a, <1>c, <2>1, <2>3 DEF OnlyWorking, Working
    <2>5. Tracked' /\ WaitCovers'
      BY <1>c, <2>1 DEF Tracked, WaitCovers, Alive
    <2>6. QED
      BY <2>4, <2>5
  <1>4. CASE Wait
    BY <1>4, <1>b, <1>a, <1>c DEF Wait, OnlyWorking, Working, Tracked, WaitCovers, Alive
  <1>5. CASE Waited
    BY <1>5, <1>b, <1>a, <1>c, <1>d DEF Waited, OnlyWorking, Working, Tracked, WaitCovers, Alive, TypeOK
  <1>6. CASE Stop
    BY <1>6, <1>b, <1>d, StopStep DEF Stop, OnlyWorking, Tracked, WaitCovers, Alive
  <1>7. CASE UNCHANGED vars
    BY <1>7, <1>b, <1>a DEF vars, OnlyWorking, Working, Tracked, WaitCovers, Alive
  <1>8. QED
    BY <1>b, <1>1, <1>2, <1>3, <1>4, <1>5, <1>6, <1>7 DEF Next

LEMMA NextFates ==
    ASSUME TypeOK, FateFits, [Next]_vars PROVE FateFits'
  <1>1. ASSUME NEW t \in Tasks, Schedule(t) \/ Begin(t) \/ Commit(t) \/ Fail(t) \/ Callback(t)
        PROVE FateFits'
    <2>1. /\ \A u \in Tasks \ {t} : task'[u] = task[u]
          /\ task'[t].fate = "none" <=> task'[t].pc = "none"
          /\ task'[t].fate = "owed" <=> Alive(t)'
      BY <1>1, TaskStep DEF Schedule, Begin, Commit, Fail, Callback, Alive, FateFits
    <2>2. QED
      BY <2>1 DEF FateFits, Alive
  <1>2. CASE Stop
    BY <1>2, StopStep DEF FateFits, Alive
  <1>3. CASE Wait \/ Waited \/ UNCHANGED vars
    BY <1>3 DEF Wait, Waited, vars, FateFits, Alive
  <1>4. QED
    BY <1>1, <1>2, <1>3 DEF Next

LEMMA InitQueue == Init => QueueInv
  <1> SUFFICES ASSUME Init PROVE QueueInv
    OBVIOUS
  <1>1. \A t \in Tasks : task[t].pc = "none" /\ task[t].fate = "none"
    BY DEF Init
  <1>2. QED
    BY <1>1, InitOrder
    DEF Init, QueueInv, FirstOne, OneConversation, NothingKept, Tracked, WaitCovers, FateFits,
        Alive

LEMMA NextQueue == QueueInv /\ [Next]_vars => QueueInv'
  BY NextType, NextOrder, NextConversations, NextRegistries, NextFates DEF QueueInv, OrderInv

\* The invariant of the background writes.
THEOREM QueueInvariant == Spec => []QueueInv
  <1>1. QED
    BY InitQueue, NextQueue, PTL DEF Spec

\* "la conversation ne soit créée qu'une fois".
THEOREM ConversationOnce == Spec => []OneConversation
  <1>1. QueueInv => OneConversation
    BY DEF QueueInv
  <1>2. QED
    BY QueueInvariant, <1>1, PTL

\* The registries hold the tasks under way, or whose callback is due, only.
THEOREM RegistriesEmpty == Spec => []NothingKept
  <1>1. QueueInv => NothingKept
    BY DEF QueueInv
  <1>2. QED
    BY QueueInvariant, <1>1, PTL

\* wait_for_pending_persistence waits for everything under way at the call.
THEOREM WaiterCovers == Spec => []WaitCovers
  <1>1. QueueInv => WaitCovers
    BY DEF QueueInv
  <1>2. QED
    BY QueueInvariant, <1>1, PTL

---------------------------------------------------------------------------
(* The chain of tasks implements ExchangeLog.                              *)

LEMMA InitLog == Init => Log!Init
  <1> SUFFICES ASSUME Init PROVE Log!Init
    OBVIOUS
  <1>1. \A t \in Tasks : task[t].fate = "none"
    BY DEF Init
  <1>2. QED
    BY <1>1 DEF Init, Log!Init

LEMMA StepLog ==
    ASSUME QueueInv, [Next]_vars
    PROVE  Log!Next \/ (before' = before /\ [t \in Tasks |-> task'[t].fate]
                                            = [t \in Tasks |-> task[t].fate])
  <1> DEFINE fates == [t \in Tasks |-> task[t].fate]
  <1>1. TypeOK /\ OrderInv /\ FateFits
    BY DEF QueueInv, OrderInv
  <1>2. ASSUME NEW t \in Tasks, Schedule(t) PROVE Log!Next
    <2>1. PICK s \in Sessions : s = task[t].of
      BY <1>1, FieldTypes DEF TypeOK, TaskPc
    <2>2. /\ \A u \in Tasks \ {t} : task'[u] = task[u]
          /\ task'[t].fate = "owed" /\ task[t].pc = "none"
          /\ before' = [before EXCEPT ![t] = Scheduled(s)]
      BY <1>1, <1>2, <2>1, TaskStep DEF Schedule
    <2>3. fates' = [fates EXCEPT ![t] = "owed"]
      BY <2>2
    <2>4. /\ Scheduled(s) \in SUBSET {d \in Tasks : fates[d] # "none"}
          /\ fates[t] = "none" /\ t \notin Scheduled(s)
      BY <1>1, <2>2 DEF Scheduled, FateFits
    <2>5. PICK taken \in SUBSET {d \in Tasks : fates[d] # "none"} : taken = Scheduled(s)
      BY <2>4
    <2>6. Log!HandOver(t, taken)
      BY <2>2, <2>3, <2>4, <2>5 DEF Log!HandOver
    <2>7. QED
      BY <2>6 DEF Log!Next
  <1>3. ASSUME NEW t \in Tasks, Commit(t) \/ Fail(t) PROVE Log!Next
    <2>1. PICK fate \in {"stored", "dropped"} :
            /\ \A u \in Tasks \ {t} : task'[u] = task[u]
            /\ task'[t].fate = fate /\ task[t].pc = "open" /\ before' = before
      BY <1>1, <1>3, TaskStep DEF Commit, Fail
    <2>2. fates' = [fates EXCEPT ![t] = fate]
      BY <2>1
    <2>3. fates[t] = "owed" /\ \A d \in before[t] : fates[d] # "owed"
      BY <1>1, <2>1 DEF FateFits, Alive, OrderInv, Served, TypeOK
    <2>4. Log!Settle(t, fate)
      BY <2>1, <2>2, <2>3 DEF Log!Settle
    <2>5. QED
      BY <2>4 DEF Log!Next
  <1>4. ASSUME NEW t \in Tasks, Begin(t) \/ Callback(t)
        PROVE  before' = before /\ fates' = fates
    <2>1. /\ \A u \in Tasks \ {t} : task'[u] = task[u]
          /\ task'[t].fate = task[t].fate /\ before' = before
      BY <1>1, <1>4, TaskStep DEF Begin, Callback
    <2>2. QED
      BY <2>1
  <1>5. CASE Stop
    <2>1. fates' = [t \in Tasks |-> IF fates[t] = "owed" THEN "lost" ELSE fates[t]]
      BY <1>1, <1>5, StopStep DEF FateFits
    <2>2. QED
      BY <1>5, <2>1 DEF Stop, Log!Stop, Log!Next
  <1>6. CASE Wait \/ Waited \/ UNCHANGED vars
    BY <1>6 DEF Wait, Waited, vars
  <1>7. QED
    BY <1>2, <1>3, <1>4, <1>5, <1>6 DEF Next

\* The chain of tasks is a queue per session: LogSpec.
THEOREM ImplementsLog == Spec => LogSpec
  <1>1. QueueInv /\ [Next]_vars => [Log!Next]_<<before, [t \in Tasks |-> task[t].fate]>>
    BY StepLog
  <1>2. QED
    BY InitLog, QueueInvariant, <1>1, PTL DEF Spec, LogSpec, Log!Spec
=============================================================================
