---------------------------- MODULE DialoguePolicy ----------------------------
(***************************************************************************)
(* What the customer of one session sees, message after message: the       *)
(* promise that dialogue_manager and session_manager keep together.        *)
(*                                                                         *)
(* The bot says "I do not know" at most Threshold - 1 times in a row, the  *)
(* next failure is a transfer; it asks for an order number once, the next  *)
(* order message without a valid number is a transfer.  What it remembers  *)
(* for that is a function of what it said since the session was lost.      *)
(***************************************************************************)
EXTENDS Naturals, Sequences, FiniteSets

CONSTANT Threshold      \* RAG_LOOP_THRESHOLD

VARIABLE shown          \* what each message got, oldest first

\* "transfer": on demand, or a frustrated customer; "transfer_rag": nothing
\* relevant was retrieved.
Says == {"smalltalk", "answer", "noinfo", "order", "ask", "error", "silence",
         "transfer", "transfer_rag", "transfer_loop", "transfer_order",
         "transfer_outage", "forgot"}

\* thanks: the message carried a satisfaction signal; degraded: the session
\* store failed while the message was handled.
Entry == [say: Says, thanks: BOOLEAN, degraded: BOOLEAN]
Forgot == [say |-> "forgot", thanks |-> FALSE, degraded |-> FALSE]

\* Failures in a row at the end of a log: errors and the agent's messages
\* neither count nor interrupt, anything else the bot says starts again, and so
\* does a message of thanks, before its own answer is counted.
Failures(log) ==
    Cardinality({i \in DOMAIN log :
        /\ log[i].say = "noinfo" /\ ~log[i].degraded
        /\ \A j \in (i + 1)..Len(log) :
             ~log[j].degraded /\ ~log[j].thanks /\ log[j].say \in {"noinfo", "error", "silence"}})

\* The bot asked for an order number, and since then only transferred the
\* customer on demand or left the floor to the agent.
Asked(log) ==
    \E i \in DOMAIN log :
        /\ log[i].say = "ask" /\ ~log[i].degraded
        /\ \A j \in (i + 1)..Len(log) : ~log[j].degraded /\ log[j].say \in {"silence", "transfer"}

\* May the bot say e after this log?
Allowed(log, e) ==
    LET failures == IF e.thanks THEN 1 ELSE Failures(log) + 1
    IN  \/ e.degraded
        \/ /\ e.say = "noinfo" => failures < Threshold
           /\ e.say = "transfer_loop" => failures = Threshold
           /\ e.say = "ask" => ~Asked(log)
           /\ e.say = "transfer_order" => Asked(log)

Init == shown = <<>>
Say(e) == Allowed(shown, e) /\ shown' = Append(shown, e)
Next == \E e \in Entry : Say(e)
Spec == Init /\ [][Next]_shown
=============================================================================
