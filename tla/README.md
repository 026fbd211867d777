# Verification of the chatbot's conversation logic

TLA+ models of the customer-service chatbot in `src/`, the TLC runs that check
them and TLAPS proofs about them. Paths below are relative to `src/app/` unless
they start with `src/`.

## 1. The system

One FastAPI process, one asyncio event loop. A customer writes on the web
(WebSocket or `POST /chat/`), on WhatsApp or on Messenger; every channel calls
`dialogue_manager.handle_message`. The bot answers from rules, from a retrieval
base and an LLM, or transfers the customer to an agent, who works on `/admin`.
Redis holds the running session for an hour, PostgreSQL the history and the
status of each conversation.

| Component | State | Operations | Interacts with | Correct when |
|---|---|---|---|---|
| Take-over and status (`services/dialogue_manager.py`, `api/routes/admin.py`, `db/repositories/conversation_repository.py`) | rows `conversations` (status, context) and `messages` | check before an answer, expiry, background write, reply, resolution, list | customers' handlers and agents' requests, through the same rows, without locks | exactly one of bot and agent answers; a transferred customer is never forgotten; a closed conversation reopens on a new transfer |
| Background writes (`services/dialogue_manager.py`) | `_last_persist_task`, `_pending_persist_tasks` | schedule, write, callback, wait, stop | called by `handle_message`, writes to PostgreSQL | per session: in order, one conversation; no entry left behind |
| Session store (`services/session_manager.py`) | one JSON value per session in Redis, a dict of the process after a failure | create, add and trim, counter, flag, history | each operation is a read, an await, a write | what is stored amounts to what was said |
| Dialogue policy (`services/dialogue_manager.py`) | counter of failures, flag of the order number request | the branches of `_handle_message` | session store, retrieval, LLM, order table | the third failure in a row is a transfer; one request for an order number |
| WebSocket connections (`api/routes/websocket.py`, `api/rate_limit.py`) | socket by client, count by address | open, message, close, reply of an agent | agents' replies | an open page can be reached; the count follows the sockets |
| Channels (`api/routes/whatsapp.py`, `messenger.py`, `chat.py`, `api/web_session.py`) | the signing secret of the process | receive and answer a message, give and check a web identifier | Meta repeats what is not acknowledged; clients declare a channel | every delivery is acknowledged; a customer keeps the channel it came by |
| Customers (`db/repositories/user_repository.py`, `api/routes/users.py`) | rows `users` | get or create, create | background writes | an exchange finds its customer; one row per identifier |
| Agent accounts (`api/routes/agents.py`, `services/agent_auth.py`, `api/auth.py`) | rows `agents`, failed logins by address and by name | first account, log in, create, activate, deactivate, password | every agent request | an active admin remains; guessing is bounded; an acknowledged change took effect |
| Understanding (`services/intent_classifier.py`, `language_detector.py`, parts of `dialogue_manager.py`) | none | category, language, follow-up or not | called for each message, reads the history | a follow-up keeps its subject, an order number its language |
| Retrieval (`services/rag/`) | index built once, cached handle of the collection | search, fuse, rerank, ask the models | ChromaDB, filled by a script in another process; the LLM | the best chunk reaches the reranker |
| Analytics (`services/analytics.py`) | none | two queries and pure functions | reads what the background writes and the agents write | figures that belong to one state of the database, or lie between two |
| Order look-up, configuration, logging, scripts, pages | none, or read only | | | |

What is hard here:

- **Interleaving.** Every `await` lets another handler run. Nothing locks a
  conversation between the read and the write of a handler, and SQLAlchemy sends
  an UPDATE only for a column that differs from the value *loaded*: assigning the
  value it already had protects nothing against a concurrent change.
- **Lost updates in Redis.** Each operation rewrites the whole session.
- **Failure.** PostgreSQL may fail at the check (the bot answers) or at the write
  (the exchange is dropped); Redis may fail at any operation, and the process then
  uses its memory for good; the process may stop between answer and write.
- **Stale copies.** The login is checked in a thread against a row that may change;
  the retrieval index is built once; statistics are computed from two reads.
- **Time.** One hour without an agent's message ends a take-over, one hour without
  a message ends a conversation; check and write read the clock separately.

`PROJECT.json` lists the hazards line by line with the properties that watch them.

## 2. The modules

| Module | What it is |
|---|---|
| `Takeover` | the messages of one customer, agents' requests and a clock over the tables of conversations and messages |
| `TakeoverProofs` | its invariants, proved |
| `PersistQueue` | the chain of background writes, several sessions |
| `ExchangeLog` | what that chain promises: a queue per session |
| `PersistQueueProofs` | its invariants and the refinement, proved |
| `Dialogue` | the messages of one session over the session store |
| `DialoguePolicy` | what the customer of a session may see, message after message |
| `WebSockets` | the sockets of the chat pages, the registry agents reply through, the count per address |
| `WebSocketsProofs` | its invariants, proved |
| `Channels` | the two webhooks and the chat pages, and what becomes of each exchange in the table of customers |
| `ChannelsProofs` | its invariants, proved |
| `LoginLimit` | the counters of failed logins, by address and by name, in their moving window |
| `Accounts` | the table of agents, the login, the routes of `/admin/agents`; extends `LoginLimit` |
| `AccountsProofs` | the invariants of both, proved |
| `Understanding` | pure functions: category, language, follow-up, the query of the search |
| `RankFusion` | pure functions: the fusion of two ranked lists |
| `Answering` | a message from its arrival to its answer, over the retrieval index and the models |
| `AnsweringProofs` | its invariants, proved |
| `Analytics` | the statistics request over a database that changes between its queries |
| `AnalyticsProofs` | its invariants, proved |
| `DialogueProofs` | the invariants of `Dialogue`, proved |
| `MCTakeover`, `MCPersistQueue`, `MCDialogue`, `MCWebSockets`, `MCChannels`, `MCLoginLimit`, `MCAccounts`, `MCAnswering`, `MCAnalytics` | instances for TLC |

The modules meet at these places. `Takeover` uses the chain of `PersistQueue` in its
abstract form, a sequence whose head writes: `ImplementsLog` justifies that. The
outcomes of a handler in `Takeover` (an answer, a transfer, silence, an exception)
are those that `Dialogue` takes apart. `ReplySent` and `RequestFails` of `Takeover`, for
a web customer, are the three results of `Reply` in `WebSockets`. `Channels` writes with
the same chain, per identifier, and keeps of `Takeover` only whether an agent has the
conversation. `Answering` takes apart what is one choice of `Dialogue` (what
classifier, search and model say). `Answering` extends the pure functions of
`Understanding` and `RankFusion`. `Analytics` reads what `Takeover` and the chain write, with the dates of an
exchange as `handle_message` takes them.

A definition written twice, the second time with a suffix (`Callback_Always`), is
a *variant*: the same code with one plausible mistake, never used by the
specification. Substituting it must break the property it is paired with in
`PROJECT.json`.

### Takeover

| Code | Model |
|---|---|
| `conversations`, oldest started first | `status`, a sequence |
| `messages` | `rows`, a set of records (conversation, role, date, message or request, transfer) |
| locals of `handle_message`, `agent_has_the_conversation`, `_persist_exchange` | `handler[m]`; `seen` is the status the transaction loaded |
| tasks of the session | `chain` |
| `POST .../reply`, `/resolve` | `request[r]` |
| `agent_has_the_conversation` | `ReadStatus`, `ReadLastAgent`, `ExpireTakeover`, `CheckFails` |
| `_handle_message`, `_handled_by_agent` | `BotAnswers`, `StaySilent`, `BotRaises`, each with `Schedule` |
| `_persist_exchange` | `PersistRead`, `PersistCommit`, `PersistFails` |
| `reply_to_customer` | `ReplyLoad`, `ReplySent`, `ReplyCommit`, `RequestFails` |
| `resolve_escalation`, `resolve` | `ResolveLoad`, `ResolveCommit`, `RequestFails` |
| `list_escalated` | `Buried`, `TransferInWindow`, `Listed` |

A step lies between two database calls, which is what READ COMMITTED and the event
loop allow; `get_db` commits before the response is sent and the session does not
flush on reads. Setting a status to its loaded value changes nothing
(`StatusAfter`, `ReplyCommit`). One customer on one channel is enough, since no
step touches another customer's rows. The JSON context is left out: it feeds
displays only. So is `displayed_status`: it is computed from the same rows with the hour
of `AgentWroteSince`, and nothing depends on it. The status `closed` exists in the schema but nothing in the service
writes it.

### PersistQueue

`task[t]` is one `asyncio.Task`: its predecessor, what its transaction found and
its fate. The callback (`Callback`) is a step of its own because the loop runs it
after the task ended, when a new task may already be registered. `Stop` empties
what lives in the process. The database is reduced to the number of conversations
per session, since only the order of the writes decides whether a second one is
created; ageing belongs to `Takeover`. `before` is a history variable, and `fate` is the one of an
exchange: owed once it is scheduled, then written, given up or lost.

### Dialogue

`handler[h].todo` holds the operations of the session store still to do up to the
next decision of the code, in the code's order (`FirstOps`, `TrackOrder`,
`AnswerQuestion`, `CheckLoop`); `Load` and `Save` are the read and the write of
each, with the failure of Redis. What classifier, retrieval, LLM and order table
answer is a choice. `shown` is a history variable, the log of `DialoguePolicy`:
what each message got, whether it carried thanks, whether the store failed under
it, and where the session was forgotten.

### WebSockets

| Code | Model |
|---|---|
| the coroutine of `websocket_endpoint`, by the await it is at | `endpoint[s]` |
| the browser's side of the socket | `page[s]` |
| `ConnectionManager._connections` | `registry` |
| `_ws_connections` | `count`, 0 for an address without an entry |
| `ws_connection_opened` | `Admit`, `Refuse` |
| `connect`, `disconnect`, `send_to` | `Connect`, `Ends`, `Reply` |
| the ways out of the loop | `Disconnected`, `Raises`, `Rejected` |

What the endpoint does between two awaits is one step. `disconnect` removes the
entry of the *client*, so two sockets of one client that are served at the same
time hide each other: the one that ends takes the other's entry with it. The page
`chat.html` asks for a new client with every load, so this takes another client
program, or a socket opened again before the server noticed the loss of the first.
The history variable `crossed` holds the sockets this can happen to, and
`AloneIsReachable` says that it happens to no other. Without it, that is for all
sockets, the property is false.

### Channels

| Code | Model |
|---|---|
| `new_signed_client_id`, `client_id_signature_valid` | `NewSession`, `signed` |
| `/ws`, `POST /chat/` | `WebMessage`, with the channel its client declares |
| `receive_message` of either webhook | `WhatsAppMessage`, `MessengerMessage`, `Ignore`, then `Silent`, `BotWorks`, `Answers`, `Raises`, `Replies` |
| `get_or_create`, in the background write | `Found`, or `NotFound` and `Insert`, or `WriteFails` |
| `POST /users/` | `CreateUser` |
| `_real_channel` | `RealChannel` |
| an agent's reply, "Marquer traitee" | `TakeOver`, `HandBack` |

Meta is modelled by the code's own account of it: it repeats a delivery until it is
acknowledged, also while a handler is at work on it. `used` is a history variable:
the routes an identifier really came by, against the channel that was declared.

### LoginLimit

| Code | Model |
|---|---|
| the moving window of `limiter` (library `limits`), its stored hits | `recent`, and of it `Stored` |
| a hit on a window that is full, which stores nothing | an entry of `recent` without the key in `stored` |
| `login_blocked`, `login_failed` | the definitions of those names |
| `require_agent` around the awaits of `authenticate` | `LoginStarts`, then `login_failed` or `LoginEnds` |
| a failure as old as the window | `FailureExpires` |
| the end of the process | `LimiterLost` |

A failure leaves the window one window after it was counted, so failures leave in the order
they came, and the model needs no clock: the oldest may go at any moment, on its own. Those that
were counted and those that only were tried are kept apart, as the limiter knows the former and
the customer of an address tries the latter. `parallel` is a history variable: the most logins
of a key that were under way at once.

### Accounts

`rows`, `admins`, `active` and `password` are the table. A request goes through the
places of `at`, one for each await: the query of the login (`ReadAccount`), the
hash in a thread (`Refuse`, `Admit`), the load of the account, the count of the
others (`CountAdmins`), the commit (`SetActiveCommit`, `CreateCommit`,
`SetPasswordCommit`). SQLAlchemy sends an UPDATE for a changed column only, so the
commit compares with `loaded`. `Start` creates the first account in an empty table
or refuses to start; `Stop` ends every request and loses the counters; `Expire` is time
passing in their window. History variables: `crossed`, the requests during whose load and commit
another one changed an account; `unfit`, those whose login has been right at no
moment since they arrived.

### Understanding, RankFusion, Answering

A text is a sequence of abstract words, one word for all those that the same rule
accepts in the four languages: the ORDER of the rules and the shape of each is what
the model keeps, since that is what decides two rules that both apply.
`RetrievalQuery` goes back over the history for the question behind a follow-up,
`ReplyLanguage` for the language of an order number alone. In `RankFusion` a score
is an exact fraction, compared by cross-multiplication, and ties keep the order of
insertion (`sorted` is stable; the nearest chunks are inserted first). In
`Answering`, `GetIndex` builds the index the first time, `Ingest` is the script that
another process runs, `Search` takes any distances and any BM25 order. `mode` is the
setting of that name: `SearchBasic` asks the vectors alone, `Search` fuses both lists,
and `Rerank` follows in the mode `advanced`. The chunks that are left decide
(`Confident`): too far, and the question is handed over (`Unsure`); else `Ask`
calls the first model, and the second one after an error status and only then.

### Analytics

`ReadConversations` and `ReadMessages` are the two queries, between which anything is stored
(READ COMMITTED); `Pairs` is `question_reply_pairs`, `build_stats` and `build_leads` are the
functions of that name. `before` and `after` are history variables: the
conversations a human had been in at each read.

## 3. The runs

| Run | Instance | Shows |
|---|---|---|
| `Takeover_races` | 3 messages, 2 requests, all overlaps, database failures | `TypeOK`; `AgentStatusHasMessage`; `TransferNotForgotten`; `ResolvesOpenConversations` |
| `Takeover_calm` | 3 messages, 3 requests, no overlap, no failure of the check | what the comments promise does hold then: `TakeoverLasts`, `ReplyTakesOver`, `TransferReopens`, `SilencedReachesAgent` |
| `PersistQueue_order` | 3 tasks, 2 sessions, 1 stop, fairness | `TypeOK`, `WrittenInOrder`, `OneConversation`, `NothingKept`, `WaitCovers`, `LogSpec`, the refinement of `ExchangeLog`, and `ExchangesSettle` |
| `Dialogue_policy` | 3 messages of any of 8 kinds, one at a time, Redis failing anywhere, expiry, threshold 2, history of 3 | `TypeOK`, `OwnMessageLast`, and `PolicySpec`, the refinement of `DialoguePolicy` |
| `Dialogue_overlap` | 2 messages at once, Redis failing anywhere | `HistoryInOrder`, `EarnedTransfer`: what survives lost updates |
| `WebSockets_registry` | 4 sockets, 2 clients, 2 addresses, 2 places per address, 1 reply, 1 restart, fairness | `TypeOK`, `CountIsExact`, `RegistryIsLive`, `AloneIsReachable`, `UnreachableIsGone`, `PlaceIsFreed` |
| `Channels_customers` | a phone number, a web page, a delivery, 2 handlers, 1 restart, fairness | `LostOnlyByConflict`, `ReplyReaches`, `AlwaysAcknowledged` |
| `LoginLimit_window` | 2 names, 2 addresses, 2 logins at once, a limit of 2 failures | `LimitTypeOK`, `GuessesBounded` |
| `Accounts_requests` | 2 accounts, 2 addresses, 2 passwords, 3 requests, a limit of 1 failure | `TypeOK`, `LastAdminStays`, `AdmittedWasRight`, `AcknowledgedTakesEffect` |
| `Answering_question` | 14 texts, up to 2 earlier messages, 4 chunks, lists of 2 | `SubjectKept`, `LanguageKept`, `NearestIsCandidate` |
| `Analytics_report` | 2 customers, 3 exchanges, 3 kinds of replies, period 3, day 2 | `RateBetweenReads`, `FiguresAreExchanges` |

One run finds a disagreement between the code and what it says of itself:

| Run | Property | What happens |
|---|---|---|
| `Takeover_undone` | `TakeoverLasts` | an answer computed before the agent's reply is stored after it and takes the conversation back |

Other properties of the calm runs fail in the same way once operations overlap.
Setting `Overlap = TRUE` in `Takeover_calm.cfg`, with one property at a time, shows
`ReplyTakesOver` broken (a
second reply sends no UPDATE of the status, so a resolution committed meanwhile
wins) and `TransferReopens` (a transfer stored while the conversation is being
closed leaves it closed). Setting `Concurrent = TRUE` in `Dialogue_policy.cfg` shows
`OwnMessageLast` broken (a handler removes another handler's message from the
history it passes on).

**Gaps in the code that the models show.** They have no run of their own.

- The take-over of a conversation that was never transferred expires onto no list
  (`ExpireTakeover`, `Listed`; `db/repositories/conversation_repository.py:181`).
- Two failures at once count as one (`Save`; `services/session_manager.py:165`), so the
  bot may say once more that it does not know.
- The request for an order number survives a message that asks for an agent (`FirstOps`;
  `services/dialogue_manager.py:533`): a number sent later is taken for the answer.
- An agent who answers an older conversation does not silence the bot in a newer one
  (`NoneRecent`, `ReadStatus`: the latest decides), whatever the page shows.
- A customer who goes on writing while waiting for an agent leaves the agents' list: the list looks
  for the transfer among the last 50 messages of the conversation, and one whose status is
  `escalated` without it is not shown (`Listed`; `db/repositories/conversation_repository.py:174`).
  `TransferNotForgotten` names that case (`Buried`), and the run reaches it.
- The limit of failed logins is no limit of failed tries: every failure that leaves the window lets
  all the logins in that arrive before the next failure is counted. With L failures and P logins at
  once, a window takes up to (L + 1) P - 1 wrong passwords (`GuessesBounded`; the bound is reached).
- A stop of the server loses exchanges already answered (`Stop`): nothing calls
  `wait_for_pending_persistence`.
- The comments of `session_manager` describe an older counter, of every question rather than of
  failures (`AnswerQuestion`).
- Of two sockets of one client served at once, one can become unreachable (`Ends`; `crossed`).
- Two deactivations that overlap can leave no active admin: each counts two
  (`CountAdmins`; `LastAdminStays` names `crossed`).
- A customer known on one channel, or registered by `POST /users/` under another one, loses
  every exchange that declares a different channel (`Insert`; `LostOnlyByConflict`).
- A delivery that Meta repeats while it is being handled is answered twice (`Deliver`): no
  message identifier is kept. Of a delivery that groups several messages the first is handled.
- Chunks ingested while the service runs are found by the vector search and dropped by the index
  until a restart, as nothing calls `refresh_index`; after `--reset` the cached handle of the
  collection is dead and every search raises (`Ingest`, `Search`).
- The confidence is that of the chunks left by the reranker (`Confident`), so a question whose
  nearest chunk is near enough is handed over if the reranker prefers others (`Rerank`).
- A time-out or a lost connection of the first model is raised, the second is not tried (`Ask`).
- Once the session has dropped the question behind a row of follow-ups (it keeps 20 messages), the
  next one is searched alone (`SubjectKept` allows it), without a word about it.
- A word of thanks before a follow-up becomes its subject (`RetrievalQuery`), and
  an order number after a greeting is answered in the language `detect_language` makes of the
  greeting (`LanguageKept` leaves small talk out).

**Bounds.** `MaxTime`, `MaxStops`, and the finite sets of messages, requests and
tasks bound each run. Three messages and two requests suffice for every order of a
check, a write, a reply and a resolution around each other, and for a second
conversation; time-outs of one or two ticks and two to four ticks reach
both sides of each boundary. `ListLimit` is 3 (50 in the code) where `TransferNotForgotten` is
checked, so that the messages of the run push a transfer out of the list. Three tasks put two
of one session in line, or around a late callback, while another session works. A threshold of 2 (3
in the code) and a history of 2 or 3 (20) are reached by the messages of
the run; nothing in the code depends on the values. `Dialogue_overlap` has two
handlers, as three exceed what TLC can enumerate in minutes.
Three sockets of one client let one end while two others meet; the
limit of two places (5 in the code) is reached with a socket to spare.
Two handlers on one phone number and one page make a delivery repeated under its
handler, and two writes of one identifier in line; one restart changes the
signatures. Three requests on two accounts are two that cross and one that sees the result;
the limit of failures (5 in the code) is 1 there, and 2 in `LoginLimit_window`, where the failures
of a window leave it one at a time, each followed by both logins; its tries grow up to the bound,
and no other bound is needed. The 14 texts hold a text of each rule and
those that two rules accept; two earlier messages put a follow-up behind a follow-up and a
number behind a number; lists of two with four chunks let BM25 fill the candidates with chunks
the vector search never returned. Nine ticks put the start of a period before, between and after
the messages of three exchanges, of which two overlap or lie on different days.
Symmetry is used where every property is a safety property.
Deadlock is not checked, as all these systems may come to rest.

**Excuses.** Some properties hold with an exception, and the exception is a hazard: sockets
that met (`crossed` of `AloneIsReachable`), requests another one crossed (`LastAdminStays`,
`AcknowledgedTakesEffect`), transfers that were buried (`TransferNotForgotten`), chunks the index does
not know (`NearestIsCandidate`), customers whose messages overlap (`FiguresAreExchanges`), small
talk (`LanguageKept`), exchanges lost at a stop (`LogSpec`). They say exactly when the promise
holds; in the excused cases it does not, and the list above says what happens.

**Overlap.** `Overlap = FALSE` and `Concurrent = FALSE` let an operation start only
when none is open. They are no claim about the code: they show that the broken
promises are broken by concurrency and not by the logic, and the violation run
lifts them.

**Fairness.** Three runs assume any. `PersistQueue_order`: weak fairness of each task that may
begin, of its transaction and of its callback, used by `ExchangesSettle` only.
`WebSockets_registry`: weak fairness of each endpoint, exceptions left out
(`Raises` is never forced), used by `PlaceIsFreed` only. `Channels_customers`: weak fairness of
each handler, used by `AlwaysAcknowledged`. The event loop runs a ready coroutine, and it is assumed
that every `await` of a handler ends. The code grants that in part: the HTTP clients have time
limits (10 s), the pool of connections one for handing out a connection (30 s) and Redis one for
connecting (2 s), but a *query* of PostgreSQL or Redis has none (no `command_timeout`). So these
properties assume databases that answer or break the connection, and say nothing of one that keeps
a connection open and silent. Nothing is assumed of customers, agents or the clock.

## 4. The proofs

All proofs are for any number of messages, requests, conversations, tasks and
sessions (customers, accounts, chunks, texts) and any values of the bounds, from the named
assumptions of the modules (`TimeoutAssumption`, `NoTaskAssumption`, ...) only: that limits are
natural numbers, that sets whose members are counted are finite, that markers such as
`NoTask` are no member of the set they mark. Every invariant, action property
and refinement of the runs has its theorem; six of these properties hold without overlaps only, and
their theorems say so in a hypothesis (`~Overlap`, `~CheckFaults`, `~Concurrent`), as their runs do.

**`TakeoverProofs`.** `TypeCorrect` is inductive by itself. `SafetyInvariant`
proves `SafetyInv`, which adds to the properties two facts about what handlers
remember: the conversation of a background write that loaded a status other than
`active` is not `active` (`LoadedNotActive`), and neither is a conversation whose
resolution is under way (`ResolvingNotActive`); without them a step
could restore a stale status in the induction. From it follow `AgentStatusIsDated`
(`AgentStatusHasMessage`), `TransfersAreKept` (`TransferNotForgotten`) and
`ResolvesOnlyOpen` (`ResolvesOpenConversations`). Each action is reduced to what
it does to one conversation (`SetStatus`, `AddStatus`). A message that is stored only ever
buries a transfer further, so `TransfersAreKept` needs that a conversation with a transfer is not
`active`. For `CalmTakeoverLasts`, `CalmReplyTakesOver`, `CalmTransferReopens` and
`CalmSilencedReaches` the invariant is `Calm`: one operation is open, and what it loaded of its
conversation still holds when it writes. Under overlaps that is what fails.

**`DialogueProofs`.** For `HistoryInOrder`, a message that is still to be stored is in no copy
of the session, stored or loaded (`NotYet`): a copy that is written back last may
miss messages but holds none twice. For `EarnedTransfer`, no copy counts more failures than
messages failed and have counted (`CountsEarned`): a lost write only makes it smaller.
`OwnInvariant` needs `~Concurrent`: one handler runs, and until it looks at the
history only a failure of Redis, which empties it, can touch what it added last (`Turn`).

`PolicyImplemented` shows, step by step, that the handler implements `DialoguePolicy`: the step that
sends the answer is a step of the policy, as is one that forgets the session, and every other one stutters. The policy reads its
counters off the log of answers, the code off a session that is written operation by operation; the
two agree only between messages (`Agrees`). The invariant, `Kept`, says what holds in between: what is
stored and the operations still in the handler's plan amount, together, to the log once the answer
is in it (`Promised`), and before the answer is known the look-up and the count can still become any
answer the policy allows (`Searching`, `Asking`). Once Redis has failed the entry of the log
says so, and the session is empty. Since a step of the code is one of the policy, facts about the log
need only the policy's one action: `FailuresInARow` (no `Threshold` admissions of ignorance
in a row) and `AsksOnce` (no two requests for an order number in a row).

**`PersistQueueProofs`.** `WrittenInOrder` is not inductive: it says nothing about
tasks that wait. `OrderInv` adds that tasks of a session are totally ordered
(`Placed`, `Ordered`), that the predecessor a task was handed is the one just
before it, or that everything before is over if it was handed none (`Chained`),
that the registered task is the last of its session (`Registered`), and that a
task that stopped waiting comes after tasks that are over (`Served`). The callback is
the delicate step: it may empty the registry only for the last task. A step that
schedules nothing is summed up as `Advance`, whose lemma carries most of the
invariant. `QueueInv` adds the one conversation and the registries, and
`ImplementsLog` proves the refinement that `PersistQueue_order` checks: a commit or
failure is a `Settle`, a stop is a `Stop`, all the rest stutters.

**`WebSocketsProofs`.** `CountIsExact` is inductive with the types; its steps are
the library's facts on adding and removing one element of a finite set, and the one
delicate point is that the end of a counted socket always finds a count of at
least 1, so that deleting the entry at 0 loses nothing. `AloneIsReachable` is not
inductive: `Apart` adds that a socket outside `crossed` has no sibling being served,
so no end of another socket empties its entry. `UnreachableIsGone` follows.

**`AccountsProofs`.** For the last admin: a request whose account nobody changed since its load
knows the truth about it (`Fresh`), and one that may write a deactivation has counted
another active admin (`Counted`), whom only a change that crosses it can take away. For
`AdmittedWasRight`: a login that has never been right is refused by the row it reads. For
`GuessesBounded`, proved of `LoginLimit`: let k be a key. A try is stored unless the counter is full;
between two stored tries the limit let logins in only before the second was counted, so fewer
tries than logins at once (`parallel[k]`) lie between them that are not stored. The bound is stated of
the tries from any place of the window on (`Bounded`): so it survives the loss of the oldest
try, after which only what followed it is left, with one stored failure less or as many.
While the counter is full, the logins under way are added (`Pending`), as they will be tried and
not stored. `RequestsLimited` shows that the logins of `Accounts` are those of `LoginLimit`, so the
bound holds of the service.

**`ChannelsProofs`.** What waits to be written for a phone number came by the channel it is marked
with, and what waits for a web identifier came by the pages (`CallsUsed`,
`ChainsUsed`), so the row of a stored conversation did too (`RowsUsed`). A writer about to
insert still has the exchange it found no row for at the head of its chain
(`Searched`), so only `POST /users/` can insert under its eyes.

**`AnsweringProofs`.** A chunk that only BM25 found at rank r scores 1 / (K + r), no more than
the first of the nearest, which is inserted before it; so only chunks of the list of the
nearest come before the nearest one (`Overtaking`), fewer than `PerList`, no more than
`Candidates`. The order of the fused list, by a sum of fractions and then by insertion, is
a strict total order for any two lists (`BeforeIsOrder`); therefore the cut keeps exactly the first
`n` usable chunks, or all of them (`KeptIsFirst`), and `HitsInvariant` follows: in every mode
the LLM is given relevant chunks of the knowledge base, at most `TopK`, although the collection
may change between the steps of a search. `SubjectInvariant` and `LanguageInvariant` rest on the last message with a
property existing as soon as one has it, by the well-foundedness of the naturals: follow-ups in a
row have the same last message that is none (`SameSubject`), whichever end of the history the
session still keeps, as long as it keeps that message.

**`AnalyticsProofs`.** `RateInvariant`: the status of a conversation remembers that a human was in
it (`Remembered`) and is never without a message that says so (`Justified`), so the read of
statuses and the read of messages enclose the figure. `FiguresInvariant`: the table holds the two
messages of each stored exchange (`Kept`), no two exchanges have one time of arrival (`Dated`; the clock of the model advances with each event), so
exchanges of a customer that do not overlap lie apart (`LieApart`); a pair is therefore an
exchange (`PairIsExchange`) and each exchange is a pair (`ExchangeIsPair`), one for one.

**Model-checked only.** Liveness (`ExchangesSettle`, `PlaceIsFreed`, `AlwaysAcknowledged`): fairness
and ENABLED are out of reach of the prover.

## 5. Not modelled

- The generator of the catalogue and the evaluation (`src/scripts/generate_products_catalog.py`,
  `evaluate_ragas.py`), the clean-up of test data, the pages and the migrations: they run
  outside the service or have no behaviour the service depends on.
- `config.py`, `log_privacy.py` and the formatting of replies: wording, no state.
- Embeddings, BM25 scores and cross-encoder scores, which are any order; the confidence by the
  score of the reranker, a setting that is off. The index of the vectors (HNSW, approximate) is
  taken as exact.
- The regular expressions themselves: a word of `Understanding` stands for what one group accepts.
- Meta's verification request and signature, and the deliveries that group several messages: only
  the first is read, which is the whole of that behaviour.
- The updates, reads and deactivation of `/users/`, which touch nothing the look-up uses.
- In the statistics: response times, languages, channels and the grouping of similar questions,
  pure functions of the rows read.
- The JSON context of a conversation, rewritten from the value loaded, and `displayed_status`: both
  feed the display only.
- The limits per minute, kept by an external library; their verdict is a choice.
