--------------------------- MODULE ChannelsProofs ---------------------------
(***************************************************************************)
(* The table of the customers, for any number of customers, deliveries,    *)
(* handlers and restarts.                                                  *)
(*                                                                         *)
(* The argument: what waits to be written for a phone number came by the   *)
(* channel it is marked with, and what waits for a web identifier came by  *)
(* the chat pages (CallsUsed, ChainsUsed), so a row that stands for a      *)
(* stored conversation does too (RowsUsed).  A writer that is about to     *)
(* insert still has the exchange it found no row for at the head of its    *)
(* chain (Searched).                                                       *)
(***************************************************************************)
EXTENDS Channels, SequenceTheorems, TLAPS

Written == ChannelNames \cup {NoChannel}

Shape ==
    /\ signed \subseteq WebIds
    /\ mail \in [Deliveries -> [id : Numbers, channel : Meta, text : BOOLEAN]]
    /\ call \in [Handlers -> [id : Ids \cup {NoChannel}, channel : Written, delivery : Deliveries \cup {NoDelivery}]]
    /\ chain \in [Ids -> Seq(Written)]
    /\ users \in [Ids -> Written]
    /\ used \in [Ids -> SUBSET ChannelNames]
    /\ looking \subseteq Ids /\ stored \subseteq Ids
    /\ \A i \in looking : chain[i] # <<>>

\* A channel that an exchange of i may be marked with.
Came(i, channel) == IF i \in Numbers THEN channel \in used[i] ELSE "web" \in used[i]

CallsUsed == \A h \in Handlers : call[h].id \in Ids => Came(call[h].id, call[h].channel)
ChainsUsed == \A i \in Ids : \A n \in 1..Len(chain[i]) : Came(i, chain[i][n])
RowsUsed == \A i \in stored : Came(i, users[i])
Searched ==
    \A i \in looking : users[i] # Head(chain[i]) \/ i \in raced
Kept == \A l \in lost : l[1] \in Ids /\ users[l[1]] # NoChannel

---------------------------------------------------------------------------
(* Shape                                                                   *)

LEMMA InitShape == Init => Shape
  <1> SUFFICES ASSUME Init PROVE Shape
    OBVIOUS
  <1>1. chain \in [Ids -> Seq(Written)]
    BY EmptySeq DEF Init
  <1>2. QED
    BY <1>1 DEF Init, Shape, Written

LEMMA EntersShape ==
    ASSUME Shape, NEW h \in Handlers, NEW i \in Ids, NEW declared \in ChannelNames, NEW route \in ChannelNames,
           NEW d \in Deliveries \cup {NoDelivery}, Enters(h, i, declared, route, d)
    PROVE  Shape'
  <1>1. call' \in [Handlers -> [id : Ids \cup {NoChannel}, channel : Written, delivery : Deliveries \cup {NoDelivery}]]
    BY DEF Shape, Enters, Written
  <1>2. used' \in [Ids -> SUBSET ChannelNames]
    BY DEF Shape, Enters
  <1>3. QED
    BY <1>1, <1>2 DEF Shape, Enters, back

LEMMA SchedulesShape ==
    ASSUME Shape, NEW h \in Handlers, Schedules(h)
    PROVE  /\ chain' \in [Ids -> Seq(Written)]
           /\ \A i \in Ids : chain[i] # <<>> => chain'[i] # <<>> /\ Head(chain'[i]) = Head(chain[i])
           /\ \A i \in Ids : \A n \in 1..Len(chain'[i]) :
                \/ n \in 1..Len(chain[i]) /\ chain'[i][n] = chain[i][n]
                \/ i = call[h].id /\ chain'[i][n] = call[h].channel
  <1>1. call[h].channel \in Written
    BY DEF Shape
  <1>2. CASE call[h].id \notin Ids
    <2>1. chain' = chain
      BY <1>2 DEF Shape, Schedules
    <2>2. QED
      BY <2>1 DEF Shape
  <1>3. CASE call[h].id \in Ids
    <2> DEFINE c == call[h].id
    <2>1. chain[c] \in Seq(Written)
      BY <1>3 DEF Shape
    <2>2. chain' = [chain EXCEPT ![c] = Append(chain[c], call[h].channel)]
      BY DEF Schedules
    <2>3. /\ Append(chain[c], call[h].channel) \in Seq(Written)
          /\ Append(chain[c], call[h].channel) # <<>>
          /\ chain[c] # <<>> => Head(Append(chain[c], call[h].channel)) = Head(chain[c])
          /\ \A n \in 1..Len(Append(chain[c], call[h].channel)) :
               \/ n \in 1..Len(chain[c]) /\ Append(chain[c], call[h].channel)[n] = chain[c][n]
               \/ Append(chain[c], call[h].channel)[n] = call[h].channel
      BY <1>1, <2>1
    <2> HIDE DEF c
    <2>4. chain' \in [Ids -> Seq(Written)]
      BY <1>3, <2>2, <2>3 DEF Shape
    <2>5. \A i \in Ids : chain'[i] = IF i = c THEN Append(chain[c], call[h].channel) ELSE chain[i]
      BY <2>2 DEF Shape
    <2>6. QED
      BY <2>3, <2>4, <2>5 DEF c
  <1>4. QED
    BY <1>2, <1>3

LEMMA PopsShape ==
    ASSUME Shape, NEW i \in Ids, chain[i] # <<>>, Pops(i)
    PROVE  /\ chain' \in [Ids -> Seq(Written)]
           /\ chain'[i] = Tail(chain[i]) /\ Head(chain[i]) \in Written
           /\ Head(chain[i]) = chain[i][1] /\ 1 \in 1..Len(chain[i])
           /\ Len(chain'[i]) = Len(chain[i]) - 1
           /\ \A n \in 1..Len(chain'[i]) : chain'[i][n] = chain[i][n + 1] /\ n + 1 \in 1..Len(chain[i])
  <1>1. chain[i] \in Seq(Written) /\ chain'[i] = Tail(chain[i])
    BY DEF Shape, Pops
  <1>2. QED
    BY <1>1 DEF Shape, Pops

LEMMA StepShape == Shape /\ [Next]_vars => Shape'
  <1> SUFFICES ASSUME Shape, [Next]_vars PROVE Shape'
    OBVIOUS
  <1>1. CASE UNCHANGED vars
    BY <1>1 DEF Shape, vars, front, back
  <1>2. ASSUME NEW i \in Ids, NewSession(i) \/ TakeOver(i) \/ HandBack(i)
        PROVE  Shape'
    BY <1>2 DEF Shape, NewSession, TakeOver, HandBack, front, back
  <1>3. ASSUME NEW i \in Ids, NotFound(i)
        PROVE  Shape'
    BY <1>3 DEF Shape, NotFound, front
  <1>4. ASSUME NEW i \in Ids, Found(i)
        PROVE  Shape'
    BY <1>4, PopsShape DEF Shape, Found, Pops, front
  <1>5. ASSUME NEW i \in Ids, WriteFails(i)
        PROVE  Shape'
    BY <1>5, PopsShape DEF Shape, WriteFails, Pops, front
  <1>6. ASSUME NEW i \in Ids, Insert(i)
        PROVE  Shape'
    <2>1. chain[i] # <<>>
      BY <1>6 DEF Insert, Shape
    <2>2. chain' \in [Ids -> Seq(Written)] /\ Head(chain[i]) \in Written
      BY <1>6, <2>1, PopsShape DEF Insert
    <2>3. QED
      BY <1>6, <2>2 DEF Shape, Insert, Pops, front
  <1>7. ASSUME NEW i \in Ids, NEW c \in ChannelNames, CreateUser(i, c)
        PROVE  Shape'
    BY <1>7 DEF Shape, CreateUser, Written, front
  <1>8. ASSUME NEW h \in Handlers, NEW i \in Ids, NEW c \in ChannelNames, WebMessage(h, i, c)
        PROVE  Shape'
    BY <1>8, EntersShape DEF WebMessage, ChannelNames
  <1>9. ASSUME NEW h \in Handlers, NEW d \in Deliveries, WhatsAppMessage(h, d) \/ MessengerMessage(h, d)
        PROVE  Shape'
    <2>1. mail[d].id \in Ids /\ mail[d].channel \in ChannelNames
      BY DEF Shape, Ids, ChannelNames
    <2>2. QED
      BY <1>9, <2>1, EntersShape DEF WhatsAppMessage, MessengerMessage, Deliver
  <1>10. ASSUME NEW h \in Handlers, \/ BotWorks(h) \/ Raises(h) \/ Replies(h) \/ \E d \in Deliveries : Ignore(h, d)
         PROVE  Shape'
    BY <1>10 DEF Shape, Ignore, BotWorks, Raises, Replies, back
  <1>11. ASSUME NEW h \in Handlers, Silent(h) \/ Answers(h)
         PROVE  Shape'
    <2>1. Schedules(h)
      BY <1>11 DEF Silent, Answers
    <2>2. QED
      BY <1>11, <2>1, SchedulesShape DEF Shape, Silent, Answers
  <1>12. CASE Restart
    <2>1. chain' \in [Ids -> Seq(Written)]
      BY <1>12, EmptySeq DEF Restart
    <2>2. QED
      BY <1>12, <2>1 DEF Shape, Restart
  <1>13. QED
    BY <1>1, <1>2, <1>3, <1>4, <1>5, <1>6, <1>7, <1>8, <1>9, <1>10, <1>11, <1>12 DEF Next

---------------------------------------------------------------------------
(* The unique key                                                          *)

\* The head of every chain under a search, the rows and the lost exchanges
\* stay as they are.
LEMMA QuietStep ==
    ASSUME Shape, Searched, Kept, LostOnlyByConflict, UNCHANGED <<users, lost, raced>>,
           \A i \in looking' : i \in looking /\ Head(chain'[i]) = Head(chain[i])
    PROVE  Searched' /\ Kept' /\ LostOnlyByConflict'
  BY DEF Searched, Kept, LostOnlyByConflict

LEMMA FrontSteps ==
    ASSUME Shape,
           \/ UNCHANGED vars
           \/ \E i \in Ids : NewSession(i) \/ TakeOver(i) \/ HandBack(i) \/ Found(i) \/ WriteFails(i)
           \/ \E h \in Handlers, i \in Ids, c \in ChannelNames : WebMessage(h, i, c)
           \/ \E h \in Handlers, d \in Deliveries : WhatsAppMessage(h, d) \/ MessengerMessage(h, d) \/ Ignore(h, d)
           \/ \E h \in Handlers : Silent(h) \/ BotWorks(h) \/ Answers(h) \/ Raises(h) \/ Replies(h)
           \/ Restart
    PROVE  /\ UNCHANGED <<users, lost, raced>>
           /\ \A i \in looking' : i \in looking /\ Head(chain'[i]) = Head(chain[i])
  <1> DEFINE Calm == /\ UNCHANGED <<users, lost, raced>>
                     /\ \A i \in looking' : i \in looking /\ Head(chain'[i]) = Head(chain[i])
  <1>1. CASE UNCHANGED vars \/ \E i \in Ids : NewSession(i) \/ TakeOver(i) \/ HandBack(i)
    BY <1>1 DEF NewSession, TakeOver, HandBack, vars, front, back
  <1>2. ASSUME NEW i \in Ids, Found(i) \/ WriteFails(i)
        PROVE  Calm
    BY <1>2 DEF Shape, Found, WriteFails, Pops
  <1>3. ASSUME NEW h \in Handlers, NEW i \in Ids, NEW c \in ChannelNames, WebMessage(h, i, c)
        PROVE  Calm
    BY <1>3 DEF WebMessage, Enters, back
  <1>4. ASSUME NEW h \in Handlers, NEW d \in Deliveries,
               WhatsAppMessage(h, d) \/ MessengerMessage(h, d) \/ Ignore(h, d)
        PROVE  Calm
    BY <1>4 DEF WhatsAppMessage, MessengerMessage, Deliver, Ignore, Enters, back
  <1>5. ASSUME NEW h \in Handlers, BotWorks(h) \/ Raises(h) \/ Replies(h)
        PROVE  Calm
    BY <1>5 DEF BotWorks, Raises, Replies, back
  <1>6. ASSUME NEW h \in Handlers, Silent(h) \/ Answers(h)
        PROVE  Calm
    <2>1. Schedules(h)
      BY <1>6 DEF Silent, Answers
    <2>2. \A i \in looking : chain[i] # <<>> => Head(chain'[i]) = Head(chain[i])
      BY <2>1, SchedulesShape DEF Shape
    <2>3. QED
      BY <1>6, <2>2 DEF Shape, Silent, Answers
  <1>7. CASE Restart
    BY <1>7 DEF Restart
  <1>8. QED
    BY <1>1, <1>2, <1>3, <1>4, <1>5, <1>6, <1>7

LEMMA StepTable == Shape /\ Searched /\ Kept /\ LostOnlyByConflict /\ [Next]_vars
                       => Searched' /\ Kept' /\ LostOnlyByConflict'
  <1> SUFFICES ASSUME Shape, Searched, Kept, LostOnlyByConflict, [Next]_vars
               PROVE  Searched' /\ Kept' /\ LostOnlyByConflict'
    OBVIOUS
  <1>1. CASE \/ UNCHANGED vars
             \/ \E i \in Ids : NewSession(i) \/ TakeOver(i) \/ HandBack(i) \/ Found(i) \/ WriteFails(i)
             \/ \E h \in Handlers, i \in Ids, c \in ChannelNames : WebMessage(h, i, c)
             \/ \E h \in Handlers, d \in Deliveries : WhatsAppMessage(h, d) \/ MessengerMessage(h, d) \/ Ignore(h, d)
             \/ \E h \in Handlers : Silent(h) \/ BotWorks(h) \/ Answers(h) \/ Raises(h) \/ Replies(h)
             \/ Restart
    BY <1>1, FrontSteps, QuietStep
  <1>2. ASSUME NEW i \in Ids, NotFound(i)
        PROVE  Searched' /\ Kept' /\ LostOnlyByConflict'
    BY <1>2 DEF NotFound, Searched, Kept, LostOnlyByConflict
  <1>3. ASSUME NEW i \in Ids, Insert(i)
        PROVE  Searched' /\ Kept' /\ LostOnlyByConflict'
    <2>1. /\ looking' = looking \ {i} /\ i \in looking /\ raced' = raced
          /\ \A j \in Ids \ {i} : chain'[j] = chain[j]
      BY <1>3 DEF Shape, Insert, Pops
    <2>2. CASE users[i] = NoChannel
      <3>1. lost' = lost /\ \A j \in Ids \ {i} : users'[j] = users[j]
        BY <1>3, <2>2 DEF Shape, Insert
      <3>2. \A l \in lost : l[1] # i
        BY <2>2 DEF Kept
      <3>3. QED
        BY <2>1, <3>1, <3>2 DEF Shape, Searched, Kept, LostOnlyByConflict
    <2>3. CASE users[i] # NoChannel
      <3>1. users' = users /\ lost' = lost \cup {<<i, Head(chain[i])>>}
        BY <1>3, <2>3 DEF Insert
      <3>2. users[i] # Head(chain[i]) \/ i \in raced
        BY <2>1 DEF Searched
      <3>3. Searched'
        BY <2>1, <3>1 DEF Shape, Searched
      <3>4. Kept' /\ LostOnlyByConflict'
        BY <2>1, <2>3, <3>1, <3>2 DEF Kept, LostOnlyByConflict
      <3>5. QED
        BY <3>3, <3>4
    <2>4. QED
      BY <2>2, <2>3
  <1>4. ASSUME NEW i \in Ids, NEW c \in ChannelNames, CreateUser(i, c)
        PROVE  Searched' /\ Kept' /\ LostOnlyByConflict'
    <2>1. /\ users[i] = NoChannel /\ users'[i] = c /\ \A j \in Ids \ {i} : users'[j] = users[j]
          /\ UNCHANGED <<chain, looking, lost>> /\ raced \subseteq raced' /\ (i \in looking => i \in raced')
      BY <1>4 DEF Shape, CreateUser
    <2>2. \A l \in lost : l[1] # i
      BY <2>1 DEF Kept
    <2>3. QED
      BY <2>1, <2>2 DEF Shape, Searched, Kept, LostOnlyByConflict
  <1>5. QED
    BY <1>1, <1>2, <1>3, <1>4 DEF Next

\* get_or_create, create (user_repository.py): the unique key loses an
\* exchange only of a customer who is registered under another channel, or
\* whom POST /users/ registered under the eyes of the writer.
THEOREM LostInvariant == Spec => []LostOnlyByConflict
  <1>1. Init => Shape /\ Searched /\ Kept /\ LostOnlyByConflict
    BY InitShape DEF Init, Searched, Kept, LostOnlyByConflict
  <1>2. QED
    BY <1>1, StepShape, StepTable, PTL DEF Spec

---------------------------------------------------------------------------
(* The channel of a reply                                                  *)

LEMMA CameStays ==
    ASSUME Shape, NEW i \in Ids, NEW c, Came(i, c), used[i] \subseteq used'[i]
    PROVE  Came(i, c)'
  BY DEF Came

\* A message enters by the channel it is marked with, or by a chat page.
LEMMA EntersUsed ==
    ASSUME Shape, CallsUsed, ChainsUsed, RowsUsed,
           NEW h \in Handlers, NEW i \in Ids, NEW declared \in ChannelNames, NEW route \in ChannelNames,
           NEW d \in Deliveries \cup {NoDelivery}, Enters(h, i, declared, route, d),
           IF i \in Numbers THEN declared = route ELSE route = "web"
    PROVE  CallsUsed' /\ ChainsUsed' /\ RowsUsed'
  <1>1. /\ \A j \in Ids : used[j] \subseteq used'[j]
        /\ route \in used'[i]
        /\ call'[h].id = i /\ call'[h].channel = declared
        /\ \A g \in Handlers \ {h} : call'[g] = call[g]
        /\ UNCHANGED <<chain, users, stored>>
    BY DEF Shape, Enters, back
  <1>2. CallsUsed'
    BY <1>1 DEF CallsUsed, Came
  <1>3. ChainsUsed' /\ RowsUsed'
    BY <1>1 DEF Shape, ChainsUsed, RowsUsed, Came
  <1>4. QED
    BY <1>2, <1>3

LEMMA StepUsed == Shape /\ CallsUsed /\ ChainsUsed /\ RowsUsed /\ [Next]_vars
                      => CallsUsed' /\ ChainsUsed' /\ RowsUsed'
  <1> SUFFICES ASSUME Shape, CallsUsed, ChainsUsed, RowsUsed, [Next]_vars
               PROVE  CallsUsed' /\ ChainsUsed' /\ RowsUsed'
    OBVIOUS
  <1> DEFINE Rest == CallsUsed' /\ ChainsUsed' /\ RowsUsed'
  <1> USE DEF CallsUsed, RowsUsed, Came
  <1>1. ASSUME UNCHANGED <<call, chain, users, used, stored>>
        PROVE  Rest
    BY <1>1 DEF ChainsUsed
  <1>2. CASE \/ UNCHANGED vars
             \/ \E i \in Ids : NewSession(i) \/ TakeOver(i) \/ HandBack(i) \/ NotFound(i)
             \/ \E h \in Handlers : \/ BotWorks(h) \/ Raises(h) \/ Replies(h)
                                    \/ \E d \in Deliveries : Ignore(h, d)
    BY <1>1, <1>2 DEF NewSession, TakeOver, HandBack, NotFound, BotWorks, Raises, Replies, Ignore, vars, front, back
  <1>3. ASSUME NEW h \in Handlers, NEW i \in Ids, NEW c \in ChannelNames, WebMessage(h, i, c)
        PROVE  Rest
    <2>1. i \notin Numbers
      BY <1>3, IdAssumption DEF WebMessage, Shape
    <2>2. QED
      BY <1>3, <2>1, EntersUsed DEF WebMessage, ChannelNames
  <1>4. ASSUME NEW h \in Handlers, NEW d \in Deliveries, WhatsAppMessage(h, d) \/ MessengerMessage(h, d)
        PROVE  Rest
    <2>1. mail[d].id \in Numbers /\ mail[d].id \in Ids /\ mail[d].channel \in ChannelNames
      BY DEF Shape, Ids, ChannelNames
    <2>2. QED
      BY <1>4, <2>1, EntersUsed DEF WhatsAppMessage, MessengerMessage, Deliver
  <1>5. ASSUME NEW h \in Handlers, Silent(h) \/ Answers(h)
        PROVE  Rest
    <2>1. Schedules(h) /\ UNCHANGED <<call, users, used, stored>>
      BY <1>5 DEF Silent, Answers
    <2>2. ChainsUsed'
      BY <2>1, SchedulesShape DEF ChainsUsed
    <2>3. QED
      BY <2>1, <2>2
  <1>6. ASSUME NEW i \in Ids, chain[i] # <<>>, Pops(i)
        PROVE  CallsUsed' /\ ChainsUsed' /\ Came(i, Head(chain[i]))
    <2>1. UNCHANGED <<call, used>> /\ \A j \in Ids \ {i} : chain'[j] = chain[j]
      BY <1>6 DEF Shape, Pops, front
    <2>2. ChainsUsed'
      BY <1>6, <2>1, PopsShape DEF ChainsUsed
    <2>3. Came(i, Head(chain[i]))
      BY <1>6, PopsShape DEF ChainsUsed
    <2>4. QED
      BY <2>1, <2>2, <2>3
  <1>7. ASSUME NEW i \in Ids, Found(i)
        PROVE  Rest
    <2>1. RowsUsed'
      BY <1>6, <1>7 DEF Found, Pops, front
    <2>2. QED
      BY <1>6, <1>7, <2>1 DEF Found
  <1>8. ASSUME NEW i \in Ids, Insert(i)
        PROVE  Rest
    <2>1. chain[i] # <<>> /\ Pops(i) /\ UNCHANGED used
      BY <1>8 DEF Shape, Insert, Pops, front
    <2>2. RowsUsed'
      BY <1>6, <1>8, <2>1 DEF Shape, Insert
    <2>3. QED
      BY <1>6, <2>1, <2>2
  <1>9. ASSUME NEW i \in Ids, WriteFails(i)
        PROVE  Rest
    BY <1>6, <1>9 DEF WriteFails, Pops, front
  <1>10. ASSUME NEW i \in Ids, NEW c \in ChannelNames, CreateUser(i, c)
         PROVE  Rest
    <2>1. i \in stored /\ i \in Numbers => FALSE
      BY <1>10, NoneAssumption DEF Shape, CreateUser
    <2>2. RowsUsed'
      BY <1>10, <2>1 DEF Shape, CreateUser, front
    <2>3. QED
      BY <1>10, <2>2 DEF CreateUser, ChainsUsed, front
  <1>11. CASE Restart
    BY <1>11 DEF Restart, ChainsUsed
  <1>12. QED
    BY <1>2, <1>3, <1>4, <1>5, <1>7, <1>8, <1>9, <1>10, <1>11 DEF Next

\* _real_channel (admin.py): the channel on which an agent answers a stored
\* conversation is one its customer really came by.
THEOREM ReplyInvariant == Spec => []ReplyReaches
  <1>1. Init => Shape /\ CallsUsed /\ ChainsUsed /\ RowsUsed
    BY InitShape, NoneAssumption DEF Init, CallsUsed, ChainsUsed, RowsUsed
  <1>2. Shape /\ RowsUsed => ReplyReaches
    BY IdAssumption DEF Shape, RowsUsed, Came, ReplyReaches, RealChannel, Ids
  <1>3. QED
    BY <1>1, <1>2, StepShape, StepUsed, PTL DEF Spec
=============================================================================
