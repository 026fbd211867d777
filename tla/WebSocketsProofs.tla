-------------------------- MODULE WebSocketsProofs --------------------------
(***************************************************************************)
(* The count of an address and the registry follow the sockets, whatever   *)
(* the number of sockets, clients, addresses and restarts.                 *)
(*                                                                         *)
(* AloneIsReachable is not inductive: the end of one socket of a client    *)
(* empties the client's entry, so a step preserves it only because a       *)
(* socket outside of crossed has no sibling being served (Apart).          *)
(***************************************************************************)
EXTENDS WebSockets, FiniteSetTheorems, TLAPS

\* A socket that met no other one of its client is the only one served.
Apart == \A s \in Sockets \ crossed : endpoint[s] \in Counted => Siblings(s) = {}

RegistryInv == TypeOK /\ RegistryIsLive /\ Apart /\ AloneIsReachable
SocketInv == RegistryInv /\ CountIsExact

---------------------------------------------------------------------------
(* Types                                                                   *)

LEMMA EndsType ==
    ASSUME TypeOK, NEW s \in Sockets, Ends(s)
    PROVE  TypeOK'
<1>1. ClientOf[s] \in Clients /\ AddressOf[s] \in Addresses
    BY SocketAssumption
<1>2. count' \in [Addresses -> 0..MaxSockets]
    <2>1. count[AddressOf[s]] \in 0..MaxSockets
        BY <1>1 DEF TypeOK
    <2>2. (IF count[AddressOf[s]] <= 1 THEN 0 ELSE count[AddressOf[s]] - 1) \in 0..MaxSockets
        BY <2>1, LimitAssumption
    <2> QED BY <2>2 DEF TypeOK, Ends, ws_connection_closed
<1>3. \A c \in Clients : registry'[c] # NoSocket => ClientOf[registry'[c]] = c
    BY DEF TypeOK, Ends
<1> QED BY <1>2, <1>3 DEF TypeOK, Ends, Counted

LEMMA NextType ==
    ASSUME TypeOK, [Next]_vars
    PROVE  TypeOK'
<1> USE LimitAssumption
<1>1. CASE UNCHANGED vars
    BY <1>1 DEF TypeOK, vars
<1>2. ASSUME NEW s \in Sockets, Admit(s) PROVE TypeOK'
    <2>1. AddressOf[s] \in Addresses
        BY SocketAssumption
    <2>2. count[AddressOf[s]] + 1 \in 0..MaxSockets
        BY <1>2, <2>1 DEF TypeOK, Admit
    <2>3. count' \in [Addresses -> 0..MaxSockets]
        BY <1>2, <2>2 DEF TypeOK, Admit
    <2> QED BY <1>2, <2>3 DEF TypeOK, Admit, Counted, Siblings
<1>3. ASSUME NEW s \in Sockets, Refuse(s) PROVE TypeOK'
    BY <1>3 DEF TypeOK, Refuse
<1>4. ASSUME NEW s \in Sockets, Connect(s) PROVE TypeOK'
    <2>1. ClientOf[s] \in Clients
        BY SocketAssumption
    <2>2. \A c \in Clients : registry'[c] # NoSocket => ClientOf[registry'[c]] = c
        BY <1>4 DEF TypeOK, Connect
    <2> QED BY <1>4, <2>1, <2>2 DEF TypeOK, Connect, Counted, Accepted
<1>5. ASSUME NEW s \in Sockets, Message(s) \/ Answered(s) PROVE TypeOK'
    BY <1>5 DEF TypeOK, Message, Answered, Counted, Accepted
<1>6. ASSUME NEW s \in Sockets, Disconnected(s) \/ Raises(s) \/ Rejected(s) PROVE TypeOK'
    BY <1>6, EndsType DEF Disconnected, Raises, Rejected
<1>7. ASSUME NEW s \in Sockets, Leave(s) PROVE TypeOK'
    BY <1>7 DEF TypeOK, Leave
<1>8. ASSUME NEW r \in Replies, NEW c \in Clients, Reply(r, c) PROVE TypeOK'
    BY <1>8 DEF TypeOK, Reply
<1>9. CASE Restart
    BY <1>9 DEF TypeOK, Restart
<1> QED BY <1>1, <1>2, <1>3, <1>4, <1>5, <1>6, <1>7, <1>8, <1>9 DEF Next

\* Every variable keeps its type, an entry of the registry is a socket of its
\* client, and no address ever has more than MaxSockets sockets.
THEOREM TypeCorrect == Spec => []TypeOK
<1>1. Init => TypeOK
    BY LimitAssumption DEF Init, TypeOK
<1>2. TypeOK /\ [Next]_vars => TypeOK'
    BY NextType
<1> QED BY <1>1, <1>2, PTL DEF Spec

---------------------------------------------------------------------------
(* The registry                                                            *)

LEMMA EndsRegistry ==
    ASSUME RegistryInv, NEW s \in Sockets, endpoint[s] \in Counted, Ends(s)
    PROVE  RegistryInv'
<1> USE DEF RegistryInv
<1>1. TypeOK'
    BY EndsType
<1>2. RegistryIsLive'
    <2> SUFFICES ASSUME NEW c \in Clients, registry'[c] # NoSocket
                 PROVE  endpoint'[registry'[c]] \in Accepted
        BY DEF RegistryIsLive
    <2>1. registry'[c] = registry[c] /\ c # ClientOf[s]
        BY DEF Ends, TypeOK
    <2>2. registry[c] \in Sockets /\ ClientOf[registry[c]] = c /\ endpoint[registry[c]] \in Accepted
        BY <2>1 DEF TypeOK, RegistryIsLive
    <2>3. registry[c] # s
        BY <2>1, <2>2
    <2> QED BY <2>1, <2>2, <2>3 DEF Ends, TypeOK
<1>3. Apart'
    BY DEF Apart, Siblings, Ends, TypeOK, Counted, Accepted
<1>4. AloneIsReachable'
    <2> SUFFICES ASSUME NEW t \in Sockets \ crossed, endpoint'[t] \in Accepted
                 PROVE  registry'[ClientOf[t]] = t
        BY DEF AloneIsReachable, Ends
    <2>1. t # s /\ endpoint[t] \in Accepted
        BY DEF Ends, TypeOK, Accepted
    <2>2. ClientOf[t] # ClientOf[s]
        BY <2>1 DEF Apart, Siblings, Counted
    <2>3. ClientOf[t] \in Clients /\ registry[ClientOf[t]] = t
        BY <2>1, SocketAssumption DEF AloneIsReachable
    <2> QED BY <2>2, <2>3 DEF Ends, TypeOK
<1> QED BY <1>1, <1>2, <1>3, <1>4

LEMMA AdmitRegistry ==
    ASSUME RegistryInv, NEW s \in Sockets, Admit(s)
    PROVE  RegistryInv'
<1> USE DEF RegistryInv
<1>1. TypeOK'
    BY NextType DEF Next
<1>2. \A t \in Sockets : t # s => endpoint'[t] = endpoint[t]
    BY DEF Admit, TypeOK
<1>3. endpoint'[s] = "accepting" /\ endpoint[s] = "none"
    BY DEF Admit, TypeOK
<1>4. RegistryIsLive'
    <2> SUFFICES ASSUME NEW c \in Clients, registry[c] # NoSocket
                 PROVE  endpoint'[registry[c]] \in Accepted
        BY DEF RegistryIsLive, Admit
    <2>1. registry[c] \in Sockets /\ endpoint[registry[c]] \in Accepted
        BY DEF TypeOK, RegistryIsLive
    <2> QED BY <2>1, <1>2, <1>3 DEF Accepted
<1>5. Apart'
    <2> SUFFICES ASSUME NEW t \in Sockets, t \notin crossed', endpoint'[t] \in Counted,
                        NEW u \in Siblings(t)'
                 PROVE  FALSE
        BY DEF Apart
    <2>1. u \in Sockets /\ u # t /\ ClientOf[u] = ClientOf[t] /\ endpoint'[u] \in Counted
        BY DEF Siblings
    <2>2. crossed' = crossed \cup Siblings(s) \cup (IF Siblings(s) = {} THEN {} ELSE {s})
        BY DEF Admit
    <2>3. CASE t = s
        <3>1. u \in Siblings(s)
            BY <2>1, <2>3, <1>2 DEF Siblings
        <3> QED BY <3>1, <2>2, <2>3
    <2>4. CASE u = s
        <3>1. t \in Siblings(s)
            BY <2>1, <2>4, <1>2 DEF Siblings
        <3> QED BY <3>1, <2>2
    <2>5. CASE t # s /\ u # s
        <3>1. u \in Siblings(t) /\ endpoint[t] \in Counted
            BY <2>1, <2>5, <1>2 DEF Siblings
        <3> QED BY <3>1, <2>2 DEF Apart
    <2> QED BY <2>3, <2>4, <2>5
<1>6. AloneIsReachable'
    <2> SUFFICES ASSUME NEW t \in Sockets \ crossed, endpoint'[t] \in Accepted
                 PROVE  registry[ClientOf[t]] = t
        BY DEF AloneIsReachable, Admit
    <2>1. t # s
        BY <1>3 DEF Accepted
    <2> QED BY <2>1, <1>2 DEF AloneIsReachable
<1> QED BY <1>1, <1>4, <1>5, <1>6

LEMMA ConnectRegistry ==
    ASSUME RegistryInv, NEW s \in Sockets, Connect(s)
    PROVE  RegistryInv'
<1> USE DEF RegistryInv
<1>1. TypeOK'
    BY NextType DEF Next
<1>2. /\ endpoint[s] = "accepting" /\ endpoint'[s] = "open"
      /\ \A t \in Sockets : t # s => endpoint'[t] = endpoint[t]
    BY DEF Connect, TypeOK
<1>3. /\ ClientOf[s] \in Clients /\ registry'[ClientOf[s]] = s
      /\ \A c \in Clients : c # ClientOf[s] => registry'[c] = registry[c]
    BY SocketAssumption DEF Connect, TypeOK
<1>4. RegistryIsLive'
    <2> SUFFICES ASSUME NEW c \in Clients, registry'[c] # NoSocket
                 PROVE  endpoint'[registry'[c]] \in Accepted
        BY DEF RegistryIsLive
    <2>1. CASE c = ClientOf[s]
        BY <2>1, <1>2, <1>3 DEF Accepted
    <2>2. CASE c # ClientOf[s]
        <3>1. registry[c] \in Sockets /\ endpoint[registry[c]] \in Accepted
            BY <2>2, <1>3 DEF TypeOK, RegistryIsLive
        <3> QED BY <3>1, <2>2, <1>2, <1>3 DEF Accepted
    <2> QED BY <2>1, <2>2
<1>5. Apart'
    BY <1>2 DEF Apart, Siblings, Connect, Counted, Accepted
<1>6. AloneIsReachable'
    <2> SUFFICES ASSUME NEW t \in Sockets \ crossed, endpoint'[t] \in Accepted, t # s
                 PROVE  registry'[ClientOf[t]] = t
        BY <1>3 DEF AloneIsReachable, Connect
    <2>1. endpoint[t] \in Accepted
        BY <1>2
    <2>2. s \notin Siblings(t)
        BY <2>1 DEF Apart, Counted
    <2>3. ClientOf[t] # ClientOf[s]
        BY <2>2, <1>2 DEF Siblings, Counted
    <2> QED BY <2>1, <2>3, <1>3, SocketAssumption DEF AloneIsReachable
<1> QED BY <1>1, <1>4, <1>5, <1>6

LEMMA NextRegistry ==
    ASSUME RegistryInv, [Next]_vars
    PROVE  RegistryInv'
<1> USE DEF RegistryInv
<1>1. TypeOK'
    BY NextType
<1>2. CASE UNCHANGED vars
    BY <1>2, <1>1 DEF vars, RegistryIsLive, Apart, Siblings, AloneIsReachable
<1>3. ASSUME NEW s \in Sockets, Admit(s) PROVE RegistryInv'
    BY <1>3, AdmitRegistry
<1>4. ASSUME NEW s \in Sockets, Refuse(s) PROVE RegistryInv'
    <2>1. /\ \A t \in Sockets : endpoint'[t] \in Counted <=> endpoint[t] \in Counted
          /\ \A t \in Sockets : endpoint'[t] \in Accepted <=> endpoint[t] \in Accepted
        BY <1>4 DEF Refuse, TypeOK, Counted, Accepted
    <2>2. UNCHANGED <<registry, crossed>>
        BY <1>4 DEF Refuse
    <2>3. RegistryIsLive'
        BY <2>1, <2>2 DEF RegistryIsLive, TypeOK
    <2>4. Apart'
        BY <2>1, <2>2 DEF Apart, Siblings
    <2> QED BY <1>1, <2>1, <2>2, <2>3, <2>4 DEF AloneIsReachable
<1>5. ASSUME NEW s \in Sockets, Connect(s) PROVE RegistryInv'
    BY <1>5, ConnectRegistry
<1>6. ASSUME NEW s \in Sockets, Message(s) \/ Answered(s) PROVE RegistryInv'
    <2>1. /\ \A t \in Sockets : endpoint'[t] \in Counted <=> endpoint[t] \in Counted
          /\ \A t \in Sockets : endpoint'[t] \in Accepted <=> endpoint[t] \in Accepted
        BY <1>6 DEF Message, Answered, TypeOK, Counted, Accepted
    <2>2. UNCHANGED <<registry, crossed>>
        BY <1>6 DEF Message, Answered
    <2>3. RegistryIsLive'
        BY <2>1, <2>2 DEF RegistryIsLive, TypeOK
    <2>4. Apart'
        BY <2>1, <2>2 DEF Apart, Siblings
    <2> QED BY <1>1, <2>1, <2>2, <2>3, <2>4 DEF AloneIsReachable
<1>7. ASSUME NEW s \in Sockets, Disconnected(s) \/ Raises(s) \/ Rejected(s) PROVE RegistryInv'
    <2>1. endpoint[s] \in Counted /\ Ends(s)
        BY <1>7 DEF Disconnected, Raises, Rejected, Counted, Accepted
    <2> QED BY <2>1, EndsRegistry
<1>8. CASE \E s \in Sockets : Leave(s)
    BY <1>8, <1>1 DEF Leave, RegistryIsLive, Apart, Siblings, AloneIsReachable
<1>9. CASE \E r \in Replies, c \in Clients : Reply(r, c)
    BY <1>9, <1>1 DEF Reply, RegistryIsLive, Apart, Siblings, AloneIsReachable
<1>10. CASE Restart
    BY <1>10, <1>1 DEF Restart, TypeOK, RegistryIsLive, Apart, Siblings, AloneIsReachable,
                       Counted, Accepted
<1> QED BY <1>2, <1>3, <1>4, <1>5, <1>6, <1>7, <1>8, <1>9, <1>10 DEF Next

---------------------------------------------------------------------------
(* The count                                                               *)

LEMMA ServedFinite == \A a : IsFiniteSet(Served(a))
<1> SUFFICES ASSUME NEW a PROVE IsFiniteSet(Served(a))
    OBVIOUS
<1>1. Served(a) \subseteq Sockets
    BY DEF Served
<1> QED BY <1>1, SocketAssumption, FS_Subset

\* The end of a served socket gives back exactly one place.
LEMMA EndsCount ==
    ASSUME TypeOK, CountIsExact, NEW s \in Sockets, endpoint[s] \in Counted, Ends(s)
    PROVE  CountIsExact'
<1> SUFFICES ASSUME NEW a \in Addresses PROVE count'[a] = Cardinality(Served(a)')
    BY DEF CountIsExact
<1>1. CASE a = AddressOf[s]
    <2>1. Served(a)' = Served(a) \ {s} /\ s \in Served(a)
        BY <1>1 DEF Served, Ends, TypeOK, Counted, Accepted
    <2>2. Cardinality(Served(a)') = count[a] - 1
        BY <2>1, ServedFinite, FS_RemoveElement DEF CountIsExact
    <2>3. Cardinality(Served(a)') \in Nat
        BY <2>1, ServedFinite, FS_RemoveElement, FS_CardinalityType
    <2>4. count[a] \in Nat
        BY DEF TypeOK
    <2>5. count'[a] = IF count[a] <= 1 THEN 0 ELSE count[a] - 1
        BY <1>1 DEF Ends, ws_connection_closed, TypeOK
    <2> QED BY <2>2, <2>3, <2>4, <2>5
<1>2. CASE a # AddressOf[s]
    <2>1. Served(a)' = Served(a)
        BY <1>2 DEF Served, Ends, TypeOK
    <2> QED BY <1>2, <2>1 DEF CountIsExact, Ends, ws_connection_closed, TypeOK
<1> QED BY <1>1, <1>2

LEMMA NextCount ==
    ASSUME TypeOK, CountIsExact, [Next]_vars
    PROVE  CountIsExact'
<1>1. ASSUME UNCHANGED count, \A s \in Sockets : endpoint'[s] \in Counted <=> endpoint[s] \in Counted
      PROVE  CountIsExact'
    <2>1. \A a : Served(a)' = Served(a)
        BY <1>1 DEF Served
    <2> QED BY <1>1, <2>1 DEF CountIsExact
<1>2. CASE UNCHANGED vars
    BY <1>2, <1>1 DEF vars
<1>3. ASSUME NEW s \in Sockets, Admit(s) PROVE CountIsExact'
    <2> SUFFICES ASSUME NEW a \in Addresses PROVE count'[a] = Cardinality(Served(a)')
        BY DEF CountIsExact
    <2>1. CASE a = AddressOf[s]
        <3>1. Served(a)' = Served(a) \cup {s} /\ s \notin Served(a)
            BY <1>3, <2>1 DEF Served, Admit, TypeOK, Counted, Accepted
        <3>2. Cardinality(Served(a)') = count[a] + 1
            BY <3>1, ServedFinite, FS_AddElement DEF CountIsExact
        <3> QED BY <3>2, <1>3, <2>1 DEF Admit, TypeOK
    <2>2. CASE a # AddressOf[s]
        <3>1. Served(a)' = Served(a)
            BY <1>3, <2>2 DEF Served, Admit, TypeOK
        <3> QED BY <1>3, <2>2, <3>1 DEF CountIsExact, Admit, TypeOK
    <2> QED BY <2>1, <2>2
<1>4. ASSUME NEW s \in Sockets, Refuse(s) \/ Connect(s) \/ Message(s) \/ Answered(s)
      PROVE  CountIsExact'
    BY <1>1, <1>4 DEF Refuse, Connect, Message, Answered, TypeOK, Counted, Accepted
<1>5. ASSUME NEW s \in Sockets, Disconnected(s) \/ Raises(s) \/ Rejected(s) PROVE CountIsExact'
    <2>1. endpoint[s] \in Counted /\ Ends(s)
        BY <1>5 DEF Disconnected, Raises, Rejected, Counted, Accepted
    <2> QED BY <2>1, EndsCount
<1>6. CASE \E s \in Sockets : Leave(s)
    BY <1>1, <1>6 DEF Leave
<1>7. CASE \E r \in Replies, c \in Clients : Reply(r, c)
    BY <1>1, <1>7 DEF Reply
<1>8. CASE Restart
    <2>1. \A a : Served(a)' = {}
        BY <1>8 DEF Restart, Served, Counted, Accepted
    <2> QED BY <1>8, <2>1, FS_EmptySet DEF CountIsExact, Restart
<1> QED BY <1>2, <1>3, <1>4, <1>5, <1>6, <1>7, <1>8 DEF Next

---------------------------------------------------------------------------
LEMMA InitInv == Init => SocketInv
<1> SUFFICES ASSUME Init PROVE SocketInv
    OBVIOUS
<1>1. TypeOK
    BY LimitAssumption DEF Init, TypeOK
<1>2. RegistryIsLive /\ Apart /\ AloneIsReachable
    BY DEF Init, RegistryIsLive, Apart, AloneIsReachable, Counted, Accepted
<1>3. \A a : Served(a) = {}
    BY DEF Init, Served, Counted, Accepted
<1>4. CountIsExact
    BY <1>3, FS_EmptySet DEF Init, CountIsExact
<1> QED BY <1>1, <1>2, <1>4 DEF SocketInv, RegistryInv

\* The inductive invariant of the sockets, the registry and the counts.
THEOREM Invariance == Spec => []SocketInv
<1>1. SocketInv /\ [Next]_vars => SocketInv'
    BY NextRegistry, NextCount DEF SocketInv, RegistryInv
<1> QED BY InitInv, <1>1, PTL DEF Spec

\* The count of an address is always the number of sockets served for it.
THEOREM CountFollowsSockets == Spec => []CountIsExact
<1>1. SocketInv => CountIsExact
    BY DEF SocketInv
<1> QED BY Invariance, <1>1, PTL

\* No entry of the registry outlives the endpoint of its socket.
THEOREM EntriesAreServed == Spec => []RegistryIsLive
<1>1. SocketInv => RegistryIsLive
    BY DEF SocketInv, RegistryInv
<1> QED BY Invariance, <1>1, PTL

\* A served socket that met no other one of its client is the one agents reach.
THEOREM AloneReached == Spec => []AloneIsReachable
<1>1. SocketInv => AloneIsReachable
    BY DEF SocketInv, RegistryInv
<1> QED BY Invariance, <1>1, PTL

\* An agent is told that a customer cannot be reached only when no endpoint
\* serves a socket of the customer, but those that met another one.
THEOREM UnreachableOnlyGone == Spec => UnreachableIsGone
<1>1. ASSUME SocketInv, NEW r \in Replies, NEW c \in Clients, Reply(r, c),
             reply'[r] = "unreachable", NEW s \in Sockets \ crossed, ClientOf[s] = c
      PROVE  endpoint[s] \notin Accepted
    <2>1. registry[c] = NoSocket
        BY <1>1 DEF Reply, SocketInv, RegistryInv, TypeOK
    <2> QED BY <1>1, <2>1, SocketAssumption DEF SocketInv, RegistryInv, AloneIsReachable
<1>2. SocketInv =>
        [\A r \in Replies, c \in Clients :
           Reply(r, c) /\ reply'[r] = "unreachable"
             => \A s \in Sockets \ crossed : ClientOf[s] = c => endpoint[s] \notin Accepted]_vars
    BY <1>1
<1> QED BY Invariance, <1>2, PTL DEF UnreachableIsGone
=============================================================================
