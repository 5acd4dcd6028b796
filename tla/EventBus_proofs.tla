--------------------------- MODULE EventBus_proofs --------------------------
(***************************************************************************)
(* Theorems about EventBus, for any number of listeners and events.        *)
(***************************************************************************)
EXTENDS EventBus, TLAPS

-----------------------------------------------------------------------------
(* The event bus                                                           *)

\* A message about a listener agrees with where its goroutine is, and the table
\* holds a listener under its own receiver only.
MessagesAgree ==
    /\ \A g \in Listeners :
          /\ eventMessages = [type |-> "register", listener |-> g] =>
                state[g] = "listening"
          /\ eventMessages = [type |-> "unregister", listener |-> g] =>
                state[g] = "left"
    /\ \A r \in Receivers : listeners[r] # NoListener => ReceiverOf[listeners[r]] = r

BusInv == TypeOK /\ MessagesAgree /\ HeardAtMostOnce /\ TableIsCurrent

\* What those who use the bus and the bus itself do, however often.
BusActs ==
    \/ \E g \in Listeners : Register(g) \/ Unregister(g)
    \/ \E e \in Events : Broadcast(e)
    \/ BusStep
    \/ \E g \in Listeners, e \in Events : Receive(g, e)

\* The bounded run does nothing else.
LEMMA NextActs == [Next]_busVars => [BusActs]_busVars
  BY DEF Next, BusActs, Over, busVars

\* A message has the field that its type calls for.
LEMMA MessageFields ==
    ASSUME NEW m \in Message
    PROVE  /\ m.type \in {"register", "unregister"} =>
                 m.listener \in Listeners
                   /\ m = [type |-> m.type, listener |-> m.listener]
           /\ m.type = "broadcast" =>
                 m.event \in Events /\ m = [type |-> "broadcast", event |-> m.event]
<1>1. CASE m \in [type : {"register", "unregister"}, listener : Listeners]
  BY <1>1
<1>2. CASE m \in [type : {"broadcast"}, event : Events]
  BY <1>2
<1>3. QED BY <1>1, <1>2 DEF Message

\* Every message a call sends is one the bus knows.
LEMMA MadeMessages ==
    /\ \A g \in Listeners : [type |-> "register", listener |-> g] \in Message
    /\ \A g \in Listeners : [type |-> "unregister", listener |-> g] \in Message
    /\ \A e \in Events : [type |-> "broadcast", event |-> e] \in Message
  BY DEF Message

\* The invariant holds before anybody has registered.
LEMMA InitBusInv == Init => BusInv
  BY BusAssumption
     DEF Init, BusInv, TypeOK, MessagesAgree, HeardAtMostOnce, TableIsCurrent,
         InSlot, Message

\* Every step of a listener, a broadcaster or the bus keeps the types.
LEMMA NextTypeOK == TypeOK /\ [BusActs]_busVars => TypeOK'
<1> SUFFICES ASSUME TypeOK, [BusActs]_busVars PROVE TypeOK'
    OBVIOUS
<1> USE BusAssumption DEF TypeOK
<1>1. ASSUME NEW g \in Listeners, Register(g) \/ Unregister(g) PROVE TypeOK'
  BY <1>1, MadeMessages DEF Register, Unregister, Send
<1>2. ASSUME NEW e \in Events, Broadcast(e) PROVE TypeOK'
  BY <1>2, MadeMessages DEF Broadcast, Send
<1>3. CASE HandleRegister \/ HandleUnregister
  BY <1>3, MessageFields DEF HandleRegister, HandleUnregister, Take
<1>4. ASSUME NEW audience \in SUBSET Receivers, HandleBroadcast(audience)
      PROVE TypeOK'
  BY <1>4, MessageFields DEF HandleBroadcast, Take
<1>5. ASSUME NEW g \in Listeners, NEW e \in Events, Receive(g, e) PROVE TypeOK'
  BY <1>5 DEF Receive
<1>6. CASE UNCHANGED busVars
  BY <1>6 DEF busVars
<1>7. QED BY <1>1, <1>2, <1>3, <1>4, <1>5, <1>6 DEF BusActs, BusStep

\* A register or unregister message in the slot is from a listener in that state.
LEMMA NextMessagesAgree ==
    TypeOK /\ TypeOK' /\ MessagesAgree /\ [BusActs]_busVars => MessagesAgree'
<1> SUFFICES ASSUME TypeOK, TypeOK', MessagesAgree, [BusActs]_busVars
             PROVE MessagesAgree'
    OBVIOUS
<1> USE BusAssumption DEF TypeOK, MessagesAgree
<1>1. ASSUME NEW g \in Listeners, Register(g) \/ Unregister(g)
      PROVE MessagesAgree'
  BY <1>1 DEF Register, Unregister, Send, Message
<1>2. ASSUME NEW e \in Events, Broadcast(e) PROVE MessagesAgree'
  BY <1>2 DEF Broadcast, Send, Message
<1>3. CASE HandleRegister \/ HandleUnregister
  <2>1. PICK g \in Listeners :
           /\ eventMessages.listener = g
           /\ \/ listeners' = [listeners EXCEPT ![ReceiverOf[g]] = g]
              \/ listeners' = [listeners EXCEPT ![ReceiverOf[g]] = NoListener]
    BY <1>3, MessageFields DEF HandleRegister, HandleUnregister, Take
  <2>2. UNCHANGED state /\ eventMessages' = NoMessage
    BY <1>3 DEF HandleRegister, HandleUnregister, Take
  <2>3. \A r \in Receivers :
           \/ listeners'[r] = listeners[r]
           \/ listeners'[r] = NoListener
           \/ r = ReceiverOf[g] /\ listeners'[r] = g
    BY <2>1
  <2>4. ASSUME NEW h \in Listeners
        PROVE  /\ eventMessages' # [type |-> "register", listener |-> h]
               /\ eventMessages' # [type |-> "unregister", listener |-> h]
    BY <2>2, MadeMessages
  <2>5. QED BY <2>3, <2>4
<1>4. ASSUME NEW audience \in SUBSET Receivers, HandleBroadcast(audience)
      PROVE MessagesAgree'
  BY <1>4, MadeMessages DEF HandleBroadcast, Take
<1>5. ASSUME NEW g \in Listeners, NEW e \in Events, Receive(g, e)
      PROVE MessagesAgree'
  BY <1>5 DEF Receive
<1>6. CASE UNCHANGED busVars
  BY <1>6 DEF busVars
<1>7. QED BY <1>1, <1>2, <1>3, <1>4, <1>5, <1>6 DEF BusActs, BusStep

\* A copy of an event is made from a broadcast and moves from sender to listener.
LEMMA NextHeard ==
    TypeOK /\ TypeOK' /\ HeardAtMostOnce /\ [BusActs]_busVars => HeardAtMostOnce'
<1> SUFFICES ASSUME TypeOK, TypeOK', HeardAtMostOnce, [BusActs]_busVars
             PROVE HeardAtMostOnce'
    OBVIOUS
<1> USE BusAssumption DEF TypeOK, HeardAtMostOnce, InSlot
<1>1. ASSUME NEW g \in Listeners, Register(g) \/ Unregister(g)
      PROVE HeardAtMostOnce'
  BY <1>1 DEF Register, Unregister, Send, Message
<1>2. ASSUME NEW e \in Events, Broadcast(e) PROVE HeardAtMostOnce'
  BY <1>2 DEF Broadcast, Send, Message
<1>3. CASE HandleRegister \/ HandleUnregister
  BY <1>3, MessageFields, MadeMessages DEF HandleRegister, HandleUnregister, Take
<1>4. ASSUME NEW audience \in SUBSET Receivers, HandleBroadcast(audience)
      PROVE HeardAtMostOnce'
  <2>1. PICK e \in Events : eventMessages = [type |-> "broadcast", event |-> e]
    BY <1>4, MessageFields DEF HandleBroadcast, Take
  <2>2. \A g \in Listeners, f \in Events :
           sending'[g][f] <= sending[g][f] + (IF f = e THEN 1 ELSE 0)
    BY <1>4, <2>1 DEF HandleBroadcast
  <2>3. \A f \in Events : InSlot(f) = (IF f = e THEN 1 ELSE 0) /\ InSlot(f)' = 0
    BY <1>4, <2>1, MadeMessages DEF HandleBroadcast, Take
  <2>4. UNCHANGED <<told, heard>>
    BY <1>4 DEF HandleBroadcast
  <2>5. ASSUME NEW g \in Listeners, NEW f \in Events
        PROVE  heard'[g][f] + sending'[g][f] + InSlot(f)' <= told'[f]
    <3>1. heard[g][f] + sending[g][f] + InSlot(f) <= told[f]
      OBVIOUS
    <3>2. /\ heard[g][f] \in Nat /\ sending[g][f] \in Nat /\ told[f] \in Nat
          /\ sending'[g][f] \in Nat
      OBVIOUS
    <3> HIDE DEF InSlot, TypeOK, HeardAtMostOnce
    <3>3. QED BY <2>2, <2>3, <2>4, <3>1, <3>2
  <2>6. QED BY <2>5
<1>5. ASSUME NEW g \in Listeners, NEW e \in Events, Receive(g, e)
      PROVE HeardAtMostOnce'
  BY <1>5 DEF Receive
<1>6. CASE UNCHANGED busVars
  BY <1>6 DEF busVars
<1>7. QED BY <1>1, <1>2, <1>3, <1>4, <1>5, <1>6 DEF BusActs, BusStep

\* An entry outlives its listener only until the unregister message is handled.
LEMMA NextTable ==
    TypeOK /\ TypeOK' /\ MessagesAgree /\ TableIsCurrent /\ [BusActs]_busVars
    => TableIsCurrent'
<1> SUFFICES ASSUME TypeOK, TypeOK', MessagesAgree, TableIsCurrent, [BusActs]_busVars
             PROVE TableIsCurrent'
    OBVIOUS
<1> USE BusAssumption DEF TypeOK, MessagesAgree, TableIsCurrent
<1>1. ASSUME NEW g \in Listeners, Register(g) \/ Unregister(g)
      PROVE TableIsCurrent'
  BY <1>1 DEF Register, Unregister, Send, Message
<1>2. ASSUME NEW e \in Events, Broadcast(e) PROVE TableIsCurrent'
  BY <1>2 DEF Broadcast, Send, Message
<1>3. CASE HandleRegister \/ HandleUnregister
  BY <1>3, MessageFields, MadeMessages DEF HandleRegister, HandleUnregister, Take
<1>4. ASSUME NEW audience \in SUBSET Receivers, HandleBroadcast(audience)
      PROVE TableIsCurrent'
  BY <1>4, MadeMessages DEF HandleBroadcast, Take
<1>5. ASSUME NEW g \in Listeners, NEW e \in Events, Receive(g, e)
      PROVE TableIsCurrent'
  BY <1>5 DEF Receive
<1>6. CASE UNCHANGED busVars
  BY <1>6 DEF busVars
<1>7. QED BY <1>1, <1>2, <1>3, <1>4, <1>5, <1>6 DEF BusActs, BusStep

\* Together: the invariant is kept by whoever uses the bus through its calls.
LEMMA NextBusInv == BusInv /\ [BusActs]_busVars => BusInv'
  BY NextTypeOK, NextMessagesAgree, NextHeard, NextTable DEF BusInv

\* The bus keeps its inductive invariant, in every behaviour.
THEOREM BusInvariant == Spec => []BusInv
<1>1. BusInv /\ [Next]_busVars => BusInv'
  BY NextActs, NextBusInv
<1>2. QED BY <1>1, InitBusInv, PTL DEF Spec

\* The variables keep their types; among others, there is never more than one
\* message in the slot, and no negative number of copies on the way.
THEOREM BusTypes == Spec => []TypeOK
  BY BusInvariant, PTL DEF BusInv

\* However many goroutines carry them, the copies of an event that one listener
\* has heard or is still to hear never outnumber its broadcasts.
THEOREM EventsAreHeardAtMostOnce == Spec => []HeardAtMostOnce
  BY BusInvariant, PTL DEF BusInv

\* The table names nobody who has left, but for one whose unregister message is
\* the one in the slot.
THEOREM TheTableIsCurrent == Spec => []TableIsCurrent
  BY BusInvariant, PTL DEF BusInv

\* Nobody is put out of the table by another's call, unless they share a receiver.
LEMMA NextRegistered ==
    ASSUME \A g, h \in Listeners : ReceiverOf[g] = ReceiverOf[h] => g = h,
           BusInv, ListenersStayRegistered, [BusActs]_busVars
    PROVE  ListenersStayRegistered'
<1> USE BusAssumption
    DEF BusInv, TypeOK, MessagesAgree, ListenersStayRegistered
<1>1. ASSUME NEW g \in Listeners, Register(g) \/ Unregister(g)
      PROVE ListenersStayRegistered'
  BY <1>1 DEF Register, Unregister, Send, Message
<1>2. ASSUME NEW e \in Events, Broadcast(e) PROVE ListenersStayRegistered'
  BY <1>2 DEF Broadcast, Send, Message
<1>3. CASE HandleRegister \/ HandleUnregister
  BY <1>3, MessageFields, MadeMessages DEF HandleRegister, HandleUnregister, Take
<1>4. ASSUME NEW audience \in SUBSET Receivers, HandleBroadcast(audience)
      PROVE ListenersStayRegistered'
  BY <1>4, MadeMessages DEF HandleBroadcast, Take
<1>5. ASSUME NEW g \in Listeners, NEW e \in Events, Receive(g, e)
      PROVE ListenersStayRegistered'
  BY <1>5 DEF Receive
<1>6. CASE UNCHANGED busVars
  BY <1>6 DEF busVars
<1>7. QED BY <1>1, <1>2, <1>3, <1>4, <1>5, <1>6 DEF BusActs, BusStep

\* Two listeners with one receiver would take each other's place in the table;
\* if there are none, a listener that has registered is found there until it
\* unregisters, and one that has left is not.
THEOREM TableIsTheListeners ==
    ASSUME \A g, h \in Listeners : ReceiverOf[g] = ReceiverOf[h] => g = h
    PROVE  Spec => []TableFollowsListeners
<1>1. Init => ListenersStayRegistered
  BY DEF Init, ListenersStayRegistered
<1>2. BusInv /\ ListenersStayRegistered /\ [Next]_busVars => ListenersStayRegistered'
  BY NextActs, NextRegistered
<1>3. BusInv /\ ListenersStayRegistered => TableFollowsListeners
  BY DEF BusInv, TableFollowsListeners
<1>4. QED BY <1>1, <1>2, <1>3, BusInvariant, PTL DEF Spec
=============================================================================
