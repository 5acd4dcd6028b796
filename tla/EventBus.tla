------------------------------ MODULE EventBus ------------------------------
(***************************************************************************)
(* Package events: one goroutine owns the table of listeners and takes      *)
(* register, unregister and broadcast messages from a one-slot channel.     *)
(*                                                                          *)
(* A broadcast does not hand the event to the listeners itself.  It starts  *)
(* one goroutine per listener that waits to send on the listener's          *)
(* unbuffered channel, so that a slow listener holds nobody up; in return   *)
(* the events that wait for one listener arrive in any order, and those     *)
(* whose listener has stopped reading wait for ever.                        *)
(*                                                                          *)
(* Which receivers an event is for (IsFor) depends on rooms and on the      *)
(* event.  A tick, a logout or a line to everybody is for all of them; for  *)
(* the others it is any set here, a module that uses the bus says which.    *)
(***************************************************************************)
EXTENDS Naturals

CONSTANTS
    Receivers,      \* keys of the table: characters, SimpleReceivers
    Listeners,      \* goroutines that register, each with a channel of its own
    ReceiverOf,     \* the receiver each listener registers
    Events,
    Shouts,         \* the events that are for everybody
    MaxBroadcasts,  \* how often each event is broadcast (bounds the run)
    NoListener, NoMessage

\* What the goroutine that owns the table is told.
Message ==
    [type : {"register", "unregister"}, listener : Listeners]
        \cup [type : {"broadcast"}, event : Events]

ASSUME BusAssumption ==
    /\ ReceiverOf \in [Listeners -> Receivers]
    /\ NoListener \notin Listeners
    /\ NoMessage \notin Message
    /\ Shouts \subseteq Events
    /\ MaxBroadcasts \in Nat

VARIABLES
    listeners,      \* _listeners: the channel registered for each receiver
    eventMessages,  \* the bus's one-slot channel
    sending,        \* goroutines waiting to send an event on a channel
    state,          \* whether a listener's goroutine has registered or left
    told, heard     \* how often each event was broadcast, and received (history)

busVars == <<listeners, eventMessages, sending, state, told, heard>>

----------------------------------------------------------------------------
(* The calls.  Each blocks while the slot is taken.                         *)

Send(m) == eventMessages = NoMessage /\ eventMessages' = m

Register(g) ==
    /\ state[g] = "new"
    /\ Send([type |-> "register", listener |-> g])
    /\ state' = [state EXCEPT ![g] = "listening"]
    /\ UNCHANGED <<listeners, sending, told, heard>>

Unregister(g) ==
    /\ state[g] = "listening"
    /\ Send([type |-> "unregister", listener |-> g])
    /\ state' = [state EXCEPT ![g] = "left"]
    /\ UNCHANGED <<listeners, sending, told, heard>>

Broadcast(e) ==
    /\ Send([type |-> "broadcast", event |-> e])
    /\ told' = [told EXCEPT ![e] = @ + 1]
    /\ UNCHANGED <<listeners, sending, state, heard>>

----------------------------------------------------------------------------
(* The bus goroutine handles one message.                                   *)

Take(type) ==
    /\ eventMessages # NoMessage
    /\ eventMessages.type = type
    /\ eventMessages' = NoMessage

HandleRegister ==
    /\ Take("register")
    /\ listeners' = [listeners EXCEPT ![ReceiverOf[eventMessages.listener]] =
                        eventMessages.listener]
    /\ UNCHANGED <<sending, state, told, heard>>

\* Faulty variant: a new table is made instead of deleting from the old one.
HandleUnregisterAll ==
    /\ Take("unregister")
    /\ listeners' = [r \in Receivers |-> NoListener]
    /\ UNCHANGED <<sending, state, told, heard>>

\* Faulty variant: the message is taken and the entry forgotten.
HandleUnregisterLate ==
    /\ Take("unregister")
    /\ UNCHANGED <<listeners, sending, state, told, heard>>

\* The table is keyed by receiver: the entry goes, whoever registered it.
HandleUnregister ==
    /\ Take("unregister")
    /\ listeners' = [listeners EXCEPT ![ReceiverOf[eventMessages.listener]] =
                        NoListener]
    /\ UNCHANGED <<sending, state, told, heard>>

\* Faulty variant: the bus waits for its events to be received.
HandleBroadcastWaiting(audience) ==
    /\ Take("broadcast")
    /\ \A g \in Listeners, e \in Events : sending[g][e] = 0
    /\ sending' = [g \in Listeners |->
           IF \E r \in audience : listeners[r] = g
             THEN [sending[g] EXCEPT ![eventMessages.event] = @ + 1]
             ELSE sending[g]]
    /\ UNCHANGED <<listeners, state, told, heard>>

\* Faulty variant: a listener with an event waiting gets no second one.
HandleBroadcastDropping(audience) ==
    /\ Take("broadcast")
    /\ sending' = [g \in Listeners |->
           IF /\ \E r \in audience : listeners[r] = g
              /\ \A f \in Events : sending[g][f] = 0
             THEN [sending[g] EXCEPT ![eventMessages.event] = @ + 1]
             ELSE sending[g]]
    /\ UNCHANGED <<listeners, state, told, heard>>

\* A copy of the event for every listener it is for (IsFor).
HandleBroadcast(audience) ==
    /\ Take("broadcast")
    /\ sending' = [g \in Listeners |->
           IF \E r \in audience : listeners[r] = g
             THEN [sending[g] EXCEPT ![eventMessages.event] = @ + 1]
             ELSE sending[g]]
    /\ UNCHANGED <<listeners, state, told, heard>>

\* Faulty variant: receives although nobody sends.
ReceiveZero(g, e) ==
    /\ state[g] = "listening"
    /\ sending' = [sending EXCEPT ![g][e] = @ - 1]
    /\ heard' = [heard EXCEPT ![g][e] = @ + 1]
    /\ UNCHANGED <<listeners, eventMessages, state, told>>

\* Faulty variant: the sender is not released by the receive.
ReceiveAgain(g, e) ==
    /\ state[g] = "listening"
    /\ sending[g][e] > 0
    /\ heard[g][e] <= told[e]
    /\ heard' = [heard EXCEPT ![g][e] = @ + 1]
    /\ UNCHANGED <<listeners, eventMessages, sending, state, told>>

\* A listener receives one of the events waiting for it.
Receive(g, e) ==
    /\ state[g] = "listening"
    /\ sending[g][e] > 0
    /\ sending' = [sending EXCEPT ![g][e] = @ - 1]
    /\ heard' = [heard EXCEPT ![g][e] = @ + 1]
    /\ UNCHANGED <<listeners, eventMessages, state, told>>

----------------------------------------------------------------------------
Init ==
    /\ listeners = [r \in Receivers |-> NoListener]
    /\ eventMessages = NoMessage
    /\ sending = [g \in Listeners |-> [e \in Events |-> 0]]
    /\ state = [g \in Listeners |-> "new"]
    /\ told = [e \in Events |-> 0]
    /\ heard = [g \in Listeners |-> [e \in Events |-> 0]]

BusStep ==
    \/ HandleRegister
    \/ HandleUnregister
    \/ \E audience \in SUBSET Receivers :
          /\ HandleBroadcast(audience)
          /\ eventMessages.event \in Shouts => audience = Receivers

\* The bounded run is over: everybody has left and no broadcast remains.
Over ==
    /\ \A g \in Listeners : state[g] = "left"
    /\ \A e \in Events : told[e] = MaxBroadcasts
    /\ eventMessages = NoMessage
    /\ UNCHANGED busVars

Next ==
    \/ \E g \in Listeners : Register(g) \/ Unregister(g)
    \/ \E e \in Events : told[e] < MaxBroadcasts /\ Broadcast(e)
    \/ BusStep
    \/ \E g \in Listeners, e \in Events : Receive(g, e)
    \/ Over

Spec == Init /\ [][Next]_busVars

(* The bus goroutine runs, and a registered listener goes on receiving; a   *)
(* channel serves the senders that wait on it in order.                     *)
Fairness ==
    /\ WF_busVars(BusStep)
    /\ \A g \in Listeners, e \in Events : SF_busVars(Receive(g, e))

FairSpec == Spec /\ Fairness

----------------------------------------------------------------------------
(* Properties.                                                              *)

\* Every variable has the type its Go counterpart has.
TypeOK ==
    /\ listeners \in [Receivers -> Listeners \cup {NoListener}]
    /\ eventMessages \in Message \cup {NoMessage}
    /\ sending \in [Listeners -> [Events -> Nat]]
    /\ state \in [Listeners -> {"new", "listening", "left"}]
    /\ told \in [Events -> Nat]
    /\ heard \in [Listeners -> [Events -> Nat]]

\* An event in the slot has been broadcast but reached nobody yet.
InSlot(e) ==
    IF eventMessages = [type |-> "broadcast", event |-> e] THEN 1 ELSE 0

\* No listener hears an event more often than it was broadcast, counting the
\* copies still on their way (events.go:72-79).
HeardAtMostOnce ==
    \A g \in Listeners, e \in Events :
        heard[g][e] + sending[g][e] + InSlot(e) <= told[e]

\* While no two listeners stand for one receiver, a listener that has
\* registered stays in the table until it leaves itself (events.go:68-71).
ListenersStayRegistered ==
    \A g \in Listeners :
        state[g] = "listening" =>
            \/ listeners[ReceiverOf[g]] = g
            \/ eventMessages = [type |-> "register", listener |-> g]

\* Nobody who has left is sent anything that was broadcast once its entry was
\* gone: the table only holds listeners that are there or are just leaving.
TableIsCurrent ==
    \A r \in Receivers :
        listeners[r] # NoListener =>
            \/ state[listeners[r]] = "listening"
            \/ eventMessages = [type |-> "unregister", listener |-> listeners[r]]

\* The table is that of the listeners there are: it keeps none that has left and
\* loses none that has not, whoever comes and goes meanwhile (events.go:68-71).
TableFollowsListeners == TableIsCurrent /\ ListenersStayRegistered

\* A listener that is there when an event for everybody is broadcast, and does
\* not leave, hears that broadcast, and all earlier ones still on their way to
\* it, whatever the other listeners do (events.go:72-79).
EventsReachListeners ==
    \A g \in Listeners, e \in Shouts, k \in 0 .. MaxBroadcasts :
        (/\ InSlot(e) = 1
         /\ state[g] = "listening"
         /\ heard[g][e] + sending[g][e] = k)
        ~> (heard[g][e] > k \/ state[g] = "left")

\* No call blocks for ever on the bus, not even while listeners have left with
\* events waiting for them (events.go:47-59, 66).
SlotIsFreed == (eventMessages # NoMessage) ~> (eventMessages = NoMessage)
=============================================================================
