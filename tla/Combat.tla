------------------------------- MODULE Combat -------------------------------
(***************************************************************************)
(* Package combat, with the sessions and NPC goroutines that call it and   *)
(* the event bus that carries what it announces.                           *)
(*                                                                         *)
(* One goroutine owns the table of fights.  It takes start, stop, query    *)
(* and tick messages from a one-slot channel; handling one may broadcast   *)
(* several events, and each of these blocks while the bus's slot is taken. *)
(* A session attacks, stops and, on its own tick, asks whether its         *)
(* character is in combat; the goroutine of an NPC answers the events it   *)
(* receives (manageNpc).  Hit points are read and written in two steps, in *)
(* Hit as in Heal, by different goroutines.                                *)
(*                                                                         *)
(* Deliveries to players are left out: each is a goroutine that waits       *)
(* beside the others and holds up nobody, and printing an event changes    *)
(* nothing.                                                                *)
(*                                                                         *)
(* A blow has any power: a skill's effects may wound or mend.  Left out:    *)
(* the /kill command, which works on the table from a session's goroutine. *)
(***************************************************************************)
EXTENDS Naturals, Sequences, SequencesExt

CONSTANTS
    Pcs, Npcs,      \* characters played by a session, and managed NPCs
    Rooms,
    MaxHitPoints,   \* Vitality of every character
    MaxTicks,       \* combat ticks in the run
    MaxCalls,       \* commands and ticks each character has in the run
    Nobody, NoMessage

Characters == Pcs \cup Npcs

Events ==
    [type : {"start", "stop", "hit"}, attacker : Characters, defender : Characters]
        \cup [type : {"death"}, character : Characters]

CombatMessage ==
    [type : {"combatStart"}, attacker : Characters, defender : Characters]
        \cup [type : {"combatStop"}, attacker : Characters]
        \cup [type : {"combatQuery"}, character : Characters]
        \cup [type : {"combatTick"}]

ASSUME CombatAssumption ==
    /\ Pcs \cap Npcs = {} /\ IsFiniteSet(Characters)
    /\ Nobody \notin Characters /\ NoMessage \notin CombatMessage
    /\ MaxHitPoints \in Nat \ {0}
    /\ MaxTicks \in Nat
    /\ MaxCalls \in [Characters -> Nat]

VARIABLES
    fights,             \* who each character attacks
    combatMessages,     \* the one-slot channel
    phase,              \* what the combat goroutine is doing
    round,              \* attackers this tick has still to look at
    attacker, defender, seen,   \* the pair it is at, and the hit points read
    outbox,             \* broadcasts to make before it goes on
    calling,            \* the message a goroutine is blocked sending
    asking,             \* the session's query: none, sent or its answer
    healing,            \* hit points read by Heal, none
    hp, room, deleted,
    savedRoom,          \* the room in each character's document
    ticks, calls,       \* bounds
    promised,           \* StartFight made and neither stopped nor ended (history)
    announced,          \* the fights an observer of the broadcasts sees (history)
    listeners, eventMessages, sending, state, told, heard

Bus == INSTANCE EventBus
           WITH Receivers <- Npcs, Listeners <- Npcs,
                ReceiverOf <- [n \in Npcs |-> n],
                Shouts <- {}, MaxBroadcasts <- 0, NoListener <- Nobody

ASSUME SlotAssumption == NoMessage \notin Bus!Message

busVars    == <<listeners, eventMessages, sending, state, told, heard>>
loopVars   == <<phase, round, attacker, defender, seen>>
worldVars  == <<hp, room, deleted, savedRoom>>
callerVars == <<calling, asking, healing, calls>>
vars == <<fights, combatMessages, loopVars, outbox, callerVars, worldVars, ticks,
          promised, announced, busVars>>

Start(a, d) == [type |-> "start", attacker |-> a, defender |-> d]
Stop(a, d)  == [type |-> "stop", attacker |-> a, defender |-> d]
Hit(a, d)   == [type |-> "hit", attacker |-> a, defender |-> d]
Death(c)    == [type |-> "death", character |-> c]

StartFight(a, d) == [type |-> "combatStart", attacker |-> a, defender |-> d]
StopFight(a)     == [type |-> "combatStop", attacker |-> a]
InCombat(c)      == [type |-> "combatQuery", character |-> c]
Tick             == [type |-> "combatTick"]

----------------------------------------------------------------------------
(* The combat goroutine.                                                   *)

Take(type) ==
    /\ phase = "idle"
    /\ outbox = <<>>
    /\ combatMessages # NoMessage
    /\ combatMessages.type = type
    /\ combatMessages' = NoMessage

\* Faulty variant: the table is made anew.
EndFightsAll(s) ==
    /\ fights' = [c \in Characters |-> Nobody]
    /\ promised' = promised \ ToSet(s)

\* doCombatStop for each of the attackers in s, in that order.
EndFights(s) ==
    /\ fights' = [c \in Characters |-> IF c \in ToSet(s) THEN Nobody ELSE fights[c]]
    /\ promised' = promised \ ToSet(s)

Stops(s) == [n \in DOMAIN s |-> Stop(s[n], fights[s[n]])]

HandleTick ==
    /\ Take("combatTick")
    /\ phase' = "round"
    /\ round' = {a \in Characters : fights[a] # Nobody}
    /\ UNCHANGED <<fights, attacker, defender, seen, outbox, callerVars, worldVars,
                   ticks, promised, announced, busVars>>

\* The range over fights reaches a, whose defender is in the same room: Hit
\* reads the defender's hit points.
Reach(a) ==
    /\ phase = "round"
    /\ outbox = <<>>
    /\ a \in round
    /\ fights[a] # Nobody
    /\ room[a] = room[fights[a]]
    /\ round' = round \ {a}
    /\ attacker' = a
    /\ defender' = fights[a]
    /\ seen' = hp[fights[a]]
    /\ phase' = "hit"
    /\ UNCHANGED <<fights, combatMessages, outbox, callerVars, worldVars, ticks,
                   promised, announced, busVars>>

\* The range reaches a, whose defender has gone elsewhere.
GiveUp(a) ==
    /\ phase = "round"
    /\ outbox = <<>>
    /\ a \in round
    /\ fights[a] # Nobody
    /\ room[a] # room[fights[a]]
    /\ round' = round \ {a}
    /\ EndFights(<<a>>)
    /\ outbox' = Stops(<<a>>)
    /\ UNCHANGED <<combatMessages, phase, attacker, defender, seen, callerVars,
                   worldVars, ticks, announced, busVars>>

\* Hit writes them back, less the power, and the blow is announced.
Strike ==
    /\ phase = "hit"
    /\ \E left \in 0..MaxHitPoints : hp' = [hp EXCEPT ![defender] = left]
    /\ outbox' = <<Hit(attacker, defender)>>
    /\ phase' = "check"
    /\ UNCHANGED <<fights, combatMessages, round, attacker, defender, seen, callerVars,
                   room, deleted, savedRoom, ticks, promised, announced, busVars>>

\* The defender is dead: Kill ends its fight, then those against it in the
\* order the map yields them, and announces the death.
Kill ==
    /\ phase = "check"
    /\ outbox = <<>>
    /\ hp[defender] = 0
    /\ LET own == IF fights[defender] = Nobody THEN <<>> ELSE <<defender>>
       IN  \E against \in SetToSeqs({a \in Characters \ {defender} :
                                        fights[a] = defender}) :
              /\ EndFights(own \o against)
              /\ outbox' = Append(Stops(own \o against), Death(defender))
    /\ phase' = "round"
    /\ UNCHANGED <<combatMessages, round, attacker, defender, seen, callerVars,
                   worldVars, ticks, announced, busVars>>

Survive ==
    /\ phase = "check"
    /\ outbox = <<>>
    /\ hp[defender] # 0
    /\ phase' = "round"
    /\ UNCHANGED <<fights, combatMessages, round, attacker, defender, seen, outbox,
                   callerVars, worldVars, ticks, promised, announced, busVars>>

EndRound ==
    /\ phase = "round"
    /\ outbox = <<>>
    /\ \A a \in round : fights[a] = Nobody
    /\ phase' = "idle"
    /\ round' = {}
    /\ attacker' = Nobody
    /\ defender' = Nobody
    /\ seen' = 0
    /\ UNCHANGED <<fights, combatMessages, outbox, callerVars, worldVars, ticks,
                   promised, announced, busVars>>

\* Faulty variant: the fight it replaces is not stopped.
HandleStartOver ==
    /\ Take("combatStart")
    /\ LET a == combatMessages.attacker
           d == combatMessages.defender
       IN  /\ fights' = [fights EXCEPT ![a] = d]
           /\ outbox' = <<Start(a, d)>>
    /\ UNCHANGED <<loopVars, callerVars, worldVars, ticks, promised, announced,
                   busVars>>

\* A start that names the present defender changes nothing.
HandleStart ==
    /\ Take("combatStart")
    /\ LET a == combatMessages.attacker
           d == combatMessages.defender
       IN  IF d = fights[a]
             THEN UNCHANGED <<fights, outbox>>
             ELSE /\ fights' = [fights EXCEPT ![a] = d]
                  /\ outbox' = (IF fights[a] = Nobody THEN <<>> ELSE Stops(<<a>>))
                                  \o <<Start(a, d)>>
    /\ UNCHANGED <<loopVars, callerVars, worldVars, ticks, promised, announced,
                   busVars>>

\* Faulty variant: the fight is dropped, and nobody told.
HandleStopSilent ==
    /\ Take("combatStop")
    /\ EndFights(<<combatMessages.attacker>>)
    /\ UNCHANGED <<loopVars, outbox, callerVars, worldVars, ticks, announced, busVars>>

HandleStop ==
    /\ Take("combatStop")
    /\ LET a == combatMessages.attacker
       IN  IF fights[a] = Nobody
             THEN UNCHANGED <<fights, promised, outbox>>
             ELSE EndFights(<<a>>) /\ outbox' = Stops(<<a>>)
    /\ UNCHANGED <<loopVars, callerVars, worldVars, ticks, announced, busVars>>

Fighting(c) == fights[c] # Nobody \/ \E a \in Characters : fights[a] = c

\* The caller waits on the reply channel, so the answer is delivered at once.
HandleQuery ==
    /\ Take("combatQuery")
    /\ LET c == combatMessages.character
       IN  asking' = [asking EXCEPT ![c] = IF Fighting(c) THEN "yes" ELSE "no"]
    /\ UNCHANGED <<fights, loopVars, outbox, calling, healing, calls, worldVars,
                   ticks, promised, announced, busVars>>

\* What an observer of the broadcasts makes of one more.
Observe(e, view) ==
    CASE e.type = "start" -> [view EXCEPT ![e.attacker] = e.defender]
      [] e.type = "stop"  -> [view EXCEPT ![e.attacker] = Nobody]
      [] OTHER            -> view

\* events.Broadcast, once the bus's slot is free.
Emit ==
    /\ outbox # <<>>
    /\ Bus!Broadcast(Head(outbox))
    /\ announced' = Observe(Head(outbox), announced)
    /\ outbox' = Tail(outbox)
    /\ UNCHANGED <<fights, combatMessages, loopVars, callerVars, worldVars, ticks,
                   promised>>

CombatLoop ==
    \/ HandleTick \/ HandleStart \/ HandleStop \/ HandleQuery
    \/ \E a \in Characters : Reach(a) \/ GiveUp(a)
    \/ Strike \/ Kill \/ Survive \/ EndRound
    \/ Emit

\* The ticker goroutine.
SendTick ==
    /\ ticks < MaxTicks
    /\ combatMessages = NoMessage
    /\ combatMessages' = Tick
    /\ ticks' = ticks + 1
    /\ UNCHANGED <<fights, loopVars, outbox, callerVars, worldVars, promised,
                   announced, busVars>>

----------------------------------------------------------------------------
(* The callers.                                                            *)

\* Waiting for input or the next event.
Ready(c) ==
    /\ c \notin deleted
    /\ calling[c] = NoMessage
    /\ asking[c] = "none"
    /\ healing[c] = Nobody
    /\ c \in Npcs => state[c] = "listening"

Call(c, m) == calling' = [calling EXCEPT ![c] = m]

MayCall(s) ==
    /\ Ready(s)
    /\ calls[s] < MaxCalls[s]
    /\ calls' = [calls EXCEPT ![s] = @ + 1]

\* "attack" and "cast": somebody whose document says it is in the attacker's
\* room.  Only "cast" lets a player choose himself.
Attack(s, d) ==
    /\ MayCall(s)
    /\ d \notin deleted
    /\ savedRoom[d] = room[s]
    /\ Call(s, StartFight(s, d))
    /\ UNCHANGED <<fights, combatMessages, loopVars, outbox, asking, healing,
                   worldVars, ticks, promised, announced, busVars>>

\* "stop".
GiveIn(s) ==
    /\ MayCall(s)
    /\ Call(s, StopFight(s))
    /\ UNCHANGED <<fights, combatMessages, loopVars, outbox, asking, healing,
                   worldVars, ticks, promised, announced, busVars>>

\* A TickEvent reaches the session, which asks whether it may heal.
Ask(s) ==
    /\ MayCall(s)
    /\ Call(s, InCombat(s))
    /\ UNCHANGED <<fights, combatMessages, loopVars, outbox, asking, healing,
                   worldVars, ticks, promised, announced, busVars>>

\* The send goes through once the slot is free.
Deliver(c) ==
    /\ calling[c] # NoMessage
    /\ combatMessages = NoMessage
    /\ combatMessages' = calling[c]
    /\ calling' = [calling EXCEPT ![c] = NoMessage]
    /\ asking' = [asking EXCEPT ![c] =
                     IF calling[c].type = "combatQuery" THEN "sent" ELSE "none"]
    /\ promised' = CASE calling[c].type = "combatStart" -> promised \cup {c}
                     [] calling[c].type = "combatStop"  -> promised \ {c}
                     [] OTHER                           -> promised
    /\ UNCHANGED <<fights, loopVars, outbox, healing, calls, worldVars, ticks,
                   announced, busVars>>

\* The answer is no: Heal reads the hit points ...
HealRead(s) ==
    /\ asking[s] = "no"
    /\ asking' = [asking EXCEPT ![s] = "none"]
    /\ healing' = [healing EXCEPT ![s] = hp[s]]
    /\ UNCHANGED <<fights, combatMessages, loopVars, outbox, calling, calls, worldVars,
                   ticks, promised, announced, busVars>>

\* Faulty variant: without the cap of SetHitPoints.
HealWriteOver(s) ==
    /\ healing[s] # Nobody
    /\ hp' = [hp EXCEPT ![s] = healing[s] + 1]
    /\ healing' = [healing EXCEPT ![s] = Nobody]
    /\ UNCHANGED <<fights, combatMessages, loopVars, outbox, calling, asking, calls,
                   room, deleted, savedRoom, ticks, promised, announced, busVars>>

\* ... and writes them back, more by 5 up to the character's vitality.  0 stands
\* for every value that is not positive, so it may be 0 still.
HealWrite(s) ==
    /\ healing[s] # Nobody
    /\ \E more \in healing[s]..MaxHitPoints :
          /\ more > healing[s] \/ more \in {0, MaxHitPoints}
          /\ hp' = [hp EXCEPT ![s] = more]
    /\ healing' = [healing EXCEPT ![s] = Nobody]
    /\ UNCHANGED <<fights, combatMessages, loopVars, outbox, calling, asking, calls,
                   room, deleted, savedRoom, ticks, promised, announced, busVars>>

StayOut(s) ==
    /\ asking[s] = "yes"
    /\ asking' = [asking EXCEPT ![s] = "none"]
    /\ UNCHANGED <<fights, combatMessages, loopVars, outbox, calling, healing, calls,
                   worldVars, ticks, promised, announced, busVars>>

\* A player walks, an NPC roams.
Move(c) ==
    /\ MayCall(c)
    /\ \E r \in Rooms \ {room[c]} : room' = [room EXCEPT ![c] = r]
    /\ UNCHANGED <<fights, combatMessages, loopVars, outbox, calling, asking, healing,
                   hp, deleted, savedRoom, ticks, promised, announced, busVars>>

\* The object store writes the room a character is in to its document.
SaveRoom(c) ==
    /\ c \notin deleted
    /\ savedRoom[c] # room[c]
    /\ savedRoom' = [savedRoom EXCEPT ![c] = room[c]]
    /\ UNCHANGED <<fights, combatMessages, loopVars, outbox, callerVars, hp, room,
                   deleted, ticks, promised, announced, busVars>>

\* Faulty variant: the NPC takes the attacker's part in its events.
ReactAsAttacker(n, e) ==
    /\ Ready(n)
    /\ Bus!Receive(n, e)
    /\ IF e = Death(n)
         THEN deleted' = deleted \cup {n} /\ UNCHANGED calling
         ELSE /\ calling' =
                   IF e \in {Start(n, d) : d \in Characters} THEN
                      [calling EXCEPT ![n] = StartFight(n, e.defender)]
                   ELSE calling
              /\ UNCHANGED deleted
    /\ UNCHANGED <<fights, combatMessages, loopVars, outbox, asking, healing, calls,
                   hp, room, savedRoom, ticks, promised, announced>>

\* An NPC fights back, gives up, or is deleted; other events pass by.
React(n, e) ==
    /\ Ready(n)
    /\ Bus!Receive(n, e)
    /\ IF e = Death(n)
         THEN deleted' = deleted \cup {n} /\ UNCHANGED calling
         ELSE /\ calling' =
                   CASE e \in {Start(a, n) : a \in Characters} ->
                          [calling EXCEPT ![n] = StartFight(n, e.attacker)]
                     [] e \in {Stop(a, n) : a \in Characters} ->
                          [calling EXCEPT ![n] = StopFight(n)]
                     [] OTHER -> calling
              /\ UNCHANGED deleted
    /\ UNCHANGED <<fights, combatMessages, loopVars, outbox, asking, healing, calls,
                   hp, room, savedRoom, ticks, promised, announced>>

\* The goroutine of a deleted NPC ends.
Retire(n) ==
    /\ n \in deleted
    /\ Bus!Unregister(n)
    /\ UNCHANGED <<fights, combatMessages, loopVars, outbox, callerVars, worldVars,
                   ticks, promised, announced>>

----------------------------------------------------------------------------
(* The bus.                                                                *)

IsFor(e, c) ==
    IF e.type = "death"
      THEN c = e.character \/ room[c] = room[e.character]
      ELSE c \in {e.attacker, e.defender}

BusStep ==
    /\ \/ Bus!HandleUnregister
       \/ /\ eventMessages # NoMessage
          /\ eventMessages.type = "broadcast"
          /\ Bus!HandleBroadcast({n \in Npcs : IsFor(eventMessages.event, n)})
    /\ UNCHANGED <<fights, combatMessages, loopVars, outbox, callerVars, worldVars,
                   ticks, promised, announced>>

----------------------------------------------------------------------------
\* Everybody is logged in or managed, in one room, and unhurt.
Init ==
    /\ fights = [c \in Characters |-> Nobody]
    /\ combatMessages = NoMessage
    /\ phase = "idle"
    /\ round = {}
    /\ attacker = Nobody
    /\ defender = Nobody
    /\ seen = 0
    /\ outbox = <<>>
    /\ calling = [c \in Characters |-> NoMessage]
    /\ asking = [c \in Characters |-> "none"]
    /\ healing = [c \in Characters |-> Nobody]
    /\ hp = [c \in Characters |-> MaxHitPoints]
    /\ \E r \in Rooms : room = [c \in Characters |-> r]
    /\ savedRoom = room
    /\ deleted = {}
    /\ ticks = 0
    /\ calls = [c \in Characters |-> 0]
    /\ promised = {}
    /\ announced = fights
    /\ listeners = [n \in Npcs |-> n]
    /\ eventMessages = NoMessage
    /\ sending = [n \in Npcs |-> [e \in Events |-> 0]]
    /\ state = [n \in Npcs |-> "listening"]
    /\ told = [e \in Events |-> 0]
    /\ heard = [n \in Npcs |-> [e \in Events |-> 0]]

\* The bounded run is over: no fight goes on, and everybody waits.
Over ==
    /\ ticks = MaxTicks
    /\ phase = "idle"
    /\ outbox = <<>>
    /\ combatMessages = NoMessage
    /\ eventMessages = NoMessage
    /\ \A c \in Characters \ deleted : Ready(c) /\ calls[c] = MaxCalls[c]
    /\ UNCHANGED vars

Finish(s) == HealRead(s) \/ HealWrite(s) \/ StayOut(s)

Next ==
    \/ CombatLoop
    \/ SendTick
    \/ BusStep
    \/ \E s \in Pcs : \/ \E d \in Characters : Attack(s, d)
                      \/ GiveIn(s) \/ Ask(s) \/ Finish(s)
    \/ \E n \in Npcs : Retire(n) \/ \E e \in Events : React(n, e)
    \/ \E c \in Characters : Deliver(c) \/ Move(c) \/ SaveRoom(c)
    \/ Over

Spec == Init /\ [][Next]_vars

(* Every goroutine runs; a blocked send is served in its turn, and a        *)
(* listener goes on receiving, each waiting event in its turn.              *)
Fairness ==
    /\ WF_vars(CombatLoop)
    /\ WF_vars(BusStep)
    /\ \A c \in Characters : SF_vars(Deliver(c))
    /\ \A s \in Pcs : WF_vars(Finish(s))
    /\ \A n \in Npcs : SF_vars(Retire(n))
    /\ \A n \in Npcs, p \in Pcs : SF_vars(React(n, Start(p, n)))

FairSpec == Spec /\ Fairness

----------------------------------------------------------------------------
(* Properties.                                                             *)

\* Every variable has the type its Go counterpart has.
TypeOK ==
    /\ fights \in [Characters -> Characters \cup {Nobody}]
    /\ combatMessages \in CombatMessage \cup {NoMessage}
    /\ phase \in {"idle", "round", "hit", "check"}
    /\ round \subseteq Characters
    /\ {attacker, defender} \subseteq Characters \cup {Nobody}
    /\ seen \in 0..MaxHitPoints
    /\ outbox \in Seq(Events)
    /\ calling \in [Characters -> CombatMessage \cup {NoMessage}]
    /\ asking \in [Characters -> {"none", "sent", "yes", "no"}]
    /\ healing \in [Characters -> (0..MaxHitPoints) \cup {Nobody}]
    /\ hp \in [Characters -> 0..MaxHitPoints]
    /\ {room, savedRoom} \subseteq [Characters -> Rooms]
    /\ deleted \subseteq Npcs
    /\ ticks \in 0..MaxTicks
    /\ calls \in [Characters -> Nat] /\ \A c \in Characters : calls[c] <= MaxCalls[c]
    /\ promised \subseteq Characters
    /\ announced \in [Characters -> Characters \cup {Nobody}]
    /\ Bus!TypeOK

\* The broadcasts tell the whole story: an observer who follows those made and
\* those about to be made knows every fight there is (combat.go:104-118,
\* 143-169).
EventsMatchFights ==
    fights = FoldLeft(LAMBDA view, e : Observe(e, view), announced, outbox)

\* In the order they are broadcast, a blow falls only within its fight, a fight
\* is stopped only while it is on, and is started only when the attacker's last
\* one has been stopped (combat.go:93-118, 162-169).
BroadcastsAreBracketed ==
    outbox # <<>> =>
        LET e == Head(outbox)
        IN  /\ e.type \in {"hit", "stop"} => announced[e.attacker] = e.defender
            /\ e.type = "start" => announced[e.attacker] = Nobody

\* A session that has started a fight is told it is in combat when it asks,
\* unless something has ended the fight since: its start is never overtaken by
\* its own query (combat.go:40-52, and InCombat after StartFight in
\* combat_test.go:30-33).
StartIsSeenByQuery ==
    \A s \in promised :
        \/ fights[s] # Nobody
        \/ \E d \in Characters : combatMessages = StartFight(s, d)

\* Nobody waits for ever to get a message to the combat goroutine, nor for the
\* answer to a query, although that goroutine itself waits for the bus, and the
\* bus's listeners are those callers (combat.go:48-52, events.go:72-79).
CallsReturn ==
    \A c \in Characters :
        (calling[c] # NoMessage \/ asking[c] = "sent") ~>
            (calling[c] = NoMessage /\ asking[c] # "sent")

\* An NPC takes up a fight whenever an attack on it is announced, whatever else
\* reaches it meanwhile, unless it dies first (engine.go:64-67, 72-75).
NpcsFightBack ==
    \A p \in Pcs, n \in Npcs :
        (Start(p, n) \in ToSet(outbox)) ~> (fights[n] # Nobody \/ n \in deleted)

\* What a listener hears keeps that order: after hearing that each of the
\* attacker's fights with the defender so far is over, it hears of no blow
\* ("Shouldn't have gotten any combat events after stopping combat",
\* combat_test.go:81-87).
NoBlowAfterStop ==
    [][\A n \in Npcs : \A e \in {f \in Events : f.type = "hit"} :
          heard'[n][e] > heard[n][e] =>
              heard[n][Stop(e.attacker, e.defender)]
                  < told[Start(e.attacker, e.defender)]]_vars
=============================================================================
