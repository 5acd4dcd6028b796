--------------------------- MODULE Combat_proofs ---------------------------
(***************************************************************************)
(* Theorems about Combat, for any number of characters, rooms and ticks.   *)
(***************************************************************************)
EXTENDS Combat, SequenceTheorems, Induction

-----------------------------------------------------------------------------
(* The inductive invariant                                                 *)

FightsTypes ==
    /\ fights \in [Characters -> Characters \cup {Nobody}]
    /\ announced \in [Characters -> Characters \cup {Nobody}]
    /\ combatMessages \in CombatMessage \cup {NoMessage}
    /\ outbox \in Seq(Events)
    /\ promised \subseteq Characters

\* A goroutine calls for its own character.
Callers ==
    \A c \in Characters :
        \/ calling[c] \in {NoMessage, StopFight(c), InCombat(c)}
        \/ \E d \in Characters : calling[c] = StartFight(c, d)

\* While a blow is struck, the fight it belongs to goes on.
BlowsAreInFights ==
    /\ phase = "hit" =>
          /\ outbox = <<>> /\ attacker \in Characters /\ defender \in Characters
          /\ fights[attacker] = defender
    /\ phase = "check" => defender \in Characters

Stopped(n) == outbox[n].type = "stop"

\* What is about to be broadcast is all that separates the observer's view from
\* the table: the ends of fights, one for each attacker, and a death...
EndsToTell ==
    /\ \A n \in 1..Len(outbox) :
          \/ outbox[n].type = "death"
          \/ /\ Stopped(n) /\ announced[outbox[n].attacker] = outbox[n].defender
             /\ fights[outbox[n].attacker] = Nobody
    /\ \A m, n \in 1..Len(outbox) :
          Stopped(m) /\ Stopped(n) /\ outbox[m].attacker = outbox[n].attacker => m = n
    /\ \A c \in Characters :
          \/ announced[c] = fights[c]
          \/ \E n \in 1..Len(outbox) : Stopped(n) /\ outbox[n].attacker = c

\* ...or the start of one, ...
StartToTell ==
    \E a \in Characters, d \in Characters :
        /\ outbox = <<Start(a, d)>> /\ announced[a] = Nobody /\ fights[a] = d
        /\ \A c \in Characters \ {a} : announced[c] = fights[c]

\* ...after the end of the attacker's last, ...
ChangeToTell ==
    \E a \in Characters, d \in Characters, x \in Characters :
        /\ outbox = <<Stop(a, x), Start(a, d)>> /\ announced[a] = x /\ fights[a] = d
        /\ \A c \in Characters \ {a} : announced[c] = fights[c]

\* ...or a blow in a fight that has been announced.
BlowToTell ==
    \E a \in Characters, d \in Characters :
        /\ outbox = <<Hit(a, d)>> /\ announced = fights /\ fights[a] = d

OutboxTells == EndsToTell \/ StartToTell \/ ChangeToTell \/ BlowToTell

CombatInv ==
    /\ FightsTypes /\ Callers /\ BlowsAreInFights /\ OutboxTells /\ StartIsSeenByQuery

-----------------------------------------------------------------------------
(* Lemmas                                                                  *)

\* The fields of the messages that are there.
LEMMA MessageTypes ==
    ASSUME FightsTypes, combatMessages # NoMessage
    PROVE  /\ combatMessages.type = "combatStart" =>
                 /\ combatMessages.attacker \in Characters
                 /\ combatMessages.defender \in Characters
                 /\ combatMessages = StartFight(combatMessages.attacker, combatMessages.defender)
           /\ combatMessages.type = "combatStop" => combatMessages.attacker \in Characters
  BY DEF FightsTypes, CombatMessage, StartFight

\* No caller's message is that there is none.
LEMMA RealMessages ==
    ASSUME NEW a \in Characters, NEW d \in Characters
    PROVE  /\ {StartFight(a, d), StopFight(a), InCombat(a), Tick} \subseteq CombatMessage
           /\ NoMessage \notin {StartFight(a, d), StopFight(a), InCombat(a), Tick}
<1>1. {StartFight(a, d), StopFight(a), InCombat(a), Tick} \subseteq CombatMessage
  BY DEF StartFight, StopFight, InCombat, Tick, CombatMessage
<1>2. QED BY <1>1, CombatAssumption DEF CombatAssumption

\* Once everything has been told, the observer's view is the table.
LEMMA NothingLeftToTell ==
    ASSUME FightsTypes, OutboxTells, outbox = <<>>
    PROVE  announced = fights
<1>1. EndsToTell
  BY DEF OutboxTells, StartToTell, ChangeToTell, BlowToTell
<1>2. \A c \in Characters : announced[c] = fights[c]
  BY <1>1 DEF EndsToTell
<1>3. QED BY <1>2 DEF FightsTypes

\* Ending the fights of different attackers, and perhaps announcing a death,
\* leaves their ends to be told.
LEMMA FightsEnd ==
    ASSUME FightsTypes, announced = fights, UNCHANGED announced,
           NEW s \in Seq(Characters),
           \A m, n \in 1..Len(s) : s[m] = s[n] => m = n,
           \A n \in 1..Len(s) : fights[s[n]] # Nobody,
           EndFights(s),
           NEW c \in Characters,
           outbox' = Stops(s) \/ outbox' = Append(Stops(s), Death(c))
    PROVE  /\ EndsToTell'
           /\ outbox' \in Seq(Events)
           /\ fights' \in [Characters -> Characters \cup {Nobody}]
           /\ promised' = promised \ {s[n] : n \in 1..Len(s)}
           /\ \A a \in Characters :
                 fights'[a] = IF \E n \in 1..Len(s) : s[n] = a THEN Nobody ELSE fights[a]
<1>1. /\ DOMAIN s = 1..Len(s) /\ Len(s) \in Nat
      /\ \A n \in 1..Len(s) : s[n] \in Characters
  OBVIOUS
<1>2. ToSet(s) = {s[n] : n \in 1..Len(s)}
  BY <1>1 DEF ToSet
<1>3. /\ promised' = promised \ {s[n] : n \in 1..Len(s)}
      /\ \A a \in Characters :
            fights'[a] = IF \E n \in 1..Len(s) : s[n] = a THEN Nobody ELSE fights[a]
      /\ fights' \in [Characters -> Characters \cup {Nobody}]
  BY <1>2 DEF EndFights, FightsTypes
<1>4. \A n \in 1..Len(s) : /\ Stop(s[n], fights[s[n]]) \in Events
                           /\ fights[s[n]] \in Characters
  BY <1>1 DEF Stop, Events, FightsTypes
<1>5. /\ Stops(s) \in Seq(Events) /\ Len(Stops(s)) = Len(s)
      /\ \A n \in 1..Len(s) : Stops(s)[n] = Stop(s[n], fights[s[n]])
  BY <1>1, <1>4 DEF Stops
<1>6. Death(c) \in Events
  BY DEF Death, Events
<1>7. /\ outbox' \in Seq(Events)
      /\ \/ Len(outbox') = Len(s)
         \/ Len(outbox') = Len(s) + 1 /\ outbox'[Len(s) + 1] = Death(c)
      /\ \A n \in 1..Len(s) : outbox'[n] = Stop(s[n], fights[s[n]])
  <2> DEFINE stops == Stops(s)
  <2> HIDE DEF stops
  <2>a. /\ stops \in Seq(Events) /\ Len(stops) = Len(s)
        /\ \A n \in 1..Len(s) : stops[n] = Stop(s[n], fights[s[n]])
    BY <1>5 DEF stops
  <2>1. CASE outbox' = stops
    <3>1. outbox' \in Seq(Events) /\ Len(outbox') = Len(s)
      BY <2>1, <2>a
    <3>2. \A n \in 1..Len(s) : outbox'[n] = stops[n]
      BY <2>1
    <3>3. QED BY <3>1, <3>2, <2>a
  <2>2. CASE outbox' = Append(stops, Death(c))
    <3>1. /\ outbox' \in Seq(Events) /\ Len(outbox') = Len(s) + 1
          /\ outbox'[Len(s) + 1] = Death(c)
      BY <2>2, <2>a, <1>1, <1>6
    <3>2. \A n \in 1..Len(s) : outbox'[n] = stops[n]
      BY <2>2, <2>a, <1>1, <1>6
    <3>3. QED BY <3>1, <3>2, <2>a
  <2>3. QED BY <2>1, <2>2 DEF stops
<1>8. \A n \in 1..Len(outbox') :
         \/ outbox'[n].type = "death"
         \/ n \in 1..Len(s) /\ outbox'[n] = Stop(s[n], fights[s[n]])
  BY <1>7, <1>1 DEF Death
<1>9. \A n \in 1..Len(outbox') : outbox'[n].type = "stop" =>
         n \in 1..Len(s) /\ outbox'[n] = Stop(s[n], fights[s[n]])
  BY <1>8
<1>10. \A n \in 1..Len(s) : /\ n \in 1..Len(outbox') /\ outbox'[n].type = "stop"
                            /\ outbox'[n].attacker = s[n]
                            /\ outbox'[n].defender = fights[s[n]]
  <2> SUFFICES ASSUME NEW n \in 1..Len(s)
               PROVE  /\ n \in 1..Len(outbox') /\ outbox'[n].type = "stop"
                      /\ outbox'[n].attacker = s[n] /\ outbox'[n].defender = fights[s[n]]
      OBVIOUS
  <2>1. n \in 1..Len(outbox')
    BY <1>7, <1>1
  <2>2. outbox'[n] = Stop(s[n], fights[s[n]])
    BY <1>7
  <2>3. QED BY <2>1, <2>2 DEF Stop
<1>11. \A n \in 1..Len(outbox') :
          \/ outbox'[n].type = "death"
          \/ /\ outbox'[n].type = "stop"
             /\ announced'[outbox'[n].attacker] = outbox'[n].defender
             /\ fights'[outbox'[n].attacker] = Nobody
  BY <1>8, <1>10, <1>3, <1>1
<1>12. \A m, n \in 1..Len(outbox') :
          /\ outbox'[m].type = "stop" /\ outbox'[n].type = "stop"
          /\ outbox'[m].attacker = outbox'[n].attacker
          => m = n
  BY <1>9, <1>10
<1>13. \A a \in Characters :
          \/ announced'[a] = fights'[a]
          \/ \E n \in 1..Len(outbox') : outbox'[n].type = "stop" /\ outbox'[n].attacker = a
  BY <1>3, <1>10
<1>14. EndsToTell'
  BY <1>11, <1>12, <1>13 DEF EndsToTell, Stopped
<1>15. QED BY <1>3, <1>7, <1>14

\* One fight is such a sequence.
LEMMA OneFightEnds ==
    ASSUME FightsTypes, announced = fights, UNCHANGED announced,
           NEW a \in Characters, fights[a] # Nobody,
           EndFights(<<a>>), outbox' = Stops(<<a>>)
    PROVE  /\ EndsToTell' /\ outbox' \in Seq(Events)
           /\ fights' \in [Characters -> Characters \cup {Nobody}]
           /\ promised' = promised \ {a}
           /\ \A c \in Characters \ {a} : fights'[c] = fights[c]
<1> DEFINE s == <<a>>
<1>1. s \in Seq(Characters) /\ Len(s) = 1 /\ s[1] = a
  OBVIOUS
<1>2. /\ \A m, n \in 1..Len(s) : s[m] = s[n] => m = n
      /\ \A n \in 1..Len(s) : s[n] = a
  BY <1>1
<1>3. {s[n] : n \in 1..Len(s)} = {a}
  BY <1>1, <1>2
<1> HIDE DEF s
<1>4. EndFights(s) /\ outbox' = Stops(s)
  BY DEF s
<1>5. /\ EndsToTell' /\ outbox' \in Seq(Events)
      /\ fights' \in [Characters -> Characters \cup {Nobody}]
      /\ promised' = promised \ {s[n] : n \in 1..Len(s)}
      /\ \A c \in Characters :
            fights'[c] = IF \E n \in 1..Len(s) : s[n] = c THEN Nobody ELSE fights[c]
  BY <1>1, <1>2, <1>4, FightsEnd
<1>6. QED BY <1>2, <1>3, <1>5

\* Two sequences of one element each.
LEMMA Pair ==
    ASSUME NEW S, NEW u \in S, NEW v \in S
    PROVE  <<u>> \o <<v>> = <<u, v>>
<1> DEFINE p == <<u>>
           q == <<v>>
           r == <<u, v>>
<1>1. /\ p \in Seq(S) /\ Len(p) = 1 /\ p[1] = u
      /\ q \in Seq(S) /\ Len(q) = 1 /\ q[1] = v
      /\ r \in Seq(S) /\ Len(r) = 2 /\ r[1] = u /\ r[2] = v
  OBVIOUS
<1> HIDE DEF p, q, r
<1>2. /\ p \o q \in Seq(S) /\ Len(p \o q) = 2
      /\ \A i \in 1..2 : (p \o q)[i] = IF i <= 1 THEN p[i] ELSE q[i - 1]
  <2>1. /\ p \o q \in Seq(S) /\ Len(p \o q) = Len(p) + Len(q)
        /\ \A i \in 1..Len(p) + Len(q) :
              (p \o q)[i] = IF i <= Len(p) THEN p[i] ELSE q[i - Len(p)]
    BY <1>1, ConcatProperties
  <2>2. Len(p) + Len(q) = 2
    BY <1>1
  <2>3. QED BY <1>1, <2>1, <2>2
<1>3. (p \o q)[1] = u /\ (p \o q)[2] = v
  BY <1>1, <1>2
<1>4. \A i \in 1..2 : (p \o q)[i] = r[i]
  <2>1. \A i \in 1..2 : i = 1 \/ i = 2
    OBVIOUS
  <2>2. QED BY <1>1, <1>3, <2>1
<1>5. p \o q = r
  BY <1>1, <1>2, <1>4, SeqEqual
<1>6. QED BY <1>5 DEF p, q, r

\* A sequence with one element put before it.
LEMMA Preceded ==
    ASSUME NEW S, NEW x \in S, NEW q \in Seq(S)
    PROVE  /\ <<x>> \o q \in Seq(S) /\ Len(<<x>> \o q) = Len(q) + 1
           /\ (<<x>> \o q)[1] = x
           /\ \A n \in 2..(Len(q) + 1) : (<<x>> \o q)[n] = q[n - 1]
<1> DEFINE p == <<x>>
<1>1. p \in Seq(S) /\ Len(p) = 1 /\ p[1] = x
  OBVIOUS
<1>2. Len(q) \in Nat
  OBVIOUS
<1> HIDE DEF p
<1>3. /\ p \o q \in Seq(S) /\ Len(p \o q) = 1 + Len(q)
      /\ \A i \in 1..(1 + Len(q)) : (p \o q)[i] = IF i <= 1 THEN p[i] ELSE q[i - 1]
  <2>1. /\ p \o q \in Seq(S) /\ Len(p \o q) = Len(p) + Len(q)
        /\ \A i \in 1..Len(p) + Len(q) :
              (p \o q)[i] = IF i <= Len(p) THEN p[i] ELSE q[i - Len(p)]
    BY <1>1, ConcatProperties, Zenon
  <2>2. QED BY <1>1, <2>1
<1>4. (p \o q)[1] = x
  BY <1>1, <1>2, <1>3
<1>5. ASSUME NEW n \in 2..(Len(q) + 1) PROVE (p \o q)[n] = q[n - 1]
  BY <1>2, <1>3
<1>6. QED BY <1>2, <1>3, <1>4, <1>5 DEF p

\* The fights that a death ends are such a sequence: the dead one's own, if it
\* has one, and those against it, in any order.
LEMMA TheirFightsEnd ==
    ASSUME FightsTypes, NEW d \in Characters,
           NEW own, own = IF fights[d] = Nobody THEN <<>> ELSE <<d>>,
           NEW against \in SetToSeqs({a \in Characters \ {d} : fights[a] = d})
    PROVE  /\ own \o against \in Seq(Characters)
           /\ \A m, n \in 1..Len(own \o against) :
                 (own \o against)[m] = (own \o against)[n] => m = n
           /\ \A n \in 1..Len(own \o against) : fights[(own \o against)[n]] # Nobody
<1> DEFINE T == {a \in Characters \ {d} : fights[a] = d}
           k == Cardinality(T)
<1>1. k \in Nat
  BY CombatAssumption, FS_Subset, FS_CardinalityType DEF CombatAssumption
<1>2. against \in [1..k -> T] /\ \A m, n \in 1..k : m # n => against[m] # against[n]
  BY DEF SetToSeqs
<1> HIDE DEF k
<1>3. against \in Seq(Characters) /\ Len(against) = k
  BY <1>1, <1>2
<1>4. Nobody \notin Characters
  BY CombatAssumption DEF CombatAssumption
<1>5. \A n \in 1..k : against[n] # d /\ fights[against[n]] = d
  BY <1>2
<1>6. CASE fights[d] = Nobody
  <2>1. own \o against = against
    BY <1>3, <1>6
  <2>2. QED BY <2>1, <1>2, <1>3, <1>4, <1>5
<1>7. CASE fights[d] # Nobody
  <2>1. own = <<d>>
    BY <1>7
  <2>2. /\ own \o against \in Seq(Characters) /\ Len(own \o against) = k + 1
        /\ (own \o against)[1] = d
        /\ \A n \in 2..(k + 1) : (own \o against)[n] = against[n - 1]
    <3>1. own \o against = <<d>> \o against
      BY <2>1
    <3>2. QED BY <3>1, <1>3, Preceded
  <2>3. \A n \in 1..(k + 1) : n = 1 \/ (n \in 2..(k + 1) /\ n - 1 \in 1..k)
    BY <1>1
  <2>4. \A m, n \in 1..(k + 1) :
           (own \o against)[m] = (own \o against)[n] => m = n
    <3> SUFFICES ASSUME NEW m \in 1..(k + 1), NEW n \in 1..(k + 1),
                        (own \o against)[m] = (own \o against)[n]
                 PROVE  m = n
        OBVIOUS
    <3>1. CASE m = 1 \/ n = 1
      BY <3>1, <2>2, <2>3, <1>5
    <3>2. CASE m # 1 /\ n # 1
      <4>1. m - 1 \in 1..k /\ n - 1 \in 1..k /\ against[m - 1] = against[n - 1]
        BY <3>2, <2>2, <2>3
      <4>2. m - 1 = n - 1
        BY <4>1, <1>2
      <4>3. QED BY <4>2, <1>1
    <3>3. QED BY <3>1, <3>2
  <2>5. \A n \in 1..(k + 1) : fights[(own \o against)[n]] # Nobody
    BY <2>2, <2>3, <1>4, <1>5, <1>7
  <2>6. QED BY <2>2, <2>4, <2>5
<1>8. QED BY <1>6, <1>7

-----------------------------------------------------------------------------
(* Every step keeps the invariant                                          *)

\* The invariant holds at the start, when nobody fights.
LEMMA InitCombatInv == Init => CombatInv
<1> SUFFICES ASSUME Init PROVE CombatInv
    OBVIOUS
<1>1. FightsTypes /\ Callers /\ BlowsAreInFights /\ StartIsSeenByQuery
  BY DEF Init, FightsTypes, Callers, BlowsAreInFights, StartIsSeenByQuery
<1>2. EndsToTell
  BY DEF Init, EndsToTell
<1>3. QED BY <1>1, <1>2 DEF CombatInv, OutboxTells

\* What the invariant is about.
seenVars == <<fights, combatMessages, phase, attacker, defender, outbox, calling, promised,
              announced>>

\* A step that leaves all of it alone keeps the invariant.
LEMMA OtherSteps ==
    ASSUME CombatInv, UNCHANGED seenVars
    PROVE  CombatInv'
  BY DEF CombatInv, seenVars, FightsTypes, Callers, BlowsAreInFights, OutboxTells,
         EndsToTell, Stopped, StartToTell, ChangeToTell, BlowToTell, StartIsSeenByQuery

\* A step that leaves alone the table and what is told of it.
LEMMA NothingNewToTell ==
    ASSUME OutboxTells, UNCHANGED <<fights, outbox, announced>>
    PROVE  OutboxTells'
  BY DEF OutboxTells, EndsToTell, Stopped, StartToTell, ChangeToTell, BlowToTell

\* A start is told after the end of the fight it replaces.
LEMMA NextHandleStart == CombatInv /\ HandleStart => CombatInv'
<1> SUFFICES ASSUME CombatInv, HandleStart PROVE CombatInv'
    OBVIOUS
<1> DEFINE a == combatMessages.attacker
           d == combatMessages.defender
<1>1. /\ phase = "idle" /\ outbox = <<>> /\ combatMessages # NoMessage
      /\ combatMessages.type = "combatStart" /\ combatMessages' = NoMessage
      /\ UNCHANGED <<phase, attacker, defender, calling, promised, announced>>
  BY DEF HandleStart, Take, loopVars, callerVars
<1>2. /\ a \in Characters /\ d \in Characters
      /\ combatMessages = StartFight(a, d)
  BY <1>1, MessageTypes DEF CombatInv
<1>3. FightsTypes /\ announced = fights
  BY <1>1, NothingLeftToTell DEF CombatInv
<1>4. \/ d = fights[a] /\ UNCHANGED <<fights, outbox>>
      \/ /\ d # fights[a] /\ fights' = [fights EXCEPT ![a] = d]
         /\ outbox' = (IF fights[a] = Nobody THEN <<>> ELSE Stops(<<a>>)) \o <<Start(a, d)>>
  BY DEF HandleStart
<1>5. fights'[a] = d /\ \A c \in Characters \ {a} : fights'[c] = fights[c]
  BY <1>2, <1>3, <1>4 DEF FightsTypes
<1>6. fights' \in [Characters -> Characters \cup {Nobody}]
  BY <1>2, <1>3, <1>4 DEF FightsTypes
<1>7. StartIsSeenByQuery'
  <2> SUFFICES ASSUME NEW s \in promised, fights'[s] = Nobody PROVE FALSE
      BY <1>1 DEF StartIsSeenByQuery
  <2>1. s \in Characters /\ Nobody \notin Characters
    BY <1>3, CombatAssumption DEF FightsTypes, CombatAssumption
  <2>2. s # a /\ fights[s] = Nobody
    BY <1>2, <1>5, <2>1
  <2>3. PICK x \in Characters : combatMessages = StartFight(s, x)
    BY <1>1, <2>2 DEF CombatInv, StartIsSeenByQuery
  <2>4. QED BY <2>2, <2>3 DEF StartFight
<1> HIDE DEF a, d
<1>8. Start(a, d) \in Events
  BY <1>2 DEF Start, Events
<1>9. OutboxTells' /\ outbox' \in Seq(Events)
  <2>1. CASE UNCHANGED <<fights, outbox>>
    BY <2>1, <1>1, <1>3, NothingNewToTell DEF CombatInv, FightsTypes
  <2>2. CASE fights[a] = Nobody /\ outbox' = <<>> \o <<Start(a, d)>>
    <3>1. outbox' = <<Start(a, d)>>
      BY <2>2
    <3>2. StartToTell'
      BY <3>1, <2>2, <1>1, <1>2, <1>3, <1>5 DEF StartToTell
    <3>3. QED BY <3>1, <3>2, <1>8 DEF OutboxTells
  <2>3. CASE fights[a] # Nobody /\ outbox' = Stops(<<a>>) \o <<Start(a, d)>>
    <3>1. fights[a] \in Characters /\ Stop(a, fights[a]) \in Events
      BY <2>3, <1>2, <1>3 DEF FightsTypes, Stop, Events
    <3>2. Stops(<<a>>) = <<Stop(a, fights[a])>>
      BY DEF Stops
    <3>3. outbox' = <<Stop(a, fights[a]), Start(a, d)>>
      <4>1. <<Stop(a, fights[a])>> \o <<Start(a, d)>> = <<Stop(a, fights[a]), Start(a, d)>>
        BY <3>1, <1>8, Pair
      <4>2. QED BY <4>1, <2>3, <3>2
    <3>4. ChangeToTell'
      BY <3>1, <3>3, <1>1, <1>2, <1>3, <1>5 DEF ChangeToTell
    <3>5. QED BY <3>1, <3>3, <3>4, <1>8 DEF OutboxTells
  <2>4. QED BY <2>1, <2>2, <2>3, <1>4
<1>10. FightsTypes' /\ Callers' /\ BlowsAreInFights'
  BY <1>1, <1>3, <1>6, <1>9 DEF CombatInv, FightsTypes, Callers, BlowsAreInFights
<1>11. QED BY <1>7, <1>9, <1>10 DEF CombatInv

\* A fight that ends takes the promise with it.
LEMMA NextStops ==
    ASSUME CombatInv, NEW a \in Characters, HandleStop \/ GiveUp(a)
    PROVE  CombatInv'
<1>1. /\ phase # "hit" /\ phase' = phase /\ outbox = <<>>
      /\ UNCHANGED <<attacker, defender, calling, announced>>
      /\ \/ combatMessages' = combatMessages
         \/ combatMessages' = NoMessage /\ combatMessages.type = "combatStop"
  BY DEF HandleStop, GiveUp, Take, loopVars, callerVars
<1>2. FightsTypes /\ announced = fights
  BY <1>1, NothingLeftToTell DEF CombatInv
<1>3. \/ UNCHANGED <<fights, promised, outbox>>
      \/ \E c \in Characters :
            fights[c] # Nobody /\ EndFights(<<c>>) /\ outbox' = Stops(<<c>>)
  <2>1. CASE GiveUp(a)
    BY <2>1 DEF GiveUp
  <2>2. CASE HandleStop
    <3>1. combatMessages.attacker \in Characters
      BY <2>2, <1>2, MessageTypes DEF HandleStop, Take
    <3>2. QED BY <2>2, <3>1 DEF HandleStop
  <2>3. QED BY <2>1, <2>2
<1>4. \A s \in Characters, x \in Characters :
         combatMessages = StartFight(s, x) => combatMessages' = combatMessages
  BY <1>1 DEF StartFight
<1>5. CASE UNCHANGED <<fights, promised, outbox>>
  <2>1. StartIsSeenByQuery'
    BY <1>2, <1>4, <1>5 DEF CombatInv, StartIsSeenByQuery, FightsTypes
  <2>2. FightsTypes' /\ Callers' /\ BlowsAreInFights'
    BY <1>1, <1>2, <1>5 DEF CombatInv, FightsTypes, Callers, BlowsAreInFights
  <2>3. QED BY <1>1, <1>5, <2>1, <2>2, NothingNewToTell DEF CombatInv
<1>6. ASSUME NEW c \in Characters, fights[c] # Nobody, EndFights(<<c>>),
             outbox' = Stops(<<c>>)
      PROVE CombatInv'
  <2>1. /\ EndsToTell' /\ outbox' \in Seq(Events)
        /\ fights' \in [Characters -> Characters \cup {Nobody}]
        /\ promised' = promised \ {c}
        /\ \A b \in Characters \ {c} : fights'[b] = fights[b]
    BY <1>1, <1>2, <1>6, OneFightEnds
  <2>2. StartIsSeenByQuery'
    BY <1>2, <1>4, <2>1 DEF CombatInv, StartIsSeenByQuery, FightsTypes
  <2>3. FightsTypes' /\ Callers' /\ BlowsAreInFights'
    BY <1>1, <1>2, <2>1 DEF CombatInv, FightsTypes, Callers, BlowsAreInFights
  <2>4. QED BY <2>1, <2>2, <2>3 DEF CombatInv, OutboxTells
<1>7. QED BY <1>3, <1>5, <1>6

\* A death ends all the fights of the dead, and their promises.
LEMMA NextKill == CombatInv /\ Kill => CombatInv'
<1> SUFFICES ASSUME CombatInv, Kill PROVE CombatInv'
    OBVIOUS
<1>1. /\ phase = "check" /\ phase' = "round" /\ outbox = <<>>
      /\ UNCHANGED <<combatMessages, attacker, defender, calling, announced>>
  BY DEF Kill, callerVars
<1>2. FightsTypes /\ announced = fights /\ defender \in Characters
  BY <1>1, NothingLeftToTell DEF CombatInv, BlowsAreInFights
<1> DEFINE own == IF fights[defender] = Nobody THEN <<>> ELSE <<defender>>
<1>3. PICK against \in SetToSeqs({a \in Characters \ {defender} : fights[a] = defender}) :
         /\ EndFights(own \o against)
         /\ outbox' = Append(Stops(own \o against), Death(defender))
  BY DEF Kill
<1> DEFINE s == own \o against
<1>4. /\ s \in Seq(Characters) /\ \A m, n \in 1..Len(s) : s[m] = s[n] => m = n
      /\ \A n \in 1..Len(s) : fights[s[n]] # Nobody
  BY <1>2, TheirFightsEnd
<1> HIDE DEF s
<1>5. EndFights(s) /\ outbox' = Append(Stops(s), Death(defender))
  BY <1>3 DEF s
<1>6. /\ EndsToTell' /\ outbox' \in Seq(Events)
      /\ fights' \in [Characters -> Characters \cup {Nobody}]
      /\ promised' = promised \ {s[n] : n \in 1..Len(s)}
      /\ \A a \in Characters :
            fights'[a] = IF \E n \in 1..Len(s) : s[n] = a THEN Nobody ELSE fights[a]
  BY <1>1, <1>2, <1>4, <1>5, FightsEnd
<1>7. StartIsSeenByQuery'
  BY <1>1, <1>2, <1>6 DEF CombatInv, StartIsSeenByQuery, FightsTypes
<1>8. FightsTypes' /\ Callers' /\ BlowsAreInFights'
  BY <1>1, <1>2, <1>6 DEF CombatInv, FightsTypes, Callers, BlowsAreInFights
<1>9. QED BY <1>6, <1>7, <1>8 DEF CombatInv, OutboxTells

\* A broadcast moves the observer's view on to where the rest of the outbox is
\* all that separates it from the table.
LEMMA NextEmit == CombatInv /\ Emit => CombatInv'
<1> SUFFICES ASSUME CombatInv, Emit PROVE CombatInv'
    OBVIOUS
<1> DEFINE e == Head(outbox)
<1>1. /\ outbox # <<>> /\ announced' = Observe(e, announced) /\ outbox' = Tail(outbox)
      /\ UNCHANGED <<fights, combatMessages, phase, attacker, defender, calling, promised>>
  BY DEF Emit, loopVars, callerVars
<1>2. FightsTypes /\ e \in Events
  BY <1>1 DEF CombatInv, FightsTypes
<1>3. outbox' \in Seq(Events) /\ announced' \in [Characters -> Characters \cup {Nobody}]
  <2>1. e.type \in {"start", "stop"} => e.attacker \in Characters /\ e.defender \in Characters
    BY <1>2 DEF Events
  <2>2. QED BY <1>1, <1>2, <2>1 DEF Observe, FightsTypes
<1>4. FightsTypes' /\ Callers' /\ BlowsAreInFights' /\ StartIsSeenByQuery'
  BY <1>1, <1>2, <1>3 DEF CombatInv, FightsTypes, Callers, BlowsAreInFights, StartIsSeenByQuery
<1>5. /\ Len(outbox) \in Nat \ {0} /\ e = outbox[1] /\ Len(outbox') = Len(outbox) - 1
      /\ \A n \in 1..Len(outbox') : n + 1 \in 1..Len(outbox) /\ outbox'[n] = outbox[n + 1]
  BY <1>1, <1>2 DEF FightsTypes
<1>6. CASE EndsToTell
  <2>1. \A n \in 2..Len(outbox) : n - 1 \in 1..Len(outbox') /\ outbox'[n - 1] = outbox[n]
    BY <1>5
  <2>2. \A n \in 1..Len(outbox) : outbox[n].type = "stop" => outbox[n].attacker \in Characters
    BY <1>2 DEF FightsTypes, Events
  <2>3. \A n \in 1..Len(outbox') :
           outbox'[n].type = "stop" =>
              outbox'[n].attacker \in Characters
              /\ (e.type = "stop" => outbox'[n].attacker # e.attacker)
    <3> SUFFICES ASSUME NEW n \in 1..Len(outbox'), outbox'[n].type = "stop"
                 PROVE  /\ outbox'[n].attacker \in Characters
                        /\ e.type = "stop" => outbox'[n].attacker # e.attacker
      OBVIOUS
    <3>1. /\ n + 1 \in 1..Len(outbox) /\ 1 \in 1..Len(outbox) /\ n + 1 # 1
          /\ outbox'[n] = outbox[n + 1] /\ e = outbox[1]
      BY <1>5
    <3>2. outbox[n + 1].type = "stop" /\ outbox[n + 1].attacker \in Characters
      BY <2>2, <3>1
    <3>3. \A l, m \in 1..Len(outbox) :
             /\ outbox[l].type = "stop" /\ outbox[m].type = "stop"
             /\ outbox[l].attacker = outbox[m].attacker
             => l = m
      BY <1>6 DEF EndsToTell, Stopped
    <3>4. outbox[1].type = "stop" => outbox[n + 1].attacker # outbox[1].attacker
      BY <3>1, <3>2, <3>3
    <3>5. QED BY <3>1, <3>2, <3>4
  <2>4. e.type \in {"stop", "death"}
    BY <1>5, <1>6 DEF EndsToTell, Stopped
  <2>5. CASE e.type = "stop"
    <3>1. /\ e.attacker \in Characters /\ fights[e.attacker] = Nobody
          /\ announced' = [announced EXCEPT ![e.attacker] = Nobody]
      BY <1>1, <1>5, <1>6, <2>2, <2>5 DEF EndsToTell, Stopped, Observe
    <3>2. announced'[e.attacker] = Nobody
          /\ \A c \in Characters \ {e.attacker} : announced'[c] = announced[c]
      BY <3>1, <1>2 DEF FightsTypes
    <3>3. \A n \in 1..Len(outbox') :
             \/ outbox'[n].type = "death"
             \/ /\ outbox'[n].type = "stop"
                /\ announced'[outbox'[n].attacker] = outbox'[n].defender
                /\ fights'[outbox'[n].attacker] = Nobody
      BY <1>1, <1>5, <1>6, <2>3, <2>5, <3>2 DEF EndsToTell, Stopped
    <3>4. \A m, n \in 1..Len(outbox') :
             /\ outbox'[m].type = "stop" /\ outbox'[n].type = "stop"
             /\ outbox'[m].attacker = outbox'[n].attacker
             => m = n
      <4> SUFFICES ASSUME NEW m \in 1..Len(outbox'), NEW n \in 1..Len(outbox'),
                          outbox'[m].type = "stop", outbox'[n].type = "stop",
                          outbox'[m].attacker = outbox'[n].attacker
                   PROVE  m = n
          OBVIOUS
      <4>1. /\ m + 1 \in 1..Len(outbox) /\ n + 1 \in 1..Len(outbox)
            /\ outbox[m + 1] = outbox'[m] /\ outbox[n + 1] = outbox'[n]
        BY <1>5
      <4>2. m + 1 = n + 1
        BY <1>6, <4>1 DEF EndsToTell, Stopped
      <4>3. QED BY <4>2, <1>5
    <3>5. \A c \in Characters :
             \/ announced'[c] = fights'[c]
             \/ \E n \in 1..Len(outbox') : outbox'[n].type = "stop" /\ outbox'[n].attacker = c
      <4> SUFFICES ASSUME NEW c \in Characters, c # e.attacker, announced[c] # fights[c]
                   PROVE  \E n \in 1..Len(outbox') :
                             outbox'[n].type = "stop" /\ outbox'[n].attacker = c
          BY <1>1, <3>1, <3>2
      <4>1. PICK n \in 1..Len(outbox) : outbox[n].type = "stop" /\ outbox[n].attacker = c
        BY <1>6 DEF EndsToTell, Stopped
      <4>2. n \in 2..Len(outbox)
        BY <4>1, <1>5
      <4>3. QED BY <4>1, <4>2, <2>1
    <3>6. EndsToTell'
      BY <3>3, <3>4, <3>5 DEF EndsToTell, Stopped
    <3>7. QED BY <3>6, <1>4 DEF CombatInv, OutboxTells
  <2>6. CASE e.type = "death"
    <3>1. announced' = announced
      BY <1>1, <2>6 DEF Observe
    <3>2. \A n \in 1..Len(outbox') :
             \/ outbox'[n].type = "death"
             \/ /\ outbox'[n].type = "stop"
                /\ announced'[outbox'[n].attacker] = outbox'[n].defender
                /\ fights'[outbox'[n].attacker] = Nobody
      BY <1>1, <1>5, <1>6, <3>1 DEF EndsToTell, Stopped
    <3>3. \A m, n \in 1..Len(outbox') :
             /\ outbox'[m].type = "stop" /\ outbox'[n].type = "stop"
             /\ outbox'[m].attacker = outbox'[n].attacker
             => m = n
      <4> SUFFICES ASSUME NEW m \in 1..Len(outbox'), NEW n \in 1..Len(outbox'),
                          outbox'[m].type = "stop", outbox'[n].type = "stop",
                          outbox'[m].attacker = outbox'[n].attacker
                   PROVE  m = n
          OBVIOUS
      <4>1. /\ m + 1 \in 1..Len(outbox) /\ n + 1 \in 1..Len(outbox)
            /\ outbox[m + 1] = outbox'[m] /\ outbox[n + 1] = outbox'[n]
        BY <1>5
      <4>2. m + 1 = n + 1
        BY <1>6, <4>1 DEF EndsToTell, Stopped
      <4>3. QED BY <4>2, <1>5
    <3>4. \A c \in Characters :
             \/ announced'[c] = fights'[c]
             \/ \E n \in 1..Len(outbox') : outbox'[n].type = "stop" /\ outbox'[n].attacker = c
      <4> SUFFICES ASSUME NEW c \in Characters, announced[c] # fights[c]
                   PROVE  \E n \in 1..Len(outbox') :
                             outbox'[n].type = "stop" /\ outbox'[n].attacker = c
          BY <1>1, <3>1
      <4>1. PICK n \in 1..Len(outbox) : outbox[n].type = "stop" /\ outbox[n].attacker = c
        BY <1>6 DEF EndsToTell, Stopped
      <4>2. n \in 2..Len(outbox)
        BY <4>1, <1>5, <2>6
      <4>3. QED BY <4>1, <4>2, <2>1
    <3>5. EndsToTell'
      BY <3>2, <3>3, <3>4 DEF EndsToTell, Stopped
    <3>6. QED BY <3>5, <1>4 DEF CombatInv, OutboxTells
  <2>7. QED BY <2>4, <2>5, <2>6
<1>7. ASSUME NEW a \in Characters, NEW d \in Characters,
             outbox = <<Start(a, d)>>, fights[a] = d,
             \A c \in Characters \ {a} : announced[c] = fights[c]
      PROVE CombatInv'
  <2>1. e = Start(a, d) /\ outbox' = <<>>
    BY <1>1, <1>7
  <2>2. announced' = [announced EXCEPT ![a] = d]
    <3>1. e.type = "start" /\ e.attacker = a /\ e.defender = d
      BY <2>1 DEF Start
    <3>2. QED BY <1>1, <3>1 DEF Observe
  <2>3. \A c \in Characters : announced'[c] = fights'[c]
    BY <2>2, <1>1, <1>2, <1>7 DEF FightsTypes
  <2>4. EndsToTell'
    BY <2>1, <2>3 DEF EndsToTell
  <2>5. QED BY <2>4, <1>4 DEF CombatInv, OutboxTells
<1>8. ASSUME NEW a \in Characters, NEW d \in Characters, NEW x \in Characters,
             outbox = <<Stop(a, x), Start(a, d)>>, fights[a] = d,
             \A c \in Characters \ {a} : announced[c] = fights[c]
      PROVE CombatInv'
  <2>1. e = Stop(a, x) /\ outbox' = <<Start(a, d)>>
    BY <1>1, <1>8
  <2>2. announced' = [announced EXCEPT ![a] = Nobody]
    <3>1. e.type = "stop" /\ e.attacker = a
      BY <2>1 DEF Stop
    <3>2. QED BY <1>1, <3>1 DEF Observe
  <2>3. announced'[a] = Nobody /\ \A c \in Characters \ {a} : announced'[c] = fights'[c]
    BY <2>2, <1>1, <1>2, <1>8 DEF FightsTypes
  <2>4. StartToTell'
    BY <2>1, <2>3, <1>1, <1>8 DEF StartToTell
  <2>5. QED BY <2>4, <1>4 DEF CombatInv, OutboxTells
<1>9. ASSUME NEW a \in Characters, NEW d \in Characters,
             outbox = <<Hit(a, d)>>, announced = fights
      PROVE CombatInv'
  <2>1. e = Hit(a, d) /\ outbox' = <<>>
    BY <1>1, <1>9
  <2>2. announced' = fights'
    BY <1>1, <1>9, <2>1 DEF Observe, Hit
  <2>3. EndsToTell'
    BY <2>1, <2>2 DEF EndsToTell
  <2>4. QED BY <2>3, <1>4 DEF CombatInv, OutboxTells
<1>10. QED BY <1>6, <1>7, <1>8, <1>9
           DEF CombatInv, OutboxTells, StartToTell, ChangeToTell, BlowToTell

\* A message that has been sent is the sender's own.
LEMMA NextDeliver ==
    ASSUME CombatInv, NEW c \in Characters, Deliver(c)
    PROVE  CombatInv'
<1> DEFINE m == calling[c]
<1>1. /\ m # NoMessage /\ combatMessages = NoMessage /\ combatMessages' = m
      /\ calling' = [calling EXCEPT ![c] = NoMessage]
      /\ UNCHANGED <<fights, outbox, announced, phase, attacker, defender>>
      /\ promised' = CASE m.type = "combatStart" -> promised \cup {c}
                       [] m.type = "combatStop"  -> promised \ {c}
                       [] OTHER                  -> promised
  BY DEF Deliver, loopVars
<1>2. \/ m = StopFight(c) /\ promised' = promised \ {c}
      \/ m = InCombat(c) /\ promised' = promised
      \/ \E d \in Characters : m = StartFight(c, d) /\ promised' = promised \cup {c}
  <2>1. m \in {StopFight(c), InCombat(c)} \/ \E d \in Characters : m = StartFight(c, d)
    BY <1>1 DEF CombatInv, Callers
  <2>2. QED BY <1>1, <2>1 DEF StopFight, InCombat, StartFight
<1>3. \A s \in promised : fights[s] # Nobody
  BY <1>1, RealMessages DEF CombatInv, StartIsSeenByQuery, FightsTypes
<1>4. StartIsSeenByQuery'
  BY <1>1, <1>2, <1>3 DEF StartIsSeenByQuery
<1>5. Callers'
  BY <1>1 DEF CombatInv, Callers
<1>6. m \in CombatMessage
  BY <1>2, RealMessages
<1>7. FightsTypes' /\ BlowsAreInFights'
  BY <1>1, <1>2, <1>6 DEF CombatInv, FightsTypes, BlowsAreInFights
<1>8. QED BY <1>1, <1>4, <1>5, <1>7, NothingNewToTell DEF CombatInv

\* Every other step of the loop, and the ticker's.
LEMMA NextLoop ==
    ASSUME CombatInv,
           HandleTick \/ HandleQuery \/ (\E a \in Characters : Reach(a)) \/ Strike \/ Survive
               \/ EndRound \/ SendTick
    PROVE  CombatInv'
<1> DEFINE still == UNCHANGED <<fights, outbox, announced, calling, promised>>
<1>1. CASE HandleTick \/ HandleQuery
  <2>1. /\ still /\ combatMessages' = NoMessage /\ phase' # "hit" /\ phase' # "check"
        /\ combatMessages.type # "combatStart"
    BY <1>1 DEF HandleTick, HandleQuery, Take, loopVars, callerVars
  <2>2. StartIsSeenByQuery'
    BY <2>1 DEF CombatInv, StartIsSeenByQuery, StartFight
  <2>3. FightsTypes' /\ Callers' /\ BlowsAreInFights'
    BY <2>1 DEF CombatInv, FightsTypes, Callers, BlowsAreInFights
  <2>4. QED BY <2>1, <2>2, <2>3, NothingNewToTell DEF CombatInv
<1>2. ASSUME NEW a \in Characters, Reach(a)
      PROVE CombatInv'
  <2>1. /\ still /\ UNCHANGED combatMessages /\ outbox = <<>> /\ phase' = "hit"
        /\ attacker' = a /\ defender' = fights[a] /\ fights[a] # Nobody
    BY <1>2 DEF Reach, callerVars
  <2>2. StartIsSeenByQuery'
    BY <2>1 DEF CombatInv, StartIsSeenByQuery
  <2>3. FightsTypes' /\ Callers'
    BY <2>1 DEF CombatInv, FightsTypes, Callers
  <2>4. BlowsAreInFights'
    BY <2>1 DEF CombatInv, FightsTypes, BlowsAreInFights
  <2>5. QED BY <2>1, <2>2, <2>3, <2>4, NothingNewToTell DEF CombatInv
<1>3. CASE Strike
  <2>1. /\ UNCHANGED <<fights, announced, calling, promised, combatMessages, attacker, defender>>
        /\ phase = "hit" /\ phase' = "check" /\ outbox' = <<Hit(attacker, defender)>>
    BY <1>3 DEF Strike, callerVars
  <2>2. /\ attacker \in Characters /\ defender \in Characters /\ fights[attacker] = defender
        /\ announced = fights
    BY <2>1, NothingLeftToTell DEF CombatInv, BlowsAreInFights
  <2>3. BlowToTell'
    BY <2>1, <2>2 DEF BlowToTell
  <2>4. Hit(attacker, defender) \in Events
    BY <2>2 DEF Hit, Events
  <2>5. StartIsSeenByQuery'
    BY <2>1 DEF CombatInv, StartIsSeenByQuery
  <2>6. FightsTypes' /\ Callers' /\ BlowsAreInFights'
    BY <2>1, <2>2, <2>4 DEF CombatInv, FightsTypes, Callers, BlowsAreInFights
  <2>7. QED BY <2>3, <2>5, <2>6 DEF CombatInv, OutboxTells
<1>4. CASE Survive \/ EndRound
  <2>1. /\ still /\ UNCHANGED combatMessages /\ phase' # "hit" /\ phase' # "check"
    BY <1>4 DEF Survive, EndRound, callerVars
  <2>2. StartIsSeenByQuery'
    BY <2>1 DEF CombatInv, StartIsSeenByQuery
  <2>3. FightsTypes' /\ Callers' /\ BlowsAreInFights'
    BY <2>1 DEF CombatInv, FightsTypes, Callers, BlowsAreInFights
  <2>4. QED BY <2>1, <2>2, <2>3, NothingNewToTell DEF CombatInv
<1>5. CASE SendTick
  <2>1. /\ still /\ UNCHANGED <<phase, attacker, defender>>
        /\ combatMessages = NoMessage /\ combatMessages' = Tick
    BY <1>5 DEF SendTick, loopVars, callerVars
  <2>2. \A s \in promised : fights[s] # Nobody
    BY <2>1, RealMessages DEF CombatInv, StartIsSeenByQuery, FightsTypes
  <2>3. Tick \in CombatMessage
    BY DEF Tick, CombatMessage
  <2>4. StartIsSeenByQuery'
    BY <2>1, <2>2 DEF StartIsSeenByQuery
  <2>5. FightsTypes' /\ Callers' /\ BlowsAreInFights'
    BY <2>1, <2>3 DEF CombatInv, FightsTypes, Callers, BlowsAreInFights
  <2>6. QED BY <2>1, <2>4, <2>5, NothingNewToTell DEF CombatInv
<1>6. QED BY <1>1, <1>2, <1>3, <1>4, <1>5

\* A character that makes a call makes it for itself.
LEMMA NextCall ==
    ASSUME CombatInv, NEW c \in Characters,
           UNCHANGED <<fights, combatMessages, phase, attacker, defender, outbox, promised,
                       announced>>,
           \/ UNCHANGED calling
           \/ \E m \in {StopFight(c), InCombat(c)} : Call(c, m)
           \/ \E d \in Characters : Call(c, StartFight(c, d))
    PROVE  CombatInv'
<1>1. Callers'
  <2>1. CASE UNCHANGED calling
    BY <2>1 DEF CombatInv, Callers
  <2>2. ASSUME NEW m, Call(c, m),
               m \in {StopFight(c), InCombat(c)} \/ \E d \in Characters : m = StartFight(c, d)
        PROVE Callers'
    <3> SUFFICES ASSUME NEW b \in Characters
                 PROVE  \/ calling'[b] \in {NoMessage, StopFight(b), InCombat(b)}
                        \/ \E d \in Characters : calling'[b] = StartFight(b, d)
        BY DEF Callers
    <3>1. b # c => calling'[b] = calling[b]
      BY <2>2 DEF Call
    <3>2. calling'[b] = calling[b] \/ (b = c /\ calling'[b] = m)
      BY <2>2 DEF Call
    <3>3. QED BY <2>2, <3>1, <3>2 DEF CombatInv, Callers
  <2>3. QED BY <2>1, <2>2
<1>2. FightsTypes' /\ BlowsAreInFights' /\ StartIsSeenByQuery'
  BY DEF CombatInv, FightsTypes, BlowsAreInFights, StartIsSeenByQuery
<1>3. QED BY <1>1, <1>2, NothingNewToTell DEF CombatInv

\* An NPC answers in its own name.
LEMMA NextReact ==
    ASSUME CombatInv, NEW n \in Npcs, NEW e \in Events, React(n, e)
    PROVE  CombatInv'
<1>1. n \in Characters
  BY DEF Characters
<1>2. UNCHANGED <<fights, combatMessages, phase, attacker, defender, outbox, promised,
                  announced>>
  BY DEF React, loopVars
<1>3. \/ UNCHANGED calling
      \/ Call(n, StopFight(n))
      \/ \E d \in Characters : Call(n, StartFight(n, d))
  <2>1. CASE e \in {Start(a, n) : a \in Characters}
    <3>1. e.attacker \in Characters
      BY <2>1 DEF Start
    <3>2. CASE e = Death(n)
      BY <3>2 DEF React
    <3>3. CASE e # Death(n)
      BY <2>1, <3>1, <3>3 DEF React, Call
    <3>4. QED BY <3>2, <3>3
  <2>2. CASE e \notin {Start(a, n) : a \in Characters}
    BY <2>2 DEF React, Call
  <2>3. QED BY <2>1, <2>2
<1>4. QED BY <1>1, <1>2, <1>3, NextCall

\* Every step keeps the invariant.
LEMMA NextCombatInv ==
    ASSUME CombatInv, [Next]_vars
    PROVE  CombatInv'
<1>1. CASE CombatLoop \/ SendTick
  <2>1. ASSUME NEW a \in Characters, GiveUp(a) PROVE CombatInv'
    BY <2>1, NextStops
  <2>2. CASE HandleStop
    <3>1. combatMessages.attacker \in Characters
      BY <2>2, MessageTypes DEF HandleStop, Take, CombatInv
    <3>2. QED BY <2>2, <3>1, NextStops
  <2>3. QED BY <1>1, <2>1, <2>2, NextHandleStart, NextKill, NextEmit, NextLoop DEF CombatLoop
<1>2. CASE BusStep
  BY <1>2, OtherSteps DEF BusStep, seenVars, loopVars, callerVars
<1>3. ASSUME NEW s \in Pcs, (\E d \in Characters : Attack(s, d)) \/ GiveIn(s) \/ Ask(s)
      PROVE CombatInv'
  <2>1. s \in Characters
    BY DEF Characters
  <2>2. UNCHANGED <<fights, combatMessages, phase, attacker, defender, outbox, promised,
                    announced>>
    BY <1>3 DEF Attack, GiveIn, Ask, loopVars
  <2>3. \/ \E m \in {StopFight(s), InCombat(s)} : Call(s, m)
        \/ \E d \in Characters : Call(s, StartFight(s, d))
    BY <1>3 DEF Attack, GiveIn, Ask
  <2>4. QED BY <2>1, <2>2, <2>3, NextCall
<1>4. ASSUME NEW s \in Pcs, Finish(s)
      PROVE CombatInv'
  BY <1>4, OtherSteps DEF Finish, HealRead, HealWrite, StayOut, seenVars, loopVars
<1>5. ASSUME NEW n \in Npcs, Retire(n)
      PROVE CombatInv'
  BY <1>5, OtherSteps DEF Retire, seenVars, loopVars, callerVars
<1>6. ASSUME NEW n \in Npcs, NEW e \in Events, React(n, e)
      PROVE CombatInv'
  BY <1>6, NextReact
<1>7. ASSUME NEW c \in Characters, Deliver(c)
      PROVE CombatInv'
  BY <1>7, NextDeliver
<1>8. ASSUME NEW c \in Characters, Move(c) \/ SaveRoom(c)
      PROVE CombatInv'
  BY <1>8, OtherSteps DEF Move, SaveRoom, seenVars, loopVars, callerVars
<1>9. CASE UNCHANGED vars
  BY <1>9, OtherSteps DEF vars, seenVars, loopVars, callerVars
<1>10. QED BY <1>1, <1>2, <1>3, <1>4, <1>5, <1>6, <1>7, <1>8, <1>9 DEF Next, Over

-----------------------------------------------------------------------------
(* Theorems                                                                *)

\* Combat keeps its inductive invariant, in every behaviour.
THEOREM CombatInvariant == Spec => []CombatInv
<1>1. CombatInv /\ [Next]_vars => CombatInv'
  BY NextCombatInv
<1>2. QED BY <1>1, InitCombatInv, PTL DEF Spec

\* A session that has started a fight is told that it is in combat.
THEOREM StartsAreSeen == Spec => []StartIsSeenByQuery
  BY CombatInvariant, PTL DEF CombatInv

\* Blows are broadcast within their fights, stops while the fight is on, and
\* starts only when the attacker's last fight has been stopped.
THEOREM EventsAreBracketed == Spec => []BroadcastsAreBracketed
<1>1. CombatInv => BroadcastsAreBracketed
  <2> SUFFICES ASSUME CombatInv, outbox # <<>> PROVE
          LET e == Head(outbox)
          IN  /\ e.type \in {"hit", "stop"} => announced[e.attacker] = e.defender
              /\ e.type = "start" => announced[e.attacker] = Nobody
      BY DEF BroadcastsAreBracketed
  <2>1. outbox \in Seq(Events) /\ Head(outbox) = outbox[1] /\ Len(outbox) \in Nat \ {0}
    BY DEF CombatInv, FightsTypes
  <2>2. CASE EndsToTell
    BY <2>1, <2>2 DEF EndsToTell, Stopped
  <2>3. CASE StartToTell
    BY <2>3 DEF StartToTell, Start
  <2>4. CASE ChangeToTell
    BY <2>4 DEF ChangeToTell, Stop
  <2>5. CASE BlowToTell
    BY <2>5 DEF BlowToTell, Hit
  <2>6. QED BY <2>2, <2>3, <2>4, <2>5 DEF CombatInv, OutboxTells
<1>2. QED BY <1>1, CombatInvariant, PTL

\* An observer's view after each of the broadcasts to be made, one by one; the
\* last of them is the fold of Observe over the outbox.
LEMMA ViewsFollow ==
    ASSUME FightsTypes
    PROVE  \E views :
              /\ views[{}] = announced
              /\ \A k \in 1..Len(outbox) : views[1..k] = Observe(outbox[k], views[1..(k - 1)])
              /\ FoldLeft(LAMBDA view, e : Observe(e, view), announced, outbox)
                     = views[1..Len(outbox)]
<1> DEFINE n == Len(outbox)
           V == [Characters -> Characters \cup {Nobody}]
           B == [z \in V \X (1..n) |-> Observe(outbox[z[2]], z[1])]
           c == [S \in SUBSET (1..n) |-> Max(S)]
           Fits(g) == g = [S \in SUBSET (1..n) |->
                              IF S = {} THEN announced
                              ELSE Observe(outbox[Max(S)], g[S \ {Max(S)}])]
           views == CHOOSE g : Fits(g)
<1>1. n \in Nat /\ DOMAIN outbox = 1..n /\ announced \in V
  BY DEF FightsTypes
<1>2. B \in [V \X (1..n) -> V]
  <2>1. ASSUME NEW v \in V, NEW k \in 1..n PROVE Observe(outbox[k], v) \in V
    <3>1. outbox[k] \in Events
      BY DEF FightsTypes
    <3>2. QED BY <3>1 DEF Observe, Events
  <2>2. QED BY <2>1
<1>3. \A S \in SUBSET (1..n) : S # {} => c[S] \in S /\ c[S] = Max(S)
  <2>1. IsFiniteSet(1..n) /\ 1..n \in SUBSET Int
    BY <1>1, FS_Interval
  <2> HIDE DEF n
  <2>2. \A S \in SUBSET (1..n) : S # {} => Max(S) \in S
    BY <2>1, MaxExists
  <2>3. QED BY <2>2
<1>4. PICK fold \in [SUBSET (1..n) -> V] : IsFold(fold, 1..n, c, B, announced)
  <2>1. IsFiniteSet(1..n)
    BY <1>1, FS_Interval
  <2> HIDE DEF n, V, B, c
  <2>2. QED BY <1>1, <1>2, <1>3, <2>1, FoldExists
<1>5. Fits(fold)
  <2> DEFINE body == [S \in SUBSET (1..n) |->
                         IF S = {} THEN announced
                         ELSE Observe(outbox[Max(S)], fold[S \ {Max(S)}])]
  <2>1. ASSUME NEW S \in SUBSET (1..n) PROVE fold[S] = body[S]
    <3>1. CASE S = {}
      BY <1>4, <3>1 DEF IsFold
    <3>2. CASE S # {}
      <4>1. Max(S) \in 1..n /\ S \ {Max(S)} \in SUBSET (1..n) /\ c[S] = Max(S)
        BY <1>3, <3>2
      <4>2. fold[S] = B[<<fold[S \ {Max(S)}], Max(S)>>]
        BY <1>4, <3>2, <4>1 DEF IsFold
      <4>3. fold[S \ {Max(S)}] \in V
        BY <4>1
      <4>4. QED BY <3>2, <4>1, <4>2, <4>3
    <3>3. QED BY <3>1, <3>2
  <2>2. fold = [S \in SUBSET (1..n) |-> fold[S]] /\ DOMAIN body = SUBSET (1..n)
    OBVIOUS
  <2>3. fold = body
    BY <2>1, <2>2
  <2>4. QED BY <2>3
<1>6. Fits(views)
  <2> HIDE DEF Fits
  <2>1. QED BY <1>5
<1>7. \A S \in SUBSET (1..n) :
         views[S] = IF S = {} THEN announced
                    ELSE Observe(outbox[Max(S)], views[S \ {Max(S)}])
  <2> HIDE DEF views
  <2>1. QED BY <1>6
<1>8. FoldLeft(LAMBDA view, e : Observe(e, view), announced, outbox) = views[DOMAIN outbox]
  BY <1>1 DEF FoldLeft, MapThenFoldSet
<1> HIDE DEF views
<1>9. views[{}] = announced
  BY <1>7
<1>10. ASSUME NEW k \in 1..n PROVE views[1..k] = Observe(outbox[k], views[1..(k - 1)])
  <2>1. Max(1..k) = k /\ (1..k) \ {Max(1..k)} = 1..(k - 1) /\ 1..k \in SUBSET (1..n) /\ 1..k # {}
    BY <1>1, MaxOfFirst
  <2>2. QED BY <1>7, <2>1
<1>11. QED BY <1>1, <1>8, <1>9, <1>10

\* An observer who follows the broadcasts, those still to be made included,
\* knows every fight there is.
LEMMA OutboxTellsAll ==
    ASSUME FightsTypes, OutboxTells
    PROVE  EventsMatchFights
<1>1. PICK views :
              /\ views[{}] = announced
              /\ \A k \in 1..Len(outbox) : views[1..k] = Observe(outbox[k], views[1..(k - 1)])
              /\ FoldLeft(LAMBDA view, e : Observe(e, view), announced, outbox)
                     = views[1..Len(outbox)]
  BY ViewsFollow
<1> DEFINE n == Len(outbox)
           V == [Characters -> Characters \cup {Nobody}]
<1>2. n \in Nat /\ fights \in V /\ announced \in V /\ \A k \in 1..n : outbox[k] \in Events
  BY DEF FightsTypes
<1>3. /\ views[1..0] = announced /\ 1 - 1 = 0 /\ 2 - 1 = 1
      /\ \A k \in 1..n : views[1..k] = Observe(outbox[k], views[1..(k - 1)])
  <2>1. 1..0 = {}
    OBVIOUS
  <2>2. views[{}] = announced
    BY <1>1
  <2>3. views[1..0] = announced
    BY <2>1, <2>2
  <2>4. \A k \in 1..n : views[1..k] = Observe(outbox[k], views[1..(k - 1)])
    BY <1>1
  <2>5. QED BY <2>3, <2>4
<1>4. SUFFICES views[1..n] = fights
  BY <1>1 DEF EventsMatchFights
<1>5. CASE EndsToTell
  <2> DEFINE Ended(c, k) == \E m \in 1..k : Stopped(m) /\ outbox[m].attacker = c
             View(k) == [c \in Characters |-> IF Ended(c, k) THEN Nobody ELSE announced[c]]
             P == {k \in Nat : k <= n => views[1..k] = View(k)}
  <2>1. 0 \in P
    <3>1. View(0) = announced
      BY <1>2
    <3>2. QED BY <1>3, <3>1
  <2>2. ASSUME NEW k \in P PROVE k + 1 \in P
    <3> SUFFICES ASSUME k + 1 <= n PROVE views[1..(k + 1)] = View(k + 1)
      OBVIOUS
    <3>1. k \in Nat /\ k + 1 \in 1..n /\ (k + 1) - 1 = k /\ k <= n
      BY <1>2
    <3>2. views[1..(k + 1)] = Observe(outbox[k + 1], View(k))
      BY <1>3, <2>2, <3>1
    <3>3. \A c \in Characters :
             Ended(c, k + 1) <=> Ended(c, k) \/ (Stopped(k + 1) /\ outbox[k + 1].attacker = c)
      BY <3>1
    <3>4. CASE outbox[k + 1].type = "death"
      <4>1. View(k + 1) = View(k)
        BY <3>3, <3>4 DEF Stopped
      <4>2. QED BY <3>2, <3>4, <4>1 DEF Observe
    <3>5. CASE Stopped(k + 1)
      <4>1. outbox[k + 1].attacker \in Characters
        BY <1>2, <3>1, <3>5 DEF Stopped, Events
      <4>2. Observe(outbox[k + 1], View(k)) = [View(k) EXCEPT ![outbox[k + 1].attacker] = Nobody]
        BY <3>5 DEF Stopped, Observe
      <4>3. View(k + 1) = [View(k) EXCEPT ![outbox[k + 1].attacker] = Nobody]
        BY <3>3, <3>5, <4>1
      <4>4. QED BY <3>2, <4>2, <4>3
    <3>6. QED BY <1>5, <3>1, <3>4, <3>5 DEF EndsToTell
  <2>3. P = Nat
    <3>1. P \in SUBSET Nat
      OBVIOUS
    <3> HIDE DEF P
    <3>2. QED BY <2>1, <2>2, <3>1, NatSetInduction
  <2>4. views[1..n] = View(n)
    <3>1. n \in P
      BY <1>2, <2>3
    <3>2. QED BY <1>2, <3>1
  <2>5. ASSUME NEW c \in Characters PROVE View(n)[c] = fights[c]
    <3>1. CASE Ended(c, n)
      BY <1>5, <3>1 DEF EndsToTell, Stopped
    <3>2. CASE ~Ended(c, n)
      BY <1>5, <3>2 DEF EndsToTell
    <3>3. QED BY <3>1, <3>2
  <2>6. View(n) = fights
    BY <1>2, <2>5
  <2>7. QED BY <2>4, <2>6
<1>6. CASE StartToTell
  <2>1. PICK a \in Characters, d \in Characters :
            /\ outbox = <<Start(a, d)>> /\ announced[a] = Nobody /\ fights[a] = d
            /\ \A c \in Characters \ {a} : announced[c] = fights[c]
    BY <1>6 DEF StartToTell
  <2>2. n = 1 /\ outbox[1] = Start(a, d)
    BY <2>1
  <2>3. views[1..1] = Observe(Start(a, d), announced)
    BY <1>3, <2>2
  <2>4. Observe(Start(a, d), announced) = [announced EXCEPT ![a] = d]
    BY DEF Observe, Start
  <2>5. [announced EXCEPT ![a] = d] = fights
    BY <1>2, <2>1
  <2>6. QED BY <2>2, <2>3, <2>4, <2>5
<1>7. CASE ChangeToTell
  <2>1. PICK a \in Characters, d \in Characters, x \in Characters :
            /\ outbox = <<Stop(a, x), Start(a, d)>> /\ announced[a] = x /\ fights[a] = d
            /\ \A c \in Characters \ {a} : announced[c] = fights[c]
    BY <1>7 DEF ChangeToTell
  <2>2. n = 2 /\ outbox[1] = Stop(a, x) /\ outbox[2] = Start(a, d)
    BY <2>1
  <2>3. views[1..1] = Observe(Stop(a, x), announced)
    BY <1>3, <2>2
  <2>4. views[1..2] = Observe(Start(a, d), views[1..1])
    BY <1>3, <2>2
  <2>5. Observe(Stop(a, x), announced) = [announced EXCEPT ![a] = Nobody]
    BY DEF Observe, Stop
  <2>6. Observe(Start(a, d), views[1..1]) = [views[1..1] EXCEPT ![a] = d]
    BY DEF Observe, Start
  <2>7. [[announced EXCEPT ![a] = Nobody] EXCEPT ![a] = d] = fights
    BY <1>2, <2>1
  <2>8. QED BY <2>2, <2>3, <2>4, <2>5, <2>6, <2>7
<1>8. CASE BlowToTell
  <2>1. PICK a \in Characters, d \in Characters :
            outbox = <<Hit(a, d)>> /\ announced = fights /\ fights[a] = d
    BY <1>8 DEF BlowToTell
  <2>2. n = 1 /\ outbox[1] = Hit(a, d)
    BY <2>1
  <2>3. views[1..1] = Observe(Hit(a, d), announced)
    BY <1>3, <2>2
  <2>4. QED BY <2>1, <2>2, <2>3 DEF Observe, Hit
<1>9. QED BY <1>5, <1>6, <1>7, <1>8 DEF OutboxTells

\* The broadcasts tell the whole story, in every behaviour.
THEOREM EventsTellFights == Spec => []EventsMatchFights
<1>1. CombatInv => EventsMatchFights
  BY OutboxTellsAll DEF CombatInv
<1>2. QED BY <1>1, CombatInvariant, PTL

\* Whenever everything has been told, the broadcasts have told of every fight
\* there is and of no other.
ObserversKnow == outbox = <<>> => announced = fights

\* Observers always catch up with the table.
THEOREM ObserversCatchUp == Spec => []ObserversKnow
<1>1. CombatInv => ObserversKnow
  BY NothingLeftToTell DEF CombatInv, ObserversKnow
<1>2. QED BY <1>1, CombatInvariant, PTL
-----------------------------------------------------------------------------
(* Types                                                                   *)

LoopTypes ==
    /\ phase \in {"idle", "round", "hit", "check"} /\ round \subseteq Characters
    /\ attacker \in Characters \cup {Nobody} /\ defender \in Characters \cup {Nobody}
    /\ seen \in 0..MaxHitPoints

CallerTypes ==
    /\ calling \in [Characters -> CombatMessage \cup {NoMessage}]
    /\ asking \in [Characters -> {"none", "sent", "yes", "no"}]
    /\ healing \in [Characters -> (0..MaxHitPoints) \cup {Nobody}]
    /\ calls \in [Characters -> Nat] /\ \A c \in Characters : calls[c] <= MaxCalls[c]

WorldTypes ==
    /\ hp \in [Characters -> 0..MaxHitPoints]
    /\ room \in [Characters -> Rooms] /\ savedRoom \in [Characters -> Rooms]
    /\ deleted \subseteq Npcs /\ ticks \in 0..MaxTicks

\* The type invariant of combat in parts: fights, loop, callers, world and bus.
LEMMA TypesAre ==
    TypeOK <=> FightsTypes /\ LoopTypes /\ CallerTypes /\ WorldTypes /\ Bus!TypeOK
  BY DEF TypeOK, FightsTypes, LoopTypes, CallerTypes, WorldTypes

\* The loop's own variables, which only its steps change.
LEMMA NextLoopTypes ==
    ASSUME FightsTypes, LoopTypes, WorldTypes, [Next]_vars
    PROVE  LoopTypes'
<1> USE CombatAssumption DEF CombatAssumption, LoopTypes
<1>1. CASE UNCHANGED loopVars
  BY <1>1 DEF loopVars
<1>2. CASE HandleTick
  BY <1>2 DEF HandleTick
<1>3. ASSUME NEW a \in Characters, Reach(a) PROVE LoopTypes'
  BY <1>3 DEF Reach, FightsTypes, WorldTypes
<1>4. ASSUME NEW a \in Characters, GiveUp(a) PROVE LoopTypes'
  BY <1>4 DEF GiveUp
<1>5. CASE Strike \/ Kill \/ Survive
  BY <1>5 DEF Strike, Kill, Survive
<1>6. CASE EndRound
  BY <1>6 DEF EndRound
<1>7. CASE HandleStart \/ HandleStop \/ HandleQuery \/ Emit \/ SendTick \/ BusStep
  BY <1>1, <1>7 DEF HandleStart, HandleStop, HandleQuery, Emit, SendTick, BusStep
<1>8. ASSUME NEW s \in Pcs,
             \/ \E d \in Characters : Attack(s, d)
             \/ GiveIn(s) \/ Ask(s) \/ Finish(s)
      PROVE  LoopTypes'
  BY <1>1, <1>8 DEF Attack, GiveIn, Ask, Finish, HealRead, HealWrite, StayOut
<1>9. ASSUME NEW n \in Npcs, Retire(n) \/ \E e \in Events : React(n, e) PROVE LoopTypes'
  BY <1>1, <1>9 DEF Retire, React
<1>10. ASSUME NEW c \in Characters, Deliver(c) \/ Move(c) \/ SaveRoom(c) PROVE LoopTypes'
  BY <1>1, <1>10 DEF Deliver, Move, SaveRoom
<1>11. CASE Over \/ UNCHANGED vars
  BY <1>1, <1>11 DEF Over, vars
<1>12. QED
  BY <1>2, <1>3, <1>4, <1>5, <1>6, <1>7, <1>8, <1>9, <1>10, <1>11 DEF Next, CombatLoop

\* A command is counted, up to the bound.
LEMMA CallsCounted ==
    ASSUME CallerTypes, NEW c \in Characters, MayCall(c)
    PROVE  calls' \in [Characters -> Nat] /\ \A b \in Characters : calls'[b] <= MaxCalls[b]
<1>1. /\ calls[c] < MaxCalls[c] /\ calls' = [calls EXCEPT ![c] = calls[c] + 1]
      /\ calls \in [Characters -> Nat] /\ \A b \in Characters : calls[b] <= MaxCalls[b]
      /\ MaxCalls \in [Characters -> Nat]
  BY CombatAssumption DEF CombatAssumption, CallerTypes, MayCall
<1>2. QED BY <1>1

\* What the goroutines of the characters are doing.
LEMMA NextCallerTypes ==
    ASSUME FightsTypes, CallerTypes, WorldTypes, [Next]_vars
    PROVE  CallerTypes'
<1>1. CASE UNCHANGED callerVars
  BY <1>1 DEF callerVars, CallerTypes
<1>2. CASE HandleQuery
  <2>1. UNCHANGED <<calling, healing, calls>>
    BY <1>2 DEF HandleQuery
  <2>2. asking' \in [Characters -> {"none", "sent", "yes", "no"}]
    BY <1>2 DEF HandleQuery, CallerTypes
  <2>3. QED BY <2>1, <2>2 DEF CallerTypes
<1>3. CASE \/ HandleTick \/ HandleStart \/ HandleStop \/ Strike \/ Kill \/ Survive \/ EndRound
           \/ Emit \/ SendTick \/ BusStep
  BY <1>1, <1>3 DEF HandleTick, HandleStart, HandleStop, Strike, Kill, Survive, EndRound, Emit,
         SendTick, BusStep
<1>4. ASSUME NEW a \in Characters, Reach(a) \/ GiveUp(a) PROVE CallerTypes'
  BY <1>1, <1>4 DEF Reach, GiveUp
<1>5. ASSUME NEW s \in Pcs, NEW d \in Characters, Attack(s, d) \/ GiveIn(s) \/ Ask(s)
      PROVE  CallerTypes'
  <2>1. s \in Characters /\ MayCall(s) /\ UNCHANGED <<asking, healing>>
    BY <1>5 DEF Attack, GiveIn, Ask, Characters
  <2>2. \E m \in CombatMessage : calling' = [calling EXCEPT ![s] = m]
    BY <1>5, <2>1, RealMessages DEF Attack, GiveIn, Ask, Call
  <2>3. calling' \in [Characters -> CombatMessage \cup {NoMessage}]
    BY <2>2 DEF CallerTypes
  <2>4. QED BY <2>1, <2>3, CallsCounted DEF CallerTypes
<1>6. ASSUME NEW s \in Pcs, Finish(s) PROVE CallerTypes'
  <2>1. s \in Characters /\ UNCHANGED <<calling, calls>>
    BY <1>6 DEF Finish, HealRead, HealWrite, StayOut, Characters
  <2>2. asking' \in [Characters -> {"none", "sent", "yes", "no"}]
    BY <1>6 DEF Finish, HealRead, HealWrite, StayOut, CallerTypes
  <2>3. healing' \in [Characters -> (0..MaxHitPoints) \cup {Nobody}]
    BY <1>6, <2>1 DEF Finish, HealRead, HealWrite, StayOut, CallerTypes, WorldTypes
  <2>4. QED BY <2>1, <2>2, <2>3 DEF CallerTypes
<1>7. ASSUME NEW n \in Npcs, Retire(n) PROVE CallerTypes'
  BY <1>1, <1>7 DEF Retire
<1>8. ASSUME NEW n \in Npcs, NEW e \in Events, React(n, e) PROVE CallerTypes'
  <2>1. n \in Characters /\ UNCHANGED <<asking, healing, calls>>
    BY <1>8 DEF React, Characters
  <2>2. \/ calling' = calling
        \/ \E m \in CombatMessage : calling' = [calling EXCEPT ![n] = m]
    <3>1. CASE e = Death(n)
      BY <1>8, <3>1 DEF React
    <3>2. CASE e # Death(n) /\ e \in {Start(a, n) : a \in Characters}
      <4>1. calling' = [calling EXCEPT ![n] = StartFight(n, e.attacker)]
        <5>1. e # Death(n) /\ e \in {Start(a, n) : a \in Characters}
          BY <3>2
        <5> DEFINE starts == {Start(a, n) : a \in Characters}
        <5>2. calling' = CASE e \in starts -> [calling EXCEPT ![n] = StartFight(n, e.attacker)]
                           [] e \in {Stop(a, n) : a \in Characters} ->
                                 [calling EXCEPT ![n] = StopFight(n)]
                           [] OTHER -> calling
          BY <1>8, <5>1 DEF React
        <5>3. e \notin {Stop(a, n) : a \in Characters}
          BY <5>1 DEF Start, Stop
        <5> HIDE DEF starts
        <5>4. QED BY <5>1, <5>2, <5>3 DEF starts
      <4>2. e.attacker \in Characters
        BY <3>2 DEF Start
      <4>3. QED BY <2>1, <4>1, <4>2, RealMessages
    <3>3. CASE e # Death(n) /\ e \notin {Start(a, n) : a \in Characters}
      BY <1>8, <2>1, <3>3, RealMessages DEF React
    <3>4. QED BY <3>1, <3>2, <3>3
  <2>3. calling' \in [Characters -> CombatMessage \cup {NoMessage}]
    BY <2>2 DEF CallerTypes
  <2>4. QED BY <2>1, <2>3 DEF CallerTypes
<1>9. ASSUME NEW c \in Characters, Deliver(c) PROVE CallerTypes'
  <2>1. UNCHANGED <<healing, calls>>
    BY <1>9 DEF Deliver
  <2>2. calling' \in [Characters -> CombatMessage \cup {NoMessage}]
    BY <1>9 DEF Deliver, CallerTypes
  <2>3. asking' \in [Characters -> {"none", "sent", "yes", "no"}]
    BY <1>9 DEF Deliver, CallerTypes
  <2>4. QED BY <2>1, <2>2, <2>3 DEF CallerTypes
<1>10. ASSUME NEW c \in Characters, Move(c) PROVE CallerTypes'
  <2>1. MayCall(c) /\ UNCHANGED <<calling, asking, healing>>
    BY <1>10 DEF Move
  <2>2. QED BY <2>1, CallsCounted DEF CallerTypes
<1>11. ASSUME NEW c \in Characters, SaveRoom(c) PROVE CallerTypes'
  BY <1>1, <1>11 DEF SaveRoom
<1>12. CASE Over \/ UNCHANGED vars
  BY <1>1, <1>12 DEF Over, vars
<1>13. QED
  <2>1. ASSUME NEW s \in Pcs, GiveIn(s) \/ Ask(s) PROVE CallerTypes'
    BY <1>5, <2>1 DEF Characters
  <2>2. QED
    BY <1>2, <1>3, <1>4, <1>5, <1>6, <1>7, <1>8, <1>9, <1>10, <1>11, <1>12, <2>1
       DEF Next, CombatLoop

\* Hit points stay between none and all of them, whoever wounds and heals.
LEMMA NextWorldTypes ==
    ASSUME BlowsAreInFights, CallerTypes, WorldTypes, [Next]_vars
    PROVE  WorldTypes'
<1> USE CombatAssumption DEF CombatAssumption
<1>1. CASE UNCHANGED <<worldVars, ticks>>
  BY <1>1 DEF worldVars, WorldTypes
<1>2. CASE Strike
  <2>1. UNCHANGED <<room, deleted, savedRoom, ticks>>
    BY <1>2 DEF Strike
  <2>2. hp' \in [Characters -> 0..MaxHitPoints]
    BY <1>2 DEF Strike, WorldTypes
  <2>3. QED BY <2>1, <2>2 DEF WorldTypes
<1>3. CASE \/ HandleTick \/ HandleStart \/ HandleStop \/ HandleQuery \/ Kill \/ Survive
           \/ EndRound \/ Emit \/ BusStep
  BY <1>1, <1>3 DEF HandleTick, HandleStart, HandleStop, HandleQuery, Kill, Survive, EndRound,
         Emit, BusStep
<1>4. ASSUME NEW a \in Characters, Reach(a) \/ GiveUp(a) PROVE WorldTypes'
  BY <1>1, <1>4 DEF Reach, GiveUp
<1>5. CASE SendTick
  <2>1. UNCHANGED worldVars /\ ticks' = ticks + 1 /\ ticks < MaxTicks
    BY <1>5 DEF SendTick
  <2>2. QED BY <2>1 DEF worldVars, WorldTypes
<1>6. ASSUME NEW s \in Pcs, NEW d \in Characters,
             Attack(s, d) \/ GiveIn(s) \/ Ask(s) \/ HealRead(s) \/ StayOut(s)
      PROVE  WorldTypes'
  BY <1>1, <1>6 DEF Attack, GiveIn, Ask, HealRead, StayOut
<1>7. ASSUME NEW s \in Pcs, HealWrite(s) PROVE WorldTypes'
  <2>1. UNCHANGED <<room, deleted, savedRoom, ticks>>
    BY <1>7 DEF HealWrite
  <2>2. healing[s] \in 0..MaxHitPoints
    BY <1>7 DEF HealWrite, CallerTypes, Characters
  <2>3. PICK more \in healing[s]..MaxHitPoints : hp' = [hp EXCEPT ![s] = more]
    BY <1>7 DEF HealWrite
  <2>4. more \in 0..MaxHitPoints
    BY <2>2
  <2>5. hp' \in [Characters -> 0..MaxHitPoints]
    BY <2>3, <2>4 DEF WorldTypes
  <2>6. QED BY <2>1, <2>5 DEF WorldTypes
<1>8. ASSUME NEW n \in Npcs, Retire(n) \/ \E e \in Events : React(n, e) PROVE WorldTypes'
  <2>1. UNCHANGED <<hp, room, savedRoom, ticks>> /\ deleted' \subseteq deleted \cup {n}
    BY <1>8 DEF Retire, React, worldVars
  <2>2. QED BY <2>1 DEF WorldTypes
<1>9. ASSUME NEW c \in Characters, Deliver(c) PROVE WorldTypes'
  BY <1>1, <1>9 DEF Deliver
<1>10. ASSUME NEW c \in Characters, Move(c) \/ SaveRoom(c) PROVE WorldTypes'
  <2>1. UNCHANGED <<hp, deleted, ticks>>
    BY <1>10 DEF Move, SaveRoom
  <2>2. room' \in [Characters -> Rooms]
    BY <1>10 DEF Move, SaveRoom, WorldTypes
  <2>3. savedRoom' \in [Characters -> Rooms]
    BY <1>10 DEF Move, SaveRoom, WorldTypes
  <2>4. QED BY <2>1, <2>2, <2>3 DEF WorldTypes
<1>11. CASE Over \/ UNCHANGED vars
  BY <1>1, <1>11 DEF Over, vars
<1>12. QED
  <2>1. ASSUME NEW s \in Pcs, GiveIn(s) \/ Ask(s) \/ HealRead(s) \/ StayOut(s)
        PROVE WorldTypes'
    BY <1>6, <2>1 DEF Characters
  <2>2. QED
    BY <1>2, <1>3, <1>4, <1>5, <1>6, <1>7, <1>8, <1>9, <1>10, <1>11, <2>1
       DEF Next, CombatLoop, Finish

\* What is proved of the bus, for combat and the NPCs as its users.
TheBus == INSTANCE EventBus_proofs
              WITH Receivers <- Npcs, Listeners <- Npcs,
                   ReceiverOf <- [n \in Npcs |-> n],
                   Shouts <- {}, MaxBroadcasts <- 0, NoListener <- Nobody

\* The NPCs and messages of combat are such as the bus expects.
LEMMA BusIsSetUp == TheBus!BusAssumption
<1>1. Nobody \notin Npcs /\ NoMessage \notin TheBus!Message
  BY CombatAssumption, SlotAssumption
     DEF CombatAssumption, Characters, SlotAssumption, Bus!Message, TheBus!Message
<1>2. QED BY <1>1 DEF TheBus!BusAssumption

\* Combat and the NPCs touch the bus through its calls alone.
LEMMA NextBusActs ==
    ASSUME FightsTypes, [Next]_vars
    PROVE  [TheBus!BusActs]_busVars
<1>1. CASE Emit
  <2>1. Head(outbox) \in Events /\ Bus!Broadcast(Head(outbox))
    BY <1>1 DEF Emit, FightsTypes
  <2>2. \E e \in Events : TheBus!Broadcast(e)
    BY <2>1 DEF Bus!Broadcast, Bus!Send, TheBus!Broadcast, TheBus!Send
  <2>3. QED BY <2>2 DEF TheBus!BusActs
<1>2. CASE BusStep
  <2>1. CASE Bus!HandleUnregister
    BY <2>1 DEF Bus!HandleUnregister, Bus!Take, TheBus!HandleUnregister, TheBus!Take,
       TheBus!BusStep, TheBus!BusActs
  <2>2. ASSUME NEW audience \in SUBSET Npcs, Bus!HandleBroadcast(audience)
        PROVE  [TheBus!BusActs]_busVars
    <3>1. TheBus!HandleBroadcast(audience)
      BY <2>2 DEF Bus!HandleBroadcast, Bus!Take, TheBus!HandleBroadcast, TheBus!Take
    <3>2. QED BY <3>1 DEF TheBus!BusStep, TheBus!BusActs
  <2>3. QED BY <1>2, <2>1, <2>2 DEF BusStep
<1>3. ASSUME NEW n \in Npcs, Retire(n) PROVE [TheBus!BusActs]_busVars
  <2>1. TheBus!Unregister(n)
    BY <1>3 DEF Retire, Bus!Unregister, Bus!Send, TheBus!Unregister, TheBus!Send
  <2>2. QED BY <2>1 DEF TheBus!BusActs
<1>4. ASSUME NEW n \in Npcs, NEW e \in Events, React(n, e) PROVE [TheBus!BusActs]_busVars
  <2>1. TheBus!Receive(n, e)
    BY <1>4 DEF React, Bus!Receive, TheBus!Receive
  <2>2. QED BY <2>1 DEF TheBus!BusActs
<1>5. CASE \/ HandleTick \/ HandleStart \/ HandleStop \/ HandleQuery \/ Strike \/ Kill
           \/ Survive \/ EndRound \/ SendTick
  BY <1>5 DEF HandleTick, HandleStart, HandleStop, HandleQuery, Strike, Kill, Survive,
         EndRound, SendTick
<1>6. ASSUME NEW a \in Characters, Reach(a) \/ GiveUp(a) PROVE [TheBus!BusActs]_busVars
  BY <1>6 DEF Reach, GiveUp
<1>7. ASSUME NEW s \in Pcs,
             \/ \E d \in Characters : Attack(s, d)
             \/ GiveIn(s) \/ Ask(s) \/ Finish(s)
      PROVE  [TheBus!BusActs]_busVars
  BY <1>7 DEF Attack, GiveIn, Ask, Finish, HealRead, HealWrite, StayOut
<1>8. ASSUME NEW c \in Characters, Deliver(c) \/ Move(c) \/ SaveRoom(c)
      PROVE  [TheBus!BusActs]_busVars
  BY <1>8 DEF Deliver, Move, SaveRoom
<1>9. CASE Over \/ UNCHANGED vars
  BY <1>9 DEF Over, vars
<1>10. QED
  BY <1>1, <1>2, <1>3, <1>4, <1>5, <1>6, <1>7, <1>8, <1>9 DEF Next, CombatLoop

\* The bus is sound when the server starts, every NPC registered, ...
LEMMA InitTheBus == Init => TheBus!BusInv /\ TheBus!ListenersStayRegistered
<1> SUFFICES ASSUME Init PROVE TheBus!BusInv /\ TheBus!ListenersStayRegistered
  OBVIOUS
<1> USE BusIsSetUp DEF TheBus!BusAssumption
<1>1. TheBus!TypeOK
  BY DEF Init, TheBus!TypeOK
<1>2. TheBus!MessagesAgree
  BY DEF Init, TheBus!MessagesAgree, TheBus!Message
<1>3. TheBus!HeardAtMostOnce
  BY DEF Init, TheBus!HeardAtMostOnce, TheBus!InSlot, TheBus!Message
<1>4. TheBus!TableIsCurrent /\ TheBus!ListenersStayRegistered
  BY DEF Init, TheBus!TableIsCurrent, TheBus!ListenersStayRegistered
<1>5. QED BY <1>1, <1>2, <1>3, <1>4 DEF TheBus!BusInv

\* ... and stays so, whatever combat and the NPCs do.
LEMMA NextTheBus ==
    ASSUME FightsTypes, TheBus!BusInv, TheBus!ListenersStayRegistered, [Next]_vars
    PROVE  TheBus!BusInv' /\ TheBus!ListenersStayRegistered'
<1>1. [TheBus!BusActs]_busVars
  BY NextBusActs
<1>2. [TheBus!BusActs]_(TheBus!busVars)
  BY <1>1 DEF busVars, TheBus!busVars
<1>3. TheBus!BusInv'
  BY <1>2, BusIsSetUp, TheBus!NextBusInv
<1>4. \A g, h \in Npcs : [n \in Npcs |-> n][g] = [n \in Npcs |-> n][h] => g = h
  OBVIOUS
<1>5. TheBus!ListenersStayRegistered'
  BY <1>2, <1>4, BusIsSetUp, TheBus!NextRegistered
<1>6. QED BY <1>3, <1>5

LEMMA BusIsSound == Spec => [](TheBus!BusInv /\ TheBus!ListenersStayRegistered)
<1>1. CombatInv /\ TheBus!BusInv /\ TheBus!ListenersStayRegistered /\ [Next]_vars =>
         TheBus!BusInv' /\ TheBus!ListenersStayRegistered'
  BY NextTheBus DEF CombatInv
<1>2. QED BY <1>1, InitTheBus, CombatInvariant, PTL DEF Spec

\* What EventBus says of its operators is what Combat says of its bus.
LEMMA SameBus ==
    /\ TheBus!TypeOK <=> Bus!TypeOK
    /\ TheBus!HeardAtMostOnce <=> Bus!HeardAtMostOnce
    /\ TheBus!TableIsCurrent <=> Bus!TableIsCurrent
    /\ TheBus!ListenersStayRegistered <=> Bus!ListenersStayRegistered
<1>1. TheBus!TypeOK <=> Bus!TypeOK
  BY DEF TheBus!TypeOK, Bus!TypeOK, TheBus!Message, Bus!Message
<1>2. TheBus!HeardAtMostOnce <=> Bus!HeardAtMostOnce
  BY DEF TheBus!HeardAtMostOnce, Bus!HeardAtMostOnce, TheBus!InSlot, Bus!InSlot
<1>3. TheBus!TableIsCurrent <=> Bus!TableIsCurrent
  BY DEF TheBus!TableIsCurrent, Bus!TableIsCurrent
<1>4. TheBus!ListenersStayRegistered <=> Bus!ListenersStayRegistered
  BY DEF TheBus!ListenersStayRegistered, Bus!ListenersStayRegistered
<1>5. QED BY <1>1, <1>2, <1>3, <1>4

\* Combat and the goroutines of the NPCs are users of the bus like any other:
\* each of their steps is a call of it, a step of its own, or leaves it alone.
THEOREM CombatUsesTheBus == Spec => [][TheBus!BusActs]_busVars
<1>1. CombatInv /\ [Next]_vars => [TheBus!BusActs]_busVars
  BY NextBusActs DEF CombatInv
<1>2. QED BY <1>1, CombatInvariant, PTL DEF Spec

\* So what the bus promises its users it promises them: no NPC hears an event of
\* combat more often than it was broadcast, one whose goroutine has ended is in
\* the table only while its unregister message waits, and a living one is never
\* put out of it (events.go:61-80, engine.go:48-79).
THEOREM BusServesCombat ==
    Spec => [](Bus!HeardAtMostOnce /\ Bus!TableIsCurrent /\ Bus!ListenersStayRegistered)
  BY BusIsSound, SameBus, PTL DEF TheBus!BusInv

\* The types hold when the server starts.
LEMMA InitTypes == Init => TypeOK
<1> SUFFICES ASSUME Init PROVE TypeOK
  OBVIOUS
<1> USE CombatAssumption DEF CombatAssumption
<1>1. FightsTypes
  BY InitCombatInv DEF CombatInv
<1>2. LoopTypes
  BY DEF Init, LoopTypes
<1>3. CallerTypes
  BY DEF Init, CallerTypes
<1>4. WorldTypes
  BY DEF Init, WorldTypes
<1>5. Bus!TypeOK
  BY InitTheBus, SameBus DEF TheBus!BusInv
<1>6. QED BY <1>1, <1>2, <1>3, <1>4, <1>5, TypesAre

\* Every variable keeps its type, the bus's as well.
THEOREM CombatTypes == Spec => []TypeOK
<1>1. CombatInv /\ CombatInv' /\ Bus!TypeOK' /\ TypeOK /\ [Next]_vars => TypeOK'
  <2> SUFFICES ASSUME CombatInv, CombatInv', Bus!TypeOK', TypeOK, [Next]_vars PROVE TypeOK'
    OBVIOUS
  <2>1. FightsTypes /\ FightsTypes' /\ BlowsAreInFights
    BY DEF CombatInv
  <2>2. LoopTypes /\ CallerTypes /\ WorldTypes
    BY TypesAre
  <2>3. LoopTypes' /\ CallerTypes' /\ WorldTypes'
    BY <2>1, <2>2, NextLoopTypes, NextCallerTypes, NextWorldTypes
  <2>4. QED BY <2>1, <2>3, TypesAre DEF TypeOK, FightsTypes, LoopTypes, CallerTypes, WorldTypes
<1>2. Spec => []Bus!TypeOK
  BY BusIsSound, SameBus, PTL DEF TheBus!BusInv
<1>3. QED BY <1>1, <1>2, InitTypes, CombatInvariant, PTL DEF Spec

-----------------------------------------------------------------------------
(* Callers wait for combat, and combat waits for the bus                   *)

\* A query stays in combat's slot until it is answered, and what is in the
\* bus's slot is a message that it takes.
SlotsInv ==
    /\ \A c \in Characters : asking[c] = "sent" => combatMessages = InCombat(c)
    /\ eventMessages # NoMessage => eventMessages.type \in {"unregister", "broadcast"}

BusCanGoOn ==
    eventMessages # NoMessage /\ eventMessages.type \in {"unregister", "broadcast"}

CombatCanGoOn ==
    \/ outbox # << >> /\ eventMessages = NoMessage
    \/ outbox = << >> /\ phase \in {"round", "hit", "check"}
    \/ outbox = << >> /\ phase = "idle" /\ combatMessages # NoMessage

CallerCanGoOn ==
    combatMessages = NoMessage /\ \E c \in Characters : calling[c] # NoMessage

SomebodyWaits ==
    \/ outbox # << >> \/ eventMessages # NoMessage
    \/ \E c \in Characters : calling[c] # NoMessage \/ asking[c] = "sent"

\* The bus takes its message, combat emits, goes on with its round or takes the
\* next message, or a caller sends: never do all of them wait.
SomebodyGoesOn == SomebodyWaits => BusCanGoOn \/ CombatCanGoOn \/ CallerCanGoOn

\* At the start nobody asks, and the slots are empty.
LEMMA InitSlots == Init => SlotsInv
  BY DEF Init, SlotsInv

\* Steps that leave the callers and combat's slot alone.
LEMMA SlotsStay ==
    ASSUME SlotsInv, UNCHANGED <<asking, combatMessages>>,
           \/ UNCHANGED eventMessages \/ eventMessages' = NoMessage
           \/ eventMessages'.type \in {"unregister", "broadcast"}
    PROVE  SlotsInv'
  BY DEF SlotsInv, InCombat

\* Every step keeps it: combat's slot is free before a message is sent, and
\* answering a query is taking it.
LEMMA NextSlots ==
    ASSUME SlotsInv, CombatInv, CallerTypes, [Next]_vars
    PROVE  SlotsInv'
<1>1. CASE \/ Strike \/ Survive \/ EndRound \/ Kill \/ \E a \in Characters : Reach(a) \/ GiveUp(a)
  <2>1. UNCHANGED <<asking, combatMessages, eventMessages>>
    BY <1>1 DEF Strike, Survive, EndRound, Kill, Reach, GiveUp, callerVars, busVars
  <2>2. QED BY <2>1, SlotsStay
<1>2. CASE Emit
  <2>1. UNCHANGED <<asking, combatMessages>> /\ eventMessages'.type = "broadcast"
    BY <1>2 DEF Emit, Bus!Broadcast, Bus!Send, callerVars
  <2>2. QED BY <2>1, SlotsStay
<1>3. CASE BusStep
  <2>1. UNCHANGED <<asking, combatMessages>> /\ eventMessages' = NoMessage
    BY <1>3 DEF BusStep, Bus!HandleUnregister, Bus!HandleBroadcast, Bus!Take, callerVars
  <2>2. QED BY <2>1, SlotsStay
<1>4. ASSUME NEW n \in Npcs, Retire(n) PROVE SlotsInv'
  <2>1. UNCHANGED <<asking, combatMessages>> /\ eventMessages'.type = "unregister"
    BY <1>4 DEF Retire, Bus!Unregister, Bus!Send, callerVars
  <2>2. QED BY <2>1, SlotsStay
<1>5. ASSUME NEW n \in Npcs, NEW e \in Events, React(n, e) PROVE SlotsInv'
  <2>1. UNCHANGED <<asking, combatMessages, eventMessages>>
    BY <1>5 DEF React, Bus!Receive
  <2>2. QED BY <2>1, SlotsStay
<1>6. ASSUME NEW s \in Pcs, NEW d \in Characters,
             Attack(s, d) \/ GiveIn(s) \/ Ask(s) \/ HealWrite(s)
      PROVE  SlotsInv'
  <2>1. UNCHANGED <<asking, combatMessages, eventMessages>>
    BY <1>6 DEF Attack, GiveIn, Ask, HealWrite, busVars
  <2>2. QED BY <2>1, SlotsStay
<1>7. ASSUME NEW c \in Characters, Move(c) \/ SaveRoom(c) PROVE SlotsInv'
  <2>1. UNCHANGED <<asking, combatMessages, eventMessages>>
    BY <1>7 DEF Move, SaveRoom, callerVars, busVars
  <2>2. QED BY <2>1, SlotsStay
<1>8. CASE Over \/ UNCHANGED vars
  <2>1. UNCHANGED <<asking, combatMessages, eventMessages>>
    BY <1>8 DEF Over, vars, callerVars, busVars
  <2>2. QED BY <2>1, SlotsStay
<1>9. ASSUME NEW s \in Pcs, HealRead(s) \/ StayOut(s) PROVE SlotsInv'
  <2>1. /\ UNCHANGED <<combatMessages, eventMessages>>
        /\ asking' = [asking EXCEPT ![s] = "none"]
    BY <1>9 DEF HealRead, StayOut, busVars
  <2>2. QED BY <2>1 DEF SlotsInv, CallerTypes, InCombat
<1>10. CASE HandleTick \/ HandleStart \/ HandleStop
  <2>1. combatMessages.type # "combatQuery" /\ UNCHANGED <<asking, eventMessages>>
    BY <1>10 DEF HandleTick, HandleStart, HandleStop, Take, callerVars, busVars
  <2>2. \A c \in Characters : asking[c] # "sent"
    BY <2>1 DEF SlotsInv, InCombat
  <2>3. QED BY <2>1, <2>2 DEF SlotsInv
<1>11. CASE HandleQuery
  <2> DEFINE c == combatMessages.character
             answer == IF Fighting(c) THEN "yes" ELSE "no"
  <2>1. asking' = [asking EXCEPT ![c] = answer] /\ UNCHANGED eventMessages
    BY <1>11 DEF HandleQuery, busVars
  <2>2. \A b \in Characters : asking[b] = "sent" => b = c
    BY DEF SlotsInv, InCombat
  <2>3. answer # "sent"
    OBVIOUS
  <2> HIDE DEF c, answer
  <2>4. \A b \in Characters : asking'[b] # "sent"
    BY <2>1, <2>2, <2>3 DEF CallerTypes
  <2>5. QED BY <2>1, <2>4 DEF SlotsInv
<1>12. CASE SendTick
  <2>1. combatMessages = NoMessage /\ UNCHANGED <<asking, eventMessages>>
    BY <1>12 DEF SendTick, callerVars, busVars
  <2>2. \A c \in Characters : asking[c] # "sent"
    BY <2>1, RealMessages DEF SlotsInv
  <2>3. QED BY <2>1, <2>2 DEF SlotsInv
<1>13. ASSUME NEW c \in Characters, Deliver(c) PROVE SlotsInv'
  <2>1. /\ combatMessages = NoMessage /\ combatMessages' = calling[c] /\ calling[c] # NoMessage
        /\ asking' = [asking EXCEPT ![c] = IF calling[c].type = "combatQuery" THEN "sent" ELSE "none"]
        /\ UNCHANGED eventMessages
    BY <1>13 DEF Deliver, busVars
  <2>2. \A b \in Characters : asking[b] # "sent"
    BY <2>1, RealMessages DEF SlotsInv
  <2>3. calling[c].type = "combatQuery" => calling[c] = InCombat(c)
    <3>1. \/ calling[c] \in {StopFight(c), InCombat(c)}
          \/ \E d \in Characters : calling[c] = StartFight(c, d)
      BY <2>1 DEF CombatInv, Callers
    <3>2. StopFight(c).type = "combatStop"
      BY DEF StopFight
    <3>3. \A d : StartFight(c, d).type = "combatStart"
      BY DEF StartFight
    <3>4. QED BY <3>1, <3>2, <3>3
  <2>4. QED BY <2>1, <2>2, <2>3 DEF SlotsInv, CallerTypes, InCombat
<1>14. QED
  <2>1. ASSUME NEW s \in Pcs, GiveIn(s) \/ Ask(s) \/ HealWrite(s) PROVE SlotsInv'
    BY <1>6, <2>1 DEF Characters
  <2>2. QED
    BY <1>1, <1>2, <1>3, <1>4, <1>5, <1>6, <1>7, <1>8, <1>9, <1>10, <1>11, <1>12, <1>13, <2>1
       DEF Next, CombatLoop, Finish

\* Callers wait for combat, combat waits for the bus, and the bus for nobody: its
\* deliveries are goroutines of their own.  So the waiting never goes in a circle,
\* although the listeners of the bus are the callers of combat
\* (combat.go:40-52, events.go:47-59, 72-79).
THEOREM SomebodyAlwaysGoesOn == Spec => []SomebodyGoesOn
<1>1. CombatInv /\ TypeOK /\ SlotsInv /\ [Next]_vars => SlotsInv'
  BY NextSlots, TypesAre
<1>2. SlotsInv /\ TypeOK => SomebodyGoesOn
  <2> SUFFICES ASSUME SlotsInv, TypeOK, SomebodyWaits
               PROVE  BusCanGoOn \/ CombatCanGoOn \/ CallerCanGoOn
    BY DEF SomebodyGoesOn
  <2>1. phase \in {"idle", "round", "hit", "check"}
    BY DEF TypeOK
  <2>2. CASE eventMessages # NoMessage
    BY <2>2 DEF SlotsInv, BusCanGoOn
  <2>3. CASE eventMessages = NoMessage /\ (outbox # << >> \/ phase # "idle")
    BY <2>1, <2>3 DEF CombatCanGoOn
  <2>4. CASE eventMessages = NoMessage /\ outbox = << >> /\ phase = "idle"
    <3>1. PICK c \in Characters : calling[c] # NoMessage \/ asking[c] = "sent"
      BY <2>4 DEF SomebodyWaits
    <3>2. asking[c] = "sent" => combatMessages # NoMessage
      BY RealMessages DEF SlotsInv
    <3>3. QED BY <2>4, <3>1, <3>2 DEF CombatCanGoOn, CallerCanGoOn
  <2>5. QED BY <2>2, <2>3, <2>4
<1>3. QED BY <1>1, <1>2, InitSlots, CombatInvariant, CombatTypes, PTL DEF Spec
=============================================================================
