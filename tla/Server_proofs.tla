--------------------------- MODULE Server_proofs ---------------------------
(***************************************************************************)
(* Theorems about Server, for any number of connections, users and         *)
(* characters.                                                             *)
(***************************************************************************)
EXTENDS Server, TLAPS

-----------------------------------------------------------------------------
(* The inductive invariant                                                 *)

\* Where a handler has a user, where it reads nothing, and where it has shown
\* no menu.
Held   == Menus \cup Session \cup
            {"loggedIn", "watching", "deleting", "stuck", "logout", "failed"}
Silent == Session \cup {"gone", "first", "further", "loggedIn", "deleting", "stuck",
                         "logout", "failed", "panicked"}
Blank  == Session \cup {"gone", "main", "password", "newpass", "first", "further",
                         "loggedIn", "stuck", "logout", "failed"}

\* What a handler needs is there: a user, the user it administers, a character.
Positions ==
    \A h \in Conns :
        /\ at[h] \in Held => user[h] \in Users
        /\ at[h] \in {"gone", "main", "password", "newpass", "first", "further"} =>
              user[h] = None
        /\ at[h] \in {"password", "first", "further", "specific", "watching", "deleting"} =>
              target[h] \in Users
        /\ Playing(h) => pc[h] \in Chars
        /\ at[h] \in Silent => source[h] = None

\* What it has shown, or has still to delete.
Offers ==
    \A h \in Conns : \A x \in shown[h] :
        /\ at[h] \in {"delete", "deleting"} => x \in Chars
        /\ at[h] = "users" => x \in Users
        /\ at[h] \notin Blank

\* Whoever holds a user without having been doubled holds it alone, and the
\* user is online.
SoleLogins ==
    /\ \A g, h \in Conns : g # h /\ user[h] # None /\ user[g] = user[h] => user[h] \in doubled
    /\ \A h \in Conns : user[h] # None /\ user[h] \notin doubled => user[h] \in online

\* A handler can play, or plays, character c.
Touches(h, c) == (at[h] = "user" /\ c \in shown[h]) \/ (Playing(h) /\ pc[h] = c)

\* Only handlers of one user ever touch a character.
Claims ==
    /\ \A c \in Chars : owner[c] # None => c \notin spare
    /\ \A h \in Conns, c \in Chars :
          Touches(h, c) => c \notin spare /\ owner[c] \in {user[h], None}
    /\ \A g, h \in Conns, c \in Chars : Touches(g, c) /\ Touches(h, c) => user[g] = user[h]

\* Who has counted before there was a user makes an administrator, even if
\* others have made theirs since; until then nobody has counted a user.
FirstsPending ==
    users = {} /\ ~demoted => \A h \in Conns : at[h] # "further"

\* Connections that can be watched by turns.
Watching ==
    /\ admin \subseteq admins
    /\ \A u \in Users : userConn[u] # None => user[userConn[u]] = u
    /\ \A h \in Conns :
          /\ at[h] \in {"users", "specific", "watching", "deleting"} => user[h] \in admins
          /\ at[h] = "user" => \A u \in shown[h] \cap Users : u \in admins
    /\ \A g, h \in Conns : h \in watchers[g] =>
          at[h] \in {"watching", "panicked", "gone"} /\ user[h] \in admins \cup {None}

\* Nobody's output comes back: among any connections one copies from none of
\* the others.
Acyclic(w) ==
    \A S \in SUBSET Conns : S # {} => \E x \in S : \A y \in S : x \notin w[y]

TwoAdmins == \E a, b \in admins : a # b

Quiet == ~TwoAdmins => Acyclic(watchers) /\ ~overflowed

ServerInv ==
    /\ TypeOK /\ Positions /\ Offers
    /\ SoleLogins /\ SoleLoginOwnsInput /\ OnlineUsersAreHeld
    /\ Claims /\ PlayersHearEvents /\ OnlineCharactersArePlayed
    /\ SomebodyIsAdmin /\ FirstsPending /\ Watching /\ Quiet

\* The steps of a session that move it and its reader only.
SessionCall(h) ==
    \/ Ask(h) \/ Read(h) \/ ReadFails(h) \/ TakeLine(h) \/ Hang(h) \/ TakePanic(h)
    \/ WriteFails(h)

-----------------------------------------------------------------------------
\* Types and positions hold together: a step reads target[h] and user[h].
LEMMA NextPositions ==
    TypeOK /\ Positions /\ Offers /\ [Next]_vars => TypeOK' /\ Positions'
<1> SUFFICES ASSUME TypeOK, Positions, Offers, [Next]_vars
             PROVE  TypeOK' /\ Positions'
    OBVIOUS
<1> USE ServerAssumption DEF TypeOK, Places, Menus, Session, Positions, Held,
        Silent, Playing, Offers, Goto, handlerVars, userVars, charVars, history
<1>1. ASSUME NEW h \in Conns, Accept(h) PROVE TypeOK' /\ Positions'
  BY <1>1 DEF Accept
<1>2. ASSUME NEW h \in Conns, Disconnect(h) PROVE TypeOK' /\ Positions'
  BY <1>2 DEF Disconnect
<1>3. ASSUME NEW h \in Conns, Fail(h) PROVE TypeOK' /\ Positions'
  BY <1>3 DEF Fail
<1>4. ASSUME NEW h \in Conns, End(h) PROVE TypeOK' /\ Positions'
  BY <1>4 DEF End, SetOffline, ReleaseUser, Holders
<1>5. ASSUME NEW h \in Conns, NEW u \in Users, Login(h, u) PROVE TypeOK' /\ Positions'
  BY <1>5 DEF Login
<1>6. ASSUME NEW h \in Conns, NewUser(h) PROVE TypeOK' /\ Positions'
  BY <1>6 DEF NewUser
<1>7. ASSUME NEW h \in Conns, EnterPassword(h) PROVE TypeOK' /\ Positions'
  BY <1>7 DEF EnterPassword, Hold, Holders
<1>8. ASSUME NEW h \in Conns, CreateUser(h) PROVE TypeOK' /\ Positions'
  BY <1>8 DEF CreateUser, Hold, Holders
<1>8a. ASSUME NEW h \in Conns, CountUsers(h) PROVE TypeOK' /\ Positions'
  BY <1>8a DEF CountUsers, IsFirst
<1>9. ASSUME NEW h \in Conns, SetConnection(h) PROVE TypeOK' /\ Positions'
  BY <1>9 DEF SetConnection
<1>10. ASSUME NEW h \in Conns, Prompt(h) PROVE TypeOK' /\ Positions'
  BY <1>10 DEF Prompt, Entries, CharsOf
<1>11. ASSUME NEW h \in Conns, Open(h) \/ Back(h) PROVE TypeOK' /\ Positions'
  <2>1. PICK p \in {"user", "delete", "users"} : at[h] \in Menus /\ Choose(h, at[h], p)
    BY <1>11 DEF Open, Back, Choose, Answered
  <2>2. TypeOK'
    BY <2>1 DEF Choose, Goto, userVars, charVars, history
  <2>3. Positions'
    BY <2>1 DEF Choose, Goto
  <2>4. QED BY <2>2, <2>3
<1>12. ASSUME NEW h \in Conns, LeaveUser(h) PROVE TypeOK' /\ Positions'
  BY <1>12 DEF LeaveUser, Answered, SetOffline, ReleaseUser, Holders
<1>13. ASSUME NEW h \in Conns, NewPlayer(h) PROVE TypeOK' /\ Positions'
  BY <1>13 DEF NewPlayer, Answered
<1>14. ASSUME NEW h \in Conns, DeletePlayer(h) \/ DeleteNext(h) PROVE TypeOK' /\ Positions'
  <2>1. PICK c \in Chars, p \in {"delete", "deleting"} : at[h] = p /\ Delete(h, c, p)
    BY <1>14 DEF DeletePlayer, DeleteNext, Answered
  <2>2. PICK q \in {"delete", "deleting", "panicked"} :
          /\ q \in {at[h], "panicked"}
          /\ at' = [at EXCEPT ![h] = q] /\ source' = [source EXCEPT ![h] = None]
    BY <2>1 DEF Delete, Goto
  <2>3. /\ owner' \in [Chars -> Users \cup {None}]
        /\ shown' \in {shown, [shown EXCEPT ![h] = @ \ {c}]}
    BY <2>1 DEF Delete
  <2>4. UNCHANGED <<up, user, pc, target, reader, watchers, userVars, playing, listener,
                    spare, history>>
    BY <2>1 DEF Delete
  <2>5. TypeOK'
    BY <2>2, <2>3, <2>4 DEF userVars, history
  <2>6. Positions'
    BY <2>1, <2>2, <2>3, <2>4
  <2>7. QED BY <2>5, <2>6
<1>15. ASSUME NEW h \in Conns, NEW u \in Users, SpecificUser(h, u) PROVE TypeOK' /\ Positions'
  BY <1>15 DEF SpecificUser, Answered
<1>16. ASSUME NEW h \in Conns, StartDeleteUser(h) PROVE TypeOK' /\ Positions'
  <2>1. /\ at[h] = "specific" /\ at' = [at EXCEPT ![h] = "deleting"]
        /\ source' = [source EXCEPT ![h] = None]
        /\ shown' = [shown EXCEPT ![h] = CharsOf(target[h])] /\ changes' \in Nat
        /\ UNCHANGED <<user, pc, target>>
    BY <1>16 DEF StartDeleteUser, Answered, Change, Goto
  <2>2. TypeOK'
    BY <1>16, <2>1 DEF StartDeleteUser, CharsOf, userVars, charVars
  <2>3. Positions'
    BY <2>1 DEF CharsOf
  <2>4. QED BY <2>2, <2>3
<1>17. ASSUME NEW h \in Conns, DeleteUser(h) PROVE TypeOK' /\ Positions'
  BY <1>17 DEF DeleteUser
<1>18. ASSUME NEW h \in Conns, ToggleAdmin(h) PROVE TypeOK' /\ Positions'
  <2>1. ASSUME target[h] \in users PROVE TypeOK'
    BY <1>18, <2>1 DEF ToggleAdmin, Answered, Change
  <2>2. ASSUME target[h] \in users PROVE Positions'
    BY <1>18, <2>2 DEF ToggleAdmin, Answered, Change
  <2>3. ASSUME target[h] \notin users PROVE TypeOK'
    BY <1>18, <2>3 DEF ToggleAdmin, Answered, Change
  <2>4. ASSUME target[h] \notin users PROVE Positions'
    BY <1>18, <2>4 DEF ToggleAdmin, Answered, Change
  <2>5. QED BY <2>1, <2>2, <2>3, <2>4
<1>19. ASSUME NEW h \in Conns, Watch(h) PROVE TypeOK' /\ Positions'
  <2>1. CASE Overflow
    BY <2>1 DEF Overflow
  <2>2. CASE ~Overflow
    <3>1. PICK q \in {"watching", "panicked"} :
            /\ at[h] = "specific" /\ at' = [at EXCEPT ![h] = q]
            /\ source' = [source EXCEPT ![h] = IF q = "watching" THEN h ELSE None]
            /\ shown' \in {shown, [shown EXCEPT ![h] = {}]}
            /\ UNCHANGED <<up, user, pc, target, reader, userVars, charVars, spare, history>>
      BY <1>19, <2>2 DEF Watch, Answered, Goto
    <3>2. watchers' \in [Conns -> SUBSET Conns]
      BY <1>19, <2>2 DEF Watch
    <3>3. TypeOK'
      BY <3>1, <3>2 DEF userVars, charVars, history
    <3>4. Positions'
      BY <3>1
    <3>5. QED BY <3>3, <3>4
  <2>3. QED BY <2>1, <2>2
<1>20. ASSUME NEW h \in Conns, StopWatching(h) PROVE TypeOK' /\ Positions'
  BY <1>20 DEF StopWatching
<1>21. ASSUME NEW h \in Conns, NEW c \in Chars, Launch(h, c) PROVE TypeOK' /\ Positions'
  BY <1>21 DEF Launch, Register, Answered
<1>22. ASSUME NEW h \in Conns, SessionCall(h) PROVE TypeOK' /\ Positions'
  <2>1. PICK p \in Places, r \in {"none", "idle", "reading", "line", "failed"} :
          /\ SessionStep(h, p, r)
          /\ \/ p = at[h]
             \/ at[h] \in Session /\ p \in Session \cup {"stuck", "logout", "failed"}
    <3>1. CASE Ask(h) \/ TakeLine(h) \/ Hang(h)
      BY <1>22, <3>1 DEF Ask, TakeLine, Hang
    <3>2. CASE Read(h) \/ ReadFails(h)
      BY <1>22, <3>2 DEF Read, ReadFails
    <3>3. CASE TakePanic(h) \/ WriteFails(h)
      BY <1>22, <3>3 DEF TakePanic, WriteFails
    <3>4. QED BY <1>22, <3>1, <3>2, <3>3 DEF SessionCall
  <2>2. TypeOK'
    BY <2>1 DEF SessionStep
  <2>3. Positions'
    BY <2>1 DEF SessionStep
  <2>4. QED BY <2>2, <2>3
<1>23. ASSUME NEW h \in Conns, Leave(h) PROVE TypeOK' /\ Positions'
  <2>1. PICK q \in {"user", "panicked"} :
          /\ at[h] \in {"logout", "failed"} /\ at' = [at EXCEPT ![h] = q]
          /\ source' = [source EXCEPT ![h] = None]
          /\ pc' \in {pc, [pc EXCEPT ![h] = None]} /\ UNCHANGED <<user, target>>
    BY <1>23 DEF Leave
  <2>2. TypeOK'
    BY <1>23, <2>1 DEF Leave, Logout
  <2>3. Positions'
    BY <2>1
  <2>4. QED BY <2>2, <2>3
<1>24. CASE UNCHANGED vars
  BY <1>24 DEF vars
<1>25. QED
  BY <1>1, <1>2, <1>3, <1>4, <1>5, <1>6, <1>7, <1>8, <1>8a, <1>9, <1>10, <1>11, <1>12, <1>13, <1>14, <1>15, <1>16, <1>17, <1>18, <1>19, <1>20, <1>21, <1>22, <1>23, <1>24
     DEF Next, HandlerStep, ClientStep, Recover, Quit, SessionCall

\* A menu shows objects of its kind.
LEMMA NextOffers ==
    TypeOK /\ Positions /\ Offers /\ [Next]_vars => Offers'
<1> SUFFICES ASSUME TypeOK, Positions, Offers, [Next]_vars
             PROVE  Offers'
    OBVIOUS
<1> USE ServerAssumption DEF TypeOK, Places, Menus, Session, Positions, Held,
        Silent, Playing, Offers, Blank, Goto, handlerVars, userVars, charVars,
        history
<1>1. ASSUME NEW h \in Conns, Accept(h) PROVE Offers'
  BY <1>1 DEF Accept
<1>2. ASSUME NEW h \in Conns, Disconnect(h) PROVE Offers'
  BY <1>2 DEF Disconnect
<1>3. ASSUME NEW h \in Conns, Fail(h) PROVE Offers'
  BY <1>3 DEF Fail
<1>4. ASSUME NEW h \in Conns, End(h) PROVE Offers'
  BY <1>4 DEF End, SetOffline, ReleaseUser, Holders
<1>5. ASSUME NEW h \in Conns, NEW u \in Users, Login(h, u) PROVE Offers'
  BY <1>5 DEF Login
<1>6. ASSUME NEW h \in Conns, NewUser(h) PROVE Offers'
  BY <1>6 DEF NewUser
<1>7. ASSUME NEW h \in Conns, EnterPassword(h) PROVE Offers'
  BY <1>7 DEF EnterPassword, Hold, Holders
<1>8. ASSUME NEW h \in Conns, CreateUser(h) PROVE Offers'
  BY <1>8 DEF CreateUser, Hold, Holders
<1>8a. ASSUME NEW h \in Conns, CountUsers(h) PROVE Offers'
  BY <1>8a DEF CountUsers, IsFirst
<1>9. ASSUME NEW h \in Conns, SetConnection(h) PROVE Offers'
  BY <1>9 DEF SetConnection
<1>10. ASSUME NEW h \in Conns, Prompt(h) PROVE Offers'
  BY <1>10 DEF Prompt, Entries, CharsOf
<1>11. ASSUME NEW h \in Conns, Open(h) \/ Back(h) PROVE Offers'
  BY <1>11 DEF Open, Back, Choose, Answered
<1>12. ASSUME NEW h \in Conns, LeaveUser(h) PROVE Offers'
  BY <1>12 DEF LeaveUser, Answered, SetOffline, ReleaseUser, Holders
<1>13. ASSUME NEW h \in Conns, NewPlayer(h) PROVE Offers'
  BY <1>13 DEF NewPlayer, Answered
<1>14. ASSUME NEW h \in Conns, DeletePlayer(h) \/ DeleteNext(h) PROVE Offers'
  BY <1>14 DEF DeletePlayer, DeleteNext, Delete, Answered
<1>15. ASSUME NEW h \in Conns, NEW u \in Users, SpecificUser(h, u) PROVE Offers'
  BY <1>15 DEF SpecificUser, Answered
<1>16. ASSUME NEW h \in Conns, StartDeleteUser(h) PROVE Offers'
  BY <1>16 DEF StartDeleteUser, Answered, Change, CharsOf
<1>17. ASSUME NEW h \in Conns, DeleteUser(h) PROVE Offers'
  BY <1>17 DEF DeleteUser
<1>18. ASSUME NEW h \in Conns, ToggleAdmin(h) PROVE Offers'
  BY <1>18 DEF ToggleAdmin, Answered, Change
<1>19. ASSUME NEW h \in Conns, Watch(h) PROVE Offers'
  BY <1>19 DEF Watch, Overflow, Answered
<1>20. ASSUME NEW h \in Conns, StopWatching(h) PROVE Offers'
  BY <1>20 DEF StopWatching
<1>21. ASSUME NEW h \in Conns, NEW c \in Chars, Launch(h, c) PROVE Offers'
  BY <1>21 DEF Launch, Register, Answered
<1>22. ASSUME NEW h \in Conns, SessionCall(h) PROVE Offers'
  BY <1>22 DEF SessionCall, Ask, Read, ReadFails, TakeLine, Hang, TakePanic, WriteFails,
     SessionStep
<1>23. ASSUME NEW h \in Conns, Leave(h) PROVE Offers'
  BY <1>23 DEF Leave, Logout
<1>24. CASE UNCHANGED vars
  BY <1>24 DEF vars
<1>25. QED
  BY <1>1, <1>2, <1>3, <1>4, <1>5, <1>6, <1>7, <1>8, <1>8a, <1>9, <1>10, <1>11, <1>12, <1>13, <1>14, <1>15, <1>16, <1>17, <1>18, <1>19, <1>20, <1>21, <1>22, <1>23, <1>24
     DEF Next, HandlerStep, ClientStep, Recover, Quit, SessionCall

\* A login that is the only one of its user stays the owner of its connection.
LEMMA NextLogins ==
    TypeOK /\ Positions /\ SoleLogins /\ SoleLoginOwnsInput /\ [Next]_vars => SoleLogins' /\ SoleLoginOwnsInput'
<1> SUFFICES ASSUME TypeOK, Positions, SoleLogins, SoleLoginOwnsInput, [Next]_vars
             PROVE  SoleLogins' /\ SoleLoginOwnsInput'
    OBVIOUS
<1> USE ServerAssumption DEF TypeOK, Places, Menus, Session, Positions, Held,
        Silent, Playing, SoleLogins, SoleLoginOwnsInput, Goto, handlerVars,
        userVars, charVars, history
<1>1. ASSUME NEW h \in Conns, Accept(h) PROVE SoleLogins' /\ SoleLoginOwnsInput'
  BY <1>1 DEF Accept
<1>2. ASSUME NEW h \in Conns, Disconnect(h) PROVE SoleLogins' /\ SoleLoginOwnsInput'
  BY <1>2 DEF Disconnect
<1>3. ASSUME NEW h \in Conns, Fail(h) PROVE SoleLogins' /\ SoleLoginOwnsInput'
  BY <1>3 DEF Fail
<1>4. ASSUME NEW h \in Conns, End(h) PROVE SoleLogins' /\ SoleLoginOwnsInput'
  BY <1>4 DEF End, SetOffline, ReleaseUser, Holders
<1>5. ASSUME NEW h \in Conns, NEW u \in Users, Login(h, u) PROVE SoleLogins' /\ SoleLoginOwnsInput'
  BY <1>5 DEF Login
<1>6. ASSUME NEW h \in Conns, NewUser(h) PROVE SoleLogins' /\ SoleLoginOwnsInput'
  BY <1>6 DEF NewUser
<1>7. ASSUME NEW h \in Conns, EnterPassword(h) PROVE SoleLogins' /\ SoleLoginOwnsInput'
  BY <1>7 DEF EnterPassword, Hold, Holders
<1>8. ASSUME NEW h \in Conns, CreateUser(h) PROVE SoleLogins' /\ SoleLoginOwnsInput'
  BY <1>8 DEF CreateUser, Hold, Holders
<1>8a. ASSUME NEW h \in Conns, CountUsers(h) PROVE SoleLogins' /\ SoleLoginOwnsInput'
  BY <1>8a DEF CountUsers, IsFirst
<1>9. ASSUME NEW h \in Conns, SetConnection(h) PROVE SoleLogins' /\ SoleLoginOwnsInput'
  BY <1>9 DEF SetConnection
<1>10. ASSUME NEW h \in Conns, Prompt(h) PROVE SoleLogins' /\ SoleLoginOwnsInput'
  BY <1>10 DEF Prompt, Entries, CharsOf
<1>11. ASSUME NEW h \in Conns, Open(h) \/ Back(h) PROVE SoleLogins' /\ SoleLoginOwnsInput'
  BY <1>11 DEF Open, Back, Choose, Answered
<1>12. ASSUME NEW h \in Conns, LeaveUser(h) PROVE SoleLogins' /\ SoleLoginOwnsInput'
  BY <1>12 DEF LeaveUser, Answered, SetOffline, ReleaseUser, Holders
<1>13. ASSUME NEW h \in Conns, NewPlayer(h) PROVE SoleLogins' /\ SoleLoginOwnsInput'
  BY <1>13 DEF NewPlayer, Answered
<1>14. ASSUME NEW h \in Conns, DeletePlayer(h) \/ DeleteNext(h) PROVE SoleLogins' /\ SoleLoginOwnsInput'
  BY <1>14 DEF DeletePlayer, DeleteNext, Delete, Answered
<1>15. ASSUME NEW h \in Conns, NEW u \in Users, SpecificUser(h, u) PROVE SoleLogins' /\ SoleLoginOwnsInput'
  BY <1>15 DEF SpecificUser, Answered
<1>16. ASSUME NEW h \in Conns, StartDeleteUser(h) PROVE SoleLogins' /\ SoleLoginOwnsInput'
  BY <1>16 DEF StartDeleteUser, Answered, Change, CharsOf
<1>17. ASSUME NEW h \in Conns, DeleteUser(h) PROVE SoleLogins' /\ SoleLoginOwnsInput'
  BY <1>17 DEF DeleteUser
<1>18. ASSUME NEW h \in Conns, ToggleAdmin(h) PROVE SoleLogins' /\ SoleLoginOwnsInput'
  BY <1>18 DEF ToggleAdmin, Answered, Change
<1>19. ASSUME NEW h \in Conns, Watch(h) PROVE SoleLogins' /\ SoleLoginOwnsInput'
  BY <1>19 DEF Watch, Overflow, Answered
<1>20. ASSUME NEW h \in Conns, StopWatching(h) PROVE SoleLogins' /\ SoleLoginOwnsInput'
  BY <1>20 DEF StopWatching
<1>21. ASSUME NEW h \in Conns, NEW c \in Chars, Launch(h, c) PROVE SoleLogins' /\ SoleLoginOwnsInput'
  BY <1>21 DEF Launch, Register, Answered
<1>22. ASSUME NEW h \in Conns, SessionCall(h) PROVE SoleLogins' /\ SoleLoginOwnsInput'
  BY <1>22 DEF SessionCall, Ask, Read, ReadFails, TakeLine, Hang, TakePanic, WriteFails,
     SessionStep
<1>23. ASSUME NEW h \in Conns, Leave(h) PROVE SoleLogins' /\ SoleLoginOwnsInput'
  BY <1>23 DEF Leave, Logout
<1>24. CASE UNCHANGED vars
  BY <1>24 DEF vars
<1>25. QED
  BY <1>1, <1>2, <1>3, <1>4, <1>5, <1>6, <1>7, <1>8, <1>8a, <1>9, <1>10, <1>11, <1>12, <1>13, <1>14, <1>15, <1>16, <1>17, <1>18, <1>19, <1>20, <1>21, <1>22, <1>23, <1>24
     DEF Next, HandlerStep, ClientStep, Recover, Quit, SessionCall

\* A user leaves a handler only to go offline.
LEMMA NextHeld ==
    TypeOK /\ Positions /\ OnlineUsersAreHeld /\ [Next]_vars => OnlineUsersAreHeld'
<1> SUFFICES ASSUME TypeOK, Positions, OnlineUsersAreHeld, [Next]_vars
             PROVE  OnlineUsersAreHeld'
    OBVIOUS
<1> USE ServerAssumption DEF TypeOK, Places, Menus, Session, Positions, Held,
        Silent, Playing, OnlineUsersAreHeld, Holders, Goto, handlerVars, userVars,
        charVars, history
<1>1. ASSUME NEW h \in Conns, Accept(h) PROVE OnlineUsersAreHeld'
  BY <1>1 DEF Accept
<1>2. ASSUME NEW h \in Conns, Disconnect(h) PROVE OnlineUsersAreHeld'
  BY <1>2 DEF Disconnect
<1>3. ASSUME NEW h \in Conns, Fail(h) PROVE OnlineUsersAreHeld'
  BY <1>3 DEF Fail
<1>4. ASSUME NEW h \in Conns, End(h) PROVE OnlineUsersAreHeld'
  BY <1>4 DEF End, SetOffline, ReleaseUser, Holders
<1>5. ASSUME NEW h \in Conns, NEW u \in Users, Login(h, u) PROVE OnlineUsersAreHeld'
  BY <1>5 DEF Login
<1>6. ASSUME NEW h \in Conns, NewUser(h) PROVE OnlineUsersAreHeld'
  BY <1>6 DEF NewUser
<1>7. ASSUME NEW h \in Conns, EnterPassword(h) PROVE OnlineUsersAreHeld'
  BY <1>7 DEF EnterPassword, Hold, Holders
<1>8. ASSUME NEW h \in Conns, CreateUser(h) PROVE OnlineUsersAreHeld'
  BY <1>8 DEF CreateUser, Hold, Holders
<1>8a. ASSUME NEW h \in Conns, CountUsers(h) PROVE OnlineUsersAreHeld'
  BY <1>8a DEF CountUsers, IsFirst
<1>9. ASSUME NEW h \in Conns, SetConnection(h) PROVE OnlineUsersAreHeld'
  BY <1>9 DEF SetConnection
<1>10. ASSUME NEW h \in Conns, Prompt(h) PROVE OnlineUsersAreHeld'
  BY <1>10 DEF Prompt, Entries, CharsOf
<1>11. ASSUME NEW h \in Conns, Open(h) \/ Back(h) PROVE OnlineUsersAreHeld'
  BY <1>11 DEF Open, Back, Choose, Answered
<1>12. ASSUME NEW h \in Conns, LeaveUser(h) PROVE OnlineUsersAreHeld'
  BY <1>12 DEF LeaveUser, Answered, SetOffline, ReleaseUser, Holders
<1>13. ASSUME NEW h \in Conns, NewPlayer(h) PROVE OnlineUsersAreHeld'
  BY <1>13 DEF NewPlayer, Answered
<1>14. ASSUME NEW h \in Conns, DeletePlayer(h) \/ DeleteNext(h) PROVE OnlineUsersAreHeld'
  BY <1>14 DEF DeletePlayer, DeleteNext, Delete, Answered
<1>15. ASSUME NEW h \in Conns, NEW u \in Users, SpecificUser(h, u) PROVE OnlineUsersAreHeld'
  BY <1>15 DEF SpecificUser, Answered
<1>16. ASSUME NEW h \in Conns, StartDeleteUser(h) PROVE OnlineUsersAreHeld'
  BY <1>16 DEF StartDeleteUser, Answered, Change, CharsOf
<1>17. ASSUME NEW h \in Conns, DeleteUser(h) PROVE OnlineUsersAreHeld'
  BY <1>17 DEF DeleteUser
<1>18. ASSUME NEW h \in Conns, ToggleAdmin(h) PROVE OnlineUsersAreHeld'
  BY <1>18 DEF ToggleAdmin, Answered, Change
<1>19. ASSUME NEW h \in Conns, Watch(h) PROVE OnlineUsersAreHeld'
  BY <1>19 DEF Watch, Overflow, Answered
<1>20. ASSUME NEW h \in Conns, StopWatching(h) PROVE OnlineUsersAreHeld'
  BY <1>20 DEF StopWatching
<1>21. ASSUME NEW h \in Conns, NEW c \in Chars, Launch(h, c) PROVE OnlineUsersAreHeld'
  BY <1>21 DEF Launch, Register, Answered
<1>22. ASSUME NEW h \in Conns, SessionCall(h) PROVE OnlineUsersAreHeld'
  BY <1>22 DEF SessionCall, Ask, Read, ReadFails, TakeLine, Hang, TakePanic, WriteFails,
     SessionStep
<1>23. ASSUME NEW h \in Conns, Leave(h) PROVE OnlineUsersAreHeld'
  BY <1>23 DEF Leave, Logout
<1>24. CASE UNCHANGED vars
  BY <1>24 DEF vars
<1>25. QED
  BY <1>1, <1>2, <1>3, <1>4, <1>5, <1>6, <1>7, <1>8, <1>8a, <1>9, <1>10, <1>11, <1>12, <1>13, <1>14, <1>15, <1>16, <1>17, <1>18, <1>19, <1>20, <1>21, <1>22, <1>23, <1>24
     DEF Next, HandlerStep, ClientStep, Recover, Quit, SessionCall

\* A step that hands no character out leaves the claims alone.
LEMMA ClaimsRemain ==
    ASSUME TypeOK, Claims, user' = user, spare' = spare,
           \A c \in Chars : owner'[c] \in {owner[c], None},
           \A g \in Conns, c \in Chars : Touches(g, c)' => Touches(g, c)
    PROVE  Claims'
  BY DEF Claims, TypeOK

\* A character is never handed to another user.
LEMMA NextClaims ==
    TypeOK /\ Positions /\ Offers /\ Claims /\ [Next]_vars => Claims'
<1> SUFFICES ASSUME TypeOK, Positions, Offers, Claims, [Next]_vars
             PROVE  Claims'
    OBVIOUS
<1> USE ServerAssumption DEF TypeOK, Places, Menus, Session, Positions, Held,
        Silent, Playing, Offers, Blank, Claims, Touches, Goto, handlerVars,
        userVars, charVars, history
<1>1. ASSUME NEW h \in Conns, Accept(h) PROVE Claims'
  BY <1>1 DEF Accept
<1>2. ASSUME NEW h \in Conns, Disconnect(h) PROVE Claims'
  BY <1>2 DEF Disconnect
<1>3. ASSUME NEW h \in Conns, Fail(h) PROVE Claims'
  BY <1>3 DEF Fail
<1>4. ASSUME NEW h \in Conns, End(h) PROVE Claims'
  BY <1>4 DEF End, SetOffline, ReleaseUser, Holders
<1>5. ASSUME NEW h \in Conns, NEW u \in Users, Login(h, u) PROVE Claims'
  BY <1>5 DEF Login
<1>6. ASSUME NEW h \in Conns, NewUser(h) PROVE Claims'
  BY <1>6 DEF NewUser
<1>7. ASSUME NEW h \in Conns, EnterPassword(h) PROVE Claims'
  BY <1>7 DEF EnterPassword, Hold, Holders
<1>8. ASSUME NEW h \in Conns, CreateUser(h) PROVE Claims'
  BY <1>8 DEF CreateUser, Hold, Holders
<1>8a. ASSUME NEW h \in Conns, CountUsers(h) PROVE Claims'
  BY <1>8a DEF CountUsers, IsFirst
<1>9. ASSUME NEW h \in Conns, SetConnection(h) PROVE Claims'
  BY <1>9 DEF SetConnection
<1>10. ASSUME NEW h \in Conns, Prompt(h) PROVE Claims'
  BY <1>10 DEF Prompt, Entries, CharsOf
<1>11. ASSUME NEW h \in Conns, Open(h) \/ Back(h) PROVE Claims'
  <2>1. \A g \in Conns, c \in Chars : Touches(g, c)' => Touches(g, c)
    BY <1>11 DEF Open, Back, Choose, Answered
  <2>2. user' = user /\ spare' = spare /\ \A c \in Chars : owner'[c] \in {owner[c], None}
    BY <1>11 DEF Open, Back, Choose, Answered
  <2>3. QED BY <2>1, <2>2, ClaimsRemain
<1>12. ASSUME NEW h \in Conns, LeaveUser(h) PROVE Claims'
  BY <1>12 DEF LeaveUser, Answered, SetOffline, ReleaseUser, Holders
<1>13. ASSUME NEW h \in Conns, NewPlayer(h) PROVE Claims'
  BY <1>13 DEF NewPlayer, Answered
<1>14. ASSUME NEW h \in Conns, DeletePlayer(h) \/ DeleteNext(h) PROVE Claims'
  <2>1. \A g \in Conns, c \in Chars : Touches(g, c)' => Touches(g, c)
    BY <1>14 DEF DeletePlayer, DeleteNext, Delete, Answered
  <2>2. user' = user /\ spare' = spare /\ \A c \in Chars : owner'[c] \in {owner[c], None}
    BY <1>14 DEF DeletePlayer, DeleteNext, Delete, Answered
  <2>3. QED BY <2>1, <2>2, ClaimsRemain
<1>15. ASSUME NEW h \in Conns, NEW u \in Users, SpecificUser(h, u) PROVE Claims'
  BY <1>15 DEF SpecificUser, Answered
<1>16. ASSUME NEW h \in Conns, StartDeleteUser(h) PROVE Claims'
  BY <1>16 DEF StartDeleteUser, Answered, Change, CharsOf
<1>17. ASSUME NEW h \in Conns, DeleteUser(h) PROVE Claims'
  BY <1>17 DEF DeleteUser
<1>18. ASSUME NEW h \in Conns, ToggleAdmin(h) PROVE Claims'
  BY <1>18 DEF ToggleAdmin, Answered, Change
<1>19. ASSUME NEW h \in Conns, Watch(h) PROVE Claims'
  <2>1. CASE Overflow
    BY <2>1 DEF Overflow
  <2>2. CASE ~Overflow
    <3>1. \A g \in Conns, c \in Chars : Touches(g, c)' => Touches(g, c)
      BY <1>19, <2>2 DEF Watch, Answered, Goto
    <3>2. user' = user /\ spare' = spare /\ owner' = owner
      BY <1>19, <2>2 DEF Watch, charVars
    <3>3. QED BY <3>1, <3>2, ClaimsRemain
  <2>3. QED BY <2>1, <2>2
<1>20. ASSUME NEW h \in Conns, StopWatching(h) PROVE Claims'
  BY <1>20 DEF StopWatching
<1>21. ASSUME NEW h \in Conns, NEW c \in Chars, Launch(h, c) PROVE Claims'
  BY <1>21 DEF Launch, Register, Answered
<1>22. ASSUME NEW h \in Conns, SessionCall(h) PROVE Claims'
  BY <1>22 DEF SessionCall, Ask, Read, ReadFails, TakeLine, Hang, TakePanic, WriteFails,
     SessionStep
<1>23. ASSUME NEW h \in Conns, Leave(h) PROVE Claims'
  <2>1. \A g \in Conns, c \in Chars : Touches(g, c)' => Touches(g, c)
    BY <1>23 DEF Leave, Logout
  <2>2. user' = user /\ spare' = spare /\ \A c \in Chars : owner'[c] \in {owner[c], None}
    BY <1>23 DEF Leave, Logout
  <2>3. QED BY <2>1, <2>2, ClaimsRemain
<1>24. CASE UNCHANGED vars
  BY <1>24 DEF vars
<1>25. QED
  BY <1>1, <1>2, <1>3, <1>4, <1>5, <1>6, <1>7, <1>8, <1>8a, <1>9, <1>10, <1>11, <1>12, <1>13, <1>14, <1>15, <1>16, <1>17, <1>18, <1>19, <1>20, <1>21, <1>22, <1>23, <1>24
     DEF Next, HandlerStep, ClientStep, Recover, Quit, SessionCall

\* Only a session of the same user can take a character's entry.
LEMMA NextHears ==
    TypeOK /\ Positions /\ SoleLogins /\ Claims /\ PlayersHearEvents /\ [Next]_vars => PlayersHearEvents'
<1> SUFFICES ASSUME TypeOK, Positions, SoleLogins, Claims, PlayersHearEvents, [Next]_vars
             PROVE  PlayersHearEvents'
    OBVIOUS
<1> USE ServerAssumption DEF TypeOK, Places, Menus, Session, Positions, Held,
        Silent, Playing, SoleLogins, Claims, Touches, PlayersHearEvents, Goto,
        handlerVars, userVars, charVars, history
<1>1. ASSUME NEW h \in Conns, Accept(h) PROVE PlayersHearEvents'
  BY <1>1 DEF Accept
<1>2. ASSUME NEW h \in Conns, Disconnect(h) PROVE PlayersHearEvents'
  BY <1>2 DEF Disconnect
<1>3. ASSUME NEW h \in Conns, Fail(h) PROVE PlayersHearEvents'
  BY <1>3 DEF Fail
<1>4. ASSUME NEW h \in Conns, End(h) PROVE PlayersHearEvents'
  BY <1>4 DEF End, SetOffline, ReleaseUser, Holders
<1>5. ASSUME NEW h \in Conns, NEW u \in Users, Login(h, u) PROVE PlayersHearEvents'
  BY <1>5 DEF Login
<1>6. ASSUME NEW h \in Conns, NewUser(h) PROVE PlayersHearEvents'
  BY <1>6 DEF NewUser
<1>7. ASSUME NEW h \in Conns, EnterPassword(h) PROVE PlayersHearEvents'
  BY <1>7 DEF EnterPassword, Hold, Holders
<1>8. ASSUME NEW h \in Conns, CreateUser(h) PROVE PlayersHearEvents'
  BY <1>8 DEF CreateUser, Hold, Holders
<1>8a. ASSUME NEW h \in Conns, CountUsers(h) PROVE PlayersHearEvents'
  BY <1>8a DEF CountUsers, IsFirst
<1>9. ASSUME NEW h \in Conns, SetConnection(h) PROVE PlayersHearEvents'
  BY <1>9 DEF SetConnection
<1>10. ASSUME NEW h \in Conns, Prompt(h) PROVE PlayersHearEvents'
  BY <1>10 DEF Prompt, Entries, CharsOf
<1>11. ASSUME NEW h \in Conns, Open(h) \/ Back(h) PROVE PlayersHearEvents'
  BY <1>11 DEF Open, Back, Choose, Answered
<1>12. ASSUME NEW h \in Conns, LeaveUser(h) PROVE PlayersHearEvents'
  BY <1>12 DEF LeaveUser, Answered, SetOffline, ReleaseUser, Holders
<1>13. ASSUME NEW h \in Conns, NewPlayer(h) PROVE PlayersHearEvents'
  BY <1>13 DEF NewPlayer, Answered
<1>14. ASSUME NEW h \in Conns, DeletePlayer(h) \/ DeleteNext(h) PROVE PlayersHearEvents'
  BY <1>14 DEF DeletePlayer, DeleteNext, Delete, Answered
<1>15. ASSUME NEW h \in Conns, NEW u \in Users, SpecificUser(h, u) PROVE PlayersHearEvents'
  BY <1>15 DEF SpecificUser, Answered
<1>16. ASSUME NEW h \in Conns, StartDeleteUser(h) PROVE PlayersHearEvents'
  BY <1>16 DEF StartDeleteUser, Answered, Change, CharsOf
<1>17. ASSUME NEW h \in Conns, DeleteUser(h) PROVE PlayersHearEvents'
  BY <1>17 DEF DeleteUser
<1>18. ASSUME NEW h \in Conns, ToggleAdmin(h) PROVE PlayersHearEvents'
  BY <1>18 DEF ToggleAdmin, Answered, Change
<1>19. ASSUME NEW h \in Conns, Watch(h) PROVE PlayersHearEvents'
  BY <1>19 DEF Watch, Overflow, Answered
<1>20. ASSUME NEW h \in Conns, StopWatching(h) PROVE PlayersHearEvents'
  BY <1>20 DEF StopWatching
<1>21. ASSUME NEW h \in Conns, NEW c \in Chars, Launch(h, c) PROVE PlayersHearEvents'
  BY <1>21 DEF Launch, Register, Answered
<1>22. ASSUME NEW h \in Conns, SessionCall(h) PROVE PlayersHearEvents'
  BY <1>22 DEF SessionCall, Ask, Read, ReadFails, TakeLine, Hang, TakePanic, WriteFails,
     SessionStep
<1>23. ASSUME NEW h \in Conns, Leave(h) PROVE PlayersHearEvents'
  BY <1>23 DEF Leave, Logout
<1>24. CASE UNCHANGED vars
  BY <1>24 DEF vars
<1>25. QED
  BY <1>1, <1>2, <1>3, <1>4, <1>5, <1>6, <1>7, <1>8, <1>8a, <1>9, <1>10, <1>11, <1>12, <1>13, <1>14, <1>15, <1>16, <1>17, <1>18, <1>19, <1>20, <1>21, <1>22, <1>23, <1>24
     DEF Next, HandlerStep, ClientStep, Recover, Quit, SessionCall

\* A character is taken out of its room when its session ends.
LEMMA NextPlayed ==
    TypeOK /\ Positions /\ OnlineCharactersArePlayed /\ [Next]_vars => OnlineCharactersArePlayed'
<1> SUFFICES ASSUME TypeOK, Positions, OnlineCharactersArePlayed, [Next]_vars
             PROVE  OnlineCharactersArePlayed'
    OBVIOUS
<1> USE ServerAssumption DEF TypeOK, Places, Menus, Session, Positions, Held,
        Silent, Playing, OnlineCharactersArePlayed, Goto, handlerVars, userVars,
        charVars, history
<1>1. ASSUME NEW h \in Conns, Accept(h) PROVE OnlineCharactersArePlayed'
  BY <1>1 DEF Accept
<1>2. ASSUME NEW h \in Conns, Disconnect(h) PROVE OnlineCharactersArePlayed'
  BY <1>2 DEF Disconnect
<1>3. ASSUME NEW h \in Conns, Fail(h) PROVE OnlineCharactersArePlayed'
  BY <1>3 DEF Fail
<1>4. ASSUME NEW h \in Conns, End(h) PROVE OnlineCharactersArePlayed'
  BY <1>4 DEF End, SetOffline, ReleaseUser, Holders
<1>5. ASSUME NEW h \in Conns, NEW u \in Users, Login(h, u) PROVE OnlineCharactersArePlayed'
  BY <1>5 DEF Login
<1>6. ASSUME NEW h \in Conns, NewUser(h) PROVE OnlineCharactersArePlayed'
  BY <1>6 DEF NewUser
<1>7. ASSUME NEW h \in Conns, EnterPassword(h) PROVE OnlineCharactersArePlayed'
  BY <1>7 DEF EnterPassword, Hold, Holders
<1>8. ASSUME NEW h \in Conns, CreateUser(h) PROVE OnlineCharactersArePlayed'
  BY <1>8 DEF CreateUser, Hold, Holders
<1>8a. ASSUME NEW h \in Conns, CountUsers(h) PROVE OnlineCharactersArePlayed'
  BY <1>8a DEF CountUsers, IsFirst
<1>9. ASSUME NEW h \in Conns, SetConnection(h) PROVE OnlineCharactersArePlayed'
  BY <1>9 DEF SetConnection
<1>10. ASSUME NEW h \in Conns, Prompt(h) PROVE OnlineCharactersArePlayed'
  BY <1>10 DEF Prompt, Entries, CharsOf
<1>11. ASSUME NEW h \in Conns, Open(h) \/ Back(h) PROVE OnlineCharactersArePlayed'
  BY <1>11 DEF Open, Back, Choose, Answered
<1>12. ASSUME NEW h \in Conns, LeaveUser(h) PROVE OnlineCharactersArePlayed'
  BY <1>12 DEF LeaveUser, Answered, SetOffline, ReleaseUser, Holders
<1>13. ASSUME NEW h \in Conns, NewPlayer(h) PROVE OnlineCharactersArePlayed'
  BY <1>13 DEF NewPlayer, Answered
<1>14. ASSUME NEW h \in Conns, DeletePlayer(h) \/ DeleteNext(h) PROVE OnlineCharactersArePlayed'
  BY <1>14 DEF DeletePlayer, DeleteNext, Delete, Answered
<1>15. ASSUME NEW h \in Conns, NEW u \in Users, SpecificUser(h, u) PROVE OnlineCharactersArePlayed'
  BY <1>15 DEF SpecificUser, Answered
<1>16. ASSUME NEW h \in Conns, StartDeleteUser(h) PROVE OnlineCharactersArePlayed'
  BY <1>16 DEF StartDeleteUser, Answered, Change, CharsOf
<1>17. ASSUME NEW h \in Conns, DeleteUser(h) PROVE OnlineCharactersArePlayed'
  BY <1>17 DEF DeleteUser
<1>18. ASSUME NEW h \in Conns, ToggleAdmin(h) PROVE OnlineCharactersArePlayed'
  BY <1>18 DEF ToggleAdmin, Answered, Change
<1>19. ASSUME NEW h \in Conns, Watch(h) PROVE OnlineCharactersArePlayed'
  BY <1>19 DEF Watch, Overflow, Answered
<1>20. ASSUME NEW h \in Conns, StopWatching(h) PROVE OnlineCharactersArePlayed'
  BY <1>20 DEF StopWatching
<1>21. ASSUME NEW h \in Conns, NEW c \in Chars, Launch(h, c) PROVE OnlineCharactersArePlayed'
  BY <1>21 DEF Launch, Register, Answered
<1>22. ASSUME NEW h \in Conns, SessionCall(h) PROVE OnlineCharactersArePlayed'
  BY <1>22 DEF SessionCall, Ask, Read, ReadFails, TakeLine, Hang, TakePanic, WriteFails,
     SessionStep
<1>23. ASSUME NEW h \in Conns, Leave(h) PROVE OnlineCharactersArePlayed'
  BY <1>23 DEF Leave, Logout
<1>24. CASE UNCHANGED vars
  BY <1>24 DEF vars
<1>25. QED
  BY <1>1, <1>2, <1>3, <1>4, <1>5, <1>6, <1>7, <1>8, <1>8a, <1>9, <1>10, <1>11, <1>12, <1>13, <1>14, <1>15, <1>16, <1>17, <1>18, <1>19, <1>20, <1>21, <1>22, <1>23, <1>24
     DEF Next, HandlerStep, ClientStep, Recover, Quit, SessionCall

\* Only a deletion or a change of the flag takes the last administrator away.
LEMMA NextAdmin ==
    TypeOK /\ Positions /\ SomebodyIsAdmin /\ FirstsPending /\ [Next]_vars
    => SomebodyIsAdmin' /\ FirstsPending'
<1> SUFFICES ASSUME TypeOK, Positions, SomebodyIsAdmin, FirstsPending, [Next]_vars
             PROVE  SomebodyIsAdmin' /\ FirstsPending'
    OBVIOUS
<1> USE ServerAssumption DEF TypeOK, Places, Menus, Session, Positions, Held,
        Silent, Playing, SomebodyIsAdmin, FirstsPending, Goto, handlerVars, userVars, charVars,
        history
<1>1. ASSUME NEW h \in Conns, Accept(h) PROVE SomebodyIsAdmin' /\ FirstsPending'
  BY <1>1 DEF Accept
<1>2. ASSUME NEW h \in Conns, Disconnect(h) PROVE SomebodyIsAdmin' /\ FirstsPending'
  BY <1>2 DEF Disconnect
<1>3. ASSUME NEW h \in Conns, Fail(h) PROVE SomebodyIsAdmin' /\ FirstsPending'
  BY <1>3 DEF Fail
<1>4. ASSUME NEW h \in Conns, End(h) PROVE SomebodyIsAdmin' /\ FirstsPending'
  BY <1>4 DEF End, SetOffline, ReleaseUser, Holders
<1>5. ASSUME NEW h \in Conns, NEW u \in Users, Login(h, u) PROVE SomebodyIsAdmin' /\ FirstsPending'
  BY <1>5 DEF Login
<1>6. ASSUME NEW h \in Conns, NewUser(h) PROVE SomebodyIsAdmin' /\ FirstsPending'
  BY <1>6 DEF NewUser
<1>7. ASSUME NEW h \in Conns, EnterPassword(h) PROVE SomebodyIsAdmin' /\ FirstsPending'
  BY <1>7 DEF EnterPassword, Hold, Holders
<1>8. ASSUME NEW h \in Conns, CreateUser(h) PROVE SomebodyIsAdmin' /\ FirstsPending'
  BY <1>8 DEF CreateUser, Hold, Holders
<1>8a. ASSUME NEW h \in Conns, CountUsers(h) PROVE SomebodyIsAdmin' /\ FirstsPending'
  BY <1>8a DEF CountUsers, IsFirst
<1>9. ASSUME NEW h \in Conns, SetConnection(h) PROVE SomebodyIsAdmin' /\ FirstsPending'
  BY <1>9 DEF SetConnection
<1>10. ASSUME NEW h \in Conns, Prompt(h) PROVE SomebodyIsAdmin' /\ FirstsPending'
  BY <1>10 DEF Prompt, Entries, CharsOf
<1>11. ASSUME NEW h \in Conns, Open(h) \/ Back(h) PROVE SomebodyIsAdmin' /\ FirstsPending'
  BY <1>11 DEF Open, Back, Choose, Answered
<1>12. ASSUME NEW h \in Conns, LeaveUser(h) PROVE SomebodyIsAdmin' /\ FirstsPending'
  BY <1>12 DEF LeaveUser, Answered, SetOffline, ReleaseUser, Holders
<1>13. ASSUME NEW h \in Conns, NewPlayer(h) PROVE SomebodyIsAdmin' /\ FirstsPending'
  BY <1>13 DEF NewPlayer, Answered
<1>14. ASSUME NEW h \in Conns, DeletePlayer(h) \/ DeleteNext(h) PROVE SomebodyIsAdmin' /\ FirstsPending'
  BY <1>14 DEF DeletePlayer, DeleteNext, Delete, Answered
<1>15. ASSUME NEW h \in Conns, NEW u \in Users, SpecificUser(h, u) PROVE SomebodyIsAdmin' /\ FirstsPending'
  BY <1>15 DEF SpecificUser, Answered
<1>16. ASSUME NEW h \in Conns, StartDeleteUser(h) PROVE SomebodyIsAdmin' /\ FirstsPending'
  BY <1>16 DEF StartDeleteUser, Answered, Change, CharsOf
<1>17. ASSUME NEW h \in Conns, DeleteUser(h) PROVE SomebodyIsAdmin' /\ FirstsPending'
  <2>1. users' = users \ {target[h]} /\ admin' = admin
    BY <1>17 DEF DeleteUser
  <2>2. ~demoted' => ~demoted /\ target[h] \notin admin
    BY <1>17 DEF DeleteUser
  <2>3. SomebodyIsAdmin'
    BY <2>1, <2>2
  <2>4. users' = {} /\ ~demoted' => users = {} /\ ~demoted
    BY <2>1, <2>2
  <2>5. \A g \in Conns : at'[g] = at[g] \/ at'[g] \in {"users", "panicked"}
    BY <1>17 DEF DeleteUser
  <2>6. QED BY <2>3, <2>4, <2>5
<1>18. ASSUME NEW h \in Conns, ToggleAdmin(h) PROVE SomebodyIsAdmin' /\ FirstsPending'
  <2>1. SomebodyIsAdmin'
    BY <1>18 DEF ToggleAdmin, Answered, Change
  <2>2. users' = users /\ (~demoted' => ~demoted)
    BY <1>18 DEF ToggleAdmin
  <2>3. \A g \in Conns : at'[g] = at[g] \/ at'[g] \in {"specific", "panicked"}
    BY <1>18 DEF ToggleAdmin
  <2>4. QED BY <2>1, <2>2, <2>3
<1>19. ASSUME NEW h \in Conns, Watch(h) PROVE SomebodyIsAdmin' /\ FirstsPending'
  BY <1>19 DEF Watch, Overflow, Answered
<1>20. ASSUME NEW h \in Conns, StopWatching(h) PROVE SomebodyIsAdmin' /\ FirstsPending'
  BY <1>20 DEF StopWatching
<1>21. ASSUME NEW h \in Conns, NEW c \in Chars, Launch(h, c) PROVE SomebodyIsAdmin' /\ FirstsPending'
  BY <1>21 DEF Launch, Register, Answered
<1>22. ASSUME NEW h \in Conns, SessionCall(h) PROVE SomebodyIsAdmin' /\ FirstsPending'
  BY <1>22 DEF SessionCall, Ask, Read, ReadFails, TakeLine, Hang, TakePanic, WriteFails,
     SessionStep
<1>23. ASSUME NEW h \in Conns, Leave(h) PROVE SomebodyIsAdmin' /\ FirstsPending'
  BY <1>23 DEF Leave, Logout
<1>24. CASE UNCHANGED vars
  BY <1>24 DEF vars
<1>25. QED
  BY <1>1, <1>2, <1>3, <1>4, <1>5, <1>6, <1>7, <1>8, <1>8a, <1>9, <1>10, <1>11, <1>12, <1>13, <1>14, <1>15, <1>16, <1>17, <1>18, <1>19, <1>20, <1>21, <1>22, <1>23, <1>24
     DEF Next, HandlerStep, ClientStep, Recover, Quit, SessionCall

\* Only administrators watch, and a connection belongs to the user it serves.
LEMMA NextWatching ==
    TypeOK /\ Positions /\ Offers /\ Watching /\ [Next]_vars => Watching'
<1> SUFFICES ASSUME TypeOK, Positions, Offers, Watching, [Next]_vars
             PROVE  Watching'
    OBVIOUS
<1> USE ServerAssumption DEF TypeOK, Places, Menus, Session, Positions, Held,
        Silent, Playing, Offers, Blank, Watching, Goto, handlerVars, userVars,
        charVars, history
<1>1. ASSUME NEW h \in Conns, Accept(h) PROVE Watching'
  BY <1>1 DEF Accept
<1>2. ASSUME NEW h \in Conns, Disconnect(h) PROVE Watching'
  BY <1>2 DEF Disconnect
<1>3. ASSUME NEW h \in Conns, Fail(h) PROVE Watching'
  BY <1>3 DEF Fail
<1>4. ASSUME NEW h \in Conns, End(h) PROVE Watching'
  BY <1>4 DEF End, SetOffline, ReleaseUser, Holders
<1>5. ASSUME NEW h \in Conns, NEW u \in Users, Login(h, u) PROVE Watching'
  BY <1>5 DEF Login
<1>6. ASSUME NEW h \in Conns, NewUser(h) PROVE Watching'
  BY <1>6 DEF NewUser
<1>7. ASSUME NEW h \in Conns, EnterPassword(h) PROVE Watching'
  BY <1>7 DEF EnterPassword, Hold, Holders
<1>8. ASSUME NEW h \in Conns, CreateUser(h) PROVE Watching'
  BY <1>8 DEF CreateUser, Hold, Holders
<1>8a. ASSUME NEW h \in Conns, CountUsers(h) PROVE Watching'
  BY <1>8a DEF CountUsers, IsFirst
<1>9. ASSUME NEW h \in Conns, SetConnection(h) PROVE Watching'
  BY <1>9 DEF SetConnection
<1>10. ASSUME NEW h \in Conns, Prompt(h) PROVE Watching'
  BY <1>10 DEF Prompt, Entries, CharsOf
<1>11. ASSUME NEW h \in Conns, Open(h) \/ Back(h) PROVE Watching'
  <2>1. PICK p \in {"user", "delete", "users"} :
          /\ at[h] \in Menus /\ at' = [at EXCEPT ![h] = p]
          /\ p = "users" => at[h] = "specific" \/ (at[h] = "user" /\ user[h] \in shown[h])
    BY <1>11 DEF Open, Back, Choose, Answered
  <2>2. /\ shown' = [shown EXCEPT ![h] = {}]
        /\ UNCHANGED <<user, watchers, userConn, admin, admins>>
    BY <1>11 DEF Open, Back, Choose
  <2>3. p = "users" => user[h] \in admins
    BY <2>1
  <2>4. QED BY <2>1, <2>2, <2>3
<1>12. ASSUME NEW h \in Conns, LeaveUser(h) PROVE Watching'
  BY <1>12 DEF LeaveUser, Answered, SetOffline, ReleaseUser, Holders
<1>13. ASSUME NEW h \in Conns, NewPlayer(h) PROVE Watching'
  BY <1>13 DEF NewPlayer, Answered
<1>14. ASSUME NEW h \in Conns, DeletePlayer(h) \/ DeleteNext(h) PROVE Watching'
  BY <1>14 DEF DeletePlayer, DeleteNext, Delete, Answered
<1>15. ASSUME NEW h \in Conns, NEW u \in Users, SpecificUser(h, u) PROVE Watching'
  BY <1>15 DEF SpecificUser, Answered
<1>16. ASSUME NEW h \in Conns, StartDeleteUser(h) PROVE Watching'
  BY <1>16 DEF StartDeleteUser, Answered, Change, CharsOf
<1>17. ASSUME NEW h \in Conns, DeleteUser(h) PROVE Watching'
  BY <1>17 DEF DeleteUser
<1>18. ASSUME NEW h \in Conns, ToggleAdmin(h) PROVE Watching'
  BY <1>18 DEF ToggleAdmin, Answered, Change
<1>19. ASSUME NEW h \in Conns, Watch(h) PROVE Watching'
  <2>1. CASE Overflow
    BY <2>1 DEF Overflow
  <2>2. CASE ~Overflow
    <3>1. PICK q \in {"watching", "panicked"} :
            /\ at[h] = "specific" /\ at' = [at EXCEPT ![h] = q]
            /\ shown' \in {shown, [shown EXCEPT ![h] = {}]}
            /\ q = "watching" => target[h] \in Users /\ userConn[target[h]] \in Conns
            /\ watchers' = IF q = "panicked" THEN watchers
                           ELSE [watchers EXCEPT ![userConn[target[h]]] = @ \cup {h}]
            /\ UNCHANGED <<user, userConn, admin, admins>>
      BY <1>19, <2>2 DEF Watch, Answered
    <3>2. QED BY <3>1
  <2>3. QED BY <2>1, <2>2
<1>20. ASSUME NEW h \in Conns, StopWatching(h) PROVE Watching'
  BY <1>20 DEF StopWatching
<1>21. ASSUME NEW h \in Conns, NEW c \in Chars, Launch(h, c) PROVE Watching'
  BY <1>21 DEF Launch, Register, Answered
<1>22. ASSUME NEW h \in Conns, SessionCall(h) PROVE Watching'
  BY <1>22 DEF SessionCall, Ask, Read, ReadFails, TakeLine, Hang, TakePanic, WriteFails,
     SessionStep
<1>23. ASSUME NEW h \in Conns, Leave(h) PROVE Watching'
  <2>1. ASSUME at[h] = "logout" PROVE Watching'
    BY <1>23, <2>1 DEF Leave, Logout
  <2>2. ASSUME at[h] # "logout" PROVE Watching'
    BY <1>23, <2>2 DEF Leave, Logout
  <2>3. QED BY <2>1, <2>2
<1>24. CASE UNCHANGED vars
  BY <1>24 DEF vars
<1>25. QED
  BY <1>1, <1>2, <1>3, <1>4, <1>5, <1>6, <1>7, <1>8, <1>8a, <1>9, <1>10, <1>11, <1>12, <1>13, <1>14, <1>15, <1>16, <1>17, <1>18, <1>19, <1>20, <1>21, <1>22, <1>23, <1>24
     DEF Next, HandlerStep, ClientStep, Recover, Quit, SessionCall

\* Copies of one connection's output that come back to it run in a circle.
LEMMA NoEcho ==
    ASSUME NEW w \in [Conns -> SUBSET Conns], NEW h \in Conns, Acyclic(w)
    PROVE  h \notin Copies(w, h)
<1> DEFINE R == Copies(w, h)
<1>1. R \subseteq Conns
  BY DEF Copies
<1> SUFFICES ASSUME h \in R PROVE FALSE
    OBVIOUS
<1>2. PICK x \in R : \A y \in R : x \notin w[y]
  BY <1>1 DEF Acyclic
<1>3. w[h] \subseteq R \ {x} /\ \A g \in R : w[g] \subseteq R
  BY <1>1, <1>2 DEF Copies
<1>4. \A g \in R \ {x} : w[g] \subseteq R \ {x}
  BY <1>2, <1>3
<1>5. x \in R \ {x}
  BY <1>1, <1>3, <1>4 DEF Copies
<1>6. QED BY <1>5

\* A new watcher of a connection that watches nothing closes no circle.
LEMMA WatcherAdded ==
    ASSUME NEW w \in [Conns -> SUBSET Conns], Acyclic(w), NEW h \in Conns, NEW k \in Conns,
           \A g \in Conns : k \notin w[g], h # k
    PROVE  Acyclic([w EXCEPT ![k] = @ \cup {h}])
<1> DEFINE v == [w EXCEPT ![k] = @ \cup {h}]
<1> SUFFICES ASSUME NEW S \in SUBSET Conns, S # {}
             PROVE  \E x \in S : \A y \in S : x \notin v[y]
    BY DEF Acyclic
<1>1. CASE k \in S
  BY <1>1
<1>2. CASE k \notin S
  BY <1>2 DEF Acyclic
<1>3. QED BY <1>1, <1>2

\* Fewer watchers close no circle either.
LEMMA WatchersGone ==
    ASSUME NEW w, NEW v, Acyclic(w), \A g \in Conns : v[g] \subseteq w[g]
    PROVE  Acyclic(v)
  BY DEF Acyclic

\* As long as there has been one administrator only, nobody who watches is
\* watched.
LEMMA NextQuiet ==
    TypeOK /\ Positions /\ Watching /\ Quiet /\ [Next]_vars => Quiet'
<1> SUFFICES ASSUME TypeOK, Positions, Watching, Quiet, [Next]_vars
             PROVE  Quiet'
    OBVIOUS
<1> USE ServerAssumption DEF TypeOK, Places, Menus, Session, Positions, Held,
        Silent, Playing, Goto, handlerVars, userVars, charVars, history
<1> DEFINE Calm == /\ \A g \in Conns : watchers'[g] \subseteq watchers[g]
                   /\ overflowed' = overflowed /\ admins \subseteq admins'
<1>1. ASSUME Calm PROVE Quiet'
  BY <1>1, WatchersGone DEF Quiet, TwoAdmins
<1>2. ASSUME NEW h \in Conns, Accept(h) PROVE Calm
  BY <1>2 DEF Accept
<1>3. ASSUME NEW h \in Conns, Disconnect(h) PROVE Calm
  BY <1>3 DEF Disconnect
<1>4. ASSUME NEW h \in Conns, Fail(h) PROVE Calm
  BY <1>4 DEF Fail
<1>5. ASSUME NEW h \in Conns, End(h) PROVE Calm
  BY <1>5 DEF End, SetOffline, ReleaseUser, Holders
<1>6. ASSUME NEW h \in Conns, NEW u \in Users, Login(h, u) PROVE Calm
  BY <1>6 DEF Login
<1>7. ASSUME NEW h \in Conns, NewUser(h) PROVE Calm
  BY <1>7 DEF NewUser
<1>8. ASSUME NEW h \in Conns, EnterPassword(h) PROVE Calm
  BY <1>8 DEF EnterPassword, Hold, Holders
<1>9. ASSUME NEW h \in Conns, CreateUser(h) PROVE Calm
  BY <1>9 DEF CreateUser, Hold, Holders
<1>9a. ASSUME NEW h \in Conns, CountUsers(h) PROVE Calm
  BY <1>9a DEF CountUsers, IsFirst
<1>10. ASSUME NEW h \in Conns, SetConnection(h) PROVE Calm
  BY <1>10 DEF SetConnection
<1>11. ASSUME NEW h \in Conns, Prompt(h) PROVE Calm
  BY <1>11 DEF Prompt, Entries, CharsOf
<1>12. ASSUME NEW h \in Conns, Open(h) \/ Back(h) PROVE Calm
  BY <1>12 DEF Open, Back, Choose, Answered
<1>13. ASSUME NEW h \in Conns, LeaveUser(h) PROVE Calm
  BY <1>13 DEF LeaveUser, Answered, SetOffline, ReleaseUser, Holders
<1>14. ASSUME NEW h \in Conns, NewPlayer(h) PROVE Calm
  BY <1>14 DEF NewPlayer, Answered
<1>15. ASSUME NEW h \in Conns, DeletePlayer(h) \/ DeleteNext(h) PROVE Calm
  BY <1>15 DEF DeletePlayer, DeleteNext, Delete, Answered
<1>16. ASSUME NEW h \in Conns, NEW u \in Users, SpecificUser(h, u) PROVE Calm
  BY <1>16 DEF SpecificUser, Answered
<1>17. ASSUME NEW h \in Conns, StartDeleteUser(h) PROVE Calm
  BY <1>17 DEF StartDeleteUser, Answered, Change, CharsOf
<1>18. ASSUME NEW h \in Conns, DeleteUser(h) PROVE Calm
  BY <1>18 DEF DeleteUser
<1>19. ASSUME NEW h \in Conns, ToggleAdmin(h) PROVE Calm
  BY <1>19 DEF ToggleAdmin, Answered, Change
<1>20. ASSUME NEW h \in Conns, StopWatching(h) PROVE Calm
  BY <1>20 DEF StopWatching
<1>21. ASSUME NEW h \in Conns, NEW c \in Chars, Launch(h, c) PROVE Calm
  BY <1>21 DEF Launch, Register, Answered
<1>22. ASSUME NEW h \in Conns, SessionCall(h) PROVE Calm
  BY <1>22 DEF SessionCall, Ask, Read, ReadFails, TakeLine, Hang, TakePanic, WriteFails,
     SessionStep
<1>23. ASSUME NEW h \in Conns, Leave(h) PROVE Calm
  BY <1>23 DEF Leave, Logout
<1>24. CASE UNCHANGED vars
  <2>1. Calm
    BY <1>24 DEF vars
  <2>2. QED BY <2>1, <1>1
<1>25. ASSUME NEW h \in Conns, Watch(h), ~TwoAdmins PROVE Quiet'
  <2> DEFINE k == userConn[target[h]]
             w == [watchers EXCEPT ![k] = @ \cup {h}]
  <2>1. CASE k = None
    <3>1. Calm
      BY <1>25, <2>1 DEF Watch
    <3>2. QED BY <3>1, <1>1
  <2>2. CASE k # None
    <3>1. at[h] = "specific" /\ target[h] \in Users /\ target[h] # user[h]
      BY <1>25 DEF Watch, Answered, WatchesItself
    <3>2. k \in Conns /\ user[k] = target[h] /\ user[h] \in admins
      BY <2>2, <3>1 DEF Watching
    <3>3. user[k] \notin admins \cup {None}
      BY <1>25, <3>1, <3>2 DEF TwoAdmins
    <3>4. \A g \in Conns : k \notin watchers[g]
      BY <3>2, <3>3 DEF Watching
    <3>5. Acyclic(watchers) /\ ~overflowed
      BY <1>25 DEF Quiet
    <3>6. w \in [Conns -> SUBSET Conns] /\ Acyclic(w)
      BY <3>1, <3>2, <3>4, <3>5, WatcherAdded
    <3>7. h \notin Copies(w, h)
      BY <3>6, NoEcho
    <3>8. watchers' = w /\ overflowed' = overflowed
      BY <1>25, <2>2, <3>7 DEF Watch
    <3>9. QED BY <3>5, <3>6, <3>8 DEF Quiet
  <2>3. QED BY <2>1, <2>2
<1>26. ASSUME NEW h \in Conns, Watch(h), TwoAdmins PROVE Quiet'
  <2>1. admins' = admins
    BY <1>26 DEF Watch, Overflow
  <2>2. QED BY <2>1, <1>26 DEF Quiet, TwoAdmins
<1>27. QED
  BY <1>1, <1>2, <1>3, <1>4, <1>5, <1>6, <1>7, <1>8, <1>9, <1>9a, <1>10, <1>11, <1>12,
     <1>13, <1>14, <1>15, <1>16, <1>17, <1>18, <1>19, <1>20, <1>21, <1>22, <1>23,
     <1>24, <1>25, <1>26
     DEF Next, HandlerStep, ClientStep, Recover, Quit, SessionCall

-----------------------------------------------------------------------------
(* Theorems                                                                *)

\* Nobody is connected at the start.
LEMMA InitServerInv == Init => ServerInv
<1> SUFFICES ASSUME Init PROVE ServerInv
    OBVIOUS
<1>1. TypeOK
  BY ServerAssumption DEF Init, TypeOK, Places, Menus, Session
<1>2. Positions /\ Offers /\ Claims /\ PlayersHearEvents
  BY ServerAssumption
     DEF Init, TypeOK, Places, Menus, Session, Positions, Held, Silent, Playing,
         Offers, Claims, Touches, PlayersHearEvents
<1>3. /\ SoleLogins /\ SoleLoginOwnsInput /\ OnlineUsersAreHeld
      /\ OnlineCharactersArePlayed /\ SomebodyIsAdmin /\ FirstsPending
  BY DEF Init, SoleLogins, SoleLoginOwnsInput, OnlineUsersAreHeld,
         OnlineCharactersArePlayed, SomebodyIsAdmin, FirstsPending
<1>4. Watching /\ Quiet
  BY DEF Init, Watching, Quiet, Acyclic
<1>5. QED BY <1>1, <1>2, <1>3, <1>4 DEF ServerInv

\* The server keeps its inductive invariant, in every behaviour.
THEOREM ServerInvariant == Spec => []ServerInv
<1>1. ServerInv /\ [Next]_vars => ServerInv'
  BY NextPositions, NextOffers, NextLogins, NextHeld, NextClaims, NextHears, NextPlayed,
     NextAdmin, NextWatching, NextQuiet
     DEF ServerInv
<1>2. QED BY <1>1, InitServerInv, PTL DEF Spec

\* Every variable of the server keeps its type: no handler acts on a user or a
\* character it does not have.
THEOREM ServerTypes == Spec => []TypeOK
  BY ServerInvariant, PTL DEF ServerInv

\* No order of logins, panics, deletions and lost connections locks an account
\* that no handler holds.
THEOREM AccountsAreNotLocked == Spec => []OnlineUsersAreHeld
  BY ServerInvariant, PTL DEF ServerInv

\* A user's only handler reads and writes its own connection.
THEOREM SoleLoginsSpeak == Spec => []SoleLoginOwnsInput
  BY ServerInvariant, PTL DEF ServerInv

\* Who plays, logged in once, is the one the bus delivers the character's
\* events to.
THEOREM PlayersAreListeners == Spec => []PlayersHearEvents
  BY ServerInvariant, PTL DEF ServerInv

\* No character stays in its room when its session has gone.
THEOREM NoCharacterIsLeftBehind == Spec => []OnlineCharactersArePlayed
  BY ServerInvariant, PTL DEF ServerInv

\* One of the users administers as long as no administrator is deleted or loses
\* the flag, however the counting of users by some handlers falls between the
\* counting and the creation of others.
THEOREM AnAdministratorRemains == Spec => []SomebodyIsAdmin
  BY ServerInvariant, PTL DEF ServerInv

\* Connections watch each other in a circle, of any length, only if there have
\* been two administrators.
THEOREM OneAdministratorIsSafe == Spec => []OneAdminIsSafe
<1>1. ServerInv => OneAdminIsSafe
  BY DEF ServerInv, Quiet, TwoAdmins, OneAdminIsSafe
<1>2. QED BY <1>1, ServerInvariant, PTL
=============================================================================
