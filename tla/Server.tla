------------------------------- MODULE Server -------------------------------
(***************************************************************************)
(* Package server with the sessions it launches: one goroutine for each    *)
(* connection goes through the menus (login, new user, user menu, user     *)
(* administration), plays a character, and leaves by a menu or by a panic   *)
(* that Handle recovers.                                                   *)
(*                                                                         *)
(* Users and characters are shared structs without an owner: a handler     *)
(* reads and writes through the connection that its user has *now*, which  *)
(* is another handler's when the user is logged in twice, and none after   *)
(* either of them has left.  A session has a second goroutine that reads   *)
(* the handler's own connection.                                           *)
(*                                                                         *)
(* A prompt and the input that answers it are two steps.  Names are left   *)
(* out: a login names any user there is, and a name is free or not.  A     *)
(* deletion is one step for each object (ObjectStore has its insides).     *)
(***************************************************************************)
EXTENDS Naturals

CONSTANTS
    Conns, Users, Chars, None,
    Stocks      \* what a run may make, and how often it may delete a user or
                \* set or clear the administrator's flag

ASSUME ServerAssumption ==
    /\ Stocks \subseteq [make : SUBSET (Users \cup Chars), changes : Nat]
    /\ Users \cap Chars = {}
    /\ None \notin Conns \cup Users \cup Chars

VARIABLES
    up,         \* connections whose two ends are open
    at,         \* where each handler is
    source,     \* the connection it is reading
    shown,      \* what the menu it shows was built from
    user, pc,   \* self.user, self.pc
    target,     \* the user whose menu is open, who logs in, or who is being made
    reader,     \* the goroutine that reads for the session
    watchers,   \* the connections each connection is copied to
    userConn, online, admin, users,     \* User: connection, online, Admin; those that exist
    owner, playing, listener,           \* characters: owner, online, and who hears their events
    spare,      \* users and characters not made yet
    doubled,    \* users held by two handlers since they were last free (history)
    admins,     \* users that have been administrators (history)
    demoted,    \* an administrator was deleted or lost the flag (history)
    overflowed, \* the process ran out of stack (history)
    changes     \* changes left (bound)

handlerVars == <<up, at, source, shown, user, pc, target, reader>>
userVars    == <<userConn, online, admin, users>>
charVars    == <<owner, playing, listener>>
history     == <<doubled, admins, demoted, overflowed, changes>>
vars == <<handlerVars, watchers, userVars, charVars, spare, history>>

Menus   == {"user", "delete", "users", "specific"}  \* read from the user's connection
Session == {"asking", "waiting"}
Places  == Menus \cup Session \cup
             {"gone", "main", "password", "newpass", "first", "further", "loggedIn",
              "watching", "deleting", "stuck", "logout", "failed", "panicked"}

TypeOK ==
    /\ up \subseteq Conns
    /\ at \in [Conns -> Places]
    /\ source \in [Conns -> Conns \cup {None}]
    /\ shown \in [Conns -> SUBSET (Users \cup Chars)]
    /\ user \in [Conns -> Users \cup {None}]
    /\ pc \in [Conns -> Chars \cup {None}]
    /\ target \in [Conns -> Users \cup {None}]
    /\ reader \in [Conns -> {"none", "idle", "reading", "line", "failed"}]
    /\ watchers \in [Conns -> SUBSET Conns]
    /\ userConn \in [Users -> Conns \cup {None}]
    /\ online \subseteq Users /\ admin \subseteq Users /\ users \subseteq Users
    /\ owner \in [Chars -> Users \cup {None}]
    /\ playing \subseteq Chars
    /\ listener \in [Chars -> Conns \cup {None}]
    /\ spare \subseteq Users \cup Chars
    /\ doubled \subseteq Users /\ admins \subseteq Users
    /\ demoted \in BOOLEAN /\ overflowed \in BOOLEAN /\ changes \in Nat

Init ==
    /\ up = {} /\ at = [h \in Conns |-> "gone"]
    /\ source = [h \in Conns |-> None] /\ shown = [h \in Conns |-> {}]
    /\ user = [h \in Conns |-> None] /\ pc = [h \in Conns |-> None]
    /\ target = [h \in Conns |-> None] /\ reader = [h \in Conns |-> "none"]
    /\ watchers = [h \in Conns |-> {}]
    /\ userConn = [u \in Users |-> None] /\ online = {} /\ admin = {} /\ users = {}
    /\ owner = [c \in Chars |-> None] /\ playing = {} /\ listener = [c \in Chars |-> None]
    /\ \E s \in Stocks : spare = s.make /\ changes = s.changes
    /\ doubled = {} /\ admins = {} /\ demoted = FALSE /\ overflowed = FALSE

Holders(u)    == {h \in Conns : user[h] = u}
CharsOf(u)    == {c \in Chars : owner[c] = u}

\* Handler h goes to place p, where it has asked for nothing yet.
Goto(h, p) == at' = [at EXCEPT ![h] = p] /\ source' = [source EXCEPT ![h] = None]

-----------------------------------------------------------------------------
(* Connections                                                             *)

\* Listen and Handle; a place is used again when nothing reads from it.
Accept(h) ==
    /\ at[h] = "gone" /\ h \notin up
    /\ \A g \in Conns : source[g] # h
    /\ up' = up \cup {h} /\ at' = [at EXCEPT ![h] = "main"]
    /\ source' = [source EXCEPT ![h] = h]
    /\ watchers' = [g \in Conns |-> IF g = h THEN {} ELSE watchers[g] \ {h}]
    /\ UNCHANGED <<shown, user, pc, target, reader, userVars, charVars, spare, history>>

\* The client goes away.
Disconnect(h) ==
    /\ h \in up
    /\ up' = up \ {h}
    /\ UNCHANGED <<at, source, shown, user, pc, target, reader, watchers, userVars,
                   charVars, spare, history>>

\* A handler reading a connection that is gone panics, as does one that
\* writes to a user who has none.
Fail(h) ==
    /\ \/ source[h] # None /\ source[h] \notin up /\ at[h] \notin Session
       \/ at[h] \in Menus /\ source[h] = None /\ userConn[user[h]] = None
    /\ Goto(h, "panicked")
    /\ UNCHANGED <<up, shown, user, pc, target, reader, watchers, userVars, charVars,
                   spare, history>>

\* Faulty variant: the user stays online.
SetOfflineNever(u) == UNCHANGED <<online, userConn>>

\* User.SetOnline(false)
SetOffline(u) ==
    /\ online' = online \ {u}
    /\ userConn' = [v \in Users |-> IF v = u THEN None ELSE userConn[v]]

\* Faulty variant: self.user keeps its value.
ReleaseUserNever(h) == UNCHANGED <<user, doubled>>

\* self.user = nil
ReleaseUser(h) ==
    /\ user' = [user EXCEPT ![h] = None]
    /\ doubled' = {u \in doubled : Holders(u) # {h}}

\* The end of Handle, after a panic or after the main menu.
End(h) ==
    /\ up' = up \ {h}
    /\ Goto(h, "gone")
    /\ SetOffline(user[h]) /\ ReleaseUser(h)
    /\ playing' = playing \ {pc[h]}
    /\ pc' = [pc EXCEPT ![h] = None] /\ target' = [target EXCEPT ![h] = None]
    /\ shown' = [shown EXCEPT ![h] = {}]
    /\ reader' = [reader EXCEPT ![h] = "none"]
    /\ UNCHANGED <<watchers, admin, users, owner, listener, spare, admins, demoted, overflowed, changes>>

Recover(h) == at[h] = "panicked" /\ End(h)

-----------------------------------------------------------------------------
(* Login: the main menu                                                    *)

\* The user exists and is not online when the name is entered.
Login(h, u) ==
    /\ at[h] = "main" /\ h \in up
    /\ u \in users /\ u \notin online
    /\ at' = [at EXCEPT ![h] = "password"] /\ target' = [target EXCEPT ![h] = u]
    /\ UNCHANGED <<up, source, shown, user, pc, reader, watchers, userVars, charVars,
                   spare, history>>

\* A free name has been entered.
NewUser(h) ==
    /\ at[h] = "main" /\ h \in up
    /\ at' = [at EXCEPT ![h] = "newpass"]
    /\ UNCHANGED <<up, source, shown, user, pc, target, reader, watchers, userVars,
                   charVars, spare, history>>

\* self.user = u, and SetOnline(true) of loggedIn.
Hold(h, u) ==
    /\ Goto(h, "loggedIn")
    /\ user' = [user EXCEPT ![h] = u] /\ target' = [target EXCEPT ![h] = None]
    /\ online' = online \cup {u}
    /\ doubled' = IF Holders(u) = {} THEN doubled ELSE doubled \cup {u}

\* Any password will do.
EnterPassword(h) ==
    /\ at[h] = "password" /\ h \in up
    /\ Hold(h, target[h])
    /\ UNCHANGED <<up, shown, pc, reader, watchers, userConn, admin, users, charVars, spare,
                   admins, demoted, overflowed, changes>>

\* Faulty variant: a registration that has counted counts as a user.
IsFirstAlone == users = {} /\ \A h \in Conns : at[h] # "first"

IsFirst == users = {}

\* The passwords have been entered: UserCount() == 0.
CountUsers(h) ==
    /\ at[h] = "newpass" /\ h \in up
    /\ Goto(h, IF IsFirst THEN "first" ELSE "further")
    /\ \E u \in spare \cap Users :
        /\ target' = [target EXCEPT ![h] = u] /\ spare' = spare \ {u}
    /\ UNCHANGED <<up, shown, user, pc, reader, watchers, userVars, charVars, history>>

\* CreateUser, with the answer as the administrator's flag, whoever else has
\* counted or been created in between.
CreateUser(h) ==
    LET u   == target[h]
        new == IF at[h] = "first" THEN {u} ELSE {}
    IN  /\ at[h] \in {"first", "further"}
        /\ Hold(h, u)
        /\ users' = users \cup {u}
        /\ admin' = admin \cup new /\ admins' = admins \cup new
        /\ UNCHANGED <<up, shown, pc, reader, watchers, userConn, charVars, spare, demoted,
                       overflowed, changes>>

\* SetConnection, after which the user menu opens.
SetConnection(h) ==
    /\ at[h] = "loggedIn"
    /\ userConn' = [userConn EXCEPT ![user[h]] = h]
    /\ Goto(h, "user")
    /\ UNCHANGED <<up, shown, user, pc, target, reader, watchers, online, admin, users,
                   charVars, spare, history>>

\* OnExit of the main menu closes the connection.
Quit(h) == at[h] = "main" /\ h \in up /\ End(h)

-----------------------------------------------------------------------------
(* Menus: each is built anew before every prompt.                          *)

Entries(h) ==
    CASE at[h] = "user"     -> CharsOf(user[h]) \cup ({user[h]} \cap admin)
      [] at[h] = "delete"   -> CharsOf(user[h])
      [] at[h] = "users"    -> users
      [] at[h] = "specific" -> {target[h]} \cap online

\* Build, print and ask, on the connection the user has now.
Prompt(h) ==
    /\ at[h] \in Menus /\ source[h] = None /\ userConn[user[h]] # None
    /\ source' = [source EXCEPT ![h] = userConn[user[h]]]
    /\ shown' = [shown EXCEPT ![h] = Entries(h)]
    /\ UNCHANGED <<up, at, user, pc, target, reader, watchers, userVars, charVars, spare, history>>

\* Somebody at the other end has answered the menu at place p.
Answered(h, p) == at[h] = p /\ source[h] \in up

Choose(h, from, to) ==
    /\ Answered(h, from)
    /\ Goto(h, to)
    /\ shown' = [shown EXCEPT ![h] = {}] /\ target' = [target EXCEPT ![h] = None]
    /\ UNCHANGED <<up, user, pc, reader, watchers, userVars, charVars, spare, history>>

Open(h) ==
    \/ Choose(h, "user", "delete") /\ shown[h] \cap Chars # {}
    \/ Choose(h, "user", "users") /\ user[h] \in shown[h]

Back(h) ==
    \/ Choose(h, "delete", "user")
    \/ Choose(h, "users", "user")
    \/ Choose(h, "specific", "users")

\* OnExit of the user menu.
LeaveUser(h) ==
    /\ Answered(h, "user")
    /\ SetOffline(user[h]) /\ ReleaseUser(h)
    /\ at' = [at EXCEPT ![h] = "main"] /\ source' = [source EXCEPT ![h] = h]
    /\ shown' = [shown EXCEPT ![h] = {}]
    /\ UNCHANGED <<up, pc, target, reader, watchers, admin, users, charVars, spare,
                   admins, demoted, overflowed, changes>>

\* self.pc keeps the new character, or nil.
NewPlayer(h) ==
    /\ Answered(h, "user")
    /\ \/ /\ pc' = [pc EXCEPT ![h] = None]
          /\ UNCHANGED <<owner, spare>>
       \/ \E c \in spare \cap Chars :
            /\ pc' = [pc EXCEPT ![h] = c]
            /\ owner' = [owner EXCEPT ![c] = user[h]] /\ spare' = spare \ {c}
    /\ Goto(h, "user") /\ shown' = [shown EXCEPT ![h] = {}]
    /\ UNCHANGED <<up, user, target, reader, watchers, userVars, playing, listener, history>>

\* DeleteCharacter; a second deletion panics in DeleteObject.
Delete(h, c, next) ==
    /\ IF owner[c] = None
       THEN Goto(h, "panicked") /\ UNCHANGED <<owner, shown>>
       ELSE /\ owner' = [owner EXCEPT ![c] = None] /\ Goto(h, next)
            /\ shown' = [shown EXCEPT ![h] = @ \ {c}]
    /\ UNCHANGED <<up, user, pc, target, reader, watchers, userVars, playing, listener,
                   spare, history>>

DeletePlayer(h) ==
    Answered(h, "delete") /\ \E c \in shown[h] : Delete(h, c, "delete")

-----------------------------------------------------------------------------
(* Administration of users                                                 *)

SpecificUser(h, u) ==
    /\ Answered(h, "users") /\ u \in shown[h]
    /\ Goto(h, "specific")
    /\ target' = [target EXCEPT ![h] = u] /\ shown' = [shown EXCEPT ![h] = {}]
    /\ UNCHANGED <<up, user, pc, reader, watchers, userVars, charVars, spare, history>>

\* DeleteUser lists the user's characters, deletes them one by one, and then
\* the user.
Change == changes > 0 /\ changes' = changes - 1

StartDeleteUser(h) ==
    /\ Answered(h, "specific") /\ Change
    /\ Goto(h, "deleting")
    /\ shown' = [shown EXCEPT ![h] = CharsOf(target[h])]
    /\ UNCHANGED <<up, user, pc, target, reader, watchers, userVars, charVars, spare,
                   doubled, admins, demoted, overflowed>>

DeleteNext(h) ==
    at[h] = "deleting" /\ \E c \in shown[h] : Delete(h, c, "deleting")

DeleteUser(h) ==
    /\ at[h] = "deleting" /\ shown[h] = {}
    /\ IF target[h] \in users THEN Goto(h, "users") ELSE Goto(h, "panicked")
    /\ target' = [target EXCEPT ![h] = None]
    /\ users' = users \ {target[h]}
    /\ demoted' = (demoted \/ target[h] \in admin)
    /\ UNCHANGED <<up, shown, user, pc, reader, watchers, userConn, online, admin,
                   charVars, spare, doubled, admins, overflowed, changes>>

\* GetUser of a user deleted meanwhile panics.
ToggleAdmin(h) ==
    /\ Answered(h, "specific") /\ Change
    /\ LET u == target[h]
       IN  IF u \in users
           THEN /\ Goto(h, "specific")
                /\ admin' = IF u \in admin THEN admin \ {u} ELSE admin \cup {u}
                /\ admins' = admins \cup {u}
                /\ demoted' = (demoted \/ u \in admin)
           ELSE Goto(h, "panicked") /\ UNCHANGED <<admin, admins, demoted>>
    /\ shown' = [shown EXCEPT ![h] = {}]
    /\ UNCHANGED <<up, user, pc, target, reader, watchers, userConn, online, users,
                   charVars, spare, doubled, overflowed>>

\* Where a write to connection h arrives: it is copied to the watchers of h,
\* to theirs, and so on.
Copies(w, h) ==
    {c \in Conns : \A S \in SUBSET Conns :
                      (w[h] \subseteq S /\ \A g \in S : w[g] \subseteq S) => c \in S}

\* A write that comes back to where it started overflows the stack, which
\* ends the process: all that is left is in the database.
Overflow ==
    /\ up' = {} /\ at' = [h \in Conns |-> "gone"] /\ source' = [h \in Conns |-> None]
    /\ shown' = [h \in Conns |-> {}]
    /\ user' = [h \in Conns |-> None] /\ pc' = [h \in Conns |-> None]
    /\ target' = [h \in Conns |-> None] /\ reader' = [h \in Conns |-> "none"]
    /\ watchers' = [h \in Conns |-> {}]
    /\ userConn' = [u \in Users |-> None] /\ online' = {} /\ playing' = {}
    /\ listener' = [c \in Chars |-> None]
    /\ doubled' = {} /\ overflowed' = TRUE
    /\ UNCHANGED <<admin, users, owner, spare, admins, demoted, changes>>

\* Faulty variant: nobody is refused.
NobodyWatches(h) == FALSE

WatchesItself(h) == target[h] = user[h]

\* AddWatcher, then a prompt on the own connection.
Watch(h) ==
    /\ Answered(h, "specific") /\ target[h] \in shown[h]
    /\ ~WatchesItself(h)
    /\ LET k == userConn[target[h]]
           w == [watchers EXCEPT ![k] = @ \cup {h}]
       IN  IF k = None
           THEN /\ Goto(h, "panicked")
                /\ UNCHANGED <<up, shown, user, pc, target, reader, watchers, userVars,
                               charVars, spare, history>>
           ELSE IF h \in Copies(w, h)
           THEN Overflow
           ELSE /\ watchers' = w
                /\ at' = [at EXCEPT ![h] = "watching"]
                /\ source' = [source EXCEPT ![h] = h] /\ shown' = [shown EXCEPT ![h] = {}]
                /\ UNCHANGED <<up, user, pc, target, reader, userVars, charVars, spare, history>>

StopWatching(h) ==
    /\ at[h] = "watching" /\ h \in up
    /\ watchers' = [g \in Conns |-> watchers[g] \ {h}]
    /\ Goto(h, "specific")
    /\ UNCHANGED <<up, shown, user, pc, target, reader, userVars, charVars, spare, history>>

-----------------------------------------------------------------------------
(* Sessions                                                                *)

\* Faulty variants: no entry, and an entry for the wrong one.
RegisterNever(h, c)   == UNCHANGED listener
RegisterSwapped(h, c) == listener' = [listener EXCEPT ![c] = c]

\* events.Register: the character's entry is the new session's.
Register(h, c) == listener' = [listener EXCEPT ![c] = h]

\* launchSession: Register and Login; the reader starts.
Launch(h, c) ==
    /\ Answered(h, "user") /\ c \in shown[h]
    /\ pc' = [pc EXCEPT ![h] = c]
    /\ Register(h, c) /\ playing' = playing \cup {c}
    /\ reader' = [reader EXCEPT ![h] = "idle"]
    /\ Goto(h, "asking") /\ shown' = [shown EXCEPT ![h] = {}]
    /\ UNCHANGED <<up, user, target, watchers, userVars, owner, spare, history>>

SessionStep(h, p, r) ==
    /\ at' = [at EXCEPT ![h] = p] /\ reader' = [reader EXCEPT ![h] = r]
    /\ UNCHANGED <<up, source, shown, user, pc, target, watchers, userVars, charVars,
                   spare, history>>

\* getUserInputP hands the mode and the prompter to the reader.
Ask(h) == at[h] = "asking" /\ reader[h] = "idle" /\ SessionStep(h, "waiting", "reading")

\* Faulty variant: the reader's panic is swallowed.
ReadFailsSilently(h) == reader[h] = "reading" /\ h \notin up /\ SessionStep(h, at[h], "none")

\* The reader reads the handler's own connection; its panic is passed on.
Read(h)      == reader[h] = "reading" /\ h \in up /\ SessionStep(h, at[h], "line")
ReadFails(h) == reader[h] = "reading" /\ h \notin up /\ SessionStep(h, at[h], "failed")

\* A command, or logout.
TakeLine(h) ==
    /\ at[h] = "waiting" /\ reader[h] = "line"
    /\ SessionStep(h, "asking", "idle") \/ SessionStep(h, "logout", "idle")

\* A command that never returns: lock keeps the mutex of its room and waits for
\* it (RoomLock), whatever needs the mutex after it waits as well.  The session
\* takes no event, no line and no panic of its reader any more.
Hang(h) == at[h] = "asking" /\ reader[h] = "idle" /\ SessionStep(h, "stuck", "idle")

TakePanic(h) == at[h] = "waiting" /\ reader[h] = "failed" /\ SessionStep(h, "failed", "none")

\* What a session prints, the answer to a command or an event, goes to the
\* connection its user has now.
WriteFails(h) ==
    /\ at[h] \in Session /\ userConn[user[h]] = None
    /\ SessionStep(h, "failed", reader[h])

\* Faulty variant: no Logout after a panic.
LogoutUnlessPanic(h) == playing' = IF at[h] = "logout" THEN playing \ {pc[h]} ELSE playing

Logout(h) == playing' = playing \ {pc[h]}

\* The deferred Logout and Unregister of Exec.  A reader that waits to be
\* asked stays for ever.
Leave(h) ==
    /\ at[h] \in {"logout", "failed"}
    /\ Logout(h) /\ listener' = [listener EXCEPT ![pc[h]] = None]
    /\ reader' = [reader EXCEPT ![h] = "none"]
    /\ IF at[h] = "logout"
       THEN Goto(h, "user") /\ pc' = [pc EXCEPT ![h] = None]
       ELSE Goto(h, "panicked") /\ UNCHANGED pc
    /\ UNCHANGED <<up, shown, user, target, watchers, userVars, owner, spare, history>>

-----------------------------------------------------------------------------
(* The specification                                                       *)

\* What a handler does without waiting for its client.
HandlerStep(h) ==
    \/ Fail(h) \/ Recover(h) \/ SetConnection(h) \/ Prompt(h) \/ DeleteNext(h) \/ DeleteUser(h)
    \/ CreateUser(h) \/ Ask(h) \/ ReadFails(h) \/ TakeLine(h) \/ TakePanic(h)
    \/ WriteFails(h) \/ Leave(h)

ClientStep(h) ==
    \/ Accept(h) \/ Disconnect(h) \/ Quit(h)
    \/ \E u \in Users : Login(h, u) \/ SpecificUser(h, u)
    \/ NewUser(h) \/ EnterPassword(h) \/ CountUsers(h)
    \/ Open(h) \/ Back(h) \/ LeaveUser(h) \/ NewPlayer(h) \/ DeletePlayer(h)
    \/ StartDeleteUser(h) \/ ToggleAdmin(h) \/ Watch(h) \/ StopWatching(h)
    \/ \E c \in Chars : Launch(h, c)
    \/ Read(h) \/ Hang(h)

Next == \E h \in Conns : HandlerStep(h) \/ ClientStep(h)

\* Goroutines that can run do.  No client has to answer, or to lock a door.
Spec == Init /\ [][Next]_vars /\ \A h \in Conns : WF_vars(HandlerStep(h))

-----------------------------------------------------------------------------
(* Properties                                                              *)

Playing(h) == at[h] \in Session \cup {"stuck", "logout", "failed"}

\* A user who is shown online, and so can not log in, is held by a handler
\* that has not ended: no order of logins, panics, deletions and restarts leaves
\* an account locked.
OnlineUsersAreHeld ==
    \A u \in online : \E h \in Holders(u) : at[h] # "gone"

\* Who is logged in once speaks on the own connection: what the server reads
\* for and writes to the user goes to the handler that holds the user.
SoleLoginOwnsInput ==
    \A h \in Conns :
        user[h] # None /\ user[h] \notin doubled /\ at[h] \notin {"loggedIn", "panicked"} =>
            /\ user[h] \in online /\ userConn[user[h]] = h
            /\ source[h] \in {h, None}

\* A character that is played hears events in its own session, unless its
\* user is logged in twice (the table of listeners has one entry for each
\* character).
PlayersHearEvents ==
    \A h \in Conns : Playing(h) /\ user[h] \notin doubled => listener[pc[h]] = h

\* A character shown in its room and in the list of players is being played.
OnlineCharactersArePlayed ==
    \A c \in playing : \E h \in Conns : pc[h] = c /\ Playing(h)

\* As long as no administrator is deleted or loses the flag, one of the users
\* is an administrator, in whatever order the first handlers to register count
\* the users and create their own (server.go:126-127).
SomebodyIsAdmin ==
    users # {} /\ ~demoted => admin \cap users # {}

\* The process dies of connections that watch each other only if there have
\* been two administrators.
OneAdminIsSafe == overflowed => \E a, b \in admins : a # b

\* A user whose connections are all lost does not stay online: the reader's
\* panic reaches the session, the session's the handler, and the handler
\* lets the user go, unless a command of the session never returned.
UsersAreReleased ==
    \A u \in Users :
        (u \in online /\ Holders(u) \cap up = {}) ~>
            \/ u \notin online \/ Holders(u) \cap up # {}
            \/ \E h \in Holders(u) : at[h] = "stuck"
=============================================================================
