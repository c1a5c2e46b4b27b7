----------------------------- MODULE UserSession -----------------------------
(***************************************************************************)
(* The session of the signed-in user (User.java) and the screens of the    *)
(* app that depend on it (UserSensitiveActivity.java).  Changes of the     *)
(* pointer users/<u>/group come to a listener on the main thread, which    *)
(* hands each to a thread of an unbounded pool; there setGroupId prepares  *)
(* a synchronizer, asks for the data of the group and swaps both under the *)
(* session's lock.  A change of the session's state is posted to the main  *)
(* thread for every screen that observes the session at that time.         *)
(*                                                                         *)
(* One object User, from init to the end of the process or of the          *)
(* session; a screen stays the same object in the background.              *)
(***************************************************************************)
EXTENDS Integers

CONSTANTS
    Groups,        \* groups that the user may be pointed to
    NoGroup,       \* null
    MaxChanges     \* bound: how often the pointer changes

ASSUME SessionAssumption ==
    /\ NoGroup \notin Groups
    /\ MaxChanges \in Nat

VARIABLES
    pointer,       \* users/<u>/group
    changes,       \* how often it changed
    attached,      \* groupListener is registered
    seen,          \* [count, group]: how many values it was given, and the last
    tasks,         \* setGroupId on the pool: [id, group, made]
    replies,       \* initGroup requests on their way: [id, group]
    user,          \* the fields of the object User
    listening,     \* the synchronizers that listen: [id, group], id that of their task
    observers,     \* the screens in the list of observers
    posts,         \* posts[k]: updates of screen k that the main thread has to run
    screen,        \* the screen on top: [kind, at, shown]
    photo,         \* a photo that has been taken: [at, album, via]
    late, silent, unseen    \* history: see Histories

link    == <<pointer, changes, attached, seen>>
pool    == <<tasks, replies>>
session == <<user, listening>>
history == <<late, silent, unseen>>
vars    == <<link, pool, session, observers, posts, screen, photo, history>>

MaybeGroup == Groups \union {NoGroup}
Kinds == {"main", "group", "management"}
Ats == {"opening", "starting", "registered", "shown", "leaving", "background", "login", "crashed"}
Ids == 1 .. MaxChanges + 1

Task == [id : Ids, group : MaybeGroup, made : BOOLEAN]
Synchronizer == [id : Ids, group : Groups]

\* late: a pool task or a reply overtook an earlier one, or was refused.  silent: the
\* data of the group changed without a notification.  unseen: the session ended while
\* the app was in the background.
Histories == {late, silent, unseen} \subseteq BOOLEAN

TypeOK ==
    /\ pointer \in MaybeGroup /\ changes \in 0 .. MaxChanges /\ attached \in BOOLEAN
    /\ seen \in [count : 0 .. MaxChanges + 1, group : MaybeGroup]
    /\ tasks \subseteq Task
    /\ replies \subseteq Synchronizer
    /\ user \in [groupId : MaybeGroup, synchronizer : SUBSET Synchronizer, info : MaybeGroup,
                 groupOK : BOOLEAN, ended : BOOLEAN]
    /\ listening \subseteq Synchronizer
    /\ observers \subseteq Kinds /\ posts \in [Kinds -> Nat]
    /\ screen \in [kind : Kinds, at : Ats, shown : MaybeGroup]
    /\ photo \in [at : {"none", "inserted", "handed"}, album : MaybeGroup, via : MaybeGroup]
    /\ Histories

Init ==
    /\ pointer \in MaybeGroup /\ changes = 0 /\ attached = TRUE
    /\ seen = [count |-> 0, group |-> NoGroup]
    /\ tasks = {} /\ replies = {} /\ listening = {}
    /\ user = [groupId |-> NoGroup, synchronizer |-> {}, info |-> NoGroup,
               groupOK |-> FALSE, ended |-> FALSE]
    /\ observers = {"main"} /\ posts = [k \in Kinds |-> 0]
    /\ screen = [kind |-> "main", at |-> "shown", shown |-> NoGroup]
    /\ photo = [at |-> "none", album |-> NoGroup, via |-> NoGroup]
    /\ late = FALSE /\ silent = FALSE /\ unseen = FALSE

InGroup == user.groupId # NoGroup

\* A pool thread or a reply overtakes what is in S.
Overtakes(id, S) == \E x \in S : x.id < id

\* The main thread is not within the message that starts a screen.
MainFree == screen.at \notin {"starting", "registered"}

\* setState, for a flag that changed or not: setChanged and notifyObservers.
Notify(changed) ==
    posts' = [k \in Kinds |-> IF changed /\ k \in observers THEN posts[k] + 1 ELSE posts[k]]

(***************************************************************************)
(* The session: the pointer, the listener and the pool.                    *)
(***************************************************************************)
\* The backend, on behalf of this user or of housekeeping, sets the pointer.
Point(g) ==
    /\ changes < MaxChanges /\ g # pointer
    /\ pointer' = g /\ changes' = changes + 1
    /\ UNCHANGED <<attached, seen, pool, session, observers, posts, screen, photo, history>>

\* Mutant: null is ignored, as it is for the name of the user.
HandOverPresent(g) ==
    /\ seen' = [count |-> seen.count + 1, group |-> g]
    /\ tasks' = tasks \union {[id |-> seen.count + 1, group |-> x, made |-> FALSE] :
                                 x \in {g} \ {NoGroup}}
    /\ UNCHANGED <<pointer, changes, replies, session, observers, posts, screen, photo, history>>

\* A value is handed to the pool.
HandOver(g) ==
    /\ seen' = [count |-> seen.count + 1, group |-> g]
    /\ tasks' = tasks \union {[id |-> seen.count + 1, group |-> g, made |-> FALSE]}
    /\ UNCHANGED <<pointer, changes, replies, session, observers, posts, screen, photo, history>>

\* groupListener: the current value when it is registered, then the changes; values
\* that were replaced before they reached the device may be left out.
Deliver ==
    /\ MainFree /\ attached /\ (seen.count = 0 \/ seen.group # pointer)
    /\ HandOver(pointer)
    /\ UNCHANGED attached

\* The database revokes the listener.
Cancel ==
    /\ MainFree /\ attached /\ seen.count <= MaxChanges
    /\ attached' = FALSE
    /\ HandOver(NoGroup)

\* Mutant: the group's data are requested for null too.
PrepareAny(t) ==
    /\ ~t.made
    /\ tasks' = (tasks \ {t}) \union {[t EXCEPT !.made = TRUE]}
    /\ replies' = replies \union {[id |-> t.id, group |-> t.group]}
    /\ UNCHANGED <<link, session, observers, posts, screen, photo, history>>

\* setGroupId before the lock: a synchronizer is made and the group's data requested.
Prepare(t) ==
    /\ ~t.made
    /\ tasks' = (tasks \ {t}) \union {[t EXCEPT !.made = TRUE]}
    /\ replies' = IF t.group = NoGroup THEN replies
                  ELSE replies \union {[id |-> t.id, group |-> t.group]}
    /\ UNCHANGED <<link, session, observers, posts, screen, photo, history>>

\* The synchronizer that a task has made, if any.
Made(t) == IF t.group = NoGroup THEN {} ELSE {[id |-> t.id, group |-> t.group]}

\* Mutant: the old synchronizer is stopped only when a new one takes its place.
ReplaceJoining(t) ==
    listening' = IF Made(t) = {} THEN listening ELSE (listening \ user.synchronizer) \union Made(t)

\* The old synchronizer is stopped and the new one listens.
Replace(t) == listening' = (listening \ user.synchronizer) \union Made(t)

\* Mutant: only the entry of a group is notified.
NotifyJoining(t) == Notify(t.group # NoGroup /\ ~InGroup)

\* The flag of being in a group is set.
NotifyGroup(t) == Notify((t.group # NoGroup) # InGroup)

\* setGroupId under the lock.
Swap(t) ==
    /\ t.made
    /\ tasks' = tasks \ {t}
    /\ late' = (late \/ Overtakes(t.id, tasks))
    /\ IF user.groupId = t.group THEN UNCHANGED <<session, posts>>
       ELSE /\ user' = [user EXCEPT !.groupId = t.group, !.synchronizer = Made(t)]
            /\ Replace(t) /\ NotifyGroup(t)
    /\ UNCHANGED <<link, replies, observers, screen, photo, silent, unseen>>

\* initGroup's reply; the group may be gone by then, or the read be refused.
Reply(r) ==
    /\ replies' = replies \ {r}
    /\ \/ \E data \in {r.group, NoGroup} :
            /\ user' = [user EXCEPT !.info = data, !.groupOK = TRUE]
            /\ Notify(~user.groupOK)
            /\ late' = (late \/ Overtakes(r.id, replies \union {t \in tasks : ~t.made}))
            /\ silent' = (silent \/ (user.groupOK /\ data # user.info))
       \/ late' = TRUE /\ UNCHANGED <<user, posts, silent>>
    /\ UNCHANGED <<link, tasks, listening, observers, screen, photo, unseen>>

\* stop(): the synchronizer goes on listening, and so do the tasks.
Stop ==
    /\ attached' = FALSE
    /\ user' = [user EXCEPT !.ended = TRUE]
    /\ Notify(~user.ended)
    /\ unseen' = (unseen \/ (observers = {} /\ screen.at \in {"background", "leaving"}))

\* authStateListener: the user is not signed in any more.
AuthLost ==
    /\ MainFree /\ ~user.ended
    /\ Stop
    /\ UNCHANGED <<pointer, changes, seen, pool, listening, observers, screen, photo,
                   late, silent>>

(***************************************************************************)
(* The screens.  The main thread runs one message after the other; the     *)
(* creation of a screen, its registration and its first look at the        *)
(* session are one message, but pool threads go on meanwhile.              *)
(***************************************************************************)
ShouldGoOn(k) == k = "main" \/ (k = "group" <=> InGroup)

Outside == <<link, pool, session, photo>>

\* Mutant: the main screen stops observing before the next one starts.
OpenUnobserved ==
    /\ screen.kind = "main" /\ screen.at = "shown"
    /\ screen' = [kind |-> IF InGroup THEN "group" ELSE "management", at |-> "opening",
                  shown |-> NoGroup]
    /\ observers' = {}
    /\ UNCHANGED <<Outside, posts, history>>

\* The item "groups" of the main screen: the class depends on isInGroup.
Open ==
    /\ screen.kind = "main" /\ screen.at = "shown"
    /\ screen' = [kind |-> IF InGroup THEN "group" ELSE "management", at |-> "opening",
                  shown |-> NoGroup]
    /\ UNCHANGED <<Outside, observers, posts, history>>

\* onCreate: the group screen builds a path from getGroupId, which may be null by now;
\* that ends the app.
Create ==
    /\ screen.at = "opening"
    /\ screen' = IF screen.kind = "group" /\ ~InGroup
                 THEN [screen EXCEPT !.at = "crashed"]
                 ELSE [screen EXCEPT !.at = "starting"]
    /\ UNCHANGED <<Outside, observers, posts, history>>

\* onStart: addObserver ...
Register ==
    /\ screen.at = "starting"
    /\ observers' = observers \union {screen.kind}
    /\ screen' = [screen EXCEPT !.at = "registered"]
    /\ UNCHANGED <<Outside, posts, history>>

\* onUserStateChanged of screen k; the group screen also shows the group's data.
Look(k) == screen' =
    [screen EXCEPT !.shown = IF k = "group" /\ k = screen.kind THEN user.info ELSE @,
                   !.at = IF ShouldGoOn(k) THEN (IF @ = "registered" THEN "shown" ELSE @)
                          ELSE "leaving"]

\* ... then onUserStateChanged.  The main screen stops when another one is shown.
Check ==
    /\ screen.at = "registered"
    /\ Look(screen.kind)
    /\ observers' = observers \intersect {screen.kind}
    /\ UNCHANGED <<Outside, posts, history>>

\* updateInternal: a posted update.  It may be that of a screen left meanwhile.
Update(k) ==
    /\ MainFree /\ posts[k] > 0
    /\ posts' = [posts EXCEPT ![k] = @ - 1]
    /\ IF user.ended THEN screen' = [screen EXCEPT !.at = "login"]
       ELSE IF screen.at = "login" THEN UNCHANGED screen ELSE Look(k)
    /\ UNCHANGED <<Outside, observers, history>>

\* The back button and the answers of the backend lead to the main screen as well.
Back ==
    /\ screen.kind # "main" /\ screen.at = "shown"
    /\ screen' = [screen EXCEPT !.at = "leaving"]
    /\ UNCHANGED <<Outside, observers, posts, history>>

\* The main screen starts, the one above it stops.
Leave ==
    /\ screen.at = "leaving"
    /\ screen' = [kind |-> "main", at |-> "shown", shown |-> NoGroup]
    /\ observers' = {"main"}
    /\ UNCHANGED <<Outside, posts, history>>

\* The app goes to the background and returns: onStop, onStart.
Hide ==
    /\ screen.at = "shown"
    /\ screen' = [screen EXCEPT !.at = "background"]
    /\ observers' = {}
    /\ UNCHANGED <<Outside, posts, history>>

Return ==
    /\ screen.at = "background"
    /\ screen' = [screen EXCEPT !.at = "starting"]
    /\ UNCHANGED <<Outside, observers, posts, history>>

\* onBackPressed of the main screen: User.end() and signOut.
End ==
    /\ screen.kind = "main" /\ screen.at = "shown"
    /\ Stop
    /\ screen' = [screen EXCEPT !.at = "login"]
    /\ UNCHANGED <<pointer, changes, seen, pool, listening, observers, photo, late, silent>>

(***************************************************************************)
(* A photo: the pool thread reads the group, inserts the photo in its      *)
(* album and hands it to the synchronizer of the session.                  *)
(***************************************************************************)
InsertPhoto ==
    /\ photo.at = "none" /\ InGroup
    /\ photo' = [photo EXCEPT !.at = "inserted", !.album = user.groupId]
    /\ UNCHANGED <<link, pool, session, observers, posts, screen, history>>

\* There may be no synchronizer by now, which ends the app, or that of another group.
HandPhoto ==
    /\ photo.at = "inserted"
    /\ IF user.synchronizer = {}
       THEN screen' = [screen EXCEPT !.at = "crashed"] /\ UNCHANGED photo
       ELSE /\ \E s \in user.synchronizer :
                 photo' = [photo EXCEPT !.at = "handed", !.via = s.group]
            /\ UNCHANGED screen
    /\ UNCHANGED <<link, pool, session, observers, posts, history>>

(***************************************************************************)
(* Specification.                                                          *)
(***************************************************************************)
PoolStep ==
    \/ \E t \in tasks : Prepare(t) \/ Swap(t)
    \/ \E r \in replies : Reply(r)
    \/ InsertPhoto \/ HandPhoto

MainStep == Create \/ Register \/ Check \/ Leave \/ \E k \in Kinds : Update(k)

UserStep == Open \/ Back \/ Hide \/ Return \/ End

Next ==
    /\ screen.at # "crashed"
    /\ \/ \E g \in MaybeGroup : Point(g)
       \/ Deliver \/ Cancel \/ AuthLost
       \/ PoolStep \/ MainStep \/ UserStep

Spec == Init /\ [][Next]_vars

(***************************************************************************)
(* Properties.                                                             *)
(***************************************************************************)
\* However tasks overtake each other and whenever the session ends, exactly one
\* synchronizer listens while the session is in a group, that of its group, and none
\* otherwise: setGroupId loses no synchronizer that it has told to listen.
OneSynchronizer ==
    /\ listening = user.synchronizer
    /\ IF InGroup THEN \E i \in Ids : listening = {[id |-> i, group |-> user.groupId]}
       ELSE listening = {}

\* When all values have been handled and nothing overtook anything, the session is in
\* the group of the pointer and shows the data of no other group.
SessionFollows ==
    (attached /\ seen.count > 0 /\ seen.group = pointer /\ tasks = {} /\ ~late) =>
        /\ user.groupId = pointer
        /\ (replies = {} /\ InGroup) => user.info \in {user.groupId, NoGroup}

\* A screen on which no update is waiting belongs to the state of the session: a group
\* screen is not shown without a group nor the others with one, and the group screen
\* shows the data the session has, unless these changed without a notification.
ScreenNotice ==
    (screen.at = "shown" /\ posts[screen.kind] = 0 /\ ~user.ended) =>
        /\ ShouldGoOn(screen.kind)
        /\ (screen.kind = "group" /\ ~silent) => screen.shown = user.info

\* A session that ended while the app was in the foreground has led to the login
\* screen once all updates were run.
EndNoticed ==
    (user.ended /\ ~unseen /\ screen.at \in {"shown", "background"}) =>
        \E k \in Kinds : posts[k] > 0
==============================================================================
