------------------------------- MODULE Backend -------------------------------
(***************************************************************************)
(* The whole backend: the group registry and the web file manager of       *)
(* main.py, whose requests are served by the same workers and work on the  *)
(* same bucket.                                                            *)
(*                                                                         *)
(* A browser keeps the Flask session in a cookie: the group its user       *)
(* pointed to at login, however long ago.  As in GroupRegistry, images     *)
(* only tells whether a group has files, which may be several, and an      *)
(* action is one remote call with the local code up to the next.  A user   *)
(* has one browser, with any number of tabs.                               *)
(***************************************************************************)
EXTENDS GroupRegistry

CONSTANTS
    Browsers,       \* the users who ever sign in to the file manager (a bound)
    NoSession       \* a browser that is not signed in

ASSUME BackendAssumption ==
    /\ Browsers \subseteq Users
    /\ NoSession \notin GroupIds \union {NoGroup}

VARIABLES
    session,        \* the session cookie of each user's browser
    web,            \* the file manager's request a worker is serving
    disturbed,      \* history: groups served by two workers at once, or of which a
                    \* join began without the record or failed half-way
    strewn          \* history: groups whose delete was cut off with the record gone and
                    \* files left, or that got a file with the record gone or about to go

\* No guard reads the history.
hindsight == <<disturbed, strewn>>
bvars == <<vars, session, web, hindsight>>

\* login lists the files; delete removes one and then lists them.
WebSteps == {"web list", "web get", "web put", "web find", "web remove"}

NoRequest == [at |-> "none", user |-> NoUser, group |-> NoGroup, login |-> FALSE]
WebRequest == [at : WebSteps \union {"none"}, user : Browsers \union {NoUser},
               group : GroupIds \union {NoGroup}, login : BOOLEAN]

\* The types, and that the file manager only ever works on a group that was created.
WebOK ==
    /\ session \in [Browsers -> GroupIds \union {NoGroup, NoSession}]
    /\ web \in [Workers -> WebRequest]
    /\ disturbed \subseteq GroupIds /\ strewn \subseteq GroupIds
    /\ \A u \in Browsers : session[u] \in GroupIds => session[u] \in pushed
    /\ \A w \in Workers : web[w] # NoRequest =>
         web[w].at \in WebSteps /\ web[w].user \in Browsers /\ web[w].group \in pushed

BackendInit ==
    /\ Init
    /\ session = [u \in Browsers |-> NoSession]
    /\ web = [w \in Workers |-> NoRequest]
    /\ disturbed = {} /\ strewn = {}

-----------------------------------------------------------------------------
Free(w) == job[w] = Idle /\ web[w] = NoRequest
WebAt(w, step) == web[w].at = step
WebGoto(w, step) == web' = [web EXCEPT ![w].at = step]
Listed(w) == web[w].group \in images

\* The response carries the session of a login, whether the files could be
\* listed or not; a delete leaves the cookie as it is.
Respond(w) ==
    /\ web' = [web EXCEPT ![w] = NoRequest]
    /\ session' = IF web[w].login THEN [session EXCEPT ![web[w].user] = web[w].group]
                                  ELSE session

OnlyWeb == UNCHANGED vars
OnlyImages == UNCHANGED <<pointer, groups, photos, history>>

\* Mutant: the session is given the user id for the group's.
LoginUser(w, u) ==
    /\ Free(w)
    /\ session' = [session EXCEPT ![u] = u]
    /\ UNCHANGED web
    /\ OnlyWeb

\* POST /login: a user without a group gets an empty page at once.
Login(w, u) ==
    /\ Free(w)
    /\ IF pointer[u] = NoGroup
         THEN session' = [session EXCEPT ![u] = NoGroup] /\ UNCHANGED web
         ELSE /\ web' = [web EXCEPT ![w] = [at |-> "web list", user |-> u,
                                            group |-> pointer[u], login |-> TRUE]]
              /\ UNCHANGED session
    /\ OnlyWeb

Logout(u) ==
    /\ session' = [session EXCEPT ![u] = NoSession]
    /\ UNCHANGED web
    /\ OnlyWeb

\* POST /delete: without a group in the session it raises before it does anything.
DeleteFile(w, u) ==
    /\ Free(w)
    /\ session[u] \in GroupIds
    /\ web' = [web EXCEPT ![w] = [at |-> "web find", user |-> u,
                                  group |-> session[u], login |-> FALSE]]
    /\ UNCHANGED session
    /\ OnlyWeb

(* delete_specific_file: the file may be one of several, or none of them *)

Find(w) ==
    /\ WebAt(w, "web find")
    /\ WebGoto(w, "web list") \/ (Listed(w) /\ WebGoto(w, "web remove"))
    /\ UNCHANGED session
    /\ OnlyWeb

\* Raises when the file is no longer there.
Remove(w) ==
    /\ WebAt(w, "web remove")
    /\ \/ /\ Listed(w)
          /\ images' \in {images, images \ {web[w].group}}
          /\ WebGoto(w, "web list")
          /\ UNCHANGED session
       \/ UNCHANGED images /\ Respond(w)
    /\ UNCHANGED job
    /\ OnlyImages

\* A handler that is removing the files of a group one by one raises at a file that
\* somebody else removes: delete() ends, a round takes the next group.
Interrupted(w) == IF At(w, "hk images") THEN NextGroup(w) ELSE Idle
Removing(w, g) == job[w].at \in {"owner images", "hk images"} /\ job[w].group = g

Raise(w) ==
    /\ Removing(w, job[w].group)
    /\ \E v \in Workers \ {w} :
         Removing(v, job[w].group) \/ (WebAt(v, "web remove") /\ web[v].group = job[w].group)
    /\ job' = [job EXCEPT ![w] = Interrupted(w)]
    /\ UNCHANGED <<session, web, images>>
    /\ OnlyImages

(* get_download_url: each file listed is downloaded and put back *)

List(w) ==
    /\ WebAt(w, "web list")
    /\ IF Listed(w) THEN WebGoto(w, "web get") /\ UNCHANGED session ELSE Respond(w)
    /\ OnlyWeb

\* Raises when the file is no longer there.
Get(w) ==
    /\ WebAt(w, "web get")
    /\ \/ Listed(w) /\ WebGoto(w, "web put") /\ UNCHANGED session
       \/ Respond(w)
    /\ OnlyWeb

\* Then comes the next file, or the response.
Put(w) ==
    /\ WebAt(w, "web put")
    /\ images' = images \union {web[w].group}
    /\ (WebGoto(w, "web get") /\ UNCHANGED session) \/ Respond(w)
    /\ UNCHANGED job
    /\ OnlyImages

\* A call raises, or the worker dies and sends no response.
WebFail(w) ==
    /\ web[w].at \in WebSteps \intersect FailAt
    /\ failures < MaxFailures
    /\ failures' = failures + 1
    /\ Respond(w) \/ (web' = [web EXCEPT ![w] = NoRequest] /\ UNCHANGED session)
    /\ UNCHANGED <<store, expired, pushed, lastToken, job>>

-----------------------------------------------------------------------------
\* A step of the registry, of the clock or of an app: a worker starts on a request
\* of the registry only when it serves none of the file manager.
RegistryStep ==
    /\ Next
    /\ \A w \in Workers : job'[w] = job[w] \/ web[w] = NoRequest
    /\ UNCHANGED <<session, web>>

WebStep ==
    \/ \E w \in Workers, u \in Browsers : Login(w, u) \/ DeleteFile(w, u)
    \/ \E w \in Workers :
         Find(w) \/ Remove(w) \/ Raise(w) \/ List(w) \/ Get(w) \/ Put(w) \/ WebFail(w)
    \/ \E u \in Browsers : Logout(u)

(* The history of a group *)

Overlapped(g) == \E v, w \in Workers : v # w /\ job'[v].group = g /\ job'[w].group = g

\* The steps of a join between the pointing and the listing of its user.
HalfJoined == {"join point", "join rotate", "join members", "join write"}

JoinFails(g) == \E w \in Workers :
    job[w].at \in HalfJoined /\ job[w].group = g /\ failures' # failures /\ job'[w] = Idle

JoinsGone(g) == \E w \in Workers :
    At(w, "idle") /\ job'[w].at = "join read" /\ job'[w].group = g /\ ~Known(g)

\* The record of g is gone, and its files are next.
Emptying(w, g) == At(w, "owner images") /\ job[w].group = g

DeleteCutOff(g) == \E w \in Workers : Emptying(w, g) /\ job'[w] = Idle /\ g \in images'

FileLate(g) ==
    /\ g \in images' \ images
    /\ ~Known(g)' \/ \E w \in Workers : At(w, "hk remove") /\ job[w].group = g

BackendNext ==
    /\ RegistryStep \/ WebStep
    /\ disturbed' = disturbed \union
         {g \in GroupIds : Overlapped(g) \/ JoinFails(g) \/ JoinsGone(g)}
    /\ strewn' = strewn \union {g \in GroupIds : DeleteCutOff(g) \/ FileLate(g)}

BackendSpec == BackendInit /\ [][BackendNext]_bvars

-----------------------------------------------------------------------------
Unserved(g) == \A w \in Workers : job[w].group # g

\* Whoever points to a group is listed in it, and it has an end_time, once the
\* requests for it are done: if not, the app shows a group that cannot be loaded, and
\* create() and update() turn the user away for ever, since strptime raises.  Stated
\* for a group that was not disturbed itself, whatever interleaves and fails around
\* it: handlers of other groups move and clear the same pointers, and leaves, removals
\* and rounds of this one may fail at any call.
NoDanglingPointer == \A g \in GroupIds \ disturbed : Unserved(g) =>
    \A u \in Users : pointer[u] = g => Known(g) /\ u \in groups[g].members

\* "Delete the group and images", "remove expired groups": a group without a record
\* keeps files only when a delete was cut off between the two, or when a file came
\* too late (an upload under way, a page that puts back what it has listed).  No
\* other failure, no interleaving of removals, joins, rounds and the file manager
\* orphans a file: a round that fails is always found again by the next.
NoOrphanFiles == \A g \in images :
    Known(g) \/ g \in strewn \/ \E w \in Workers : Emptying(w, g)

\* With the file manager in place, the record and the photos of a group are still
\* destroyed only after its end_time or on behalf of its creator, and its files
\* otherwise only by a request of the file manager that was started for this group.
RightfulDestruction == [][\A g \in GroupIds : Destroys(g) =>
    \/ g \in expired \/ BeingDeleted(g)
    \/ /\ Known(g)' /\ g \notin photos \ photos'
       /\ \E w \in Workers : WebAt(w, "web remove") /\ web[w].group = g]_bvars

-----------------------------------------------------------------------------
(***************************************************************************)
(* The strengthenings of NoDanglingPointer and NoOrphanFiles that every    *)
(* step preserves.                                                         *)
(***************************************************************************)

\* The join of u has pointed u to g, or will, and will list u there.
Admitting(w, u, g) ==
    job[w].at \in HalfJoined /\ job[w].user = u /\ job[w].group = g

\* Whoever points to g is listed there, but for the user a join is about to list.
PointersSound(g) == \A u \in Users : pointer[u] = g =>
    Known(g) /\ (u \in groups[g].members \/ \E w \in Workers : Admitting(w, u, g))

\* What the handler has read and done is still so.
HandlerSound(w) ==
    LET j == job[w]
        g == j.group
        members == groups[g].members
    IN  /\ j.at \in {"create point", "create keep"} => Known(g) /\ j.user \in members
        /\ j.at \in JoinSteps => Known(g)
        /\ j.at = "join write" => j.list = members \union {j.user}
        /\ j.at \in {"leave members", "leave write"} => pointer[j.user] # g
        /\ j.at = "leave write" => j.list = members \ {j.user}
        /\ j.at \in {"owner clear", "hk clear"} =>
             \A u \in Users : pointer[u] = g => u \in j.list
        /\ j.at \in {"owner remove", "owner images", "hk images", "hk remove"} =>
             \A u \in Users : pointer[u] # g

\* One worker at most serves g.
Alone(g) == \A v, w \in Workers : job[v].group = g /\ job[w].group = g => v = w

GroupSound(g) ==
    /\ Alone(g)
    /\ PointersSound(g)
    /\ \A w \in Workers : job[w].group = g => HandlerSound(w)

\* Until the round removes the record, it has removed the files.
Emptied(w) == At(w, "hk remove") =>
    job[w].group \notin images \/ job[w].group \in strewn

StoreInv ==
    /\ \A g \in GroupIds \ disturbed : GroupSound(g)
    /\ NoOrphanFiles
    /\ \A w \in Workers : Emptied(w)

==============================================================================
