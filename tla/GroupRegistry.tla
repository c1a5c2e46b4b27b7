---------------------------- MODULE GroupRegistry ----------------------------
(***************************************************************************)
(* The group registry of the backend: groups.py behind the create, join,   *)
(* delete and housekeeping routes of main.py.                              *)
(*                                                                         *)
(* Every request runs in a gunicorn worker of some instance, and all that  *)
(* the workers share is the Firebase database and the storage bucket.  A   *)
(* handler is a sequence of remote calls, none of which is a transaction,  *)
(* so one action here is one remote call together with the local code up   *)
(* to the next call; the calls of different workers interleave.  Any call  *)
(* may raise: the handler then ends where it stands and undoes nothing.    *)
(***************************************************************************)
EXTENDS Naturals, FiniteSets

CONSTANTS
    Users,          \* user ids
    GroupIds,       \* push ids of the groups that are ever created (a bound)
    Workers,        \* gunicorn workers that serve requests
    NoUser,         \* an absent "creator"
    NoGroup,        \* an absent "group" of a user
    MaxTokens,      \* bound: one-time tokens ever generated
    MaxFailures,    \* bound: remote calls that raise, or workers that die
    FailAt,         \* the steps at which such a failure may strike
    StaleRequests,  \* whether an app may ask to leave a group that lists its
                    \* user when the user no longer points to it
    LateUploads     \* whether an upload may end when no user points to the group
                    \* any more (a bound when FALSE)

ASSUME RegistryAssumption ==
    /\ NoUser \notin Users
    /\ NoGroup \notin GroupIds
    /\ MaxTokens \in Nat
    /\ MaxFailures \in Nat
    /\ StaleRequests \in BOOLEAN
    /\ LateUploads \in BOOLEAN

VARIABLES
    pointer,        \* users/<u>/group
    groups,         \* groups/<g>: creator, token and members
    photos,         \* the groups with a photos/<g> node
    images,         \* the groups with a file under images/<g>/ in the bucket
    expired,        \* the groups whose end_time has passed
    pushed,         \* the ids push() has returned: it never returns one twice
    lastToken,      \* the number of tokens uuid4() has drawn: all are distinct
    failures,       \* failures so far
    job             \* what each worker is doing

store == <<pointer, groups, photos, images>>
history == <<expired, pushed, lastToken, failures>>
vars == <<store, history, job>>

Token == 0 .. MaxTokens             \* 0 is an absent token

(***************************************************************************)
(* A database node exists while one of its children does, so the removal   *)
(* of groups/<g> and the absence of all its fields are one thing, and so   *)
(* are an empty members list and an absent one.  name, start_time and      *)
(* end_time are written and removed with the creator and stand and fall    *)
(* with it.                                                                *)
(***************************************************************************)
Absent == [creator |-> NoUser, token |-> 0, members |-> {}]

Exists(g) == groups[g] # Absent
Known(g) == groups[g].creator # NoUser       \* it has an end_time
Valid(g) == Known(g) /\ g \notin expired     \* end_time > now
Overdue(g) == Known(g) /\ g \in expired

CreateSteps == {"create check", "create push", "create point", "create keep"}
JoinSteps == {"join read", "join check", "join patch", "join point", "join rotate",
              "join members", "join write"}
OwnerSteps == {"owner unpoint", "owner photos", "owner members", "owner clear",
               "owner remove", "owner images"}
LeaveSteps == {"leave unpoint", "leave members", "leave write"}
BatchSteps == {"hk photos", "hk members", "hk clear", "hk images", "hk remove"}
Housekeeping == BatchSteps \union {"hk next"}
Steps == CreateSteps \union JoinSteps \union OwnerSteps \union LeaveSteps \union Housekeeping

Idle == [at |-> "idle", user |-> NoUser, group |-> NoGroup, old |-> NoGroup,
         token |-> 0, list |-> {}, queue |-> {}]

\* The local variables of a handler: the user and group of the request, the
\* group the user pointed to, the token presented, the members list it works
\* on, and the groups the housekeeper has still to look at.
Job == [at : Steps \union {"idle"},
        user : Users \union {NoUser},
        group : GroupIds \union {NoGroup},
        old : GroupIds \union {NoGroup},
        token : Token,
        list : SUBSET Users,
        queue : SUBSET GroupIds]

Record == [creator : Users \union {NoUser}, token : Token, members : SUBSET Users]

TypeOK ==
    /\ pointer \in [Users -> GroupIds \union {NoGroup}]
    /\ groups \in [GroupIds -> Record]
    /\ photos \subseteq GroupIds
    /\ images \subseteq GroupIds
    /\ expired \subseteq GroupIds
    /\ pushed \subseteq GroupIds
    /\ lastToken \in Token
    /\ failures \in 0 .. MaxFailures
    /\ job \in [Workers -> Job]

Init ==
    /\ pointer = [u \in Users |-> NoGroup]
    /\ groups = [g \in GroupIds |-> Absent]
    /\ photos = {} /\ images = {}
    /\ expired = {} /\ pushed = {}
    /\ lastToken = 0 /\ failures = 0
    /\ job = [w \in Workers |-> Idle]

-----------------------------------------------------------------------------
At(w, step) == job[w].at = step
Goto(w, step) == job' = [job EXCEPT ![w].at = step]
Finish(w) == job' = [job EXCEPT ![w] = Idle]
Point(u, g) == pointer' = [pointer EXCEPT ![u] = g]

\* Bounds: a handler that will draw a token, or push a group, only starts while
\* one is left for it.
Drawing == {w \in Workers : job[w].at \in
    {"create check", "create push", "join read", "join check", "join patch",
     "join point", "join rotate"}}
Creating == {w \in Workers : job[w].at \in {"create check", "create push"}}
TokenLeft == lastToken + Cardinality(Drawing) < MaxTokens
IdLeft == Cardinality(Creating) < Cardinality(GroupIds \ pushed)

\* The check create() and update() share: the end_time of the group the user
\* points to.  strptime raises when the group has none, and a user whose group
\* is still active is turned away; both end the request.
CheckOldGroup(w, from, to) ==
    /\ At(w, from)
    /\ IF Overdue(job[w].old)
         THEN job' = [job EXCEPT ![w].at = to, ![w].old = NoGroup]
         ELSE Finish(w)
    /\ UNCHANGED <<store, history>>

(* create(group_name, validity, author) *)

CreateStart(w, u) ==
    /\ At(w, "idle")
    /\ TokenLeft /\ IdLeft
    /\ job' = [job EXCEPT ![w] = [Idle EXCEPT
                 !.at = IF pointer[u] = NoGroup THEN "create push" ELSE "create check",
                 !.user = u,
                 !.old = pointer[u]]]
    /\ UNCHANGED <<store, history>>

CreateCheck(w) == CheckOldGroup(w, "create check", "create push")

CreatePush(w, g) ==
    /\ At(w, "create push")
    /\ g \notin pushed
    /\ lastToken < MaxTokens
    /\ pushed' = pushed \union {g}
    /\ lastToken' = lastToken + 1
    /\ groups' = [groups EXCEPT ![g] =
         [creator |-> job[w].user, token |-> lastToken + 1, members |-> {job[w].user}]]
    /\ job' = [job EXCEPT ![w].at = "create point", ![w].group = g]
    /\ UNCHANGED <<pointer, photos, images, expired, failures>>

\* Mutant: the user id is written where the group id belongs.
CreatePointUser(w) ==
    /\ At(w, "create point")
    /\ Point(job[w].user, job[w].user)
    /\ Goto(w, "create keep")
    /\ UNCHANGED <<groups, photos, images, history>>

CreatePoint(w) ==
    /\ At(w, "create point")
    /\ Point(job[w].user, job[w].group)
    /\ Goto(w, "create keep")
    /\ UNCHANGED <<groups, photos, images, history>>

CreateKeep(w) ==
    /\ At(w, "create keep")
    /\ images' = images \union {job[w].group}
    /\ Finish(w)
    /\ UNCHANGED <<pointer, groups, photos, history>>

(* update(group_id, user_id, user_token): join *)

\* A token that is not the group's current one raises and changes nothing; a group
\* that has none any more is joined with null.
JoinStart(w, u, g) ==
    /\ At(w, "idle")
    /\ g \in pushed
    /\ TokenLeft
    /\ job' = [job EXCEPT ![w] = [Idle EXCEPT
                 !.at = "join read", !.user = u, !.group = g, !.token = groups[g].token]]
    /\ UNCHANGED <<store, history>>

JoinRead(w) ==
    /\ At(w, "join read")
    /\ LET g == pointer[job[w].user]
       IN  job' = [job EXCEPT
             ![w].at = IF g = NoGroup THEN "join point" ELSE "join check",
             ![w].old = g]
    /\ UNCHANGED <<store, history>>

JoinCheck(w) == CheckOldGroup(w, "join check", "join patch")

\* update() is given a string where the database wants an object: whether it
\* stores the string or refuses it is the database's choice.
JoinPatch(w) ==
    /\ At(w, "join patch")
    /\ \/ Point(job[w].user, job[w].group) /\ Goto(w, "join point")
       \/ Finish(w) /\ UNCHANGED pointer
    /\ UNCHANGED <<groups, photos, images, history>>

JoinPoint(w) ==
    /\ At(w, "join point")
    /\ Point(job[w].user, job[w].group)
    /\ Goto(w, "join rotate")
    /\ UNCHANGED <<groups, photos, images, history>>

\* Writes a child of groups/<g>, whether the group is still there or not.
JoinRotate(w) ==
    /\ At(w, "join rotate")
    /\ lastToken < MaxTokens
    /\ lastToken' = lastToken + 1
    /\ groups' = [groups EXCEPT ![job[w].group].token = lastToken + 1]
    /\ Goto(w, "join members")
    /\ UNCHANGED <<pointer, photos, images, expired, pushed, failures>>

\* "user_id in members" raises when there is no list, and the code raises when
\* the user is in it.
JoinMembers(w) ==
    /\ At(w, "join members")
    /\ LET members == groups[job[w].group].members
       IN  IF members = {} \/ job[w].user \in members
             THEN Finish(w)
             ELSE job' = [job EXCEPT ![w].at = "join write",
                                     ![w].list = members \union {job[w].user}]
    /\ UNCHANGED <<store, history>>

WriteMembers(w, step) ==
    /\ At(w, step)
    /\ groups' = [groups EXCEPT ![job[w].group].members = job[w].list]
    /\ Finish(w)
    /\ UNCHANGED <<pointer, photos, images, history>>

JoinWrite(w) == WriteMembers(w, "join write")

(* delete(group_id, user_id): the creator deletes, another member leaves *)

IsOwnerNever(u, g) == FALSE         \* mutant: nobody is told from the creator
IsOwnerAlways(u, g) == TRUE         \* mutant: everybody may delete
IsOwner(u, g) == groups[g].creator = u

\* The app sends the group it displays: the one its user points to or, when
\* the news of a change has not reached it, one the user was listed in.
DeleteStart(w, u, g) ==
    /\ At(w, "idle")
    /\ pointer[u] = g \/ (StaleRequests /\ u \in groups[g].members)
    /\ job' = [job EXCEPT ![w] = [Idle EXCEPT
                 !.at = IF IsOwner(u, g) THEN "owner unpoint" ELSE "leave unpoint",
                 !.user = u,
                 !.group = g]]
    /\ UNCHANGED <<store, history>>

\* Mutant: the pointer is left as it is.
UnpointForgotten(w, from, to) ==
    /\ At(w, from)
    /\ Goto(w, to)
    /\ UNCHANGED <<store, history>>

Unpoint(w, from, to) ==
    /\ At(w, from)
    /\ Point(job[w].user, NoGroup)
    /\ Goto(w, to)
    /\ UNCHANGED <<groups, photos, images, history>>

\* members.remove() raises when the list is missing or lacks the user.
LeaveMembers(w) ==
    /\ At(w, "leave members")
    /\ LET members == groups[job[w].group].members
       IN  IF job[w].user \in members
             THEN job' = [job EXCEPT ![w].at = "leave write",
                                     ![w].list = members \ {job[w].user}]
             ELSE Finish(w)
    /\ UNCHANGED <<store, history>>

LeaveUnpoint(w) == Unpoint(w, "leave unpoint", "leave members")
LeaveWrite(w) == WriteMembers(w, "leave write")

\* The steps delete() and batch_delete() share.
RemovePhotos(w, from, to) ==
    /\ At(w, from)
    /\ photos' = photos \ {job[w].group}
    /\ Goto(w, to)
    /\ UNCHANGED <<pointer, groups, images, history>>

\* Iterating over a missing list raises: the handler goes where its exceptions go.
LoadMembers(w, from, to, raise) ==
    /\ At(w, from)
    /\ LET members == groups[job[w].group].members
       IN  job' = [job EXCEPT ![w] = IF members # {}
                                       THEN [@ EXCEPT !.at = to, !.list = members]
                                       ELSE raise]
    /\ UNCHANGED <<store, history>>

\* One turn of "for member in members": whatever group the member points to now.
ClearMember(w, m, from, to) ==
    /\ At(w, from)
    /\ m \in job[w].list
    /\ Point(m, NoGroup)
    /\ job' = [job EXCEPT ![w].list = @ \ {m},
                          ![w].at = IF job[w].list = {m} THEN to ELSE from]
    /\ UNCHANGED <<groups, photos, images, history>>

RemoveRecord(w, from, then) ==
    /\ At(w, from)
    /\ groups' = [groups EXCEPT ![job[w].group] = Absent]
    /\ job' = [job EXCEPT ![w] = then]
    /\ UNCHANGED <<pointer, photos, images, history>>

RemoveImages(w, from, then) ==
    /\ At(w, from)
    /\ images' = images \ {job[w].group}
    /\ job' = [job EXCEPT ![w] = then]
    /\ UNCHANGED <<pointer, groups, photos, history>>

OwnerUnpoint(w) == Unpoint(w, "owner unpoint", "owner photos")
OwnerPhotos(w) == RemovePhotos(w, "owner photos", "owner members")
OwnerMembers(w) == LoadMembers(w, "owner members", "owner clear", Idle)
OwnerClear(w, m) == ClearMember(w, m, "owner clear", "owner remove")
OwnerRemove(w) == RemoveRecord(w, "owner remove", [job[w] EXCEPT !.at = "owner images"])
OwnerImages(w) == RemoveImages(w, "owner images", Idle)

(* housekeeper_cron() and batch_delete(group) *)

\* A round looks at the groups of one snapshot.  App Engine starts a round only
\* when the one before has ended.
RoundStart(w) ==
    /\ At(w, "idle")
    /\ \A v \in Workers : job[v].at \notin Housekeeping
    /\ job' = [job EXCEPT ![w] = [Idle EXCEPT
                 !.at = "hk next", !.queue = {g \in GroupIds : Exists(g)}]]
    /\ UNCHANGED <<store, history>>

\* The worker back in the loop over the snapshot, as after a caught exception.
NextGroup(w) == [Idle EXCEPT !.at = "hk next", !.queue = job[w].queue]

\* Reads the end_time of a group: a valid one is left alone, and the exception
\* for one without an end_time is caught.
RoundNext(w, g) ==
    /\ At(w, "hk next")
    /\ g \in job[w].queue
    /\ job' = [job EXCEPT ![w] =
         [Idle EXCEPT !.at = IF Overdue(g) THEN "hk photos" ELSE "hk next",
                      !.group = IF Overdue(g) THEN g ELSE NoGroup,
                      !.queue = job[w].queue \ {g}]]
    /\ UNCHANGED <<store, history>>

RoundEnd(w) ==
    /\ At(w, "hk next")
    /\ job[w].queue = {}
    /\ Finish(w)
    /\ UNCHANGED <<store, history>>

BatchPhotos(w) == RemovePhotos(w, "hk photos", "hk members")
BatchMembers(w) == LoadMembers(w, "hk members", "hk clear", NextGroup(w))
BatchClear(w, m) == ClearMember(w, m, "hk clear", "hk images")

\* Mutant: the record goes first, as in delete().
BatchFinishRecordFirst(w) ==
    \/ RemoveRecord(w, "hk images", [job[w] EXCEPT !.at = "hk remove"])
    \/ RemoveImages(w, "hk remove", NextGroup(w))

\* The record goes last: until then the next round finds the group again.
BatchFinish(w) ==
    \/ RemoveImages(w, "hk images", [job[w] EXCEPT !.at = "hk remove"])
    \/ RemoveRecord(w, "hk remove", NextGroup(w))

-----------------------------------------------------------------------------
(* Failures, the clock and the apps *)

\* A remote call raises, or the worker is killed: the request is over.  What
\* the handler wrote before stays.
Fail(w) ==
    /\ job[w].at \in FailAt
    /\ failures < MaxFailures
    /\ failures' = failures + 1
    /\ Finish(w)
    /\ UNCHANGED <<store, expired, pushed, lastToken>>

\* A call inside batch_delete raises: the exception is caught there, and the
\* round goes on with the next group.
BatchFail(w) ==
    /\ job[w].at \in BatchSteps \intersect FailAt
    /\ failures < MaxFailures
    /\ failures' = failures + 1
    /\ job' = [job EXCEPT ![w] = NextGroup(w)]
    /\ UNCHANGED <<store, expired, pushed, lastToken>>

Expire(g) ==
    /\ Valid(g)
    /\ expired' = expired \union {g}
    /\ UNCHANGED <<store, pushed, lastToken, failures, job>>

\* While a user points to a group the app on the user's device takes photos into
\* it: it pushes a photos/<g> node and, at another time, uploads the file.  An upload
\* under way goes on when the user has left the group, or the group is gone.
PushPhoto(u) ==
    /\ pointer[u] # NoGroup
    /\ photos' = photos \union {pointer[u]}
    /\ UNCHANGED <<pointer, groups, images, history, job>>

UploadFile(g) ==
    /\ g \in pushed
    /\ LateUploads \/ \E u \in Users : pointer[u] = g
    /\ images' = images \union {g}
    /\ UNCHANGED <<pointer, groups, photos, history, job>>

-----------------------------------------------------------------------------
\* Requests that reach an idle worker: routes create, join and delete of main.py
\* and, from the cron service, housekeeping.
Request(w) ==
    \/ \E u \in Users : CreateStart(w, u)
    \/ \E u \in Users, g \in GroupIds : JoinStart(w, u, g)
    \/ \E u \in Users, g \in GroupIds : DeleteStart(w, u, g)

CreateStep(w) ==
    \/ CreateCheck(w)
    \/ \E g \in GroupIds : CreatePush(w, g)
    \/ CreatePoint(w)
    \/ CreateKeep(w)

JoinStep(w) ==
    \/ JoinRead(w) \/ JoinCheck(w) \/ JoinPatch(w) \/ JoinPoint(w)
    \/ JoinRotate(w) \/ JoinMembers(w) \/ JoinWrite(w)

DeleteStep(w) ==
    \/ OwnerUnpoint(w) \/ OwnerPhotos(w) \/ OwnerMembers(w)
    \/ \E m \in Users : OwnerClear(w, m)
    \/ OwnerRemove(w) \/ OwnerImages(w)
    \/ LeaveUnpoint(w) \/ LeaveMembers(w) \/ LeaveWrite(w)

RoundStep(w) ==
    \/ \E g \in GroupIds : RoundNext(w, g)
    \/ RoundEnd(w)
    \/ BatchPhotos(w) \/ BatchMembers(w)
    \/ \E m \in Users : BatchClear(w, m)
    \/ BatchFinish(w)

Step(w) == CreateStep(w) \/ JoinStep(w) \/ DeleteStep(w) \/ RoundStep(w)

Next ==
    \/ \E w \in Workers : Request(w) \/ RoundStart(w) \/ Step(w) \/ Fail(w) \/ BatchFail(w)
    \/ \E g \in GroupIds : Expire(g) \/ UploadFile(g)
    \/ \E u \in Users : PushPhoto(u)

Spec == Init /\ [][Next]_vars

\* A handler that has started goes on, and the cron service asks for a round
\* every minute until some worker serves it; nobody has to send a request.
Fairness ==
    /\ \A w \in Workers : WF_vars(Step(w))
    /\ SF_vars(\E w \in Workers : RoundStart(w))

FairSpec == Spec /\ Fairness

-----------------------------------------------------------------------------
\* For a group that has an end_time, the housekeeper's read of the members list
\* finds one: the list is rewritten from stale copies by joins and leaves, but
\* every copy keeps the creator.  Without this batch_delete would raise on the
\* group in every round and never reclaim it.
CreatorIsMember == \A g \in GroupIds : Known(g) => groups[g].creator \in groups[g].members

\* The creator's delete request for g is under way.
BeingDeleted(g) == \E w \in Workers :
    job[w].at \in OwnerSteps /\ job[w].group = g /\ job[w].user = groups[g].creator

\* The step takes the record, the photo nodes or the images of g away.
Destroys(g) ==
    /\ Known(g)
    /\ ~Known(g)' \/ g \in photos \ photos' \/ g \in images \ images'

\* While a group has its record, the record, its photos and its images are
\* only destroyed after its end_time or on behalf of its creator.
OnlyExpiryOrCreatorDestroys ==
    [][\A g \in GroupIds : Destroys(g) => g \in expired \/ BeingDeleted(g)]_vars

\* cron.yaml: "remove expired groups".  Every group whose end_time has passed
\* loses its record, whatever the requests in flight do to it, as long as
\* failures are finitely many.
ExpiredReclaimed == \A g \in GroupIds : Overdue(g) ~> ~Known(g)

\* main.py: "Delete the group and images".  A group that has been created and
\* whose record is gone has no files for ever.
DeletedFilesGone == \A g \in GroupIds : g \in pushed /\ ~Exists(g) ~> g \notin images

\* "user is part of another active group and not allowed to create a new
\* group": nobody is a member of two groups that have not expired.
OneActiveGroup == \A u \in Users : \A g, h \in GroupIds :
    Valid(g) /\ Valid(h) /\ u \in groups[g].members \intersect groups[h].members => g = h

\* "Invalid one time token": a token admits one user.
OneTimeToken == \A v, w \in Workers :
    /\ job[v].token # 0
    /\ job[v].at \in {"join members", "join write"}
    /\ job[w].at \in {"join members", "join write"}
    /\ job[v].token = job[w].token
    => job[v].user = job[w].user

-----------------------------------------------------------------------------
(***************************************************************************)
(* The strengthening of CreatorIsMember that every step preserves.  A      *)
(* handler works on what it read some calls ago; what keeps that harmless  *)
(* is that the creator of a pushed group can only be forgotten, and never  *)
(* changes or returns.                                                     *)
(***************************************************************************)
RequestSteps == CreateSteps \union JoinSteps \union OwnerSteps \union LeaveSteps
GroupSteps == {"create point", "create keep"} \union JoinSteps \union OwnerSteps
                 \union LeaveSteps \union BatchSteps

JobOK(j) ==
    /\ j.at \in RequestSteps => j.user \in Users
    /\ j.at \in GroupSteps => j.group \in pushed
    /\ j.at \in {"join write", "leave write"} /\ Known(j.group)
         => groups[j.group].creator \in j.list
    /\ j.at \in LeaveSteps /\ Known(j.group) => groups[j.group].creator # j.user
    /\ j.at \in OwnerSteps /\ Known(j.group) => groups[j.group].creator = j.user
    /\ j.at \in BatchSteps => j.group \in expired

\* Whatever is stored of a group is of a group that has been pushed.
OnlyPushed ==
    /\ \A g \in GroupIds : Exists(g) => g \in pushed
    /\ \A u \in Users : pointer[u] # NoGroup => pointer[u] \in pushed

RegistryInv ==
    /\ TypeOK
    /\ OnlyPushed
    /\ CreatorIsMember
    /\ \A w \in Workers : JobOK(job[w])

==============================================================================
