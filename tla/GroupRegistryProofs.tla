------------------------- MODULE GroupRegistryProofs -------------------------
(***************************************************************************)
(* Theorems about GroupRegistry, for every set of users, groups and        *)
(* workers, any number of failures and any interleaving of the remote      *)
(* calls.                                                                  *)
(***************************************************************************)
EXTENDS GroupRegistry, TLAPS

\* A worker without a request holds nothing that could be wrong.
LEMMA IdleOK == Idle \in Job /\ JobOK(Idle) /\ JobOK(Idle)'
<1>1. Idle \in Job
  BY RegistryAssumption DEF Idle, Job, Token
<1>2. JobOK(Idle) /\ JobOK(Idle)'
  BY DEF Idle, JobOK, RequestSteps, CreateSteps, GroupSteps, JoinSteps, OwnerSteps,
         LeaveSteps, BatchSteps
<1> QED
  BY <1>1, <1>2

\* The shape of the worker's state after a step that rewrites it.
LEMMA JobShape ==
    ASSUME TypeOK, NEW w \in Workers, NEW x \in Job, job' = [job EXCEPT ![w] = x]
    PROVE  /\ job' \in [Workers -> Job]
           /\ job'[w] = x
           /\ \A v \in Workers : v # w => job'[v] = job[v]
BY DEF TypeOK

\* A step that leaves the group records alone, and gives one worker a state in
\* which it still knows what it needs to, preserves the invariant.
LEMMA JobStep ==
    ASSUME RegistryInv, NEW w \in Workers,
           NEW x \in Job, JobOK(x),
           job' = [job EXCEPT ![w] = x],
           UNCHANGED <<groups, expired, pushed>>,
           pointer' \in [Users -> pushed \union {NoGroup}],
           photos' \subseteq GroupIds, images' \subseteq GroupIds,
           lastToken' \in Token, failures' \in 0 .. MaxFailures
    PROVE  RegistryInv'
<1>1. /\ job' \in [Workers -> Job]
      /\ job'[w] = x
      /\ \A v \in Workers : v # w => job'[v] = job[v]
  BY JobShape DEF RegistryInv
<1>2. TypeOK'
  BY <1>1 DEF RegistryInv, TypeOK
<1>3. OnlyPushed'
  BY DEF RegistryInv, OnlyPushed, Exists, TypeOK
<1>4. CreatorIsMember'
  BY DEF RegistryInv, CreatorIsMember, Known
<1>5. \A v \in Workers : JobOK(job[v])'
  BY <1>1 DEF RegistryInv, JobOK, Known
<1> QED
  BY <1>2, <1>3, <1>4, <1>5 DEF RegistryInv

\* A step that rewrites group records preserves the invariant when no creator
\* of a pushed group changes or comes back, and every list keeps the creator.
LEMMA RecordStep ==
    ASSUME RegistryInv, NEW w \in Workers,
           NEW x \in Job, JobOK(x)',
           job' = [job EXCEPT ![w] = x],
           UNCHANGED <<pointer, photos, images, expired>>,
           pushed \subseteq pushed', pushed' \subseteq GroupIds,
           lastToken' \in Token, failures' = failures,
           groups' \in [GroupIds -> Record],
           \A g \in pushed : Known(g)' =>
               Known(g) /\ groups'[g].creator = groups[g].creator,
           \A g \in GroupIds : Exists(g)' => g \in pushed',
           CreatorIsMember'
    PROVE  RegistryInv'
<1>1. /\ job' \in [Workers -> Job]
      /\ job'[w] = x
      /\ \A v \in Workers : v # w => job'[v] = job[v]
  BY JobShape DEF RegistryInv
<1>2. TypeOK'
  BY <1>1 DEF RegistryInv, TypeOK
<1>3. OnlyPushed'
  BY DEF RegistryInv, OnlyPushed, Exists
<1>4. ASSUME NEW v \in Workers PROVE JobOK(job[v])'
  <2>1. CASE v = w
    BY <2>1, <1>1 DEF JobOK, Known
  <2>2. CASE v # w
    <3>1. JobOK(job[v]) /\ job'[v] = job[v]
      BY <2>2, <1>1 DEF RegistryInv
    <3>2. \A step \in {"join write", "leave write"} \union LeaveSteps \union OwnerSteps :
            step \in GroupSteps
      BY DEF GroupSteps, JoinSteps, LeaveSteps
    <3>3. ASSUME job[v].at \in GroupSteps, groups'[job[v].group].creator # NoUser
          PROVE  /\ groups[job[v].group].creator # NoUser
                 /\ groups'[job[v].group].creator = groups[job[v].group].creator
      BY <3>1, <3>3 DEF JobOK, Known
    <3>4. /\ job[v].at \in RequestSteps => job[v].user \in Users
          /\ job[v].at \in GroupSteps => job[v].group \in pushed'
          /\ job[v].at \in BatchSteps => job[v].group \in expired'
      BY <3>1 DEF JobOK
    <3>5. job[v].at \in {"join write", "leave write"} /\ Known(job[v].group)'
            => groups'[job[v].group].creator \in job[v].list
      BY <3>1, <3>2, <3>3 DEF JobOK, Known
    <3>6. job[v].at \in LeaveSteps /\ Known(job[v].group)'
            => groups'[job[v].group].creator # job[v].user
      BY <3>1, <3>2, <3>3 DEF JobOK, Known
    <3>7. job[v].at \in OwnerSteps /\ Known(job[v].group)'
            => groups'[job[v].group].creator = job[v].user
      BY <3>1, <3>2, <3>3 DEF JobOK, Known
    <3> QED
      BY <3>1, <3>4, <3>5, <3>6, <3>7 DEF JobOK
  <2> QED
    BY <2>1, <2>2
<1> QED
  BY <1>2, <1>3, <1>4 DEF RegistryInv

\* A step that only ends the request preserves the invariant.
LEMMA FinishStep ==
    ASSUME RegistryInv, NEW w \in Workers, Finish(w),
           UNCHANGED <<groups, expired, pushed>>,
           pointer' \in [Users -> pushed \union {NoGroup}],
           photos' \subseteq GroupIds, images' \subseteq GroupIds,
           lastToken' \in Token, failures' \in 0 .. MaxFailures
    PROVE  RegistryInv'
BY IdleOK, JobStep DEF Finish

\* The part of the invariant a step that touches nothing but the job keeps.
LEMMA StoreTypes ==
    ASSUME RegistryInv
    PROVE  /\ pointer \in [Users -> pushed \union {NoGroup}]
           /\ photos \subseteq GroupIds /\ images \subseteq GroupIds
           /\ lastToken \in Token /\ failures \in 0 .. MaxFailures
           /\ pushed \subseteq GroupIds
           /\ groups \in [GroupIds -> Record]
BY DEF RegistryInv, TypeOK, OnlyPushed

\* A token is drawn within its bound.
LEMMA TokenStep == \A n \in Token : n < MaxTokens => n + 1 \in Token
BY RegistryAssumption DEF Token

\* The check of the user's old group ends the request or lets it go on.
LEMMA CheckPreserves ==
    ASSUME RegistryInv, NEW w \in Workers,
           CheckOldGroup(w, "create check", "create push")
             \/ CheckOldGroup(w, "join check", "join patch")
    PROVE  RegistryInv'
<1>1. ASSUME NEW from \in Steps, NEW to \in Steps, CheckOldGroup(w, from, to),
             \/ from = "create check" /\ to = "create push"
             \/ from = "join check" /\ to = "join patch"
      PROVE  RegistryInv'
  <2> DEFINE x == [job[w] EXCEPT !.at = to, !.old = NoGroup]
  <2>1. job[w] \in Job /\ JobOK(job[w]) /\ job[w].at = from
    BY <1>1 DEF RegistryInv, TypeOK, CheckOldGroup, At
  <2>2. x \in Job
    BY <2>1 DEF Job
  <2>3. JobOK(x)
    BY <1>1, <2>1 DEF Job, JobOK, RequestSteps, CreateSteps, GroupSteps, JoinSteps,
                      OwnerSteps, LeaveSteps, BatchSteps
  <2>4. CASE job' = [job EXCEPT ![w].at = to, ![w].old = NoGroup]
    <3>1. job' = [job EXCEPT ![w] = x]
      BY <2>1, <2>4 DEF RegistryInv, TypeOK
    <3> HIDE DEF x
    <3> QED
      BY <1>1, <2>2, <2>3, <3>1, StoreTypes, JobStep DEF CheckOldGroup, store, history
  <2>5. CASE Finish(w)
    BY <1>1, <2>5, StoreTypes, FinishStep DEF CheckOldGroup, store, history
  <2> QED
    BY <1>1, <2>4, <2>5 DEF CheckOldGroup
<1> QED
  BY <1>1 DEF Steps, CreateSteps, JoinSteps

-----------------------------------------------------------------------------
\* The steps of create() preserve the invariant: push() makes a record whose
\* members list holds its creator.
LEMMA CreatePreserves ==
    ASSUME RegistryInv, NEW w \in Workers,
           (\E u \in Users : CreateStart(w, u)) \/ CreateStep(w)
    PROVE  RegistryInv'
<1> USE DEF store, history, RequestSteps, CreateSteps, GroupSteps, JoinSteps, OwnerSteps,
            LeaveSteps, BatchSteps
<1>0. job[w] \in Job /\ JobOK(job[w])
  BY DEF RegistryInv, TypeOK
<1>1. ASSUME NEW u \in Users, CreateStart(w, u) PROVE RegistryInv'
  <2> DEFINE x == [Idle EXCEPT
                 !.at = IF pointer[u] = NoGroup THEN "create push" ELSE "create check",
                 !.user = u,
                 !.old = pointer[u]]
  <2>1. pointer[u] \in GroupIds \union {NoGroup}
    BY DEF RegistryInv, TypeOK
  <2>2. x \in Job
    BY <2>1, IdleOK DEF Job, Steps
  <2>3. JobOK(x)
    BY DEF JobOK, Idle
  <2>4. job' = [job EXCEPT ![w] = x]
    BY <1>1 DEF CreateStart
  <2> HIDE DEF x
  <2> QED
    BY <1>1, <2>2, <2>3, <2>4, StoreTypes, JobStep DEF CreateStart
<1>2. CASE CreateCheck(w)
  BY <1>2, CheckPreserves DEF CreateCheck
<1>3. ASSUME NEW g \in GroupIds, CreatePush(w, g) PROVE RegistryInv'
  <2>0. PICK x : x = [job[w] EXCEPT !.at = "create point", !.group = g]
    OBVIOUS
  <2> DEFINE r == [creator |-> job[w].user, token |-> lastToken + 1,
                        members |-> {job[w].user}]
  <2>1. job[w].at = "create push" /\ job[w].user \in Users
    BY <1>0, <1>3 DEF CreatePush, At, JobOK
  <2>2. x \in Job
    BY <1>0, <2>0 DEF Job, Steps
  <2>3. lastToken + 1 \in Token /\ lastToken' = lastToken + 1
    BY <1>3, StoreTypes, TokenStep DEF CreatePush
  <2>4. r \in Record
    BY <2>1, <2>3 DEF Record
  <2>5. groups' \in [GroupIds -> Record] /\ groups'[g] = r
        /\ \A h \in GroupIds : h # g => groups'[h] = groups[h]
    BY <1>3, <2>4, StoreTypes DEF CreatePush
  <2>6. g \notin pushed /\ pushed' = pushed \union {g} /\ pushed' \subseteq GroupIds
    BY <1>3, StoreTypes DEF CreatePush
  <2>7. JobOK(x)'
    BY <1>0, <2>0, <2>1, <2>6 DEF Job, JobOK
  <2>8. \A h \in pushed : Known(h)' => Known(h) /\ groups'[h].creator = groups[h].creator
    BY <2>5, <2>6, StoreTypes DEF Known
  <2>9. \A h \in GroupIds : Exists(h)' => h \in pushed'
    BY <2>5, <2>6 DEF RegistryInv, OnlyPushed, Exists
  <2>10. CreatorIsMember'
    BY <2>5 DEF RegistryInv, CreatorIsMember, Known
  <2>11. job' = [job EXCEPT ![w] = x]
    BY <1>3, <2>0 DEF CreatePush, RegistryInv, TypeOK
  <2>12. UNCHANGED <<pointer, photos, images, expired>> /\ failures' = failures
    BY <1>3 DEF CreatePush
  <2> HIDE DEF r
  <2> QED
    BY <2>2, <2>3, <2>5, <2>6, <2>7, <2>8, <2>9, <2>10, <2>11, <2>12, RecordStep
<1>4. CASE CreatePoint(w)
  <2> DEFINE x == [job[w] EXCEPT !.at = "create keep"]
  <2>1. job[w].at = "create point" /\ job[w].group \in pushed
    BY <1>0, <1>4 DEF CreatePoint, At, JobOK
  <2>2. x \in Job /\ JobOK(x)
    BY <1>0, <2>1 DEF Job, Steps, JobOK
  <2>3. pointer' \in [Users -> pushed \union {NoGroup}]
    BY <1>4, <2>1, StoreTypes DEF CreatePoint, Point
  <2>4. job' = [job EXCEPT ![w] = x]
    BY <1>4 DEF CreatePoint, Goto, RegistryInv, TypeOK
  <2> HIDE DEF x
  <2> QED
    BY <1>4, <2>2, <2>3, <2>4, StoreTypes, JobStep DEF CreatePoint
<1>5. CASE CreateKeep(w)
  <2>1. job[w].group \in pushed
    BY <1>0, <1>5 DEF CreateKeep, At, JobOK
  <2>2. images' \subseteq GroupIds
    BY <1>5, <2>1, StoreTypes DEF CreateKeep
  <2> QED
    BY <1>5, <2>2, StoreTypes, FinishStep DEF CreateKeep
<1> QED
  BY <1>1, <1>2, <1>3, <1>4, <1>5 DEF CreateStep

-----------------------------------------------------------------------------
\* Writing back a members list computed from an older read preserves the
\* invariant: the copy still holds the creator.
LEMMA WritePreserves ==
    ASSUME RegistryInv, NEW w \in Workers, NEW step \in {"join write", "leave write"},
           WriteMembers(w, step)
    PROVE  RegistryInv'
<1> DEFINE g == job[w].group
           r == [groups[g] EXCEPT !.members = job[w].list]
<1>0. job[w] \in Job /\ JobOK(job[w]) /\ job[w].at = step
  BY DEF RegistryInv, TypeOK, WriteMembers, At
<1>1. g \in pushed /\ g \in GroupIds
  BY <1>0, StoreTypes DEF JobOK, GroupSteps, JoinSteps, LeaveSteps
<1>2. r \in Record /\ r.creator = groups[g].creator /\ r.members = job[w].list
  BY <1>0, <1>1, StoreTypes DEF Record, Job
<1>3. Known(g) => groups[g].creator \in job[w].list
  BY <1>0 DEF JobOK
<1>4. /\ groups' \in [GroupIds -> Record]
      /\ groups'[g] = r
      /\ \A h \in GroupIds : h # g => groups'[h] = groups[h]
  BY <1>1, <1>2, StoreTypes DEF WriteMembers
<1> HIDE DEF g, r
<1>5. /\ job' = [job EXCEPT ![w] = Idle]
      /\ UNCHANGED <<pointer, photos, images, expired, pushed, lastToken, failures>>
  BY DEF WriteMembers, Finish, history
<1>6. \A h \in pushed : Known(h)' => Known(h) /\ groups'[h].creator = groups[h].creator
  BY <1>2, <1>4, StoreTypes DEF Known
<1>7. \A h \in GroupIds : Exists(h)' => h \in pushed'
  BY <1>1, <1>4, <1>5 DEF RegistryInv, OnlyPushed, Exists
<1>8. CreatorIsMember'
  BY <1>2, <1>3, <1>4 DEF RegistryInv, CreatorIsMember, Known
<1> QED
  BY <1>4, <1>5, <1>6, <1>7, <1>8, IdleOK, StoreTypes, RecordStep

\* The steps of update() preserve the invariant.
LEMMA JoinPreserves ==
    ASSUME RegistryInv, NEW w \in Workers,
           (\E u \in Users, g \in GroupIds : JoinStart(w, u, g)) \/ JoinStep(w)
    PROVE  RegistryInv'
<1> USE DEF store, history, RequestSteps, CreateSteps, GroupSteps, JoinSteps, OwnerSteps,
            LeaveSteps, BatchSteps
<1>0. job[w] \in Job /\ JobOK(job[w])
  BY DEF RegistryInv, TypeOK
<1>1. ASSUME NEW u \in Users, NEW g \in GroupIds, JoinStart(w, u, g) PROVE RegistryInv'
  <2> DEFINE x == [Idle EXCEPT
                 !.at = "join read", !.user = u, !.group = g, !.token = groups[g].token]
  <2>1. g \in pushed
    BY <1>1 DEF JoinStart
  <2>2. groups[g].token \in Token
    BY StoreTypes DEF Record
  <2>3. x \in Job
    BY <2>2, IdleOK DEF Job, Steps
  <2>4. JobOK(x)
    BY <2>1 DEF JobOK, Idle
  <2>5. job' = [job EXCEPT ![w] = x]
    BY <1>1 DEF JoinStart
  <2> HIDE DEF x
  <2> QED
    BY <1>1, <2>3, <2>4, <2>5, StoreTypes, JobStep DEF JoinStart
<1>2. CASE JoinRead(w)
  <2> DEFINE p == pointer[job[w].user]
             x == [job[w] EXCEPT !.at = IF p = NoGroup THEN "join point" ELSE "join check",
                                 !.old = p]
  <2>1. job[w].at = "join read" /\ job[w].user \in Users
    BY <1>0, <1>2 DEF JoinRead, At, JobOK
  <2>2. p \in GroupIds \union {NoGroup}
    BY <2>1 DEF RegistryInv, TypeOK
  <2>3. x \in Job
    BY <1>0, <2>2 DEF Job, Steps
  <2>4. JobOK(x)
    BY <1>0, <2>1 DEF Job, JobOK
  <2>5. job' = [job EXCEPT ![w] = x]
    BY <1>2 DEF JoinRead, RegistryInv, TypeOK
  <2> HIDE DEF x
  <2> QED
    BY <1>2, <2>3, <2>4, <2>5, StoreTypes, JobStep DEF JoinRead
<1>3. CASE JoinCheck(w)
  BY <1>3, CheckPreserves DEF JoinCheck
<1>4. CASE JoinPatch(w)
  <2> DEFINE x == [job[w] EXCEPT !.at = "join point"]
  <2>1. job[w].at = "join patch" /\ job[w].group \in pushed
    BY <1>0, <1>4 DEF JoinPatch, At, JobOK
  <2>2. x \in Job /\ JobOK(x)
    BY <1>0, <2>1 DEF Job, Steps, JobOK
  <2>3. CASE Point(job[w].user, job[w].group) /\ Goto(w, "join point")
    <3>1. pointer' \in [Users -> pushed \union {NoGroup}]
      BY <2>1, <2>3, StoreTypes DEF Point
    <3>2. job' = [job EXCEPT ![w] = x]
      BY <2>3 DEF Goto, RegistryInv, TypeOK
    <3> HIDE DEF x
    <3> QED
      BY <1>4, <2>2, <3>1, <3>2, StoreTypes, JobStep DEF JoinPatch
  <2>4. CASE Finish(w) /\ UNCHANGED pointer
    BY <1>4, <2>4, StoreTypes, FinishStep DEF JoinPatch
  <2> QED
    BY <1>4, <2>3, <2>4 DEF JoinPatch
<1>5. CASE JoinPoint(w)
  <2> DEFINE x == [job[w] EXCEPT !.at = "join rotate"]
  <2>1. job[w].at = "join point" /\ job[w].group \in pushed
    BY <1>0, <1>5 DEF JoinPoint, At, JobOK
  <2>2. x \in Job /\ JobOK(x)
    BY <1>0, <2>1 DEF Job, Steps, JobOK
  <2>3. pointer' \in [Users -> pushed \union {NoGroup}]
    BY <1>5, <2>1, StoreTypes DEF JoinPoint, Point
  <2>4. job' = [job EXCEPT ![w] = x]
    BY <1>5 DEF JoinPoint, Goto, RegistryInv, TypeOK
  <2> HIDE DEF x
  <2> QED
    BY <1>5, <2>2, <2>3, <2>4, StoreTypes, JobStep DEF JoinPoint
<1>6. CASE JoinRotate(w)
  <2>0. PICK x : x = [job[w] EXCEPT !.at = "join members"]
    OBVIOUS
  <2> DEFINE g == job[w].group
             r == [groups[g] EXCEPT !.token = lastToken + 1]
  <2>1. job[w].at = "join rotate" /\ g \in pushed /\ g \in GroupIds
    BY <1>0, <1>6, StoreTypes DEF JoinRotate, At, JobOK
  <2>2. x \in Job
    BY <1>0, <2>0 DEF Job, Steps
  <2>3. lastToken + 1 \in Token /\ lastToken' = lastToken + 1
    BY <1>6, StoreTypes, TokenStep DEF JoinRotate
  <2>4. /\ r \in Record
        /\ r.creator = groups[g].creator
        /\ r.members = groups[g].members
    BY <2>1, <2>3, StoreTypes DEF Record
  <2>5. groups' \in [GroupIds -> Record] /\ groups'[g] = r
        /\ \A h \in GroupIds : h # g => groups'[h] = groups[h]
    BY <1>6, <2>1, <2>4, StoreTypes DEF JoinRotate
  <2> HIDE DEF r
  <2>6. /\ UNCHANGED <<pointer, photos, images, expired, pushed>>
        /\ failures' = failures
        /\ job' = [job EXCEPT ![w] = x]
    BY <1>6, <2>0 DEF JoinRotate, Goto, RegistryInv, TypeOK
  <2>7. JobOK(x)'
    BY <1>0, <2>0, <2>1, <2>6 DEF Job, JobOK
  <2>8. \A h \in pushed : Known(h)' => Known(h) /\ groups'[h].creator = groups[h].creator
    BY <2>4, <2>5, StoreTypes DEF Known
  <2>9. \A h \in GroupIds : Exists(h)' => h \in pushed'
    BY <2>1, <2>5, <2>6 DEF RegistryInv, OnlyPushed, Exists
  <2>10. CreatorIsMember'
    BY <2>4, <2>5 DEF RegistryInv, CreatorIsMember, Known
  <2> QED
    BY <2>2, <2>3, <2>5, <2>6, <2>7, <2>8, <2>9, <2>10, StoreTypes, RecordStep
<1>7. CASE JoinMembers(w)
  <2> DEFINE members == groups[job[w].group].members
             x == [job[w] EXCEPT !.at = "join write", !.list = members \union {job[w].user}]
  <2>1. /\ job[w].at = "join members"
        /\ job[w].group \in pushed /\ job[w].group \in GroupIds
        /\ job[w].user \in Users
    BY <1>0, <1>7, StoreTypes DEF JoinMembers, At, JobOK
  <2>2. members \subseteq Users
    BY <2>1, StoreTypes DEF Record
  <2>3. x \in Job
    BY <1>0, <2>1, <2>2 DEF Job, Steps
  <2>4. Known(job[w].group) => groups[job[w].group].creator \in members
    BY <2>1 DEF RegistryInv, CreatorIsMember
  <2>5. JobOK(x)
    BY <1>0, <2>1, <2>4 DEF Job, JobOK
  <2>6. job' = [job EXCEPT ![w] = x] \/ Finish(w)
    BY <1>7 DEF JoinMembers, RegistryInv, TypeOK
  <2> HIDE DEF x
  <2> QED
    BY <1>7, <2>3, <2>5, <2>6, StoreTypes, JobStep, FinishStep DEF JoinMembers
<1>8. CASE JoinWrite(w)
  BY <1>8, WritePreserves DEF JoinWrite
<1> QED
  BY <1>1, <1>2, <1>3, <1>4, <1>5, <1>6, <1>7, <1>8 DEF JoinStep

-----------------------------------------------------------------------------
(* The steps that delete() and batch_delete() share, at the lines of one or *)
(* the other.                                                               *)

\* Clearing the pointer of the user who asked.
LEMMA UnpointPreserves ==
    ASSUME RegistryInv, NEW w \in Workers,
           OwnerUnpoint(w) \/ LeaveUnpoint(w)
    PROVE  RegistryInv'
<1> USE DEF store, history, RequestSteps, CreateSteps, GroupSteps, JoinSteps, OwnerSteps,
            LeaveSteps, BatchSteps
<1>0. job[w] \in Job /\ JobOK(job[w])
  BY DEF RegistryInv, TypeOK
<1>1. ASSUME NEW from \in Steps, NEW to \in Steps, Unpoint(w, from, to),
             \/ from = "owner unpoint" /\ to = "owner photos"
             \/ from = "leave unpoint" /\ to = "leave members"
      PROVE  RegistryInv'
  <2> DEFINE x == [job[w] EXCEPT !.at = to]
  <2>1. job[w].at = from
    BY <1>1 DEF Unpoint, At
  <2>2. x \in Job
    BY <1>0 DEF Job
  <2>3. JobOK(x)
    BY <1>0, <1>1, <2>1 DEF Job, JobOK
  <2>4. pointer' \in [Users -> pushed \union {NoGroup}]
    BY <1>1, StoreTypes DEF Unpoint, Point
  <2>5. job' = [job EXCEPT ![w] = x]
    BY <1>1 DEF Unpoint, Goto, RegistryInv, TypeOK
  <2> HIDE DEF x
  <2> QED
    BY <1>1, <2>2, <2>3, <2>4, <2>5, StoreTypes, JobStep DEF Unpoint
<1> QED
  BY <1>1 DEF OwnerUnpoint, LeaveUnpoint, Steps

\* Removing the photo nodes of the group.
LEMMA PhotosPreserve ==
    ASSUME RegistryInv, NEW w \in Workers,
           OwnerPhotos(w) \/ BatchPhotos(w)
    PROVE  RegistryInv'
<1> USE DEF store, history, RequestSteps, CreateSteps, GroupSteps, JoinSteps, OwnerSteps,
            LeaveSteps, BatchSteps
<1>0. job[w] \in Job /\ JobOK(job[w])
  BY DEF RegistryInv, TypeOK
<1>1. ASSUME NEW from \in Steps, NEW to \in Steps, RemovePhotos(w, from, to),
             \/ from = "owner photos" /\ to = "owner members"
             \/ from = "hk photos" /\ to = "hk members"
      PROVE  RegistryInv'
  <2> DEFINE x == [job[w] EXCEPT !.at = to]
  <2>1. job[w].at = from
    BY <1>1 DEF RemovePhotos, At
  <2>2. x \in Job
    BY <1>0 DEF Job
  <2>3. JobOK(x)
    BY <1>0, <1>1, <2>1 DEF Job, JobOK
  <2>4. photos' \subseteq GroupIds
    BY <1>1, StoreTypes DEF RemovePhotos
  <2>5. job' = [job EXCEPT ![w] = x]
    BY <1>1 DEF RemovePhotos, Goto, RegistryInv, TypeOK
  <2> HIDE DEF x
  <2> QED
    BY <1>1, <2>2, <2>3, <2>4, <2>5, StoreTypes, JobStep DEF RemovePhotos
<1> QED
  BY <1>1 DEF OwnerPhotos, BatchPhotos, Steps, Housekeeping

\* Back in the loop over the snapshot, a worker holds nothing but the snapshot.
LEMMA NextGroupOK ==
    ASSUME RegistryInv, NEW w \in Workers
    PROVE  NextGroup(w) \in Job /\ JobOK(NextGroup(w))
<1> USE DEF store, history, RequestSteps, CreateSteps, GroupSteps, JoinSteps, OwnerSteps,
            LeaveSteps, BatchSteps
<1>0. job[w] \in Job /\ JobOK(job[w])
  BY DEF RegistryInv, TypeOK
<1>1. NextGroup(w) \in Job
  BY <1>0, IdleOK DEF NextGroup, Job, Steps, Housekeeping
<1>2. JobOK(NextGroup(w))
  BY DEF NextGroup, Idle, JobOK
<1> QED
  BY <1>1, <1>2

\* Reading the members list before the pointers are cleared.
LEMMA LoadPreserves ==
    ASSUME RegistryInv, NEW w \in Workers,
           OwnerMembers(w) \/ BatchMembers(w)
    PROVE  RegistryInv'
<1> USE DEF store, history, RequestSteps, CreateSteps, GroupSteps, JoinSteps, OwnerSteps,
            LeaveSteps, BatchSteps
<1>0. job[w] \in Job /\ JobOK(job[w])
  BY DEF RegistryInv, TypeOK
<1>1. ASSUME NEW from \in Steps, NEW to \in Steps, NEW raise \in Job, JobOK(raise),
             LoadMembers(w, from, to, raise),
             \/ from = "owner members" /\ to = "owner clear"
             \/ from = "hk members" /\ to = "hk clear"
      PROVE  RegistryInv'
  <2> DEFINE members == groups[job[w].group].members
             x == [job[w] EXCEPT !.at = to, !.list = members]
  <2>1. job[w].at = from
    BY <1>1 DEF LoadMembers, At
  <2>2. job[w].group \in GroupIds
    BY <1>0, <1>1, <2>1, StoreTypes DEF JobOK
  <2>3. members \subseteq Users
    BY <2>2, StoreTypes DEF Record
  <2>4. x \in Job
    BY <1>0, <2>3 DEF Job
  <2>5. JobOK(x)
    BY <1>0, <1>1, <2>1 DEF Job, JobOK
  <2>6. job' = [job EXCEPT ![w] = x] \/ job' = [job EXCEPT ![w] = raise]
    BY <1>1 DEF LoadMembers, RegistryInv, TypeOK
  <2> HIDE DEF x
  <2> QED
    BY <1>1, <2>4, <2>5, <2>6, StoreTypes, JobStep DEF LoadMembers
<1>2. CASE OwnerMembers(w)
  BY <1>1, <1>2, IdleOK DEF OwnerMembers, Steps
<1>3. CASE BatchMembers(w)
  BY <1>1, <1>3, NextGroupOK DEF BatchMembers, Steps, Housekeeping
<1> QED
  BY <1>2, <1>3

\* Clearing the pointer of one member of the list that was read.
LEMMA ClearPreserves ==
    ASSUME RegistryInv, NEW w \in Workers, NEW m \in Users,
           OwnerClear(w, m) \/ BatchClear(w, m)
    PROVE  RegistryInv'
<1> USE DEF store, history, RequestSteps, CreateSteps, GroupSteps, JoinSteps, OwnerSteps,
            LeaveSteps, BatchSteps
<1>0. job[w] \in Job /\ JobOK(job[w])
  BY DEF RegistryInv, TypeOK
<1>1. ASSUME NEW from \in Steps, NEW to \in Steps, ClearMember(w, m, from, to),
             \/ from = "owner clear" /\ to = "owner remove"
             \/ from = "hk clear" /\ to = "hk images"
      PROVE  RegistryInv'
  <2> DEFINE x == [job[w] EXCEPT !.list = job[w].list \ {m},
                                 !.at = IF job[w].list = {m} THEN to ELSE from]
  <2>1. job[w].at = from
    BY <1>1 DEF ClearMember, At
  <2>2. x \in Job
    BY <1>0 DEF Job
  <2>3. JobOK(x)
    BY <1>0, <1>1, <2>1 DEF Job, JobOK
  <2>4. pointer' \in [Users -> pushed \union {NoGroup}]
    BY <1>1, StoreTypes DEF ClearMember, Point
  <2>5. job' = [job EXCEPT ![w] = x]
    BY <1>1 DEF ClearMember, RegistryInv, TypeOK
  <2> HIDE DEF x
  <2> QED
    BY <1>1, <2>2, <2>3, <2>4, <2>5, StoreTypes, JobStep DEF ClearMember
<1> QED
  BY <1>1 DEF OwnerClear, BatchClear, Steps, Housekeeping

\* Removing the images of the group.
LEMMA ImagesPreserve ==
    ASSUME RegistryInv, NEW w \in Workers, NEW x \in Job, JobOK(x),
           NEW from \in Steps, RemoveImages(w, from, x)
    PROVE  RegistryInv'
<1>1. images' \subseteq GroupIds
  BY StoreTypes DEF RemoveImages
<1> QED
  BY <1>1, StoreTypes, JobStep DEF RemoveImages, history

\* Removing the record of the group.
LEMMA RecordRemovalPreserves ==
    ASSUME RegistryInv, NEW w \in Workers, NEW x \in Job, JobOK(x),
           NEW from \in Steps, RemoveRecord(w, from, x)
    PROVE  RegistryInv'
<1> DEFINE g == job[w].group
<1>1. Absent \in Record /\ Absent.creator = NoUser
  BY RegistryAssumption DEF Absent, Record, Token
<1>2. /\ groups' \in [GroupIds -> Record]
      /\ \A h \in GroupIds : h # g => groups'[h] = groups[h]
      /\ \A h \in GroupIds : h = g => groups'[h] = Absent
  BY <1>1, StoreTypes DEF RemoveRecord
<1>3. /\ UNCHANGED <<pointer, photos, images, expired, pushed, lastToken, failures>>
      /\ job' = [job EXCEPT ![w] = x]
  BY DEF RemoveRecord, history
<1> HIDE DEF g
<1>4. \A h \in GroupIds : Known(h)' => Known(h) /\ groups'[h].creator = groups[h].creator
  BY <1>1, <1>2 DEF Known
<1>5. \A h \in GroupIds : Exists(h)' => h \in pushed'
  BY <1>2, <1>3 DEF RegistryInv, OnlyPushed, Exists
<1>6. CreatorIsMember'
  BY <1>1, <1>2 DEF RegistryInv, CreatorIsMember, Known
<1>7. JobOK(x)'
  <2>1. x.at \in GroupSteps => x.group \in GroupIds
    BY StoreTypes DEF JobOK
  <2>2. \A step \in {"join write", "leave write"} \union LeaveSteps \union OwnerSteps :
          step \in GroupSteps
    BY DEF GroupSteps, JoinSteps, LeaveSteps
  <2>3. ASSUME x.at \in GroupSteps, Known(x.group)'
        PROVE  Known(x.group) /\ groups'[x.group].creator = groups[x.group].creator
    BY <2>1, <2>3, <1>4
  <2>4. x.at \in {"join write", "leave write"} /\ Known(x.group)'
          => groups'[x.group].creator \in x.list
    BY <2>2, <2>3 DEF JobOK
  <2>5. x.at \in LeaveSteps /\ Known(x.group)' => groups'[x.group].creator # x.user
    BY <2>2, <2>3 DEF JobOK
  <2>6. x.at \in OwnerSteps /\ Known(x.group)' => groups'[x.group].creator = x.user
    BY <2>2, <2>3 DEF JobOK
  <2>7. /\ x.at \in RequestSteps => x.user \in Users
        /\ x.at \in GroupSteps => x.group \in pushed'
        /\ x.at \in BatchSteps => x.group \in expired'
    BY <1>3 DEF JobOK
  <2> QED
    BY <2>4, <2>5, <2>6, <2>7 DEF JobOK
<1> QED
  BY <1>2, <1>3, <1>4, <1>5, <1>6, <1>7, StoreTypes, RecordStep

-----------------------------------------------------------------------------
\* The steps of delete() preserve the invariant: only a user who is not the
\* creator is taken out of a members list.
LEMMA DeletePreserves ==
    ASSUME RegistryInv, NEW w \in Workers,
           (\E u \in Users, g \in GroupIds : DeleteStart(w, u, g)) \/ DeleteStep(w)
    PROVE  RegistryInv'
<1> USE DEF store, history, RequestSteps, CreateSteps, GroupSteps, JoinSteps, OwnerSteps,
            LeaveSteps, BatchSteps
<1>0. job[w] \in Job /\ JobOK(job[w])
  BY DEF RegistryInv, TypeOK
<1>1. ASSUME NEW u \in Users, NEW g \in GroupIds, DeleteStart(w, u, g) PROVE RegistryInv'
  <2> DEFINE x == [Idle EXCEPT
                 !.at = IF IsOwner(u, g) THEN "owner unpoint" ELSE "leave unpoint",
                 !.user = u,
                 !.group = g]
  <2>1. g \in pushed
    <3>1. CASE pointer[u] = g
      BY <3>1, RegistryAssumption DEF RegistryInv, OnlyPushed
    <3>2. CASE u \in groups[g].members
      <4>1. Absent.members = {}
        BY DEF Absent
      <4> QED
        BY <3>2, <4>1 DEF RegistryInv, OnlyPushed, Exists
    <3> QED
      BY <1>1, <3>1, <3>2 DEF DeleteStart
  <2>2. x \in Job
    BY IdleOK DEF Job, Steps
  <2>3. JobOK(x)
    BY <2>1 DEF JobOK, Idle, IsOwner
  <2>4. job' = [job EXCEPT ![w] = x]
    BY <1>1 DEF DeleteStart
  <2> HIDE DEF x
  <2> QED
    BY <1>1, <2>2, <2>3, <2>4, StoreTypes, JobStep DEF DeleteStart
<1>2. CASE OwnerUnpoint(w) \/ LeaveUnpoint(w)
  BY <1>2, UnpointPreserves
<1>3. CASE OwnerPhotos(w)
  BY <1>3, PhotosPreserve
<1>4. CASE OwnerMembers(w)
  BY <1>4, LoadPreserves
<1>5. ASSUME NEW m \in Users, OwnerClear(w, m) PROVE RegistryInv'
  BY <1>5, ClearPreserves
<1>6. CASE OwnerRemove(w)
  <2> DEFINE x == [job[w] EXCEPT !.at = "owner images"]
  <2>1. job[w].at = "owner remove"
    BY <1>6 DEF OwnerRemove, RemoveRecord, At
  <2>2. x \in Job /\ JobOK(x)
    BY <1>0, <2>1 DEF Job, Steps, JobOK
  <2>3. RemoveRecord(w, "owner remove", x)
    BY <1>6 DEF OwnerRemove
  <2> HIDE DEF x
  <2> QED
    BY <2>2, <2>3, RecordRemovalPreserves DEF Steps
<1>7. CASE OwnerImages(w)
  BY <1>7, IdleOK, ImagesPreserve DEF OwnerImages, Steps
<1>8. CASE LeaveMembers(w)
  <2> DEFINE members == groups[job[w].group].members
             x == [job[w] EXCEPT !.at = "leave write", !.list = members \ {job[w].user}]
  <2>1. job[w].at = "leave members" /\ job[w].group \in GroupIds
    BY <1>0, <1>8, StoreTypes DEF LeaveMembers, At, JobOK
  <2>2. members \subseteq Users
    BY <2>1, StoreTypes DEF Record
  <2>3. x \in Job
    BY <1>0, <2>2 DEF Job, Steps
  <2>4. Known(job[w].group) => groups[job[w].group].creator \in members
    BY <2>1 DEF RegistryInv, CreatorIsMember
  <2>5. JobOK(x)
    BY <1>0, <2>1, <2>4 DEF Job, JobOK
  <2>6. job' = [job EXCEPT ![w] = x] \/ Finish(w)
    BY <1>8 DEF LeaveMembers, RegistryInv, TypeOK
  <2> HIDE DEF x
  <2> QED
    BY <1>8, <2>3, <2>5, <2>6, StoreTypes, JobStep, FinishStep DEF LeaveMembers
<1>9. CASE LeaveWrite(w)
  BY <1>9, WritePreserves DEF LeaveWrite
<1> QED
  BY <1>1, <1>2, <1>3, <1>4, <1>5, <1>6, <1>7, <1>8, <1>9 DEF DeleteStep

\* The steps of a housekeeping round preserve the invariant: a group enters
\* batch_delete() only after its end_time.
LEMMA RoundPreserves ==
    ASSUME RegistryInv, NEW w \in Workers,
           RoundStart(w) \/ RoundStep(w)
    PROVE  RegistryInv'
<1> USE DEF store, history, RequestSteps, CreateSteps, GroupSteps, JoinSteps, OwnerSteps,
            LeaveSteps, BatchSteps
<1>0. job[w] \in Job /\ JobOK(job[w])
  BY DEF RegistryInv, TypeOK
<1>1. CASE RoundStart(w)
  <2> DEFINE x == [Idle EXCEPT !.at = "hk next", !.queue = {g \in GroupIds : Exists(g)}]
  <2>1. x \in Job
    BY IdleOK DEF Job, Steps, Housekeeping
  <2>2. JobOK(x)
    BY DEF JobOK, Idle
  <2>3. job' = [job EXCEPT ![w] = x]
    BY <1>1 DEF RoundStart
  <2> HIDE DEF x
  <2> QED
    BY <1>1, <2>1, <2>2, <2>3, StoreTypes, JobStep DEF RoundStart
<1>2. ASSUME NEW g \in GroupIds, RoundNext(w, g) PROVE RegistryInv'
  <2> DEFINE x == [Idle EXCEPT !.at = IF Overdue(g) THEN "hk photos" ELSE "hk next",
                               !.group = IF Overdue(g) THEN g ELSE NoGroup,
                               !.queue = job[w].queue \ {g}]
  <2>1. x \in Job
    <3>1. job[w].queue \ {g} \in SUBSET GroupIds
      BY <1>0 DEF Job
    <3> QED
      BY <3>1, IdleOK DEF Job, Steps, Housekeeping
  <2>2. Overdue(g) => g \in expired /\ g \in pushed
    <3>1. Absent.creator = NoUser
      BY DEF Absent
    <3> QED
      BY <3>1 DEF Overdue, Known, Exists, RegistryInv, OnlyPushed
  <2>3. JobOK(x)
    BY <2>2 DEF JobOK, Idle
  <2>4. job' = [job EXCEPT ![w] = x]
    BY <1>2 DEF RoundNext
  <2> HIDE DEF x
  <2> QED
    BY <1>2, <2>1, <2>3, <2>4, StoreTypes, JobStep DEF RoundNext
<1>3. CASE RoundEnd(w)
  BY <1>3, StoreTypes, FinishStep DEF RoundEnd
<1>4. CASE BatchPhotos(w)
  BY <1>4, PhotosPreserve
<1>5. CASE BatchMembers(w)
  BY <1>5, LoadPreserves
<1>6. ASSUME NEW m \in Users, BatchClear(w, m) PROVE RegistryInv'
  BY <1>6, ClearPreserves
<1>7. CASE BatchFinish(w)
  <2> DEFINE x == [job[w] EXCEPT !.at = "hk remove"]
  <2>1. CASE RemoveImages(w, "hk images", x)
    <3>1. x \in Job /\ JobOK(x)
      BY <1>0, <2>1 DEF RemoveImages, At, Job, Steps, Housekeeping, JobOK
    <3> HIDE DEF x
    <3> QED
      BY <2>1, <3>1, ImagesPreserve DEF Steps, Housekeeping
  <2>2. CASE RemoveRecord(w, "hk remove", NextGroup(w))
    BY <2>2, NextGroupOK, RecordRemovalPreserves DEF Steps, Housekeeping
  <2> QED
    BY <1>7, <2>1, <2>2 DEF BatchFinish
<1> QED
  BY <1>1, <1>2, <1>3, <1>4, <1>5, <1>6, <1>7 DEF RoundStep

\* Failures, the clock and the apps preserve the invariant.
LEMMA EnvironmentPreserves ==
    ASSUME RegistryInv,
           \/ \E w \in Workers : Fail(w) \/ BatchFail(w)
           \/ \E g \in GroupIds : Expire(g) \/ UploadFile(g)
           \/ \E u \in Users : PushPhoto(u)
    PROVE  RegistryInv'
<1> USE DEF store, history
<1>1. ASSUME failures < MaxFailures PROVE failures + 1 \in 0 .. MaxFailures
  BY <1>1, StoreTypes, RegistryAssumption
<1>2. ASSUME NEW w \in Workers, Fail(w) PROVE RegistryInv'
  BY <1>1, <1>2, StoreTypes, FinishStep DEF Fail
<1>3. ASSUME NEW w \in Workers, BatchFail(w) PROVE RegistryInv'
  BY <1>1, <1>3, StoreTypes, NextGroupOK, JobStep DEF BatchFail
<1>4. ASSUME NEW g \in GroupIds, Expire(g) PROVE RegistryInv'
  <2>1. TypeOK'
    BY <1>4 DEF Expire, RegistryInv, TypeOK
  <2>2. OnlyPushed' /\ CreatorIsMember'
    BY <1>4 DEF Expire, RegistryInv, OnlyPushed, CreatorIsMember, Exists, Known
  <2>3. \A w \in Workers : JobOK(job[w])'
    BY <1>4 DEF Expire, RegistryInv, JobOK, Known
  <2> QED
    BY <2>1, <2>2, <2>3 DEF RegistryInv
<1>5. CASE (\E u \in Users : PushPhoto(u)) \/ \E g \in GroupIds : UploadFile(g)
  <2>1. \A u \in Users : pointer[u] # NoGroup => pointer[u] \in GroupIds
    BY StoreTypes
  <2>2. TypeOK'
    BY <1>5, <2>1 DEF PushPhoto, UploadFile, RegistryInv, TypeOK
  <2>3. UNCHANGED <<pointer, groups, expired, pushed, job>>
    BY <1>5 DEF PushPhoto, UploadFile
  <2>4. OnlyPushed' /\ CreatorIsMember'
    BY <2>3 DEF RegistryInv, OnlyPushed, CreatorIsMember, Exists, Known
  <2>5. \A w \in Workers : JobOK(job[w])'
    BY <2>3 DEF RegistryInv, JobOK, Known
  <2> QED
    BY <2>2, <2>4, <2>5 DEF RegistryInv
<1> QED
  BY <1>2, <1>3, <1>4, <1>5

-----------------------------------------------------------------------------
\* RegistryInv holds initially.
LEMMA InitInv == Init => RegistryInv
<1> SUFFICES ASSUME Init PROVE RegistryInv
  OBVIOUS
<1>1. Absent \in Record /\ Absent.creator = NoUser
  BY RegistryAssumption DEF Absent, Record, Token
<1>2. TypeOK
  BY <1>1, IdleOK, RegistryAssumption DEF Init, TypeOK, Token
<1>3. OnlyPushed /\ CreatorIsMember
  BY <1>1 DEF Init, OnlyPushed, CreatorIsMember, Exists, Known
<1>4. \A w \in Workers : JobOK(job[w])
  BY IdleOK DEF Init
<1> QED
  BY <1>2, <1>3, <1>4 DEF RegistryInv

\* RegistryInv is preserved by every step and by stuttering.
LEMMA NextInv == RegistryInv /\ [Next]_vars => RegistryInv'
<1> SUFFICES ASSUME RegistryInv, [Next]_vars PROVE RegistryInv'
  OBVIOUS
<1>1. ASSUME NEW w \in Workers, Request(w) PROVE RegistryInv'
  BY <1>1, CreatePreserves, JoinPreserves, DeletePreserves DEF Request
<1>2. ASSUME NEW w \in Workers, RoundStart(w) \/ Step(w) PROVE RegistryInv'
  BY <1>2, CreatePreserves, JoinPreserves, DeletePreserves, RoundPreserves DEF Step
<1>3. CASE \/ \E w \in Workers : Fail(w) \/ BatchFail(w)
           \/ \E g \in GroupIds : Expire(g) \/ UploadFile(g)
           \/ \E u \in Users : PushPhoto(u)
  BY <1>3, EnvironmentPreserves
<1>4. CASE UNCHANGED vars
  <2>1. UNCHANGED <<pointer, groups, photos, images, expired, pushed, lastToken, failures, job>>
    BY <1>4 DEF vars, store, history
  <2>2. TypeOK' /\ OnlyPushed' /\ CreatorIsMember'
    BY <2>1 DEF RegistryInv, TypeOK, OnlyPushed, CreatorIsMember, Exists, Known
  <2>3. \A w \in Workers : JobOK(job[w])'
    BY <2>1 DEF RegistryInv, JobOK, Known
  <2> QED
    BY <2>2, <2>3 DEF RegistryInv
<1> QED
  BY <1>1, <1>2, <1>3, <1>4 DEF Next

\* The inductive invariant: no handler, however late it writes what it read,
\* loses the creator from a list or brings a removed group back to life.
THEOREM RegistryInvariant == Spec => []RegistryInv
BY InitInv, NextInv, PTL DEF Spec

\* The store, the handlers' variables and the bounds keep their types.
THEOREM TypeCorrectness == Spec => []TypeOK
<1>1. RegistryInv => TypeOK
  BY DEF RegistryInv
<1> QED
  BY <1>1, RegistryInvariant, PTL

\* A group with an end_time always lists its creator, so batch_delete never
\* meets a missing members list on a group it has to reclaim.
THEOREM CreatorStaysMember == Spec => []CreatorIsMember
<1>1. RegistryInv => CreatorIsMember
  BY DEF RegistryInv
<1> QED
  BY <1>1, RegistryInvariant, PTL

-----------------------------------------------------------------------------
\* Only a worker inside delete(), for the creator, or inside batch_delete()
\* takes anything of a group that has its record away.
LEMMA WhoDestroys ==
    ASSUME RegistryInv, Next, NEW g \in GroupIds, Destroys(g)
    PROVE  \E w \in Workers : job[w].at \in OwnerSteps \union BatchSteps /\ job[w].group = g
<1> USE DEF store, history
<1> DEFINE Remover(w) == job[w].at \in OwnerSteps \union BatchSteps /\ job[w].group = g
           Keeps == Known(g)' /\ photos \subseteq photos' /\ images \subseteq images'
<1>0. Known(g) /\ ~Keeps
  BY DEF Destroys
<1>1. ASSUME UNCHANGED <<groups, photos, images>> PROVE FALSE
  BY <1>0, <1>1 DEF Known
<1>2. ASSUME NEW w \in Workers, NEW u \in Users, NEW h \in GroupIds,
             CreateStart(w, u) \/ JoinStart(w, u, h) \/ DeleteStart(w, u, h)
      PROVE  FALSE
  BY <1>1, <1>2 DEF CreateStart, JoinStart, DeleteStart
<1>3. ASSUME NEW w \in Workers, CreateStep(w) PROVE FALSE
  <2>1. CASE CreateCheck(w)
    BY <2>1, <1>1 DEF CreateCheck, CheckOldGroup
  <2>2. ASSUME NEW h \in GroupIds, CreatePush(w, h) PROVE FALSE
    <3>1. h \notin pushed /\ g \in pushed
      <4>1. Absent.creator = NoUser
        BY DEF Absent
      <4> QED
        BY <2>2, <1>0, <4>1 DEF CreatePush, RegistryInv, OnlyPushed, Exists, Known
    <3>2. groups'[g] = groups[g] /\ UNCHANGED <<photos, images>>
      BY <2>2, <3>1, StoreTypes DEF CreatePush
    <3> QED
      BY <1>0, <3>2 DEF Known
  <2>3. CASE CreatePoint(w)
    BY <2>3, <1>1 DEF CreatePoint
  <2>4. CASE CreateKeep(w)
    BY <2>4, <1>0 DEF CreateKeep, Known
  <2> QED
    BY <1>3, <2>1, <2>2, <2>3, <2>4 DEF CreateStep
<1>4. ASSUME NEW w \in Workers, NEW step \in {"join write", "leave write"},
             WriteMembers(w, step)
      PROVE  FALSE
  <2>1. groups'[g].creator = groups[g].creator /\ UNCHANGED <<photos, images>>
    BY <1>4, StoreTypes DEF WriteMembers, Record
  <2> QED
    BY <1>0, <2>1 DEF Known
<1>5. ASSUME NEW w \in Workers, JoinStep(w) PROVE FALSE
  <2>1. CASE JoinRotate(w)
    <3>1. groups'[g].creator = groups[g].creator /\ UNCHANGED <<photos, images>>
      BY <2>1, StoreTypes DEF JoinRotate, Record
    <3> QED
      BY <1>0, <3>1 DEF Known
  <2>2. CASE JoinWrite(w)
    BY <2>2, <1>4 DEF JoinWrite
  <2> QED
    BY <1>1, <1>5, <2>1, <2>2
       DEF JoinStep, JoinRead, JoinCheck, CheckOldGroup, JoinPatch, JoinPoint, JoinMembers
<1>6. ASSUME NEW w \in Workers, DeleteStep(w) \/ RoundStep(w) PROVE Remover(w)
  <2> USE DEF OwnerSteps, BatchSteps, At
  <2>1. CASE OwnerUnpoint(w) \/ LeaveUnpoint(w) \/ OwnerMembers(w) \/ BatchMembers(w)
               \/ LeaveMembers(w) \/ RoundEnd(w)
    BY <2>1, <1>1 DEF OwnerUnpoint, LeaveUnpoint, Unpoint, OwnerMembers, BatchMembers,
                      LoadMembers, LeaveMembers, RoundEnd
  <2>2. ASSUME NEW m \in Users, OwnerClear(w, m) \/ BatchClear(w, m) PROVE Remover(w)
    BY <2>2, <1>1 DEF OwnerClear, BatchClear, ClearMember
  <2>3. ASSUME NEW h \in GroupIds, RoundNext(w, h) PROVE Remover(w)
    BY <2>3, <1>1 DEF RoundNext
  <2>4. CASE LeaveWrite(w)
    BY <2>4, <1>4 DEF LeaveWrite
  <2>5. CASE OwnerPhotos(w) \/ BatchPhotos(w)
    BY <2>5 DEF Destroys, OwnerPhotos, BatchPhotos, RemovePhotos, Known
  <2>6. ASSUME NEW from \in OwnerSteps \union BatchSteps, NEW x, RemoveImages(w, from, x)
        PROVE  Remover(w)
    BY <2>6 DEF Destroys, RemoveImages, Known
  <2>7. ASSUME NEW from \in OwnerSteps \union BatchSteps, NEW x, RemoveRecord(w, from, x)
        PROVE  Remover(w)
    <3>1. job[w].group # g => groups'[g] = groups[g] /\ UNCHANGED <<photos, images>>
      BY <2>7, StoreTypes DEF RemoveRecord
    <3> QED
      BY <2>7, <3>1 DEF Destroys, RemoveRecord, Known
  <2> HIDE DEF OwnerSteps, BatchSteps, Remover
  <2>8. "owner images" \in OwnerSteps /\ "owner remove" \in OwnerSteps
        /\ "hk images" \in BatchSteps /\ "hk remove" \in BatchSteps
    BY DEF OwnerSteps, BatchSteps
  <2>9. CASE OwnerRemove(w) \/ OwnerImages(w) \/ BatchFinish(w)
    BY <2>6, <2>7, <2>8, <2>9 DEF OwnerRemove, OwnerImages, BatchFinish
  <2> QED
    BY <1>6, <2>1, <2>2, <2>3, <2>4, <2>5, <2>9 DEF DeleteStep, RoundStep
<1>7. ASSUME \/ \E w \in Workers : RoundStart(w) \/ Fail(w) \/ BatchFail(w)
             \/ \E h \in GroupIds : Expire(h) \/ UploadFile(h)
             \/ \E u \in Users : PushPhoto(u)
      PROVE  FALSE
  BY <1>0, <1>7 DEF RoundStart, Fail, BatchFail, Expire, PushPhoto, UploadFile, Known
<1> HIDE DEF Keeps
<1> QED
  BY <1>2, <1>3, <1>5, <1>6, <1>7 DEF Next, Request, Step

\* While a group has its record, it loses the record, photos or images only
\* after its end_time or while its creator's own delete request runs, however
\* the requests interleave and wherever they fail.
THEOREM OnlyRightfulDestruction == Spec => OnlyExpiryOrCreatorDestroys
<1>1. ASSUME RegistryInv, Next, NEW g \in GroupIds, Destroys(g)
      PROVE  g \in expired \/ BeingDeleted(g)
  <2>1. PICK w \in Workers : /\ job[w].at \in OwnerSteps \union BatchSteps
                             /\ job[w].group = g
    BY <1>1, WhoDestroys
  <2>2. JobOK(job[w]) /\ Known(g)
    BY <1>1 DEF RegistryInv, Destroys
  <2> QED
    BY <2>1, <2>2 DEF JobOK, BeingDeleted
<1>2. RegistryInv /\ [Next]_vars
        => [\A g \in GroupIds : Destroys(g) => g \in expired \/ BeingDeleted(g)]_vars
  BY <1>1
<1> QED
  BY <1>2, RegistryInvariant, PTL DEF Spec, OnlyExpiryOrCreatorDestroys

====
