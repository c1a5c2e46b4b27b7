-------------------------- MODULE BackendStoreProofs --------------------------
(***************************************************************************)
(* What the registry and the file manager leave in the database and in the *)
(* bucket, for any number of workers and with a failure at any call: no    *)
(* pointer to a group that was not disturbed itself dangles, whatever      *)
(* happens to the others at the same time, and no file is orphaned but by  *)
(* a delete that was cut off or by a file that came late.                  *)
(***************************************************************************)
EXTENDS BackendProofs

\* Whoever points to g is listed there, or w is about to list the user.
Leads(w, g) == \A u \in Users : pointer[u] = g =>
    Known(g) /\ (u \in groups[g].members \/ Admitting(w, u, g))

\* What the handler of w owes to g.
Served(w, g) == Leads(w, g) /\ (job[w].group = g => HandlerSound(w))

\* Before a step of w, when no other worker serves g.
Ready(w, g) ==
    /\ RegistryInv
    /\ w \in Workers /\ g \in GroupIds
    /\ \A v \in Workers \ {w} : job[v].group # g
    /\ Served(w, g)

\* The types the lemmas need.
LEMMA ReadyTypes ==
    ASSUME NEW w, NEW g, Ready(w, g)
    PROVE  /\ w \in Workers /\ g \in pushed \union GroupIds
           /\ job \in [Workers -> Job] /\ job[w] \in Job
           /\ pointer \in [Users -> pushed \union {NoGroup}] /\ g # NoGroup
           /\ groups \in [GroupIds -> Record] /\ pushed \subseteq GroupIds
           /\ job[w].at \in RequestSteps => job[w].user \in Users
           /\ job[w].at \in GroupSteps => job[w].group \in pushed
BY RegistryAssumption, StoreTypes DEF Ready, RegistryInv, TypeOK, JobOK

\* At these steps a handler relies on nothing it has read.
Careless == {"idle", "create check", "create push", "owner unpoint", "owner photos",
             "owner members", "leave unpoint", "hk next", "hk photos", "hk members"}

LEMMA CarelessSound ==
    ASSUME NEW w, job'[w].at \in Careless
    PROVE  HandlerSound(w)'
BY DEF HandlerSound, Careless, JoinSteps

\* A step that leaves pointers and groups alone, and nobody half admitted.
LEMMA Moves ==
    ASSUME NEW w, NEW g, Ready(w, g), UNCHANGED <<pointer, groups>>,
           \A u \in Users : Admitting(w, u, g) /\ Known(g) =>
             u \in groups[g].members \/ Admitting(w, u, g)'
    PROVE  Leads(w, g)'
BY DEF Ready, Served, Leads, Known

\* As Moves, when the handler ends or comes to a step that relies on nothing.
LEMMA MovesOn ==
    ASSUME NEW w, NEW g, Ready(w, g), UNCHANGED <<pointer, groups>>,
           NEW x, job' = [job EXCEPT ![w] = x], x.at \in Careless,
           \A u \in Users : ~Admitting(w, u, g)
    PROVE  Served(w, g)'
<1>1. job'[w] = x
  BY ReadyTypes
<1>2. Leads(w, g)' /\ HandlerSound(w)'
  BY <1>1, Moves, CarelessSound
<1> QED
  BY <1>2 DEF Served

-----------------------------------------------------------------------------
\* What a request starts with: a join, unless it is disturbed from the start, finds
\* the record there.
LEMMA StartServes ==
    ASSUME NEW w, NEW g, Ready(w, g), Request(w) \/ RoundStart(w), ~JoinsGone(g)
    PROVE  Served(w, g)'
<1> USE DEF store, history
<1>0. /\ job[w].at = "idle" /\ w \in Workers /\ job \in [Workers -> Job]
      /\ UNCHANGED <<pointer, groups>>
      /\ \A u \in Users : ~Admitting(w, u, g)
  BY ReadyTypes DEF Request, CreateStart, JoinStart, DeleteStart, RoundStart, At, Admitting, HalfJoined
<1>1. ASSUME NEW x, job' = [job EXCEPT ![w] = x], x.at \in Careless PROVE Served(w, g)'
  BY <1>0, <1>1, MovesOn
<1>2. ASSUME NEW u \in Users, CreateStart(w, u) PROVE Served(w, g)'
  <2> DEFINE x == [Idle EXCEPT
                     !.at = IF pointer[u] = NoGroup THEN "create push" ELSE "create check",
                     !.user = u, !.old = pointer[u]]
  <2>1. job' = [job EXCEPT ![w] = x]
    BY <1>2 DEF CreateStart
  <2>2. x.at \in Careless
    BY DEF Idle, Careless
  <2> HIDE DEF x
  <2> QED
    BY <1>1, <2>1, <2>2
<1>3. ASSUME NEW u \in Users, NEW h \in GroupIds, JoinStart(w, u, h) PROVE Served(w, g)'
  <2> DEFINE x == [Idle EXCEPT !.at = "join read", !.user = u, !.group = h,
                               !.token = groups[h].token]
  <2>1. job' = [job EXCEPT ![w] = x]
    BY <1>3 DEF JoinStart
  <2>2. x.at = "join read" /\ x.group = h
    BY DEF Idle
  <2> HIDE DEF x
  <2>3. job'[w] = x
    BY <1>0, <2>1
  <2>4. h = g => Known(g)
    BY <1>0, <2>2, <2>3 DEF JoinsGone, At
  <2>5. h = g => HandlerSound(w)'
    BY <1>0, <2>2, <2>3, <2>4 DEF HandlerSound, Known
  <2>6. Leads(w, g)'
    BY <1>0, Moves
  <2> QED
    BY <2>2, <2>3, <2>5, <2>6 DEF Served
<1>4. ASSUME NEW u \in Users, NEW h \in GroupIds, DeleteStart(w, u, h) PROVE Served(w, g)'
  <2> DEFINE x == [Idle EXCEPT !.at = IF IsOwner(u, h) THEN "owner unpoint" ELSE "leave unpoint",
                               !.user = u, !.group = h]
  <2>1. job' = [job EXCEPT ![w] = x]
    BY <1>4 DEF DeleteStart
  <2>2. x.at \in Careless
    BY DEF Idle, Careless
  <2> HIDE DEF x
  <2> QED
    BY <1>1, <2>1, <2>2
<1>5. ASSUME RoundStart(w) PROVE Served(w, g)'
  <2> DEFINE x == [Idle EXCEPT !.at = "hk next", !.queue = {h \in GroupIds : Exists(h)}]
  <2>1. job' = [job EXCEPT ![w] = x]
    BY <1>5 DEF RoundStart
  <2>2. x.at \in Careless
    BY DEF Idle, Careless
  <2> HIDE DEF x
  <2> QED
    BY <1>1, <2>1, <2>2
<1> QED
  BY <1>2, <1>3, <1>4, <1>5 DEF Request

\* The check of the old group, in create() and update().
LEMMA CheckServes ==
    ASSUME NEW w, NEW g, Ready(w, g), CreateCheck(w) \/ JoinCheck(w)
    PROVE  Served(w, g)'
<1> USE DEF store, history
<1>1. PICK to \in {"create push", "join patch"} :
        /\ job[w].at = IF to = "create push" THEN "create check" ELSE "join check"
        /\ CheckOldGroup(w, job[w].at, to)
  BY DEF CreateCheck, JoinCheck, CheckOldGroup, At
<1> DEFINE y == [job[w] EXCEPT !.at = to, !.old = NoGroup]
           x == IF Overdue(job[w].old) THEN y ELSE Idle
<1>2. job' = [job EXCEPT ![w] = x] /\ UNCHANGED <<pointer, groups>>
  BY <1>1 DEF CheckOldGroup, Finish
<1>3. x.at = "idle" \/ (x.at = to /\ x.group = job[w].group)
  <2>1. y.at = to /\ y.group = job[w].group /\ Idle.at = "idle"
    BY ReadyTypes DEF Job, Idle
  <2> QED
    BY <2>1
<1> HIDE DEF x
<1>4. \A u \in Users : ~Admitting(w, u, g)
  BY <1>1 DEF Admitting, HalfJoined
<1>5. CASE x.at \in Careless
  BY <1>2, <1>4, <1>5, MovesOn
<1>6. CASE x.at = "join patch" /\ x.group = job[w].group
  <2>1. job'[w] = x
    BY <1>2, ReadyTypes
  <2>2. Leads(w, g)'
    BY <1>2, <1>4, Moves
  <2>3. job[w].group = g => Known(g)
    BY <1>1, <1>6, <1>3 DEF Ready, Served, HandlerSound, JoinSteps, Careless
  <2>4. job'[w].group = g => HandlerSound(w)'
    BY <1>2, <1>6, <2>1, <2>3 DEF HandlerSound, Known
  <2> QED
    BY <2>2, <2>4 DEF Served
<1> QED
  BY <1>3, <1>5, <1>6 DEF Careless

\* create(): a new group lists its creator before the creator points to it.
LEMMA CreateServes ==
    ASSUME NEW w, NEW g, Ready(w, g), job[w].group = g \/ job'[w].group = g, CreateStep(w)
    PROVE  Served(w, g)'
<1> USE DEF store, history
<1>0. /\ w \in Workers /\ job \in [Workers -> Job] /\ job[w] \in Job /\ g \in GroupIds
      /\ groups \in [GroupIds -> Record] /\ pushed \subseteq GroupIds
      /\ pointer \in [Users -> pushed \union {NoGroup}] /\ g # NoGroup
  BY ReadyTypes
<1>1. ASSUME NEW h \in GroupIds, CreatePush(w, h) PROVE Served(w, g)'
  <2> DEFINE r == [creator |-> job[w].user, token |-> lastToken + 1, members |-> {job[w].user}]
             x == [job[w] EXCEPT !.at = "create point", !.group = h]
  <2>1. /\ job[w].at = "create push" /\ h \notin pushed /\ pointer' = pointer
        /\ groups' = [groups EXCEPT ![h] = r]
        /\ job' = [job EXCEPT ![w] = x]
    BY <1>0, <1>1 DEF CreatePush, At
  <2>2. job[w].user \in Users /\ job[w].user # NoUser
    BY <2>1, ReadyTypes, RegistryAssumption DEF RequestSteps, CreateSteps
  <2>3. x.at = "create point" /\ x.group = h /\ x.user = job[w].user
    BY <1>0 DEF Job
  <2>4. r.creator # NoUser /\ job[w].user \in r.members
    BY <2>2
  <2> HIDE DEF x, r
  <2>5. job'[w] = x /\ groups'[h] = r /\ (g # h => groups'[g] = groups[g])
    BY <1>0, <2>1
  <2>6. \A u \in Users : pointer[u] # h /\ ~Admitting(w, u, g)
    BY <1>0, <2>1, RegistryAssumption DEF Admitting, HalfJoined
  <2>7. Leads(w, g)'
    BY <2>1, <2>5, <2>6 DEF Ready, Served, Leads, Known
  <2>8. h = g => HandlerSound(w)'
    BY <2>3, <2>4, <2>5 DEF HandlerSound, JoinSteps, Known
  <2> QED
    BY <2>3, <2>5, <2>7, <2>8 DEF Served
<1>2. CASE CreatePoint(w)
  <2> DEFINE x == [job[w] EXCEPT !.at = "create keep"]
             u == job[w].user
  <2>1. /\ job[w].at = "create point" /\ groups' = groups
        /\ pointer' = [pointer EXCEPT ![u] = job[w].group]
        /\ job' = [job EXCEPT ![w] = x]
    BY <1>0, <1>2 DEF CreatePoint, At, Point, Goto
  <2>2. x.at = "create keep" /\ x.group = job[w].group /\ x.user = u
    BY <1>0 DEF Job
  <2>3. u \in Users
    BY <2>1, ReadyTypes DEF RequestSteps, CreateSteps
  <2> HIDE DEF x, u
  <2>4. job'[w] = x /\ \A v \in Users \ {u} : pointer'[v] = pointer[v]
    BY <1>0, <2>1, <2>3
  <2>5. job[w].group = g
    BY <2>2, <2>4
  <2>6. Known(g) /\ u \in groups[g].members
    BY <2>1, <2>5 DEF Ready, Served, HandlerSound, u
  <2>7. Leads(w, g)'
    BY <2>1, <2>4, <2>6 DEF Ready, Served, Leads, Known, Admitting, HalfJoined
  <2>8. HandlerSound(w)'
    BY <2>1, <2>2, <2>4, <2>5, <2>6 DEF HandlerSound, JoinSteps, Known
  <2> QED
    BY <2>7, <2>8 DEF Served
<1>3. CASE CreateKeep(w)
  <2>1. /\ job[w].at = "create keep" /\ UNCHANGED <<pointer, groups>>
        /\ job' = [job EXCEPT ![w] = Idle] /\ Idle.at \in Careless
    BY <1>3 DEF CreateKeep, At, Finish, Idle, Careless
  <2>2. \A u \in Users : ~Admitting(w, u, g)
    BY <2>1 DEF Admitting, HalfJoined
  <2> QED
    BY <2>1, <2>2, MovesOn
<1> QED
  BY <1>1, <1>2, <1>3, CheckServes DEF CreateStep

\* update(): whoever is pointed to the group is then listed there, and the list that
\* is written back is the one that was read, with the user.
LEMMA JoinServes ==
    ASSUME NEW w, NEW g, Ready(w, g), job[w].group = g \/ job'[w].group = g, JoinStep(w)
    PROVE  Served(w, g)'
<1> USE DEF store, history
<1>9. job[w].at \in JoinSteps
  BY DEF JoinStep, JoinRead, JoinCheck, CheckOldGroup, JoinPatch, JoinPoint, JoinRotate,
         JoinMembers, JoinWrite, WriteMembers, At, JoinSteps
<1>10. PICK u \in Users : job[w].user = u
  BY <1>9, ReadyTypes DEF RequestSteps
<1>11. /\ w \in Workers /\ job \in [Workers -> Job] /\ job[w] \in Job /\ g \in GroupIds
       /\ groups \in [GroupIds -> Record]
       /\ pointer \in [Users -> pushed \union {NoGroup}] /\ g # NoGroup
  BY ReadyTypes
<1>12. job[w].group = g
  <2>1. job'[w] = Idle \/ job'[w].group = job[w].group
    <3>1. ASSUME Finish(w) PROVE job'[w] = Idle
      BY <1>11, <3>1 DEF Finish
    <3>2. ASSUME NEW step, Goto(w, step) PROVE job'[w].group = job[w].group
      <4>1. [job[w] EXCEPT !.at = step].group = job[w].group
        BY <1>11 DEF Job
      <4> QED
        BY <1>11, <3>2, <4>1 DEF Goto
    <3>3. ASSUME NEW step, NEW old, job' = [job EXCEPT ![w].at = step, ![w].old = old]
          PROVE  job'[w].group = job[w].group
      <4>1. [job[w] EXCEPT !.at = step, !.old = old].group = job[w].group
        BY <1>11 DEF Job
      <4> QED
        BY <1>11, <3>3, <4>1
    <3>4. ASSUME NEW step, NEW list, job' = [job EXCEPT ![w].at = step, ![w].list = list]
          PROVE  job'[w].group = job[w].group
      <4>1. [job[w] EXCEPT !.at = step, !.list = list].group = job[w].group
        BY <1>11 DEF Job
      <4> QED
        BY <1>11, <3>4, <4>1
    <3>5. CASE JoinRead(w) \/ JoinCheck(w)
      BY <3>1, <3>3, <3>5 DEF JoinRead, JoinCheck, CheckOldGroup
    <3>6. CASE JoinPatch(w) \/ JoinPoint(w) \/ JoinRotate(w)
      BY <3>1, <3>2, <3>6 DEF JoinPatch, JoinPoint, JoinRotate
    <3>7. CASE JoinMembers(w) \/ JoinWrite(w)
      BY <3>1, <3>4, <3>7 DEF JoinMembers, JoinWrite, WriteMembers
    <3> QED
      BY <3>5, <3>6, <3>7 DEF JoinStep
  <2>2. Idle.group # g
    BY <1>11 DEF Idle
  <2> QED
    BY <2>1, <2>2
<1>0. /\ Known(g) /\ HandlerSound(w) /\ Leads(w, g)
      /\ \A v \in Users : Admitting(w, v, g) => v = u
  BY <1>9, <1>10, <1>12 DEF Ready, Served, HandlerSound, Admitting
<1>1. CASE JoinRead(w)
  <2> DEFINE p == pointer[u]
             x == [job[w] EXCEPT !.at = IF p = NoGroup THEN "join point" ELSE "join check",
                                 !.old = p]
  <2>1. /\ job[w].at = "join read" /\ UNCHANGED <<pointer, groups>>
        /\ job' = [job EXCEPT ![w] = x]
    BY <1>10, <1>11, <1>1 DEF JoinRead, At
  <2>2. x.at \in {"join point", "join check"} /\ x.group = g
    BY <1>11, <1>12 DEF Job
  <2> HIDE DEF x
  <2>3. job'[w] = x /\ Known(g)'
    BY <1>0, <1>11, <2>1 DEF Known
  <2>4. Leads(w, g)'
    BY <2>1, Moves DEF Admitting, HalfJoined
  <2>5. HandlerSound(w)'
    BY <2>2, <2>3 DEF HandlerSound
  <2> QED
    BY <2>4, <2>5 DEF Served
<1>2. CASE JoinCheck(w)
  BY <1>2, CheckServes
<1>3. ASSUME NEW from \in {"join patch", "join point"}, NEW to \in {"join point", "join rotate"},
             At(w, from), Point(u, g), Goto(w, to), groups' = groups
      PROVE  Served(w, g)'
  <2> DEFINE x == [job[w] EXCEPT !.at = to]
  <2>1. pointer' = [pointer EXCEPT ![u] = g] /\ job' = [job EXCEPT ![w] = x]
    BY <1>11, <1>3 DEF Point, Goto
  <2>2. x.at = to /\ x.group = g /\ x.user = u
    BY <1>10, <1>11, <1>12, <1>3 DEF Job
  <2> HIDE DEF x
  <2>3. job'[w] = x /\ \A v \in Users \ {u} : pointer'[v] = pointer[v]
    BY <1>11, <2>1
  <2>4. Admitting(w, u, g)' /\ Known(g)'
    BY <1>0, <1>3, <2>2, <2>3 DEF Admitting, HalfJoined, Known
  <2>5. Leads(w, g)'
    BY <1>0, <1>3, <2>3, <2>4 DEF Leads
  <2>6. HandlerSound(w)'
    BY <2>2, <2>3, <2>4 DEF HandlerSound
  <2> QED
    BY <2>5, <2>6 DEF Served
<1>4. CASE JoinPatch(w)
  <2>1. CASE Point(u, g) /\ Goto(w, "join point")
    BY <1>3, <1>4, <2>1 DEF JoinPatch
  <2>2. CASE Finish(w) /\ UNCHANGED pointer
    <3>1. /\ job[w].at = "join patch" /\ UNCHANGED <<pointer, groups>>
          /\ job' = [job EXCEPT ![w] = Idle] /\ Idle.at \in Careless
      BY <1>4, <2>2 DEF JoinPatch, Finish, At, Idle, Careless
    <3>2. \A v \in Users : ~Admitting(w, v, g)
      BY <3>1 DEF Admitting, HalfJoined
    <3> QED
      BY <3>1, <3>2, MovesOn
  <2> QED
    BY <1>10, <1>12, <1>4, <2>1, <2>2 DEF JoinPatch
<1>5. CASE JoinPoint(w)
  BY <1>10, <1>12, <1>3, <1>5 DEF JoinPoint
<1>6. CASE JoinRotate(w)
  <2> DEFINE x == [job[w] EXCEPT !.at = "join members"]
             r == [groups[g] EXCEPT !.token = lastToken + 1]
  <2>1. /\ job[w].at = "join rotate" /\ pointer' = pointer
        /\ groups' = [groups EXCEPT ![g] = r]
        /\ job' = [job EXCEPT ![w] = x]
    BY <1>11, <1>12, <1>6 DEF JoinRotate, At, Goto
  <2>2. x.at = "join members" /\ x.group = g /\ x.user = u
    BY <1>10, <1>11, <1>12 DEF Job
  <2>3. r.creator = groups[g].creator /\ r.members = groups[g].members
    BY <1>11 DEF Record
  <2> HIDE DEF x, r
  <2>4. job'[w] = x /\ groups'[g] = r
    BY <1>11, <2>1
  <2>5. Known(g)' /\ groups'[g].members = groups[g].members
    BY <1>0, <2>3, <2>4 DEF Known
  <2>6. \A v \in Users : Admitting(w, v, g) => Admitting(w, v, g)'
    BY <1>0, <2>2, <2>4 DEF Admitting, HalfJoined
  <2>7. Leads(w, g)'
    BY <1>0, <2>1, <2>5, <2>6 DEF Leads
  <2>8. HandlerSound(w)'
    BY <2>2, <2>4, <2>5 DEF HandlerSound
  <2> QED
    BY <2>7, <2>8 DEF Served
<1>7. CASE JoinMembers(w)
  <2> DEFINE members == groups[g].members
             y == [job[w] EXCEPT !.at = "join write", !.list = members \union {u}]
             x == IF u \in members THEN Idle ELSE y
  <2>1. members # {}
    BY <1>0, <1>11 DEF Ready, RegistryInv, CreatorIsMember
  <2>2. /\ job[w].at = "join members" /\ UNCHANGED <<pointer, groups>>
        /\ job' = [job EXCEPT ![w] = x]
    BY <1>10, <1>11, <1>12, <1>7, <2>1 DEF JoinMembers, At, Finish
  <2>3. \/ x.at = "idle" /\ u \in members
        \/ x.at = "join write" /\ x.user = u /\ x.group = g /\ x.list = members \union {u}
    <3>1. y.at = "join write" /\ y.user = u /\ y.group = g /\ y.list = members \union {u}
      BY <1>10, <1>11, <1>12 DEF Job
    <3>2. Idle.at = "idle"
      BY DEF Idle
    <3> QED
      BY <3>1, <3>2
  <2> HIDE DEF x
  <2>4. job'[w] = x
    BY <1>11, <2>2
  <2>5. CASE x.at = "idle" /\ u \in members
    <3>1. Leads(w, g)'
      BY <1>0, <2>2, <2>5, Moves
    <3>2. job'[w].at \in Careless
      BY <2>4, <2>5 DEF Careless
    <3>3. HandlerSound(w)'
      BY <3>2, CarelessSound
    <3> QED
      BY <3>1, <3>3 DEF Served
  <2>6. CASE x.at = "join write" /\ x.user = u /\ x.group = g /\ x.list = members \union {u}
    <3>1. Admitting(w, u, g)'
      BY <2>4, <2>6 DEF Admitting, HalfJoined
    <3>2. Leads(w, g)'
      BY <1>0, <2>2, <3>1, Moves
    <3>3. HandlerSound(w)'
      BY <1>0, <2>2, <2>4, <2>6 DEF HandlerSound, Known
    <3> QED
      BY <3>2, <3>3 DEF Served
  <2> QED
    BY <2>3, <2>5, <2>6
<1>8. CASE JoinWrite(w)
  <2> DEFINE r == [groups[g] EXCEPT !.members = job[w].list]
  <2>1. /\ job[w].at = "join write" /\ pointer' = pointer
        /\ groups' = [groups EXCEPT ![g] = r]
        /\ job' = [job EXCEPT ![w] = Idle]
    BY <1>11, <1>12, <1>8 DEF JoinWrite, WriteMembers, At, Finish
  <2>2. r.creator = groups[g].creator /\ r.members = groups[g].members \union {u}
    BY <1>0, <1>10, <1>11, <1>12, <2>1 DEF Record, HandlerSound
  <2> HIDE DEF r
  <2>3. job'[w].at = "idle" /\ groups'[g] = r
    BY <1>11, <2>1 DEF Idle
  <2>4. Leads(w, g)'
    BY <1>0, <2>1, <2>2, <2>3 DEF Leads, Known
  <2>5. job'[w].at \in Careless
    BY <2>3 DEF Careless
  <2>6. HandlerSound(w)'
    BY <2>5, CarelessSound
  <2> QED
    BY <2>4, <2>6 DEF Served
<1> QED
  BY <1>1, <1>2, <1>4, <1>5, <1>6, <1>7, <1>8 DEF JoinStep

\* The user who leaves, or the creator, points nowhere any more.
LEMMA UnpointServes ==
    ASSUME NEW w, NEW g, Ready(w, g), LeaveUnpoint(w) \/ OwnerUnpoint(w)
    PROVE  Served(w, g)'
<1> USE DEF store, history
<1>0. PICK u \in Users : job[w].user = u
  BY ReadyTypes DEF LeaveUnpoint, OwnerUnpoint, Unpoint, At, RequestSteps, LeaveSteps, OwnerSteps
<1>1. PICK to \in {"leave members", "owner photos"} :
        /\ job[w].at \in {"leave unpoint", "owner unpoint"}
        /\ pointer' = [pointer EXCEPT ![u] = NoGroup]
        /\ Goto(w, to) /\ groups' = groups
  BY <1>0 DEF LeaveUnpoint, OwnerUnpoint, Unpoint, At, Point
<1> DEFINE x == [job[w] EXCEPT !.at = to]
<1>2. job' = [job EXCEPT ![w] = x] /\ x.at = to /\ x.user = u /\ x.group = job[w].group
  BY <1>0, <1>1, ReadyTypes DEF Goto, Job
<1> HIDE DEF x
<1>3. job'[w] = x /\ pointer'[u] = NoGroup /\ \A v \in Users \ {u} : pointer'[v] = pointer[v]
  BY <1>1, <1>2, ReadyTypes
<1>4. \A v \in Users : (pointer'[v] = g => pointer[v] = g) /\ ~Admitting(w, v, g)
  BY <1>1, <1>3, ReadyTypes DEF Admitting, HalfJoined
<1>5. Leads(w, g)'
  BY <1>1, <1>4 DEF Ready, Served, Leads, Known
<1>6. job'[w].group = g => HandlerSound(w)'
  BY <1>1, <1>2, <1>3, ReadyTypes DEF HandlerSound, JoinSteps
<1> QED
  BY <1>5, <1>6 DEF Served

\* Removing the photos of a group tells nothing of its users.
LEMMA PhotosServe ==
    ASSUME NEW w, NEW g, Ready(w, g), OwnerPhotos(w) \/ BatchPhotos(w)
    PROVE  Served(w, g)'
<1> USE DEF history
<1>1. PICK to \in {"owner members", "hk members"} :
        /\ job[w].at \in {"owner photos", "hk photos"} /\ Goto(w, to)
        /\ UNCHANGED <<pointer, groups>>
  BY DEF OwnerPhotos, BatchPhotos, RemovePhotos, At
<1> DEFINE x == [job[w] EXCEPT !.at = to]
<1>2. job' = [job EXCEPT ![w] = x] /\ x.at \in Careless
  BY <1>1, ReadyTypes DEF Goto, Job, Careless
<1> HIDE DEF x
<1> QED
  BY <1>1, <1>2, MovesOn DEF Admitting, HalfJoined

\* Whoever points to the group is in the list that is read.
LEMMA LoadServes ==
    ASSUME NEW w, NEW g, Ready(w, g), OwnerMembers(w) \/ BatchMembers(w)
    PROVE  Served(w, g)'
<1> USE DEF store, history
<1> DEFINE members == groups[job[w].group].members
<1>1. PICK to \in {"owner clear", "hk clear"}, raise \in {Idle, NextGroup(w)} :
        /\ job[w].at \in {"owner members", "hk members"}
        /\ LoadMembers(w, job[w].at, to, raise)
  BY DEF OwnerMembers, BatchMembers, LoadMembers, At
<1> DEFINE y == [job[w] EXCEPT !.at = to, !.list = members]
           x == IF members # {} THEN y ELSE raise
<1>2. job' = [job EXCEPT ![w] = x] /\ UNCHANGED <<pointer, groups>>
  BY <1>1, ReadyTypes DEF LoadMembers
<1>3. \/ x.at = to /\ x.group = job[w].group /\ x.list = members
      \/ x.at \in Careless
  <2>1. y.at = to /\ y.group = job[w].group /\ y.list = members
    BY ReadyTypes DEF Job
  <2>2. raise.at \in Careless
    <3>1. Idle.at = "idle" /\ NextGroup(w).at = "hk next"
      BY DEF NextGroup, Idle
    <3> QED
      BY <1>1, <3>1 DEF Careless
  <2> HIDE DEF y
  <2> QED
    BY <2>1, <2>2
<1> HIDE DEF x
<1>4. \A u \in Users : ~Admitting(w, u, g)
  BY <1>1 DEF Admitting, HalfJoined
<1>5. CASE x.at \in Careless
  BY <1>2, <1>4, <1>5, MovesOn
<1>6. CASE x.at = to /\ x.group = job[w].group /\ x.list = members
  <2>1. job'[w] = x
    BY <1>2, ReadyTypes
  <2>2. Leads(w, g)'
    BY <1>2, <1>4, Moves
  <2>3. job[w].group = g => \A u \in Users : pointer[u] = g => u \in members
    BY <1>4 DEF Ready, Served, Leads
  <2>4. job'[w].group = g => HandlerSound(w)'
    BY <1>2, <1>6, <2>1, <2>3 DEF HandlerSound, JoinSteps
  <2> QED
    BY <2>2, <2>4 DEF Served
<1> QED
  BY <1>3, <1>5, <1>6

\* When the last of the list has been unpointed, nobody points to the group.
LEMMA ClearServes ==
    ASSUME NEW w, NEW g, Ready(w, g), NEW m \in Users, OwnerClear(w, m) \/ BatchClear(w, m)
    PROVE  Served(w, g)'
<1> USE DEF store, history
<1>1. PICK from \in {"owner clear", "hk clear"}, to \in {"owner remove", "hk images"} :
        ClearMember(w, m, from, to)
  BY DEF OwnerClear, BatchClear
<1> DEFINE x == [job[w] EXCEPT !.list = job[w].list \ {m},
                               !.at = IF job[w].list = {m} THEN to ELSE from]
<1>2. /\ job' = [job EXCEPT ![w] = x] /\ groups' = groups
      /\ pointer' = [pointer EXCEPT ![m] = NoGroup] /\ job[w].at = from
  BY <1>1, ReadyTypes DEF ClearMember, Point, At
<1>3. /\ x.group = job[w].group /\ x.list = job[w].list \ {m}
      /\ x.at = IF job[w].list = {m} THEN to ELSE from
  BY ReadyTypes DEF Job
<1> HIDE DEF x
<1>4. job'[w] = x /\ pointer'[m] = NoGroup /\ \A v \in Users \ {m} : pointer'[v] = pointer[v]
  BY <1>2, ReadyTypes
<1>5. \A u \in Users : ~Admitting(w, u, g)
  BY <1>2 DEF Admitting, HalfJoined
<1>6. \A u \in Users : pointer'[u] = g => pointer[u] = g /\ u # m
  BY <1>4, ReadyTypes
<1>7. Leads(w, g)'
  BY <1>2, <1>5, <1>6 DEF Ready, Served, Leads, Known
<1>8. ASSUME job[w].group = g PROVE HandlerSound(w)'
  <2>1. \A u \in Users : pointer'[u] = g => u \in job[w].list \ {m}
    BY <1>2, <1>8, <1>6 DEF Ready, Served, HandlerSound
  <2>2. CASE x.at = from
    BY <1>3, <1>4, <1>8, <2>1, <2>2 DEF HandlerSound, JoinSteps
  <2>3. CASE x.at = to /\ job[w].list = {m}
    BY <1>3, <1>4, <1>8, <2>1, <2>3 DEF HandlerSound, JoinSteps
  <2> QED
    BY <1>3, <2>2, <2>3
<1> QED
  BY <1>3, <1>4, <1>7, <1>8 DEF Served

\* The record goes when nobody points to the group.
LEMMA RecordServes ==
    ASSUME NEW w, NEW g, Ready(w, g), OwnerRemove(w) \/ RemoveRecord(w, "hk remove", NextGroup(w)),
           job[w].group = g \/ job'[w].group = g
    PROVE  Served(w, g)'
<1> USE DEF store, history
<1> DEFINE y == [job[w] EXCEPT !.at = "owner images"]
           x == IF job[w].at = "owner remove" THEN y ELSE NextGroup(w)
<1>1. /\ job' = [job EXCEPT ![w] = x] /\ pointer' = pointer
      /\ job[w].at \in {"owner remove", "hk remove"}
  BY DEF OwnerRemove, RemoveRecord, At
<1>2. /\ x.at \in {"owner images", "hk next"}
      /\ x.group = job[w].group \/ x.group = NoGroup
  BY <1>1, ReadyTypes DEF Job, NextGroup, Idle
<1> HIDE DEF x
<1>3. job'[w] = x /\ job[w].group = g
  BY <1>1, <1>2, ReadyTypes
<1>4. \A u \in Users : pointer[u] # g
  BY <1>1, <1>3 DEF Ready, Served, HandlerSound
<1>5. Leads(w, g)'
  BY <1>1, <1>4 DEF Leads
<1>6. job'[w].group = g => HandlerSound(w)'
  BY <1>1, <1>2, <1>3, <1>4 DEF HandlerSound, JoinSteps
<1> QED
  BY <1>5, <1>6 DEF Served

\* The files go while nobody points to the group.
LEMMA ImagesServe ==
    ASSUME NEW w, NEW g, Ready(w, g),
           \/ OwnerImages(w)
           \/ RemoveImages(w, "hk images", [job[w] EXCEPT !.at = "hk remove"])
    PROVE  Served(w, g)'
<1> USE DEF store, history
<1> DEFINE y == [job[w] EXCEPT !.at = "hk remove"]
           x == IF job[w].at = "owner images" THEN Idle ELSE y
<1>1. /\ job' = [job EXCEPT ![w] = x] /\ UNCHANGED <<pointer, groups>>
      /\ job[w].at \in {"owner images", "hk images"}
  BY DEF OwnerImages, RemoveImages, At
<1>2. x.at \in Careless \/ (x.at = "hk remove" /\ x.group = job[w].group)
  BY ReadyTypes DEF Job, Idle, Careless
<1> HIDE DEF x
<1>3. \A u \in Users : ~Admitting(w, u, g)
  BY <1>1 DEF Admitting, HalfJoined
<1>4. CASE x.at \in Careless
  BY <1>1, <1>3, <1>4, MovesOn
<1>5. CASE x.at = "hk remove" /\ x.group = job[w].group
  <2>1. job'[w] = x
    BY <1>1, ReadyTypes
  <2>2. Leads(w, g)'
    BY <1>1, <1>3, Moves
  <2>3. job[w].group = g => \A u \in Users : pointer[u] # g
    BY <1>1 DEF Ready, Served, HandlerSound
  <2>4. job'[w].group = g => HandlerSound(w)'
    BY <1>1, <1>5, <2>1, <2>3 DEF HandlerSound, JoinSteps
  <2> QED
    BY <2>2, <2>4 DEF Served
<1> QED
  BY <1>2, <1>4, <1>5

\* The list that is written back is the one that was read, without the user, and the
\* user does not point to the group any more.
LEMMA LeaveServes ==
    ASSUME NEW w, NEW g, Ready(w, g), LeaveMembers(w) \/ LeaveWrite(w),
           job[w].group = g \/ job'[w].group = g
    PROVE  Served(w, g)'
<1> USE DEF store, history
<1>0. PICK u \in Users : job[w].user = u
  BY ReadyTypes DEF LeaveMembers, LeaveWrite, WriteMembers, At, RequestSteps, LeaveSteps
<1>1. /\ job[w].at \in {"leave members", "leave write"}
      /\ \A v \in Users : ~Admitting(w, v, g)
  BY DEF LeaveMembers, LeaveWrite, WriteMembers, At, Admitting, HalfJoined
<1>2. CASE LeaveMembers(w)
  <2> DEFINE members == groups[job[w].group].members
             y == [job[w] EXCEPT !.at = "leave write", !.list = members \ {u}]
             x == IF u \in members THEN y ELSE Idle
  <2>1. job' = [job EXCEPT ![w] = x] /\ UNCHANGED <<pointer, groups>>
    BY <1>0, <1>2, ReadyTypes DEF LeaveMembers, Finish
  <2>2. \/ x.at \in Careless
        \/ /\ x.at = "leave write" /\ x.user = u /\ x.group = job[w].group
           /\ x.list = members \ {u}
    <3>1. y.at = "leave write" /\ y.user = u /\ y.group = job[w].group /\ y.list = members \ {u}
      BY <1>0, ReadyTypes DEF Job
    <3>2. Idle.at \in Careless
      BY DEF Idle, Careless
    <3> HIDE DEF y
    <3> QED
      BY <3>1, <3>2
  <2> HIDE DEF x
  <2>3. CASE x.at \in Careless
    BY <1>1, <2>1, <2>3, MovesOn
  <2>4. CASE /\ x.at = "leave write" /\ x.user = u /\ x.group = job[w].group
             /\ x.list = members \ {u}
    <3>1. job'[w] = x
      BY <2>1, ReadyTypes
    <3>2. Leads(w, g)'
      BY <1>1, <2>1, Moves
    <3>3. job[w].group = g => pointer[u] # g
      BY <1>0, <1>1 DEF Ready, Served, HandlerSound
    <3>4. job'[w].group = g => HandlerSound(w)'
      BY <2>1, <2>4, <3>1, <3>3 DEF HandlerSound, JoinSteps
    <3> QED
      BY <3>2, <3>4 DEF Served
  <2> QED
    BY <2>2, <2>3, <2>4
<1>3. CASE LeaveWrite(w)
  <2> DEFINE r == [groups[g] EXCEPT !.members = job[w].list]
  <2>1. /\ job[w].at = "leave write" /\ pointer' = pointer
        /\ job' = [job EXCEPT ![w] = Idle] /\ Idle.at \in Careless /\ Idle.group = NoGroup
    BY <1>3 DEF LeaveWrite, WriteMembers, At, Finish, Idle, Careless
  <2>2. job'[w] = Idle /\ job[w].group = g
    BY <2>1, ReadyTypes
  <2>3. groups' = [groups EXCEPT ![g] = r]
    BY <1>3, <2>2, ReadyTypes DEF LeaveWrite, WriteMembers
  <2>4. pointer[u] # g /\ job[w].list = groups[g].members \ {u}
    BY <1>0, <2>1, <2>2 DEF Ready, Served, HandlerSound
  <2>5. r.creator = groups[g].creator /\ r.members = groups[g].members \ {u}
    BY <2>4, ReadyTypes DEF Record, Ready
  <2> HIDE DEF r
  <2>6. groups'[g] = r
    BY <2>3, ReadyTypes DEF Ready
  <2>7. Leads(w, g)'
    BY <1>1, <2>1, <2>4, <2>5, <2>6 DEF Ready, Served, Leads, Known
  <2>8. HandlerSound(w)'
    BY <2>1, <2>2, CarelessSound
  <2> QED
    BY <2>7, <2>8 DEF Served
<1> QED
  BY <1>2, <1>3

\* delete()
LEMMA DeleteServes ==
    ASSUME NEW w, NEW g, Ready(w, g), job[w].group = g \/ job'[w].group = g, DeleteStep(w)
    PROVE  Served(w, g)'
BY UnpointServes, PhotosServe, LoadServes, ClearServes, RecordServes, ImagesServe, LeaveServes
   DEF DeleteStep

\* housekeeper_cron() and batch_delete()
LEMMA RoundServes ==
    ASSUME NEW w, NEW g, Ready(w, g), job[w].group = g \/ job'[w].group = g, RoundStep(w)
    PROVE  Served(w, g)'
<1> USE DEF store, history
<1>1. ASSUME NEW x, x.at \in Careless, job' = [job EXCEPT ![w] = x], At(w, "hk next"),
             UNCHANGED <<pointer, groups>>
      PROVE  Served(w, g)'
  BY <1>1, MovesOn DEF At, Admitting, HalfJoined
<1>2. ASSUME NEW h \in GroupIds, RoundNext(w, h) PROVE Served(w, g)'
  <2> DEFINE x == [Idle EXCEPT !.at = IF Overdue(h) THEN "hk photos" ELSE "hk next",
                               !.group = IF Overdue(h) THEN h ELSE NoGroup,
                               !.queue = job[w].queue \ {h}]
  <2>1. x.at \in Careless
    BY DEF Idle, Careless
  <2>2. job' = [job EXCEPT ![w] = x] /\ At(w, "hk next") /\ UNCHANGED <<pointer, groups>>
    BY <1>2 DEF RoundNext
  <2> HIDE DEF x
  <2> QED
    BY <1>1, <2>1, <2>2
<1>3. CASE RoundEnd(w)
  <2>1. Idle.at \in Careless
    BY DEF Idle, Careless
  <2> QED
    BY <1>1, <1>3, <2>1 DEF RoundEnd, Finish
<1> QED
  BY <1>2, <1>3, PhotosServe, LoadServes, ClearServes, RecordServes, ImagesServe
     DEF RoundStep, BatchFinish

\* A failure lets go of the group: in a join that has pointed its user to it, it
\* disturbs the group.
LEMMA FailServes ==
    ASSUME NEW w, NEW g, Ready(w, g), Fail(w) \/ BatchFail(w), ~JoinFails(g)
    PROVE  Served(w, g)'
<1> USE DEF store
<1>1. PICK x \in {Idle, NextGroup(w)} :
        job' = [job EXCEPT ![w] = x] /\ UNCHANGED <<pointer, groups>>
  BY DEF Fail, BatchFail, Finish
<1>2. x.at \in Careless
  <2>1. Idle.at = "idle" /\ NextGroup(w).at = "hk next"
    BY DEF NextGroup, Idle
  <2> QED
    BY <1>1, <2>1 DEF Careless
<1>3. \A u \in Users : ~Admitting(w, u, g)
  <2>1. failures' # failures
    <3>1. failures \in Nat /\ failures' = failures + 1
      BY RegistryAssumption DEF Ready, RegistryInv, TypeOK, Fail, BatchFail
    <3> QED
      BY <3>1
  <2>2. CASE Fail(w)
    <3>1. job'[w] = Idle
      BY <2>2, ReadyTypes DEF Fail, Finish
    <3> QED
      BY <2>1, <3>1, ReadyTypes DEF JoinFails, Admitting
  <2>3. CASE BatchFail(w)
    BY <2>3 DEF BatchFail, BatchSteps, Admitting, HalfJoined
  <2> QED
    BY <2>2, <2>3
<1> QED
  BY <1>1, <1>2, <1>3, MovesOn

\* Nor is anything owed by a removal of files that finds one gone.
LEMMA RaiseServes ==
    ASSUME NEW w, NEW g, Ready(w, g), Raise(w)
    PROVE  Served(w, g)'
<1>1. job' = [job EXCEPT ![w] = Interrupted(w)] /\ UNCHANGED <<pointer, groups>>
  BY DEF Raise, OnlyImages
<1>2. Interrupted(w).at \in Careless
  BY DEF Interrupted, NextGroup, Idle, Careless
<1>3. \A u \in Users : ~Admitting(w, u, g)
  BY DEF Raise, Removing, Admitting, HalfJoined
<1> HIDE DEF Interrupted
<1> QED
  BY <1>1, <1>2, <1>3, MovesOn

-----------------------------------------------------------------------------
\* A step that a worker takes; all others are of the clock, an app or the file manager,
\* and leave the handlers, the pointers and the records alone.
WorkerStep(w) == Request(w) \/ RoundStart(w) \/ Step(w) \/ Fail(w) \/ BatchFail(w) \/ Raise(w)

LEMMA WhoSteps ==
    ASSUME BackendNext
    PROVE  (\E w \in Workers : WorkerStep(w)) \/ UNCHANGED <<pointer, groups, job>>
<1> USE DEF store, history
<1>1. CASE RegistryStep
  BY <1>1 DEF RegistryStep, Next, WorkerStep, Expire, PushPhoto, UploadFile
<1>2. CASE WebStep
  BY <1>2 DEF WebStep, WorkerStep, Login, Logout, DeleteFile, Find, List, Get, Put, Remove,
              WebFail, OnlyWeb, OnlyImages, vars
<1> QED
  BY <1>1, <1>2 DEF BackendNext

\* A step changes the handler of one worker.
LEMMA OthersKeep ==
    ASSUME RegistryInv, NEW w \in Workers, WorkerStep(w)
    PROVE  \E x : job' = [job EXCEPT ![w] = x]
<1> DEFINE One == \E x : job' = [job EXCEPT ![w] = x]
<1>0. job \in [Workers -> Job]
  BY DEF RegistryInv, TypeOK
<1>1. CASE Request(w) \/ RoundStart(w)
  BY <1>1 DEF Request, CreateStart, JoinStart, DeleteStart, RoundStart
<1>2. ASSUME Finish(w) \/ \E step : Goto(w, step) PROVE One
  BY <1>0, <1>2 DEF Finish, Goto
<1>3. CASE CreateStep(w)
  BY <1>0, <1>2, <1>3 DEF CreateStep, CreateCheck, CheckOldGroup, CreatePush, CreatePoint, CreateKeep
<1>4. CASE JoinStep(w)
  BY <1>0, <1>2, <1>4 DEF JoinStep, JoinRead, JoinCheck, CheckOldGroup, JoinPatch, JoinPoint,
     JoinRotate, JoinMembers, JoinWrite, WriteMembers
<1>5. CASE DeleteStep(w)
  BY <1>0, <1>2, <1>5 DEF DeleteStep, OwnerUnpoint, LeaveUnpoint, Unpoint, OwnerPhotos, RemovePhotos,
     OwnerMembers, LoadMembers, OwnerClear, ClearMember, OwnerRemove, RemoveRecord,
     OwnerImages, RemoveImages, LeaveMembers, LeaveWrite, WriteMembers
<1>6. CASE RoundStep(w)
  BY <1>0, <1>2, <1>6 DEF RoundStep, RoundNext, RoundEnd, BatchPhotos, RemovePhotos, BatchMembers,
     LoadMembers, BatchClear, ClearMember, BatchFinish, RemoveRecord, RemoveImages
<1>7. CASE Fail(w) \/ BatchFail(w) \/ Raise(w)
  BY <1>2, <1>7 DEF Fail, BatchFail, Raise
<1> QED
  BY <1>1, <1>3, <1>4, <1>5, <1>6, <1>7 DEF WorkerStep, Step

\* A handler writes the record of no group but its own, and points users to no other.
LEMMA OwnGroupOnly ==
    ASSUME RegistryInv, NEW w \in Workers, WorkerStep(w), NEW g \in GroupIds,
           job[w].group # g, job'[w].group # g
    PROVE  groups'[g] = groups[g] /\ \A u \in Users : pointer'[u] = g => pointer[u] = g
<1> USE DEF store, history
<1> DEFINE Keeps == groups'[g] = groups[g] /\ \A u \in Users : pointer'[u] = g => pointer[u] = g
<1>0. /\ job \in [Workers -> Job] /\ groups \in [GroupIds -> Record]
      /\ pointer \in [Users -> pushed \union {NoGroup}] /\ g # NoGroup
  BY StoreTypes, RegistryAssumption DEF RegistryInv, TypeOK
<1>1. ASSUME UNCHANGED <<pointer, groups>> PROVE Keeps
  BY <1>1
<1>2. ASSUME NEW u, NEW h, h # g, Point(u, h), groups' = groups PROVE Keeps
  BY <1>0, <1>2 DEF Point
<1>3. ASSUME NEW h, h # g, NEW r, groups' = [groups EXCEPT ![h] = r], pointer' = pointer
      PROVE  Keeps
  BY <1>0, <1>3
<1>4. CASE Request(w) \/ RoundStart(w)
  BY <1>1, <1>4 DEF Request, CreateStart, JoinStart, DeleteStart, RoundStart
<1>5. ASSUME NEW h \in GroupIds, CreatePush(w, h) PROVE Keeps
  <2>1. job'[w].group = h
    <3>1. [job[w] EXCEPT !.at = "create point", !.group = h].group = h
      BY <1>0 DEF Job
    <3> QED
      BY <1>0, <1>5, <3>1 DEF CreatePush
  <2> QED
    BY <1>3, <1>5, <2>1 DEF CreatePush
<1>6. CASE CreateStep(w)
  BY <1>1, <1>2, <1>5, <1>6 DEF CreateStep, CreateCheck, CheckOldGroup, CreatePoint, CreateKeep
<1>7. CASE JoinRotate(w)
  <2>1. groups' = [groups EXCEPT ![job[w].group] = [groups[job[w].group] EXCEPT !.token = lastToken + 1]]
        /\ pointer' = pointer
    BY <1>0, <1>7 DEF JoinRotate
  <2> QED
    BY <1>3, <2>1
<1>8. ASSUME NEW step, WriteMembers(w, step) PROVE Keeps
  <2>1. groups' = [groups EXCEPT ![job[w].group] = [groups[job[w].group] EXCEPT !.members = job[w].list]]
        /\ pointer' = pointer
    BY <1>0, <1>8 DEF WriteMembers
  <2> QED
    BY <1>3, <2>1
<1>9. CASE JoinStep(w)
  BY <1>1, <1>2, <1>7, <1>8, <1>9 DEF JoinStep, JoinRead, JoinCheck, CheckOldGroup, JoinPatch,
     JoinPoint, JoinMembers, JoinWrite
<1>10. ASSUME NEW step, NEW x, RemoveRecord(w, step, x) PROVE Keeps
  BY <1>3, <1>10 DEF RemoveRecord
<1>11. CASE DeleteStep(w)
  BY <1>0, <1>1, <1>2, <1>8, <1>10, <1>11 DEF DeleteStep, OwnerUnpoint, LeaveUnpoint, Unpoint,
     OwnerPhotos, RemovePhotos, OwnerMembers, LoadMembers, OwnerClear, ClearMember, OwnerRemove,
     OwnerImages, RemoveImages, LeaveMembers, LeaveWrite
<1>12. CASE RoundStep(w)
  BY <1>0, <1>1, <1>2, <1>10, <1>12 DEF RoundStep, RoundNext, RoundEnd, BatchPhotos, RemovePhotos,
     BatchMembers, LoadMembers, BatchClear, ClearMember, BatchFinish, RemoveImages
<1>13. CASE Fail(w) \/ BatchFail(w) \/ Raise(w)
  BY <1>1, <1>13 DEF Fail, BatchFail, Raise, OnlyImages
<1> QED
  BY <1>4, <1>6, <1>9, <1>11, <1>12, <1>13 DEF WorkerStep, Step

\* A step that neither serves g nor points anybody to it.
LEMMA ElsewhereSound ==
    ASSUME RegistryInv, NEW g \in GroupIds, GroupSound(g), groups'[g] = groups[g],
           \A u \in Users : pointer'[u] = g => pointer[u] = g,
           \A w \in Workers : job[w].group = g \/ job'[w].group = g => job'[w] = job[w]
    PROVE  GroupSound(g)'
<1>1. Alone(g)'
  BY DEF GroupSound, Alone
<1>2. PointersSound(g)'
  BY DEF GroupSound, PointersSound, Admitting, Known
<1>3. ASSUME NEW w \in Workers, job'[w].group = g PROVE HandlerSound(w)'
  <2>1. job'[w] = job[w] /\ HandlerSound(w) /\ JobOK(job[w]) /\ job[w].group = g
    BY <1>3 DEF GroupSound, RegistryInv
  <2>2. job[w].at \in LeaveSteps => job[w].user \in Users
    BY <2>1 DEF JobOK, RequestSteps
  <2>3. pointer[job[w].user] # g /\ job[w].at \in LeaveSteps => pointer'[job[w].user] # g
    BY <2>2
  <2> QED
    BY <2>1, <2>3 DEF HandlerSound, Known, LeaveSteps
<1> QED
  BY <1>1, <1>2, <1>3 DEF GroupSound

\* A step of the worker that serves g.
LEMMA OwnSound ==
    ASSUME NEW w, NEW g, Ready(w, g), NEW x, job' = [job EXCEPT ![w] = x], Served(w, g)'
    PROVE  GroupSound(g)'
<1>1. \A v \in Workers : job'[v].group = g => v = w
  BY ReadyTypes DEF Ready
<1>2. Alone(g)'
  BY <1>1 DEF Alone
<1>3. PointersSound(g)'
  BY DEF Served, Leads, PointersSound, Ready
<1> QED
  BY <1>1, <1>2, <1>3 DEF GroupSound, Served

\* A group that is not disturbed by the step stays sound.
LEMMA GroupStep ==
    ASSUME RegistryInv, NEW g \in GroupIds, GroupSound(g), BackendNext, g \notin disturbed'
    PROVE  GroupSound(g)'
<1>1. ~Overlapped(g) /\ ~JoinFails(g) /\ ~JoinsGone(g)
  BY DEF BackendNext
<1>2. ASSUME NEW w \in Workers, WorkerStep(w) PROVE GroupSound(g)'
  <2>1. PICK x : job' = [job EXCEPT ![w] = x]
    BY <1>2, OthersKeep
  <2>2. \A v \in Workers \ {w} : job'[v] = job[v]
    BY <2>1 DEF RegistryInv, TypeOK
  <2>3. CASE job[w].group = g \/ job'[w].group = g
    <3>1. \A v \in Workers \ {w} : job[v].group # g
      BY <1>1, <2>2, <2>3 DEF GroupSound, Alone, Overlapped
    <3>2. Leads(w, g)
      BY <3>1 DEF GroupSound, PointersSound, Leads, Admitting
    <3>3. Ready(w, g)
      BY <3>1, <3>2 DEF Ready, Served, GroupSound
    <3>4. Served(w, g)'
      BY <1>1, <1>2, <2>3, <3>3, StartServes, CreateServes, JoinServes, DeleteServes,
         RoundServes, FailServes, RaiseServes DEF WorkerStep, Step
    <3> QED
      BY <2>1, <3>3, <3>4, OwnSound
  <2>4. CASE job[w].group # g /\ job'[w].group # g
    BY <1>2, <2>2, <2>4, OwnGroupOnly, ElsewhereSound
  <2> QED
    BY <2>3, <2>4
<1>3. CASE UNCHANGED <<pointer, groups, job>>
  BY <1>3, ElsewhereSound
<1> QED
  BY <1>2, <1>3, WhoSteps

-----------------------------------------------------------------------------
\* A record goes at the end of a delete's clearing, or as the last thing of a round.
LEMMA RecordGoes ==
    ASSUME RegistryInv, BackendNext, NEW g \in GroupIds, Known(g), ~Known(g)'
    PROVE  \E w \in Workers : /\ job[w].group = g
                              /\ OwnerRemove(w) \/ RemoveRecord(w, "hk remove", NextGroup(w))
<1> USE DEF store, history
<1>0. job \in [Workers -> Job] /\ groups \in [GroupIds -> Record]
  BY DEF RegistryInv, TypeOK
<1>1. PICK w \in Workers : WorkerStep(w)
  BY WhoSteps DEF Known
<1>2. groups'[g].creator # groups[g].creator /\ groups' # groups
  BY DEF Known
<1>3. ASSUME NEW h \in GroupIds, CreatePush(w, h) PROVE FALSE
  <2>1. g \in pushed
    <3>1. Exists(g)
      BY DEF Exists, Known, Absent
    <3> QED
      BY <3>1 DEF RegistryInv, OnlyPushed
  <2> QED
    BY <1>0, <1>2, <1>3, <2>1 DEF CreatePush
<1>4. ~JoinRotate(w)
  <2>1. ASSUME JoinRotate(w) PROVE groups'[g].creator = groups[g].creator
    BY <1>0, <2>1 DEF JoinRotate, Record
  <2> QED
    BY <1>2, <2>1
<1>5. ASSUME NEW step, WriteMembers(w, step) PROVE FALSE
  <2>1. groups'[g].creator = groups[g].creator
    BY <1>0, <1>5 DEF WriteMembers, Record
  <2> QED
    BY <1>2, <2>1
<1>6. ASSUME NEW step, NEW x, RemoveRecord(w, step, x) PROVE job[w].group = g
  BY <1>0, <1>2, <1>6 DEF RemoveRecord
<1>7. ~(Request(w) \/ RoundStart(w) \/ Fail(w) \/ BatchFail(w) \/ Raise(w))
  BY <1>2 DEF Request, CreateStart, JoinStart, DeleteStart, RoundStart, Fail, BatchFail, Raise,
              OnlyImages
<1>8. ~CreateStep(w)
  BY <1>2, <1>3 DEF CreateStep, CreateCheck, CheckOldGroup, CreatePoint, CreateKeep
<1>9. ~JoinStep(w)
  BY <1>2, <1>4, <1>5 DEF JoinStep, JoinRead, JoinCheck, CheckOldGroup, JoinPatch, JoinPoint,
     JoinMembers, JoinWrite
<1>10. DeleteStep(w) => OwnerRemove(w)
  BY <1>2, <1>5 DEF DeleteStep, OwnerUnpoint, LeaveUnpoint, Unpoint, OwnerPhotos, RemovePhotos,
     OwnerMembers, LoadMembers, OwnerClear, ClearMember, OwnerImages, RemoveImages,
     LeaveMembers, LeaveWrite
<1>11. RoundStep(w) => RemoveRecord(w, "hk remove", NextGroup(w))
  BY <1>2 DEF RoundStep, RoundNext, RoundEnd, BatchPhotos, RemovePhotos, BatchMembers, LoadMembers,
     BatchClear, ClearMember, BatchFinish, RemoveImages
<1> QED
  BY <1>1, <1>6, <1>7, <1>8, <1>9, <1>10, <1>11 DEF WorkerStep, Step, OwnerRemove

\* A delete that has the files before it goes on to remove them or ends.
LEMMA EmptyingEnds ==
    ASSUME RegistryInv, BackendNext, NEW w \in Workers, NEW g \in GroupIds, Emptying(w, g)
    PROVE  Emptying(w, g)' \/ job'[w] = Idle
<1> USE DEF store, history
<1>0. job \in [Workers -> Job] /\ job[w].at = "owner images"
  BY DEF RegistryInv, TypeOK, Emptying, At
<1>1. ASSUME job'[w] = job[w] PROVE Emptying(w, g)'
  BY <1>1 DEF Emptying, At
<1>2. ASSUME NEW v \in Workers \ {w}, WorkerStep(v) PROVE job'[w] = job[w]
  BY <1>0, <1>2, OthersKeep
<1>3. ASSUME WorkerStep(w) PROVE job'[w] = Idle
  <2>1. ~(Request(w) \/ RoundStart(w) \/ BatchFail(w))
    BY <1>0 DEF Request, CreateStart, JoinStart, DeleteStart, RoundStart, BatchFail, BatchSteps, At
  <2>2. ~(CreateStep(w) \/ JoinStep(w))
    BY <1>0 DEF CreateStep, CreateCheck, CheckOldGroup, CreatePush, CreatePoint, CreateKeep,
       JoinStep, JoinRead, JoinCheck, JoinPatch, JoinPoint, JoinRotate, JoinMembers, JoinWrite,
       WriteMembers, At
  <2>3. DeleteStep(w) => OwnerImages(w)
    BY <1>0 DEF DeleteStep, OwnerUnpoint, LeaveUnpoint, Unpoint, OwnerPhotos, RemovePhotos,
       OwnerMembers, LoadMembers, OwnerClear, ClearMember, OwnerRemove, RemoveRecord,
       LeaveMembers, LeaveWrite, WriteMembers, At
  <2>4. ~RoundStep(w)
    BY <1>0 DEF RoundStep, RoundNext, RoundEnd, BatchPhotos, RemovePhotos, BatchMembers, LoadMembers,
       BatchClear, ClearMember, BatchFinish, RemoveRecord, RemoveImages, At
  <2>5. OwnerImages(w) \/ Fail(w) \/ Raise(w) => job'[w] = Idle
    BY <1>0 DEF OwnerImages, RemoveImages, Fail, Finish, Raise, Interrupted, At
  <2> QED
    BY <1>3, <2>1, <2>2, <2>3, <2>4, <2>5 DEF WorkerStep, Step
<1> QED
  BY <1>1, <1>2, <1>3, WhoSteps

\* A round comes to its last step only from the removal of the files.
LEMMA ComesEmptied ==
    ASSUME RegistryInv, BackendNext, NEW w \in Workers, job'[w].at = "hk remove"
    PROVE  \/ job'[w] = job[w]
           \/ RemoveImages(w, "hk images", [job[w] EXCEPT !.at = "hk remove"])
              /\ job'[w].group = job[w].group
<1> USE DEF store, history
<1>0. job \in [Workers -> Job]
  BY DEF RegistryInv, TypeOK
<1>1. ASSUME NEW v \in Workers \ {w}, WorkerStep(v) PROVE job'[w] = job[w]
  BY <1>0, <1>1, OthersKeep
<1>2. ~Finish(w) /\ \A step : Goto(w, step) => step = "hk remove"
  <2>1. ASSUME NEW step PROVE [job[w] EXCEPT !.at = step].at = step
    BY <1>0 DEF Job
  <2>2. ASSUME NEW step, Goto(w, step) PROVE step = "hk remove"
    BY <1>0, <2>1, <2>2 DEF Goto
  <2>3. ASSUME Finish(w) PROVE FALSE
    BY <1>0, <2>3 DEF Finish, Idle
  <2> QED
    BY <2>2, <2>3
<1>3. ASSUME NEW step, NEW old, job' = [job EXCEPT ![w].at = step, ![w].old = old]
      PROVE  step = "hk remove"
  <2>1. [job[w] EXCEPT !.at = step, !.old = old].at = step
    BY <1>0 DEF Job
  <2> QED
    BY <1>0, <1>3, <2>1
<1>4. ASSUME NEW step, NEW list, job' = [job EXCEPT ![w].at = step, ![w].list = list]
      PROVE  step = "hk remove"
  <2>1. [job[w] EXCEPT !.at = step, !.list = list].at = step
    BY <1>0 DEF Job
  <2> QED
    BY <1>0, <1>4, <2>1
<1>5. ASSUME NEW x, job' = [job EXCEPT ![w] = x] PROVE x.at = "hk remove"
  BY <1>0, <1>5
<1>6. Idle.at = "idle" /\ NextGroup(w).at = "hk next"
  BY DEF Idle, NextGroup
<1>7. ~(Request(w) \/ RoundStart(w))
  BY <1>0 DEF Request, CreateStart, JoinStart, DeleteStart, RoundStart, Idle
<1>8. ~(Fail(w) \/ BatchFail(w) \/ Raise(w))
  BY <1>2, <1>5, <1>6 DEF Fail, BatchFail, Raise, Interrupted
<1>9. ~CreateStep(w)
  <2>1. ASSUME NEW h \in GroupIds, CreatePush(w, h) PROVE FALSE
    <3>1. [job[w] EXCEPT !.at = "create point", !.group = h].at = "create point"
      BY <1>0 DEF Job
    <3> QED
      BY <1>0, <2>1, <3>1 DEF CreatePush
  <2> QED
    BY <1>2, <1>3, <2>1 DEF CreateStep, CreateCheck, CheckOldGroup, CreatePoint, CreateKeep
<1>10. ~JoinStep(w)
  BY <1>2, <1>3, <1>4 DEF JoinStep, JoinRead, JoinCheck, CheckOldGroup, JoinPatch, JoinPoint,
     JoinRotate, JoinMembers, JoinWrite, WriteMembers
<1>11. ASSUME NEW from, NEW to, NEW raise, raise.at # "hk remove", to # "hk remove"
       PROVE  ~LoadMembers(w, from, to, raise)
  <2>1. [job[w] EXCEPT !.at = to, !.list = groups[job[w].group].members].at = to
    BY <1>0 DEF Job
  <2> QED
    BY <1>0, <1>11, <2>1 DEF LoadMembers
<1>12. ASSUME NEW m, NEW from, NEW to, from # "hk remove", to # "hk remove"
       PROVE  ~ClearMember(w, m, from, to)
  <2>1. [job[w] EXCEPT !.list = job[w].list \ {m},
                       !.at = IF job[w].list = {m} THEN to ELSE from].at # "hk remove"
    BY <1>0, <1>12 DEF Job
  <2> QED
    BY <1>0, <2>1 DEF ClearMember
<1>13. ~DeleteStep(w)
  <2>1. [job[w] EXCEPT !.at = "owner images"].at = "owner images"
    BY <1>0 DEF Job
  <2> QED
    <3>1. ~(LeaveUnpoint(w) \/ OwnerUnpoint(w) \/ OwnerPhotos(w))
      BY <1>2 DEF OwnerUnpoint, LeaveUnpoint, Unpoint, OwnerPhotos, RemovePhotos
    <3>2. ~(OwnerMembers(w) \/ \E m \in Users : OwnerClear(w, m))
      BY <1>6, <1>11, <1>12 DEF OwnerMembers, OwnerClear
    <3>3. ~(OwnerRemove(w) \/ OwnerImages(w))
      BY <1>5, <1>6, <2>1 DEF OwnerRemove, RemoveRecord, OwnerImages, RemoveImages
    <3>4. ~(LeaveMembers(w) \/ LeaveWrite(w))
      BY <1>2, <1>4 DEF LeaveMembers, LeaveWrite, WriteMembers
    <3> QED
      BY <3>1, <3>2, <3>3, <3>4 DEF DeleteStep
<1>14. RoundStep(w) => RemoveImages(w, "hk images", [job[w] EXCEPT !.at = "hk remove"])
  <2>1. \A h \in GroupIds : ~RoundNext(w, h)
    BY <1>0 DEF RoundNext, Idle
  <2> QED
    BY <1>2, <1>5, <1>6, <1>11, <1>12, <2>1 DEF RoundStep, RoundEnd, BatchPhotos, RemovePhotos,
       BatchMembers, BatchClear, BatchFinish, RemoveRecord
<1>15. RemoveImages(w, "hk images", [job[w] EXCEPT !.at = "hk remove"])
         => job'[w].group = job[w].group
  <2>1. [job[w] EXCEPT !.at = "hk remove"].group = job[w].group
    BY <1>0 DEF Job
  <2> QED
    BY <1>0, <2>1 DEF RemoveImages
<1>16. WorkerStep(w) => RemoveImages(w, "hk images", [job[w] EXCEPT !.at = "hk remove"])
  BY <1>7, <1>8, <1>9, <1>10, <1>13, <1>14 DEF WorkerStep, Step
<1> QED
  BY <1>1, <1>15, <1>16, WhoSteps

\* Files are orphaned by a delete that is cut off and by a file that comes late.
LEMMA FilesStep ==
    ASSUME RegistryInv, WebOK, NoOrphanFiles, \A w \in Workers : Emptied(w), BackendNext
    PROVE  NoOrphanFiles' /\ \A w \in Workers : Emptied(w)'
<1>0. /\ images \subseteq GroupIds /\ images' \subseteq GroupIds
      /\ job \in [Workers -> Job] /\ strewn \subseteq strewn'
      /\ \A g \in GroupIds : DeleteCutOff(g) \/ FileLate(g) => g \in strewn'
  <2>1. RegistryInv'
    <3>1. CASE RegistryStep
      BY <3>1, NextInv DEF RegistryStep
    <3>2. CASE WebStep
      BY <3>2, WebPreservesRegistry
    <3> QED
      BY <3>1, <3>2 DEF BackendNext
  <2> QED
    BY <2>1 DEF RegistryInv, TypeOK, BackendNext
<1>1. ASSUME NEW g \in images', ~Known(g)', g \notin strewn'
      PROVE  \E w \in Workers : Emptying(w, g)'
  <2>1. g \in GroupIds /\ ~DeleteCutOff(g) /\ ~FileLate(g) /\ g \notin strewn
    BY <1>0, <1>1
  <2>2. g \in images
    BY <1>1, <2>1 DEF FileLate
  <2>3. CASE Known(g)
    <3>1. PICK w \in Workers :
            /\ job[w].group = g
            /\ OwnerRemove(w) \/ RemoveRecord(w, "hk remove", NextGroup(w))
      BY <1>1, <2>1, <2>3, RecordGoes
    <3>2. ~RemoveRecord(w, "hk remove", NextGroup(w))
      BY <2>1, <2>2, <3>1 DEF Emptied, RemoveRecord
    <3>3. [job[w] EXCEPT !.at = "owner images"].at = "owner images"
          /\ [job[w] EXCEPT !.at = "owner images"].group = job[w].group
      BY <1>0 DEF Job
    <3>4. job'[w] = [job[w] EXCEPT !.at = "owner images"]
      BY <1>0, <3>1, <3>2 DEF OwnerRemove, RemoveRecord
    <3> QED
      BY <3>1, <3>3, <3>4 DEF Emptying, At
  <2>4. CASE ~Known(g)
    <3>1. PICK w \in Workers : Emptying(w, g)
      BY <2>1, <2>2, <2>4 DEF NoOrphanFiles
    <3>2. job'[w] # Idle
      BY <1>1, <2>1, <3>1 DEF DeleteCutOff
    <3> QED
      BY <2>1, <3>1, <3>2, EmptyingEnds
  <2> QED
    BY <2>3, <2>4
<1>2. ASSUME NEW w \in Workers, NEW g, job'[w].at = "hk remove", job'[w].group = g, g \in images'
      PROVE  g \in strewn'
  <2>1. CASE job'[w] = job[w]
    <3>1. job[w].at = "hk remove" /\ job[w].group = g
      BY <1>2, <2>1
    <3>2. CASE g \notin images
      <4>1. FileLate(g)
        BY <1>2, <3>1, <3>2 DEF FileLate, At
      <4> QED
        BY <1>0, <1>2, <4>1
    <3>3. CASE g \in images
      <4>1. g \in strewn
        BY <3>1, <3>3 DEF Emptied, At
      <4> QED
        BY <1>0, <4>1
    <3> QED
      BY <3>2, <3>3
  <2>2. CASE /\ RemoveImages(w, "hk images", [job[w] EXCEPT !.at = "hk remove"])
             /\ g = job[w].group
    BY <1>2, <2>2 DEF RemoveImages
  <2> QED
    BY <1>2, <2>1, <2>2, ComesEmptied
<1>3. \A w \in Workers : Emptied(w)'
  BY <1>2 DEF Emptied, At
<1> QED
  BY <1>1, <1>3 DEF NoOrphanFiles

-----------------------------------------------------------------------------
LEMMA StoreStart == BackendInit => StoreInv
<1> SUFFICES ASSUME BackendInit PROVE StoreInv
  OBVIOUS
<1>1. /\ \A w \in Workers : job[w] = Idle
      /\ \A u \in Users : pointer[u] = NoGroup
      /\ images = {} /\ NoGroup \notin GroupIds
      /\ Idle.at = "idle" /\ Idle.group = NoGroup
  BY RegistryAssumption DEF BackendInit, Init, Idle
<1>2. \A g \in GroupIds : GroupSound(g)
  BY <1>1 DEF GroupSound, Alone, PointersSound
<1>3. NoOrphanFiles /\ \A w \in Workers : Emptied(w)
  BY <1>1 DEF NoOrphanFiles, Emptied, At
<1> QED
  BY <1>2, <1>3 DEF StoreInv

LEMMA StoreStep == RegistryInv /\ WebOK /\ StoreInv /\ [BackendNext]_bvars => StoreInv'
<1> SUFFICES ASSUME RegistryInv, WebOK, StoreInv, [BackendNext]_bvars PROVE StoreInv'
  OBVIOUS
<1>1. CASE BackendNext
  <2>1. \A g \in GroupIds \ disturbed' : GroupSound(g)'
    BY <1>1, GroupStep DEF StoreInv, BackendNext
  <2> QED
    BY <1>1, <2>1, FilesStep DEF StoreInv
<1>2. CASE UNCHANGED bvars
  <2>1. UNCHANGED <<pointer, groups, images, job, disturbed, strewn>>
    BY <1>2 DEF bvars, vars, store, hindsight
  <2>2. ASSUME NEW g \in GroupIds, GroupSound(g) PROVE GroupSound(g)'
    BY <2>1, <2>2, ElsewhereSound
  <2>3. NoOrphanFiles' /\ \A w \in Workers : Emptied(w)'
    BY <2>1 DEF StoreInv, NoOrphanFiles, Known, Emptying, Emptied, At
  <2> QED
    BY <2>1, <2>2, <2>3 DEF StoreInv
<1> QED
  BY <1>1, <1>2 DEF BackendNext

\* Whatever interleaves and fails: of a group that was not disturbed, what a handler
\* has read and done is still so, and every file is of a recorded group, about to be
\* removed, or left by a cut-off delete or a late file.
THEOREM StoreInvariant == BackendSpec => []StoreInv
BY StoreStart, StoreStep, BackendInvariant, PTL DEF BackendSpec

\* However many workers serve other groups, fail in them and clear their members'
\* pointers, nobody who points to an undisturbed group is missing in its list.
THEOREM PointersStay == BackendSpec => []NoDanglingPointer
<1>1. StoreInv => NoDanglingPointer
  <2> SUFFICES ASSUME StoreInv, NEW g \in GroupIds \ disturbed, Unserved(g),
                      NEW u \in Users, pointer[u] = g
               PROVE  Known(g) /\ u \in groups[g].members
    BY DEF NoDanglingPointer
  <2>1. PointersSound(g)
    BY DEF StoreInv, GroupSound
  <2> QED
    BY <2>1 DEF PointersSound, Admitting, Unserved
<1> QED
  BY <1>1, StoreInvariant, PTL

\* No interleaving of deletes, rounds, joins and the file manager, and no failure but
\* that of a delete between record and files, leaves files without a record, unless
\* they come late.
THEOREM FilesAreOwned == BackendSpec => []NoOrphanFiles
<1>1. StoreInv => NoOrphanFiles
  BY DEF StoreInv
<1> QED
  BY <1>1, StoreInvariant, PTL

==============================================================================
