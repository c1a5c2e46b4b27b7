---------------------------- MODULE BackendProofs ----------------------------
(***************************************************************************)
(* What GroupRegistryProofs proves of the registry alone still holds when  *)
(* its workers serve the file manager too: the file manager changes the    *)
(* bucket and may cut removals short, and nothing else.                    *)
(***************************************************************************)
EXTENDS Backend, GroupRegistryProofs

\* Serving nothing is a state of a worker.
LEMMA WebRecord == NoRequest \in WebRequest
BY DEF NoRequest, WebRequest

\* A worker at a step of the file manager serves a request.
LEMMA StepIsRequest ==
    ASSUME NEW w \in Workers, NEW step \in WebSteps, WebAt(w, step)
    PROVE  web[w] # NoRequest
<1>1. NoRequest.at = "none" /\ step # "none"
  BY DEF NoRequest, WebSteps
<1> QED
  BY <1>1 DEF WebAt

\* The ids of the groups that were created are never forgotten.
LEMMA PushedGrows == Next => pushed \subseteq pushed'
<1> USE DEF store, history
<1>1. ASSUME NEW w \in Workers, Request(w) \/ RoundStart(w) \/ Fail(w) \/ BatchFail(w)
      PROVE  pushed \subseteq pushed'
  BY <1>1 DEF Request, CreateStart, JoinStart, DeleteStart, RoundStart, Fail, BatchFail
<1>2. ASSUME NEW w \in Workers, CreateStep(w) PROVE pushed \subseteq pushed'
  BY <1>2 DEF CreateStep, CreateCheck, CheckOldGroup, CreatePush, CreatePoint, CreateKeep
<1>3. ASSUME NEW w \in Workers, JoinStep(w) PROVE pushed \subseteq pushed'
  BY <1>3 DEF JoinStep, JoinRead, JoinCheck, CheckOldGroup, JoinPatch, JoinPoint, JoinRotate,
              JoinMembers, JoinWrite, WriteMembers
<1>4. ASSUME NEW w \in Workers, DeleteStep(w) PROVE pushed \subseteq pushed'
  BY <1>4 DEF DeleteStep, OwnerUnpoint, LeaveUnpoint, Unpoint, OwnerPhotos, RemovePhotos,
              OwnerMembers, LoadMembers, OwnerClear, ClearMember, OwnerRemove, RemoveRecord,
              OwnerImages, RemoveImages, LeaveMembers, LeaveWrite, WriteMembers
<1>5. ASSUME NEW w \in Workers, RoundStep(w) PROVE pushed \subseteq pushed'
  BY <1>5 DEF RoundStep, RoundNext, RoundEnd, BatchPhotos, RemovePhotos, BatchMembers,
              LoadMembers, BatchClear, ClearMember, BatchFinish, RemoveRecord, RemoveImages
<1>6. ASSUME \/ \E g \in GroupIds : Expire(g) \/ UploadFile(g)
             \/ \E u \in Users : PushPhoto(u)
      PROVE  pushed \subseteq pushed'
  BY <1>6 DEF Expire, PushPhoto, UploadFile
<1> QED
  BY <1>1, <1>2, <1>3, <1>4, <1>5, <1>6 DEF Next, Step

\* The bucket may change in any way, failures may be counted and removals cut
\* short: nothing RegistryInv says is about them.
LEMMA BucketStep ==
    ASSUME RegistryInv, UNCHANGED <<pointer, groups, photos, expired, pushed, lastToken>>,
           images' \subseteq GroupIds, failures' \in 0 .. MaxFailures,
           job' \in [Workers -> Job], \A w \in Workers : JobOK(job'[w])
    PROVE  RegistryInv'
<1>1. TypeOK'
  BY DEF RegistryInv, TypeOK
<1>2. OnlyPushed' /\ CreatorIsMember'
  BY DEF RegistryInv, OnlyPushed, Exists, CreatorIsMember, Known
<1>3. \A w \in Workers : JobOK(job[w])'
  BY DEF JobOK, Known
<1> QED
  BY <1>1, <1>2, <1>3 DEF RegistryInv

\* Every step of the file manager leaves the registry's invariant true.
LEMMA WebPreservesRegistry ==
    ASSUME RegistryInv, WebOK, WebStep
    PROVE  RegistryInv'
<1> USE DEF store, history
<1>0. job \in [Workers -> Job] /\ (\A w \in Workers : JobOK(job[w]))
      /\ images \subseteq GroupIds /\ pushed \subseteq GroupIds /\ failures \in 0 .. MaxFailures
  BY DEF RegistryInv, TypeOK
<1>1. ASSUME OnlyWeb PROVE RegistryInv'
  BY <1>0, <1>1, BucketStep DEF OnlyWeb, vars
<1>2. ASSUME NEW w \in Workers, Remove(w) PROVE RegistryInv'
  BY <1>0, <1>2, BucketStep DEF Remove, OnlyImages
<1>3. ASSUME NEW w \in Workers, Put(w) PROVE RegistryInv'
  <2>1. web[w].group \in GroupIds
    BY <1>0, <1>3, StepIsRequest DEF Put, WebOK, WebSteps
  <2> QED
    BY <1>0, <1>3, <2>1, BucketStep DEF Put, OnlyImages
<1>4. ASSUME NEW w \in Workers, WebFail(w) PROVE RegistryInv'
  <2>1. failures' \in 0 .. MaxFailures
    BY <1>0, <1>4, RegistryAssumption DEF WebFail
  <2> QED
    BY <1>0, <1>4, <2>1, BucketStep DEF WebFail
<1>5. ASSUME NEW w \in Workers, Raise(w) PROVE RegistryInv'
  <2>1. Interrupted(w) \in Job /\ JobOK(Interrupted(w))
    BY IdleOK, NextGroupOK DEF Interrupted
  <2> HIDE DEF Interrupted
  <2>2. job' \in [Workers -> Job] /\ \A v \in Workers : JobOK(job'[v])
    BY <1>0, <1>5, <2>1 DEF Raise
  <2> QED
    BY <1>0, <1>5, <2>2, BucketStep DEF Raise, OnlyImages
<1> QED
  BY <1>1, <1>2, <1>3, <1>4, <1>5 DEF WebStep, Login, DeleteFile, Find, List, Get, Logout

\* The file manager's own part: a session and a request keep naming a group
\* that was created, since ids are never forgotten.
LEMMA WebPreservesWeb ==
    ASSUME RegistryInv, WebOK, WebStep, disturbed' \subseteq GroupIds, strewn' \subseteq GroupIds
    PROVE  WebOK'
<1> USE DEF store, history, OnlyWeb, OnlyImages, vars
<1> DEFINE Good(r) == /\ r \in WebRequest
                      /\ r # NoRequest => r.at \in WebSteps /\ r.user \in Browsers
                                          /\ r.group \in pushed
           Cookie(c) == c \in pushed \union {NoGroup, NoSession}
<1>0. /\ \A w \in Workers : Good(web[w])
      /\ \A u \in Browsers : Cookie(session[u])
      /\ pushed \subseteq GroupIds
      /\ Good(NoRequest)
  BY WebRecord DEF WebOK, RegistryInv, TypeOK
<1>1. SUFFICES /\ pushed' = pushed
               /\ session' \in [Browsers -> pushed \union {NoGroup, NoSession}]
               /\ web' \in [Workers -> WebRequest]
               /\ \A w \in Workers : Good(web'[w])
  BY <1>0, BackendAssumption, RegistryAssumption DEF WebOK
<1>2. pushed' = pushed
  BY DEF WebStep, Login, DeleteFile, Find, Remove, Raise, List, Get, Put, WebFail, Logout
<1> DEFINE Result == /\ session' \in [Browsers -> pushed \union {NoGroup, NoSession}]
                     /\ web' \in [Workers -> WebRequest]
                     /\ \A w \in Workers : Good(web'[w])
<1>3. session \in [Browsers -> pushed \union {NoGroup, NoSession}] /\ web \in [Workers -> WebRequest]
  BY <1>0 DEF WebOK
<1>4. ASSUME NEW w \in Workers, NEW x, Good(x), web' = [web EXCEPT ![w] = x], session' = session
      PROVE  Result
  BY <1>0, <1>3, <1>4
<1>5. ASSUME NEW w \in Workers, NEW step \in WebSteps, WebGoto(w, step), session' = session,
             web[w] # NoRequest
      PROVE  Result
  <2>1. web' = [web EXCEPT ![w] = [web[w] EXCEPT !.at = step]]
    BY <1>5, <1>3 DEF WebGoto
  <2>2. Good([web[w] EXCEPT !.at = step])
    BY <1>0, <1>5 DEF WebRequest
  <2> QED
    BY <1>4, <1>5, <2>1, <2>2
<1>6. ASSUME NEW w \in Workers, Respond(w), web[w] # NoRequest PROVE Result
  BY <1>0, <1>3, <1>6 DEF Respond
<1>7. ASSUME NEW w \in Workers, NEW step \in WebSteps, WebAt(w, step) PROVE web[w] # NoRequest
  BY <1>7, StepIsRequest
<1>8. ASSUME NEW w \in Workers, NEW u \in Browsers, Login(w, u) PROVE Result
  <2>1. CASE pointer[u] = NoGroup
    BY <1>0, <1>3, <1>8, <2>1 DEF Login
  <2>2. CASE pointer[u] # NoGroup
    <3>1. pointer[u] \in pushed /\ pointer[u] \in GroupIds
      BY <2>2, BackendAssumption, <1>0 DEF RegistryInv, OnlyPushed, TypeOK
    <3>2. Good([at |-> "web list", user |-> u, group |-> pointer[u], login |-> TRUE])
      BY <3>1 DEF WebRequest, WebSteps
    <3> HIDE DEF Result, Good
    <3> QED
      BY <1>4, <1>8, <2>2, <3>2 DEF Login
  <2> QED
    BY <2>1, <2>2
<1>9. ASSUME NEW w \in Workers, NEW u \in Browsers, DeleteFile(w, u) PROVE Result
  <2>1. session[u] \in pushed
    BY <1>0, <1>9 DEF DeleteFile, WebOK
  <2>2. Good([at |-> "web find", user |-> u, group |-> session[u], login |-> FALSE])
    BY <1>0, <2>1 DEF WebRequest, WebSteps
  <2> HIDE DEF Result, Good
  <2> QED
    BY <1>4, <1>9, <2>2 DEF DeleteFile
<1>10. ASSUME NEW u \in Browsers, Logout(u) PROVE Result
  BY <1>0, <1>3, <1>10 DEF Logout
<1>11. ASSUME NEW w \in Workers, Raise(w) PROVE Result
  BY <1>0, <1>3, <1>11 DEF Raise
<1>12. ASSUME NEW w \in Workers, Find(w) \/ Remove(w) \/ List(w) \/ Get(w) \/ Put(w) PROVE Result
  <2>1. web[w] # NoRequest
    BY <1>7, <1>12 DEF Find, Remove, List, Get, Put, WebSteps
  <2> HIDE DEF Result, Good
  <2> QED
    BY <1>5, <1>6, <1>12, <2>1 DEF Find, Remove, List, Get, Put, WebSteps
<1>13. ASSUME NEW w \in Workers, WebFail(w) PROVE Result
  <2>1. web[w] # NoRequest
    BY <1>13, StepIsRequest DEF WebFail, WebAt
  <2> HIDE DEF Result, Good
  <2> QED
    BY <1>0, <1>4, <1>6, <1>13, <2>1 DEF WebFail
<1> HIDE DEF Result
<1>14. Result
  BY <1>8, <1>9, <1>10, <1>12, <1>13, <1>11 DEF WebStep
<1> QED
  BY <1>2, <1>14 DEF Result

\* Both invariants together are inductive for the composed system.
LEMMA BackendInductive == RegistryInv /\ WebOK /\ [BackendNext]_bvars => (RegistryInv /\ WebOK)'
<1> SUFFICES ASSUME RegistryInv, WebOK, [BackendNext]_bvars
             PROVE  RegistryInv' /\ WebOK'
  OBVIOUS
<1>1. ASSUME BackendNext PROVE disturbed' \subseteq GroupIds /\ strewn' \subseteq GroupIds
  BY <1>1 DEF BackendNext, WebOK
<1>2. CASE BackendNext /\ WebStep
  BY <1>1, <1>2, WebPreservesRegistry, WebPreservesWeb
<1>3. CASE BackendNext /\ RegistryStep
  <2>1. RegistryInv'
    BY <1>3, NextInv DEF RegistryStep
  <2>2. pushed \subseteq pushed' /\ UNCHANGED <<session, web>>
    BY <1>3, PushedGrows DEF RegistryStep
  <2> QED
    BY <1>1, <1>3, <2>1, <2>2 DEF WebOK
<1>4. CASE UNCHANGED bvars
  BY <1>4, NextInv DEF bvars, hindsight, WebOK, vars, history
<1> QED
  BY <1>2, <1>3, <1>4 DEF BackendNext

LEMMA BackendStart == BackendInit => RegistryInv /\ WebOK
BY InitInv, WebRecord, BackendAssumption DEF BackendInit, WebOK, Init

\* In the whole backend too, whatever the file manager removes and puts back, the
\* registry keeps its invariant and sessions name groups that were created.
THEOREM BackendInvariant == BackendSpec => [](RegistryInv /\ WebOK)
BY BackendStart, BackendInductive, PTL DEF BackendSpec

\* The file manager stays within its types and works on created groups only.
THEOREM WebCorrectness == BackendSpec => []WebOK
BY BackendInvariant, PTL

\* The creator of a group stays in its list although the file manager's requests
\* interleave with joins, leaves and housekeeping.
THEOREM CreatorStaysMemberInBackend == BackendSpec => []CreatorIsMember
<1>1. RegistryInv => CreatorIsMember
  BY DEF RegistryInv
<1> QED
  BY <1>1, BackendInvariant, PTL

\* A file manager's request takes files away only where it deletes one.
LEMMA WebDestroys ==
    ASSUME WebStep, NEW g \in GroupIds, Destroys(g)
    PROVE  /\ Known(g)' /\ g \notin photos \ photos'
           /\ \E w \in Workers : WebAt(w, "web remove") /\ web[w].group = g
<1> USE DEF store, history, OnlyWeb, OnlyImages, vars
<1>1. UNCHANGED <<groups, photos>>
  BY DEF WebStep, Login, DeleteFile, Find, Remove, Raise, List, Get, Put, WebFail, Logout
<1>2. g \in images \ images'
  BY <1>1 DEF Destroys, Known
<1>3. PICK w \in Workers : Remove(w)
  BY <1>2 DEF WebStep, Login, DeleteFile, Find, Raise, List, Get, Put, WebFail, Logout
<1>4. WebAt(w, "web remove") /\ web[w].group = g
  BY <1>2, <1>3 DEF Remove
<1> QED
  BY <1>1, <1>4 DEF Destroys, Known

\* In the whole backend a recorded group is destroyed only after its end_time or
\* for its creator, and otherwise loses files only to a deletion in the file manager.
THEOREM BackendRightfulDestruction == BackendSpec => RightfulDestruction
<1> DEFINE Rightful(g) ==
      \/ g \in expired \/ BeingDeleted(g)
      \/ /\ Known(g)' /\ g \notin photos \ photos'
         /\ \E w \in Workers : WebAt(w, "web remove") /\ web[w].group = g
<1>1. ASSUME RegistryInv, BackendNext, NEW g \in GroupIds, Destroys(g)
      PROVE  Rightful(g)
  <2>1. CASE WebStep
    BY <1>1, <2>1, WebDestroys
  <2>2. CASE RegistryStep
    <3>1. PICK w \in Workers : /\ job[w].at \in OwnerSteps \union BatchSteps
                               /\ job[w].group = g
      BY <1>1, <2>2, WhoDestroys DEF RegistryStep
    <3>2. JobOK(job[w]) /\ Known(g)
      BY <1>1 DEF RegistryInv, Destroys
    <3> QED
      BY <3>1, <3>2 DEF JobOK, BeingDeleted
  <2> QED
    BY <1>1, <2>1, <2>2 DEF BackendNext
<1> HIDE DEF Rightful
<1>2. RegistryInv /\ [BackendNext]_bvars
        => [\A g \in GroupIds : Destroys(g) => Rightful(g)]_bvars
  BY <1>1
<1>3. BackendSpec => [][\A g \in GroupIds : Destroys(g) => Rightful(g)]_bvars
  BY <1>2, BackendInvariant, PTL DEF BackendSpec
<1> QED
  BY <1>3 DEF RightfulDestruction, Rightful

==============================================================================
